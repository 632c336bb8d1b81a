----------------------------- MODULE XZramStore -----------------------------
(***************************************************************************)
(* The state kept under /var/lib/xzram (pending.json, the snapshot index   *)
(* and the payload directories of the snapshots) and the runs that work on *)
(* it concurrently:                                                        *)
(*                                                                         *)
(*   - helpers started through pkexec by the CLI or the GUI;               *)
(*   - helpers started by xzramd, which holds its gate for the whole run;  *)
(*   - calls xzramd serves itself, under its gate.                         *)
(*                                                                         *)
(* helper.lock admits one helper at a time, however it was started.        *)
(* store.lock protects each read-modify-write of the store.  The gate is a *)
(* mutex inside one xzramd process: a restart of the daemon forgets it,    *)
(* while a helper it started goes on.                                      *)
(*                                                                         *)
(* A run performs one operation and ends.  One action is one step between  *)
(* two file-system effects that another process can observe.               *)
(***************************************************************************)
EXTENDS Naturals, Sequences, FiniteSets, SequencesExt, StagedSlots

CONSTANTS
  Pkexec,        \* helper runs started through pkexec
  Launched,      \* helper runs started by xzramd
  Calls,         \* calls xzramd performs inside its own process
  NoRun,         \* nobody holds the lock
  MaxSnapshots,  \* bound on the snapshots ever created
  MaxKeep,       \* bound on the argument of a prune
  MaxRestarts    \* bound on the restarts of xzramd

Helpers == Pkexec \cup Launched
Runs == Helpers \cup Calls

ASSUME RunsAssumption ==
  /\ NoRun \notin Runs
  /\ Pkexec \cap Launched = {}
  /\ Helpers \cap Calls = {}

ASSUME BoundsAssumption ==
  /\ MaxSnapshots \in Nat
  /\ MaxKeep \in Nat
  /\ MaxRestarts \in Nat

VARIABLES
  helperLock,   \* the helper holding the flock on helper.lock
  gate,         \* the run on whose behalf xzramd holds its gate
  storeLock,    \* the run holding the flock on store.lock
  pending,      \* the content of pending.json
  index,        \* the content of snapshots/index.json, newest first
  dirs,         \* the snapshots whose payload directory exists
  legacy,       \* a backup directory of an older version is waiting for import
  nextId,       \* the clock that names snapshots
  restarts,     \* how often xzramd was restarted
  pc,           \* what each run is about to do
  kind,         \* the operation of each run
  part,         \* the partial configuration it stages
  arg,          \* the snapshot it works on, or how many a prune keeps
  seen,         \* what it read from pending.json
  snap,         \* the snapshot it created or restores
  entries,      \* what it read from the index under store.lock
  victims,      \* the snapshots it still has to delete
  whole,        \* every payload file it wanted to restore was there
  result        \* how it ended

locks  == <<helperLock, gate, storeLock>>
disk   == <<pending, index, dirs, legacy, nextId>>
inputs == <<kind, part, arg>>
locals == <<seen, snap, entries, victims, whole>>
vars   == <<locks, disk, restarts, pc, inputs, locals, result>>

Triggers == {"pre_apply", "manual", "app_open"}
Ids      == 1..MaxSnapshots
Entry    == [id: Ids, trigger: Triggers]

\* The operations, by who may be asked to perform them (main.rs, direct.rs and
\* the methods of the D-Bus interface).
Staging    == {"stage", "stage_apply"}
Applying   == {"apply", "stage_apply"}
Capturing  == {"create_manual", "create_app_open"}
Restoring  == {"rollback", "restore"}
Deleting   == {"delete", "prune"}
CallKinds     == {"stage", "clear"} \cup Capturing \cup Deleting
LaunchedKinds == {"apply", "direct"} \cup Restoring
PkexecKinds   == CallKinds \cup LaunchedKinds \cup {"stage_apply"}

KindsOf(r) == IF r \in Pkexec THEN PkexecKinds
              ELSE IF r \in Launched THEN LaunchedKinds
              ELSE CallKinds

IdsIn(s) == {s[i].id : i \in DOMAIN s}

-----------------------------------------------------------------------------
(* Steps every operation is built from.                                    *)

Goto(r, label) == pc' = [pc EXCEPT ![r] = label]

\* The operation is over: what is left is to leave the process.
End(r, how) ==
  /\ Goto(r, "exit")
  /\ result' = [result EXCEPT ![r] = how]

Unlock == storeLock' = NoRun

\* What a process knew goes with it.
Forget(gone) ==
  /\ kind' = [r \in Runs |-> IF r \in gone THEN "none" ELSE kind[r]]
  /\ part' = [r \in Runs |-> IF r \in gone THEN NothingStaged ELSE part[r]]
  /\ arg' = [r \in Runs |-> IF r \in gone THEN 0 ELSE arg[r]]
  /\ seen' = [r \in Runs |-> IF r \in gone THEN NothingStaged ELSE seen[r]]
  /\ snap' = [r \in Runs |-> IF r \in gone THEN 0 ELSE snap[r]]
  /\ entries' = [r \in Runs |-> IF r \in gone THEN <<>> ELSE entries[r]]
  /\ victims' = [r \in Runs |-> IF r \in gone THEN <<>> ELSE victims[r]]
  /\ whole' = [r \in Runs |-> IF r \in gone THEN TRUE ELSE whole[r]]
  /\ result' = [r \in Runs |-> IF r \in gone THEN "none" ELSE result[r]]

FirstStep == [stage |-> "stage_lock", stage_apply |-> "stage_lock",
              clear |-> "clear_lock", apply |-> "load", direct |-> "snap_lock",
              create_manual |-> "snap_lock", create_app_open |-> "snap_lock",
              rollback |-> "latest", restore |-> "find",
              delete |-> "delete_lock", prune |-> "delete_lock"]

\* The first step of each block that with_store_lock protects.
Protected == [stage_lock  |-> "stage_read",
              snap_lock   |-> "snap_import",
              clear_lock  |-> "clear_write",
              delete_lock |-> "delete_read"]

\* Steps during which the run holds store.lock.
InStore == {"stage_read", "stage_write", "snap_import", "import_index",
            "import_remove", "snap_dir", "snap_write",
            "clear_write", "delete_read", "delete_index", "delete_dir"}

\* Steps of a restore, asked for or automatic.
InRestore == {"find", "open", "copy"}

Labels == {"idle", "gate", "helper_lock", "begin", "load", "mutate",
           "latest", "exit", "done"}
            \cup DOMAIN Protected \cup InStore \cup InRestore

-----------------------------------------------------------------------------
(* Starting, queueing for the gate and for helper.lock, leaving.           *)

Init ==
  /\ helperLock = NoRun /\ gate = NoRun /\ storeLock = NoRun
  /\ pending \in Config
  /\ index = <<>> /\ dirs = {} /\ legacy \in BOOLEAN
  /\ nextId = 1 /\ restarts = 0
  /\ pc = [r \in Runs |-> "idle"]
  /\ kind = [r \in Runs |-> "none"]
  /\ part = [r \in Runs |-> NothingStaged]
  /\ arg = [r \in Runs |-> 0]
  /\ seen = [r \in Runs |-> NothingStaged]
  /\ snap = [r \in Runs |-> 0]
  /\ entries = [r \in Runs |-> <<>>]
  /\ victims = [r \in Runs |-> <<>>]
  /\ whole = [r \in Runs |-> TRUE]
  /\ result = [r \in Runs |-> "none"]

\* A user asks for operation k.  Snapshots are named among those that exist or
\* existed: the list the user picked from may be out of date.
Start(r) ==
  /\ pc[r] = "idle"
  /\ \E k \in KindsOf(r) :
       /\ kind' = [kind EXCEPT ![r] = k]
       /\ \/ k \in Staging /\ \E p \in Config : part' = [part EXCEPT ![r] = p]
          \/ k \notin Staging /\ UNCHANGED part
       /\ \/ k = "prune" /\ \E n \in 0..MaxKeep : arg' = [arg EXCEPT ![r] = n]
          \/ k \in {"restore", "delete"}
               /\ \E n \in 1..(nextId - 1) : arg' = [arg EXCEPT ![r] = n]
          \/ k \notin {"prune", "restore", "delete"} /\ UNCHANGED arg
  /\ Goto(r, IF r \in Pkexec THEN "helper_lock" ELSE "gate")
  /\ UNCHANGED <<locks, disk, restarts, locals, result>>

\* Mutant: a call of xzramd queues for helper.lock too.
CallsQueueForHelperLock(r) ==
  /\ pc[r] = "gate"
  /\ gate = NoRun
  /\ gate' = r
  /\ Goto(r, "helper_lock")
  /\ UNCHANGED <<helperLock, storeLock, disk, restarts, inputs, locals, result>>

TakeGate(r) ==
  /\ pc[r] = "gate"
  /\ gate = NoRun
  /\ gate' = r
  /\ Goto(r, IF r \in Launched THEN "helper_lock" ELSE "begin")
  /\ UNCHANGED <<helperLock, storeLock, disk, restarts, inputs, locals, result>>

\* Mutant: deleting snapshots does not wait for helper.lock.
DeleteBargesIn(r) ==
  /\ pc[r] = "helper_lock"
  /\ helperLock = NoRun \/ kind[r] \in Deleting
  /\ helperLock' = r
  /\ Goto(r, "begin")
  /\ UNCHANGED <<gate, storeLock, disk, restarts, inputs, locals, result>>

\* Mutant: staging does not wait for helper.lock.
StageBargesIn(r) ==
  /\ pc[r] = "helper_lock"
  /\ helperLock = NoRun \/ kind[r] = "stage"
  /\ helperLock' = r
  /\ Goto(r, "begin")
  /\ UNCHANGED <<gate, storeLock, disk, restarts, inputs, locals, result>>

TakeHelperLock(r) ==
  /\ pc[r] = "helper_lock"
  /\ helperLock = NoRun
  /\ helperLock' = r
  /\ Goto(r, "begin")
  /\ UNCHANGED <<gate, storeLock, disk, restarts, inputs, locals, result>>

\* Parsing and validating the payload either lets the operation begin or ends
\* it; a prune that would keep nothing is always refused.
Begin(r) ==
  /\ pc[r] = "begin"
  /\ \/ /\ ~(kind[r] = "prune" /\ arg[r] = 0)
        /\ Goto(r, FirstStep[kind[r]])
        /\ UNCHANGED result
     \/ End(r, "error")
  /\ UNCHANGED <<locks, disk, restarts, inputs, locals>>

\* Mutant: the gate stays with a run that is over.
LeaveWithGate(r) ==
  /\ pc[r] = "exit"
  /\ Goto(r, "done")
  /\ helperLock' = IF helperLock = r THEN NoRun ELSE helperLock
  /\ Forget({r})
  /\ UNCHANGED <<gate, storeLock, disk, restarts>>

\* The helper process ends and the kernel drops its flocks; xzramd releases its
\* gate when systemd-run --wait has returned.
Exit(r) ==
  /\ pc[r] = "exit"
  /\ Goto(r, "done")
  /\ helperLock' = IF helperLock = r THEN NoRun ELSE helperLock
  /\ gate' = IF gate = r THEN NoRun ELSE gate
  /\ Forget({r})
  /\ UNCHANGED <<storeLock, disk, restarts>>

\* Mutant: store.lock is taken shared.
TakeStoreLockShared(r) ==
  /\ pc[r] \in DOMAIN Protected
  /\ storeLock' = r
  /\ Goto(r, Protected[pc[r]])
  /\ UNCHANGED <<helperLock, gate, disk, restarts, inputs, locals, result>>

TakeStoreLock(r) ==
  /\ pc[r] \in DOMAIN Protected
  /\ storeLock = NoRun
  /\ storeLock' = r
  /\ Goto(r, Protected[pc[r]])
  /\ UNCHANGED <<helperLock, gate, disk, restarts, inputs, locals, result>>

-----------------------------------------------------------------------------
(* pending.json                                                            *)

StageRead(r) ==
  /\ pc[r] = "stage_read"
  /\ seen' = [seen EXCEPT ![r] = pending]
  /\ Goto(r, "stage_write")
  /\ UNCHANGED <<locks, disk, restarts, inputs, snap, entries, victims, whole, result>>

\* The merged configuration replaces the file; a bundle goes on to apply it.
StageWrite(r) ==
  /\ pc[r] = "stage_write"
  /\ pending' = Overlay(seen[r], part[r])
  /\ Unlock
  /\ \/ kind[r] \in Applying /\ Goto(r, "load") /\ UNCHANGED result
     \/ kind[r] \notin Applying /\ End(r, "ok")
  /\ UNCHANGED <<helperLock, gate, index, dirs, legacy, nextId, restarts, inputs, locals>>

\* clear_pending, asked for or at the end of a successful apply.
ClearWrite(r) ==
  /\ pc[r] = "clear_write"
  /\ pending' = NothingStaged
  /\ Unlock
  /\ End(r, "ok")
  /\ UNCHANGED <<helperLock, gate, index, dirs, legacy, nextId, restarts, inputs, locals>>

\* apply_pending reads the file without taking store.lock.
Load(r) ==
  /\ pc[r] = "load"
  /\ \/ /\ pending # NothingStaged
        /\ seen' = [seen EXCEPT ![r] = pending]
        /\ Goto(r, "snap_lock")
        /\ UNCHANGED result
     \/ /\ pending = NothingStaged
        /\ End(r, "error")
        /\ UNCHANGED seen
  /\ UNCHANGED <<locks, disk, restarts, inputs, snap, entries, victims, whole>>

-----------------------------------------------------------------------------
(* Taking a snapshot: payload directory first, index entry last.           *)

FreshDir(r) ==
  /\ nextId <= MaxSnapshots
  /\ dirs' = dirs \cup {nextId}
  /\ snap' = [snap EXCEPT ![r] = nextId]
  /\ nextId' = nextId + 1
  /\ entries' = [entries EXCEPT ![r] = index]

TriggerOf(k) == CASE k = "create_manual"   -> "manual"
                  [] k = "create_app_open" -> "app_open"
                  [] OTHER                 -> "pre_apply"

\* A legacy backup is imported before anything else.
SnapImport(r) ==
  /\ pc[r] = "snap_import"
  /\ \/ legacy /\ FreshDir(r) /\ Goto(r, "import_index")
     \/ ~legacy /\ Goto(r, "snap_dir") /\ UNCHANGED <<dirs, nextId, snap, entries>>
  /\ UNCHANGED <<locks, pending, index, legacy, restarts, inputs, seen, victims,
                 whole, result>>

\* The import is entered as the oldest snapshot, whatever its name says.
ImportIndex(r) ==
  /\ pc[r] = "import_index"
  /\ index' = Append(entries[r], [id |-> snap[r], trigger |-> "manual"])
  /\ Goto(r, "import_remove")
  /\ UNCHANGED <<locks, pending, dirs, legacy, nextId, restarts, inputs, locals, result>>

ImportRemove(r) ==
  /\ pc[r] = "import_remove"
  /\ legacy' = FALSE
  /\ Goto(r, "snap_dir")
  /\ UNCHANGED <<locks, pending, index, dirs, nextId, restarts, inputs, locals, result>>

\* An app_open snapshot equal to the newest one is not taken.  Whether the
\* system has changed since is left open.
SnapDir(r) ==
  /\ pc[r] = "snap_dir"
  /\ \/ FreshDir(r) /\ Goto(r, "snap_write") /\ UNCHANGED <<storeLock, result>>
     \/ /\ kind[r] = "create_app_open" /\ index # <<>>
        /\ Unlock /\ End(r, "ok")
        /\ UNCHANGED <<dirs, nextId, snap, entries>>
  /\ UNCHANGED <<helperLock, gate, pending, index, legacy, restarts, inputs, seen,
                 victims, whole>>

\* Mutant: the new snapshot is pushed at the end of the index.
AppendSnapshot(r) ==
  /\ pc[r] = "snap_write"
  /\ index' = Append(entries[r], [id |-> snap[r], trigger |-> TriggerOf(kind[r])])
  /\ Unlock
  /\ \/ kind[r] \in Capturing /\ End(r, "ok")
     \/ kind[r] \notin Capturing /\ Goto(r, "mutate") /\ UNCHANGED result
  /\ UNCHANGED <<helperLock, gate, pending, dirs, legacy, nextId, restarts, inputs, locals>>

SnapWrite(r) ==
  /\ pc[r] = "snap_write"
  /\ index' = Cons([id |-> snap[r], trigger |-> TriggerOf(kind[r])], entries[r])
  /\ Unlock
  /\ \/ kind[r] \in Capturing /\ End(r, "ok")
     \/ kind[r] \notin Capturing /\ Goto(r, "mutate") /\ UNCHANGED result
  /\ UNCHANGED <<helperLock, gate, pending, dirs, legacy, nextId, restarts, inputs, locals>>

\* The change to the running system, which module XZramHost looks into.  An
\* apply that fails restores the snapshot it took; a direct action does not.
Mutate(r) ==
  /\ pc[r] = "mutate"
  /\ \/ kind[r] \in Applying /\ UNCHANGED result
          /\ (Goto(r, "clear_lock") \/ Goto(r, "find"))
     \/ kind[r] = "direct" /\ (End(r, "ok") \/ End(r, "error"))
  /\ UNCHANGED <<locks, disk, restarts, inputs, locals>>

-----------------------------------------------------------------------------
(* Restoring a snapshot, without store.lock.                               *)

Target(r) == IF kind[r] = "restore" THEN arg[r] ELSE snap[r]

\* Entry i is the first of the index that was taken before a change.
IsNewestPreApply(i) ==
  /\ i \in DOMAIN index /\ index[i].trigger = "pre_apply"
  /\ \A j \in DOMAIN index : index[j].trigger = "pre_apply" => i <= j

\* rollback restores the newest pre_apply snapshot.
Latest(r) ==
  /\ pc[r] = "latest"
  /\ \/ /\ \E i \in DOMAIN index :
             IsNewestPreApply(i) /\ snap' = [snap EXCEPT ![r] = index[i].id]
        /\ Goto(r, "find")
        /\ UNCHANGED result
     \/ /\ \A i \in DOMAIN index : index[i].trigger # "pre_apply"
        /\ End(r, "error")
        /\ UNCHANGED snap
  /\ UNCHANGED <<locks, disk, restarts, inputs, seen, entries, victims, whole>>

Find(r) ==
  /\ pc[r] = "find"
  /\ \/ Target(r) \in IdsIn(index) /\ Goto(r, "open") /\ UNCHANGED result
     \/ Target(r) \notin IdsIn(index) /\ End(r, "error")
  /\ UNCHANGED <<locks, disk, restarts, inputs, locals>>

Open(r) ==
  /\ pc[r] = "open"
  /\ \/ Target(r) \in dirs /\ Goto(r, "copy") /\ UNCHANGED result
     \/ Target(r) \notin dirs /\ End(r, "error")
  /\ UNCHANGED <<locks, disk, restarts, inputs, locals>>

\* A payload file that is gone by now is skipped without an error.
Copy(r) ==
  /\ pc[r] = "copy"
  /\ whole' = [whole EXCEPT ![r] = Target(r) \in dirs]
  /\ End(r, IF kind[r] \in Restoring THEN "ok" ELSE "error")
  /\ UNCHANGED <<locks, disk, restarts, inputs, seen, snap, entries, victims>>

-----------------------------------------------------------------------------
(* Deleting snapshots: index entry first, payload directory last.          *)

\* Mutant: the last of the entries to keep goes too.
BeyondButOne(keep) == [i \in 1..(Len(index) - keep) |-> index[keep + i - 1].id]

Beyond(keep) == [i \in 1..(Len(index) - keep) |-> index[keep + i].id]

DeleteRead(r) ==
  /\ pc[r] = "delete_read"
  /\ entries' = [entries EXCEPT ![r] = index]
  /\ \/ /\ kind[r] = "delete" /\ arg[r] \in IdsIn(index)
        /\ victims' = [victims EXCEPT ![r] = <<arg[r]>>]
        /\ Goto(r, "delete_index") /\ UNCHANGED <<storeLock, result>>
     \/ /\ kind[r] = "prune" /\ Len(index) > arg[r]
        /\ victims' = [victims EXCEPT ![r] = Beyond(arg[r])]
        /\ Goto(r, "delete_index") /\ UNCHANGED <<storeLock, result>>
     \/ /\ kind[r] = "delete" /\ arg[r] \notin IdsIn(index)
        /\ Unlock /\ End(r, "error") /\ UNCHANGED victims
     \/ /\ kind[r] = "prune" /\ Len(index) <= arg[r]
        /\ Unlock /\ End(r, "ok") /\ UNCHANGED victims
  /\ UNCHANGED <<helperLock, gate, disk, restarts, inputs, seen, snap, whole>>

\* Mutant: the index is written once, after the last payload directory.
DeleteIndexLate(r) ==
  /\ pc[r] = "delete_index"
  /\ \E i \in 1..Len(entries[r]) :
       /\ entries[r][i].id = Head(victims[r])
       /\ entries' = [entries EXCEPT ![r] = RemoveAt(entries[r], i)]
       /\ index' = IF Len(victims[r]) = 1 THEN RemoveAt(entries[r], i) ELSE index
  /\ Goto(r, "delete_dir")
  /\ UNCHANGED <<locks, pending, dirs, legacy, nextId, restarts, inputs, seen, snap,
                 victims, whole, result>>

DeleteIndex(r) ==
  /\ pc[r] = "delete_index"
  /\ \E i \in 1..Len(entries[r]) :
       /\ entries[r][i].id = Head(victims[r])
       /\ index' = RemoveAt(entries[r], i)
  /\ entries' = [entries EXCEPT ![r] = index']
  /\ Goto(r, "delete_dir")
  /\ UNCHANGED <<locks, pending, dirs, legacy, nextId, restarts, inputs, seen, snap,
                 victims, whole, result>>

DeleteDir(r) ==
  /\ pc[r] = "delete_dir"
  /\ dirs' = dirs \ {Head(victims[r])}
  /\ victims' = [victims EXCEPT ![r] = Tail(victims[r])]
  /\ \/ Tail(victims[r]) # <<>> /\ Goto(r, "delete_index") /\ UNCHANGED <<storeLock, result>>
     \/ Tail(victims[r]) = <<>> /\ Unlock /\ End(r, "ok")
  /\ UNCHANGED <<helperLock, gate, pending, index, legacy, nextId, restarts, inputs,
                 seen, snap, entries, whole>>

-----------------------------------------------------------------------------
(* Failures.                                                               *)

\* Every file operation of the store can fail; the error ends the operation and
\* with_store_lock lets go of the lock.
IoError(r) ==
  /\ pc[r] \in DOMAIN Protected \cup InStore \cup InRestore \cup {"load", "latest"}
  /\ storeLock' = IF storeLock = r THEN NoRun ELSE storeLock
  /\ End(r, "error")
  /\ UNCHANGED <<helperLock, gate, disk, restarts, inputs, locals>>

\* A helper is killed (RuntimeMaxSec, out of memory); whoever asked sees a failure.
Kill(r) ==
  /\ r \in Helpers
  /\ pc[r] \notin {"idle", "gate", "exit", "done"}
  /\ storeLock' = IF storeLock = r THEN NoRun ELSE storeLock
  /\ End(r, "error")
  /\ UNCHANGED <<helperLock, gate, disk, restarts, inputs, locals>>

\* xzramd stops and starts again.  Its own calls die, and so do the helpers it
\* had not started yet; the helpers it had started go on without a gate.
Dies(r) == \/ r \in Calls /\ pc[r] \notin {"idle", "done"}
           \/ r \in Launched /\ pc[r] = "gate"

\* Mutant: helper.lock is held by xzramd for the helpers it starts.
RestartDropsHelperLock ==
  /\ restarts < MaxRestarts
  /\ restarts' = restarts + 1
  /\ gate' = NoRun
  /\ storeLock' = IF storeLock \in Calls THEN NoRun ELSE storeLock
  /\ helperLock' = IF helperLock \in Launched THEN NoRun ELSE helperLock
  /\ pc' = [r \in Runs |-> IF Dies(r) THEN "done" ELSE pc[r]]
  /\ Forget({r \in Runs : Dies(r)})
  /\ UNCHANGED disk

RestartDaemon ==
  /\ restarts < MaxRestarts
  /\ restarts' = restarts + 1
  /\ gate' = NoRun
  /\ storeLock' = IF storeLock \in Calls THEN NoRun ELSE storeLock
  /\ pc' = [r \in Runs |-> IF Dies(r) THEN "done" ELSE pc[r]]
  /\ Forget({r \in Runs : Dies(r)})
  /\ UNCHANGED <<helperLock, disk>>

-----------------------------------------------------------------------------

StoreStep(r) == StageRead(r) \/ StageWrite(r) \/ ClearWrite(r) \/ Load(r)
SnapStep(r) == SnapImport(r) \/ ImportIndex(r) \/ ImportRemove(r) \/ SnapDir(r) \/ SnapWrite(r)
RestoreStep(r) == Latest(r) \/ Find(r) \/ Open(r) \/ Copy(r)
DeleteStep(r) == DeleteRead(r) \/ DeleteIndex(r) \/ DeleteDir(r)

\* What a run does by itself once it has been asked for something.
Step(r) ==
  \/ TakeGate(r) \/ TakeHelperLock(r) \/ Begin(r) \/ TakeStoreLock(r) \/ Exit(r)
  \/ StoreStep(r) \/ SnapStep(r) \/ Mutate(r) \/ RestoreStep(r) \/ DeleteStep(r)

Terminated == (\A r \in Runs : pc[r] \in {"idle", "done"}) /\ UNCHANGED vars

Next ==
  \/ \E r \in Runs : Start(r) \/ Step(r) \/ IoError(r) \/ Kill(r)
  \/ RestartDaemon
  \/ Terminated

Spec == Init /\ [][Next]_vars

\* A process that can run does run.  Nobody is obliged to ask for anything, to
\* fail or to restart the daemon.
FairSpec == Spec /\ \A r \in Runs : WF_vars(Step(r))

-----------------------------------------------------------------------------

TypeOK ==
  /\ helperLock \in Helpers \cup {NoRun}
  /\ gate \in Launched \cup Calls \cup {NoRun}
  /\ storeLock \in Runs \cup {NoRun}
  /\ pending \in Config
  /\ index \in Seq(Entry)
  /\ dirs \in SUBSET Ids
  /\ legacy \in BOOLEAN
  /\ nextId \in 1..(MaxSnapshots + 1)
  /\ restarts \in 0..MaxRestarts
  /\ pc \in [Runs -> Labels]
  /\ kind \in [Runs -> PkexecKinds \cup {"none"}]
  /\ part \in [Runs -> Config]
  /\ arg \in [Runs -> Nat]
  /\ seen \in [Runs -> Config]
  /\ snap \in [Runs -> Nat]
  /\ entries \in [Runs -> Seq(Entry)]
  /\ victims \in [Runs -> Seq(Ids)]
  /\ whole \in [Runs -> BOOLEAN]
  /\ result \in [Runs -> {"none", "ok", "error"}]

\* A snapshot on offer can be opened: its payload directory exists from before
\* its index entry is written until after the entry is gone, and a crash or an
\* I/O error at any step leaves at worst a directory without an entry
\* (create_snapshot, delete_snapshot_unlocked, prune_snapshots).
IndexedHavePayload == IdsIn(index) \subseteq dirs

\* No snapshot is listed twice, and apart from imported backups the list runs
\* from the newest to the oldest: rollback and prune take the order on trust.
\* (An import is the only manual entry that can follow an older one.)
NewestFirst ==
  \A i, j \in 1..Len(index) :
    i < j => /\ index[i].id # index[j].id
             /\ index[j].trigger = "pre_apply" => index[i].id > index[j].id

\* A prune removes nothing but what was beyond the entries it was asked to keep.
PruneKeepsNewest ==
  [][\A r \in Runs :
       (kind[r] = "prune" /\ pc[r] = "delete_index" /\ pc'[r] = "delete_dir")
         => SubSeq(index', 1, arg[r]) = SubSeq(index, 1, arg[r])]_vars

\* Runs seen from outside: each write of the store is one whole operation on
\* the latest state, so no update is computed from a stale read.
Store == INSTANCE SnapshotStore WITH staged <- pending, catalogue <- index, SnapIds <- Ids

StoreIsAtomic == Store!Spec

\* A successful apply discards nothing that it has not applied: every decision
\* it finds in pending.json at the end is the one it loaded at the start
\* (apply_pending, clear_pending).
NoStagedChangeDropped ==
  [][\A r \in Runs :
       (kind[r] \in Applying /\ pc[r] = "clear_write" /\ result'[r] = "ok" /\ result[r] = "none")
         => \A s \in Slots : pending[s] \in {Unset, seen[r][s]}]_vars

\* From the moment a run has taken its pre_apply snapshot until it is over, that
\* snapshot is complete and is the one a rollback would restore.
Changing == {"mutate", "clear_lock", "clear_write"} \cup InRestore
RollbackTargetKept ==
  \A r \in Helpers :
    (kind[r] \in Applying \cup {"direct"} /\ pc[r] \in Changing)
      => /\ \E i \in DOMAIN index : IsNewestPreApply(i) /\ index[i].id = snap[r]
         /\ snap[r] \in dirs

\* A restore that reports success found every payload file it wanted.
SuccessfulRestoreIsWhole ==
  \A r \in Runs : (kind[r] \in Restoring /\ result[r] = "ok") => whole[r]

\* At most one helper is at work, however the helpers were started and even
\* when xzramd has been restarted under one of them.
AtWork(r) == pc[r] \notin {"idle", "gate", "helper_lock", "exit", "done"}
OneHelperAtWork == \A r, q \in Helpers : AtWork(r) /\ AtWork(q) => r = q

\* Whatever has been asked for ends, whoever else runs, fails or is killed: no
\* order of taking the gate, helper.lock and store.lock leaves a run waiting.
EveryRunEnds == <>[](\A r \in Runs : pc[r] \in {"idle", "done"})

=============================================================================
