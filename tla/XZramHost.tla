------------------------------ MODULE XZramHost ------------------------------
(***************************************************************************)
(* What one helper run does to the host: swapfiles, /etc/fstab, the        *)
(* drop-ins under /etc and the running kernel.                             *)
(*                                                                         *)
(* An apply or a direct action takes a snapshot, carries out its steps one *)
(* by one and stops at the first that fails; an apply then restores the    *)
(* snapshot it took.  A rollback restores an earlier snapshot.  Any step   *)
(* can fail and the helper can be killed before any step.                  *)
(*                                                                         *)
(* One helper works at a time (OneHelperAtWork of XZramStore), so there is *)
(* a single run; todo is what it still has to do.                          *)
(***************************************************************************)
EXTENDS Naturals, Sequences, FiniteSets, SequencesExt

CONSTANTS
  Asked,        \* the changes that can be asked for
  Paths,        \* the places a swapfile can be
  MaxSize,      \* sizes of swapfiles are 1..MaxSize; 0 is a missing file
  Contents,     \* what a zram or sysctl drop-in can say
  Absent,       \* there is no such drop-in
  Off,          \* zram: the empty override; a device that is not running
  Unset,        \* a part of a change that is left alone
  Nowhere,      \* the path of a step that has none
  SameSecond,   \* two snapshots or files can be created within one second
  MaxOps,       \* bound on the operations performed
  MaxFaults     \* bound on the failures and kills injected

ASSUME HostAssumption ==
  /\ MaxSize \in Nat /\ MaxOps \in Nat /\ MaxFaults \in Nat
  /\ SameSecond \in BOOLEAN
  /\ Absent # Off /\ Off # Unset /\ Unset # Absent
  /\ {Absent, Off, Unset} \cap Contents = {}
  /\ Nowhere \notin Paths
  /\ IsFiniteSet(Paths)

VARIABLES
  file,      \* the size of each swapfile
  header,    \* the size each swapfile is formatted for
  sparse,    \* the swapfiles with holes
  sibling,   \* the size of the staging file beside each swapfile
  born,      \* how many snapshots existed when the file was created
  fstab,     \* the swapfiles listed in /etc/fstab
  active,    \* the swapfiles listed in /proc/swaps
  etc,       \* the zram and sysctl drop-ins
  live,      \* the zram device and the sysctl values of the running kernel
  snaps,     \* the snapshots, the oldest first
  job,       \* the operation: what it is, its change, its snapshot, and
             \* (history) whether its change was acceptable at the start
  todo,      \* the steps it still has to do
  phase,     \* idle, work, restore
  outcome,   \* how the last operation ended
  ops, faults

disk    == <<file, header, sparse, sibling, born>>
swaps   == <<fstab, active>>
config  == <<etc, live>>
control == <<job, phase, outcome, ops, snaps>>
vars    == <<disk, swaps, config, control, todo, faults>>

Sizes    == 1..MaxSize
Settings == {"zram", "sysctl"}

NoSwap == [do |-> "none", on |-> Nowhere, to |-> 0]

SwapChange == [do: {"create", "resize"}, on: Paths, to: Sizes]
                \cup [do: {"remove", "on", "off"}, on: Paths, to: {0}]
                \cup {NoSwap}

\* What can be staged, and what a direct action can ask for.
Change == [zram: Contents \cup {Unset, Off}, sysctl: Contents \cup {Unset}, swap: SwapChange]
NoChange == [zram |-> Unset, sysctl |-> Unset, swap |-> NoSwap]

StagedChanges == {c \in Asked : c # NoChange /\ c.swap.do \notin {"on", "off"}}
DirectChanges == {c \in Asked :
                    Cardinality({part \in DOMAIN c : c[part] # NoChange[part]}) = 1}

ASSUME AskedAssumption == Asked \subseteq Change

-----------------------------------------------------------------------------
(* Steps and plans.  A step that fails is followed by its undo, if any, and *)
(* the operation fails.                                                    *)

Step(what, path, arg) == [do |-> what, on |-> path, to |-> arg, undo |-> <<>>]
OrElse(step, steps) == [step EXCEPT !.undo = steps]
ForEach(what, paths, arg) ==
  LET seq == SetToSeq(paths)
  IN  [i \in DOMAIN seq |-> Step(what, seq[i], arg)]

Fails == Step("fail", Nowhere, 0)

CreateSteps(p, n) ==
  <<Step("build", p, n), Step("rename", p, 0), Step("swapon", p, 0), Step("list", p, 0)>>

\* Mutant: the file is deleted while fstab still lists it.
UnlinkFirst(p) ==
  <<Step("swapoff", p, 0), Step("unlink", p, 0), Step("unlist", p, 0)>>

RemoveSteps(p) ==
  <<Step("swapoff", p, 0), Step("unlist", p, 0), Step("unlink", p, 0)>>

\* Mutant: the old file makes room for the new one.
UnlinkThenBuild(p, n) ==
  <<Step("swapoff", p, 0), Step("unlink", p, 0), Step("build", p, n),
    Step("rename", p, 0), Step("swapon", p, 0)>>

\* The new file is complete before the old one is touched.
StagedSteps(p, n) ==
  LET back == IF p \in active THEN <<Step("try_swapon", p, 0)>> ELSE <<>>
      drop == Step("discard", p, 0)
  IN  <<Step("build", p, n),
        OrElse(Step("swapoff", p, 0), <<drop>>),
        OrElse(Step("rename", p, 0), <<drop>> \o back),
        Step("swapon", p, 0)>>

\* Mutant: the file is resized while it is in use.
ResizeActive(p, n) ==
  LET restore == <<Step("set_len", p, file[p]), Step("mkswap", p, 0), Step("swapon", p, 0)>>
  IN  <<OrElse(Step("allocate", p, n), restore), OrElse(Step("mkswap", p, 0), restore)>>

\* The file itself is cut or grown; a failure puts the old size back.
InPlaceSteps(p, n) ==
  LET restore == <<Step("set_len", p, file[p]), Step("mkswap", p, 0), Step("swapon", p, 0)>>
  IN  <<Step("swapoff", p, 0),
        OrElse(Step("allocate", p, n), restore),
        OrElse(Step("mkswap", p, 0), restore),
        OrElse(Step("swapon", p, 0), restore)>>

\* Mutant: a part that was not asked for is written too.
ZramAlways(v) == <<Step("write_zram", Nowhere, v), Step("start_zram", Nowhere, 0)>>

ZramSteps(v) ==
  IF v = Unset THEN <<>>
  ELSE IF v = Off
       THEN <<OrElse(Step("stop_zram", Nowhere, 0), <<Step("write_zram", Nowhere, Off)>>),
              Step("write_zram", Nowhere, Off)>>
       ELSE <<Step("write_zram", Nowhere, v), Step("start_zram", Nowhere, 0)>>

\* swap.activate takes block devices only, which are not modelled.  Switching a
\* swapfile on or off stands for an administrator who does it by hand between two
\* operations, with a snapshot that such a command would not take.
SwapSteps(c) ==
  IF c.do = "none" THEN <<>>
  ELSE IF c.do = "on" THEN <<Step("swapon", c.on, 0)>>
  ELSE IF c.do = "off" THEN <<Step("swapoff_now", c.on, 0)>>
  ELSE <<Step(c.do, c.on, c.to)>>

SysctlSteps(v) ==
  IF v = Unset THEN <<>>
  ELSE <<Step("write_sysctl", Nowhere, v), Step("load_sysctl", Nowhere, 0)>>

\* zram first, then the swapfile, then sysctl.
ApplySteps(c) == ZramSteps(c.zram) \o SwapSteps(c.swap) \o SysctlSteps(c.sysctl)

Snapshot == [etc |-> etc, listed |-> fstab,
             size |-> [p \in Paths |-> IF p \in fstab THEN file[p] ELSE 0]]

RestoreSteps(k, extra) ==
  LET meta == snaps[k]
  IN  ForEach("swapoff", meta.listed, 0) \o ForEach("swapoff", extra, 0)
        \o <<Step("zram_swapoff", Nowhere, 0),
             Step("write_zram", Nowhere, meta.etc["zram"]),
             Step("put_fstab", Nowhere, k),
             Step("write_sysctl", Nowhere, meta.etc["sysctl"])>>
        \o ForEach("unlink", extra, 0)
        \o ForEach("recreate", meta.listed, k)
        \o <<IF meta.etc["zram"] # Absent THEN Step("start_zram", Nowhere, 0)
                                          ELSE Step("stop_zram", Nowhere, 0),
             Step("reload_sysctl", Nowhere, 0)>>
        \o ForEach("try_swapon", meta.listed, 0)

-----------------------------------------------------------------------------
(* An operation from its start to its end.                                 *)

Init ==
  /\ file \in [Paths -> 0..MaxSize]
  /\ header = file /\ sparse = {}
  /\ sibling = [p \in Paths |-> 0]
  /\ born = [p \in Paths |-> 0]
  /\ fstab \in SUBSET {p \in Paths : file[p] > 0}
  /\ active \in SUBSET {p \in Paths : file[p] > 0}
  /\ etc \in [zram: Contents \cup {Absent, Off}, sysctl: Contents \cup {Absent}]
  /\ live = [s \in Settings |-> IF etc[s] \in Contents THEN etc[s] ELSE Off]
  /\ snaps = <<>>
  /\ job = [op |-> "none", change |-> NoChange, snap |-> 0, sound |-> TRUE]
  /\ todo = <<>> /\ phase = "idle" /\ outcome = "none"
  /\ ops = 0 /\ faults = 0

\* A swapfile is not created over an active one, and is removed only if fstab
\* or /proc/swaps knows it.
Accepted(swap) ==
  /\ swap.do = "create" => swap.on \notin active
  /\ swap.do = "remove" => swap.on \in fstab \cup active

\* The snapshot is taken before the first step; an apply or a direct action
\* that cannot take it changes nothing.
Begin(op, c) ==
  /\ phase = "idle" /\ ops < MaxOps
  /\ ops' = ops + 1
  /\ snaps' = Append(snaps, Snapshot)
  /\ job' = [op |-> op, change |-> c, snap |-> Len(snaps'), sound |-> Accepted(c.swap)]
  /\ todo' = ApplySteps(c)
  /\ phase' = "work" /\ outcome' = "none"
  /\ UNCHANGED <<disk, swaps, config, faults>>

Apply == \E c \in StagedChanges : Begin("apply", c)

\* A direct removal looks at fstab and /proc/swaps before the snapshot is taken,
\* every other check comes with its step.
Direct ==
  \E c \in DirectChanges :
    /\ c.swap.do = "remove" => Accepted(c.swap)
    /\ Begin("direct", c)

\* A swapfile that is active but not listed counts as created since the
\* snapshot when the file is newer, to the second.
Newer(p, k) == born[p] >= k
SameAge(p, k) == SameSecond /\ born[p] = k - 1

\* Mutant: fstab is read after it was restored.
ExtraAfterRestore(k) ==
  LET unlisted == active \ fstab
      surely   == {p \in unlisted : Newer(p, k)} \ snaps[k].listed
      maybe    == {p \in unlisted : SameAge(p, k)} \ snaps[k].listed
  IN  {surely \cup some : some \in SUBSET maybe}

\* Mutant: an active file that is not listed is taken for one of ours.
ExtraOfAnyAge(k) == {(fstab \cup active) \ snaps[k].listed}

Extra(k) ==
  LET unlisted == active \ fstab
      surely   == (fstab \cup {p \in unlisted : Newer(p, k)}) \ snaps[k].listed
      maybe    == {p \in unlisted : SameAge(p, k)} \ snaps[k].listed
  IN  {surely \cup some : some \in SUBSET maybe}

\* xzram rollback restores the newest snapshot, snapshot restore any.
Restore ==
  /\ phase = "idle" /\ ops < MaxOps
  /\ ops' = ops + 1
  /\ \E k \in DOMAIN snaps :
       /\ job' = [op |-> "restore", change |-> NoChange, snap |-> k, sound |-> TRUE]
       /\ \E extra \in Extra(k) : todo' = RestoreSteps(k, extra)
  /\ phase' = "restore" /\ outcome' = "none"
  /\ UNCHANGED <<disk, swaps, config, snaps, faults>>

Finish ==
  /\ phase # "idle" /\ todo = <<>>
  /\ phase' = "idle"
  /\ outcome' = IF job.op = "apply" /\ phase = "restore" THEN "rolled_back" ELSE "ok"
  /\ UNCHANGED <<disk, swaps, config, job, ops, snaps, todo, faults>>

Doing(what) == todo # <<>> /\ Head(todo).do = what
This == Head(todo)
Advance == todo' = Tail(todo) /\ UNCHANGED control

\* The error of a step reaches the end of the operation: an apply restores its
\* snapshot, anything else is over.
GiveUp ==
  IF job.op = "apply" /\ phase = "work"
  THEN /\ phase' = "restore"
       /\ \E extra \in Extra(job.snap) : todo' = RestoreSteps(job.snap, extra)
       /\ UNCHANGED <<job, outcome, ops, snaps>>
  ELSE /\ phase' = "idle" /\ todo' = <<>>
       /\ outcome' = "failed"
       /\ UNCHANGED <<job, ops, snaps>>

StepFails ==
  IF This.undo = <<>> THEN GiveUp
  ELSE todo' = Append(This.undo, Fails) /\ UNCHANGED control

Fault == faults < MaxFaults /\ faults' = faults + 1

\* The error after an undo.
Fail ==
  /\ Doing("fail")
  /\ GiveUp
  /\ UNCHANGED <<disk, swaps, config, faults>>

\* The helper is killed before its next step.
Kill ==
  /\ phase # "idle" /\ todo # <<>> /\ Fault
  /\ phase' = "idle" /\ todo' = <<>> /\ outcome' = "killed"
  /\ UNCHANGED <<disk, swaps, config, job, ops, snaps>>

\* A step that fails and leaves everything as it was.
Breakable == {"rename", "swapon", "swapoff", "swapoff_now", "list", "unlist", "unlink",
              "allocate", "set_len", "mkswap", "write_zram", "write_sysctl", "stop_zram",
              "zram_swapoff", "put_fstab"}

CanFail ==
  CASE This.do = "swapoff" -> This.on \in active
    [] This.do \in {"stop_zram", "zram_swapoff"} -> live["zram"] # Off
    [] OTHER -> TRUE

Break ==
  /\ todo # <<>> /\ This.do \in Breakable /\ CanFail
  /\ Fault
  /\ StepFails
  /\ UNCHANGED <<disk, swaps, config>>

-----------------------------------------------------------------------------
(* The steps on swapfiles.                                                 *)

\* The change of a swapfile turns into its steps, or is refused.
CreateFile ==
  /\ Doing("create")
  /\ IF Accepted(job.change.swap)
     THEN todo' = CreateSteps(This.on, This.to) \o Tail(todo) /\ UNCHANGED control
     ELSE StepFails
  /\ UNCHANGED <<disk, swaps, config, faults>>

RemoveFile ==
  /\ Doing("remove")
  /\ IF Accepted(job.change.swap)
     THEN todo' = RemoveSteps(This.on) \o Tail(todo) /\ UNCHANGED control
     ELSE StepFails
  /\ UNCHANGED <<disk, swaps, config, faults>>

\* How much space is free decides how a swapfile is resized.
ResizeFile ==
  /\ Doing("resize")
  /\ \/ /\ todo' = StagedSteps(This.on, This.to) \o Tail(todo)
        /\ UNCHANGED <<control, faults>>
     \/ /\ file[This.on] > 0
        /\ todo' = InPlaceSteps(This.on, This.to) \o Tail(todo)
        /\ UNCHANGED <<control, faults>>
     \/ Fault /\ StepFails
  /\ UNCHANGED <<disk, swaps, config>>

\* A staging file left by an earlier run is removed first, one that cannot be
\* completed is removed.
Build ==
  /\ Doing("build")
  /\ \/ /\ sibling' = [sibling EXCEPT ![This.on] = This.to]
        /\ Advance /\ UNCHANGED faults
     \/ /\ sibling' = [sibling EXCEPT ![This.on] = 0]
        /\ Fault /\ StepFails
  /\ UNCHANGED <<file, header, sparse, born, swaps, config>>

Put(p, n) ==
  /\ file' = [file EXCEPT ![p] = n]
  /\ header' = [header EXCEPT ![p] = n]
  /\ sparse' = sparse \ {p}
  /\ born' = [born EXCEPT ![p] = Len(snaps)]

Rename ==
  /\ Doing("rename")
  /\ Put(This.on, sibling[This.on])
  /\ sibling' = [sibling EXCEPT ![This.on] = 0]
  /\ Advance
  /\ UNCHANGED <<swaps, config, faults>>

Discard ==
  /\ Doing("discard")
  /\ sibling' = [sibling EXCEPT ![This.on] = 0]
  /\ Advance
  /\ UNCHANGED <<file, header, sparse, born, swaps, config, faults>>

\* The kernel takes a file that is formatted for no more than its size and has
\* no holes, once.
Usable(p) == header[p] > 0 /\ header[p] <= file[p] /\ p \notin sparse /\ p \notin active

Swapon ==
  /\ Doing("swapon")
  /\ IF Usable(This.on)
     THEN active' = active \cup {This.on} /\ Advance
     ELSE StepFails /\ UNCHANGED active
  /\ UNCHANGED <<disk, fstab, config, faults>>

TrySwapon ==
  /\ Doing("try_swapon")
  /\ IF Usable(This.on)
     THEN \/ active' = active \cup {This.on} /\ UNCHANGED faults
          \/ UNCHANGED active /\ Fault
     ELSE UNCHANGED <<active, faults>>
  /\ Advance
  /\ UNCHANGED <<disk, fstab, config>>

\* Mutant: a file that is not active is switched off all the same.
SwapoffAnyway ==
  /\ Doing("swapoff")
  /\ IF This.on \in active
     THEN active' = active \ {This.on} /\ Advance
     ELSE StepFails /\ UNCHANGED active
  /\ UNCHANGED <<disk, fstab, config, faults>>

\* Nothing to do for a file that is not active.
Swapoff ==
  /\ Doing("swapoff")
  /\ active' = active \ {This.on}
  /\ Advance
  /\ UNCHANGED <<disk, fstab, config, faults>>

SwapoffNow ==
  /\ Doing("swapoff_now")
  /\ IF This.on \in active
     THEN active' = active \ {This.on} /\ Advance
     ELSE StepFails /\ UNCHANGED active
  /\ UNCHANGED <<disk, fstab, config, faults>>

List ==
  /\ Doing("list")
  /\ fstab' = fstab \cup {This.on}
  /\ Advance
  /\ UNCHANGED <<disk, active, config, faults>>

Unlist ==
  /\ Doing("unlist")
  /\ fstab' = fstab \ {This.on}
  /\ Advance
  /\ UNCHANGED <<disk, active, config, faults>>

Unlink ==
  /\ Doing("unlink")
  /\ file' = [file EXCEPT ![This.on] = 0]
  /\ header' = [header EXCEPT ![This.on] = 0]
  /\ sparse' = sparse \ {This.on}
  /\ Advance
  /\ UNCHANGED <<sibling, born, swaps, config, faults>>

\* Cut the file, or grow it: fallocate also fills its holes, writing zeros at
\* its end does not.
Allocate ==
  /\ Doing("allocate")
  /\ file' = [file EXCEPT ![This.on] = This.to]
  /\ IF This.to <= file[This.on] THEN UNCHANGED sparse
                                 ELSE sparse' \in {sparse, sparse \ {This.on}}
  /\ Advance
  /\ UNCHANGED <<header, sibling, born, swaps, config, faults>>

\* Putting the old size back: what was cut off comes back as a hole.
SetLen ==
  /\ Doing("set_len")
  /\ file' = [file EXCEPT ![This.on] = This.to]
  /\ sparse' = IF This.to > file[This.on] THEN sparse \cup {This.on} ELSE sparse
  /\ Advance
  /\ UNCHANGED <<header, sibling, born, swaps, config, faults>>

Mkswap ==
  /\ Doing("mkswap")
  /\ header' = [header EXCEPT ![This.on] = file[This.on]]
  /\ Advance
  /\ UNCHANGED <<file, sparse, sibling, born, swaps, config, faults>>

-----------------------------------------------------------------------------
(* The steps on zram, sysctl and fstab.                                    *)

WriteZram ==
  /\ Doing("write_zram")
  /\ etc' = [etc EXCEPT !["zram"] = This.to]
  /\ Advance
  /\ UNCHANGED <<disk, swaps, live, faults>>

WriteSysctl ==
  /\ Doing("write_sysctl")
  /\ etc' = [etc EXCEPT !["sysctl"] = This.to]
  /\ Advance
  /\ UNCHANGED <<disk, swaps, live, faults>>

\* The units of the configured devices are stopped and started again.
StartZram ==
  /\ Doing("start_zram")
  /\ \/ /\ live' = IF etc["zram"] \in Contents THEN [live EXCEPT !["zram"] = etc["zram"]]
                                               ELSE live
        /\ Advance /\ UNCHANGED faults
     \/ /\ etc["zram"] \in Contents
        /\ live' \in {live, [live EXCEPT !["zram"] = Off]}
        /\ Fault /\ StepFails
  /\ UNCHANGED <<disk, swaps, etc>>

StopZram ==
  /\ Doing("stop_zram") \/ Doing("zram_swapoff")
  /\ live' = [live EXCEPT !["zram"] = Off]
  /\ Advance
  /\ UNCHANGED <<disk, swaps, etc, faults>>

LoadSysctl ==
  /\ Doing("load_sysctl")
  /\ \/ /\ live' = [live EXCEPT !["sysctl"] = etc["sysctl"]]
        /\ Advance /\ UNCHANGED faults
     \/ /\ live' \in {live, [live EXCEPT !["sysctl"] = etc["sysctl"]]}
        /\ Fault /\ StepFails
  /\ UNCHANGED <<disk, swaps, etc>>

\* Values of a drop-in that is gone stay in the kernel.
ReloadSysctl ==
  /\ Doing("reload_sysctl")
  /\ \/ /\ live' = IF etc["sysctl"] = Absent THEN live
                   ELSE [live EXCEPT !["sysctl"] = etc["sysctl"]]
        /\ UNCHANGED faults
     \/ UNCHANGED live /\ etc["sysctl"] # Absent /\ Fault
  /\ Advance
  /\ UNCHANGED <<disk, swaps, etc>>

PutFstab ==
  /\ Doing("put_fstab")
  /\ fstab' = snaps[This.to].listed
  /\ Advance
  /\ UNCHANGED <<disk, active, config, faults>>

\* A file that exists stays as it is, whatever its size.
Recreate ==
  /\ Doing("recreate")
  /\ LET p == This.on
         n == snaps[This.to].size[p]
     IN  IF file[p] > 0 THEN Advance
         ELSE IF n = 0 THEN StepFails
         ELSE todo' = <<Step("build", p, n), Step("rename", p, 0)>> \o Tail(todo)
              /\ UNCHANGED control
  /\ UNCHANGED <<disk, swaps, config, faults>>

-----------------------------------------------------------------------------
\* Nothing more is asked for.
Rest == phase = "idle" /\ ops = MaxOps /\ UNCHANGED vars

Next ==
  \/ Apply \/ Direct \/ Restore \/ Finish \/ Fail \/ Kill \/ Break
  \/ CreateFile \/ RemoveFile \/ ResizeFile \/ Build \/ Rename \/ Discard
  \/ Swapon \/ TrySwapon \/ Swapoff \/ SwapoffNow \/ List \/ Unlist \/ Unlink
  \/ Allocate \/ SetLen \/ Mkswap
  \/ WriteZram \/ WriteSysctl \/ StartZram \/ StopZram \/ LoadSysctl \/ ReloadSysctl
  \/ PutFstab \/ Recreate \/ Rest

Spec == Init /\ [][Next]_vars

-----------------------------------------------------------------------------
(* Properties.                                                             *)

\* Every variable keeps its type: sizes stay in range, only files are active,
\* a drop-in never says what nobody asked for, an idle host has no step left.
TypeOK ==
  /\ file \in [Paths -> 0..MaxSize] /\ header \in [Paths -> 0..MaxSize]
  /\ sibling \in [Paths -> 0..MaxSize] /\ born \in [Paths -> 0..MaxOps]
  /\ sparse \subseteq Paths /\ fstab \subseteq Paths /\ active \subseteq Paths
  /\ etc \in [zram: Contents \cup {Absent, Off}, sysctl: Contents \cup {Absent}]
  /\ live \in [Settings -> Contents \cup {Off}]
  /\ snaps \in Seq([etc: [zram: Contents \cup {Absent, Off}, sysctl: Contents \cup {Absent}],
                    listed: SUBSET Paths, size: [Paths -> 0..MaxSize]])
  /\ job.snap \in 0..Len(snaps) /\ job.change \in Change
  /\ phase \in {"idle", "work", "restore"} /\ (phase = "idle" => todo = <<>>)
  /\ outcome \in {"none", "ok", "rolled_back", "failed", "killed"}
  /\ ops \in 0..MaxOps /\ faults \in 0..MaxFaults

\* No change leaves fstab pointing at a swapfile that is not there, wherever it
\* fails or is killed: the next boot would wait for it.
ListedFilesExist ==
  [][phase = "work" =>
       \A p \in fstab' : file'[p] = 0 => p \in fstab /\ file[p] = 0]_vars

\* A swapfile the kernel is swapping to is never replaced, cut, grown,
\* formatted or deleted, in a change, in its undo or in a restore.
ActiveUntouched ==
  [][\A p \in active \cap active' :
       file'[p] = file[p] /\ header'[p] = header[p] /\ born'[p] = born[p]]_vars

\* A restore that reports success brought back the drop-ins and the swap entries
\* of its snapshot with a file for each, runs zram as configured, and left no
\* swapfile active that was created since.
Restored ==
  LET meta == snaps[job.snap]
  IN  /\ etc' = meta.etc
      /\ fstab' = meta.listed
      /\ \A p \in meta.listed : file'[p] > 0
      /\ live'["zram"] = IF meta.etc["zram"] \in Contents THEN meta.etc["zram"] ELSE Off
      /\ \A p \in active' : p \in meta.listed \/ ~Newer(p, job.snap)

RestoreIsExact ==
  [][phase = "restore" /\ outcome' \in {"ok", "rolled_back"} => Restored]_vars

\* A swapfile disappears only when its removal was asked for, or in the restore
\* of a snapshot that does not list it: no failed or interrupted resize, create
\* or restore ever leaves its path empty.
NoFileLost ==
  [][\A p \in Paths : file[p] > 0 /\ file'[p] = 0 =>
       \/ phase = "work" /\ job.change.swap.do = "remove" /\ job.change.swap.on = p
       \/ phase = "restore" /\ p \notin snaps[job.snap].listed]_vars

\* A restore never deletes a swapfile that was activated by hand: one no snapshot
\* lists and that is older than the restored snapshot stays, except one made in
\* the very second of the snapshot: the times compared are cut to seconds.
UserFilesKept ==
  [][phase = "restore" =>
       \A p \in Paths : file[p] > 0 /\ file'[p] = 0 =>
         \/ Newer(p, job.snap) \/ SameAge(p, job.snap)
         \/ \E k \in DOMAIN snaps : p \in snaps[k].listed]_vars

\* Whatever an earlier operation left half done, a restore runs through it: it
\* fails only where one of its own commands does, or for a listed swapfile that
\* was missing when the snapshot was taken.  So the swap that a failed restore
\* switched off comes back with the next one.
RestoreRunsThrough ==
  [][phase = "restore" /\ outcome' = "failed" /\ faults' = faults =>
       \E p \in snaps[job.snap].listed : snaps[job.snap].size[p] = 0 /\ file[p] = 0]_vars

\* What the documentation says and the code does not do.

\* A restore brings the swapfiles of its snapshot back as they were, resized
\* ones included ("xzram rollback undoes the most recent change").
SizesComeBack ==
  [][phase = "restore" /\ outcome' \in {"ok", "rolled_back"} =>
       \A p \in snaps[job.snap].listed :
         snaps[job.snap].size[p] > 0 => file'[p] = snaps[job.snap].size[p]]_vars

\* The last step of the undo of a failed in-place resize, the swapon of the
\* file in its old size, succeeds when nothing else goes wrong.
FailedResizeReactivates ==
  [][Doing("swapon") /\ Tail(todo) = <<Fails>> /\ faults' = faults
       => This.on \in active']_vars

\* A change that could be applied, failed and was rolled back can be applied
\* again.
RetryAccepted ==
  outcome = "rolled_back" /\ job.sound => Accepted(job.change.swap)

=============================================================================
