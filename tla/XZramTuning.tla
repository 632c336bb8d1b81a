---------------------------- MODULE XZramTuning ----------------------------
(***************************************************************************)
(* From advice to effect and back: what the recommendations and the linked *)
(* optimization stage is applied to the machine they were made for, and    *)
(* rolled back.                                                            *)
(*                                                                         *)
(* Here every step of an apply and of a rollback succeeds, and one client  *)
(* works at a time: failures are the subject of XZramHost, interleavings   *)
(* that of XZramStore.  What zram-generator, the kernel and systemd do is  *)
(* the part of the machine's behaviour the code relies on.                 *)
(***************************************************************************)
EXTENDS XZramAdvice

CONSTANTS
  Starts,    \* the machines it begins on
  Asked,     \* the pairs of scales that are asked for
  Seeds,     \* the forms the user fills in
  Directs,   \* the changes asked for directly
  MaxOps     \* bound on the operations

-----------------------------------------------------------------------------
(* The machines it begins on.                                              *)

SizeOf(h, path) ==
  LET f == {f \in h.files : f.name = path}
  IN  IF f = {} THEN 0 ELSE (CHOOSE g \in f : TRUE).mb

\* What is looked at and never changed, and what is changed.
Traits == {"cores", "distro", "like", "tools", "marks", "init", "writable", "generator",
           "resume", "rootfs", "hdd", "psi", "kills", "thp", "usage", "cmdline", "lru", "later"}

Parts == {"ram", "free", "conf", "legacy", "service", "zram", "disk", "fstab", "files",
          "cowdirs", "fresh", "sysctl", "zswap", "oomd", "mm", "etc"}

\* Where zram-generator.conf may be.
Dirs == {"run", "etc", "local", "vendor"}

SectionForms ==
  [device: Texts, size: Formula \cup {Unset}, limit: Texts \cup {Unset},
   algo: Texts \cup {Unset}, prio: Int \cup {Unset}, mount: BOOLEAN, rest: BOOLEAN]
DeviceForms == [name: Texts, algo: Texts \cup {"lzo"}, prio: Int, swap: BOOLEAN]
SwapForms   == [name: Texts, type: {"file", "partition"}, kb: Nat, prio: Int]
EntryForms  == [name: Texts, type: {"file", "partition"}, there: BOOLEAN, prio: Int]
FileForms   == [name: Texts, mb: Nat \ {0}, cow: BOOLEAN]
OomdForms   ==
  [{"installed", "enabled", "active", "policies", "userkill", "shield", "other"} -> BOOLEAN]
DropInForms == [sysctl: SysctlForms \cup {Unset}, zswap: BOOLEAN, oomd: BOOLEAN,
                mm: MmForms \cup {Unset}]
LegacyForms == [algo: Texts \cup {Unset}, percent: Nat \cup {Unset}, mb: Nat \cup {Unset},
                prio: Int \cup {Unset}]

Unique(things) == \A a, b \in things : a.name = b.name => a = b

\* A device is configured once in a file, a name is given once, no swap is larger
\* than its file, and the kernel takes no file that copies on write.
HasStorage(h) ==
  /\ Parts \subseteq DOMAIN h
  /\ h.ram \in Nat /\ h.free \in Nat
  /\ h.legacy \in LegacyForms \cup {Unset}
  /\ h.conf \in [Dirs -> {Unset} \cup Seq(SectionForms)]
  /\ \A dir \in Dirs : h.conf[dir] # Unset =>
       \A i, j \in DOMAIN h.conf[dir] : h.conf[dir][i].device = h.conf[dir][j].device => i = j
  /\ h.zram \subseteq DeviceForms /\ h.disk \subseteq SwapForms
  /\ h.fstab \subseteq EntryForms /\ h.files \subseteq FileForms
  /\ \A part \in {"zram", "disk", "files", "fstab"} : Unique(h[part])
  /\ \A s \in h.disk : s.type = "file" => s.kb \div 1024 <= SizeOf(h, s.name)
  /\ \A f \in h.files : f.cow => f.name \notin DiskNames(h)

\* What kills for pressure in a user session is one of the policies that kill.
HasSettings(h) ==
  /\ Traits \subseteq DOMAIN h
  /\ h.sysctl \in [Knobs -> Nat] /\ h.later \in SysctlForms
  /\ h.mm \in [ttl: Nat, defrag: Texts]
  /\ h.zswap \in {"on", "off", "none"}
  /\ h.oomd \in OomdForms /\ (h.oomd.userkill => h.oomd.policies)
  /\ h.etc \in DropInForms

IsMachine(h) == HasStorage(h) /\ HasSettings(h)

\* A change of the swapfiles is one thing that is asked for.
OneSwapChange(p) ==
  \A a, b \in {"create", "resize", "remove"} : p[a] # Unset /\ p[b] # Unset => a = b

\* The option that is not given is no list of sections and no directory either.
ASSUME TuningAssumption ==
  /\ \A h \in Starts : IsMachine(h)
  /\ Unset \notin Seq(SectionForms) \cup Dirs
  /\ Asked \subseteq [zram: Scales, swapfile: Scales]
  /\ Seeds \subseteq Forms
  /\ Directs \subseteq Forms /\ \A c \in Directs : OneSwapChange(c)
  /\ MaxOps \in Nat

-----------------------------------------------------------------------------

VARIABLES
  host,      \* the machine
  pending,   \* what is staged
  draft,     \* the form the linked optimization rewrote, or Unset
  snap,      \* the machine at the last pre-apply snapshot, or Unset
  last,      \* the last operation
  advised,   \* the scales 'defaults apply' was last run with, alone and with
             \* nothing done since, or Unset
  ops

vars == <<host, pending, draft, snap, last, advised, ops>>

-----------------------------------------------------------------------------
(* zram: units of zram-generator.                                          *)

Started(section) ==
  [name |-> section.device,
   algo |-> IF section.algo = Unset THEN "lzo" ELSE section.algo,
   prio |-> IF section.prio = Unset THEN 100 ELSE section.prio,
   swap |-> ~ section.mount]

Stop(h) == [h EXCEPT !.zram = {[d EXCEPT !.swap = FALSE] : d \in @}]

\* The units of the devices, with what zram-generator reads about them, are
\* stopped and started.
Restart(h, devices) ==
  LET found   == {i \in DOMAIN Sections(h) : Sections(h)[i].device \in devices}
      started == {Started(Sections(h)[i]) : i \in found}
  IN  [h EXCEPT !.zram = {d \in @ : \A s \in started : s.name # d.name} \cup started]

\* The sections are read from the first directory that has the file, and
\* written to /etc.
Configure(h, z) ==
  LET section == [device |-> z.device, size |-> z.size, limit |-> z.limit,
                  algo |-> z.algo, prio |-> z.prio, mount |-> FALSE, rest |-> FALSE]
      same    == {i \in DOMAIN Sections(h) : Sections(h)[i].device = z.device}
  IN  [h EXCEPT !.conf["etc"] =
         IF same = {} THEN Append(Sections(h), section)
                      ELSE [Sections(h) EXCEPT ![Min(same)] = section]]

\* An empty file in /etc hides the configuration of the vendor.
Disable(h) == [Stop(h) EXCEPT !.conf["etc"] = <<>>]

Devices(sections) == {sections[i].device : i \in DOMAIN sections}
RestartAll(h) == Restart(h, Devices(Sections(h)))

ZramChanged(h, p) ==
  IF p.disable THEN Disable(h)
  ELSE IF p.zram # Unset THEN RestartAll(Configure(h, p.zram)) ELSE h

-----------------------------------------------------------------------------
(* Swapfiles.                                                              *)

PriorityOf(h, path) ==
  LET e == {e \in h.fstab : e.name = path /\ e.type = "file"}
  IN  IF e = {} THEN 10 ELSE (CHOOSE g \in e : TRUE).prio

\* A new file is complete before it takes the place of an old one; its
\* directory is made ready first.  fresh are the files made since the snapshot.
Put(h, path, mb, prio) ==
  [h EXCEPT !.files   = {f \in @ : f.name # path} \cup {[name |-> path, mb |-> mb, cow |-> FALSE]},
            !.disk    = {s \in @ : s.name # path}
                          \cup {[name |-> path, type |-> "file", kb |-> ReportedKb(mb), prio |-> prio]},
            !.cowdirs = @ \ {path},
            !.fresh   = @ \cup {path},
            !.free    = @ + SizeOf(h, path) - mb]

Listed(h, path, prio) ==
  [h EXCEPT !.fstab = {e \in @ : e.name # path}
      \cup {[name |-> path, type |-> "file", there |-> TRUE, prio |-> prio]}]

Create(h, c) == Listed(Put(h, c.path, c.size, c.prio), c.path, c.prio)

Drop(h, path) ==
  [h EXCEPT !.files = {f \in @ : f.name # path},
            !.disk  = {s \in @ : s.name # path},
            !.fresh = @ \ {path},
            !.free  = @ + SizeOf(h, path)]

Remove(h, path) == [Drop(h, path) EXCEPT !.fstab = {e \in @ : e.name # path}]

\* With room for a second file it is built beside the first, with room for the
\* growth alone the file itself is resized.
Strategy(h, path, mb) ==
  IF h.free >= mb + 64 THEN "staged"
  ELSE IF h.free >= Most(mb - SizeOf(h, path), 0) + 64 THEN "in_place" ELSE "none"

\* put is the machine with a new file; resized in place the old one keeps its
\* attributes and its age.
InPlace(h, put, r) ==
  [put EXCEPT
     !.files   = {IF f.name = r.path THEN [f EXCEPT !.mb = r.size] ELSE f : f \in h.files},
     !.cowdirs = h.cowdirs, !.fresh = h.fresh]

Resize(h, r) ==
  IF r = Unset THEN h
  ELSE IF Strategy(h, r.path, r.size) = "staged"
  THEN Put(h, r.path, r.size, PriorityOf(h, r.path))
  ELSE InPlace(h, Put(h, r.path, r.size, PriorityOf(h, r.path)), r)

\* Any file there is was made before the snapshot, and a second before: XZramHost
\* has files of the same second.
Aged(h) == [h EXCEPT !.fresh = {}]

SwapChanged(h, p) ==
  Resize(IF p.remove # Unset THEN Remove(Aged(h), p.remove)
         ELSE IF p.create # Unset THEN Create(Aged(h), p.create) ELSE Aged(h),
         p.resize)

-----------------------------------------------------------------------------
(* The kernel's settings and systemd-oomd.                                 *)

\* A file that sysctl reads later has the last word.
Loaded(h) ==
  IF h.etc["sysctl"] = Unset THEN h.sysctl
  ELSE Overlaid(Overlaid(h.sysctl, h.etc["sysctl"]), h.later)

Reload(h) == [h EXCEPT !.sysctl = Loaded(h)]

SetSysctl(h, values) ==
  IF values = Unset THEN h
  ELSE Reload([h EXCEPT !.etc["sysctl"] = IF @ = Unset THEN values ELSE Overlaid(@, values)])

\* The directory gets the attribute, and keeps it; a file with data does not.
Prepare(h, paths) == [h EXCEPT !.cowdirs = @ \ paths]

DisableZswap(h, wanted) ==
  IF ~ wanted THEN h
  ELSE [h EXCEPT !.etc["zswap"] = TRUE, !.zswap = IF @ = "none" THEN "none" ELSE "off"]

EnableOomd(h, wanted) ==
  IF ~ wanted THEN h
  ELSE [h EXCEPT !.etc["oomd"] = TRUE, !.oomd.enabled = TRUE, !.oomd.active = TRUE]

SetMm(h, wanted) ==
  IF wanted \in {Unset, NoMm} THEN h
  ELSE [h EXCEPT !.etc["mm"] = IF @ = Unset THEN wanted ELSE Overlaid(@, wanted),
                 !.mm.ttl    = IF wanted.ttl # Unset /\ h.lru THEN wanted.ttl ELSE @,
                 !.mm.defrag = IF wanted.defrag = Unset THEN @ ELSE wanted.defrag]

\* zram-tools is disabled, its configuration archived.
Finalize(h, wanted) ==
  IF ~ wanted \/ h.legacy = Unset THEN h ELSE [h EXCEPT !.legacy = Unset, !.service = FALSE]

\* The whole of an apply: zram, swapfiles, sysctl, directories, zswap,
\* systemd-oomd, memory tunables, the end of a migration.
Applied(h, p) ==
  Finalize(SetMm(EnableOomd(DisableZswap(Prepare(
      SetSysctl(SwapChanged(ZramChanged(h, p), p), p.sysctl),
    p.prepare), p.zswap), p.oomd), p.mm), p.finalize)

\* In place a file that copies on write stays one, which swapon refuses.
CanResize(h, r) ==
  \/ Strategy(h, r.path, r.size) = "staged"
  \/ /\ Strategy(h, r.path, r.size) = "in_place"
     /\ \A f \in h.files : f.name = r.path => ~ f.cow

\* When all of it succeeds.
CanApply(h, p) ==
  /\ p.zram # Unset => h.generator
  /\ p.create # Unset /\ p.remove = Unset =>
       p.create.path \notin DiskNames(h) /\ h.free >= p.create.size
  /\ p.resize # Unset => CanResize(h, p.resize)
  /\ p.oomd => h.oomd.installed

-----------------------------------------------------------------------------
(* Rollback.                                                               *)

\* zswap comes back on if nothing keeps it off.
ZswapBack(h, s) ==
  [h EXCEPT !.zswap =
     IF s.zswap = "on" /\ @ = "off" /\ ~ h.etc["zswap"] /\ ~ h.cmdline THEN "on" ELSE @]

OomdBack(h, s) ==
  [h EXCEPT !.oomd = IF ~ s.oomd.enabled /\ @.enabled
                     THEN [@ EXCEPT !.enabled = FALSE, !.active = FALSE] ELSE @]

\* A knob that the restored drop-in sets stays as it is.
MmBack(h, s) ==
  LET kept == IF h.etc["mm"] = Unset THEN NoMm ELSE h.etc["mm"]
  IN  [h EXCEPT !.mm = [k \in DOMAIN @ |-> IF kept[k] = Unset THEN s.mm[k] ELSE @[k]]]

\* Files that were not listed are removed if they are listed now or in use and
\* newer than the snapshot.  Missing ones are built again; every listed file is
\* activated.  A file of no size cannot be built.
ActiveFiles(h) == {s.name : s \in {s \in h.disk : s.type = "file"}}

Extra(h, s)   == (ListedFiles(h) \cup (ActiveFiles(h) \cap h.fresh)) \ ListedFiles(s)
Missing(h, s) == {p \in ListedFiles(s) : SizeOf(h, p) = 0}

SpaceOf(h, paths) == MapThenSumSet(LAMBDA p : SizeOf(h, p), paths)

FilesBack(h, s) ==
  {f \in h.files : f.name \notin Extra(h, s)}
    \cup {[name |-> p, mb |-> SizeOf(s, p), cow |-> FALSE] : p \in Missing(h, s)}

Activated(s, f) ==
  [name |-> f.name, type |-> "file", kb |-> ReportedKb(f.mb), prio |-> PriorityOf(s, f.name)]

SwapBack(h, s) ==
  [h EXCEPT
     !.fstab = s.fstab, !.files = FilesBack(h, s),
     !.disk  = {d \in @ : d.name \notin Extra(h, s) \cup ListedFiles(s)}
                 \cup {Activated(s, f) : f \in {f \in FilesBack(h, s) :
                                                   f.name \in ListedFiles(s) /\ ~ f.cow}},
     !.cowdirs = @ \ Missing(h, s),
     !.fresh = (@ \ Extra(h, s)) \cup Missing(h, s),
     !.free  = @ + SpaceOf(h, Extra(h, s)) - SpaceOf(s, Missing(h, s))]

\* Every device is stopped; those that the snapshot configures in /etc are
\* started.
ZramBack(h, s) ==
  Restart([Stop(h) EXCEPT !.conf["etc"] = s.conf["etc"]],
          IF s.conf["etc"] = Unset THEN {} ELSE Devices(s.conf["etc"]))

\* Values of a sysctl drop-in that is gone stay in the kernel.
SettingsBack(h, s) == Reload([h EXCEPT !.etc = s.etc, !.legacy = s.legacy])

\* Mutant: zswap is looked at before the drop-ins are back.
RolledBackEarly(h, s) ==
  MmBack(OomdBack(SettingsBack(ZswapBack(ZramBack(SwapBack(h, s), s), s), s), s), s)

RolledBack(h, s) ==
  MmBack(OomdBack(ZswapBack(SettingsBack(ZramBack(SwapBack(h, s), s), s), s), s), s)

-----------------------------------------------------------------------------
(* The operations.                                                         *)

Init ==
  /\ host \in Starts
  /\ pending = NoChanges
  /\ draft = Unset /\ snap = Unset /\ advised = Unset
  /\ last = "none" /\ ops = 0

\* Mutant: what was staged for the swapfile before stays beside the new change.
MergeBeside(p, q) ==
  [p EXCEPT !.create = IF q.create = Unset THEN @ ELSE q.create,
            !.resize = IF q.resize = Unset THEN @ ELSE q.resize,
            !.remove = IF q.remove = Unset THEN @ ELSE q.remove]

Merge(p, q) ==
  LET zram == IF q.zram # Unset THEN [p EXCEPT !.disable = FALSE, !.zram = q.zram]
              ELSE IF q.disable THEN [p EXCEPT !.disable = TRUE, !.zram = Unset] ELSE p
      swap == [create |-> q.create, resize |-> q.resize, remove |-> q.remove]
      kind == IF q.remove # Unset THEN "remove"
              ELSE IF q.resize # Unset THEN "resize"
              ELSE IF q.create # Unset THEN "create" ELSE "none"
      Kept(k) == IF kind = "none" THEN p[k] ELSE IF kind = k THEN swap[k] ELSE Unset
  IN  [zram EXCEPT
         !.create = Kept("create"), !.resize = Kept("resize"), !.remove = Kept("remove"),
         !.sysctl = IF q.sysctl = Unset THEN @
                    ELSE IF @ = Unset THEN q.sysctl ELSE Overlaid(@, q.sysctl),
         !.mm     = IF q.mm = Unset THEN @ ELSE IF @ = Unset THEN q.mm ELSE Overlaid(@, q.mm),
         !.finalize = @ \/ q.finalize, !.zswap = @ \/ q.zswap, !.oomd = @ \/ q.oomd,
         !.prepare = @ \cup q.prepare]

\* The swapfiles that may be resized or removed.
KnownFiles(h) ==
  ListedFiles(h) \cup ActiveFiles(h)

\* Bound: an optimized form is staged next or thrown away.
Do(op) ==
  /\ ops < MaxOps /\ ops' = ops + 1 /\ last' = op
  /\ op # "optimize" => draft' = Unset

Stage(p) ==
  /\ Valid(p, KnownFiles(host))
  /\ pending' = Merge(pending, p)
  /\ UNCHANGED <<host, snap, advised>>

\* A snapshot, the changes, and nothing is staged any more.
Perform(p) ==
  /\ CanApply(host, p)
  /\ snap' = host
  /\ host' = Applied(host, p)

StageDefaults ==
  /\ Do("stage")
  /\ \E p \in {Recommend(host, scales).pending : scales \in Asked} : p # NoChanges /\ Stage(p)

\* The advice is merged into what was staged before, and all of it is applied.
ApplyDefaults ==
  /\ Do("defaults")
  /\ \E scales \in Asked : \E p \in {Recommend(host, scales).pending} :
       IF p = NoChanges
       THEN advised' = scales /\ UNCHANGED <<host, pending, snap>>
       ELSE /\ Valid(p, KnownFiles(host))
            /\ Perform(Merge(pending, p))
            /\ pending' = NoChanges
            /\ advised' = IF pending = NoChanges THEN scales ELSE Unset

Apply ==
  /\ Do("apply")
  /\ pending # NoChanges
  /\ Perform(pending)
  /\ pending' = NoChanges /\ advised' = Unset

\* swapfile resize, zram set, sysctl set and the like, at once.
Direct ==
  /\ Do("direct")
  /\ \E c \in Directs : Valid(c, KnownFiles(host)) /\ Perform(c)
  /\ advised' = Unset
  /\ UNCHANGED pending

Context(h) ==
  [profile |-> Profile(h), ram |-> h.ram, zram |-> h.zram # {}, disk |-> h.disk # {},
   resume |-> HibernationConflict(h)]

\* Bound: a form is begun only while it can still be staged.
OptimizeLinked ==
  /\ Do("optimize")
  /\ ops + 1 < MaxOps
  /\ \E anchor \in Anchors, seed \in Seeds :
       draft' = [anchor |-> anchor, seed |-> seed, ctx |-> Context(host),
                 result |-> Optimize(anchor, seed, Context(host))]
  /\ UNCHANGED <<host, pending, snap, advised>>

StageDraft ==
  /\ Do("stage_draft")
  /\ draft # Unset
  /\ draft.result # NoChanges
  /\ Stage(draft.result)

\* The size of zram-tools: a share of memory, else a number, else half.
Migration(legacy) ==
  [NoChanges EXCEPT
     !.zram = [device |-> "zram0", limit |-> Unset, algo |-> legacy.algo,
               size |-> IF legacy.percent # Unset THEN Percent(legacy.percent)
                        ELSE IF legacy.mb # Unset THEN Number(legacy.mb) ELSE Percent(50),
               prio |-> IF legacy.prio = Unset THEN 100 ELSE legacy.prio],
     !.finalize = TRUE]

Migrate ==
  /\ Do("migrate")
  /\ host.legacy # Unset
  /\ Stage(Migration(host.legacy))

Rollback ==
  /\ Do("rollback")
  /\ snap # Unset
  /\ \A p \in Missing(host, snap) : SizeOf(snap, p) > 0
  /\ snap.conf["etc"] \in {Unset, <<>>} \/ host.generator
  /\ host' = RolledBack(host, snap)
  /\ advised' = Unset
  /\ UNCHANGED <<pending, snap>>

\* Nothing more is asked for.
Rest == ops = MaxOps /\ UNCHANGED vars

Next ==
  \/ StageDefaults \/ ApplyDefaults \/ Apply \/ Direct \/ OptimizeLinked \/ StageDraft
  \/ Migrate \/ Rollback \/ Rest

Spec == Init /\ [][Next]_vars

-----------------------------------------------------------------------------
(* Properties.                                                             *)

\* Every variable keeps its type: staged changes name at most one swapfile
\* change, space never runs out, devices and files are unique by name.
TypeOK ==
  /\ host.free >= 0
  /\ \A part \in {"zram", "disk", "files", "fstab"} : Unique(host[part])
  /\ OneSwapChange(pending)
  /\ pending.disable => pending.zram = Unset
  /\ advised \in Asked \cup {Unset}
  /\ ops \in 0..MaxOps

\* Once 'defaults apply' is done the advice has nothing left to stage: the user
\* is never asked for the same change again.  Two things are out of its reach:
\* a configuration in /run or of another device first, which hides what it
\* writes, and a later sysctl file.
AdviceConverges ==
  advised # Unset =>
    \A left \in {Recommend(host, advised).pending} :
      /\ left.zram # Unset => host.conf["run"] # Unset \/ Show(host).device # "zram0"
      /\ left.sysctl # Unset => host.later # NoSysctl
      /\ [left EXCEPT !.zram = Unset, !.sysctl = Unset] = NoChanges

\* Nothing of h is smaller in g, but a swapfile that is neither in use nor listed,
\* which does not count and is replaced, one that is used in part, which is measured
\* by that part, and a zram device whose size cannot be evaluated.
NoSmaller(h, g) ==
  /\ \A f \in h.files : SizeOf(g, f.name) < f.mb =>
       /\ f.name = OverflowPath
       /\ \/ f.name \notin DiskNames(h) \cup ListedFiles(h)
          \/ \E s \in h.disk : s.name = f.name /\ s.kb < ReportedKb(f.mb)
  /\ \A now \in {Show(h)} :
       now # Unset /\ now.device = "zram0" /\ now.size # Unset /\ Evaluates(now.size) =>
         EvalZramMb(Show(g).size, h.ram) >= EvalZramMb(now.size, h.ram)

\* The advice never makes a swapfile smaller, nor the zram device.
AdviceNeverShrinks ==
  [][last' = "defaults" /\ pending = NoChanges => NoSmaller(host, host')]_vars

\* What is advised can be staged and there is room for it, whatever the scales;
\* the slider of the swapfile can be moved whenever a swapfile would be created,
\* and shows its size.
AdviceFits ==
  \A scales \in Asked : \A p \in {Recommend(host, scales).pending}, show \in {Sliders(host, scales)} :
    /\ Valid(p, KnownFiles(host))
    /\ p.create # Unset =>
         /\ p.create.path \notin DiskNames(host) /\ host.free >= p.create.size + 64
         /\ show.available /\ show.swapfile[show.selected.swapfile] = p.create.size
    /\ p.resize # Unset => Strategy(host, p.resize.path, p.resize.size) # "none"

\* After 'defaults apply' doctor no longer reports a problem it sends the user to
\* 'defaults apply' for, except where the advice has a reason to stay out: zswap
\* without zram; a swapfile that itself copies on write or is somewhere else;
\* systemd-oomd that cannot run; other disk swap, swap that is only configured, or
\* a full disk.  Two exceptions have no reason: at the low scale the swapfile has
\* exactly the size doctor asks for, and the kernel reports one page less; and with
\* next to no memory any swapfile is within the slack of the recommended size.  Nor
\* is there an error, except for hibernation to zram.
Excused(code) ==
  LET listed == ListedFiles(host)
      now    == DiskKb(host) \div 1024
      full   == host.free = Unset \/ host.free < OverflowMb(host.ram, advised.swapfile) - now + Margin
      tiny   == host.ram < 2 * Slack
  IN  /\ code = "zswap_enabled" => host.zram = {}
      /\ code = "btrfs_swapfile_nodatacow" =>
           \E f \in listed : f \notin AllowedPaths \/ \E g \in host.files : g.name = f /\ g.cow
      /\ code \in {"oomd_no_policies", "no_oom_protection"} =>
           ~ host.psi \/ ~ host.oomd.installed
      /\ code = "no_disk_overflow" => Configured(host) # {} \/ full \/ tiny
      /\ code = "disk_overflow_small" =>
           \/ \E s \in host.disk : s.name # OverflowPath \/ s.type # "file"
           \/ full \/ tiny \/ advised.swapfile = "low"
      /\ code \notin {"zram_zswap_conflict", "oomd_session_unprotected"}

DoctorHealed ==
  advised # Unset /\ ~ Blocked(host) =>
    /\ \A issue \in Doctor(host) : Excused(issue.code)
    /\ Healthy(host) \/ HibernationConflict(host)

\* What the user has just edited is still in the form after the optimization, if
\* it can be used; only a priority may be moved to keep the tiers apart, and only
\* hibernation takes the zram device away.
LinkedKeeps ==
  draft # Unset =>
    LET seed == draft.seed
        got  == draft.result
        Fits(mb) == mb \in 1..OverflowMb(draft.ctx.ram, "high")
    IN  CASE draft.anchor = "zram_size" ->
               seed.zram # Unset /\ ~ draft.ctx.resume
                 /\ seed.zram.size # Unset /\ seed.zram.size.of # "invalid"
                 => got.zram.size = seed.zram.size
          [] draft.anchor = "zram_algo" ->
               seed.zram # Unset /\ ~ draft.ctx.resume /\ seed.zram.algo \notin {Unset, "invalid"}
                 => got.zram.algo = seed.zram.algo
          [] draft.anchor = "zram_priority" ->
               seed.zram # Unset /\ ~ draft.ctx.resume
                 /\ seed.zram.prio # Unset /\ seed.zram.prio \in Priorities
                 => got.zram.prio \in {seed.zram.prio, 100}
          [] draft.anchor = "sysctl" ->
               seed.sysctl # Unset =>
                 \A k \in Knobs : seed.sysctl[k] # Unset /\ InRange(k, seed.sysctl[k])
                                    => got.sysctl[k] = seed.sysctl[k]
          [] draft.anchor = "swapfile_create" ->
               seed.create # Unset /\ Fits(seed.create.size) => got.create.size = seed.create.size
          [] draft.anchor = "swapfile_resize" ->
               seed.resize # Unset /\ ValidPath(seed.resize.path) /\ Fits(seed.resize.size)
                 => got.resize = seed.resize
          [] draft.anchor = "swapfile_remove" ->
               seed.remove # Unset /\ ValidPath(seed.remove) => got.remove = seed.remove

\* An optimized form can be staged.  It is refused only for what the optimization
\* does not look at: where a file may be created, whether the file to resize or to
\* remove exists, the path to remove when another field was edited, the limits of
\* the page cache and of dirty pages, the memory tunables and the directories to
\* prepare.
LinkedStageable ==
  draft # Unset /\ ~ Valid(draft.result, KnownFiles(host)) =>
    LET got == draft.result
    IN  \/ got.create # Unset /\ got.create.path \in OtherPaths
        \/ got.resize # Unset /\ got.resize.path \notin AllowedPaths \cup KnownFiles(host)
        \/ got.remove # Unset /\ got.remove \notin KnownFiles(host)
        \/ got.remove # Unset /\ draft.anchor # "swapfile_remove" /\ ~ ValidPath(got.remove)
        \/ got.sysctl # Unset /\ \E k \in {"cache", "dirty", "background"} : got.sysctl[k] # Unset
        \/ got.mm # Unset \/ got.prepare # {}

\* Once the priorities are looked at zram is used before the swapfile that is to
\* be created.  Three forms escape: a zram priority of nothing with a swapfile above
\* the hundred it is raised to; a swapfile priority that is no priority, made one
\* only after the tiers were compared; and a zram configuration that is invalid or
\* has no priority the kernel knows, replaced only after they were.
LinkedTiers ==
  draft # Unset /\ draft.anchor \in {"zram_priority", "swapfile_create"}
    /\ draft.result.create # Unset /\ draft.result.zram # Unset =>
     LET seed == draft.seed
         top  == draft.result.create.prio >= 100
     IN  \/ draft.result.create.prio < PriorityOr(draft.result.zram, 0)
         \/ top /\ seed.zram # Unset /\ PriorityOr(seed.zram, 0) <= 0
         \/ draft.anchor = "zram_priority" /\ seed.create.prio \notin Priorities
         \/ /\ draft.anchor = "swapfile_create" /\ top
            /\ ~ ValidZram(seed.zram) \/ seed.zram.prio \notin Priorities

\* zram runs as the sections of /etc say.
AsConfigured(h) ==
  LET ours == {i \in DOMAIN Sections(h) :
                 h.conf["etc"] # Unset /\ Sections(h)[i].device \in Devices(h.conf["etc"])}
  IN  {d \in h.zram : d.swap} = {d \in {Started(Sections(h)[i]) : i \in ours} : d.swap}

\* What is undone when g is the machine h taken back to s.  What is left is what
\* the files of the snapshot decide or do not tell: zswap that they turn off, a knob
\* that they set, a value of sysctl that they do not set or that was another one, a
\* systemd-oomd that did not run as it was enabled, zram that did not run as /etc
\* configures it.  A swapfile that /etc/fstab did not list stays removed, and if it
\* was built again it counts as new and is deleted; if it was idle and resized in
\* place it stays in use.
Undone(h, s, g) ==
  LET listed == ListedFiles(s)
  IN  /\ g.zswap # s.zswap => s.etc["zswap"] \/ s.cmdline
      /\ g.oomd.enabled = s.oomd.enabled
      /\ g.oomd.active # s.oomd.active => s.oomd.active # s.oomd.enabled
      /\ \A k \in DOMAIN s.mm : g.mm[k] # s.mm[k] =>
           s.etc["mm"] # Unset /\ s.etc["mm"][k] # Unset
      /\ \A k \in Knobs : g.sysctl[k] # s.sysctl[k] =>
           \/ s.etc["sysctl"] = Unset \/ s.etc["sysctl"][k] = Unset
           \/ Loaded(s)[k] # s.sysctl[k]
      /\ {d \in g.zram : d.swap} # {d \in s.zram : d.swap} => ~ AsConfigured(s)
      /\ \A p \in DiskNames(s) \ DiskNames(g) :
           p \notin listed /\ (p \notin DiskNames(h) \/ p \in h.fresh)
      /\ \A p \in DiskNames(g) \ DiskNames(s) : p \in listed \/ SizeOf(s, p) > 0

\* A rollback undoes on the running machine what was done since the snapshot, but
\* for what its files decide or do not tell.
RollbackUndoes == [][last' = "rollback" => Undone(host, snap, host')]_vars

=============================================================================
