----------------------------- MODULE XZramAdvice -----------------------------
(***************************************************************************)
(* What xzram finds out about a machine, what it recommends for it and     *)
(* what doctor reports about it.                                           *)
(*                                                                         *)
(* A machine is a record h.  Its fields, in the order they are used:       *)
(*   ram, cores, distro, like, tools, marks: hardware and distribution     *)
(*   init, writable, generator, resume, rootfs, hdd, psi, kills, thp,      *)
(*   usage, cmdline: other things that are looked at and never changed     *)
(*   conf: the sections of zram-generator.conf in each directory           *)
(*   legacy, service: the configuration and the service of zram-tools      *)
(*   zram, disk: the zram devices, the active disk swap                    *)
(*   fstab, files, cowdirs, fresh, free: swap in /etc/fstab, the           *)
(*   swapfiles, those whose directory copies on write, those made since    *)
(*   the last snapshot, free space in MiB                                  *)
(*   sysctl, later, zswap, oomd, mm, lru: the running kernel, what other   *)
(*   sysctl files override, systemd-oomd                                   *)
(*   etc: the drop-ins sysctl, zswap, oomd and mm of xzram                 *)
(***************************************************************************)
EXTENDS XZramLinked, Sequences, FiniteSetsExt

-----------------------------------------------------------------------------
(* Detection.                                                              *)

Family(h) ==
  LET named == [fedora   |-> {"fedora", "rhel", "centos", "rocky", "almalinux"},
                debian   |-> {"debian"},
                ubuntu   |-> {"ubuntu", "pop", "linuxmint"},
                arch     |-> {"arch", "cachyos", "manjaro", "endeavouros"},
                opensuse |-> {"opensuse-leap", "opensuse-tumbleweed", "suse"},
                gentoo   |-> {"gentoo"}]
  IN  IF \E f \in DOMAIN named : h.distro \in named[f]
      THEN CHOOSE f \in DOMAIN named : h.distro \in named[f]
      ELSE IF h.like \cap {"fedora", "rhel"} # {} THEN "fedora"
      ELSE IF "debian" \in h.like THEN IF "ubuntu" \in h.like THEN "ubuntu" ELSE "debian"
      ELSE IF "arch" \in h.like THEN "arch"
      ELSE IF "suse" \in h.like THEN "opensuse" ELSE "unknown"

\* Only the name of the package depends on the package manager.
PackageManager(h) ==
  LET family == Family(h)
  IN  CASE family = "fedora" -> "dnf"
        [] family \in {"debian", "ubuntu"} -> "apt"
        [] family = "arch" -> "pacman"
        [] family = "opensuse" -> "zypper"
        [] family = "gentoo" -> "emerge"
        [] OTHER -> IF h.like \cap {"debian", "ubuntu"} # {} THEN "apt"
                    ELSE IF h.like \cap {"fedora", "rhel"} # {} THEN "dnf"
                    ELSE IF "pacman" \in h.tools THEN "pacman"
                    ELSE IF "apt" \in h.tools THEN "apt"
                    ELSE IF "dnf" \in h.tools THEN "dnf" ELSE "unknown"

GeneratorPackage(h) ==
  IF PackageManager(h) = "apt" THEN "systemd-zram-generator" ELSE "zram-generator"

\* marks are the words of /etc/os-release, the environment and the files that
\* give an immutable system away.
Immutable(h) ==
  \/ h.distro = "nixos"
  \/ "rpm-ostree" \in h.tools
  \/ h.marks \cap {"silverblue", "kinoite", "coreos", "ostree", "steamos"} # {}

Layers == <<"run", "etc", "local", "vendor">>

\* The directory whose zram-generator.conf is read: the first that has one.
Layer(h) ==
  LET found == {i \in DOMAIN Layers : h.conf[Layers[i]] # Unset}
  IN  IF found = {} THEN Unset ELSE Layers[Min(found)]

Backend(h) ==
  IF Layer(h) # Unset THEN "generator"
  ELSE IF h.legacy # Unset THEN "zram-tools"
  ELSE IF \E z \in h.zram : z.name = "zram0" THEN "manual" ELSE "none"

\* The sections as they are read: with the keys xzram knows.
Sections(h) ==
  IF Layer(h) = Unset THEN <<>>
  ELSE LET s == h.conf[Layer(h)]
       IN  [i \in DOMAIN s |-> [s[i] EXCEPT !.rest = FALSE]]

Config(section) ==
  [k \in {"device", "size", "limit", "algo", "prio"} |-> section[k]]

\* What is configured: the first section.
Show(h) == IF Sections(h) = <<>> THEN Unset ELSE Config(Sections(h)[1])

Blocked(h) == ~ h.writable \/ Immutable(h)

\* The resume device is looked up by its device number.
HibernationConflict(h) == h.resume = "zram"

DiskNames(h) == {s.name : s \in h.disk}

Configured(h) == {e.name : e \in h.fstab}

ListedFiles(h) == {e.name : e \in {e \in h.fstab : e.type = "file"}}

\* The swap files and partitions of /etc/fstab, with what is active now.
Partitions(h) ==
  {[device |-> e.name, active |-> e.name \in DiskNames(h), there |-> e.there] :
     e \in {e \in h.fstab : e.type = "partition"}}

Inverted(h) ==
  LET swap == {z \in h.zram : z.swap}
  IN  /\ swap # {} /\ h.disk # {}
      /\ Max({s.prio : s \in h.disk}) >= Max({z.prio : z \in swap})

\* Names of algorithms one of which is the beginning of the other.
Akin(a, b) == a = b \/ {a, b} \in {{"lzo", "lzo-rle"}, {"lz4", "lz4hc"}}

\* Devices are listed by name, zram0 before any other.
Mismatched(h) ==
  LET first == CHOOSE z \in h.zram : z.name = "zram0" \/ \A o \in h.zram : o.name # "zram0"
  IN  /\ Show(h) # Unset /\ h.zram # {}
      /\ Show(h).algo # Unset /\ ~ Akin(Show(h).algo, first.algo)

-----------------------------------------------------------------------------
(* Protection from running out of memory.                                  *)

Policies(h) == h.etc["oomd"] \/ h.oomd.policies
UserKill(h) == h.etc["oomd"] \/ h.oomd.userkill
Guarded(h)  == h.etc["oomd"] \/ h.oomd.shield

Protected(h) == h.oomd.other \/ (h.oomd.active /\ Policies(h))
AtRisk(h)    == h.oomd.active /\ UserKill(h) /\ ~ Guarded(h)

-----------------------------------------------------------------------------
(* Recommendations.  A report is what it would stage and the notes it      *)
(* shows.                                                                  *)

Report(pending, notes) == [pending |-> pending, notes |-> notes]
NotesIf(condition, note) == IF condition THEN {note} ELSE {}

Profile(h) == PickProfile(h.distro, h.ram)

RecommendZram(h, scale) ==
  RecommendedZram(h.distro, Family(h), h.ram, h.cores, scale)

StageZram(h, scale) ==
  LET wanted == RecommendZram(h, scale)
      notes  == NotesIf(Profile(h) = "performance" /\ scale # "low", "resident_limit")
  IN  IF HibernationConflict(h)
      THEN Report(NoChanges, notes \cup {"hibernation"})
      ELSE IF ZramNeedsUpdate(Show(h), wanted, h.ram)
      THEN Report([NoChanges EXCEPT !.zram = ZramForStaging(Show(h), wanted, h.ram)], notes)
      ELSE Report(NoChanges, notes \cup {IF h.zram = {} THEN "zram_configured" ELSE "zram_active"})

StageSysctl(h) ==
  IF SysctlNeedsUpdate(h.sysctl, RecommendedSysctl)
  THEN Report([NoChanges EXCEPT !.sysctl = RecommendedSysctl], {})
  ELSE Report(NoChanges, {"sysctl_matches"})

\* Swap on a spinning disk, or a swapfile that would come to be on one.
Rotational(h) ==
  \/ DiskNames(h) \cap h.hdd # {}
  \/ h.disk = {} /\ OverflowPath \in h.hdd

StageSwapfile(h, scale) ==
  LET d     == DecideOverflow(h.disk, h.ram, Configured(h), h.free, scale)
      notes == NotesIf(Rotational(h), "rotational")
  IN  CASE d.do = "stage" ->
             Report([NoChanges EXCEPT
                       !.create = [path |-> OverflowPath, size |-> d.mb, prio |-> 10]],
                    notes \cup {"dual_tier"})
        [] d.do = "grow" ->
             Report([NoChanges EXCEPT !.resize = [path |-> OverflowPath, size |-> d.mb]], notes)
        [] OTHER -> Report(NoChanges, notes \cup NotesIf(d.do \in {"skip_configured", "skip_space"}, d.do))

Advisory(h, staged) ==
  {"zswap_alternative", "no_writeback"}
    \cup NotesIf(h.rootfs = "zfs", "zfs")
    \cup NotesIf(h.rootfs = "btrfs" /\ staged.create # Unset, "btrfs")
    \cup NotesIf(Mismatched(h), "algorithm")
    \cup NotesIf(Inverted(h), "inversion")
    \cup NotesIf(Cardinality(h.zram) > 1, "devices")

Hints(h) ==
  NotesIf(~ h.writable, "read_only") \cup NotesIf(Immutable(h), "immutable")
    \cup NotesIf(Backend(h) = "zram-tools", "zram_tools")
    \cup NotesIf(Backend(h) = "none" /\ h.zram = {}, GeneratorPackage(h))

\* The part that looks at the configuration: z, s and f are what it says about
\* zram, sysctl and the swapfile.
Combined(z, s, f) ==
  Report([z.pending EXCEPT !.sysctl = s.pending.sysctl,
                           !.create = f.pending.create, !.resize = f.pending.resize],
         z.notes \cup s.notes \cup f.notes)

Noted(h, part) ==
  Report(part.pending,
         part.notes \cup Hints(h) \cup Advisory(h, part.pending)
           \cup NotesIf(~ Blocked(h) /\ part.pending = NoChanges, "already_matches"))

Base(h, scales) ==
  Noted(h, IF Blocked(h) THEN Report(NoChanges, {})
           ELSE Combined(StageZram(h, scales.zram), StageSysctl(h),
                         StageSwapfile(h, scales.swapfile)))

\* What the sliders offer, and whether the one of the swapfile moves.
Sliders(h, scales) ==
  SizeScales(Profile(h), h.ram, scales,
             ~ Blocked(h) /\ h.disk = {} /\ Configured(h) = {})

\* The swapfiles of /etc/fstab whose directory copies on write.
MissingNodatacow(h) ==
  ListedFiles(h) \cap h.cowdirs \cap AllowedPaths

StageOom(h) ==
  LET kills == NotesIf(h.kills /\ ~ (Protected(h) /\ ~ AtRisk(h)), "oom_kills")
  IN  IF Protected(h) THEN [stage |-> AtRisk(h) /\ ~ Blocked(h), notes |-> kills]
      ELSE IF ~ h.psi THEN [stage |-> FALSE, notes |-> kills \cup {"no_psi"}]
      ELSE IF ~ h.oomd.installed THEN [stage |-> FALSE, notes |-> kills \cup {"no_oomd"}]
      ELSE [stage |-> ~ Blocked(h), notes |-> kills \cup NotesIf(Blocked(h), "enable_oomd")]

\* Only the defaults of the kernel are replaced.
StageMm(h) ==
  LET wanted == [ttl    |-> IF h.lru /\ h.mm.ttl = 0 THEN 1000 ELSE Unset,
                 defrag |-> IF h.mm.defrag \in {"madvise", "always"} THEN "defer+madvise"
                                                                     ELSE Unset]
  IN  IF Blocked(h) \/ wanted = NoMm THEN Unset ELSE wanted

ZswapBypasses(h, staged) ==
  (h.zram # {} \/ staged.zram # Unset) /\ h.zswap = "on"

HostFixes(h, base, oom) ==
  LET pending ==
        [base.pending EXCEPT
           !.zswap   = ZswapBypasses(h, base.pending) /\ ~ Blocked(h),
           !.prepare = IF Blocked(h) THEN {} ELSE MissingNodatacow(h),
           !.oomd    = oom.stage,
           !.mm      = StageMm(h)]
  IN  Report(pending,
             (IF pending = NoChanges THEN base.notes ELSE base.notes \ {"already_matches"})
               \cup oom.notes
               \cup NotesIf(Blocked(h) /\ ZswapBypasses(h, base.pending), "zswap"))

\* recommend: the part above and the fixes of the host.
Recommend(h, scales) == HostFixes(h, Base(h, scales), StageOom(h))

-----------------------------------------------------------------------------
(* Doctor: a set of problems, each an error, a warning or an information.  *)

Info(code)    == [severity |-> "info", code |-> code]
Warning(code) == [severity |-> "warning", code |-> code]
Error(code)   == [severity |-> "error", code |-> code]
When(condition, issue) == IF condition THEN {issue} ELSE {}

CheckSystem(h) ==
  When(h.init # "systemd", Warning("non_systemd"))
    \cup When(Blocked(h), Warning("immutable_etc"))
    \cup When(Backend(h) = "none" /\ h.zram = {}, Info("no_zram"))
    \cup When(Backend(h) = "generator" /\ ~ h.generator, Warning("zram_generator_missing"))
    \cup When(Backend(h) = "zram-tools", Warning("zram_tools_legacy"))
    \cup When(h.service, Info("zramswap_service_active"))

CheckZram(h) ==
  When(h.zswap = "on", Warning("zswap_enabled"))
    \cup When(h.zswap = "on" /\ h.zram # {}, Error("zram_zswap_conflict"))
    \cup When(HibernationConflict(h), Error("hibernate_zram"))
    \cup When(Inverted(h), Warning("priority_inverted"))
    \cup When("zram_full" \in h.usage, Warning("zram_near_full"))

\* A swapfile on btrfs is not ready if its directory or the file itself copies
\* on write.
CheckFilesystem(h) ==
  When(h.rootfs = "btrfs" /\ ListedFiles(h) = {}, Info("btrfs_root"))
    \cup When(h.rootfs = "zfs", Warning("zfs_root"))
    \cup When(\E f \in ListedFiles(h) : f \in h.cowdirs \/ \E g \in h.files : g.name = f /\ g.cow,
              Warning("btrfs_swapfile_nodatacow"))
    \cup When(\E p \in Partitions(h) : ~ p.active /\ ~ p.there, Warning("swap_partition_missing"))

CheckOomProtection(h) ==
  When(AtRisk(h), Warning("oomd_session_unprotected"))
    \cup When(~ Protected(h) /\ h.oomd.active, Warning("oomd_no_policies"))
    \cup When(~ Protected(h) /\ ~ h.oomd.active, Warning("no_oom_protection"))

CheckOomKills(h) ==
  When(h.kills, IF Protected(h) /\ ~ AtRisk(h) THEN Info("oom_kills") ELSE Warning("oom_kills"))

CheckPressure(h) ==
  IF "thrashing" \in h.usage THEN {Warning("memory_pressure_high")}
  ELSE When("stutter" \in h.usage, Info("memory_pressure_elevated"))

CheckHeadroom(h) == When("swap_full" \in h.usage, Warning("swap_nearly_full"))

DiskKb(h) == MapThenSumSet(LAMBDA s : s.kb, h.disk)

\* Mutant: the cap is the target of the default scale.
FloorOfDefault(h) == Least(h.ram, 8192) * 1024

\* The disk swap behind zram that is enough, in KiB.
OverflowFloor(h) == Least(h.ram \div 2, 4096) * 1024

CheckOverflow(h) ==
  IF ~ \E z \in h.zram : z.swap THEN {}
  ELSE When(h.disk = {}, Info("no_disk_overflow"))
         \cup When(h.disk # {} /\ DiskKb(h) < OverflowFloor(h), Warning("disk_overflow_small"))

CheckPlacement(h) == When(DiskNames(h) \cap h.hdd # {}, Warning("swap_on_rotational"))

CheckThp(h) == When(h.thp = "always" /\ h.ram < 16384, Info("thp_always_low_ram"))

Doctor(h) ==
  CheckSystem(h) \cup CheckZram(h) \cup CheckFilesystem(h) \cup CheckOomProtection(h)
    \cup CheckOomKills(h) \cup CheckPressure(h) \cup CheckHeadroom(h)
    \cup CheckOverflow(h) \cup CheckPlacement(h) \cup CheckThp(h)

Healthy(h) == \A issue \in Doctor(h) : issue.severity # "error"

=============================================================================
