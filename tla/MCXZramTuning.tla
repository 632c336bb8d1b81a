---------------------------- MODULE MCXZramTuning ----------------------------
(* A small instance of XZramTuning for TLC. *)
EXTENDS XZramTuning

Section(device, size, algo, prio, mount) ==
  [device |-> device, size |-> size, limit |-> Unset, algo |-> algo, prio |-> prio,
   mount |-> mount, rest |-> TRUE]
NoConf == [run |-> Unset, etc |-> Unset, local |-> Unset, vendor |-> Unset]
Device(name, prio) == [name |-> name, algo |-> "lzo", prio |-> prio, swap |-> TRUE]
File(name, mb, cow) == [name |-> name, mb |-> mb, cow |-> cow]
Active(name, mb, prio) ==
  [name |-> name, type |-> "file", kb |-> ReportedKb(mb), prio |-> prio]
Entry(name, prio) == [name |-> name, type |-> "file", there |-> TRUE, prio |-> prio]

Plain ==
  [ram |-> 8192, cores |-> 4, distro |-> "debian", like |-> {}, tools |-> {"apt"},
   marks |-> {}, init |-> "systemd", writable |-> TRUE, generator |-> TRUE,
   resume |-> "none", rootfs |-> "ext4", hdd |-> {}, psi |-> TRUE, kills |-> FALSE,
   thp |-> "madvise", usage |-> {}, cmdline |-> FALSE,
   conf |-> NoConf, legacy |-> Unset, service |-> FALSE,
   zram |-> {}, disk |-> {}, fstab |-> {}, files |-> {}, cowdirs |-> {}, fresh |-> {}, free |-> 40000,
   sysctl |-> [k \in Knobs |-> 60], later |-> NoSysctl,
   zswap |-> "off",
   oomd |-> [installed |-> TRUE, enabled |-> FALSE, active |-> FALSE, policies |-> FALSE,
             userkill |-> FALSE, shield |-> FALSE, other |-> FALSE],
   mm |-> [ttl |-> 0, defrag |-> "madvise"], lru |-> TRUE,
   etc |-> [sysctl |-> Unset, zswap |-> FALSE, oomd |-> FALSE, mm |-> Unset]]

WithFile(h, path, mb, prio, listed) ==
  [h EXCEPT !.disk  = @ \cup {Active(path, mb, prio)},
            !.files = @ \cup {File(path, mb, FALSE)},
            !.fstab = IF listed THEN @ \cup {Entry(path, prio)} ELSE @]

WithZram(h, layer, sections) ==
  RestartAll([h EXCEPT !.conf[layer] = sections])

\* Fedora: the vendor configures zram0, systemd-oomd runs, btrfs.
Fedora ==
  [WithZram([Plain EXCEPT !.distro = "fedora", !.tools = {"dnf"}, !.rootfs = "btrfs", !.ram = 16384],
            "vendor", <<Section("zram0", Capped(1, 8192), Unset, Unset, FALSE)>>)
     EXCEPT !.oomd = [@ EXCEPT !.enabled = TRUE, !.active = TRUE, !.policies = TRUE, !.userkill = TRUE],
            !.zswap = "on"]

\* A swapfile of xzram that is too small, little space, its directory copies on
\* write; systemd-oomd is enabled and does not run.
Cramped ==
  [WithFile(Plain, OverflowPath, 1024, 10, TRUE)
     EXCEPT !.cowdirs = {OverflowPath}, !.rootfs = "btrfs", !.free = 8000, !.ram = 8192,
            !.zswap = "on", !.oomd.enabled = TRUE]

\* Two devices, the ramdisk first; zram above what is advised.
Ramdisk ==
  WithZram(Plain, "etc",
           <<Section("zram1", Number(512), "lz4", Unset, TRUE),
             Section("zram0", Ram(1), "zstd", 50, FALSE)>>)

\* A larger zram than advised, a foreign swapfile with a high priority, one that
\* is listed and copies on write.
Tuned ==
  [WithFile(WithZram([Plain EXCEPT !.distro = "cachyos", !.cores = 2, !.ram = 3072,
                                  !.later = [NoSysctl EXCEPT !["swappiness"] = 60],
                                  !.mm = [ttl |-> 500, defrag |-> "always"],
                                  !.etc["mm"] = [ttl |-> 500, defrag |-> Unset]],
                    "etc", <<Section("zram0", Ram(1), "zstd", 100, FALSE)>>),
           "/home/swapfile", 2048, 100, FALSE)
     EXCEPT !.files = @ \cup {File("/swapfile", 1024, TRUE)},
            !.fstab = @ \cup {Entry("/swapfile", 5)}]

\* zram-tools, and a large file where the swapfile of xzram would be.
Legacy ==
  [Plain EXCEPT !.legacy = [algo |-> "lz4", percent |-> 60, mb |-> Unset, prio |-> Unset],
                !.service = TRUE, !.files = {File(OverflowPath, 9000, FALSE)}, !.zram = {Device("zram0", 100)},
                !.distro = "mint", !.like = {"ubuntu", "debian"}]

\* A configuration in /run, systemd-oomd that nobody enabled.
Odd ==
  [WithZram([Plain EXCEPT !.zswap = "on", !.etc["zswap"] = TRUE], "run",
            <<Section("zram0", Ram(2), Unset, 5, FALSE)>>)
     EXCEPT !.oomd = [@ EXCEPT !.active = TRUE], !.free = 8200]

\* Hibernation to zram, a swapfile that is listed and idle.
Sleeping ==
  [Fedora EXCEPT !.resume = "zram", !.zswap = "off",
                 !.files = {File("/swapfile", 1024, FALSE)}, !.fstab = {Entry("/swapfile", 5)}]

Locked == [Fedora EXCEPT !.marks = {"silverblue"}]

MCStarts == {Plain, Fedora, Cramped, Ramdisk, Tuned, Legacy, Odd, Sleeping, Locked}

MCAsked == {[zram |-> s, swapfile |-> s] : s \in Scales}

Zram(size, algo, prio) ==
  [device |-> "zram0", size |-> size, limit |-> Unset, algo |-> algo, prio |-> prio]
MCSeeds ==
  {[NoChanges EXCEPT !.zram = z, !.create = c] :
     z \in {Unset, Zram(Ram(2), "lz4", 0), Zram([of |-> "invalid", div |-> 1, cap |-> 0], "zstd", 50),
            Zram(Number(100), "invalid", -5), Zram(Unset, Unset, 10),
            Zram(Unset, "zstd", Unset), Zram(Ram(1), "invalid", 300), Zram(Ram(1), "lz4", 40000)},
     c \in {Unset, [path |-> "/home/swapfile", size |-> 0, prio |-> 200],
            [path |-> "nonsense", size |-> 99999, prio |-> -7],
            [path |-> "/swapfile", size |-> 3000, prio |-> 10]}}
  \cup
  {[NoChanges EXCEPT !.sysctl = [NoSysctl EXCEPT !["swappiness"] = s, !["cache"] = c]] :
     s \in {60, 300}, c \in {Unset, 5000}}
  \cup
  {[NoChanges EXCEPT !.mm = [ttl |-> 20000, defrag |-> Unset]],
   [NoChanges EXCEPT !.disable = TRUE, !.prepare = {"nonsense"}]}
  \cup
  {[NoChanges EXCEPT !.create = [path |-> OverflowPath, size |-> 512, prio |-> 10],
                     !.resize = [path |-> p, size |-> 70000], !.remove = r] :
     p \in {OverflowPath, "nonsense"}, r \in {Unset, OverflowPath, "nonsense"}}

MCDirects ==
  {[NoChanges EXCEPT !.resize = [path |-> OverflowPath, size |-> 9000]],
   [NoChanges EXCEPT !.resize = [path |-> "/home/swapfile", size |-> 4096]],
   [NoChanges EXCEPT !.remove = OverflowPath],
   [NoChanges EXCEPT !.disable = TRUE]}

MCAllowed == {OverflowPath, "/swapfile"}
MCOther == {"/home/swapfile"}
=============================================================================
