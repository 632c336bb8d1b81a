----------------------------- MODULE XZramLinked -----------------------------
(***************************************************************************)
(* Linked optimize: after the user edits one field of a form (the anchor), *)
(* the fields that depend on it are rewritten and what is out of range is  *)
(* replaced, so that the whole can be staged.                              *)
(*                                                                         *)
(* A pending configuration has the fields of XZramPending, here with the   *)
(* values the optimization looks at.  The texts that are no expression or  *)
(* no algorithm are "invalid".                                             *)
(***************************************************************************)
EXTENDS XZramSizing

CONSTANTS
  AllowedPaths,   \* swapfile paths on the allowlist
  OtherPaths      \* well-formed paths that are not; anything else is no path

ASSUME LinkedAssumption ==
  /\ OverflowPath \in AllowedPaths
  /\ AllowedPaths \cap OtherPaths = {}
  /\ AllowedPaths \cup OtherPaths \subseteq STRING

Anchors ==
  {"zram_size", "zram_algo", "zram_priority", "sysctl",
   "swapfile_create", "swapfile_resize", "swapfile_remove"}

Priorities == -1..32767

\* The dirty limits are in KiB.
Knobs == {"swappiness", "boost", "scale", "cluster", "cache", "dirty", "background"}
NoSysctl == [k \in Knobs |-> Unset]

ZramTuning ==
  [NoSysctl EXCEPT !["swappiness"] = 180, !["boost"] = 0, !["scale"] = 125, !["cluster"] = 0]
DesktopTuning ==
  [NoSysctl EXCEPT !["cache"] = 50, !["dirty"] = 262144, !["background"] = 65536]

Overlaid(base, overlay) ==
  [k \in DOMAIN base |-> IF overlay[k] = Unset THEN base[k] ELSE overlay[k]]

RecommendedSysctl == Overlaid(ZramTuning, DesktopTuning)

NoMm == [ttl |-> Unset, defrag |-> Unset]

NoChanges ==
  [disable |-> FALSE, zram |-> Unset, create |-> Unset, resize |-> Unset,
   remove |-> Unset, sysctl |-> Unset, zswap |-> FALSE, oomd |-> FALSE,
   mm |-> Unset, prepare |-> {}, finalize |-> FALSE]

-----------------------------------------------------------------------------
(* The forms as they are read, and the machines they are optimized for.    *)

\* Any text, those this module writes among them.
Texts ==
  {"zram0", "zram1", "lz4", "zstd", "half", "defer+madvise", "invalid", OverflowPath}
    \cup STRING

ZramForms ==
  [device: Texts, size: Formula \cup {Unset}, limit: Texts \cup {Unset},
   algo: Texts \cup {Unset}, prio: Int \cup {Unset}]
CreateForms == [path: Texts, size: Nat, prio: Int]
ResizeForms == [path: Texts, size: Nat]
SysctlForms == [Knobs -> Nat \cup {Unset}]
MmForms     == [ttl: Nat \cup {Unset}, defrag: Texts \cup {Unset}]

Forms ==
  [disable: BOOLEAN, zram: ZramForms \cup {Unset}, create: CreateForms \cup {Unset},
   resize: ResizeForms \cup {Unset}, remove: Texts \cup {Unset},
   sysctl: SysctlForms \cup {Unset}, zswap: BOOLEAN, oomd: BOOLEAN,
   mm: MmForms \cup {Unset}, prepare: SUBSET Texts, finalize: BOOLEAN]

Contexts ==
  [profile: Profiles, ram: Nat, zram: BOOLEAN, disk: BOOLEAN, resume: BOOLEAN]

\* Nothing that is given is the option that is not given.
ASSUME FormsAssumption ==
  Unset \notin Int \cup Texts \cup Formula \cup ZramForms \cup CreateForms
                 \cup ResizeForms \cup SysctlForms \cup MmForms

-----------------------------------------------------------------------------
(* What can be staged.                                                     *)

\* The priority of a zram device is not looked at.
ValidZram(z) ==
  /\ z.device \in {"zram0", "zram1"}
  /\ z.size # Unset => z.size.of # "invalid"
  /\ z.limit # "invalid" /\ z.algo # "invalid"

ValidPath(path) == path \in AllowedPaths \cup OtherPaths

\* The largest value of a knob, where the optimization knows it too, and of the
\* limits of the dirty pages.
Highest == [swappiness |-> 200, cluster |-> 8, boost |-> 10000, scale |-> 10000]

DirtyMost == 64 * 1024 * 1024

InRange(k, v) ==
  /\ k \in DOMAIN Highest => v \in 0..Highest[k]
  /\ k = "cache" => v \in 1..1000
  /\ k \in {"dirty", "background"} => v = 0 \/ v \in 8..DirtyMost

ValidSysctl(sc) ==
  /\ \A k \in Knobs : sc[k] # Unset => InRange(k, sc[k])
  /\ sc["dirty"] \notin {Unset, 0} /\ sc["background"] # Unset
       => sc["background"] < sc["dirty"]

ValidMm(mm) ==
  /\ mm.ttl # Unset => mm.ttl \in 0..10000
  /\ mm.defrag \in {Unset, "always", "defer", "defer+madvise", "madvise", "never"}

ValidCreate(c) == c.path \in AllowedPaths /\ c.size > 0 /\ c.prio \in Priorities

\* known are the swapfiles of /etc/fstab and /proc/swaps.
ValidRemove(path, known) == ValidPath(path) /\ path \in known
ValidResize(r, known)    == ValidPath(r.path) /\ r.path \in AllowedPaths \cup known /\ r.size > 0

Valid(p, known) ==
  /\ p.create # Unset => ValidCreate(p.create)
  /\ p.remove # Unset => ValidRemove(p.remove, known)
  /\ p.resize # Unset => ValidResize(p.resize, known)
  /\ p.zram # Unset => ValidZram(p.zram)
  /\ p.sysctl # Unset => ValidSysctl(p.sysctl)
  /\ p.mm # Unset => ValidMm(p.mm)
  /\ p.prepare \subseteq AllowedPaths

-----------------------------------------------------------------------------
(* The steps of the optimization.  ctx is the machine: [profile, ram,      *)
(* zram: one is active, disk: there is disk swap, resume: hibernation uses *)
(* zram].                                                                  *)

Shell(ctx) ==
  [device |-> "zram0",
   size   |-> ZramFormula(ctx.profile, ctx.ram, "default"),
   limit  |-> ResidentLimit(ctx.profile, "default"),
   algo   |-> IF ctx.profile = "constrained" THEN "lz4" ELSE "zstd",
   prio   |-> 100]

EnsureZram(p, ctx) ==
  IF p.disable \/ p.zram # Unset THEN p ELSE [p EXCEPT !.zram = Shell(ctx)]

\* What replaces an invalid zram configuration: the defaults with the anchor,
\* if that is valid on its own.
Repaired(anchor, z, ctx) ==
  LET shell == Shell(ctx)
  IN  CASE anchor = "zram_size" /\ z.size # Unset ->
             IF z.size.of = "invalid" THEN shell ELSE [shell EXCEPT !.size = z.size]
        [] anchor = "zram_algo" /\ z.algo \notin {Unset, "invalid"} ->
             [shell EXCEPT !.algo = z.algo]
        [] anchor = "zram_priority" /\ z.prio # Unset /\ z.prio \in Priorities ->
             [shell EXCEPT !.prio = z.prio]
        [] OTHER -> shell

\* Mutant: an invalid configuration is replaced as a whole.
ReplaceZram(anchor, p, ctx) ==
  IF p.zram = Unset \/ ValidZram(p.zram) THEN p ELSE [p EXCEPT !.zram = Shell(ctx)]

SanitizeZram(anchor, p, ctx) ==
  IF p.zram = Unset THEN p
  ELSE IF ~ ValidZram(p.zram) THEN [p EXCEPT !.zram = Repaired(anchor, p.zram, ctx)]
  ELSE IF p.zram.prio # Unset /\ p.zram.prio \notin Priorities
  THEN [p EXCEPT !.zram.prio = 100]
  ELSE p

FillSysctl(p) ==
  [p EXCEPT !.sysctl = IF @ = Unset THEN ZramTuning ELSE Overlaid(ZramTuning, @)]

\* The limits of the page cache and of the dirty pages are left as they are.
Clamped(sc) ==
  [k \in Knobs |-> IF k \in DOMAIN Highest /\ sc[k] # Unset THEN Least(sc[k], Highest[k])
                                                            ELSE sc[k]]

SanitizeSysctl(p) ==
  IF p.sysctl = Unset THEN p ELSE [p EXCEPT !.sysctl = Clamped(@)]

StageOverflow(p, ctx) ==
  LET mb == OverflowMb(ctx.ram, "default")
  IN  IF ctx.disk \/ p.create # Unset \/ p.remove # Unset \/ mb = 0 THEN p
      ELSE [p EXCEPT !.create = [path |-> OverflowPath, size |-> mb, prio |-> 10]]

\* A size that is zero or too large becomes the default one.
FitSize(mb, ctx) ==
  IF mb \in 1..OverflowMb(ctx.ram, "high") THEN mb
  ELSE Most(OverflowMb(ctx.ram, "default"), 1)

SanitizeCreate(p, ctx) ==
  IF p.create = Unset THEN p
  ELSE [p EXCEPT !.create =
          [path |-> IF ValidPath(@.path) THEN @.path ELSE OverflowPath,
           size |-> FitSize(@.size, ctx),
           prio |-> IF @.prio \in Priorities THEN @.prio ELSE 10]]

SanitizeResize(p, ctx) ==
  IF p.resize = Unset THEN p
  ELSE IF ~ ValidPath(p.resize.path) THEN [p EXCEPT !.resize = Unset]
  ELSE [p EXCEPT !.resize.size = FitSize(@, ctx)]

SanitizeRemove(p) ==
  IF p.remove # Unset /\ ~ ValidPath(p.remove) THEN [p EXCEPT !.remove = Unset] ELSE p

PriorityOr(z, otherwise) ==
  IF z = Unset THEN otherwise ELSE IF z.prio = Unset THEN otherwise ELSE z.prio

\* Mutant: a swapfile of the same priority is left beside the zram device.
AlignAbove(p, ctx) ==
  LET zram == PriorityOr(p.zram, IF ctx.zram THEN 100 ELSE 0)
  IN  IF p.create # Unset /\ p.create.prio > zram /\ zram > 0
      THEN [p EXCEPT !.create.prio = Least(10, zram)] ELSE p

\* First the swapfile is moved below the zram device, then the device above the
\* disk swap.
AlignPriorities(p, ctx) ==
  LET zram    == PriorityOr(p.zram, IF ctx.zram THEN 100 ELSE 0)
      lowered == IF p.create # Unset /\ p.create.prio >= zram /\ zram > 0
                 THEN [p EXCEPT !.create.prio = Least(10, zram - 1)]
                 ELSE p
      device  == PriorityOr(p.zram, 0)
      raise   == IF lowered.create # Unset THEN device <= lowered.create.prio
                 ELSE ctx.disk /\ device < 100
  IN  IF p.zram # Unset /\ raise THEN [lowered EXCEPT !.zram.prio = 100] ELSE lowered

\* A size brings the rest of the device with it.
Completed(z, ctx) ==
  [z EXCEPT !.algo  = IF @ = Unset THEN Shell(ctx).algo ELSE @,
            !.prio  = IF @ = Unset THEN 100 ELSE @,
            !.limit = Shell(ctx).limit]

\* The fields that depend on the zram device.
Dependents(anchor, p, ctx) ==
  CASE anchor = "zram_size" ->
         StageOverflow(
           FillSysctl(IF p.zram = Unset THEN p ELSE [p EXCEPT !.zram = Completed(@, ctx)]), ctx)
    [] anchor = "zram_algo" ->
         LET above == p.zram # Unset /\ (ctx.disk \/ p.create # Unset)
                        /\ PriorityOr(p.zram, 0) < 100
             raised == IF above THEN [p EXCEPT !.zram.prio = 100] ELSE p
         IN  [FillSysctl(raised) EXCEPT !.sysctl["cluster"] = 0]
    [] anchor = "zram_priority" -> AlignPriorities(p, ctx)

\* What the anchor itself asks for.
Anchored(anchor, p, ctx) ==
  CASE anchor \in {"zram_size", "zram_algo", "zram_priority"} ->
         Dependents(anchor, SanitizeZram(anchor, EnsureZram(p, ctx), ctx), ctx)
    [] anchor = "sysctl" ->
         LET clean  == SanitizeSysctl(p)
             eager  == clean.sysctl # Unset /\ clean.sysctl["swappiness"] # Unset
                         /\ clean.sysctl["swappiness"] >= 100
             zram   == IF eager THEN EnsureZram(clean, ctx) ELSE clean
             raised == IF eager /\ zram.zram # Unset /\ PriorityOr(zram.zram, 0) < 100
                       THEN [zram EXCEPT !.zram.prio = 100] ELSE zram
         IN  FillSysctl(raised)
    [] anchor = "swapfile_create" -> AlignPriorities(SanitizeCreate(p, ctx), ctx)
    [] anchor = "swapfile_resize" -> SanitizeResize(p, ctx)
    [] anchor = "swapfile_remove" ->
         SanitizeRemove(IF p.remove = Unset THEN p
                        ELSE [p EXCEPT !.create = Unset, !.resize = Unset])

\* Mutant: the fields of the other forms are not looked at again.
OptimizeAnchor(anchor, seed, ctx) ==
  Anchored(anchor,
           IF ctx.resume /\ seed.zram # Unset THEN [seed EXCEPT !.zram = Unset] ELSE seed, ctx)

\* The other fields are made valid too, whatever the anchor.
Optimize(anchor, seed, ctx) ==
  LET awake    == IF ctx.resume /\ seed.zram # Unset THEN [seed EXCEPT !.zram = Unset]
                                                     ELSE seed
      anchored == Anchored(anchor, awake, ctx)
      zram     == SanitizeZram("zram_size", anchored, ctx)
  IN  SanitizeResize(SanitizeCreate(SanitizeSysctl(zram), ctx), ctx)

=============================================================================
