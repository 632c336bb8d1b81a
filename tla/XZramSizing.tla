----------------------------- MODULE XZramSizing -----------------------------
(***************************************************************************)
(* The arithmetic of the recommendations: what a zram-size formula comes   *)
(* to on a machine, which formula and which overflow swapfile suit it, and *)
(* whether what is configured already will do.                             *)
(*                                                                         *)
(* A formula is a record rather than text; two spellings of one formula    *)
(* are one record.  Sizes are in MiB, the sizes the kernel reports in KiB. *)
(***************************************************************************)
EXTENDS Integers, FiniteSets

CONSTANT
  Unset    \* an option that is not given

Scales   == {"low", "default", "high"}
Profiles == {"constrained", "conservative", "performance"}

-----------------------------------------------------------------------------
(* Formulas: ram / div, min(ram / div, cap), cap percent of ram, cap MiB,  *)
(* any other expression, and text that is no expression.                   *)

Formula ==
  [of: {"ram", "min", "percent", "number", "other", "invalid"}, div: {1, 2, 4}, cap: Nat]

Ram(div)      == [of |-> "ram", div |-> div, cap |-> 0]
Capped(div, cap) == [of |-> "min", div |-> div, cap |-> cap]
Percent(p)    == [of |-> "percent", div |-> 1, cap |-> p]
Number(n)     == [of |-> "number", div |-> 1, cap |-> n]

\* The expressions the evaluation knows; it gives up on any other.
Known ==
  {Ram(1), Ram(2), Ram(4)}
    \cup {Capped(1, cap) : cap \in {16384, 8192, 4096, 2048}}
    \cup {Capped(2, cap) : cap \in {8192, 4096, 2048}}
    \cup {Capped(4, cap) : cap \in {4096, 2048}}

Evaluates(f) == f \in Known \/ f.of \in {"percent", "number"}

Least(a, b) == IF a <= b THEN a ELSE b
Most(a, b)  == IF a >= b THEN a ELSE b

\* Meant for a formula that evaluates.
EvalZramMb(f, ram) ==
  CASE f.of = "ram"     -> ram \div f.div
    [] f.of = "min"     -> Least(ram \div f.div, f.cap)
    [] f.of = "percent" -> (ram * f.cap) \div 100
    [] OTHER            -> f.cap

-----------------------------------------------------------------------------
(* Profiles and scales.                                                    *)

PickProfile(distro, ram) ==
  IF distro = "cachyos" THEN "performance"
  ELSE IF ram < 4096 THEN "constrained" ELSE "conservative"

DefaultFormula(profile, ram) ==
  CASE profile = "performance" -> Ram(1)
    [] profile = "constrained" -> Capped(1, 4096)
    [] OTHER -> IF ram >= 32768 THEN Capped(2, 8192) ELSE Capped(2, 4096)

ZramFormula(profile, ram, scale) ==
  IF scale = "default" THEN DefaultFormula(profile, ram)
  ELSE CASE profile = "constrained" -> IF scale = "low" THEN Capped(2, 2048) ELSE Capped(1, 8192)
         [] profile = "performance" -> IF scale = "low" THEN Capped(2, 4096) ELSE Ram(1)
         [] OTHER -> IF scale = "low"
                     THEN IF ram >= 32768 THEN Capped(4, 4096) ELSE Capped(4, 2048)
                     ELSE IF ram >= 32768 THEN Capped(1, 16384) ELSE Capped(1, 8192)

OverflowMb(ram, scale) ==
  CASE scale = "low"     -> Least(ram \div 2, 4096)
    [] scale = "default" -> Least(ram, 8192)
    [] OTHER             -> Least(ram, 16384)

\* What the sliders show: the formulas and sizes of every scale.
SizeScales(profile, ram, scales, sliding) ==
  [zram |-> [s \in Scales |-> EvalZramMb(ZramFormula(profile, ram, s), ram)],
   swapfile |-> [s \in Scales |-> OverflowMb(ram, s)],
   selected |-> scales, available |-> sliding]

-----------------------------------------------------------------------------
(* The zram configuration of a profile, and whether the current one does.  *)

Algorithm(family, ram, cores) ==
  IF family = "arch" \/ ram >= 4096 \/ cores >= 4 THEN "zstd" ELSE "lz4"

\* "ram / 2", as spelled here: the text of the limit is compared, not its value.
ResidentLimit(profile, scale) ==
  IF profile = "performance" /\ scale # "low" THEN "half" ELSE Unset

RecommendedZram(distro, family, ram, cores, scale) ==
  LET profile == PickProfile(distro, ram)
  IN  [device |-> "zram0",
       size   |-> ZramFormula(profile, ram, scale),
       limit  |-> ResidentLimit(profile, scale),
       algo   |-> Algorithm(family, ram, cores),
       prio   |-> 100]

\* Mutant: the comparison of the two sizes is the other way round.
LargerNeedsUpdate(current, recommended, ram) ==
  \/ current = Unset
  \/ /\ current # recommended
     /\ ~ (/\ Evaluates(current) /\ Evaluates(recommended)
           /\ EvalZramMb(current, ram) <= EvalZramMb(recommended, ram))

\* A size that is known to be large enough is left alone, one that cannot be
\* evaluated is not.
SizeNeedsUpdate(current, recommended, ram) ==
  \/ current = Unset
  \/ /\ current # recommended
     /\ ~ (/\ Evaluates(current) /\ Evaluates(recommended)
           /\ EvalZramMb(current, ram) >= EvalZramMb(recommended, ram))

ZramNeedsUpdate(current, recommended, ram) ==
  \/ current = Unset
  \/ current.device # recommended.device
  \/ SizeNeedsUpdate(current.size, recommended.size, ram)
  \/ \E field \in {"limit", "algo", "prio"} : current[field] # recommended[field]

ZramForStaging(current, recommended, ram) ==
  IF current # Unset /\ current.size # Unset
       /\ ~ SizeNeedsUpdate(current.size, recommended.size, ram)
  THEN [recommended EXCEPT !.size = current.size]
  ELSE recommended

\* Every recommended key has its recommended value.
SysctlNeedsUpdate(current, recommended) ==
  \E k \in DOMAIN recommended :
    recommended[k] # Unset /\ current[k] # recommended[k]

-----------------------------------------------------------------------------
(* The overflow swapfile.  A swap is [name, type, kb, prio] as the kernel  *)
(* lists it; free space is in MiB, or Unset if df says nothing.            *)

OverflowPath == "/swap/swapfile"
Margin == 512
Slack  == 64

\* /proc/swaps leaves out the page of the header.
ReportedKb(mb) == mb * 1024 - 4

Decision(do, mb) == [do |-> do, mb |-> mb]

\* Mutant: the page of the header is forgotten.
GrowExact(disk, ram, free, scale) ==
  LET swap == CHOOSE s \in disk : TRUE
      mb   == OverflowMb(ram, scale)
      now  == swap.kb \div 1024
  IN  IF Cardinality(disk) # 1 \/ swap.name # OverflowPath \/ swap.type # "file" \/ now >= mb
      THEN Decision("skip_active", 0)
      ELSE IF free = Unset \/ free < mb - now + Margin THEN Decision("skip_space", 0)
      ELSE Decision("grow", mb)

\* Only the file at the path xzram itself would use is grown, and only if it is
\* the only disk swap.
DecideGrow(disk, ram, free, scale) ==
  LET swap == CHOOSE s \in disk : TRUE
      mb   == OverflowMb(ram, scale)
      now  == swap.kb \div 1024
  IN  IF Cardinality(disk) # 1 \/ swap.name # OverflowPath \/ swap.type # "file"
           \/ now + Slack >= mb
      THEN Decision("skip_active", 0)
      ELSE IF free = Unset \/ free < mb - now + Margin THEN Decision("skip_space", 0)
      ELSE Decision("grow", mb)

\* Mutant: the free space is compared with nothing to spare.
DecideTight(disk, ram, configured, free, scale) ==
  LET mb == OverflowMb(ram, scale)
  IN  IF disk # {} THEN DecideGrow(disk, ram, free, scale)
      ELSE IF configured # {} THEN Decision("skip_configured", 0)
      ELSE IF mb = 0 THEN Decision("skip_zero", 0)
      ELSE IF free = Unset \/ free < mb THEN Decision("skip_space", 0)
      ELSE Decision("stage", mb)

DecideOverflow(disk, ram, configured, free, scale) ==
  LET mb == OverflowMb(ram, scale)
  IN  IF disk # {} THEN DecideGrow(disk, ram, free, scale)
      ELSE IF configured # {} THEN Decision("skip_configured", 0)
      ELSE IF mb = 0 THEN Decision("skip_zero", 0)
      ELSE IF free = Unset \/ free < mb + Margin THEN Decision("skip_space", 0)
      ELSE Decision("stage", mb)

=============================================================================
