-------------------------- MODULE XZramSizingProofs --------------------------
(***************************************************************************)
(* What the arithmetic of the recommendations promises on every machine:   *)
(* TLC evaluates it on a handful of machines, here the amount of memory,   *)
(* the free space and the swapfiles are arbitrary.                         *)
(***************************************************************************)
EXTENDS XZramSizing, TLAPS

\* Every formula the scales can recommend is one the evaluation knows: the code
\* looks formulas up in a list, and one missing from it would make every
\* configured size count as too small (recommend/scales.rs).
THEOREM ScaleFormulasEvaluate ==
  ASSUME NEW profile \in Profiles, NEW ram \in Nat, NEW scale \in Scales
  PROVE  ZramFormula(profile, ram, scale) \in Known
BY DEF ZramFormula, DefaultFormula, Known, Profiles, Scales, Ram, Capped

LEMMA LeastOrdered ==
  ASSUME NEW a \in Nat, NEW b \in Nat, NEW c \in Nat, NEW d \in Nat, a <= c, b <= d
  PROVE  Least(a, b) <= Least(c, d)
BY DEF Least

LEMMA DivOrdered ==
  ASSUME NEW ram \in Nat
  PROVE  /\ ram \div 1 = ram
         /\ ram \div 2 \in Nat /\ ram \div 4 \in Nat
         /\ ram \div 4 <= ram \div 2 /\ ram \div 2 <= ram
OBVIOUS

LEMMA EvalRam ==
  ASSUME NEW div, NEW ram \in Nat
  PROVE  EvalZramMb(Ram(div), ram) = ram \div div
BY DEF EvalZramMb, Ram

LEMMA EvalCapped ==
  ASSUME NEW div, NEW cap, NEW ram \in Nat
  PROVE  EvalZramMb(Capped(div, cap), ram) = Least(ram \div div, cap)
BY DEF EvalZramMb, Capped

LEMMA LeastBelow ==
  ASSUME NEW a \in Nat, NEW b \in Nat, NEW c \in Nat, a <= c
  PROVE  Least(a, b) <= c
BY DEF Least

\* A larger scale never means a smaller device, on any machine of any profile.
THEOREM ZramScalesOrdered ==
  ASSUME NEW profile \in Profiles, NEW ram \in Nat
  PROVE  LET mb(scale) == EvalZramMb(ZramFormula(profile, ram, scale), ram)
         IN  mb("low") <= mb("default") /\ mb("default") <= mb("high")
<1>1. CASE profile = "performance"
  <2>1. ZramFormula(profile, ram, "low") = Capped(2, 4096)
    BY <1>1 DEF ZramFormula
  <2>2. ZramFormula(profile, ram, "default") = Ram(1) /\ ZramFormula(profile, ram, "high") = Ram(1)
    BY <1>1 DEF ZramFormula, DefaultFormula
  <2>3. Least(ram \div 2, 4096) <= ram \div 1
    BY DivOrdered, LeastBelow
  <2> QED BY <2>1, <2>2, <2>3, EvalRam, EvalCapped, DivOrdered
<1>2. CASE profile = "constrained"
  <2>0. DefaultFormula(profile, ram) = Capped(1, 4096)
    BY <1>2 DEF DefaultFormula
  <2>1. /\ ZramFormula(profile, ram, "low") = Capped(2, 2048)
        /\ ZramFormula(profile, ram, "default") = Capped(1, 4096)
        /\ ZramFormula(profile, ram, "high") = Capped(1, 8192)
    BY <1>2, <2>0 DEF ZramFormula
  <2>2. /\ Least(ram \div 2, 2048) <= Least(ram \div 1, 4096)
        /\ Least(ram \div 1, 4096) <= Least(ram \div 1, 8192)
    BY DivOrdered, LeastOrdered
  <2> QED BY <2>1, <2>2, EvalCapped
<1>3. CASE profile = "conservative" /\ ram >= 32768
  <2>1. /\ ZramFormula(profile, ram, "low") = Capped(4, 4096)
        /\ ZramFormula(profile, ram, "default") = Capped(2, 8192)
        /\ ZramFormula(profile, ram, "high") = Capped(1, 16384)
    BY <1>3 DEF ZramFormula, DefaultFormula
  <2>2. /\ Least(ram \div 4, 4096) <= Least(ram \div 2, 8192)
        /\ Least(ram \div 2, 8192) <= Least(ram \div 1, 16384)
    BY DivOrdered, LeastOrdered
  <2> QED BY <2>1, <2>2, EvalCapped
<1>4. CASE profile = "conservative" /\ ~ (ram >= 32768)
  <2>1. /\ ZramFormula(profile, ram, "low") = Capped(4, 2048)
        /\ ZramFormula(profile, ram, "default") = Capped(2, 4096)
        /\ ZramFormula(profile, ram, "high") = Capped(1, 8192)
    BY <1>4 DEF ZramFormula, DefaultFormula
  <2>2. /\ Least(ram \div 4, 2048) <= Least(ram \div 2, 4096)
        /\ Least(ram \div 2, 4096) <= Least(ram \div 1, 8192)
    BY DivOrdered, LeastOrdered
  <2> QED BY <2>1, <2>2, EvalCapped
<1> QED BY <1>1, <1>2, <1>3, <1>4 DEF Profiles

\* The overflow swapfile keeps the order of the scales as well.
THEOREM OverflowScalesOrdered ==
  ASSUME NEW ram \in Nat
  PROVE  /\ OverflowMb(ram, "low") <= OverflowMb(ram, "default")
         /\ OverflowMb(ram, "default") <= OverflowMb(ram, "high")
BY DEF OverflowMb, Least

-----------------------------------------------------------------------------
\* Sizes of formulas that evaluate are numbers.
LEMMA SizeIsNumber ==
  ASSUME NEW f \in Formula, NEW ram \in Nat, Evaluates(f)
  PROVE  EvalZramMb(f, ram) \in Nat
<1>1. CASE f.of = "percent"
  BY <1>1 DEF EvalZramMb, Formula
<1>2. CASE f.of = "number"
  BY <1>2 DEF EvalZramMb, Formula
<1>3. CASE f.of = "ram"
  BY <1>3 DEF EvalZramMb, Formula
<1>4. CASE f.of = "min"
  BY <1>4 DEF EvalZramMb, Formula, Least
<1> QED BY <1>1, <1>2, <1>3, <1>4 DEF Evaluates, Known, Ram, Capped

\* What is staged for zram is never smaller than what is configured, whatever
\* the machine and the formula, as long as the configured one can be evaluated:
\* a size that will do is kept, and one is replaced only by a larger one.
THEOREM StagedZramNeverSmaller ==
  ASSUME NEW ram \in Nat, NEW Others,
         NEW current \in [device: Others, size: Formula, limit: Others, algo: Others, prio: Others],
         NEW recommended \in
           [device: Others, size: Formula, limit: Others, algo: Others, prio: Others],
         current # Unset, current.size # Unset,
         Evaluates(current.size), Evaluates(recommended.size)
  PROVE  EvalZramMb(current.size, ram)
           <= EvalZramMb(ZramForStaging(current, recommended, ram).size, ram)
<1> DEFINE now  == EvalZramMb(current.size, ram)
           next == EvalZramMb(recommended.size, ram)
<1>1. now \in Nat /\ next \in Nat
  BY SizeIsNumber
<1>2. CASE SizeNeedsUpdate(current.size, recommended.size, ram)
  <2>1. ZramForStaging(current, recommended, ram) = recommended
    BY <1>2 DEF ZramForStaging
  <2>2. ~ (now >= next)
    BY <1>2 DEF SizeNeedsUpdate
  <2> HIDE DEF now, next
  <2> QED BY <2>1, <2>2, <1>1 DEF now, next
<1>3. CASE ~ SizeNeedsUpdate(current.size, recommended.size, ram)
  <2>1. ZramForStaging(current, recommended, ram).size = current.size
    BY <1>3 DEF ZramForStaging
  <2> QED BY <2>1, <1>1
<1> QED BY <1>2, <1>3

-----------------------------------------------------------------------------
\* What is staged for the overflow swapfile fits the free space with room to
\* spare and duplicates nothing; what is grown is the one disk swap there is,
\* it gets larger, and the growth fits as well.
THEOREM OverflowFits ==
  ASSUME NEW disk, NEW configured, NEW ram \in Nat, NEW scale \in Scales,
         NEW free \in Nat \cup {Unset}, Unset \notin Nat,
         \A s \in disk : s.kb \in Nat
  PROVE  LET d == DecideOverflow(disk, ram, configured, free, scale)
         IN  /\ d.do = "stage" => disk = {} /\ configured = {} /\ d.mb > 0 /\ d.mb + Margin <= free
             /\ d.do = "grow" => \E s \in disk : /\ Cardinality(disk) = 1 /\ s.name = OverflowPath
                                                 /\ s.kb \div 1024 < d.mb
                                                 /\ d.mb - s.kb \div 1024 + Margin <= free
<1> DEFINE mb == OverflowMb(ram, scale)
           d  == DecideOverflow(disk, ram, configured, free, scale)
           swap == CHOOSE s \in disk : TRUE
<1>1. mb \in Nat
  BY DEF OverflowMb, Least, Scales
<1>2. CASE disk = {}
  <2>1. d \in {Decision("skip_configured", 0), Decision("skip_zero", 0), Decision("skip_space", 0)}
          \/ (configured = {} /\ mb # 0 /\ free # Unset /\ ~ (free < mb + Margin)
                /\ d = Decision("stage", mb))
    BY <1>2 DEF DecideOverflow
  <2> QED BY <2>1, <1>1, <1>2 DEF Decision, Margin
<1>3. CASE disk # {}
  <2>1. d = DecideGrow(disk, ram, free, scale)
    BY <1>3 DEF DecideOverflow
  <2>2. swap \in disk
    BY <1>3
  <2>3. d \in {Decision("skip_active", 0), Decision("skip_space", 0)}
          \/ (/\ Cardinality(disk) = 1 /\ swap.name = OverflowPath
              /\ ~ (swap.kb \div 1024 + Slack >= mb)
              /\ free # Unset /\ ~ (free < mb - swap.kb \div 1024 + Margin)
              /\ d = Decision("grow", mb))
    BY <2>1 DEF DecideGrow
  <2>4. swap.kb \in Nat /\ swap.kb \div 1024 \in Nat
    BY <2>2
  <2>5. CASE d = Decision("grow", mb) /\ Cardinality(disk) = 1 /\ swap.name = OverflowPath
               /\ ~ (swap.kb \div 1024 + Slack >= mb)
               /\ free # Unset /\ ~ (free < mb - swap.kb \div 1024 + Margin)
    <3> DEFINE now == swap.kb \div 1024
    <3>1. d.do = "grow" /\ d.mb = mb
      BY <2>5 DEF Decision
    <3>2. now < mb /\ mb - now + Margin <= free
      <4> HIDE DEF now, mb
      <4> QED BY <2>4, <2>5, <1>1 DEF now, Slack, Margin
    <3> QED BY <3>1, <3>2, <2>2, <2>5
  <2>6. CASE d \in {Decision("skip_active", 0), Decision("skip_space", 0)}
    BY <2>6 DEF Decision
  <2> QED BY <2>3, <2>5, <2>6
<1> QED BY <1>2, <1>3

\* A swapfile of the recommended size is left alone: the kernel reports it
\* without the page of its header, which the slack of the comparison absorbs.
\* So the advice about the swapfile settles after one step, on every machine.
THEOREM GrowthSettles ==
  ASSUME NEW ram \in Nat, NEW scale \in Scales, NEW free, NEW configured, NEW disk, NEW s,
         OverflowMb(ram, scale) > 0,
         disk = {s}, s.kb = ReportedKb(OverflowMb(ram, scale))
  PROVE  DecideOverflow(disk, ram, configured, free, scale) = Decision("skip_active", 0)
<1> DEFINE mb == OverflowMb(ram, scale)
<1>1. mb \in Nat /\ mb > 0
  BY DEF OverflowMb, Least, Scales
<1>2. (CHOOSE t \in disk : TRUE) = s
  OBVIOUS
<1>3. s.kb \div 1024 + Slack >= mb
  <2> HIDE DEF mb
  <2>1. s.kb = mb * 1024 - 4
    BY DEF ReportedKb, mb
  <2>2. (mb * 1024 - 4) \div 1024 >= mb - 1
    BY <1>1
  <2> QED BY <1>1, <2>1, <2>2 DEF Slack
<1>4. DecideGrow(disk, ram, free, scale) = Decision("skip_active", 0)
  BY <1>2, <1>3 DEF DecideGrow
<1> QED BY <1>4 DEF DecideOverflow

=============================================================================
