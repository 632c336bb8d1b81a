-------------------------- MODULE XZramLinkedProofs --------------------------
(***************************************************************************)
(* The linked optimization on every form and every machine: what the user  *)
(* has edited stays, the result can be staged, and zram stays above the    *)
(* swapfile.                                                               *)
(*                                                                         *)
(* TLC looks at the forms of one run; here a form is any member of Forms,  *)
(* so any paths, sizes, priorities, formulas and sysctl values.  There is  *)
(* one lemma for each pass, which says what it makes of a form that comes  *)
(* from any of the passes before it; then one for each anchor, and one for *)
(* the passes at the end.                                                  *)
(***************************************************************************)
EXTENDS XZramLinked, TLAPS

-----------------------------------------------------------------------------
(* Forms with one new field.                                               *)

\* q has these fields of p.
Keeps(p, q, fields) == \A f \in fields : q[f] = p[f]

\* A form with a new zram configuration is a form, and has the rest as it was.
LEMMA PutZram ==
  ASSUME NEW p \in Forms, NEW z \in ZramForms \cup {Unset}
  PROVE  LET q == [p EXCEPT !.zram = z]
         IN  /\ q \in Forms /\ q.zram = z
             /\ Keeps(p, q, DOMAIN p \ {"zram"})
BY DEF Forms, Keeps

\* The same for a swapfile to create,
LEMMA PutCreate ==
  ASSUME NEW p \in Forms, NEW c \in CreateForms \cup {Unset}
  PROVE  LET q == [p EXCEPT !.create = c]
         IN  /\ q \in Forms /\ q.create = c
             /\ Keeps(p, q, DOMAIN p \ {"create"})
BY DEF Forms, Keeps

\* to resize,
LEMMA PutResize ==
  ASSUME NEW p \in Forms, NEW r \in ResizeForms \cup {Unset}
  PROVE  LET q == [p EXCEPT !.resize = r]
         IN  /\ q \in Forms /\ q.resize = r
             /\ Keeps(p, q, DOMAIN p \ {"resize"})
BY DEF Forms, Keeps

\* to remove,
LEMMA PutRemove ==
  ASSUME NEW p \in Forms, NEW r \in Texts \cup {Unset}
  PROVE  LET q == [p EXCEPT !.remove = r]
         IN  /\ q \in Forms /\ q.remove = r
             /\ Keeps(p, q, DOMAIN p \ {"remove"})
BY DEF Forms, Keeps

\* and for sysctl values.
LEMMA PutSysctl ==
  ASSUME NEW p \in Forms, NEW s \in SysctlForms \cup {Unset}
  PROVE  LET q == [p EXCEPT !.sysctl = s]
         IN  /\ q \in Forms /\ q.sysctl = s
             /\ Keeps(p, q, DOMAIN p \ {"sysctl"})
BY DEF Forms, Keeps

\* An option that is not given is none of the values it could have.
LEMMA UnsetIsNothing ==
  /\ Unset \notin Int /\ Unset \notin Texts /\ Unset # "invalid"
  /\ Unset \notin ZramForms /\ Unset \notin CreateForms /\ Unset \notin ResizeForms
  /\ Unset \notin SysctlForms /\ Unset \notin MmForms /\ Unset \notin Formula
  /\ Unset \notin Priorities /\ Priorities \subseteq Int
<1>1. "invalid" \in Texts
  BY DEF Texts
<1>2. -1..32767 \subseteq Int
  OBVIOUS
<1>3. Priorities \subseteq Int
  BY <1>2 DEF Priorities
<1>4. Unset \notin Int /\ Unset \notin Texts
  BY FormsAssumption
<1>5. Unset \notin ZramForms /\ Unset \notin CreateForms /\ Unset \notin ResizeForms
  BY FormsAssumption
<1>6. Unset \notin SysctlForms /\ Unset \notin MmForms /\ Unset \notin Formula
  BY FormsAssumption
<1> QED BY <1>1, <1>3, <1>4, <1>5, <1>6

-----------------------------------------------------------------------------
(* The passes for zram.                                                    *)

\* The defaults of a profile are a valid configuration (link.rs).
LEMMA ShellIsValid ==
  ASSUME NEW ctx \in Contexts
  PROVE  Shell(ctx) \in ZramForms /\ ValidZram(Shell(ctx)) /\ Shell(ctx).prio = 100
<1>1. ZramFormula(ctx.profile, ctx.ram, "default") \in Formula
      /\ ZramFormula(ctx.profile, ctx.ram, "default").of # "invalid"
  BY DEF ZramFormula, DefaultFormula, Formula, Ram, Capped
<1>2. ResidentLimit(ctx.profile, "default") \in {"half", Unset}
  BY DEF ResidentLimit
<1>3. Shell(ctx) \in ZramForms
  BY <1>1, <1>2 DEF Shell, ZramForms, Texts
<1>4. ResidentLimit(ctx.profile, "default") # "invalid"
  BY <1>2, UnsetIsNothing
<1> QED BY <1>1, <1>4, <1>3 DEF Shell, ValidZram

\* A form that gets a zram configuration gets the defaults.
LEMMA EnsureZramForm ==
  ASSUME NEW p \in Forms, NEW ctx \in Contexts
  PROVE  /\ EnsureZram(p, ctx) \in Forms
         /\ Keeps(p, EnsureZram(p, ctx), DOMAIN p \ {"zram"})
         /\ p.zram # Unset => EnsureZram(p, ctx) = p
         /\ p.zram = Unset => EnsureZram(p, ctx).zram \in {Unset, Shell(ctx)}
BY ShellIsValid, PutZram DEF EnsureZram, Keeps

\* What replaces an invalid configuration is valid and has the field the user
\* has edited, if that is valid on its own.
LEMMA RepairedForm ==
  ASSUME NEW anchor, NEW z \in ZramForms, NEW ctx \in Contexts
  PROVE  LET r == Repaired(anchor, z, ctx)
         IN  /\ r \in ZramForms /\ ValidZram(r) /\ r.prio \in Priorities
             /\ anchor # "zram_priority" => r.prio = 100
             /\ anchor = "zram_priority" =>
                  r.prio = IF z.prio \in Priorities THEN z.prio ELSE 100
             /\ anchor = "zram_size" /\ z.size # Unset /\ z.size.of # "invalid" => r.size = z.size
             /\ anchor = "zram_algo" /\ z.algo \notin {Unset, "invalid"} => r.algo = z.algo
<1> DEFINE shell == Shell(ctx)
           r == Repaired(anchor, z, ctx)
<1>0. shell \in ZramForms /\ ValidZram(shell) /\ shell.prio = 100 /\ 100 \in Priorities
  BY ShellIsValid DEF Priorities
<1>1. Priorities \subseteq Int
  BY DEF Priorities
<1> HIDE DEF shell
<1>2. CASE anchor = "zram_size"
  <2>1. r = IF z.size # Unset /\ z.size.of # "invalid" THEN [shell EXCEPT !.size = z.size] ELSE shell
    BY <1>2 DEF Repaired, shell
  <2> QED BY <2>1, <1>0, <1>2, UnsetIsNothing DEF ZramForms, ValidZram
<1>3. CASE anchor = "zram_algo"
  <2>1. r = IF z.algo \notin {Unset, "invalid"} THEN [shell EXCEPT !.algo = z.algo] ELSE shell
    BY <1>3 DEF Repaired, shell
  <2> QED BY <2>1, <1>0, <1>3 DEF ZramForms, ValidZram
<1>4. CASE anchor = "zram_priority"
  <2>1. r = IF z.prio \in Priorities THEN [shell EXCEPT !.prio = z.prio] ELSE shell
    BY <1>4, UnsetIsNothing DEF Repaired, shell
  <2> QED BY <2>1, <1>0, <1>1, <1>4 DEF ZramForms, ValidZram
<1>5. CASE anchor \notin {"zram_size", "zram_algo", "zram_priority"}
  <2>1. r = shell
    BY <1>5 DEF Repaired, shell
  <2> QED BY <2>1, <1>0, <1>5
<1> QED BY <1>2, <1>3, <1>4, <1>5

\* What the pass for the zram configuration makes of p.
SaneZram(anchor, p, q, ctx) ==
  /\ q \in Forms /\ Keeps(p, q, DOMAIN p \ {"zram"})
  /\ p.zram = Unset => q.zram = Unset
  /\ p.zram # Unset =>
       /\ q.zram \in ZramForms /\ ValidZram(q.zram)
       /\ q.zram.prio \in Priorities \cup {Unset}
       /\ ~ ValidZram(p.zram) => q.zram = Repaired(anchor, p.zram, ctx)
       /\ ValidZram(p.zram) =>
            /\ Keeps(p.zram, q.zram, DOMAIN p.zram \ {"prio"})
            /\ q.zram.prio = IF p.zram.prio \in Priorities \cup {Unset}
                             THEN p.zram.prio ELSE 100

\* The pass for the zram configuration does no more than SaneZram says.
LEMMA SanitizeZramForm ==
  ASSUME NEW anchor, NEW p \in Forms, NEW ctx \in Contexts
  PROVE  SaneZram(anchor, p, SanitizeZram(anchor, p, ctx), ctx)
<1> SUFFICES ASSUME NEW q, q = SanitizeZram(anchor, p, ctx)
             PROVE  SaneZram(anchor, p, q, ctx)
  OBVIOUS
<1> USE DEF SaneZram
<1>1. CASE p.zram = Unset
  BY <1>1 DEF SanitizeZram, Keeps
<1>2. CASE p.zram # Unset /\ ~ ValidZram(p.zram)
  <2>1. q = [p EXCEPT !.zram = Repaired(anchor, p.zram, ctx)]
    BY <1>2 DEF SanitizeZram
  <2>2. p.zram \in ZramForms
    BY <1>2 DEF Forms
  <2> QED BY <2>1, <2>2, <1>2, RepairedForm, PutZram
<1>3. CASE p.zram # Unset /\ ValidZram(p.zram)
  <2>2. p.zram \in ZramForms
    BY <1>3 DEF Forms
  <2>3. CASE p.zram.prio \in Priorities \cup {Unset}
    <3>1. q = p
      BY <1>3, <2>3 DEF SanitizeZram
    <3> QED BY <3>1, <2>2, <2>3, <1>3 DEF Keeps
  <2>4. CASE p.zram.prio \notin Priorities \cup {Unset}
    <3> DEFINE z == [p.zram EXCEPT !.prio = 100]
    <3>1. q = [p EXCEPT !.zram = z]
      BY <1>3, <2>4 DEF SanitizeZram
    <3>2. z \in ZramForms /\ z.prio = 100 /\ Keeps(p.zram, z, DOMAIN p.zram \ {"prio"})
      BY <2>2 DEF ZramForms, Keeps
    <3>3. ValidZram(z)
      BY <1>3, <2>2 DEF ValidZram, ZramForms
    <3>4. 100 \in Priorities
      BY DEF Priorities
    <3> HIDE DEF z
    <3> QED BY <3>1, <3>2, <3>3, <3>4, <2>4, <1>3, PutZram
  <2> QED BY <2>3, <2>4
<1> QED BY <1>1, <1>2, <1>3

-----------------------------------------------------------------------------
(* The passes for swapfiles.                                               *)

\* The size of the overflow swapfile is a number for every scale.
LEMMA OverflowIsNumber ==
  ASSUME NEW ram \in Nat, NEW scale
  PROVE  OverflowMb(ram, scale) \in Nat
BY DEF OverflowMb, Least

\* A size that fits stays, any other becomes one that can be created.
LEMMA FitSizeFits ==
  ASSUME NEW mb \in Nat, NEW ctx \in Contexts
  PROVE  /\ FitSize(mb, ctx) \in Nat /\ FitSize(mb, ctx) > 0
         /\ mb \in 1..OverflowMb(ctx.ram, "high") => FitSize(mb, ctx) = mb
<1>1. OverflowMb(ctx.ram, "high") \in Nat /\ OverflowMb(ctx.ram, "default") \in Nat
  BY OverflowIsNumber DEF Contexts
<1> QED BY <1>1 DEF FitSize, Most

\* The pass for a swapfile to create makes size and priority valid and the path
\* one that is well-formed; what was valid stays.
LEMMA SanitizeCreateForm ==
  ASSUME NEW p \in Forms, NEW ctx \in Contexts
  PROVE  LET q == SanitizeCreate(p, ctx)
         IN  /\ q \in Forms /\ Keeps(p, q, DOMAIN p \ {"create"})
             /\ p.create = Unset => q.create = Unset
             /\ p.create # Unset =>
                  /\ q.create \in CreateForms /\ ValidPath(q.create.path)
                  /\ q.create.size > 0 /\ q.create.prio \in Priorities
                  /\ p.create.size \in 1..OverflowMb(ctx.ram, "high")
                       => q.create.size = p.create.size
                  /\ p.create.prio \in Priorities => q.create.prio = p.create.prio
<1> DEFINE q == SanitizeCreate(p, ctx)
           c == [path |-> IF ValidPath(p.create.path) THEN p.create.path ELSE OverflowPath,
                 size |-> FitSize(p.create.size, ctx),
                 prio |-> IF p.create.prio \in Priorities THEN p.create.prio ELSE 10]
<1>1. CASE p.create = Unset
  BY <1>1 DEF SanitizeCreate, Keeps
<1>2. CASE p.create # Unset
  <2>1. p.create \in CreateForms
    BY <1>2 DEF Forms
  <2>2. q = [p EXCEPT !.create = c]
    BY <1>2 DEF SanitizeCreate
  <2>3. FitSize(p.create.size, ctx) \in Nat /\ FitSize(p.create.size, ctx) > 0
    BY <2>1, FitSizeFits DEF CreateForms
  <2>4. p.create.size \in 1..OverflowMb(ctx.ram, "high") => c.size = p.create.size
    BY <2>1, FitSizeFits DEF CreateForms
  <2>5. c \in CreateForms
    BY <2>1, <2>3 DEF CreateForms, Texts
  <2>6. ValidPath(c.path)
    BY LinkedAssumption DEF ValidPath
  <2>7. c.prio \in Priorities
    <3>1. 10 \in Priorities
      BY DEF Priorities
    <3> QED BY <3>1
  <2>8. c.size > 0 /\ (p.create.prio \in Priorities => c.prio = p.create.prio)
    BY <2>3
  <2> HIDE DEF c
  <2> QED BY <2>2, <2>4, <2>5, <2>6, <2>7, <2>8, <1>2, PutCreate
<1> QED BY <1>1, <1>2

\* The pass for a swapfile to resize drops it or makes its size valid.
LEMMA SanitizeResizeForm ==
  ASSUME NEW p \in Forms, NEW ctx \in Contexts
  PROVE  LET q == SanitizeResize(p, ctx)
         IN  /\ q \in Forms /\ Keeps(p, q, DOMAIN p \ {"resize"})
             /\ p.resize = Unset => q.resize = Unset
             /\ q.resize # Unset => ValidPath(q.resize.path) /\ q.resize.size > 0
             /\ p.resize # Unset /\ ValidPath(p.resize.path)
                  /\ p.resize.size \in 1..OverflowMb(ctx.ram, "high") => q.resize = p.resize
<1> DEFINE q == SanitizeResize(p, ctx)
           r == [path |-> p.resize.path, size |-> FitSize(p.resize.size, ctx)]
<1>1. CASE p.resize = Unset
  BY <1>1 DEF SanitizeResize, Keeps
<1>2. CASE p.resize # Unset /\ ~ ValidPath(p.resize.path)
  <2>1. q = [p EXCEPT !.resize = Unset]
    BY <1>2 DEF SanitizeResize
  <2> QED BY <2>1, <1>2, PutResize
<1>3. CASE p.resize # Unset /\ ValidPath(p.resize.path)
  <2>1. p.resize \in ResizeForms
    BY <1>3 DEF Forms
  <2>2. q = [p EXCEPT !.resize = r]
    BY <1>3, <2>1 DEF SanitizeResize, ResizeForms, Forms
  <2>3. FitSize(p.resize.size, ctx) \in Nat /\ FitSize(p.resize.size, ctx) > 0
    BY <2>1, FitSizeFits DEF ResizeForms
  <2>4. p.resize.size \in 1..OverflowMb(ctx.ram, "high") => r = p.resize
    BY <2>1, FitSizeFits DEF ResizeForms
  <2>5. r \in ResizeForms
    BY <2>1, <2>3 DEF ResizeForms
  <2>6. ValidPath(r.path) /\ r.size > 0
    BY <1>3, <2>3
  <2> HIDE DEF r
  <2> QED BY <2>2, <2>4, <2>5, <2>6, <1>3, PutResize
<1> QED BY <1>1, <1>2, <1>3

\* The pass for a swapfile to remove drops a path that is none.
LEMMA SanitizeRemoveForm ==
  ASSUME NEW p \in Forms
  PROVE  LET q == SanitizeRemove(p)
         IN  /\ q \in Forms /\ Keeps(p, q, DOMAIN p \ {"remove"})
             /\ q.remove # Unset => ValidPath(q.remove)
             /\ p.remove # Unset /\ ValidPath(p.remove) => q.remove = p.remove
BY PutRemove DEF SanitizeRemove, Keeps

\* Staging the overflow swapfile changes no other field.
LEMMA StageOverflowForm ==
  ASSUME NEW p \in Forms, NEW ctx \in Contexts
  PROVE  LET q == StageOverflow(p, ctx)
         IN  q \in Forms /\ Keeps(p, q, DOMAIN p \ {"create"})
<1> DEFINE mb == OverflowMb(ctx.ram, "default")
           c  == [path |-> OverflowPath, size |-> mb, prio |-> 10]
<1>1. mb \in Nat
  BY OverflowIsNumber DEF Contexts
<1>2. c \in CreateForms
  BY <1>1 DEF CreateForms, Texts
<1>3. StageOverflow(p, ctx) \in {p, [p EXCEPT !.create = c]}
  BY DEF StageOverflow
<1> HIDE DEF c
<1> QED BY <1>2, <1>3, PutCreate DEF Keeps

-----------------------------------------------------------------------------
(* The passes for sysctl.                                                  *)

\* The knobs that are filled in are those that were not given.
LEMMA FillSysctlForm ==
  ASSUME NEW p \in Forms
  PROVE  LET q == FillSysctl(p)
         IN  /\ q \in Forms /\ Keeps(p, q, DOMAIN p \ {"sysctl"})
             /\ q.sysctl \in SysctlForms
             /\ p.sysctl # Unset =>
                  \A k \in Knobs : p.sysctl[k] # Unset => q.sysctl[k] = p.sysctl[k]
<1> DEFINE t == ZramTuning
           s == IF p.sysctl = Unset THEN t ELSE Overlaid(t, p.sysctl)
<1>1. t \in SysctlForms
  BY DEF ZramTuning, NoSysctl, SysctlForms
<1>2. p.sysctl # Unset => p.sysctl \in SysctlForms
  BY DEF Forms
<1> HIDE DEF t
<1>3. s \in SysctlForms
  BY <1>1, <1>2 DEF Overlaid, SysctlForms
<1>4. p.sysctl # Unset => \A k \in Knobs : p.sysctl[k] # Unset => s[k] = p.sysctl[k]
  BY <1>1 DEF Overlaid, SysctlForms
<1>5. FillSysctl(p) = [p EXCEPT !.sysctl = s]
  BY DEF FillSysctl, t
<1> HIDE DEF s
<1> QED BY <1>3, <1>4, <1>5, PutSysctl

\* A clamped value is in range for the knobs that are clamped, and a value that was
\* in range stays.
LEMMA ClampedForm ==
  ASSUME NEW sc \in SysctlForms
  PROVE  /\ Clamped(sc) \in SysctlForms
         /\ \A k \in Knobs \ {"cache", "dirty", "background"} :
              Clamped(sc)[k] # Unset => InRange(k, Clamped(sc)[k])
         /\ \A k \in Knobs : sc[k] # Unset /\ InRange(k, sc[k]) => Clamped(sc)[k] = sc[k]
<1>1. ASSUME NEW k \in Knobs
      PROVE  /\ Clamped(sc)[k] \in Nat \cup {Unset}
             /\ k \notin {"cache", "dirty", "background"} /\ Clamped(sc)[k] # Unset
                  => InRange(k, Clamped(sc)[k])
             /\ sc[k] # Unset /\ InRange(k, sc[k]) => Clamped(sc)[k] = sc[k]
  <2> DEFINE v == sc[k]
             w == Clamped(sc)[k]
  <2>1. v \in Nat \cup {Unset}
    BY DEF SysctlForms
  <2>2. w = IF k \in DOMAIN Highest /\ v # Unset THEN Least(v, Highest[k]) ELSE v
    BY DEF Clamped
  <2>3. DOMAIN Highest = Knobs \ {"cache", "dirty", "background"}
    BY SMT DEF Highest, Knobs
  <2>4. k \in DOMAIN Highest => Highest[k] \in Nat
    <3>1. DOMAIN Highest = {"swappiness", "cluster", "boost", "scale"}
      BY SMT DEF Highest
    <3>2. /\ Highest["swappiness"] = 200 /\ Highest["cluster"] = 8
          /\ Highest["boost"] = 10000 /\ Highest["scale"] = 10000
      BY SMT DEF Highest
    <3> QED BY <3>1, <3>2, SMT
  <2> HIDE DEF v, w
  <2>5. CASE k \in DOMAIN Highest /\ v # Unset
    <3>1. w \in 0..Highest[k] /\ (v \in 0..Highest[k] => w = v)
      BY <2>1, <2>2, <2>4, <2>5 DEF Least
    <3>2. \A u : InRange(k, u) <=> u \in 0..Highest[k]
      <4>1. k # "cache" /\ k \notin {"dirty", "background"}
        BY <2>3, <2>5
      <4> QED BY <4>1, <2>5, SMT DEF InRange
    <3> QED BY <3>1, <3>2, <2>4 DEF v, w
  <2>6. CASE ~ (k \in DOMAIN Highest /\ v # Unset)
    BY <2>1, <2>2, <2>3, <2>6 DEF v, w
  <2> QED BY <2>5, <2>6
<1>2. Clamped(sc) = [k \in Knobs |-> Clamped(sc)[k]]
  BY DEF Clamped
<1> QED BY <1>1, <1>2 DEF SysctlForms

\* The pass for sysctl, the same.
LEMMA SanitizeSysctlForm ==
  ASSUME NEW p \in Forms
  PROVE  LET q == SanitizeSysctl(p)
         IN  /\ q \in Forms /\ Keeps(p, q, DOMAIN p \ {"sysctl"})
             /\ p.sysctl = Unset => q.sysctl = Unset
             /\ p.sysctl # Unset =>
                  /\ q.sysctl \in SysctlForms
                  /\ \A k \in Knobs \ {"cache", "dirty", "background"} :
                       q.sysctl[k] # Unset => InRange(k, q.sysctl[k])
                  /\ \A k \in Knobs : p.sysctl[k] # Unset /\ InRange(k, p.sysctl[k])
                                       => q.sysctl[k] = p.sysctl[k]
<1>1. CASE p.sysctl = Unset
  BY <1>1 DEF SanitizeSysctl, Keeps
<1>2. CASE p.sysctl # Unset
  <2>1. p.sysctl \in SysctlForms
    BY <1>2 DEF Forms
  <2>2. SanitizeSysctl(p) = [p EXCEPT !.sysctl = Clamped(p.sysctl)]
    BY <1>2 DEF SanitizeSysctl
  <2> QED BY <2>1, <2>2, <1>2, ClampedForm, PutSysctl, UnsetIsNothing
<1> QED BY <1>1, <1>2

-----------------------------------------------------------------------------
(* The two priorities.                                                     *)

\* A zram device that is raised changes nothing but its priority.
LEMMA RaiseZram ==
  ASSUME NEW p \in Forms, p.zram # Unset
  PROVE  LET q == [p EXCEPT !.zram.prio = 100]
         IN  /\ q \in Forms /\ Keeps(p, q, DOMAIN p \ {"zram"}) /\ q.zram # Unset
             /\ Keeps(p.zram, q.zram, DOMAIN p.zram \ {"prio"}) /\ q.zram.prio = 100
<1> DEFINE z == [p.zram EXCEPT !.prio = 100]
<1>1. p.zram \in ZramForms
  BY DEF Forms
<1>2. z \in ZramForms /\ z.prio = 100 /\ Keeps(p.zram, z, DOMAIN p.zram \ {"prio"})
  BY <1>1 DEF ZramForms, Keeps
<1> DEFINE q == [p EXCEPT !.zram.prio = 100]
<1>3. q = [p EXCEPT !.zram = z]
  OBVIOUS
<1> HIDE DEF z, q
<1>4. /\ q \in Forms /\ Keeps(p, q, DOMAIN p \ {"zram"}) /\ q.zram # Unset
      /\ Keeps(p.zram, q.zram, DOMAIN p.zram \ {"prio"}) /\ q.zram.prio = 100
  BY <1>2, <1>3, PutZram, UnsetIsNothing
<1> QED BY <1>4 DEF q

\* The relation of the two priorities once they were looked at.
Tiered(p, q) ==
  p.create # Unset /\ p.zram # Unset =>
    \/ q.create.prio < PriorityOr(q.zram, 0)
    \/ q.create.prio >= 100 /\ PriorityOr(p.zram, 0) <= 0

\* What is aligned changes nothing but the two priorities.
Aligned(p, q) ==
  /\ q \in Forms /\ Keeps(p, q, DOMAIN p \ {"zram", "create"})
  /\ p.zram = Unset => q.zram = Unset
  /\ p.zram # Unset =>
       /\ q.zram # Unset /\ Keeps(p.zram, q.zram, DOMAIN p.zram \ {"prio"})
       /\ q.zram.prio \in {p.zram.prio, 100}
  /\ p.create = Unset => q.create = Unset
  /\ p.create # Unset =>
       /\ q.create # Unset /\ Keeps(p.create, q.create, DOMAIN p.create \ {"prio"})
       /\ p.create.prio \in Priorities => q.create.prio \in Priorities
  /\ Tiered(p, q)

\* Aligning the priorities keeps the tiers apart, but for a zram priority of
\* nothing (align_swap_priority_with_zram).
LEMMA AlignPrioritiesForm ==
  ASSUME NEW p \in Forms, NEW ctx \in Contexts
  PROVE  Aligned(p, AlignPriorities(p, ctx))
<1> DEFINE q       == AlignPriorities(p, ctx)
           zram    == PriorityOr(p.zram, IF ctx.zram THEN 100 ELSE 0)
           low     == IF p.create # Unset /\ p.create.prio >= zram /\ zram > 0
                      THEN [p EXCEPT !.create.prio = Least(10, zram - 1)] ELSE p
           device  == PriorityOr(p.zram, 0)
           raise   == IF low.create # Unset THEN device <= low.create.prio
                      ELSE ctx.disk /\ device < 100
<1>1. q = IF p.zram # Unset /\ raise THEN [low EXCEPT !.zram.prio = 100] ELSE low
  BY DEF AlignPriorities
<1>2. p.zram \in ZramForms \cup {Unset} /\ p.create \in CreateForms \cup {Unset}
  BY DEF Forms
<1>3. /\ zram \in Int /\ device \in Int
      /\ p.zram # Unset /\ p.zram.prio # Unset => zram = device /\ device = p.zram.prio
      /\ p.zram # Unset /\ p.zram.prio = Unset => zram \in {0, 100} /\ device = 0
  BY <1>2 DEF PriorityOr, ZramForms
<1>4. /\ low \in Forms /\ Keeps(p, low, DOMAIN p \ {"create"})
      /\ p.create = Unset => low.create = Unset
      /\ p.create # Unset =>
           /\ low.create # Unset /\ Keeps(p.create, low.create, DOMAIN p.create \ {"prio"})
           /\ low.create.prio \in Int
           /\ p.create.prio \in Priorities => low.create.prio \in Priorities
           /\ zram > 0 => low.create.prio < zram
           /\ zram <= 0 => low.create = p.create
  <2>1. CASE p.create # Unset /\ p.create.prio >= zram /\ zram > 0
    <3> DEFINE c == [p.create EXCEPT !.prio = Least(10, zram - 1)]
    <3>1. p.create \in CreateForms
      BY <2>1, <1>2
    <3>2. Least(10, zram - 1) \in 0..10 /\ Least(10, zram - 1) < zram
      BY <1>3, <2>1 DEF Least
    <3>3. 0..10 \subseteq Priorities
      BY DEF Priorities
    <3> HIDE DEF zram
    <3>4. /\ c \in CreateForms /\ c.prio = Least(10, zram - 1)
          /\ Keeps(p.create, c, DOMAIN p.create \ {"prio"})
      BY <3>1, <3>2 DEF CreateForms, Keeps
    <3>5. low = [p EXCEPT !.create = c]
      BY <2>1
    <3> HIDE DEF c
    <3>6. low \in Forms /\ low.create = c /\ Keeps(p, low, DOMAIN p \ {"create"})
      BY <3>4, <3>5, PutCreate
    <3> HIDE DEF low
    <3> QED BY <3>2, <3>3, <3>4, <3>6, <2>1, <1>3, UnsetIsNothing
  <2>2. CASE ~ (p.create # Unset /\ p.create.prio >= zram /\ zram > 0)
    <3>1. low = p
      BY <2>2
    <3>2. p.create # Unset => p.create.prio \in Int
      BY <1>2 DEF CreateForms
    <3> HIDE DEF low, zram
    <3> QED BY <3>1, <3>2, <2>2, <1>3 DEF Keeps
  <2> QED BY <2>1, <2>2
<1>5. low.zram = p.zram /\ DOMAIN low = DOMAIN p
  BY <1>4 DEF Keeps, Forms
<1> HIDE DEF low, zram
<1>6. /\ q \in Forms /\ Keeps(p, q, DOMAIN p \ {"zram", "create"}) /\ q.create = low.create
      /\ p.zram = Unset => q.zram = Unset
      /\ p.zram # Unset =>
           /\ q.zram # Unset /\ Keeps(p.zram, q.zram, DOMAIN p.zram \ {"prio"})
           /\ q.zram.prio = IF raise THEN 100 ELSE p.zram.prio
  <2>1. CASE p.zram # Unset /\ raise
    <3>1. q = [low EXCEPT !.zram.prio = 100]
      BY <1>1, <2>1
    <3>2. /\ q \in Forms /\ Keeps(low, q, DOMAIN low \ {"zram"}) /\ q.zram # Unset
          /\ Keeps(low.zram, q.zram, DOMAIN low.zram \ {"prio"}) /\ q.zram.prio = 100
      <4>1. low \in Forms /\ low.zram # Unset
        BY <1>4, <1>5, <2>1
      <4> HIDE DEF q, device, raise
      <4> QED BY <3>1, <4>1, RaiseZram
    <3>3. q.create = low.create
      BY <3>2, <1>4 DEF Keeps, Forms
    <3> HIDE DEF q, raise
    <3> QED BY <3>2, <3>3, <1>4, <1>5, <2>1 DEF Keeps
  <2>2. CASE ~ (p.zram # Unset /\ raise)
    <3>1. q = low
      BY <1>1, <2>2
    <3> HIDE DEF q, raise
    <3> QED BY <3>1, <1>4, <1>5, <2>2 DEF Keeps
  <2> QED BY <2>1, <2>2
<1>7. ASSUME p.create # Unset, p.zram # Unset
      PROVE  \/ q.create.prio < PriorityOr(q.zram, 0)
             \/ q.create.prio >= 100 /\ PriorityOr(p.zram, 0) <= 0
  <2> DEFINE c == low.create.prio
  <2>1. c \in Int /\ q.create.prio = c /\ (raise <=> device <= c) /\ (zram > 0 => c < zram)
    BY <1>4, <1>6, <1>7
  <2>2. raise => PriorityOr(q.zram, 0) = 100
    BY <1>6, <1>7, UnsetIsNothing DEF PriorityOr
  <2>3. ~ raise => PriorityOr(q.zram, 0) = device
    BY <1>6, <1>7 DEF PriorityOr
  <2>4. zram = device \/ (zram \in {0, 100} /\ device = 0)
    BY <1>3, <1>7
  <2> HIDE DEF q, c, raise, device
  <2>5. device \in Int /\ zram \in Int
    BY <1>3 DEF device
  <2>6. CASE raise
    <3>1. c < 100 \/ device <= 0
      BY <2>1, <2>4, <2>5, <2>6
    <3> QED BY <3>1, <2>1, <2>2, <2>5, <2>6 DEF device
  <2>7. CASE ~ raise
    BY <2>1, <2>3, <2>5, <2>7
  <2> QED BY <2>6, <2>7
<1> HIDE DEF q, raise
<1>8. p.create # Unset =>
        /\ q.create # Unset /\ Keeps(p.create, q.create, DOMAIN p.create \ {"prio"})
        /\ p.create.prio \in Priorities => q.create.prio \in Priorities
  BY <1>4, <1>6
<1> QED BY <1>4, <1>6, <1>7, <1>8 DEF q, Aligned, Tiered

-----------------------------------------------------------------------------
(* The anchors.                                                            *)

\* The form without zram where hibernation uses it.
Awake(seed, ctx) ==
  IF ctx.resume /\ seed.zram # Unset THEN [seed EXCEPT !.zram = Unset] ELSE seed

\* Hibernation takes away nothing but the zram configuration.
LEMMA AwakeForm ==
  ASSUME NEW seed \in Forms, NEW ctx
  PROVE  LET q == Awake(seed, ctx)
         IN  /\ q \in Forms /\ Keeps(seed, q, DOMAIN seed \ {"zram"})
             /\ q.zram \in {seed.zram, Unset}
             /\ ~ ctx.resume => q = seed
BY PutZram DEF Awake, Keeps

\* The passes for the three fields of zram, up to the fields that depend on them.
Prepared(anchor, p, q) ==
  /\ q \in Forms /\ Keeps(p, q, DOMAIN p \ {"zram"})
  /\ q.zram # Unset =>
       /\ q.zram \in ZramForms /\ ValidZram(q.zram)
       /\ q.zram.prio \in Priorities \cup {Unset}
  /\ p.zram = Unset /\ q.zram # Unset => q.zram.prio = 100
  /\ p.zram # Unset =>
       /\ q.zram # Unset
       /\ anchor = "zram_size" /\ p.zram.size # Unset /\ p.zram.size.of # "invalid"
            => q.zram.size = p.zram.size
       /\ anchor = "zram_algo" /\ p.zram.algo \notin {Unset, "invalid"}
            => q.zram.algo = p.zram.algo
       /\ anchor = "zram_priority" => q.zram.prio \in {p.zram.prio, 100}
       /\ anchor = "zram_priority" /\ p.zram.prio \in Priorities =>
            q.zram.prio = p.zram.prio

\* Whatever field of zram is the anchor, the form is prepared.
LEMMA ZramPrepared ==
  ASSUME NEW p \in Forms, NEW ctx \in Contexts, NEW anchor
  PROVE  Prepared(anchor, p, SanitizeZram(anchor, EnsureZram(p, ctx), ctx))
<1> DEFINE e == EnsureZram(p, ctx)
<1>0. SUFFICES ASSUME NEW q, q = SanitizeZram(anchor, e, ctx)
               PROVE  Prepared(anchor, p, q)
  OBVIOUS
<1>1. /\ e \in Forms /\ Keeps(p, e, DOMAIN p \ {"zram"})
      /\ p.zram # Unset => e = p
      /\ p.zram = Unset => e.zram \in {Unset, Shell(ctx)}
  BY EnsureZramForm
<1>2. DOMAIN e = DOMAIN p
  BY <1>1 DEF Forms
<1> HIDE DEF e
<1>3a. SaneZram(anchor, e, q, ctx)
  BY <1>0, <1>1, SanitizeZramForm
<1>3. /\ q \in Forms /\ Keeps(e, q, DOMAIN e \ {"zram"})
      /\ e.zram = Unset => q.zram = Unset
      /\ e.zram # Unset =>
           /\ q.zram \in ZramForms /\ ValidZram(q.zram)
           /\ q.zram.prio \in Priorities \cup {Unset}
           /\ ~ ValidZram(e.zram) => q.zram = Repaired(anchor, e.zram, ctx)
           /\ ValidZram(e.zram) =>
                /\ Keeps(e.zram, q.zram, DOMAIN e.zram \ {"prio"})
                /\ q.zram.prio = IF e.zram.prio \in Priorities \cup {Unset}
                                 THEN e.zram.prio ELSE 100
  BY <1>3a DEF SaneZram
<1> USE DEF Prepared
<1>4. Keeps(p, q, DOMAIN p \ {"zram"})
  BY <1>1, <1>2, <1>3 DEF Keeps
<1>5. CASE p.zram = Unset
  <2>1. e.zram # Unset => e.zram = Shell(ctx) /\ ValidZram(e.zram) /\ e.zram.prio = 100
    BY <1>1, <1>5, ShellIsValid
  <2>2. 100 \in Priorities
    BY DEF Priorities
  <2> QED BY <1>3, <1>4, <1>5, <2>1, <2>2
<1>6. CASE p.zram # Unset
  <2>1. e = p /\ p.zram \in ZramForms
    BY <1>1, <1>6 DEF Forms
  <2>2. q.zram # Unset
    BY <1>3, <1>6, <2>1, UnsetIsNothing
  <2>3. CASE ValidZram(p.zram)
    <3>1. q.zram.size = p.zram.size /\ q.zram.algo = p.zram.algo
      BY <1>3, <1>6, <2>1, <2>3 DEF Keeps, ZramForms
    <3> QED BY <1>3, <1>4, <1>6, <2>1, <2>2, <2>3, <3>1
  <2>4. CASE ~ ValidZram(p.zram)
    <3> DEFINE r == Repaired(anchor, p.zram, ctx)
    <3>1. q.zram = r
      BY <1>3, <1>6, <2>1, <2>4
    <3>2. /\ r \in ZramForms /\ ValidZram(r) /\ r.prio \in Priorities
          /\ anchor = "zram_priority" =>
               r.prio = IF p.zram.prio \in Priorities THEN p.zram.prio ELSE 100
          /\ anchor = "zram_size" /\ p.zram.size # Unset /\ p.zram.size.of # "invalid"
               => r.size = p.zram.size
          /\ anchor = "zram_algo" /\ p.zram.algo \notin {Unset, "invalid"}
               => r.algo = p.zram.algo
      BY <2>1, RepairedForm
    <3> HIDE DEF r
    <3> QED BY <1>3, <1>4, <1>6, <2>2, <3>1, <3>2
  <2> QED BY <2>3, <2>4
<1> QED BY <1>5, <1>6

\* A completed configuration keeps the size it was completed for.
LEMMA CompletedForm ==
  ASSUME NEW z \in ZramForms, NEW ctx \in Contexts
  PROVE  Completed(z, ctx) \in ZramForms /\ Completed(z, ctx).size = z.size
<1> DEFINE a == IF z.algo = Unset THEN Shell(ctx).algo ELSE z.algo
           r == IF z.prio = Unset THEN 100 ELSE z.prio
           l == Shell(ctx).limit
<1>1. Shell(ctx).algo \in Texts \cup {Unset} /\ l \in Texts \cup {Unset}
  BY ShellIsValid DEF ZramForms
<1>2. z.algo \in Texts \cup {Unset} /\ z.prio \in Int \cup {Unset}
  BY DEF ZramForms
<1>3. a \in Texts \cup {Unset} /\ r \in Int \cup {Unset}
  BY <1>1, <1>2
<1>4. Completed(z, ctx) = [z EXCEPT !.algo = a, !.prio = r, !.limit = l]
  BY DEF Completed, ZramForms
<1> HIDE DEF a, r, l
<1> QED BY <1>1, <1>3, <1>4 DEF ZramForms

\* The anchor is the zram size: it stays.
LEMMA AnchoredSize ==
  ASSUME NEW p \in Forms, NEW ctx \in Contexts,
         NEW q, q = Anchored("zram_size", p, ctx)
  PROVE  /\ q \in Forms
         /\ p.zram # Unset /\ p.zram.size # Unset /\ p.zram.size.of # "invalid" =>
              q.zram # Unset /\ q.zram.size = p.zram.size
<1> DEFINE c == SanitizeZram("zram_size", EnsureZram(p, ctx), ctx)
           f == IF c.zram = Unset THEN c ELSE [c EXCEPT !.zram = Completed(@, ctx)]
<1>1. /\ c \in Forms
      /\ c.zram # Unset => c.zram \in ZramForms
      /\ p.zram # Unset => c.zram # Unset
      /\ p.zram # Unset /\ p.zram.size # Unset /\ p.zram.size.of # "invalid" =>
           c.zram.size = p.zram.size
  <2>1. Prepared("zram_size", p, c)
    BY ZramPrepared
  <2> HIDE DEF c
  <2> QED BY <2>1 DEF Prepared
<1>2. q = StageOverflow(FillSysctl(f), ctx)
  BY DEF Anchored, Dependents
<1> HIDE DEF c
<1>3. /\ f \in Forms
      /\ c.zram = Unset => f = c
      /\ c.zram # Unset => f.zram # Unset /\ f.zram.size = c.zram.size
  <2>1. CASE c.zram = Unset
    BY <2>1, <1>1
  <2>2. CASE c.zram # Unset
    <3> DEFINE z == Completed(c.zram, ctx)
    <3>1. z \in ZramForms /\ z.size = c.zram.size
      BY <2>2, <1>1, CompletedForm
    <3>2. f = [c EXCEPT !.zram = z]
      BY <2>2
    <3> HIDE DEF z, f
    <3> QED BY <2>2, <1>1, <3>1, <3>2, PutZram, UnsetIsNothing
  <2> QED BY <2>1, <2>2
<1> HIDE DEF f
<1>4. /\ FillSysctl(f) \in Forms /\ FillSysctl(f).zram = f.zram
  BY <1>3, FillSysctlForm DEF Keeps, Forms
<1>5. q \in Forms /\ q.zram = f.zram
  BY <1>2, <1>4, StageOverflowForm DEF Keeps, Forms
<1> QED BY <1>1, <1>3, <1>5

\* The anchor is the algorithm: it stays.
LEMMA AnchoredAlgo ==
  ASSUME NEW p \in Forms, NEW ctx \in Contexts,
         NEW q, q = Anchored("zram_algo", p, ctx)
  PROVE  /\ q \in Forms
         /\ p.zram # Unset /\ p.zram.algo \notin {Unset, "invalid"} =>
              q.zram # Unset /\ ValidZram(q.zram) /\ q.zram.algo = p.zram.algo
<1> DEFINE c == SanitizeZram("zram_algo", EnsureZram(p, ctx), ctx)
           above == c.zram # Unset /\ (ctx.disk \/ c.create # Unset)
                      /\ PriorityOr(c.zram, 0) < 100
           f == IF above THEN [c EXCEPT !.zram.prio = 100] ELSE c
           g == FillSysctl(f)
<1>1. Prepared("zram_algo", p, c)
  BY ZramPrepared
<1>2. q = [g EXCEPT !.sysctl["cluster"] = 0]
  BY DEF Anchored, Dependents
<1> HIDE DEF c
<1>3. c \in Forms /\ (c.zram # Unset => c.zram \in ZramForms /\ ValidZram(c.zram))
  BY <1>1 DEF Prepared
<1>4. /\ f \in Forms
      /\ c.zram # Unset => f.zram # Unset /\ Keeps(c.zram, f.zram, DOMAIN c.zram \ {"prio"})
  <2>1. CASE above
    <3>1. f = [c EXCEPT !.zram.prio = 100]
      BY <2>1
    <3> HIDE DEF f
    <3> QED BY <3>1, <2>1, <1>3, RaiseZram
  <2>2. CASE ~ above
    <3>1. f = c
      BY <2>2
    <3> HIDE DEF f
    <3> QED BY <3>1, <1>3 DEF Keeps
  <2> QED BY <2>1, <2>2
<1> HIDE DEF f
<1>5. g \in Forms /\ g.zram = f.zram /\ g.sysctl \in SysctlForms
  BY <1>4, FillSysctlForm DEF Keeps, Forms
<1>6. q \in Forms /\ q.zram = g.zram
  <2> DEFINE t == [g.sysctl EXCEPT !["cluster"] = 0]
  <2>1. t \in SysctlForms
    BY <1>5 DEF SysctlForms
  <2> HIDE DEF g
  <2>2. q = [g EXCEPT !.sysctl = t]
    BY <1>2
  <2> HIDE DEF t
  <2> QED BY <1>5, <2>1, <2>2, PutSysctl DEF Keeps, Forms
<1> HIDE DEF g
<1>7. c.zram # Unset => f.zram.algo = c.zram.algo /\ ValidZram(f.zram)
  BY <1>3, <1>4 DEF Keeps, ZramForms, ValidZram
<1> QED BY <1>1, <1>4, <1>5, <1>6, <1>7 DEF Prepared

\* The anchor is the zram priority: it stays or is raised, and the tiers are apart.
LEMMA AnchoredPriority ==
  ASSUME NEW p \in Forms, NEW ctx \in Contexts,
         NEW q, q = Anchored("zram_priority", p, ctx)
  PROVE  /\ q \in Forms
         /\ q.zram # Unset => ValidZram(q.zram) /\ q.zram.prio \in Priorities \cup {Unset}
         /\ p.zram # Unset /\ p.zram.prio \in Priorities =>
              q.zram # Unset /\ q.zram.prio \in {p.zram.prio, 100}
         /\ q.create # Unset => p.create # Unset
         /\ q.create # Unset /\ p.create.prio \in Priorities => q.create.prio \in Priorities
         /\ q.create # Unset /\ q.zram # Unset =>
              \/ q.create.prio < PriorityOr(q.zram, 0)
              \/ q.create.prio >= 100 /\ p.zram # Unset /\ PriorityOr(p.zram, 0) <= 0
<1> DEFINE c == SanitizeZram("zram_priority", EnsureZram(p, ctx), ctx)
<1>1. Prepared("zram_priority", p, c)
  BY ZramPrepared
<1>2. q = AlignPriorities(c, ctx)
  BY DEF Anchored, Dependents
<1> HIDE DEF c
<1>3. c \in Forms /\ (c.zram # Unset => c.zram \in ZramForms /\ ValidZram(c.zram))
  BY <1>1 DEF Prepared
<1>4. c.create = p.create
  BY <1>1 DEF Prepared, Keeps, Forms
<1>5. /\ q \in Forms
      /\ c.zram = Unset => q.zram = Unset
      /\ c.zram # Unset =>
           /\ q.zram # Unset /\ Keeps(c.zram, q.zram, DOMAIN c.zram \ {"prio"})
           /\ q.zram.prio \in {c.zram.prio, 100}
      /\ c.create = Unset => q.create = Unset
      /\ c.create # Unset =>
           /\ q.create # Unset
           /\ c.create.prio \in Priorities => q.create.prio \in Priorities
      /\ Tiered(c, q)
  <2>1. Aligned(c, q)
    BY <1>2, <1>3, AlignPrioritiesForm
  <2> QED BY <2>1 DEF Aligned
<1>6. c.zram # Unset => ValidZram(q.zram) /\ q.zram.prio \in Priorities \cup {Unset}
  <2>1. 100 \in Priorities
    BY DEF Priorities
  <2>2. c.zram # Unset => ValidZram(q.zram)
    BY <1>3, <1>5 DEF Keeps, ZramForms, ValidZram
  <2> QED BY <2>1, <2>2, <1>1, <1>5 DEF Prepared
<1>7. p.zram # Unset /\ p.zram.prio \in Priorities =>
        q.zram # Unset /\ q.zram.prio \in {p.zram.prio, 100}
  BY <1>1, <1>5 DEF Prepared
<1>8. c.zram # Unset /\ PriorityOr(c.zram, 0) <= 0 =>
        p.zram # Unset /\ PriorityOr(p.zram, 0) <= 0
  <2> SUFFICES ASSUME c.zram # Unset, PriorityOr(c.zram, 0) <= 0
               PROVE  p.zram # Unset /\ PriorityOr(p.zram, 0) <= 0
    OBVIOUS
  <2>1. c.zram.prio # 100
    BY UnsetIsNothing DEF PriorityOr
  <2>2. p.zram # Unset /\ c.zram.prio = p.zram.prio
    BY <2>1, <1>1 DEF Prepared
  <2> QED BY <2>2 DEF PriorityOr
<1> QED BY <1>4, <1>5, <1>6, <1>7, <1>8 DEF Tiered

\* The anchor is the swapfile to create: its size stays, and the tiers are apart.
LEMMA AnchoredCreate ==
  ASSUME NEW p \in Forms, NEW ctx \in Contexts,
         NEW q, q = Anchored("swapfile_create", p, ctx)
  PROVE  /\ q \in Forms
         /\ p.zram = Unset => q.zram = Unset
         /\ p.zram # Unset =>
              /\ q.zram # Unset /\ Keeps(p.zram, q.zram, DOMAIN p.zram \ {"prio"})
              /\ q.zram.prio \in {p.zram.prio, 100}
         /\ q.create # Unset => p.create # Unset /\ q.create.prio \in Priorities
         /\ p.create # Unset =>
              /\ q.create # Unset
              /\ p.create.size \in 1..OverflowMb(ctx.ram, "high")
                   => q.create.size = p.create.size
         /\ q.create # Unset /\ q.zram # Unset =>
              \/ q.create.prio < PriorityOr(q.zram, 0)
              \/ q.create.prio >= 100 /\ PriorityOr(p.zram, 0) <= 0
<1> DEFINE c == SanitizeCreate(p, ctx)
<1>1. /\ c \in Forms /\ c.zram = p.zram
      /\ p.create = Unset => c.create = Unset
      /\ p.create # Unset =>
           /\ c.create \in CreateForms /\ c.create.prio \in Priorities
           /\ p.create.size \in 1..OverflowMb(ctx.ram, "high") => c.create.size = p.create.size
  BY SanitizeCreateForm DEF Keeps, Forms
<1>2. q = AlignPriorities(c, ctx)
  BY DEF Anchored
<1> HIDE DEF c
<1>3. /\ q \in Forms
      /\ c.zram = Unset => q.zram = Unset
      /\ c.zram # Unset =>
           /\ q.zram # Unset /\ Keeps(c.zram, q.zram, DOMAIN c.zram \ {"prio"})
           /\ q.zram.prio \in {c.zram.prio, 100}
      /\ c.create = Unset => q.create = Unset
      /\ c.create # Unset =>
           /\ q.create # Unset /\ Keeps(c.create, q.create, DOMAIN c.create \ {"prio"})
           /\ c.create.prio \in Priorities => q.create.prio \in Priorities
      /\ Tiered(c, q)
  <2>1. Aligned(c, q)
    BY <1>2, <1>1, AlignPrioritiesForm
  <2> QED BY <2>1 DEF Aligned
<1>4. p.create # Unset => c.create # Unset
  BY <1>1, UnsetIsNothing
<1>5. c.create # Unset => q.create.size = c.create.size
  BY <1>1, <1>3 DEF Keeps, CreateForms
<1> QED BY <1>1, <1>3, <1>4, <1>5 DEF Tiered

\* The anchor is sysctl: every value in range stays.
LEMMA AnchoredSysctl ==
  ASSUME NEW p \in Forms, NEW ctx \in Contexts,
         NEW q, q = Anchored("sysctl", p, ctx)
  PROVE  /\ q \in Forms
         /\ p.sysctl # Unset =>
              /\ q.sysctl # Unset
              /\ \A k \in Knobs : p.sysctl[k] # Unset /\ InRange(k, p.sysctl[k])
                                   => q.sysctl[k] = p.sysctl[k]
<1> DEFINE c == SanitizeSysctl(p)
           eager == c.sysctl # Unset /\ c.sysctl["swappiness"] # Unset
                      /\ c.sysctl["swappiness"] >= 100
           z == IF eager THEN EnsureZram(c, ctx) ELSE c
           r == IF eager /\ z.zram # Unset /\ PriorityOr(z.zram, 0) < 100
                THEN [z EXCEPT !.zram.prio = 100] ELSE z
<1>1. q = FillSysctl(r)
  BY DEF Anchored
<1>2. /\ c \in Forms
      /\ p.sysctl # Unset =>
           /\ c.sysctl \in SysctlForms
           /\ \A k \in Knobs : p.sysctl[k] # Unset /\ InRange(k, p.sysctl[k])
                                => c.sysctl[k] = p.sysctl[k]
  BY SanitizeSysctlForm
<1> HIDE DEF c
<1>3. z \in Forms /\ z.sysctl = c.sysctl
  <2>1. EnsureZram(c, ctx) \in Forms /\ EnsureZram(c, ctx).sysctl = c.sysctl
    BY <1>2, EnsureZramForm DEF Keeps, Forms
  <2> QED BY <2>1, <1>2
<1> HIDE DEF z
<1>4. r \in Forms /\ r.sysctl = z.sysctl
  <2>1. CASE eager /\ z.zram # Unset /\ PriorityOr(z.zram, 0) < 100
    <3>1. r = [z EXCEPT !.zram.prio = 100]
      BY <2>1
    <3> HIDE DEF r
    <3> QED BY <3>1, <2>1, <1>3, RaiseZram DEF Keeps, Forms
  <2>2. CASE ~ (eager /\ z.zram # Unset /\ PriorityOr(z.zram, 0) < 100)
    BY <2>2, <1>3
  <2> QED BY <2>1, <2>2
<1> HIDE DEF r
<1>5. /\ q \in Forms /\ q.sysctl \in SysctlForms
      /\ r.sysctl # Unset => \A k \in Knobs : r.sysctl[k] # Unset => q.sysctl[k] = r.sysctl[k]
  BY <1>1, <1>4, FillSysctlForm
<1> QED BY <1>2, <1>3, <1>4, <1>5, UnsetIsNothing

\* The anchor is the swapfile to resize: it stays when it can be used.
LEMMA AnchoredResize ==
  ASSUME NEW p \in Forms, NEW ctx \in Contexts,
         NEW q, q = Anchored("swapfile_resize", p, ctx)
  PROVE  /\ q \in Forms
         /\ p.resize # Unset /\ ValidPath(p.resize.path)
              /\ p.resize.size \in 1..OverflowMb(ctx.ram, "high") => q.resize = p.resize
<1>1. q = SanitizeResize(p, ctx)
  BY DEF Anchored
<1> QED BY <1>1, SanitizeResizeForm

\* The anchor is the swapfile to remove: it stays when it can be used.
LEMMA AnchoredRemove ==
  ASSUME NEW p \in Forms, NEW ctx \in Contexts,
         NEW q, q = Anchored("swapfile_remove", p, ctx)
  PROVE  /\ q \in Forms
         /\ q.remove # Unset => ValidPath(q.remove)
         /\ p.remove # Unset /\ ValidPath(p.remove) => q.remove = p.remove
<1> DEFINE c == IF p.remove = Unset THEN p ELSE [p EXCEPT !.create = Unset, !.resize = Unset]
<1>1. q = SanitizeRemove(c)
  BY DEF Anchored
<1>2. c \in Forms /\ c.remove = p.remove
  BY DEF Forms
<1> HIDE DEF c
<1> QED BY <1>1, <1>2, SanitizeRemoveForm

-----------------------------------------------------------------------------
(* The passes at the end.                                                  *)

\* What the last passes make of the form p.
Finished(p, q, ctx) ==
  /\ q \in Forms /\ Keeps(p, q, DOMAIN p \ {"zram", "sysctl", "create", "resize"})
  /\ p.zram = Unset => q.zram = Unset
  /\ p.zram # Unset =>
       /\ q.zram # Unset /\ ValidZram(q.zram)
       /\ q.zram.prio = 100 \/ (ValidZram(p.zram) /\ q.zram.prio = p.zram.prio)
       /\ ValidZram(p.zram) => Keeps(p.zram, q.zram, DOMAIN p.zram \ {"prio"})
       /\ ValidZram(p.zram) /\ p.zram.prio \in Priorities \cup {Unset} =>
            q.zram.prio = p.zram.prio
       /\ p.zram.size # Unset /\ p.zram.size.of # "invalid" => q.zram.size = p.zram.size
  /\ p.sysctl = Unset => q.sysctl = Unset
  /\ p.sysctl # Unset =>
       /\ q.sysctl # Unset
       /\ \A k \in Knobs \ {"cache", "dirty", "background"} :
            q.sysctl[k] # Unset => InRange(k, q.sysctl[k])
       /\ \A k \in Knobs : p.sysctl[k] # Unset /\ InRange(k, p.sysctl[k])
                            => q.sysctl[k] = p.sysctl[k]
  /\ p.create = Unset => q.create = Unset
  /\ p.create # Unset =>
       /\ q.create # Unset /\ ValidPath(q.create.path)
       /\ q.create.size > 0 /\ q.create.prio \in Priorities
       /\ p.create.size \in 1..OverflowMb(ctx.ram, "high") => q.create.size = p.create.size
       /\ p.create.prio \in Priorities => q.create.prio = p.create.prio
  /\ p.resize = Unset => q.resize = Unset
  /\ q.resize # Unset => ValidPath(q.resize.path) /\ q.resize.size > 0
  /\ p.resize # Unset /\ ValidPath(p.resize.path)
       /\ p.resize.size \in 1..OverflowMb(ctx.ram, "high") => q.resize = p.resize

\* The passes at the end do no more than Finished says.
LEMMA FinishedForm ==
  ASSUME NEW p \in Forms, NEW ctx \in Contexts
  PROVE  Finished(p, SanitizeResize(SanitizeCreate(SanitizeSysctl(
                       SanitizeZram("zram_size", p, ctx)), ctx), ctx), ctx)
<1> SUFFICES ASSUME NEW a, a = SanitizeZram("zram_size", p, ctx),
                    NEW b, b = SanitizeSysctl(a),
                    NEW c, c = SanitizeCreate(b, ctx),
                    NEW q, q = SanitizeResize(c, ctx)
             PROVE  Finished(p, q, ctx)
  OBVIOUS
<1>1. SaneZram("zram_size", p, a, ctx)
  BY SanitizeZramForm
<1>2. a \in Forms /\ Keeps(p, a, DOMAIN p \ {"zram"})
  BY <1>1 DEF SaneZram
<1>3. /\ b \in Forms /\ Keeps(a, b, DOMAIN a \ {"sysctl"})
      /\ a.sysctl = Unset => b.sysctl = Unset
      /\ a.sysctl # Unset =>
           /\ b.sysctl \in SysctlForms
           /\ \A k \in Knobs \ {"cache", "dirty", "background"} :
                b.sysctl[k] # Unset => InRange(k, b.sysctl[k])
           /\ \A k \in Knobs : a.sysctl[k] # Unset /\ InRange(k, a.sysctl[k])
                                => b.sysctl[k] = a.sysctl[k]
  BY <1>2, SanitizeSysctlForm
<1>4. /\ c \in Forms /\ Keeps(b, c, DOMAIN b \ {"create"})
      /\ b.create = Unset => c.create = Unset
      /\ b.create # Unset =>
           /\ c.create \in CreateForms /\ ValidPath(c.create.path)
           /\ c.create.size > 0 /\ c.create.prio \in Priorities
           /\ b.create.size \in 1..OverflowMb(ctx.ram, "high") => c.create.size = b.create.size
           /\ b.create.prio \in Priorities => c.create.prio = b.create.prio
  BY <1>3, SanitizeCreateForm
<1>5. /\ q \in Forms /\ Keeps(c, q, DOMAIN c \ {"resize"})
      /\ c.resize = Unset => q.resize = Unset
      /\ q.resize # Unset => ValidPath(q.resize.path) /\ q.resize.size > 0
      /\ c.resize # Unset /\ ValidPath(c.resize.path)
           /\ c.resize.size \in 1..OverflowMb(ctx.ram, "high") => q.resize = c.resize
  BY <1>4, SanitizeResizeForm
<1>6. /\ DOMAIN a = DOMAIN p /\ DOMAIN b = DOMAIN p /\ DOMAIN c = DOMAIN p
      /\ {"zram", "sysctl", "create", "resize"} \subseteq DOMAIN p
  BY <1>2, <1>3, <1>4 DEF Forms
<1>7. /\ a.sysctl = p.sysctl /\ b.create = p.create /\ c.resize = p.resize
      /\ q.zram = a.zram /\ q.sysctl = b.sysctl /\ q.create = c.create
      /\ Keeps(p, q, DOMAIN p \ {"zram", "sysctl", "create", "resize"})
  BY <1>2, <1>3, <1>4, <1>5, <1>6 DEF Keeps
<1>8. p.zram = Unset => q.zram = Unset
  BY <1>1, <1>7 DEF SaneZram
<1>9. ASSUME p.zram # Unset
      PROVE  /\ q.zram # Unset /\ ValidZram(q.zram)
             /\ q.zram.prio = 100 \/ (ValidZram(p.zram) /\ q.zram.prio = p.zram.prio)
             /\ ValidZram(p.zram) => Keeps(p.zram, q.zram, DOMAIN p.zram \ {"prio"})
             /\ ValidZram(p.zram) /\ p.zram.prio \in Priorities \cup {Unset} =>
                  q.zram.prio = p.zram.prio
             /\ p.zram.size # Unset /\ p.zram.size.of # "invalid" => q.zram.size = p.zram.size
  <2>1. p.zram \in ZramForms
    BY <1>9 DEF Forms
  <2>2. CASE ValidZram(p.zram)
    <3>1. /\ q.zram \in ZramForms /\ ValidZram(q.zram)
          /\ Keeps(p.zram, q.zram, DOMAIN p.zram \ {"prio"})
          /\ q.zram.prio = IF p.zram.prio \in Priorities \cup {Unset} THEN p.zram.prio ELSE 100
      BY <1>1, <1>7, <1>9, <2>2 DEF SaneZram
    <3>2. q.zram.size = p.zram.size
      BY <2>1, <3>1 DEF Keeps, ZramForms
    <3> QED BY <3>1, <3>2, <2>2, UnsetIsNothing
  <2>3. CASE ~ ValidZram(p.zram)
    <3>1. q.zram = Repaired("zram_size", p.zram, ctx)
      BY <1>1, <1>7, <1>9, <2>3 DEF SaneZram
    <3> QED BY <2>1, <2>3, <3>1, RepairedForm, UnsetIsNothing
  <2> QED BY <2>2, <2>3
<1>10. p.sysctl # Unset => q.sysctl # Unset
  BY <1>3, <1>7, UnsetIsNothing
<1>11. p.create # Unset => q.create # Unset
  BY <1>4, <1>7, UnsetIsNothing
<1> QED BY <1>3, <1>4, <1>5, <1>7, <1>8, <1>9, <1>10, <1>11 DEF Finished

\* The optimization is the anchor's part and then the passes at the end.
LEMMA OptimizePasses ==
  ASSUME NEW seed \in Forms, NEW ctx \in Contexts, NEW anchor,
         Anchored(anchor, Awake(seed, ctx), ctx) \in Forms
  PROVE  Finished(Anchored(anchor, Awake(seed, ctx), ctx), Optimize(anchor, seed, ctx), ctx)
<1> DEFINE q == Anchored(anchor, Awake(seed, ctx), ctx)
<1>1. Optimize(anchor, seed, ctx) =
        SanitizeResize(SanitizeCreate(SanitizeSysctl(SanitizeZram("zram_size", q, ctx)), ctx), ctx)
  BY DEF Optimize, Awake
<1> HIDE DEF q
<1> QED BY <1>1, FinishedForm DEF q

-----------------------------------------------------------------------------
(* The optimization as a whole.                                            *)

\* The optimization takes forms to forms, in its parts and as a whole: no pass reads
\* a field that an earlier one took away (link.rs).
THEOREM OptimizedIsForm ==
  ASSUME NEW seed \in Forms, NEW ctx \in Contexts, NEW anchor \in Anchors
  PROVE  /\ Anchored(anchor, Awake(seed, ctx), ctx) \in Forms
         /\ Optimize(anchor, seed, ctx) \in Forms
<1>1. Awake(seed, ctx) \in Forms
  BY AwakeForm
<1>2. Anchored(anchor, Awake(seed, ctx), ctx) \in Forms
  BY <1>1, AnchoredSize, AnchoredAlgo, AnchoredPriority, AnchoredCreate, AnchoredSysctl,
     AnchoredResize, AnchoredRemove DEF Anchors
<1> QED BY <1>2, OptimizePasses DEF Finished

\* Whatever the form and the machine, the field the user has edited survives all
\* passes, if it can be used; only a priority may be raised (link.rs).
THEOREM EditIsKept ==
  ASSUME NEW seed \in Forms, NEW ctx \in Contexts, NEW anchor \in Anchors,
         NEW got, got = Optimize(anchor, seed, ctx)
  PROVE  /\ anchor = "zram_size" /\ seed.zram # Unset /\ ~ ctx.resume
              /\ seed.zram.size # Unset /\ seed.zram.size.of # "invalid"
              => got.zram.size = seed.zram.size
         /\ anchor = "zram_algo" /\ seed.zram # Unset /\ ~ ctx.resume
              /\ seed.zram.algo \notin {Unset, "invalid"}
              => got.zram.algo = seed.zram.algo
         /\ anchor = "zram_priority" /\ seed.zram # Unset /\ ~ ctx.resume
              /\ seed.zram.prio \in Priorities
              => got.zram.prio \in {seed.zram.prio, 100}
         /\ anchor = "sysctl" /\ seed.sysctl # Unset =>
              \A k \in Knobs : seed.sysctl[k] # Unset /\ InRange(k, seed.sysctl[k])
                                 => got.sysctl[k] = seed.sysctl[k]
         /\ anchor = "swapfile_create" /\ seed.create # Unset
              /\ seed.create.size \in 1..OverflowMb(ctx.ram, "high")
              => got.create.size = seed.create.size
         /\ anchor = "swapfile_resize" /\ seed.resize # Unset
              /\ ValidPath(seed.resize.path)
              /\ seed.resize.size \in 1..OverflowMb(ctx.ram, "high")
              => got.resize = seed.resize
         /\ anchor = "swapfile_remove" /\ seed.remove # Unset /\ ValidPath(seed.remove)
              => got.remove = seed.remove
<1> DEFINE p == Awake(seed, ctx)
           q == Anchored(anchor, p, ctx)
<1>1. /\ p \in Forms /\ p.sysctl = seed.sysctl /\ p.create = seed.create
      /\ p.resize = seed.resize /\ p.remove = seed.remove
      /\ ~ ctx.resume => p = seed
  BY AwakeForm DEF Keeps, Forms
<1>2. q \in Forms /\ Finished(q, got, ctx)
  BY OptimizedIsForm, OptimizePasses
<1> HIDE DEF p
<1>3. ASSUME anchor = "zram_size", seed.zram # Unset, ~ ctx.resume,
             seed.zram.size # Unset, seed.zram.size.of # "invalid"
      PROVE  got.zram.size = seed.zram.size
  <2>1. q.zram # Unset /\ q.zram.size = seed.zram.size
    BY <1>1, <1>3, AnchoredSize
  <2> HIDE DEF q
  <2> QED BY <2>1, <1>2, <1>3 DEF Finished
<1>4. ASSUME anchor = "zram_algo", seed.zram # Unset, ~ ctx.resume,
             seed.zram.algo \notin {Unset, "invalid"}
      PROVE  got.zram.algo = seed.zram.algo
  <2>1. q.zram # Unset /\ ValidZram(q.zram) /\ q.zram.algo = seed.zram.algo
    BY <1>1, <1>4, AnchoredAlgo
  <2> HIDE DEF q
  <2>2. q.zram \in ZramForms /\ Keeps(q.zram, got.zram, DOMAIN q.zram \ {"prio"})
    BY <2>1, <1>2 DEF Finished, Forms
  <2> QED BY <2>1, <2>2 DEF Keeps, ZramForms
<1>5. ASSUME anchor = "zram_priority", seed.zram # Unset, ~ ctx.resume,
             seed.zram.prio \in Priorities
      PROVE  got.zram.prio \in {seed.zram.prio, 100}
  <2>1. q.zram # Unset /\ q.zram.prio \in {seed.zram.prio, 100}
    BY <1>1, <1>5, AnchoredPriority
  <2> HIDE DEF q
  <2> QED BY <2>1, <1>2 DEF Finished
<1>6. ASSUME anchor = "sysctl", seed.sysctl # Unset,
             NEW k \in Knobs, seed.sysctl[k] # Unset, InRange(k, seed.sysctl[k])
      PROVE  got.sysctl[k] = seed.sysctl[k]
  <2>1. q.sysctl # Unset /\ q.sysctl[k] = seed.sysctl[k]
    BY <1>1, <1>6, AnchoredSysctl
  <2> HIDE DEF q
  <2> QED BY <2>1, <1>2, <1>6 DEF Finished
<1>7. ASSUME anchor = "swapfile_create", seed.create # Unset,
             seed.create.size \in 1..OverflowMb(ctx.ram, "high")
      PROVE  got.create.size = seed.create.size
  <2>1. q.create # Unset /\ q.create.size = seed.create.size
    BY <1>1, <1>7, AnchoredCreate
  <2> HIDE DEF q
  <2> QED BY <2>1, <1>2, <1>7 DEF Finished
<1>8. ASSUME anchor = "swapfile_resize", seed.resize # Unset,
             ValidPath(seed.resize.path), seed.resize.size \in 1..OverflowMb(ctx.ram, "high")
      PROVE  got.resize = seed.resize
  <2>1. q.resize = seed.resize
    BY <1>1, <1>8, AnchoredResize
  <2> HIDE DEF q
  <2> QED BY <2>1, <1>2, <1>8 DEF Finished
<1>9. ASSUME anchor = "swapfile_remove", seed.remove # Unset, ValidPath(seed.remove)
      PROVE  got.remove = seed.remove
  <2>1. q.remove = seed.remove
    BY <1>1, <1>9, AnchoredRemove
  <2> HIDE DEF q
  <2> QED BY <2>1, <1>2 DEF Finished, Keeps, Forms
<1> QED BY <1>3, <1>4, <1>5, <1>6, <1>7, <1>8, <1>9

\* Whatever the form and the machine, the result is refused by the validation only
\* for what the optimization does not look at (link_sanitize.rs, validation/).
THEOREM OptimizedIsValid ==
  ASSUME NEW seed \in Forms, NEW ctx \in Contexts, NEW anchor \in Anchors,
         NEW known, NEW got, got = Optimize(anchor, seed, ctx),
         ~ Valid(got, known)
  PROVE  \/ got.create # Unset /\ got.create.path \in OtherPaths
         \/ got.resize # Unset /\ got.resize.path \notin AllowedPaths \cup known
         \/ got.remove # Unset /\ got.remove \notin known
         \/ got.remove # Unset /\ anchor # "swapfile_remove" /\ ~ ValidPath(got.remove)
         \/ got.sysctl # Unset /\ \E k \in {"cache", "dirty", "background"} : got.sysctl[k] # Unset
         \/ got.mm # Unset \/ got.prepare # {}
<1> DEFINE p == Awake(seed, ctx)
           q == Anchored(anchor, p, ctx)
<1>1. p \in Forms
  BY AwakeForm
<1>2. q \in Forms /\ Finished(q, got, ctx)
  BY OptimizedIsForm, OptimizePasses
<1>3. anchor = "swapfile_remove" /\ q.remove # Unset => ValidPath(q.remove)
  BY <1>1, AnchoredRemove
<1> HIDE DEF p, q
<1>4. got.remove = q.remove
  BY <1>2 DEF Finished, Keeps, Forms
<1> SUFFICES ASSUME got.create # Unset => got.create.path \notin OtherPaths,
                    got.resize # Unset => got.resize.path \in AllowedPaths \cup known,
                    got.remove # Unset => got.remove \in known,
                    got.remove # Unset /\ anchor # "swapfile_remove" => ValidPath(got.remove),
                    got.sysctl # Unset =>
                      \A k \in {"cache", "dirty", "background"} : got.sysctl[k] = Unset,
                    got.mm = Unset, got.prepare = {}
             PROVE  Valid(got, known)
  OBVIOUS
<1>5. got.create # Unset => ValidCreate(got.create)
  <2>1. got.create # Unset => /\ ValidPath(got.create.path)
                              /\ got.create.size > 0 /\ got.create.prio \in Priorities
    BY <1>2 DEF Finished
  <2> QED BY <2>1 DEF ValidCreate, ValidPath
<1>6. got.remove # Unset => ValidRemove(got.remove, known)
  BY <1>3, <1>4 DEF ValidRemove
<1>7. got.resize # Unset => ValidResize(got.resize, known)
  BY <1>2 DEF Finished, ValidResize
<1>8. got.zram # Unset => ValidZram(got.zram)
  BY <1>2 DEF Finished
<1>9. got.sysctl # Unset => ValidSysctl(got.sysctl)
  <2> SUFFICES ASSUME got.sysctl # Unset PROVE ValidSysctl(got.sysctl)
    OBVIOUS
  <2>1. \A k \in Knobs : got.sysctl[k] # Unset => InRange(k, got.sysctl[k])
    BY <1>2 DEF Finished
  <2>2. got.sysctl["dirty"] = Unset
    OBVIOUS
  <2> QED BY <2>1, <2>2 DEF ValidSysctl
<1> QED BY <1>5, <1>6, <1>7, <1>8, <1>9 DEF Valid

\* Whatever the form and the machine, zram is used before the swapfile to create when
\* the priorities were looked at, but for the three forms that are named
\* (link_sanitize.rs).
THEOREM TiersAreApart ==
  ASSUME NEW seed \in Forms, NEW ctx \in Contexts,
         NEW anchor \in {"zram_priority", "swapfile_create"},
         NEW got, got = Optimize(anchor, seed, ctx),
         got.create # Unset, got.zram # Unset
  PROVE  \/ got.create.prio < PriorityOr(got.zram, 0)
         \/ got.create.prio >= 100 /\ seed.zram # Unset /\ PriorityOr(seed.zram, 0) <= 0
         \/ anchor = "zram_priority" /\ seed.create.prio \notin Priorities
         \/ /\ anchor = "swapfile_create" /\ got.create.prio >= 100
            /\ ~ ValidZram(seed.zram) \/ seed.zram.prio \notin Priorities
<1> DEFINE p == Awake(seed, ctx)
           q == Anchored(anchor, p, ctx)
<1>1. p \in Forms /\ p.create = seed.create /\ p.zram \in {seed.zram, Unset}
  <2>1. /\ p \in Forms /\ Keeps(seed, p, DOMAIN seed \ {"zram"})
        /\ p.zram \in {seed.zram, Unset}
    BY AwakeForm
  <2> HIDE DEF p
  <2> QED BY <2>1 DEF Keeps, Forms
<1>2. q \in Forms /\ Finished(q, got, ctx)
  BY OptimizedIsForm, OptimizePasses DEF Anchors
<1>3. 100 \in Priorities
  BY DEF Priorities
<1> HIDE DEF p
<1>4. CASE anchor = "zram_priority"
  <2>0. q = Anchored("zram_priority", p, ctx)
    BY <1>4
  <2> HIDE DEF q
  <2>1. /\ q.zram # Unset => ValidZram(q.zram) /\ q.zram.prio \in Priorities \cup {Unset}
        /\ q.create # Unset => p.create # Unset
        /\ q.create # Unset /\ p.create.prio \in Priorities => q.create.prio \in Priorities
        /\ q.create # Unset /\ q.zram # Unset =>
             \/ q.create.prio < PriorityOr(q.zram, 0)
             \/ q.create.prio >= 100 /\ p.zram # Unset /\ PriorityOr(p.zram, 0) <= 0
    BY <1>1, <2>0, AnchoredPriority
  <2> SUFFICES ASSUME seed.create.prio \in Priorities
               PROVE  \/ got.create.prio < PriorityOr(got.zram, 0)
                      \/ /\ got.create.prio >= 100 /\ seed.zram # Unset
                         /\ PriorityOr(seed.zram, 0) <= 0
    BY <1>4
  <2>2. q.create # Unset /\ q.zram # Unset
    BY <1>2 DEF Finished
  <2>3. got.create.prio = q.create.prio /\ got.zram.prio = q.zram.prio
    BY <1>1, <1>2, <2>1, <2>2 DEF Finished
  <2>4. PriorityOr(got.zram, 0) = PriorityOr(q.zram, 0)
    BY <2>2, <2>3 DEF PriorityOr
  <2> QED BY <1>1, <2>1, <2>2, <2>3, <2>4
<1>5. CASE anchor = "swapfile_create"
  <2>0. q = Anchored("swapfile_create", p, ctx)
    BY <1>5
  <2> HIDE DEF q
  <2>1. /\ p.zram = Unset => q.zram = Unset
        /\ q.create # Unset => p.create # Unset /\ q.create.prio \in Priorities
        /\ q.create # Unset /\ q.zram # Unset =>
             \/ q.create.prio < PriorityOr(q.zram, 0)
             \/ q.create.prio >= 100 /\ PriorityOr(p.zram, 0) <= 0
        /\ p.zram # Unset =>
             /\ Keeps(p.zram, q.zram, DOMAIN p.zram \ {"prio"})
             /\ q.zram.prio \in {p.zram.prio, 100}
    BY <1>1, <2>0, AnchoredCreate
  <2>2. q.create # Unset /\ q.zram # Unset /\ p.zram # Unset /\ p.zram = seed.zram
    BY <1>1, <1>2, <2>1 DEF Finished
  <2>3. got.create.prio = q.create.prio /\ got.create.prio \in Int
    BY <1>2, <2>1, <2>2, UnsetIsNothing DEF Finished
  <2>4. CASE got.zram.prio = q.zram.prio
    <3>1. PriorityOr(got.zram, 0) = PriorityOr(q.zram, 0)
      BY <2>2, <2>4 DEF PriorityOr
    <3> QED BY <2>1, <2>2, <2>3, <3>1
  <2>5. CASE got.zram.prio # q.zram.prio
    <3>1. got.zram.prio = 100
      BY <1>2, <2>2, <2>5 DEF Finished
    <3>2. PriorityOr(got.zram, 0) = 100
      BY <3>1, UnsetIsNothing DEF PriorityOr
    <3>3. ~ ValidZram(seed.zram) \/ seed.zram.prio \notin Priorities
      <4> SUFFICES ASSUME ValidZram(seed.zram), seed.zram.prio \in Priorities PROVE FALSE
        OBVIOUS
      <4>1. p.zram \in ZramForms /\ q.zram \in ZramForms
        BY <1>1, <1>2, <2>2 DEF Forms
      <4>2. ValidZram(q.zram)
        BY <2>1, <2>2, <4>1 DEF Keeps, ZramForms, ValidZram
      <4>3. q.zram.prio \in Priorities
        BY <1>3, <2>1, <2>2
      <4> QED BY <1>2, <2>2, <2>5, <4>2, <4>3 DEF Finished
    <3> QED BY <1>5, <2>3, <3>2, <3>3
  <2> QED BY <2>4, <2>5
<1> QED BY <1>4, <1>5

=============================================================================
