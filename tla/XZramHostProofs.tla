--------------------------- MODULE XZramHostProofs ---------------------------
(***************************************************************************)
(* Proofs about XZramHost, for every set of swapfiles, sizes, drop-ins and *)
(* requests, and every bound.                                              *)
(*                                                                         *)
(* The inductive invariant says of the steps still to be done that they    *)
(* come in an order that keeps the host safe, and of the host that what a  *)
(* step relies on holds already or is still to come before it.             *)
(***************************************************************************)
EXTENDS XZramHost, SequenceTheorems, FiniteSetTheorems, TLAPS

-----------------------------------------------------------------------------
(* The steps that can be left.                                             *)

ChangeKinds  == {"create", "remove", "resize"}
FileKinds    == {"build", "swapoff", "rename", "discard", "unlist", "unlink", "allocate",
                 "set_len", "mkswap", "swapon", "try_swapon", "list", "swapoff_now"}
WorkKinds    == {"stop_zram", "write_zram", "start_zram", "write_sysctl", "load_sysctl", "fail"}
                  \cup ChangeKinds \cup FileKinds
RestoreKinds == {"swapoff", "zram_swapoff", "write_zram", "put_fstab", "write_sysctl", "unlink",
                 "recreate", "build", "rename", "start_zram", "stop_zram", "reload_sysctl",
                 "try_swapon"}
Kinds == WorkKinds \cup RestoreKinds

\* The stage of an apply or a direct action a step belongs to: what must be done
\* before it has a lower one, and no two steps that are left have the same.
WorkStage == [kind \in Kinds |->
  CASE kind = "stop_zram" -> 1
    [] kind = "write_zram" -> 2
    [] kind = "start_zram" -> 3
    [] kind = "build" -> 4
    [] kind = "swapoff" -> 5
    [] kind \in {"rename", "discard", "unlist"} -> 6
    [] kind \in {"unlink", "allocate", "set_len"} -> 7
    [] kind = "mkswap" -> 8
    [] kind \in {"swapon", "try_swapon"} -> 9
    [] kind \in {"list", "create", "remove", "resize", "swapoff_now"} -> 10
    [] kind = "write_sysctl" -> 11
    [] kind = "load_sysctl" -> 12
    [] OTHER -> 13]

\* The stage of a restore a step belongs to.
RestoreStage == [kind \in Kinds |->
  CASE kind = "swapoff" -> 1
    [] kind = "zram_swapoff" -> 2
    [] kind = "write_zram" -> 3
    [] kind = "put_fstab" -> 4
    [] kind = "write_sysctl" -> 5
    [] kind = "unlink" -> 6
    [] kind \in {"recreate", "build", "rename"} -> 7
    [] kind \in {"start_zram", "stop_zram"} -> 8
    [] kind = "reload_sysctl" -> 9
    [] OTHER -> 10]

Places    == Paths \cup {Nowhere}
Arguments == Nat \cup Contents \cup {Absent, Off}
PlainStep == [do: Kinds, on: Places, to: Arguments, undo: {<<>>}]
AnyStep   == [do: Kinds, on: Places, to: Arguments, undo: Seq(PlainStep)]

\* Each stage is at least gap above the one before.
Ordered(stage, gap, steps) ==
  \A i, j \in DOMAIN steps : i < j => stage[steps[i].do] + gap <= stage[steps[j].do]

Has(steps, kind) == \E s \in Range(steps) : s.do = kind
HasFor(steps, kind, p) == \E s \in Range(steps) : s.do = kind /\ s.on = p

-----------------------------------------------------------------------------
(* Sequences of steps.                                                     *)

\* The steps that are left are the next one and the others, and the others come
\* at later stages.
LEMMA NextAndOthers ==
  ASSUME NEW steps \in Seq(AnyStep), steps # <<>>
  PROVE  /\ Head(steps) \in AnyStep /\ Head(steps) \in Range(steps)
         /\ Tail(steps) \in Seq(AnyStep)
         /\ Range(steps) = {Head(steps)} \cup Range(Tail(steps))
         /\ DOMAIN steps = 1..Len(steps) /\ Len(steps) \in Nat \ {0}
         /\ DOMAIN Tail(steps) = 1..(Len(steps) - 1)
         /\ \A i \in 1..(Len(steps) - 1) : Tail(steps)[i] = steps[i + 1] /\ i + 1 \in 1..Len(steps)
         /\ Head(steps) = steps[1]
<1>1. /\ Head(steps) \in AnyStep /\ Tail(steps) \in Seq(AnyStep)
      /\ Len(Tail(steps)) = Len(steps) - 1
      /\ \A i \in 1..Len(Tail(steps)) : Tail(steps)[i] = steps[i + 1]
  BY HeadTailProperties
<1>2. Len(steps) \in Nat \ {0} /\ DOMAIN steps = 1..Len(steps)
  BY EmptySeq, LenProperties
<1>3. DOMAIN Tail(steps) = 1..(Len(steps) - 1)
  BY <1>1, LenProperties
<1>4. Head(steps) = steps[1]
  BY <1>2
<1>5. ASSUME NEW s \in Range(steps)
      PROVE  s = Head(steps) \/ s \in Range(Tail(steps))
  <2>1. PICK i \in 1..Len(steps) : s = steps[i]
    BY <1>2, <1>5 DEF Range
  <2>2. CASE i = 1
    BY <1>4, <2>1, <2>2
  <2>3. CASE i # 1
    <3>1. i - 1 \in 1..(Len(steps) - 1) /\ (i - 1) + 1 = i
      BY <1>2, <2>1, <2>3
    <3>2. Tail(steps)[i - 1] = s
      BY <1>1, <2>1, <3>1
    <3> QED BY <1>3, <3>1, <3>2 DEF Range
  <2> QED BY <2>2, <2>3
<1>6. \A i \in 1..(Len(steps) - 1) : Tail(steps)[i] = steps[i + 1] /\ i + 1 \in 1..Len(steps)
  BY <1>1, <1>2
<1>7. Range(Tail(steps)) \subseteq Range(steps)
  BY <1>2, <1>3, <1>6 DEF Range
<1>8. Head(steps) \in Range(steps)
  BY <1>2, <1>4 DEF Range
<1> QED BY <1>1, <1>2, <1>3, <1>4, <1>5, <1>6, <1>7, <1>8

\* Taking the next step off keeps the order, and it came before the others.
LEMMA OrderedOthers ==
  ASSUME NEW steps \in Seq(AnyStep), steps # <<>>, NEW stage \in [Kinds -> Nat], NEW gap \in Nat,
         Ordered(stage, gap, steps)
  PROVE  /\ Ordered(stage, gap, Tail(steps))
         /\ \A s \in Range(Tail(steps)) : stage[Head(steps).do] + gap <= stage[s.do]
<1>1. /\ DOMAIN steps = 1..Len(steps) /\ Len(steps) \in Nat \ {0}
      /\ DOMAIN Tail(steps) = 1..(Len(steps) - 1)
      /\ \A i \in 1..(Len(steps) - 1) : Tail(steps)[i] = steps[i + 1] /\ i + 1 \in 1..Len(steps)
      /\ Head(steps) = steps[1]
  BY NextAndOthers
<1>2. Ordered(stage, gap, Tail(steps))
  BY <1>1 DEF Ordered
<1>3. ASSUME NEW i \in 1..(Len(steps) - 1)
      PROVE  stage[Head(steps).do] + gap <= stage[Tail(steps)[i].do]
  <2>1. 1 \in DOMAIN steps /\ i + 1 \in DOMAIN steps /\ 1 < i + 1
    BY <1>1
  <2> QED BY <1>1, <2>1 DEF Ordered
<1> QED BY <1>1, <1>2, <1>3 DEF Range

\* Two ordered sequences follow each other in order when every step of the
\* first may come before every step of the second.
LEMMA OrderedConcat ==
  ASSUME NEW a \in Seq(AnyStep), NEW b \in Seq(AnyStep), NEW stage \in [Kinds -> Nat],
         NEW gap \in Nat, Ordered(stage, gap, a), Ordered(stage, gap, b),
         \A s \in Range(a), t \in Range(b) : stage[s.do] + gap <= stage[t.do]
  PROVE  /\ a \o b \in Seq(AnyStep)
         /\ Range(a \o b) = Range(a) \cup Range(b)
         /\ Ordered(stage, gap, a \o b)
<1>1. /\ a \o b \in Seq(AnyStep)
      /\ Len(a \o b) = Len(a) + Len(b)
      /\ \A i \in 1..(Len(a) + Len(b)) :
           (a \o b)[i] = IF i <= Len(a) THEN a[i] ELSE b[i - Len(a)]
  BY ConcatProperties
<1>2. Range(a \o b) = Range(a) \cup Range(b)
  BY RangeConcatenation
<1>3. /\ Len(a) \in Nat /\ DOMAIN a = 1..Len(a)
      /\ Len(b) \in Nat /\ DOMAIN b = 1..Len(b)
      /\ DOMAIN (a \o b) = 1..(Len(a) + Len(b))
  BY <1>1, LenProperties
<1>4. ASSUME NEW i \in 1..(Len(a) + Len(b)), NEW j \in 1..(Len(a) + Len(b)), i < j
      PROVE  stage[(a \o b)[i].do] + gap <= stage[(a \o b)[j].do]
  <2>1. CASE j <= Len(a)
    <3>1. i \in DOMAIN a /\ j \in DOMAIN a
      BY <1>3, <1>4, <2>1
    <3>2. (a \o b)[i] = a[i] /\ (a \o b)[j] = a[j]
      BY <1>1, <1>3, <1>4, <2>1
    <3> QED BY <1>4, <3>1, <3>2 DEF Ordered
  <2>2. CASE i > Len(a)
    <3>1. /\ i - Len(a) \in DOMAIN b /\ j - Len(a) \in DOMAIN b
          /\ i - Len(a) < j - Len(a)
      BY <1>3, <1>4, <2>2
    <3>2. (a \o b)[i] = b[i - Len(a)] /\ (a \o b)[j] = b[j - Len(a)]
      BY <1>1, <1>3, <1>4, <2>2
    <3> QED BY <3>1, <3>2 DEF Ordered
  <2>3. CASE i <= Len(a) /\ j > Len(a)
    <3>1. i \in DOMAIN a /\ j - Len(a) \in DOMAIN b
      BY <1>3, <1>4, <2>3
    <3>2. (a \o b)[i] = a[i] /\ (a \o b)[j] = b[j - Len(a)]
      BY <1>1, <1>3, <1>4, <2>3
    <3>3. a[i] \in Range(a) /\ b[j - Len(a)] \in Range(b)
      BY <3>1 DEF Range
    <3> QED BY <3>2, <3>3
  <2> QED BY <1>3, <2>1, <2>2, <2>3
<1> QED BY <1>1, <1>2, <1>3, <1>4 DEF Ordered

\* The stages are numbers.
LEMMA StagesAreNumbers ==
  WorkStage \in [Kinds -> Nat] /\ RestoreStage \in [Kinds -> Nat]
BY DEF WorkStage, RestoreStage

\* The stages of an apply or a direct action, one by one.
LEMMA WorkStages ==
  /\ WorkStage["stop_zram"] = 1 /\ WorkStage["write_zram"] = 2 /\ WorkStage["start_zram"] = 3
  /\ WorkStage["build"] = 4 /\ WorkStage["swapoff"] = 5
  /\ WorkStage["rename"] = 6 /\ WorkStage["discard"] = 6 /\ WorkStage["unlist"] = 6
  /\ WorkStage["unlink"] = 7 /\ WorkStage["allocate"] = 7 /\ WorkStage["set_len"] = 7
  /\ WorkStage["mkswap"] = 8 /\ WorkStage["swapon"] = 9 /\ WorkStage["try_swapon"] = 9
  /\ WorkStage["list"] = 10 /\ WorkStage["create"] = 10 /\ WorkStage["remove"] = 10
  /\ WorkStage["resize"] = 10 /\ WorkStage["swapoff_now"] = 10
  /\ WorkStage["write_sysctl"] = 11 /\ WorkStage["load_sysctl"] = 12 /\ WorkStage["fail"] = 13
BY DEF WorkStage, Kinds, WorkKinds, ChangeKinds, FileKinds

\* The stages of a restore, one by one.
LEMMA RestoreStages ==
  /\ RestoreStage["swapoff"] = 1 /\ RestoreStage["zram_swapoff"] = 2
  /\ RestoreStage["write_zram"] = 3 /\ RestoreStage["put_fstab"] = 4
  /\ RestoreStage["write_sysctl"] = 5 /\ RestoreStage["unlink"] = 6
  /\ RestoreStage["recreate"] = 7 /\ RestoreStage["build"] = 7 /\ RestoreStage["rename"] = 7
  /\ RestoreStage["start_zram"] = 8 /\ RestoreStage["stop_zram"] = 8
  /\ RestoreStage["reload_sysctl"] = 9 /\ RestoreStage["try_swapon"] = 10
BY DEF RestoreStage, Kinds, WorkKinds, RestoreKinds, ChangeKinds, FileKinds

\* A set of paths becomes a sequence of exactly these paths.
LEMMA SetToSeqProperties ==
  ASSUME NEW S, IsFiniteSet(S)
  PROVE  SetToSeq(S) \in Seq(S) /\ Range(SetToSeq(S)) = S
<1> DEFINE n == Cardinality(S)
           f == SetToSeq(S)
<1>1. n \in Nat /\ ExistsBijection(1..n, S)
  BY FS_CardinalityType
<1>2. \E g \in [1..n -> S] : IsInjective(g)
  BY <1>1 DEF ExistsBijection, Bijection, Injection
<1>3. f \in [1..n -> S] /\ IsInjective(f)
  BY <1>2 DEF SetToSeq
<1> HIDE DEF f
<1>4. f \in Injection(1..n, S)
  BY <1>3 DEF Injection
<1>5. Cardinality(1..n) = n
  BY <1>1, FS_Interval
<1>6. f \in Surjection(1..n, S)
  BY <1>4, <1>5, FS_Injection
<1>7. Range(f) = S
  BY <1>3, <1>6 DEF Surjection, Range
<1>8. f \in Seq(S)
  BY <1>1, <1>3, SeqDef
<1> QED BY <1>7, <1>8 DEF f

\* A plain step has the fields it was made from and nothing to undo.
LEMMA StepType ==
  ASSUME NEW kind \in Kinds, NEW p \in Places, NEW arg \in Arguments
  PROVE  /\ Step(kind, p, arg) \in PlainStep /\ Step(kind, p, arg) \in AnyStep
         /\ Step(kind, p, arg).do = kind /\ Step(kind, p, arg).on = p
         /\ Step(kind, p, arg).to = arg /\ Step(kind, p, arg).undo = <<>>
BY DEF Step, PlainStep, AnyStep

\* One step of a kind for each path of a set.
StepsFor(kind, paths, arg) == {Step(kind, p, arg) : p \in paths}

\* One step for each path of a set: these steps, and all of one stage.
LEMMA ForEachProperties ==
  ASSUME NEW kind \in Kinds, NEW paths \in SUBSET Paths, NEW arg \in Arguments,
         NEW stage \in [Kinds -> Nat]
  PROVE  /\ ForEach(kind, paths, arg) \in Seq(AnyStep)
         /\ Range(ForEach(kind, paths, arg)) = StepsFor(kind, paths, arg)
         /\ Ordered(stage, 0, ForEach(kind, paths, arg))
<1> DEFINE seq == SetToSeq(paths)
           all == ForEach(kind, paths, arg)
<1>1. IsFiniteSet(paths)
  BY HostAssumption, FS_Subset
<1>2. seq \in Seq(paths) /\ Range(seq) = paths
  BY <1>1, SetToSeqProperties
<1>3. Len(seq) \in Nat /\ DOMAIN seq = 1..Len(seq) /\ \A i \in 1..Len(seq) : seq[i] \in paths
  BY <1>2, LenProperties, ElementOfSeq
<1>4. all = [i \in DOMAIN seq |-> Step(kind, seq[i], arg)]
  BY DEF ForEach
<1> HIDE DEF seq, all
<1>5. \A i \in 1..Len(seq) : all[i] = Step(kind, seq[i], arg) /\ all[i] \in AnyStep /\ all[i].do = kind
  BY <1>3, <1>4, StepType DEF Places
<1>6. all \in [1..Len(seq) -> AnyStep]
  BY <1>3, <1>4, <1>5
<1>7. all \in Seq(AnyStep)
  BY <1>3, <1>6, SeqDef
<1>8. Range(all) = StepsFor(kind, paths, arg)
  BY <1>2, <1>3, <1>4 DEF Range, StepsFor
<1>9. DOMAIN all = 1..Len(seq) /\ stage[kind] \in Nat
  BY <1>6
<1>10. Ordered(stage, 0, all)
  BY <1>5, <1>9 DEF Ordered
<1> QED BY <1>7, <1>8, <1>10 DEF all

\* Plans written out.
LEMMA TwoSteps ==
  ASSUME NEW a \in AnyStep, NEW b \in AnyStep, NEW stage \in [Kinds -> Nat], NEW gap \in Nat,
         stage[a.do] + gap <= stage[b.do]
  PROVE  /\ <<a, b>> \in Seq(AnyStep) /\ Range(<<a, b>>) = {a, b}
         /\ Ordered(stage, gap, <<a, b>>)
BY DEF Range, Ordered

\* A plan of three steps.
LEMMA ThreeSteps ==
  ASSUME NEW a \in AnyStep, NEW b \in AnyStep, NEW c \in AnyStep,
         NEW stage \in [Kinds -> Nat], NEW gap \in Nat,
         stage[a.do] + gap <= stage[b.do], stage[b.do] + gap <= stage[c.do]
  PROVE  /\ <<a, b, c>> \in Seq(AnyStep) /\ Range(<<a, b, c>>) = {a, b, c}
         /\ Ordered(stage, gap, <<a, b, c>>)
<1> DEFINE t == <<a, b, c>>
<1>1. DOMAIN t = 1..3 /\ t[1] = a /\ t[2] = b /\ t[3] = c /\ t \in Seq(AnyStep)
  OBVIOUS
<1>2. \A i \in 1..3 : i = 1 \/ i = 2 \/ i = 3
  OBVIOUS
<1>3. stage[a.do] \in Nat /\ stage[b.do] \in Nat /\ stage[c.do] \in Nat
  BY DEF AnyStep
<1> HIDE DEF t
<1>4. Range(t) = {a, b, c}
  BY <1>1, <1>2 DEF Range
<1>5. ASSUME NEW i \in 1..3, NEW j \in 1..3, i < j
      PROVE  stage[t[i].do] + gap <= stage[t[j].do]
  <2>1. stage[a.do] + gap <= stage[c.do]
    BY <1>3
  <2>2. CASE i = 1
    BY <1>1, <1>2, <1>5, <2>1, <2>2
  <2>3. CASE i = 2
    BY <1>1, <1>2, <1>5, <2>1, <2>3
  <2> QED BY <1>2, <1>5, <2>2, <2>3
<1>6. Ordered(stage, gap, t)
  BY <1>1, <1>5 DEF Ordered
<1> QED BY <1>1, <1>4, <1>6 DEF t

\* A plan of four steps.
LEMMA FourSteps ==
  ASSUME NEW a \in AnyStep, NEW b \in AnyStep, NEW c \in AnyStep, NEW d \in AnyStep,
         NEW stage \in [Kinds -> Nat], NEW gap \in Nat,
         stage[a.do] + gap <= stage[b.do], stage[b.do] + gap <= stage[c.do],
         stage[c.do] + gap <= stage[d.do]
  PROVE  /\ <<a, b, c, d>> \in Seq(AnyStep) /\ Range(<<a, b, c, d>>) = {a, b, c, d}
         /\ Ordered(stage, gap, <<a, b, c, d>>)
<1> DEFINE t == <<a, b, c, d>>
<1>1. /\ DOMAIN t = 1..4 /\ t[1] = a /\ t[2] = b /\ t[3] = c /\ t[4] = d
      /\ t \in Seq(AnyStep)
  OBVIOUS
<1>2. \A i \in 1..4 : i = 1 \/ i = 2 \/ i = 3 \/ i = 4
  OBVIOUS
<1>3. stage[a.do] \in Nat /\ stage[b.do] \in Nat /\ stage[c.do] \in Nat /\ stage[d.do] \in Nat
  BY DEF AnyStep
<1> HIDE DEF t
<1>4. Range(t) = {a, b, c, d}
  BY <1>1, <1>2 DEF Range
<1>5. ASSUME NEW i \in 1..4, NEW j \in 1..4, i < j
      PROVE  stage[t[i].do] + gap <= stage[t[j].do]
  <2>1. /\ stage[a.do] + gap <= stage[c.do] /\ stage[a.do] + gap <= stage[d.do]
        /\ stage[b.do] + gap <= stage[d.do]
    BY <1>3
  <2>2. CASE i = 1
    BY <1>1, <1>2, <1>5, <2>1, <2>2
  <2>3. CASE i = 2
    BY <1>1, <1>2, <1>5, <2>1, <2>3
  <2>4. CASE i = 3
    BY <1>1, <1>2, <1>5, <2>1, <2>4
  <2> QED BY <1>2, <1>5, <2>2, <2>3, <2>4
<1>6. Ordered(stage, gap, t)
  BY <1>1, <1>5 DEF Ordered
<1> QED BY <1>1, <1>4, <1>6 DEF t

-----------------------------------------------------------------------------
(* The inductive invariant.                                                *)

\* A snapshot lists the swapfile.
Known(p) == \E k \in DOMAIN snaps : p \in snaps[k].listed

\* A restore of snapshot k may delete the swapfile.
Deletable(p, k) == Newer(p, k) \/ SameAge(p, k) \/ Known(p)

\* The swapfile a change is about.
Target == job.change.swap.on

\* Between its steps an operation has no outcome, and it has a snapshot.  What
\* fstab lists and a snapshot does not, is younger or in another snapshot.
BaseInv ==
  /\ todo \in Seq(AnyStep)
  /\ \A p \in active : file[p] > 0
  /\ Len(snaps) <= ops
  /\ phase # "idle" => outcome = "none" /\ job.snap \in DOMAIN snaps
  /\ \A p \in fstab : \A k \in DOMAIN snaps :
       p \in snaps[k].listed \/ Newer(p, k) \/ Known(p)

\* What the steps of an apply or a direct action are about.
WorkFits(s) ==
  /\ s.do \in WorkKinds
  /\ s.do \in ChangeKinds \cup FileKinds => s.on = Target /\ s.on \in Paths
  /\ s.do \in {"create", "resize", "build", "allocate", "set_len"} => s.to \in Sizes
  /\ s.do \in ChangeKinds => s.do = job.change.swap.do
  /\ s.do = "write_zram" => s.to \in Contents \cup {Off}
  /\ s.do = "write_sysctl" => s.to \in Contents

\* What is undone when a step fails.
SizeBack(n) == <<Step("set_len", Target, n), Step("mkswap", Target, 0), Step("swapon", Target, 0)>>

UndoFits(s) ==
  \/ s.undo = <<>>
  \/ s.do = "stop_zram" /\ s.undo = <<Step("write_zram", Nowhere, Off)>>
  \/ /\ s.do \in {"swapoff", "rename"}
     /\ \/ s.undo = <<Step("discard", Target, 0)>>
        \/ s.undo = <<Step("discard", Target, 0), Step("try_swapon", Target, 0)>>
  \/ /\ s.do \in {"allocate", "mkswap", "swapon"}
     /\ \E n \in Sizes : s.undo = SizeBack(n)

\* The steps that change or replace the swapfile, or whose undo does.
Touches(s) == \/ s.do \in {"rename", "unlink", "allocate", "set_len", "mkswap"}
              \/ s.do = "swapon" /\ s.undo # <<>>

\* The staging file is complete when it is renamed.
RenameReady == Has(todo, "rename") => sibling[Target] > 0 \/ Has(todo, "build")

\* The swapfile is not in use when it is touched.
FileIdle ==
  (\E s \in Range(todo) : Touches(s)) => Target \notin active \/ Has(todo, "swapoff")

\* Only a removal deletes the swapfile, when fstab no longer lists it.
RemovalReady ==
  Has(todo, "unlink") => /\ job.change.swap.do = "remove"
                         /\ Target \notin fstab \/ Has(todo, "unlist")

\* Only a creation lists the swapfile, when it is there.
ListReady ==
  Has(todo, "list") => /\ job.change.swap.do = "create"
                       /\ \/ Has(todo, "rename")
                          \/ file[Target] > 0 /\ born[Target] = Len(snaps)

\* There are values to load.
SysctlReady ==
  Has(todo, "load_sysctl") => etc["sysctl"] \in Contents \/ Has(todo, "write_sysctl")

WorkShape ==
  /\ Ordered(WorkStage, 1, todo)
  /\ \A s \in Range(todo) : WorkFits(s) /\ UndoFits(s)

WorkInv == WorkShape /\ RenameReady /\ FileIdle /\ RemovalReady /\ ListReady /\ SysctlReady

\* What the steps of a restore of snapshot k are about.
RestoreFits(s, k) ==
  /\ s.do \in RestoreKinds /\ s.undo = <<>>
  /\ s.do = "swapoff" => s.on \in Paths
  /\ s.do = "write_zram" => s.to = snaps[k].etc["zram"]
  /\ s.do = "put_fstab" => s.to = k
  /\ s.do = "write_sysctl" => s.to = snaps[k].etc["sysctl"]
  /\ s.do = "unlink" => s.on \in Paths \ snaps[k].listed /\ Deletable(s.on, k)
  /\ s.do \in {"recreate", "build", "rename", "try_swapon"} => s.on \in snaps[k].listed
  /\ s.do = "recreate" => s.to = k
  /\ s.do = "build" => s.to \in Sizes
  /\ s.do = "start_zram" => snaps[k].etc["zram"] # Absent
  /\ s.do = "stop_zram" => snaps[k].etc["zram"] = Absent

RestoreShape ==
  /\ Ordered(RestoreStage, 0, todo)
  /\ \A s \in Range(todo) : RestoreFits(s, job.snap)

\* A missing file is built and renamed at once.
RebuildNext ==
  \A i \in DOMAIN todo :
    /\ todo[i].do = "build" => /\ i = 1 /\ 2 \in DOMAIN todo
                              /\ todo[2].do = "rename" /\ todo[2].on = todo[1].on
    /\ todo[i].do = "rename" => /\ file[todo[i].on] = 0
                               /\ \/ i = 1 /\ sibling[todo[i].on] > 0
                                  \/ i = 2 /\ todo[1].do = "build"

\* The drop-ins and the swap entries are back, or a step brings them back.
FilesBack ==
  LET meta == snaps[job.snap]
  IN  /\ etc["zram"] = meta.etc["zram"] \/ Has(todo, "write_zram")
      /\ etc["sysctl"] = meta.etc["sysctl"] \/ Has(todo, "write_sysctl")
      /\ fstab = meta.listed \/ Has(todo, "put_fstab")
      /\ \A p \in meta.listed :
           file[p] > 0 \/ HasFor(todo, "recreate", p) \/ HasFor(todo, "rename", p)

\* zram runs as the snapshot has it, or is stopped and started again.
Goal(k) == IF snaps[k].etc["zram"] \in Contents THEN snaps[k].etc["zram"] ELSE Off
Restarts(steps) == Has(steps, "start_zram") \/ Has(steps, "stop_zram")

ZramBack ==
  /\ live["zram"] = Goal(job.snap) \/ Restarts(todo)
  /\ live["zram"] \in {Off, Goal(job.snap)} \/ Has(todo, "zram_swapoff")
  /\ Has(todo, "zram_swapoff") => Restarts(todo)

\* A swapfile that is not part of the snapshot is switched off before it is
\* deleted, and one created since is not left active.
OthersOff ==
  /\ \A p \in active : \/ p \in snaps[job.snap].listed
                       \/ ~Newer(p, job.snap)
                       \/ HasFor(todo, "swapoff", p)
  /\ \A p \in active : HasFor(todo, "unlink", p) => HasFor(todo, "swapoff", p)

RestoreInv == RestoreShape /\ RebuildNext /\ FilesBack /\ ZramBack /\ OthersOff

HostInv ==
  /\ TypeOK /\ BaseInv
  /\ phase = "work" => WorkInv
  /\ phase = "restore" => RestoreInv

-----------------------------------------------------------------------------
(* The plan of a restore.                                                  *)

\* What a snapshot holds.
LEMMA SnapshotType ==
  ASSUME TypeOK, NEW k \in DOMAIN snaps
  PROVE  /\ k \in Nat \ {0} /\ k <= Len(snaps) /\ Len(snaps) \in Nat
         /\ snaps[k].listed \in SUBSET Paths
         /\ snaps[k].size \in [Paths -> 0..MaxSize]
         /\ snaps[k].etc \in [zram: Contents \cup {Absent, Off}, sysctl: Contents \cup {Absent}]
         /\ snaps[k].etc["zram"] \in Contents \cup {Absent, Off}
         /\ snaps[k].etc["sysctl"] \in Contents \cup {Absent}
<1> DEFINE S == [etc: [zram: Contents \cup {Absent, Off}, sysctl: Contents \cup {Absent}],
                 listed: SUBSET Paths, size: [Paths -> 0..MaxSize]]
<1>1. snaps \in Seq(S)
  BY DEF TypeOK
<1>2. Len(snaps) \in Nat /\ k \in 1..Len(snaps)
  BY <1>1, LenProperties
<1>3. snaps[k] \in S
  BY <1>1, <1>2, ElementOfSeq
<1> QED BY <1>2, <1>3

\* The steps of a restore of snapshot k that deletes the swapfiles extra.
PlanSteps(k, extra) ==
  UNION {
    StepsFor("swapoff", snaps[k].listed, 0), StepsFor("swapoff", extra, 0),
    {Step("zram_swapoff", Nowhere, 0), Step("write_zram", Nowhere, snaps[k].etc["zram"]),
     Step("put_fstab", Nowhere, k), Step("write_sysctl", Nowhere, snaps[k].etc["sysctl"])},
    StepsFor("unlink", extra, 0), StepsFor("recreate", snaps[k].listed, k),
    {IF snaps[k].etc["zram"] # Absent THEN Step("start_zram", Nowhere, 0)
                                      ELSE Step("stop_zram", Nowhere, 0),
     Step("reload_sysctl", Nowhere, 0)},
    StepsFor("try_swapon", snaps[k].listed, 0)}

\* They come in their order (restore_snapshot_unlocked).
LEMMA RestorePlan ==
  ASSUME TypeOK, NEW k \in DOMAIN snaps, NEW extra \in SUBSET Paths
  PROVE  /\ RestoreSteps(k, extra) \in Seq(AnyStep)
         /\ Ordered(RestoreStage, 0, RestoreSteps(k, extra))
         /\ Range(RestoreSteps(k, extra)) = PlanSteps(k, extra)
<1> DEFINE meta == snaps[k]
           A == ForEach("swapoff", meta.listed, 0)
           B == ForEach("swapoff", extra, 0)
           b1 == Step("zram_swapoff", Nowhere, 0)
           b2 == Step("write_zram", Nowhere, meta.etc["zram"])
           b3 == Step("put_fstab", Nowhere, k)
           b4 == Step("write_sysctl", Nowhere, meta.etc["sysctl"])
           C == <<b1, b2, b3, b4>>
           D == ForEach("unlink", extra, 0)
           E == ForEach("recreate", meta.listed, k)
           f1 == IF meta.etc["zram"] # Absent THEN Step("start_zram", Nowhere, 0)
                                              ELSE Step("stop_zram", Nowhere, 0)
           f2 == Step("reload_sysctl", Nowhere, 0)
           F == <<f1, f2>>
           G == ForEach("try_swapon", meta.listed, 0)
           R == RestoreStage
<1>0. /\ meta.listed \in SUBSET Paths /\ k \in Arguments /\ 0 \in Arguments
      /\ meta.etc["zram"] \in Arguments /\ meta.etc["sysctl"] \in Arguments
      /\ Nowhere \in Places /\ R \in [Kinds -> Nat]
  BY SnapshotType, StagesAreNumbers DEF Arguments, Places
<1>k. /\ "swapoff" \in Kinds /\ "zram_swapoff" \in Kinds /\ "write_zram" \in Kinds
      /\ "put_fstab" \in Kinds /\ "write_sysctl" \in Kinds /\ "unlink" \in Kinds
      /\ "recreate" \in Kinds /\ "start_zram" \in Kinds /\ "stop_zram" \in Kinds
      /\ "reload_sysctl" \in Kinds /\ "try_swapon" \in Kinds
  BY DEF Kinds, RestoreKinds
<1>h. RestoreSteps(k, extra) = A \o B \o C \o D \o E \o F \o G
  BY DEF RestoreSteps
<1> HIDE DEF meta, R
<1>a. A \in Seq(AnyStep) /\ Range(A) = StepsFor("swapoff", meta.listed, 0) /\ Ordered(R, 0, A)
  BY <1>0, <1>k, ForEachProperties
<1>b. B \in Seq(AnyStep) /\ Range(B) = StepsFor("swapoff", extra, 0) /\ Ordered(R, 0, B)
  BY <1>0, <1>k, ForEachProperties
<1>c. /\ b1 \in AnyStep /\ b2 \in AnyStep /\ b3 \in AnyStep /\ b4 \in AnyStep
      /\ b1.do = "zram_swapoff" /\ b2.do = "write_zram" /\ b3.do = "put_fstab"
      /\ b4.do = "write_sysctl"
  <2>1. b1 \in AnyStep /\ b1.do = "zram_swapoff"
    BY <1>0, <1>k, StepType
  <2>2. b2 \in AnyStep /\ b2.do = "write_zram"
    BY <1>0, <1>k, StepType
  <2>3. b3 \in AnyStep /\ b3.do = "put_fstab"
    BY <1>0, <1>k, StepType
  <2>4. b4 \in AnyStep /\ b4.do = "write_sysctl"
    BY <1>0, <1>k, StepType
  <2> QED BY <2>1, <2>2, <2>3, <2>4
<1>d. D \in Seq(AnyStep) /\ Range(D) = StepsFor("unlink", extra, 0) /\ Ordered(R, 0, D)
  BY <1>0, <1>k, ForEachProperties
<1>e. E \in Seq(AnyStep) /\ Range(E) = StepsFor("recreate", meta.listed, k) /\ Ordered(R, 0, E)
  BY <1>0, <1>k, ForEachProperties
<1>f. f1 \in AnyStep /\ f2 \in AnyStep /\ f1.do \in {"start_zram", "stop_zram"} /\ f2.do = "reload_sysctl"
  <2>1. f1 \in AnyStep /\ f1.do \in {"start_zram", "stop_zram"}
    BY <1>0, <1>k, StepType
  <2>2. f2 \in AnyStep /\ f2.do = "reload_sysctl"
    BY <1>0, <1>k, StepType
  <2> QED BY <2>1, <2>2
<1>g. G \in Seq(AnyStep) /\ Range(G) = StepsFor("try_swapon", meta.listed, 0) /\ Ordered(R, 0, G)
  BY <1>0, <1>k, ForEachProperties
<1>s. /\ \A s \in Range(A) : s.do = "swapoff"
      /\ \A s \in Range(B) : s.do = "swapoff"
      /\ \A s \in Range(D) : s.do = "unlink"
      /\ \A s \in Range(E) : s.do = "recreate"
      /\ \A s \in Range(G) : s.do = "try_swapon"
  BY <1>a, <1>b, <1>d, <1>e, <1>g DEF Step, StepsFor
<1>r. /\ R["swapoff"] = 1 /\ R["zram_swapoff"] = 2 /\ R["write_zram"] = 3
      /\ R["put_fstab"] = 4 /\ R["write_sysctl"] = 5 /\ R["unlink"] = 6
      /\ R["recreate"] = 7 /\ R["start_zram"] = 8 /\ R["stop_zram"] = 8
      /\ R["reload_sysctl"] = 9 /\ R["try_swapon"] = 10
  BY RestoreStages DEF R
<1> HIDE DEF A, B, b1, b2, b3, b4, D, E, f1, f2, G
<1>1. /\ A \o B \in Seq(AnyStep) /\ Range(A \o B) = Range(A) \cup Range(B) /\ Ordered(R, 0, A \o B)
      /\ \A s \in Range(A \o B) : R[s.do] = 1
  <2>1. \A s \in Range(A), t \in Range(B) : R[s.do] + 0 <= R[t.do]
    BY <1>s, <1>r
  <2>2. /\ A \o B \in Seq(AnyStep) /\ Range(A \o B) = Range(A) \cup Range(B)
        /\ Ordered(R, 0, A \o B)
    BY <1>0, <1>a, <1>b, <2>1, OrderedConcat
  <2> QED BY <1>s, <1>r, <2>2
<1>2. /\ C \in Seq(AnyStep) /\ Range(C) = {b1, b2, b3, b4} /\ Ordered(R, 0, C)
      /\ \A s \in Range(C) : R[s.do] \in 2..5
  <2>1. R[b1.do] = 2 /\ R[b2.do] = 3 /\ R[b3.do] = 4 /\ R[b4.do] = 5
    BY <1>c, <1>r
  <2>2. C \in Seq(AnyStep) /\ Range(C) = {b1, b2, b3, b4} /\ Ordered(R, 0, C)
    <3>1. R[b1.do] + 0 <= R[b2.do] /\ R[b2.do] + 0 <= R[b3.do] /\ R[b3.do] + 0 <= R[b4.do]
      BY <2>1
    <3> QED BY <1>0, <1>c, <3>1, FourSteps
  <2> QED BY <2>1, <2>2
<1>3. /\ F \in Seq(AnyStep) /\ Range(F) = {f1, f2} /\ Ordered(R, 0, F)
      /\ \A s \in Range(F) : R[s.do] \in 8..9
  <2>1. R[f1.do] = 8 /\ R[f2.do] = 9
    BY <1>f, <1>r
  <2>2. F \in Seq(AnyStep) /\ Range(F) = {f1, f2} /\ Ordered(R, 0, F)
    <3>1. R[f1.do] + 0 <= R[f2.do]
      BY <2>1
    <3> QED BY <1>0, <1>f, <3>1, TwoSteps
  <2> QED BY <2>1, <2>2
<1> HIDE DEF C, F
<1> DEFINE AC == A \o B \o C
           AD == AC \o D
           AE == AD \o E
           AF == AE \o F
           AG == AF \o G
<1>4. /\ AC \in Seq(AnyStep) /\ Range(AC) = Range(A) \cup Range(B) \cup Range(C)
      /\ Ordered(R, 0, AC) /\ \A s \in Range(AC) : R[s.do] \in 1..5
  <2>1. \A s \in Range(A \o B), t \in Range(C) : R[s.do] + 0 <= R[t.do]
    BY <1>1, <1>2
  <2>2. /\ AC \in Seq(AnyStep) /\ Range(AC) = Range(A \o B) \cup Range(C) /\ Ordered(R, 0, AC)
    BY <1>0, <1>1, <1>2, <2>1, OrderedConcat
  <2> QED BY <1>1, <1>2, <2>2
<1> HIDE DEF AC
<1>5. /\ AD \in Seq(AnyStep) /\ Range(AD) = Range(AC) \cup Range(D)
      /\ Ordered(R, 0, AD) /\ \A s \in Range(AD) : R[s.do] \in 1..6
  <2>1. \A s \in Range(AC), t \in Range(D) : R[s.do] + 0 <= R[t.do]
    BY <1>4, <1>s, <1>r
  <2>2. /\ AD \in Seq(AnyStep) /\ Range(AD) = Range(AC) \cup Range(D) /\ Ordered(R, 0, AD)
    BY <1>0, <1>4, <1>d, <2>1, OrderedConcat
  <2> QED BY <1>4, <1>s, <1>r, <2>2
<1> HIDE DEF AD
<1>6. /\ AE \in Seq(AnyStep) /\ Range(AE) = Range(AD) \cup Range(E)
      /\ Ordered(R, 0, AE) /\ \A s \in Range(AE) : R[s.do] \in 1..7
  <2>1. \A s \in Range(AD), t \in Range(E) : R[s.do] + 0 <= R[t.do]
    BY <1>5, <1>s, <1>r
  <2>2. /\ AE \in Seq(AnyStep) /\ Range(AE) = Range(AD) \cup Range(E) /\ Ordered(R, 0, AE)
    BY <1>0, <1>5, <1>e, <2>1, OrderedConcat
  <2> QED BY <1>5, <1>s, <1>r, <2>2
<1> HIDE DEF AE
<1>7. /\ AF \in Seq(AnyStep) /\ Range(AF) = Range(AE) \cup Range(F)
      /\ Ordered(R, 0, AF) /\ \A s \in Range(AF) : R[s.do] \in 1..9
  <2>1. \A s \in Range(AE), t \in Range(F) : R[s.do] + 0 <= R[t.do]
    BY <1>3, <1>6
  <2>2. /\ AF \in Seq(AnyStep) /\ Range(AF) = Range(AE) \cup Range(F) /\ Ordered(R, 0, AF)
    BY <1>0, <1>6, <1>3, <2>1, OrderedConcat
  <2> QED BY <1>3, <1>6, <2>2
<1> HIDE DEF AF
<1>8. AG \in Seq(AnyStep) /\ Range(AG) = Range(AF) \cup Range(G) /\ Ordered(R, 0, AG)
  <2>1. \A s \in Range(AF), t \in Range(G) : R[s.do] + 0 <= R[t.do]
    <3>1. \A t \in Range(G) : R[t.do] = 10
      BY <1>s, <1>r
    <3>2. \A s \in Range(AF) : R[s.do] \in 1..9
      BY <1>7
    <3> QED BY <3>1, <3>2
  <2> QED BY <1>0, <1>7, <1>g, <2>1, OrderedConcat
<1>9. RestoreSteps(k, extra) = AG
  BY <1>h DEF AG, AF, AE, AD, AC, C, F
<1>10. Range(AG) = UNION {Range(A), Range(B), Range(C), Range(D), Range(E), Range(F), Range(G)}
  BY <1>4, <1>5, <1>6, <1>7, <1>8
<1> HIDE DEF AG
<1>11. PlanSteps(k, extra) =
         UNION {Range(A), Range(B), Range(C), Range(D), Range(E), Range(F), Range(G)}
  BY <1>a, <1>b, <1>2, <1>d, <1>e, <1>3, <1>g DEF PlanSteps, b1, b2, b3, b4, f1, f2, meta
<1> QED BY <1>8, <1>9, <1>10, <1>11 DEF R

\* The files a restore will delete: none that the snapshot lists, every active
\* one created since, and otherwise only what fstab lists or may be as young.
LEMMA ExtraType ==
  ASSUME TypeOK, NEW k \in DOMAIN snaps, NEW extra \in Extra(k)
  PROVE  /\ extra \in SUBSET Paths
         /\ \A p \in extra : p \notin snaps[k].listed /\ (p \in fstab \/ Newer(p, k) \/ SameAge(p, k))
         /\ \A p \in active : p \in snaps[k].listed \/ ~Newer(p, k) \/ p \in extra
<1>1. fstab \subseteq Paths /\ active \subseteq Paths
  BY DEF TypeOK
<1>2. \E some \in SUBSET {p \in active \ fstab : SameAge(p, k)} :
        extra = ((fstab \cup {p \in active \ fstab : Newer(p, k)}) \ snaps[k].listed)
                  \cup (some \ snaps[k].listed)
  BY DEF Extra
<1> QED BY <1>1, <1>2

\* A restore starts with its whole plan ahead, whatever it finds.
LEMMA RestoreBegins ==
  ASSUME TypeOK, BaseInv, NEW k \in DOMAIN snaps, NEW extra \in Extra(k),
         todo' = RestoreSteps(k, extra), job'.snap = k, snaps' = snaps,
         UNCHANGED <<swaps, file, born>>
  PROVE  todo' \in Seq(AnyStep) /\ RestoreInv'
<1> DEFINE listed == snaps[k].listed
           plan == PlanSteps(k, extra)
<1>1. /\ todo' \in Seq(AnyStep)
      /\ Ordered(RestoreStage, 0, todo')
      /\ Range(todo') = plan
  BY ExtraType, RestorePlan
<1>2. /\ extra \in SUBSET Paths
      /\ \A p \in extra : p \notin listed /\ (p \in fstab \/ Newer(p, k) \/ SameAge(p, k))
      /\ \A p \in active : p \in listed \/ ~Newer(p, k) \/ p \in extra
  BY ExtraType
<1>3. /\ fstab' = fstab /\ active' = active /\ file' = file /\ born' = born
  BY DEF swaps
<1>4. listed \in SUBSET Paths
  BY SnapshotType
<1>5. \A p \in extra : Deletable(p, k)
  BY <1>2 DEF Deletable, BaseInv
<1>6. \A p : Deletable(p, k)' <=> Deletable(p, k)
  BY <1>3 DEF Deletable, Newer, SameAge, Known
<1>7. \A s \in plan :
        \/ s.undo = <<>> /\ s.do \in {"swapoff", "unlink"} /\ s.on \in extra
        \/ s.undo = <<>> /\ s.do \in {"swapoff", "try_swapon"} /\ s.on \in listed
        \/ s.undo = <<>> /\ s.do = "recreate" /\ s.on \in listed /\ s.to = k
        \/ s.undo = <<>> /\ s.do = "zram_swapoff"
        \/ s.undo = <<>> /\ s.do = "write_zram" /\ s.to = snaps[k].etc["zram"]
        \/ s.undo = <<>> /\ s.do = "put_fstab" /\ s.to = k
        \/ s.undo = <<>> /\ s.do = "write_sysctl" /\ s.to = snaps[k].etc["sysctl"]
        \/ s.undo = <<>> /\ s.do = "start_zram" /\ snaps[k].etc["zram"] # Absent
        \/ s.undo = <<>> /\ s.do = "stop_zram" /\ snaps[k].etc["zram"] = Absent
        \/ s.undo = <<>> /\ s.do = "reload_sysctl"
  BY DEF PlanSteps, StepsFor, Step
<1>8. /\ \E s \in plan : s.do = "zram_swapoff"
      /\ \E s \in plan : s.do = "write_zram"
      /\ \E s \in plan : s.do = "put_fstab"
      /\ \E s \in plan : s.do = "write_sysctl"
      /\ \E s \in plan : s.do \in {"start_zram", "stop_zram"}
      /\ \A p \in listed : \E s \in plan : s.do = "recreate" /\ s.on = p
      /\ \A p \in extra : \E s \in plan : s.do = "swapoff" /\ s.on = p
  <2>1. Step("zram_swapoff", Nowhere, 0) \in plan /\ Step("zram_swapoff", Nowhere, 0).do = "zram_swapoff"
    BY DEF PlanSteps, Step
  <2>2. /\ Step("write_zram", Nowhere, snaps[k].etc["zram"]) \in plan
        /\ Step("write_zram", Nowhere, snaps[k].etc["zram"]).do = "write_zram"
    BY DEF PlanSteps, Step
  <2>3. Step("put_fstab", Nowhere, k) \in plan /\ Step("put_fstab", Nowhere, k).do = "put_fstab"
    BY DEF PlanSteps, Step
  <2>4. /\ Step("write_sysctl", Nowhere, snaps[k].etc["sysctl"]) \in plan
        /\ Step("write_sysctl", Nowhere, snaps[k].etc["sysctl"]).do = "write_sysctl"
    BY DEF PlanSteps, Step
  <2>5. /\ Step("start_zram", Nowhere, 0) \in plan \/ Step("stop_zram", Nowhere, 0) \in plan
        /\ Step("start_zram", Nowhere, 0).do = "start_zram"
        /\ Step("stop_zram", Nowhere, 0).do = "stop_zram"
    BY DEF PlanSteps, Step
  <2>6. \A p \in listed : /\ Step("recreate", p, k) \in plan
                          /\ Step("recreate", p, k).do = "recreate" /\ Step("recreate", p, k).on = p
    BY DEF PlanSteps, StepsFor, Step
  <2>7. \A p \in extra : /\ Step("swapoff", p, 0) \in plan
                         /\ Step("swapoff", p, 0).do = "swapoff" /\ Step("swapoff", p, 0).on = p
    BY DEF PlanSteps, StepsFor, Step
  <2> HIDE DEF plan
  <2> QED BY <2>1, <2>2, <2>3, <2>4, <2>5, <2>6, <2>7
<1> HIDE DEF plan
<1>9. RestoreShape'
  <2>1. \A s \in plan : RestoreFits(s, k)'
    <3> TAKE s \in plan
    <3> QED BY <1>2, <1>4, <1>5, <1>6, <1>7 DEF RestoreFits, RestoreKinds
  <2> QED BY <1>1, <2>1 DEF RestoreShape
<1>10. RebuildNext'
  <2>1. \A s \in plan : s.do # "build" /\ s.do # "rename"
    BY <1>7
  <2>2. \A i \in DOMAIN todo' : todo'[i] \in plan
    BY <1>1 DEF Range
  <2> QED BY <2>1, <2>2 DEF RebuildNext
<1>11. FilesBack'
  BY <1>1, <1>8 DEF FilesBack, Has, HasFor
<1>12. ZramBack'
  BY <1>1, <1>8 DEF ZramBack, Has, Restarts
<1>13. OthersOff'
  <2>1. \A p \in active' : p \in listed \/ ~Newer(p, k)' \/ HasFor(todo', "swapoff", p)
    BY <1>1, <1>2, <1>3, <1>8 DEF HasFor, Newer
  <2>2. \A p \in active' : HasFor(todo', "unlink", p) => HasFor(todo', "swapoff", p)
    BY <1>1, <1>7, <1>8 DEF HasFor
  <2> QED BY <2>1, <2>2 DEF OthersOff
<1> QED BY <1>1, <1>9, <1>10, <1>11, <1>12, <1>13 DEF RestoreInv

-----------------------------------------------------------------------------
(* The plan of an apply or a direct action.                                *)

\* An empty plan.
LEMMA NoStep ==
  ASSUME NEW stage, NEW gap
  PROVE  /\ <<>> \in Seq(AnyStep) /\ Range(<<>>) = {} /\ Ordered(stage, gap, <<>>)
BY DEF Range, Ordered

\* A plan of one step.
LEMMA OneStep ==
  ASSUME NEW a \in AnyStep, NEW stage, NEW gap
  PROVE  /\ <<a>> \in Seq(AnyStep) /\ Range(<<a>>) = {a} /\ Ordered(stage, gap, <<a>>)
BY DEF Range, Ordered

\* A step with an undo has that undo and the fields of the step.
LEMMA OrElseType ==
  ASSUME NEW s \in PlainStep, NEW steps \in Seq(PlainStep)
  PROVE  /\ OrElse(s, steps) \in AnyStep
         /\ OrElse(s, steps).do = s.do /\ OrElse(s, steps).on = s.on
         /\ OrElse(s, steps).to = s.to /\ OrElse(s, steps).undo = steps
BY DEF OrElse, PlainStep, AnyStep

\* What the first steps of change c are.
ApplyStep(c, s) ==
  \/ s.do = "stop_zram" /\ s.undo = <<Step("write_zram", Nowhere, Off)>>
  \/ /\ s.undo = <<>>
     /\ \/ s.do = "write_zram" /\ s.to \in Contents \cup {Off}
        \/ s.do = "start_zram"
        \/ s.do \in {"swapon", "swapoff_now"} /\ s.on = c.swap.on /\ s.on \in Paths
        \/ /\ s.do \in ChangeKinds /\ s.do = c.swap.do /\ s.on = c.swap.on /\ s.on \in Paths
           /\ s.do \in {"create", "resize"} => s.to \in Sizes
        \/ s.do = "write_sysctl" /\ s.to \in Contents
        \/ s.do = "load_sysctl"

\* The zram part of a change (apply/engine.rs): its steps, in order.
LEMMA ZramPlan ==
  ASSUME NEW c \in Change
  PROVE  /\ ZramSteps(c.zram) \in Seq(AnyStep)
         /\ Ordered(WorkStage, 1, ZramSteps(c.zram))
         /\ \A s \in Range(ZramSteps(c.zram)) : ApplyStep(c, s) /\ WorkStage[s.do] \in 1..3
         /\ \A s \in Range(ZramSteps(c.zram)) : s.do # "load_sysctl"
<1> DEFINE v == c.zram
           w == Step("write_zram", Nowhere, v)
           start == Step("start_zram", Nowhere, 0)
           stop == OrElse(Step("stop_zram", Nowhere, 0), <<Step("write_zram", Nowhere, Off)>>)
<1>1. v \in Contents \cup {Unset, Off}
  BY DEF Change
<1>2. CASE v = Unset
  BY <1>2, NoStep DEF ZramSteps
<1>3. Nowhere \in Places /\ 0 \in Arguments /\ {"write_zram", "start_zram", "stop_zram"} \subseteq Kinds
  BY DEF Places, Arguments, Kinds, WorkKinds
<1>4. ASSUME v # Unset
      PROVE  w \in AnyStep /\ w \in PlainStep /\ w.do = "write_zram" /\ w.to \in Contents \cup {Off} /\ w.undo = <<>>
  <2>1. v \in Arguments /\ v \in Contents \cup {Off}
    BY <1>1, <1>4 DEF Arguments
  <2> QED BY <1>3, <2>1, StepType
<1>5. start \in AnyStep /\ start.do = "start_zram" /\ start.undo = <<>>
  BY <1>3, StepType
<1>6. stop \in AnyStep /\ stop.do = "stop_zram" /\ stop.undo = <<Step("write_zram", Nowhere, Off)>>
  <2>1. Off \in Arguments
    BY DEF Arguments
  <2>2. Step("write_zram", Nowhere, Off) \in PlainStep
    BY <1>3, <2>1, StepType
  <2>3. Step("stop_zram", Nowhere, 0) \in PlainStep /\ Step("stop_zram", Nowhere, 0).do = "stop_zram"
    BY <1>3, StepType
  <2>4. <<Step("write_zram", Nowhere, Off)>> \in Seq(PlainStep)
    BY <2>2
  <2> QED BY <2>3, <2>4, OrElseType
<1>7. CASE v = Off
  <2>1. ZramSteps(v) = <<stop, w>>
    BY <1>7, HostAssumption DEF ZramSteps
  <2> HIDE DEF stop, w, v
  <2>2. w \in AnyStep /\ w.do = "write_zram" /\ w.to \in Contents \cup {Off} /\ w.undo = <<>>
    BY <1>4, <1>7, HostAssumption
  <2>3. WorkStage[stop.do] + 1 <= WorkStage[w.do] /\ WorkStage[stop.do] = 1 /\ WorkStage[w.do] = 2
    BY <1>6, <2>2, WorkStages
  <2>4. /\ <<stop, w>> \in Seq(AnyStep) /\ Range(<<stop, w>>) = {stop, w}
        /\ Ordered(WorkStage, 1, <<stop, w>>)
    BY <1>6, <2>2, <2>3, TwoSteps, StagesAreNumbers
  <2>5. ApplyStep(c, stop) /\ ApplyStep(c, w)
    BY <1>6, <2>2 DEF ApplyStep
  <2> QED BY <1>6, <2>1, <2>2, <2>3, <2>4, <2>5 DEF v
<1>8. CASE v # Off /\ v # Unset
  <2>1. ZramSteps(v) = <<w, start>>
    BY <1>8 DEF ZramSteps
  <2> HIDE DEF start, w, v
  <2>2. WorkStage[w.do] + 1 <= WorkStage[start.do] /\ WorkStage[start.do] = 3 /\ WorkStage[w.do] = 2
    BY <1>4, <1>5, <1>8, WorkStages
  <2>3. /\ <<w, start>> \in Seq(AnyStep) /\ Range(<<w, start>>) = {w, start}
        /\ Ordered(WorkStage, 1, <<w, start>>)
    BY <1>4, <1>5, <1>8, <2>2, TwoSteps, StagesAreNumbers
  <2>4. ApplyStep(c, start) /\ ApplyStep(c, w)
    BY <1>4, <1>5, <1>8 DEF ApplyStep
  <2> QED BY <1>4, <1>5, <1>8, <2>1, <2>2, <2>3, <2>4 DEF v
<1> QED BY <1>2, <1>7, <1>8

\* The swapfile part of a change.
LEMMA SwapPlan ==
  ASSUME NEW c \in Change
  PROVE  /\ SwapSteps(c.swap) \in Seq(AnyStep)
         /\ Ordered(WorkStage, 1, SwapSteps(c.swap))
         /\ \A s \in Range(SwapSteps(c.swap)) : ApplyStep(c, s) /\ WorkStage[s.do] \in 9..10
         /\ \A s \in Range(SwapSteps(c.swap)) : s.do # "load_sysctl"
<1> DEFINE d == c.swap.do
           a == IF d = "on" THEN Step("swapon", c.swap.on, 0)
                ELSE IF d = "off" THEN Step("swapoff_now", c.swap.on, 0)
                ELSE Step(d, c.swap.on, c.swap.to)
<1>1. c.swap \in SwapChange
  BY DEF Change
<1>2. CASE d = "none"
  BY <1>2, NoStep DEF SwapSteps
<1>3. CASE d # "none"
  <2>1. /\ c.swap.on \in Paths /\ c.swap.on \in Places /\ c.swap.to \in Arguments /\ 0 \in Arguments
        /\ d \in {"on", "off"} \cup ChangeKinds
        /\ d \in {"create", "resize"} => c.swap.to \in Sizes
    BY <1>1, <1>3 DEF SwapChange, NoSwap, Sizes, Places, Arguments, ChangeKinds
  <2>2. "swapon" \in Kinds /\ "swapoff_now" \in Kinds /\ ChangeKinds \subseteq Kinds
    BY DEF Kinds, WorkKinds, FileKinds
  <2>3. /\ a \in AnyStep /\ a.undo = <<>> /\ a.on = c.swap.on
        /\ \/ a.do \in {"swapon", "swapoff_now"}
           \/ a.do = d /\ d \in ChangeKinds /\ a.to = c.swap.to
    <3>1. CASE d = "on"
      BY <2>1, <2>2, <3>1, StepType
    <3>2. CASE d = "off"
      BY <2>1, <2>2, <3>2, StepType
    <3>3. CASE d \in ChangeKinds
      <4>1. d # "on" /\ d # "off"
        BY <3>3 DEF ChangeKinds
      <4> QED BY <2>1, <2>2, <3>3, <4>1, StepType
    <3> QED BY <2>1, <3>1, <3>2, <3>3
  <2>4. SwapSteps(c.swap) = <<a>>
    BY <1>3 DEF SwapSteps
  <2> HIDE DEF a, d
  <2>5. ApplyStep(c, a)
    BY <2>1, <2>3 DEF ApplyStep, d
  <2>6. WorkStage[a.do] \in 9..10 /\ a.do # "load_sysctl"
    BY <2>3, WorkStages DEF ChangeKinds
  <2> QED BY <2>3, <2>4, <2>5, <2>6, OneStep
<1> QED BY <1>2, <1>3

\* The sysctl part of a change.
LEMMA SysctlPlan ==
  ASSUME NEW c \in Change
  PROVE  /\ SysctlSteps(c.sysctl) \in Seq(AnyStep)
         /\ Ordered(WorkStage, 1, SysctlSteps(c.sysctl))
         /\ \A s \in Range(SysctlSteps(c.sysctl)) : ApplyStep(c, s) /\ WorkStage[s.do] \in 11..12
         /\ Has(SysctlSteps(c.sysctl), "load_sysctl") => Has(SysctlSteps(c.sysctl), "write_sysctl")
<1> DEFINE v == c.sysctl
           w == Step("write_sysctl", Nowhere, v)
           load == Step("load_sysctl", Nowhere, 0)
<1>1. v \in Contents \cup {Unset}
  BY DEF Change
<1>2. CASE v = Unset
  BY <1>2, NoStep DEF SysctlSteps, Has
<1>3. CASE v # Unset
  <2>1. /\ Nowhere \in Places /\ 0 \in Arguments /\ v \in Arguments /\ v \in Contents
        /\ "write_sysctl" \in Kinds /\ "load_sysctl" \in Kinds
    BY <1>1, <1>3 DEF Places, Arguments, Kinds, WorkKinds
  <2>2. w \in AnyStep /\ w.do = "write_sysctl" /\ w.to \in Contents /\ w.undo = <<>>
    BY <2>1, StepType
  <2>3. load \in AnyStep /\ load.do = "load_sysctl" /\ load.undo = <<>>
    BY <2>1, StepType
  <2>4. SysctlSteps(v) = <<w, load>>
    BY <1>3 DEF SysctlSteps
  <2> HIDE DEF w, load, v
  <2>5. WorkStage[w.do] + 1 <= WorkStage[load.do] /\ WorkStage[w.do] = 11 /\ WorkStage[load.do] = 12
    BY <2>2, <2>3, WorkStages
  <2>6. /\ <<w, load>> \in Seq(AnyStep) /\ Range(<<w, load>>) = {w, load}
        /\ Ordered(WorkStage, 1, <<w, load>>)
    BY <2>2, <2>3, <2>5, TwoSteps, StagesAreNumbers
  <2>7. ApplyStep(c, w) /\ ApplyStep(c, load)
    BY <2>2, <2>3 DEF ApplyStep
  <2>8. \A s \in {w, load} : ApplyStep(c, s) /\ WorkStage[s.do] \in 11..12
    BY <2>5, <2>7
  <2>9. \E s \in {w, load} : s.do = "write_sysctl"
    BY <2>2
  <2> QED BY <2>4, <2>6, <2>8, <2>9 DEF v, Has
<1> QED BY <1>2, <1>3

\* zram first, then the swapfile, then sysctl (apply in engine.rs).
LEMMA ApplyPlan ==
  ASSUME NEW c \in Change
  PROVE  /\ ApplySteps(c) \in Seq(AnyStep)
         /\ Ordered(WorkStage, 1, ApplySteps(c))
         /\ \A s \in Range(ApplySteps(c)) : ApplyStep(c, s)
         /\ Has(ApplySteps(c), "load_sysctl") => Has(ApplySteps(c), "write_sysctl")
<1> DEFINE Z == ZramSteps(c.zram)
           S == SwapSteps(c.swap)
           Y == SysctlSteps(c.sysctl)
<1>1. /\ Z \in Seq(AnyStep) /\ Ordered(WorkStage, 1, Z)
      /\ \A s \in Range(Z) : ApplyStep(c, s) /\ WorkStage[s.do] \in 1..3
      /\ \A s \in Range(Z) : s.do # "load_sysctl"
  BY ZramPlan
<1>2. /\ S \in Seq(AnyStep) /\ Ordered(WorkStage, 1, S)
      /\ \A s \in Range(S) : ApplyStep(c, s) /\ WorkStage[s.do] \in 9..10
      /\ \A s \in Range(S) : s.do # "load_sysctl"
  BY SwapPlan
<1>3. /\ Y \in Seq(AnyStep) /\ Ordered(WorkStage, 1, Y)
      /\ \A s \in Range(Y) : ApplyStep(c, s) /\ WorkStage[s.do] \in 11..12
      /\ Has(Y, "load_sysctl") => Has(Y, "write_sysctl")
  BY SysctlPlan
<1>4. ApplySteps(c) = Z \o S \o Y
  BY DEF ApplySteps
<1> HIDE DEF Z, S, Y
<1>5. /\ Z \o S \in Seq(AnyStep) /\ Range(Z \o S) = Range(Z) \cup Range(S)
      /\ Ordered(WorkStage, 1, Z \o S)
  <2>1. \A s \in Range(Z), t \in Range(S) : WorkStage[s.do] + 1 <= WorkStage[t.do]
    BY <1>1, <1>2
  <2> QED BY <1>1, <1>2, <2>1, OrderedConcat, StagesAreNumbers
<1>6. /\ Z \o S \o Y \in Seq(AnyStep) /\ Range(Z \o S \o Y) = Range(Z \o S) \cup Range(Y)
      /\ Ordered(WorkStage, 1, Z \o S \o Y)
  <2>1. \A s \in Range(Z \o S), t \in Range(Y) : WorkStage[s.do] + 1 <= WorkStage[t.do]
    <3>1. \A s \in Range(Z \o S) : WorkStage[s.do] \in 1..10
      BY <1>1, <1>2, <1>5
    <3> QED BY <1>3, <3>1
  <2> QED BY <1>3, <1>5, <2>1, OrderedConcat, StagesAreNumbers
<1> QED BY <1>1, <1>2, <1>3, <1>4, <1>5, <1>6 DEF Has

\* A new snapshot leaves the earlier ones alone and lists what fstab lists.
LEMMA AppendSnapshot ==
  ASSUME TypeOK, snaps' = Append(snaps, Snapshot)
  PROVE  /\ snaps' \in Seq([etc: [zram: Contents \cup {Absent, Off}, sysctl: Contents \cup {Absent}],
                            listed: SUBSET Paths, size: [Paths -> 0..MaxSize]])
         /\ Len(snaps') = Len(snaps) + 1 /\ Len(snaps) \in Nat
         /\ DOMAIN snaps = 1..Len(snaps) /\ DOMAIN snaps' = 1..(Len(snaps) + 1)
         /\ \A k \in DOMAIN snaps : snaps'[k] = snaps[k]
         /\ snaps'[Len(snaps) + 1].listed = fstab
<1> DEFINE S == [etc: [zram: Contents \cup {Absent, Off}, sysctl: Contents \cup {Absent}],
                 listed: SUBSET Paths, size: [Paths -> 0..MaxSize]]
<1>1. Snapshot \in S
  <2>1. \A p \in Paths : (IF p \in fstab THEN file[p] ELSE 0) \in 0..MaxSize
    BY HostAssumption DEF TypeOK
  <2>2. [p \in Paths |-> IF p \in fstab THEN file[p] ELSE 0] \in [Paths -> 0..MaxSize]
    BY <2>1
  <2> QED BY <2>2 DEF Snapshot, TypeOK
<1>2. snaps \in Seq(S)
  BY DEF TypeOK
<1>3. Snapshot.listed = fstab
  BY DEF Snapshot
<1> HIDE DEF S
<1>4. Len(snaps) \in Nat /\ DOMAIN snaps = 1..Len(snaps)
  BY <1>2, LenProperties
<1>5. /\ snaps' \in Seq(S) /\ Len(snaps') = Len(snaps) + 1
      /\ \A k \in 1..Len(snaps) : snaps'[k] = snaps[k]
      /\ snaps'[Len(snaps) + 1] = Snapshot
  BY <1>1, <1>2, AppendProperties
<1>6. DOMAIN snaps' = 1..(Len(snaps) + 1)
  BY <1>5, LenProperties
<1> QED BY <1>3, <1>4, <1>5, <1>6 DEF S

\* The snapshot is taken and the plan is made.
LEMMA WorkBegins ==
  ASSUME HostInv, NEW op, NEW c \in Change, Begin(op, c)
  PROVE  HostInv'
<1> USE DEF HostInv
<1>1. /\ phase = "idle" /\ ops < MaxOps /\ ops' = ops + 1
      /\ snaps' = Append(snaps, Snapshot)
      /\ job'.change = c /\ job'.snap = Len(snaps')
      /\ todo' = ApplySteps(c) /\ phase' = "work" /\ outcome' = "none"
      /\ file' = file /\ header' = header /\ sparse' = sparse /\ sibling' = sibling /\ born' = born
      /\ fstab' = fstab /\ active' = active /\ etc' = etc /\ live' = live /\ faults' = faults
  BY DEF Begin, disk, swaps, config
<1>2. /\ snaps' \in Seq([etc: [zram: Contents \cup {Absent, Off}, sysctl: Contents \cup {Absent}],
                            listed: SUBSET Paths, size: [Paths -> 0..MaxSize]])
      /\ Len(snaps') = Len(snaps) + 1 /\ Len(snaps) \in Nat
      /\ DOMAIN snaps = 1..Len(snaps) /\ DOMAIN snaps' = 1..(Len(snaps) + 1)
      /\ \A k \in DOMAIN snaps : snaps'[k] = snaps[k]
      /\ snaps'[Len(snaps) + 1].listed = fstab
  BY <1>1, AppendSnapshot
<1>3. TypeOK'
  <2>1. ops' \in 0..MaxOps
    BY <1>1, HostAssumption DEF TypeOK
  <2>2. job'.snap \in 0..Len(snaps')
    BY <1>1, <1>2
  <2> QED BY <1>1, <1>2, <2>1, <2>2 DEF TypeOK
<1>4. BaseInv'
  <2>1. todo' \in Seq(AnyStep)
    BY <1>1, ApplyPlan
  <2>2. Len(snaps') <= ops'
    BY <1>1, <1>2 DEF BaseInv, TypeOK
  <2>3. job'.snap \in DOMAIN snaps'
    BY <1>1, <1>2
  <2>4. ASSUME NEW p \in fstab, NEW k \in DOMAIN snaps'
        PROVE  p \in snaps'[k].listed \/ Newer(p, k)' \/ Known(p)'
    <3>1. CASE k \in DOMAIN snaps
      <4>1. p \in snaps[k].listed \/ Newer(p, k) \/ Known(p)
        BY <2>4, <3>1 DEF BaseInv
      <4> QED BY <1>1, <1>2, <3>1, <4>1 DEF Newer, Known
    <3>2. CASE k = Len(snaps) + 1
      BY <1>2, <3>2
    <3> QED BY <1>2, <3>1, <3>2
  <2> QED BY <1>1, <2>1, <2>2, <2>3, <2>4 DEF BaseInv
<1>5. WorkInv'
  <2>1. /\ Ordered(WorkStage, 1, todo')
        /\ \A s \in Range(todo') : ApplyStep(c, s)
        /\ Has(todo', "load_sysctl") => Has(todo', "write_sysctl")
    BY <1>1, ApplyPlan
  <2>2. \A s \in Range(todo') : WorkFits(s)' /\ UndoFits(s)'
    <3> TAKE s \in Range(todo')
    <3>1. ApplyStep(c, s) /\ Target' = c.swap.on /\ job'.change = c
      BY <1>1, <2>1 DEF Target
    <3> HIDE DEF HostInv
    <3>2. UndoFits(s)'
      BY <3>1 DEF ApplyStep, UndoFits
    <3>3. WorkFits(s)'
      BY <3>1 DEF ApplyStep, WorkFits, WorkKinds, FileKinds, ChangeKinds
    <3> QED BY <3>2, <3>3
  <2>3. \A s \in Range(todo') : /\ ~Touches(s)
                                /\ s.do # "rename" /\ s.do # "unlink" /\ s.do # "list"
    BY <2>1 DEF ApplyStep, Touches, ChangeKinds
  <2>4. RenameReady' /\ FileIdle' /\ RemovalReady' /\ ListReady' /\ SysctlReady'
    BY <2>1, <2>3 DEF RenameReady, FileIdle, RemovalReady, ListReady, SysctlReady, Has, Touches
  <2> QED BY <2>1, <2>2, <2>4 DEF WorkInv, WorkShape
<1> QED BY <1>1, <1>3, <1>4, <1>5

-----------------------------------------------------------------------------
(* A step that fails.                                                      *)

\* The next step of an apply or a direct action: nothing that should come before
\* it is left.
LEMMA WorkNext ==
  ASSUME HostInv, phase = "work", todo # <<>>
  PROVE  /\ Head(todo) \in AnyStep /\ Head(todo) \in Range(todo)
         /\ WorkFits(Head(todo)) /\ UndoFits(Head(todo))
         /\ Tail(todo) \in Seq(AnyStep)
         /\ Range(todo) = {Head(todo)} \cup Range(Tail(todo))
         /\ \A s \in Range(Tail(todo)) : WorkFits(s) /\ UndoFits(s)
         /\ Ordered(WorkStage, 1, Tail(todo))
         /\ \A s \in Range(Tail(todo)) : /\ WorkStage[Head(todo).do] + 1 <= WorkStage[s.do]
                                         /\ WorkStage[s.do] \in Nat /\ WorkStage[Head(todo).do] \in Nat
<1>1. todo \in Seq(AnyStep) /\ Ordered(WorkStage, 1, todo)
      /\ \A s \in Range(todo) : WorkFits(s) /\ UndoFits(s)
  BY DEF HostInv, BaseInv, WorkInv, WorkShape
<1>2. /\ Head(todo) \in AnyStep /\ Head(todo) \in Range(todo)
      /\ Tail(todo) \in Seq(AnyStep)
      /\ Range(todo) = {Head(todo)} \cup Range(Tail(todo))
  BY <1>1, NextAndOthers
<1>3. /\ Ordered(WorkStage, 1, Tail(todo))
      /\ \A s \in Range(Tail(todo)) : WorkStage[Head(todo).do] + 1 <= WorkStage[s.do]
  BY <1>1, OrderedOthers, StagesAreNumbers
<1>4. \A s \in AnyStep : WorkStage[s.do] \in Nat
  BY StagesAreNumbers DEF AnyStep
<1>5. Range(Tail(todo)) \subseteq AnyStep
  BY <1>2, RangeOfSeq
<1> QED BY <1>1, <1>2, <1>3, <1>4, <1>5

\* The next step of a restore.
LEMMA RestoreNext ==
  ASSUME HostInv, phase = "restore", todo # <<>>
  PROVE  /\ Head(todo) \in AnyStep /\ Head(todo) \in Range(todo)
         /\ RestoreFits(Head(todo), job.snap)
         /\ Tail(todo) \in Seq(AnyStep)
         /\ Range(todo) = {Head(todo)} \cup Range(Tail(todo))
         /\ \A s \in Range(Tail(todo)) : RestoreFits(s, job.snap)
         /\ Ordered(RestoreStage, 0, Tail(todo))
         /\ \A s \in Range(Tail(todo)) : RestoreStage[Head(todo).do] <= RestoreStage[s.do]
<1>1. todo \in Seq(AnyStep) /\ Ordered(RestoreStage, 0, todo)
      /\ \A s \in Range(todo) : RestoreFits(s, job.snap)
  BY DEF HostInv, BaseInv, RestoreInv, RestoreShape
<1>2. /\ Head(todo) \in AnyStep /\ Head(todo) \in Range(todo)
      /\ Tail(todo) \in Seq(AnyStep)
      /\ Range(todo) = {Head(todo)} \cup Range(Tail(todo))
  BY <1>1, NextAndOthers
<1>3. /\ Ordered(RestoreStage, 0, Tail(todo))
      /\ \A s \in Range(Tail(todo)) : RestoreStage[Head(todo).do] + 0 <= RestoreStage[s.do]
  BY <1>1, OrderedOthers, StagesAreNumbers
<1>4. \A s \in AnyStep : RestoreStage[s.do] \in Nat
  BY StagesAreNumbers DEF AnyStep
<1>5. Range(Tail(todo)) \subseteq AnyStep
  BY <1>2, RangeOfSeq
<1> QED BY <1>1, <1>2, <1>3, <1>4, <1>5

\* The operation ends, or the restore of its snapshot begins.
LEMMA GivesUp ==
  ASSUME HostInv, phase # "idle", GiveUp, UNCHANGED <<swaps, file, header, sparse, born, etc>>,
         sibling' \in [Paths -> 0..MaxSize], live' \in [Settings -> Contents \cup {Off}],
         faults' \in 0..MaxFaults
  PROVE  HostInv'
<1>1. /\ fstab' = fstab /\ active' = active /\ file' = file /\ header' = header
      /\ sparse' = sparse /\ born' = born /\ etc' = etc
  BY DEF swaps
<1>2. /\ job' = job /\ ops' = ops /\ snaps' = snaps
      /\ \/ /\ phase' = "restore" /\ outcome' = outcome
            /\ \E extra \in Extra(job.snap) : todo' = RestoreSteps(job.snap, extra)
         \/ phase' = "idle" /\ todo' = <<>> /\ outcome' = "failed"
  BY DEF GiveUp
<1>3. TypeOK' /\ (todo' \in Seq(AnyStep) => BaseInv')
  <2>1. TypeOK'
    BY <1>1, <1>2 DEF HostInv, TypeOK
  <2>2. \A p, k : (Newer(p, k)' <=> Newer(p, k)) /\ (Known(p)' <=> Known(p))
    BY <1>1, <1>2 DEF Newer, Known
  <2> QED BY <1>1, <1>2, <2>1, <2>2 DEF HostInv, BaseInv
<1>4. CASE phase' = "idle"
  BY <1>2, <1>3, <1>4, EmptySeq DEF HostInv
<1>5. CASE phase' = "restore"
  <2>1. PICK extra \in Extra(job.snap) : todo' = RestoreSteps(job.snap, extra)
    BY <1>2, <1>5
  <2>2. TypeOK /\ BaseInv /\ job.snap \in DOMAIN snaps
    BY DEF HostInv, BaseInv
  <2>3. todo' \in Seq(AnyStep) /\ RestoreInv'
    BY <1>1, <1>2, <2>1, <2>2, RestoreBegins
  <2> QED BY <1>3, <1>5, <2>3 DEF HostInv
<1> QED BY <1>2, <1>4, <1>5

\* An undo of one step and the error after it.
LEMMA AppendToOne ==
  ASSUME NEW a, NEW d
  PROVE  Append(<<a>>, d) = <<a, d>>
<1> DEFINE S == {a, d}
<1>1. /\ <<a>> \in Seq(S) /\ Len(<<a>>) = 1 /\ <<a, d>> \in Seq(S) /\ Len(<<a, d>>) = 2
      /\ \A i \in 1..1 : <<a, d>>[i] = <<a>>[i]
      /\ <<a, d>>[2] = d
  OBVIOUS
<1>2. /\ Append(<<a>>, d) \in Seq(S)
      /\ Len(Append(<<a>>, d)) = Len(<<a>>) + 1
      /\ \A i \in 1..Len(<<a>>) : Append(<<a>>, d)[i] = <<a>>[i]
      /\ Append(<<a>>, d)[Len(<<a>>) + 1] = d
  BY <1>1, AppendProperties
<1>3. \A i \in 1..2 : Append(<<a>>, d)[i] = <<a, d>>[i]
  <2> TAKE i \in 1..2
  <2>1. i \in 1..1 \/ i = 2
    OBVIOUS
  <2> QED BY <1>1, <1>2, <2>1
<1>4. Len(Append(<<a>>, d)) = 2
  BY <1>1, <1>2
<1> HIDE DEF S
<1> QED BY <1>1, <1>2, <1>3, <1>4, SeqEqual

\* An undo of two steps and the error after it.
LEMMA AppendToTwo ==
  ASSUME NEW a, NEW b, NEW d
  PROVE  Append(<<a, b>>, d) = <<a, b, d>>
<1> DEFINE S == {a, b, d}
<1>1. /\ <<a, b>> \in Seq(S) /\ Len(<<a, b>>) = 2 /\ <<a, b, d>> \in Seq(S) /\ Len(<<a, b, d>>) = 3
      /\ \A i \in 1..2 : <<a, b, d>>[i] = <<a, b>>[i]
      /\ <<a, b, d>>[3] = d
  OBVIOUS
<1>2. /\ Append(<<a, b>>, d) \in Seq(S)
      /\ Len(Append(<<a, b>>, d)) = Len(<<a, b>>) + 1
      /\ \A i \in 1..Len(<<a, b>>) : Append(<<a, b>>, d)[i] = <<a, b>>[i]
      /\ Append(<<a, b>>, d)[Len(<<a, b>>) + 1] = d
  BY <1>1, AppendProperties
<1>3. \A i \in 1..3 : Append(<<a, b>>, d)[i] = <<a, b, d>>[i]
  <2> TAKE i \in 1..3
  <2>1. i \in 1..2 \/ i = 3
    OBVIOUS
  <2> QED BY <1>1, <1>2, <2>1
<1>4. Len(Append(<<a, b>>, d)) = 3
  BY <1>1, <1>2
<1> HIDE DEF S
<1> QED BY <1>1, <1>2, <1>3, <1>4, SeqEqual

\* An undo of three steps and the error after it.
LEMMA AppendToThree ==
  ASSUME NEW a, NEW b, NEW c, NEW d
  PROVE  Append(<<a, b, c>>, d) = <<a, b, c, d>>
<1> DEFINE S == {a, b, c, d}
<1>1. /\ <<a, b, c>> \in Seq(S) /\ Len(<<a, b, c>>) = 3 /\ <<a, b, c, d>> \in Seq(S) /\ Len(<<a, b, c, d>>) = 4
      /\ \A i \in 1..3 : <<a, b, c, d>>[i] = <<a, b, c>>[i]
      /\ <<a, b, c, d>>[4] = d
  OBVIOUS
<1>2. /\ Append(<<a, b, c>>, d) \in Seq(S)
      /\ Len(Append(<<a, b, c>>, d)) = Len(<<a, b, c>>) + 1
      /\ \A i \in 1..Len(<<a, b, c>>) : Append(<<a, b, c>>, d)[i] = <<a, b, c>>[i]
      /\ Append(<<a, b, c>>, d)[Len(<<a, b, c>>) + 1] = d
  BY <1>1, AppendProperties
<1>3. \A i \in 1..4 : Append(<<a, b, c>>, d)[i] = <<a, b, c, d>>[i]
  <2> TAKE i \in 1..4
  <2>1. i \in 1..3 \/ i = 4
    OBVIOUS
  <2> QED BY <1>1, <1>2, <2>1
<1>4. Len(Append(<<a, b, c>>, d)) = 4
  BY <1>1, <1>2
<1> HIDE DEF S
<1> QED BY <1>1, <1>2, <1>3, <1>4, SeqEqual

\* What a failed step undoes, and the failure after it.
LEMMA UndoBegins ==
  ASSUME HostInv, phase = "work", todo # <<>>, Head(todo).undo # <<>>,
         todo' = Append(Head(todo).undo, Fails), job' = job, active' = active
  PROVE  todo' \in Seq(AnyStep) /\ WorkInv'
<1> DEFINE h == Head(todo)
           p == Target
           f == Fails
           w == Step("write_zram", Nowhere, Off)
           d == Step("discard", p, 0)
           b == Step("try_swapon", p, 0)
           m == Step("mkswap", p, 0)
           o == Step("swapon", p, 0)
<1>1. WorkFits(h) /\ UndoFits(h) /\ h \in Range(todo) /\ Target' = Target
  BY WorkNext DEF Target
<1>2. /\ Nowhere \in Places /\ 0 \in Arguments /\ Off \in Arguments
      /\ "fail" \in Kinds /\ "write_zram" \in Kinds /\ "discard" \in Kinds /\ "try_swapon" \in Kinds
      /\ "set_len" \in Kinds /\ "mkswap" \in Kinds /\ "swapon" \in Kinds
  BY DEF Places, Arguments, Kinds, WorkKinds, FileKinds
<1>3. f \in AnyStep /\ f.do = "fail" /\ f.undo = <<>>
  BY <1>2, StepType DEF Fails
<1>4. ASSUME WorkShape', todo' \in Seq(AnyStep),
             \A s \in Range(todo') : s.do \notin {"rename", "unlink", "list", "load_sysctl"},
             FileIdle'
      PROVE  todo' \in Seq(AnyStep) /\ WorkInv'
  BY <1>4 DEF WorkInv, RenameReady, RemovalReady, ListReady, SysctlReady, Has
<1>5. CASE h.undo = <<w>>
  <2>1. w \in AnyStep /\ w.do = "write_zram" /\ w.to = Off /\ w.undo = <<>>
    BY <1>2, StepType
  <2>2. todo' = <<w, f>>
    BY <1>5, AppendToOne
  <2> HIDE DEF w, f
  <2>3. WorkStage[w.do] + 1 <= WorkStage[f.do]
    BY <1>3, <2>1, WorkStages
  <2>4. todo' \in Seq(AnyStep) /\ Range(todo') = {w, f} /\ Ordered(WorkStage, 1, todo')
    <3>1. /\ <<w, f>> \in Seq(AnyStep) /\ Range(<<w, f>>) = {w, f}
          /\ Ordered(WorkStage, 1, <<w, f>>)
      BY <1>3, <2>1, <2>3, TwoSteps, StagesAreNumbers
    <3> QED BY <2>2, <3>1
  <2>5. WorkFits(w)' /\ WorkFits(f)' /\ UndoFits(w)' /\ UndoFits(f)'
    BY <1>3, <2>1 DEF WorkFits, UndoFits, WorkKinds, FileKinds, ChangeKinds
  <2> QED BY <1>3, <1>4, <2>1, <2>4, <2>5 DEF WorkShape, FileIdle, Touches
<1>6. CASE h.undo = <<d>> /\ h.do \in {"swapoff", "rename"}
  <2>0. p \in Paths /\ p \in Places
    BY <1>1, <1>6 DEF WorkFits, FileKinds, Places
  <2>1. d \in AnyStep /\ d.do = "discard" /\ d.on = p /\ d.undo = <<>>
    BY <1>2, <2>0, StepType
  <2>2. todo' = <<d, f>>
    BY <1>6, AppendToOne
  <2> HIDE DEF d, f
  <2>3. WorkStage[d.do] + 1 <= WorkStage[f.do]
    BY <1>3, <2>1, WorkStages
  <2>4. todo' \in Seq(AnyStep) /\ Range(todo') = {d, f} /\ Ordered(WorkStage, 1, todo')
    <3>1. /\ <<d, f>> \in Seq(AnyStep) /\ Range(<<d, f>>) = {d, f}
          /\ Ordered(WorkStage, 1, <<d, f>>)
      BY <1>3, <2>1, <2>3, TwoSteps, StagesAreNumbers
    <3> QED BY <2>2, <3>1
  <2>5. \A s \in {d, f} : WorkFits(s)' /\ UndoFits(s)'
    <3> TAKE s \in {d, f}
    <3>1. WorkFits(s)'
      BY <1>1, <1>3, <2>0, <2>1 DEF WorkFits, WorkKinds, FileKinds, ChangeKinds
    <3>2. UndoFits(s)'
      BY <1>1, <1>3, <2>0, <2>1 DEF UndoFits
    <3> QED BY <3>1, <3>2
  <2> QED BY <1>3, <1>4, <2>1, <2>4, <2>5 DEF WorkShape, FileIdle, Touches
<1>7. CASE h.undo = <<d, b>> /\ h.do \in {"swapoff", "rename"}
  <2>0. p \in Paths /\ p \in Places
    BY <1>1, <1>7 DEF WorkFits, FileKinds, Places
  <2>1. d \in AnyStep /\ d.do = "discard" /\ d.on = p /\ d.undo = <<>>
    BY <1>2, <2>0, StepType
  <2>b. b \in AnyStep /\ b.do = "try_swapon" /\ b.on = p /\ b.undo = <<>>
    BY <1>2, <2>0, StepType
  <2>2. todo' = <<d, b, f>>
    BY <1>7, AppendToTwo
  <2> HIDE DEF d, b, f
  <2>3. WorkStage[d.do] + 1 <= WorkStage[b.do] /\ WorkStage[b.do] + 1 <= WorkStage[f.do]
    BY <1>3, <2>1, <2>b, WorkStages
  <2>4. todo' \in Seq(AnyStep) /\ Range(todo') = {d, b, f} /\ Ordered(WorkStage, 1, todo')
    <3>1. /\ <<d, b, f>> \in Seq(AnyStep) /\ Range(<<d, b, f>>) = {d, b, f}
          /\ Ordered(WorkStage, 1, <<d, b, f>>)
      BY <1>3, <2>1, <2>b, <2>3, ThreeSteps, StagesAreNumbers
    <3> QED BY <2>2, <3>1
  <2>5. \A s \in {d, b, f} : WorkFits(s)' /\ UndoFits(s)'
    <3> TAKE s \in {d, b, f}
    <3>1. WorkFits(s)'
      BY <1>1, <1>3, <2>0, <2>1, <2>b DEF WorkFits, WorkKinds, FileKinds, ChangeKinds
    <3>2. UndoFits(s)'
      BY <1>1, <1>3, <2>0, <2>1, <2>b DEF UndoFits
    <3> QED BY <3>1, <3>2
  <2> QED BY <1>3, <1>4, <2>1, <2>b, <2>4, <2>5 DEF WorkShape, FileIdle, Touches
<1>8. CASE h.do \in {"allocate", "mkswap", "swapon"} /\ \E n \in Sizes : h.undo = SizeBack(n)
  <2> PICK n \in Sizes : h.undo = SizeBack(n)
    BY <1>8
  <2> DEFINE l == Step("set_len", p, n)
  <2>0. p \in Paths /\ p \in Places /\ n \in Arguments
    BY <1>1, <1>8, HostAssumption DEF WorkFits, FileKinds, Places, Arguments, Sizes
  <2>1. l \in AnyStep /\ l.do = "set_len" /\ l.on = p /\ l.to = n /\ l.undo = <<>>
    BY <1>2, <2>0, StepType
  <2>m. m \in AnyStep /\ m.do = "mkswap" /\ m.on = p /\ m.undo = <<>>
    BY <1>2, <2>0, StepType
  <2>o. o \in AnyStep /\ o.do = "swapon" /\ o.on = p /\ o.undo = <<>>
    BY <1>2, <2>0, StepType
  <2>2. todo' = <<l, m, o, f>>
    <3>1. Head(todo).undo = <<l, m, o>>
      BY DEF SizeBack
    <3> HIDE DEF l, m, o
    <3>2. Append(<<l, m, o>>, f) = <<l, m, o, f>>
      BY AppendToThree
    <3> QED BY <3>1, <3>2
  <2> HIDE DEF l, m, o, f
  <2>3. /\ WorkStage[l.do] + 1 <= WorkStage[m.do] /\ WorkStage[m.do] + 1 <= WorkStage[o.do]
        /\ WorkStage[o.do] + 1 <= WorkStage[f.do]
    BY <1>3, <2>1, <2>m, <2>o, WorkStages
  <2>4. todo' \in Seq(AnyStep) /\ Range(todo') = {l, m, o, f} /\ Ordered(WorkStage, 1, todo')
    <3>1. /\ <<l, m, o, f>> \in Seq(AnyStep) /\ Range(<<l, m, o, f>>) = {l, m, o, f}
          /\ Ordered(WorkStage, 1, <<l, m, o, f>>)
      BY <1>3, <2>1, <2>m, <2>o, <2>3, FourSteps, StagesAreNumbers
    <3> QED BY <2>2, <3>1
  <2>5. \A s \in {l, m, o, f} : WorkFits(s)' /\ UndoFits(s)'
    <3> TAKE s \in {l, m, o, f}
    <3>1. WorkFits(s)'
      BY <1>1, <1>3, <2>0, <2>1, <2>m, <2>o DEF WorkFits, WorkKinds, FileKinds, ChangeKinds
    <3>2. UndoFits(s)'
      BY <1>1, <1>3, <2>0, <2>1, <2>m, <2>o DEF UndoFits
    <3> QED BY <3>1, <3>2
  <2>6. FileIdle'
    <3>1. Touches(h)
      BY <1>8 DEF Touches
    <3>2. ~Has(todo, "swapoff")
      <4>1. WorkStage[h.do] >= 7 /\ h.do # "swapoff"
        BY <1>8, WorkStages
      <4> QED BY <4>1, WorkNext, WorkStages DEF Has
    <3>3. Target \notin active
      BY <1>1, <3>1, <3>2 DEF HostInv, WorkInv, FileIdle
    <3> QED BY <1>1, <3>3 DEF FileIdle
  <2>7. \A s \in {l, m, o, f} : s.do \notin {"rename", "unlink", "list", "load_sysctl"}
    BY <1>3, <2>1, <2>m, <2>o
  <2> QED BY <1>4, <2>4, <2>5, <2>6, <2>7 DEF WorkShape
<1> QED BY <1>1, <1>5, <1>6, <1>7, <1>8 DEF UndoFits

\* A failed step is undone, ends the operation or begins the restore.
LEMMA StepFailing ==
  ASSUME HostInv, phase # "idle", todo # <<>>, StepFails,
         UNCHANGED <<swaps, file, header, sparse, born, etc>>,
         sibling' \in [Paths -> 0..MaxSize], live' \in [Settings -> Contents \cup {Off}],
         faults' \in 0..MaxFaults
  PROVE  HostInv'
<1>1. CASE Head(todo).undo = <<>>
  BY <1>1, GivesUp DEF StepFails, This
<1>2. CASE Head(todo).undo # <<>>
  <2>1. /\ todo' = Append(Head(todo).undo, Fails)
        /\ job' = job /\ phase' = phase /\ outcome' = outcome /\ ops' = ops /\ snaps' = snaps
        /\ fstab' = fstab /\ active' = active
    BY <1>2 DEF StepFails, This, control, swaps
  <2>2. phase = "work"
    <3>1. phase # "restore"
      BY <1>2, RestoreNext DEF RestoreFits
    <3> QED BY <3>1 DEF HostInv, TypeOK
  <2>3. todo' \in Seq(AnyStep) /\ WorkInv'
    BY <1>2, <2>1, <2>2, UndoBegins
  <2>4. TypeOK'
    BY <2>1, <2>2 DEF HostInv, TypeOK
  <2>5. BaseInv'
    <3>1. \A q, k : (Newer(q, k)' <=> Newer(q, k)) /\ (Known(q)' <=> Known(q))
      BY <2>1 DEF Newer, Known
    <3> QED BY <2>1, <2>3, <3>1 DEF HostInv, BaseInv
  <2> QED BY <2>1, <2>2, <2>3, <2>4, <2>5 DEF HostInv
<1> QED BY <1>1, <1>2

-----------------------------------------------------------------------------
(* The next step.                                                          *)

\* What holds when a step is next, whoever asked for it.
NextStepSafe(h) ==
  /\ h.do \in FileKinds \cup ChangeKinds \cup {"recreate"} => h.on \in Paths
  /\ h.do \in {"create", "resize", "build", "allocate", "set_len"} => h.to \in Sizes
  /\ h.do = "write_zram" => h.to \in Contents \cup {Absent, Off}
  /\ h.do = "write_sysctl" => h.to \in Contents \cup {Absent}
  /\ h.do = "put_fstab" => h.to \in DOMAIN snaps
  /\ h.do = "recreate" => h.to \in DOMAIN snaps
  /\ h.do = "load_sysctl" => etc["sysctl"] \in Contents
  /\ h.do = "rename" => sibling[h.on] > 0
  /\ h.do \in {"rename", "unlink", "allocate", "set_len", "mkswap"} => h.on \notin active
  /\ h.do \in ChangeKinds \cup {"swapon", "swapoff_now", "list", "unlist", "discard", "allocate",
                                "set_len", "mkswap", "load_sysctl", "fail"} => phase = "work"
  /\ h.do \in {"zram_swapoff", "put_fstab", "recreate", "reload_sysctl"} => phase = "restore"
  /\ h.do = "list" => file[h.on] > 0 /\ born[h.on] = Len(snaps)
  /\ h.do = "unlink" /\ phase = "work" => /\ job.change.swap.do = "remove" /\ h.on = Target
                                          /\ h.on \notin fstab
  /\ h.do = "unlink" /\ phase = "restore" => /\ h.on \notin snaps[job.snap].listed
                                             /\ Deletable(h.on, job.snap)

\* The next step of an apply or a direct action is safe to take.
LEMMA WorkStepSafe ==
  ASSUME HostInv, phase = "work", todo # <<>>
  PROVE  NextStepSafe(Head(todo))
<1> DEFINE h == Head(todo)
           others == Range(Tail(todo))
<1>1. /\ WorkFits(h) /\ Range(todo) = {h} \cup others
      /\ \A s \in others : WorkStage[h.do] + 1 <= WorkStage[s.do] /\ WorkStage[s.do] \in Nat
  BY WorkNext
<1>2. /\ RenameReady /\ FileIdle /\ RemovalReady /\ ListReady /\ SysctlReady
  BY DEF HostInv, WorkInv
<1> HIDE DEF h, others
<1>3. \A kind : Has(todo, kind) <=> h.do = kind \/ \E s \in others : s.do = kind
  BY <1>1 DEF Has
<1>4. h.do = "rename" => ~Has(todo, "build") /\ ~Has(todo, "swapoff")
  <2>1. h.do = "rename" => \A s \in others : s.do # "build" /\ s.do # "swapoff"
    BY <1>1, WorkStages
  <2> QED BY <1>3, <2>1
<1>5. h.do \in {"unlink", "allocate", "set_len"} => ~Has(todo, "swapoff") /\ ~Has(todo, "unlist")
  <2>1. h.do \in {"unlink", "allocate", "set_len"} =>
          WorkStage[h.do] = 7 /\ h.do # "swapoff" /\ h.do # "unlist"
    BY WorkStages
  <2>2. h.do \in {"unlink", "allocate", "set_len"} =>
          \A s \in others : s.do # "swapoff" /\ s.do # "unlist"
    BY <1>1, <2>1, WorkStages
  <2> QED BY <1>3, <2>1, <2>2
<1>6. h.do = "mkswap" => ~Has(todo, "swapoff")
  <2>1. h.do = "mkswap" => \A s \in others : s.do # "swapoff"
    BY <1>1, WorkStages
  <2> QED BY <1>3, <2>1
<1>7. h.do = "list" => ~Has(todo, "rename")
  <2>1. h.do = "list" => \A s \in others : s.do # "rename"
    BY <1>1, WorkStages
  <2> QED BY <1>3, <2>1
<1>8. h.do = "load_sysctl" => ~Has(todo, "write_sysctl")
  BY <1>1, <1>3, WorkStages
<1>9. h.do \in {"rename", "unlink", "allocate", "set_len", "mkswap"} => h.on \notin active /\ h.on = Target
  <2>1. h.do \in {"rename", "unlink", "allocate", "set_len", "mkswap"}
          => h.on = Target /\ Touches(h) /\ ~Has(todo, "swapoff")
    BY <1>1, <1>4, <1>5, <1>6 DEF WorkFits, FileKinds, Touches
  <2> QED BY <1>1, <1>2, <2>1 DEF FileIdle
<1>10. h.do = "rename" => sibling[h.on] > 0
  BY <1>2, <1>3, <1>4, <1>9 DEF RenameReady
<1>11. h.do = "unlink" => job.change.swap.do = "remove" /\ h.on \notin fstab
  BY <1>2, <1>3, <1>5, <1>9 DEF RemovalReady
<1>12. h.do = "list" => file[h.on] > 0 /\ born[h.on] = Len(snaps)
  BY <1>1, <1>2, <1>3, <1>7 DEF ListReady, WorkFits, FileKinds
<1>13. h.do = "load_sysctl" => etc["sysctl"] \in Contents
  BY <1>2, <1>3, <1>8 DEF SysctlReady
<1>14. /\ h.do \in FileKinds \cup ChangeKinds \cup {"recreate"} => h.on \in Paths
       /\ h.do \in {"create", "resize", "build", "allocate", "set_len"} => h.to \in Sizes
       /\ h.do = "write_zram" => h.to \in Contents \cup {Absent, Off}
       /\ h.do = "write_sysctl" => h.to \in Contents \cup {Absent}
       /\ h.do \notin {"zram_swapoff", "put_fstab", "recreate", "reload_sysctl"}
  BY <1>1 DEF WorkFits, WorkKinds, FileKinds, ChangeKinds
<1> QED BY <1>9, <1>10, <1>11, <1>12, <1>13, <1>14 DEF NextStepSafe, h

\* The next step of a restore is safe to take.
LEMMA RestoreStepSafe ==
  ASSUME HostInv, phase = "restore", todo # <<>>
  PROVE  NextStepSafe(Head(todo))
<1> DEFINE h == Head(todo)
           k == job.snap
           others == Range(Tail(todo))
<1>1. /\ RestoreFits(h, k) /\ Range(todo) = {h} \cup others
      /\ \A s \in others : RestoreStage[h.do] <= RestoreStage[s.do]
  BY RestoreNext
<1>2. /\ k \in DOMAIN snaps /\ RebuildNext /\ OthersOff /\ TypeOK /\ BaseInv
  BY DEF HostInv, RestoreInv, BaseInv
<1>3. /\ snaps[k].listed \in SUBSET Paths
      /\ snaps[k].etc["zram"] \in Contents \cup {Absent, Off}
      /\ snaps[k].etc["sysctl"] \in Contents \cup {Absent}
  BY <1>2, SnapshotType
<1>4. 1 \in DOMAIN todo /\ todo[1] = h
  BY <1>2, NextAndOthers DEF BaseInv
<1> HIDE DEF h, others, k
<1>5. h.do = "rename" => sibling[h.on] > 0 /\ h.on \notin active
  BY <1>2, <1>4 DEF RebuildNext, BaseInv
<1>6. h.do = "unlink" => h.on \notin active
  <2> SUFFICES ASSUME h.do = "unlink" PROVE h.on \notin active
    OBVIOUS
  <2>1. \A s \in Range(todo) : s.do # "swapoff"
    BY <1>1, RestoreStages
  <2>2. HasFor(todo, "unlink", h.on)
    BY <1>1 DEF HasFor
  <2> QED BY <1>2, <2>1, <2>2 DEF OthersOff, HasFor
<1>7. /\ h.do \in FileKinds \cup ChangeKinds \cup {"recreate"} => h.on \in Paths
      /\ h.do \notin ChangeKinds \cup {"swapon", "swapoff_now", "list", "unlist", "discard",
                       "allocate", "set_len", "mkswap", "load_sysctl", "fail", "resize", "create"}
      /\ h.do = "build" => h.to \in Sizes
  BY <1>1, <1>3 DEF RestoreFits, RestoreKinds, FileKinds, ChangeKinds
<1>8. /\ h.do = "write_zram" => h.to \in Contents \cup {Absent, Off}
      /\ h.do = "write_sysctl" => h.to \in Contents \cup {Absent}
      /\ h.do = "put_fstab" => h.to \in DOMAIN snaps
      /\ h.do = "recreate" => h.to \in DOMAIN snaps
      /\ h.do = "unlink" => h.on \notin snaps[k].listed /\ Deletable(h.on, k)
  BY <1>1, <1>2, <1>3 DEF RestoreFits
<1> QED BY <1>5, <1>6, <1>7, <1>8 DEF NextStepSafe, h, k

\* The next step is safe to take, whoever asked for it.
LEMMA NextStep ==
  ASSUME HostInv, todo # <<>>
  PROVE  /\ phase \in {"work", "restore"} /\ NextStepSafe(Head(todo))
         /\ Tail(todo) \in Seq(AnyStep)
<1>1. phase \in {"work", "restore"} /\ todo \in Seq(AnyStep)
  BY DEF HostInv, TypeOK, BaseInv
<1> QED BY <1>1, WorkStepSafe, RestoreStepSafe, NextAndOthers

-----------------------------------------------------------------------------
(* What a step does to the host.                                           *)

HostTyped ==
  /\ file \in [Paths -> 0..MaxSize] /\ header \in [Paths -> 0..MaxSize]
  /\ sibling \in [Paths -> 0..MaxSize] /\ born \in [Paths -> 0..MaxOps]
  /\ sparse \subseteq Paths /\ fstab \subseteq Paths /\ active \subseteq Paths
  /\ etc \in [zram: Contents \cup {Absent, Off}, sysctl: Contents \cup {Absent}]
  /\ live \in [Settings -> Contents \cup {Off}]
  /\ faults \in 0..MaxFaults

\* Step h changes what it is for and nothing else.
DiskEffect(h) ==
  /\ \A p \in Paths : \/ sibling'[p] = sibling[p]
                      \/ h.do \in {"build", "rename", "discard"} /\ p = h.on
  /\ h.do = "build" => sibling'[h.on] = h.to
  /\ \A p \in Paths : \/ born'[p] = born[p]
                      \/ h.do = "rename" /\ p = h.on
  /\ h.do = "rename" => file'[h.on] = sibling[h.on] /\ born'[h.on] = Len(snaps)
  /\ \A p \in Paths : \/ file'[p] = file[p]
                      \/ h.do \in {"rename", "unlink", "allocate", "set_len"} /\ p = h.on
  /\ h.do \in {"allocate", "set_len"} => file'[h.on] = h.to
  /\ \A p \in Paths : \/ header'[p] = header[p]
                      \/ h.do \in {"rename", "unlink", "mkswap"} /\ p = h.on

SwapsEffect(h) ==
  /\ \A p \in active' : \/ p \in active
                        \/ h.do \in {"swapon", "try_swapon"} /\ p = h.on /\ file[p] > 0
  /\ h.do \in {"swapoff", "swapoff_now"} => h.on \notin active'
  /\ h.do = "list" => fstab' = fstab \cup {h.on}
  /\ h.do = "unlist" => fstab' = fstab \ {h.on}
  /\ h.do = "put_fstab" => fstab' = snaps[h.to].listed
  /\ h.do \notin {"list", "unlist", "put_fstab"} => fstab' = fstab

ConfigEffect(h) ==
  /\ etc'["zram"] = IF h.do = "write_zram" THEN h.to ELSE etc["zram"]
  /\ etc'["sysctl"] = IF h.do = "write_sysctl" THEN h.to ELSE etc["sysctl"]
  /\ h.do \in {"stop_zram", "zram_swapoff"} => live'["zram"] = Off
  /\ h.do = "start_zram" =>
       live'["zram"] = IF etc["zram"] \in Contents THEN etc["zram"] ELSE live["zram"]
  /\ h.do \notin {"stop_zram", "zram_swapoff", "start_zram"} => live'["zram"] = live["zram"]

StepTakes ==
  /\ todo # <<>> /\ Advance /\ HostTyped'
  /\ Head(todo).do = "recreate" => file[Head(todo).on] > 0
  /\ DiskEffect(Head(todo)) /\ SwapsEffect(Head(todo)) /\ ConfigEffect(Head(todo))

\* A step that fails may still leave its staging file, or zram stopped.
StepBreaks ==
  /\ todo # <<>> /\ StepFails /\ UNCHANGED <<swaps, file, header, sparse, born, etc>>
  /\ sibling' \in [Paths -> 0..MaxSize] /\ live' \in [Settings -> Contents \cup {Off}]
  /\ faults' \in 0..MaxFaults

\* The types, variable by variable.
LEMMA TypesOfHost ==
  ASSUME TypeOK
  PROVE  /\ HostTyped /\ Len(snaps) \in Nat
         /\ \A p \in Paths : /\ file[p] \in 0..MaxSize /\ sibling[p] \in 0..MaxSize
                             /\ born[p] \in 0..MaxOps /\ header[p] \in 0..MaxSize
         /\ etc["zram"] \in Contents \cup {Absent, Off} /\ etc["sysctl"] \in Contents \cup {Absent}
         /\ live["zram"] \in Contents \cup {Off} /\ live["sysctl"] \in Contents \cup {Off}
<1>1. Len(snaps) \in Nat
  BY LenProperties DEF TypeOK
<1> QED BY <1>1 DEF TypeOK, HostTyped, Settings

\* Steps that leave a part of the host alone.
LEMMA LeavesDisk ==
  ASSUME NEW h, h.do \notin {"build", "rename", "discard", "unlink", "allocate", "set_len", "mkswap"},
         file' = file, header' = header, sibling' = sibling, born' = born
  PROVE  DiskEffect(h)
<1>1. /\ h.do # "build" /\ h.do # "rename" /\ h.do # "allocate" /\ h.do # "set_len"
  OBVIOUS
<1> QED BY <1>1 DEF DiskEffect

\* Such a step leaves the swap entries and the active files alone.
LEMMA LeavesSwaps ==
  ASSUME NEW h, h.do \notin {"swapoff", "swapoff_now", "list", "unlist", "put_fstab"},
         fstab' = fstab, active' = active
  PROVE  SwapsEffect(h)
<1>1. h.do # "list" /\ h.do # "unlist" /\ h.do # "put_fstab"
  OBVIOUS
<1> QED BY <1>1 DEF SwapsEffect

\* Such a step leaves the drop-ins and the zram device alone.
LEMMA LeavesConfig ==
  ASSUME NEW h, h.do \notin {"write_zram", "write_sysctl", "start_zram", "stop_zram", "zram_swapoff"},
         etc' = etc, live' = live
  PROVE  ConfigEffect(h)
<1>1. h.do # "write_zram" /\ h.do # "write_sysctl" /\ h.do # "start_zram"
  OBVIOUS
<1> QED BY <1>1 DEF ConfigEffect



\* The steps on the files themselves.
LEMMA FileSteps ==
  ASSUME HostInv, Rename \/ Discard \/ Unlink \/ Allocate \/ SetLen \/ Mkswap
  PROVE  StepTakes
<1> DEFINE h == Head(todo)
<1>1. todo # <<>> /\ h.do \in {"rename", "discard", "unlink", "allocate", "set_len", "mkswap"}
  BY DEF Rename, Discard, Unlink, Allocate, SetLen, Mkswap, Doing
<1>2. HostTyped /\ NextStepSafe(h) /\ Len(snaps) \in Nat /\ Len(snaps) <= ops /\ ops \in 0..MaxOps
  BY <1>1, NextStep, TypesOfHost DEF HostInv, BaseInv, TypeOK
<1>3. h.on \in Paths
  BY <1>1, <1>2 DEF NextStepSafe, FileKinds
<1>4. Len(snaps) \in 0..MaxOps /\ MaxSize \in Nat /\ 0 \in 0..MaxSize
  BY <1>2, HostAssumption
<1>5. /\ fstab' = fstab /\ active' = active /\ etc' = etc /\ live' = live /\ faults' = faults
      /\ Advance
  BY DEF Rename, Discard, Unlink, Allocate, SetLen, Mkswap, swaps, config
<1>6. SwapsEffect(h)
  BY <1>1, <1>5, LeavesSwaps
<1>7. ConfigEffect(h)
  BY <1>1, <1>5, LeavesConfig
<1>8. /\ \A p \in Paths : file[p] \in 0..MaxSize /\ sibling[p] \in 0..MaxSize
                         /\ born[p] \in 0..MaxOps /\ header[p] \in 0..MaxSize
      /\ DOMAIN file = Paths /\ DOMAIN header = Paths /\ DOMAIN sibling = Paths /\ DOMAIN born = Paths
  BY <1>2 DEF HostTyped
<1>9. CASE Rename
  <2>1. /\ h.do = "rename"
        /\ file' = [file EXCEPT ![h.on] = sibling[h.on]]
        /\ header' = [header EXCEPT ![h.on] = sibling[h.on]]
        /\ sparse' = sparse \ {h.on} /\ born' = [born EXCEPT ![h.on] = Len(snaps)]
        /\ sibling' = [sibling EXCEPT ![h.on] = 0]
    BY <1>9 DEF Rename, Put, Doing, This
  <2> HIDE DEF h
  <2>2. HostTyped'
    BY <1>2, <1>3, <1>4, <1>5, <1>8, <2>1 DEF HostTyped
  <2>3. DiskEffect(h)
    BY <1>3, <1>8, <2>1 DEF DiskEffect
  <2> QED BY <1>1, <1>5, <1>6, <1>7, <2>2, <2>3 DEF StepTakes, h
<1>10. CASE Discard
  <2>1. /\ h.do = "discard" /\ file' = file /\ header' = header /\ sparse' = sparse
        /\ born' = born /\ sibling' = [sibling EXCEPT ![h.on] = 0]
    BY <1>10 DEF Discard, Doing, This
  <2> HIDE DEF h
  <2>2. HostTyped'
    BY <1>2, <1>3, <1>4, <1>5, <1>8, <2>1 DEF HostTyped
  <2>3. DiskEffect(h)
    BY <1>3, <1>8, <2>1 DEF DiskEffect
  <2> QED BY <1>1, <1>5, <1>6, <1>7, <2>2, <2>3 DEF StepTakes, h
<1>11. CASE Unlink
  <2>1. /\ h.do = "unlink" /\ sibling' = sibling /\ born' = born
        /\ file' = [file EXCEPT ![h.on] = 0] /\ header' = [header EXCEPT ![h.on] = 0]
        /\ sparse' = sparse \ {h.on}
    BY <1>11 DEF Unlink, Doing, This
  <2> HIDE DEF h
  <2>2. HostTyped'
    BY <1>2, <1>3, <1>4, <1>5, <1>8, <2>1 DEF HostTyped
  <2>3. DiskEffect(h)
    BY <1>3, <1>8, <2>1 DEF DiskEffect
  <2> QED BY <1>1, <1>5, <1>6, <1>7, <2>2, <2>3 DEF StepTakes, h
<1>12. CASE Allocate \/ SetLen
  <2>1. /\ h.do \in {"allocate", "set_len"} /\ sibling' = sibling /\ born' = born
        /\ file' = [file EXCEPT ![h.on] = h.to] /\ header' = header
        /\ sparse' \subseteq sparse \cup {h.on}
    BY <1>12 DEF Allocate, SetLen, Doing, This
  <2>2. h.to \in 0..MaxSize
    BY <1>2, <1>4, <2>1 DEF NextStepSafe, Sizes
  <2> HIDE DEF h
  <2>3. HostTyped'
    BY <1>2, <1>3, <1>5, <1>8, <2>1, <2>2 DEF HostTyped
  <2>4. DiskEffect(h)
    BY <1>3, <1>8, <2>1 DEF DiskEffect
  <2> QED BY <1>1, <1>5, <1>6, <1>7, <2>3, <2>4 DEF StepTakes, h
<1>13. CASE Mkswap
  <2>1. /\ h.do = "mkswap" /\ sibling' = sibling /\ born' = born
        /\ file' = file /\ sparse' = sparse /\ header' = [header EXCEPT ![h.on] = file[h.on]]
    BY <1>13 DEF Mkswap, Doing, This
  <2> HIDE DEF h
  <2>2. HostTyped'
    BY <1>2, <1>3, <1>4, <1>5, <1>8, <2>1 DEF HostTyped
  <2>3. DiskEffect(h)
    BY <1>3, <1>8, <2>1 DEF DiskEffect
  <2> QED BY <1>1, <1>5, <1>6, <1>7, <2>2, <2>3 DEF StepTakes, h
<1> QED BY <1>9, <1>10, <1>11, <1>12, <1>13

\* The steps on the swap entries and the active swapfiles.
LEMMA SwapsSteps ==
  ASSUME HostInv, Swapon \/ TrySwapon \/ Swapoff \/ SwapoffNow \/ List \/ Unlist \/ PutFstab
  PROVE  StepTakes \/ StepBreaks
<1> DEFINE h == Head(todo)
<1>1. todo # <<>> /\ h.do \in {"swapon", "try_swapon", "swapoff", "swapoff_now", "list", "unlist", "put_fstab"}
  BY DEF Swapon, TrySwapon, Swapoff, SwapoffNow, List, Unlist, PutFstab, Doing
<1>2. HostTyped /\ NextStepSafe(h) /\ TypeOK
  BY <1>1, NextStep, TypesOfHost DEF HostInv
<1>3. h.do # "put_fstab" => h.on \in Paths
  BY <1>1, <1>2 DEF NextStepSafe, FileKinds
<1>4. \A p \in Paths : Usable(p) => file[p] > 0
  BY <1>2, TypesOfHost DEF Usable
<1>5. /\ file' = file /\ header' = header /\ sparse' = sparse /\ sibling' = sibling /\ born' = born
      /\ etc' = etc /\ live' = live
  BY DEF Swapon, TrySwapon, Swapoff, SwapoffNow, List, Unlist, PutFstab, disk, config
<1>6. DiskEffect(h) /\ ConfigEffect(h)
  BY <1>1, <1>5, LeavesDisk, LeavesConfig
<1>7. ASSUME fstab' \subseteq Paths, active' \subseteq Paths, faults' \in 0..MaxFaults
      PROVE  HostTyped'
  BY <1>2, <1>5, <1>7 DEF HostTyped
<1>8. faults \in 0..MaxFaults /\ (Fault => faults' \in 0..MaxFaults)
  BY <1>2, HostAssumption DEF HostTyped, Fault
<1>9. fstab \subseteq Paths /\ active \subseteq Paths
  BY <1>2 DEF HostTyped
<1>10. ASSUME Advance, SwapsEffect(h), fstab' \subseteq Paths, active' \subseteq Paths, faults' \in 0..MaxFaults
       PROVE  StepTakes
  BY <1>1, <1>6, <1>7, <1>10 DEF StepTakes
<1>11. ASSUME StepFails, UNCHANGED <<active, fstab, faults>>
       PROVE  StepBreaks
  BY <1>1, <1>2, <1>5, <1>11 DEF StepBreaks, HostTyped, swaps
<1>12. CASE Swapon
  <2>1. h.do = "swapon" /\ fstab' = fstab /\ faults' = faults /\ h.on \in Paths
    BY <1>3, <1>12 DEF Swapon, Doing
  <2>2. CASE Usable(h.on)
    <3>1. active' = active \cup {h.on} /\ Advance
      BY <1>12, <2>2 DEF Swapon, This
    <3>2. SwapsEffect(h)
      BY <1>4, <2>1, <2>2, <3>1 DEF SwapsEffect
    <3> QED BY <1>8, <1>9, <1>10, <2>1, <3>1, <3>2
  <2>3. CASE ~Usable(h.on)
    BY <1>11, <1>12, <2>1, <2>3 DEF Swapon, This
  <2> QED BY <2>2, <2>3
<1>13. CASE TrySwapon
  <2>1. h.do = "try_swapon" /\ fstab' = fstab /\ h.on \in Paths /\ Advance
    BY <1>3, <1>13 DEF TrySwapon, Doing
  <2>2. /\ active' = active \/ (active' = active \cup {h.on} /\ Usable(h.on))
        /\ faults' = faults \/ Fault
    BY <1>13 DEF TrySwapon, This
  <2>3. SwapsEffect(h)
    BY <1>4, <2>1, <2>2 DEF SwapsEffect
  <2> QED BY <1>8, <1>9, <1>10, <2>1, <2>2, <2>3
<1>14. CASE Swapoff
  <2>1. /\ h.do = "swapoff" /\ fstab' = fstab /\ faults' = faults /\ Advance
        /\ active' = active \ {h.on}
    BY <1>14 DEF Swapoff, Doing, This
  <2>2. SwapsEffect(h)
    BY <2>1 DEF SwapsEffect
  <2> QED BY <1>8, <1>9, <1>10, <2>1, <2>2
<1>15. CASE SwapoffNow
  <2>1. /\ h.do = "swapoff_now" /\ fstab' = fstab /\ faults' = faults
        /\ \/ Advance /\ active' = active \ {h.on}
           \/ StepFails /\ active' = active
    BY <1>15 DEF SwapoffNow, Doing, This
  <2>2. active' = active \ {h.on} => SwapsEffect(h)
    BY <2>1 DEF SwapsEffect
  <2> QED BY <1>8, <1>9, <1>10, <1>11, <2>1, <2>2
<1>16. CASE List \/ Unlist
  <2>1. /\ h.do \in {"list", "unlist"} /\ active' = active /\ faults' = faults /\ Advance
        /\ h.do = "list" => fstab' = fstab \cup {h.on}
        /\ h.do = "unlist" => fstab' = fstab \ {h.on}
        /\ h.on \in Paths
    BY <1>3, <1>16 DEF List, Unlist, Doing, This
  <2>2. SwapsEffect(h)
    BY <2>1 DEF SwapsEffect
  <2> QED BY <1>8, <1>9, <1>10, <2>1, <2>2
<1>17. CASE PutFstab
  <2>1. /\ h.do = "put_fstab" /\ active' = active /\ faults' = faults /\ Advance
        /\ fstab' = snaps[h.to].listed
    BY <1>17 DEF PutFstab, Doing, This
  <2>2. h.to \in DOMAIN snaps
    BY <1>2, <2>1 DEF NextStepSafe
  <2>3. snaps[h.to].listed \subseteq Paths
    BY <1>2, <2>2, SnapshotType
  <2>4. SwapsEffect(h)
    BY <2>1 DEF SwapsEffect
  <2> QED BY <1>8, <1>9, <1>10, <2>1, <2>3, <2>4
<1> QED BY <1>12, <1>13, <1>14, <1>15, <1>16, <1>17

\* The steps on zram and sysctl, and the staging file.
LEMMA ConfigSteps ==
  ASSUME HostInv, \/ WriteZram \/ WriteSysctl \/ StartZram \/ StopZram
                  \/ LoadSysctl \/ ReloadSysctl
  PROVE  StepTakes \/ StepBreaks
<1> DEFINE h == Head(todo)
<1>1. /\ todo # <<>>
      /\ h.do \in {"write_zram", "write_sysctl", "start_zram", "stop_zram", "zram_swapoff",
                   "load_sysctl", "reload_sysctl"}
  BY DEF WriteZram, WriteSysctl, StartZram, StopZram, LoadSysctl, ReloadSysctl, Doing
<1>2. HostTyped /\ NextStepSafe(h) /\ TypeOK
  BY <1>1, NextStep, TypesOfHost DEF HostInv
<1>3. /\ file' = file /\ header' = header /\ sparse' = sparse /\ sibling' = sibling /\ born' = born
      /\ fstab' = fstab /\ active' = active
  BY DEF WriteZram, WriteSysctl, StartZram, StopZram, LoadSysctl, ReloadSysctl, disk, swaps
<1>4. DiskEffect(h) /\ SwapsEffect(h)
  BY <1>1, <1>3, LeavesDisk, LeavesSwaps
<1>5. faults \in 0..MaxFaults /\ (Fault => faults' \in 0..MaxFaults)
  BY <1>2, HostAssumption DEF HostTyped, Fault
<1>6. ASSUME Advance, ConfigEffect(h), faults' \in 0..MaxFaults,
             etc' \in [zram: Contents \cup {Absent, Off}, sysctl: Contents \cup {Absent}],
             live' \in [Settings -> Contents \cup {Off}]
      PROVE  StepTakes
  <2>1. HostTyped'
    BY <1>2, <1>3, <1>6 DEF HostTyped
  <2> QED BY <1>1, <1>4, <1>6, <2>1 DEF StepTakes
<1>7. ASSUME StepFails, etc' = etc, faults' \in 0..MaxFaults,
             live' \in [Settings -> Contents \cup {Off}]
      PROVE  StepBreaks
  BY <1>1, <1>2, <1>3, <1>7 DEF StepBreaks, HostTyped, swaps
<1>8. /\ etc["zram"] \in Contents \cup {Absent, Off} /\ etc["sysctl"] \in Contents \cup {Absent}
      /\ live \in [Settings -> Contents \cup {Off}] /\ "zram" \in Settings /\ "sysctl" \in Settings
      /\ etc \in [zram: Contents \cup {Absent, Off}, sysctl: Contents \cup {Absent}]
  BY <1>2, TypesOfHost DEF HostTyped, Settings
<1>9. CASE WriteZram
  <2>1. /\ h.do = "write_zram" /\ etc' = [etc EXCEPT !["zram"] = h.to] /\ Advance
        /\ live' = live /\ faults' = faults
    BY <1>9 DEF WriteZram, Doing, This
  <2>2. h.to \in Contents \cup {Absent, Off}
    BY <1>2, <2>1 DEF NextStepSafe
  <2> HIDE DEF h
  <2>3. ConfigEffect(h)
    BY <1>8, <2>1 DEF ConfigEffect
  <2>4. etc' \in [zram: Contents \cup {Absent, Off}, sysctl: Contents \cup {Absent}]
    BY <1>8, <2>1, <2>2
  <2> QED BY <1>5, <1>6, <1>8, <2>1, <2>3, <2>4
<1>10. CASE WriteSysctl
  <2>1. /\ h.do = "write_sysctl" /\ etc' = [etc EXCEPT !["sysctl"] = h.to] /\ Advance
        /\ live' = live /\ faults' = faults
    BY <1>10 DEF WriteSysctl, Doing, This
  <2>2. h.to \in Contents \cup {Absent}
    BY <1>2, <2>1 DEF NextStepSafe
  <2> HIDE DEF h
  <2>3. ConfigEffect(h)
    BY <1>8, <2>1 DEF ConfigEffect
  <2>4. etc' \in [zram: Contents \cup {Absent, Off}, sysctl: Contents \cup {Absent}]
    BY <1>8, <2>1, <2>2
  <2> QED BY <1>5, <1>6, <1>8, <2>1, <2>3, <2>4
<1>11. CASE StartZram
  <2>1. h.do = "start_zram" /\ etc' = etc
    BY <1>11 DEF StartZram, Doing
  <2>2. \/ /\ live' = IF etc["zram"] \in Contents THEN [live EXCEPT !["zram"] = etc["zram"]]
                                                  ELSE live
           /\ Advance /\ faults' = faults
        \/ /\ live' \in {live, [live EXCEPT !["zram"] = Off]}
           /\ Fault /\ StepFails
    BY <1>11 DEF StartZram
  <2> HIDE DEF h
  <2>3. CASE /\ live' = IF etc["zram"] \in Contents THEN [live EXCEPT !["zram"] = etc["zram"]]
                                                    ELSE live
             /\ Advance /\ faults' = faults
    <3>1. live' \in [Settings -> Contents \cup {Off}]
      BY <1>8, <2>3
    <3>2. live'["zram"] = IF etc["zram"] \in Contents THEN etc["zram"] ELSE live["zram"]
      BY <1>8, <2>3
    <3>3. ConfigEffect(h)
      BY <2>1, <3>2 DEF ConfigEffect
    <3> QED BY <1>5, <1>6, <1>8, <2>1, <2>3, <3>1, <3>3
  <2>4. CASE live' \in {live, [live EXCEPT !["zram"] = Off]} /\ Fault /\ StepFails
    <3>1. live' \in [Settings -> Contents \cup {Off}]
      BY <1>8, <2>4
    <3> QED BY <1>5, <1>7, <2>1, <2>4, <3>1
  <2> QED BY <2>2, <2>3, <2>4
<1>12. CASE StopZram
  <2>1. /\ h.do \in {"stop_zram", "zram_swapoff"} /\ etc' = etc /\ Advance /\ faults' = faults
        /\ live' = [live EXCEPT !["zram"] = Off]
    BY <1>12 DEF StopZram, Doing
  <2> HIDE DEF h
  <2>2. live' \in [Settings -> Contents \cup {Off}] /\ live'["zram"] = Off
    BY <1>8, <2>1
  <2>3. ConfigEffect(h)
    BY <2>1, <2>2 DEF ConfigEffect
  <2> QED BY <1>5, <1>6, <1>8, <2>1, <2>2, <2>3
<1>13. CASE LoadSysctl
  <2>1. h.do = "load_sysctl" /\ etc' = etc
    BY <1>13 DEF LoadSysctl, Doing
  <2>2. etc["sysctl"] \in Contents
    BY <1>2, <2>1 DEF NextStepSafe
  <2>3. /\ live' \in {live, [live EXCEPT !["sysctl"] = etc["sysctl"]]}
        /\ \/ Advance /\ faults' = faults
           \/ Fault /\ StepFails
    BY <1>13 DEF LoadSysctl
  <2> HIDE DEF h
  <2>4. live' \in [Settings -> Contents \cup {Off}] /\ live'["zram"] = live["zram"]
    BY <1>8, <2>2, <2>3
  <2>5. ConfigEffect(h)
    BY <2>1, <2>4 DEF ConfigEffect
  <2> QED BY <1>5, <1>6, <1>7, <1>8, <2>1, <2>3, <2>4, <2>5
<1>14. CASE ReloadSysctl
  <2>1. h.do = "reload_sysctl" /\ etc' = etc /\ Advance
    BY <1>14 DEF ReloadSysctl, Doing
  <2>2. /\ \/ live' = live
           \/ etc["sysctl"] # Absent /\ live' = [live EXCEPT !["sysctl"] = etc["sysctl"]]
        /\ faults' = faults \/ Fault
    BY <1>14 DEF ReloadSysctl
  <2> HIDE DEF h
  <2>4. live' \in [Settings -> Contents \cup {Off}] /\ live'["zram"] = live["zram"]
    BY <1>8, <2>2
  <2>5. ConfigEffect(h)
    BY <2>1, <2>4 DEF ConfigEffect
  <2> QED BY <1>5, <1>6, <1>8, <2>1, <2>2, <2>4, <2>5
<1> QED BY <1>9, <1>10, <1>11, <1>12, <1>13, <1>14

\* The staging file, a missing file that is not missing, and every failure.
LEMMA OtherSteps ==
  ASSUME HostInv, \/ Build \/ Break
                  \/ Recreate /\ file[Head(todo).on] > 0
  PROVE  StepTakes \/ StepBreaks
<1> DEFINE h == Head(todo)
<1>1. todo # <<>>
  BY DEF Build, Break, Recreate, Doing
<1>2. HostTyped /\ NextStepSafe(h) /\ MaxSize \in Nat
  BY <1>1, NextStep, TypesOfHost, HostAssumption DEF HostInv
<1>3. faults \in 0..MaxFaults /\ (Fault => faults' \in 0..MaxFaults)
  BY <1>2, HostAssumption DEF HostTyped, Fault
<1>4. CASE Build
  <2>1. /\ h.do = "build" /\ file' = file /\ header' = header /\ sparse' = sparse /\ born' = born
        /\ fstab' = fstab /\ active' = active /\ etc' = etc /\ live' = live
    BY <1>4 DEF Build, Doing, swaps, config
  <2>2. \/ sibling' = [sibling EXCEPT ![h.on] = h.to] /\ Advance /\ faults' = faults
        \/ sibling' = [sibling EXCEPT ![h.on] = 0] /\ Fault /\ StepFails
    BY <1>4 DEF Build, This
  <2>3. h.on \in Paths /\ h.to \in 0..MaxSize
    BY <1>2, <2>1 DEF NextStepSafe, FileKinds, Sizes
  <2> HIDE DEF h
  <2>4. sibling' \in [Paths -> 0..MaxSize]
    BY <1>2, <2>2, <2>3 DEF HostTyped
  <2>5. CASE sibling' = [sibling EXCEPT ![h.on] = h.to] /\ Advance /\ faults' = faults
    <3>1. HostTyped'
      BY <1>2, <1>3, <2>1, <2>4, <2>5 DEF HostTyped
    <3>2. /\ \A p \in Paths : sibling'[p] = sibling[p] \/ p = h.on
          /\ sibling'[h.on] = h.to
      BY <1>2, <2>3, <2>5 DEF HostTyped
    <3>3. DiskEffect(h)
      BY <2>1, <3>2 DEF DiskEffect
    <3>4. SwapsEffect(h) /\ ConfigEffect(h)
      BY <2>1, LeavesSwaps, LeavesConfig
    <3> QED BY <1>1, <2>1, <2>5, <3>1, <3>3, <3>4 DEF StepTakes, h
  <2>6. CASE Fault /\ StepFails
    BY <1>1, <1>2, <1>3, <2>1, <2>4, <2>6 DEF StepBreaks, HostTyped, swaps
  <2> QED BY <2>2, <2>5, <2>6
<1>5. CASE Break
  <2>1. /\ StepFails /\ Fault
        /\ UNCHANGED <<file, header, sparse, sibling, born, fstab, active, etc, live>>
    BY <1>5 DEF Break, disk, swaps, config
  <2> QED BY <1>1, <1>2, <1>3, <2>1 DEF StepBreaks, HostTyped, swaps
<1>6. CASE Recreate /\ file[h.on] > 0
  <2>1. /\ h.do = "recreate" /\ faults' = faults /\ sparse' = sparse
        /\ file' = file /\ header' = header /\ sibling' = sibling /\ born' = born
        /\ fstab' = fstab /\ active' = active /\ etc' = etc /\ live' = live /\ Advance
    BY <1>6 DEF Recreate, Doing, This, disk, swaps, config
  <2>2. DiskEffect(h) /\ SwapsEffect(h) /\ ConfigEffect(h)
    BY <2>1, LeavesDisk, LeavesSwaps, LeavesConfig
  <2>3. HostTyped'
    BY <1>2, <2>1 DEF HostTyped
  <2> QED BY <1>1, <1>6, <2>1, <2>2, <2>3 DEF StepTakes
<1> QED BY <1>4, <1>5, <1>6

-----------------------------------------------------------------------------
(* A step that succeeds keeps the invariant.                               *)

\* Nothing but the host changes and the step is taken off.
LEMMA Advances ==
  ASSUME HostInv, StepTakes
  PROVE  /\ todo' = Tail(todo) /\ job' = job /\ phase' = phase /\ outcome' = outcome
         /\ ops' = ops /\ snaps' = snaps /\ todo # <<>> /\ todo \in Seq(AnyStep)
         /\ phase \in {"work", "restore"} /\ NextStepSafe(Head(todo)) /\ todo' \in Seq(AnyStep)
         /\ \A kind : Has(todo, kind) <=> Head(todo).do = kind \/ Has(todo', kind)
         /\ \A kind, p : HasFor(todo, kind, p) <=>
              (Head(todo).do = kind /\ Head(todo).on = p) \/ HasFor(todo', kind, p)
<1>1. /\ todo' = Tail(todo) /\ job' = job /\ phase' = phase /\ outcome' = outcome
      /\ ops' = ops /\ snaps' = snaps /\ todo # <<>> /\ todo \in Seq(AnyStep)
  BY DEF StepTakes, Advance, control, HostInv, BaseInv
<1>2. Range(todo) = {Head(todo)} \cup Range(todo')
  BY <1>1, NextAndOthers
<1>3. phase \in {"work", "restore"} /\ NextStepSafe(Head(todo)) /\ todo' \in Seq(AnyStep)
  BY <1>1, NextStep
<1> QED BY <1>1, <1>2, <1>3 DEF Has, HasFor

\* A step that succeeds keeps the types, every active file in being and every
\* fstab entry accounted for.
LEMMA BaseAdvances ==
  ASSUME HostInv, StepTakes
  PROVE  TypeOK' /\ BaseInv'
<1> DEFINE h == Head(todo)
<1>1. /\ todo' = Tail(todo) /\ job' = job /\ phase' = phase /\ outcome' = outcome
      /\ ops' = ops /\ snaps' = snaps /\ todo # <<>> /\ todo' \in Seq(AnyStep)
      /\ phase \in {"work", "restore"} /\ NextStepSafe(h)
  BY Advances
<1>2. TypeOK /\ BaseInv /\ HostTyped' /\ DiskEffect(h) /\ SwapsEffect(h)
  BY DEF HostInv, StepTakes
<1>3. TypeOK'
  BY <1>1, <1>2 DEF TypeOK, HostTyped
<1> HIDE DEF h
<1>4. ASSUME NEW p \in active'
      PROVE  file'[p] > 0
  <2>1. p \in Paths
    BY <1>3, <1>4 DEF TypeOK
  <2>2. file[p] > 0
    BY <1>2, <1>4 DEF BaseInv, SwapsEffect
  <2>3. CASE file'[p] = file[p]
    BY <2>2, <2>3
  <2>4. CASE h.do \in {"rename", "unlink", "allocate", "set_len"} /\ p = h.on
    <3>1. p \notin active
      BY <1>1, <2>4 DEF NextStepSafe
    <3>2. h.do \notin {"swapon", "try_swapon"}
      BY <2>4
    <3> QED BY <1>2, <1>4, <3>1, <3>2 DEF SwapsEffect
  <2> QED BY <1>2, <2>1, <2>3, <2>4 DEF DiskEffect
<1>5. ASSUME NEW p \in fstab', NEW k \in DOMAIN snaps
      PROVE  p \in snaps[k].listed \/ Newer(p, k)' \/ Known(p)
  <2>1. p \in Paths /\ k <= Len(snaps)
    BY <1>2, <1>3, <1>5, SnapshotType DEF TypeOK
  <2>2. Newer(p, k) => Newer(p, k)'
    <3>1. CASE born'[p] = born[p]
      BY <3>1 DEF Newer
    <3>2. CASE h.do = "rename" /\ p = h.on
      BY <1>2, <2>1, <3>2 DEF Newer, DiskEffect
    <3> QED BY <1>2, <2>1, <3>1, <3>2 DEF DiskEffect
  <2>3. CASE p \in fstab
    BY <1>2, <2>2, <2>3 DEF BaseInv
  <2>4. CASE h.do = "list" /\ p = h.on
    <3>1. born'[p] = born[p]
      BY <1>2, <2>1, <2>4 DEF DiskEffect
    <3> QED BY <1>1, <2>1, <2>4, <3>1 DEF NextStepSafe, Newer
  <2>5. CASE h.do = "put_fstab" /\ p \in snaps[h.to].listed
    BY <1>1, <2>5 DEF NextStepSafe, Known
  <2> QED BY <1>2, <1>5, <2>3, <2>4, <2>5 DEF SwapsEffect
<1>6. \A p : Known(p)' <=> Known(p)
  BY <1>1 DEF Known
<1>7. \A p \in fstab' : \A k \in DOMAIN snaps' :
        p \in snaps'[k].listed \/ Newer(p, k)' \/ Known(p)'
  BY <1>1, <1>5, <1>6
<1>8. Len(snaps') <= ops' /\ (phase' # "idle" => outcome' = "none" /\ job'.snap \in DOMAIN snaps')
  BY <1>1, <1>2 DEF BaseInv
<1>9. BaseInv'
  BY <1>1, <1>4, <1>7, <1>8 DEF BaseInv
<1> QED BY <1>3, <1>9

\* In an apply or a direct action.
LEMMA WorkAdvances ==
  ASSUME HostInv, StepTakes, phase = "work"
  PROVE  WorkInv'
<1> DEFINE h == Head(todo)
           others == Range(Tail(todo))
<1>1. /\ todo' = Tail(todo) /\ job' = job /\ snaps' = snaps /\ phase' = phase
      /\ todo # <<>> /\ todo' \in Seq(AnyStep) /\ NextStepSafe(h)
      /\ \A kind : Has(todo, kind) <=> h.do = kind \/ Has(todo', kind)
  BY Advances
<1>2. /\ WorkFits(h) /\ Range(todo) = {h} \cup others /\ h \in Range(todo)
      /\ \A s \in others : WorkStage[h.do] + 1 <= WorkStage[s.do] /\ WorkStage[s.do] \in Nat
  BY <1>1, WorkNext
<1>3. WorkShape /\ RenameReady /\ FileIdle /\ RemovalReady /\ ListReady /\ SysctlReady /\ todo \in Seq(AnyStep)
  BY DEF HostInv, WorkInv, BaseInv
<1>4. DiskEffect(h) /\ SwapsEffect(h) /\ ConfigEffect(h)
  BY DEF StepTakes
<1>5. Range(todo') = others
  BY <1>1
<1>6. TypeOK'
  BY BaseAdvances
<1> HIDE DEF h
<1>7. WorkShape'
  <2>1. Ordered(WorkStage, 1, todo')
    BY <1>1, <1>3, OrderedOthers, StagesAreNumbers DEF WorkShape
  <2>2. \A s \in Range(todo') : WorkFits(s)' /\ UndoFits(s)'
    <3> TAKE s \in Range(todo')
    <3>1. WorkFits(s) /\ UndoFits(s)
      BY <1>2, <1>3, <1>5 DEF WorkShape
    <3>2. WorkFits(s)'
      BY <1>1, <3>1 DEF WorkFits, Target
    <3>3. UndoFits(s)'
      BY <1>1, <3>1 DEF UndoFits, Target, SizeBack
    <3> QED BY <3>2, <3>3
  <2> QED BY <2>1, <2>2 DEF WorkShape
<1> HIDE DEF others
<1>8. Target' = Target /\ (h.do \in ChangeKinds \cup FileKinds => h.on = Target /\ Target \in Paths)
  BY <1>1, <1>2 DEF Target, WorkFits
<1>9. \A kind : Has(todo', kind) <=> \E s \in others : s.do = kind
  BY <1>5 DEF Has
<1>10. RenameReady'
  <2> SUFFICES ASSUME Has(todo', "rename"), ~Has(todo', "build")
               PROVE  sibling'[Target] > 0
    BY <1>8 DEF RenameReady
  <2>1. h.do \notin {"rename", "discard"}
    BY <1>2, <1>9, WorkStages
  <2>2. sibling[Target] > 0 \/ h.do = "build"
    BY <1>1, <1>3 DEF RenameReady
  <2>3. CASE h.do = "build"
    <3>1. h.to > 0 /\ sibling'[h.on] = h.to
      BY <1>1, <1>4, <2>3, HostAssumption DEF NextStepSafe, Sizes, DiskEffect
    <3> QED BY <1>8, <2>3, <3>1 DEF FileKinds
  <2>4. CASE h.do # "build"
    <3>1. PICK s \in others : s.do = "rename"
      BY <1>9
    <3>2. s.on = Target /\ Target \in Paths
      BY <1>2, <1>3, <3>1 DEF WorkShape, WorkFits, FileKinds
    <3>3. sibling'[Target] = sibling[Target]
      BY <1>4, <2>1, <2>4, <3>2 DEF DiskEffect
    <3> QED BY <2>2, <2>4, <3>3
  <2> QED BY <2>3, <2>4
<1>11. FileIdle'
  <2> SUFFICES ASSUME NEW s \in others, Touches(s), ~Has(todo', "swapoff")
               PROVE  Target \notin active'
    BY <1>5, <1>8 DEF FileIdle, Touches
  <2>1. h.do \notin {"swapon", "try_swapon"}
    BY <1>2, WorkStages DEF Touches
  <2>2. Target \notin active \/ h.do = "swapoff"
    BY <1>1, <1>2, <1>3 DEF FileIdle
  <2> QED BY <1>4, <1>8, <2>1, <2>2 DEF SwapsEffect, FileKinds
<1>12. RemovalReady'
  <2> SUFFICES ASSUME Has(todo', "unlink")
               PROVE  /\ job.change.swap.do = "remove"
                      /\ Target \notin fstab' \/ Has(todo', "unlist")
    <3>1. job' = job /\ Target' = Target
      BY <1>1, <1>8
    <3> QED BY <3>1 DEF RemovalReady
  <2>1. /\ job.change.swap.do = "remove"
        /\ Target \notin fstab \/ h.do = "unlist" \/ Has(todo', "unlist")
    BY <1>1, <1>3 DEF RemovalReady
  <2>2. h.do \notin {"list", "put_fstab"}
    <3>1. h.do # "list"
      BY <1>2, <1>9, WorkStages
    <3>2. h.do # "put_fstab"
      BY <1>2 DEF WorkFits, WorkKinds, ChangeKinds, FileKinds
    <3> QED BY <3>1, <3>2
  <2>3. h.do = "unlist" => h.on = Target /\ fstab' = fstab \ {h.on}
    BY <1>4, <1>8 DEF SwapsEffect, FileKinds
  <2>4. h.do # "unlist" => fstab' = fstab
    BY <1>4, <2>2 DEF SwapsEffect
  <2> QED BY <2>1, <2>3, <2>4
<1>13. ListReady'
  <2> SUFFICES ASSUME Has(todo', "list")
               PROVE  /\ job.change.swap.do = "create"
                      /\ \/ Has(todo', "rename")
                         \/ file'[Target] > 0 /\ born'[Target] = Len(snaps)
    <3>1. job' = job /\ Target' = Target /\ snaps' = snaps
      BY <1>1, <1>8
    <3> QED BY <3>1 DEF ListReady
  <2>1. /\ job.change.swap.do = "create"
        /\ \/ h.do = "rename" \/ Has(todo', "rename")
           \/ file[Target] > 0 /\ born[Target] = Len(snaps)
    BY <1>1, <1>3 DEF ListReady
  <2>2. PICK s \in others : s.do = "list"
    BY <1>9
  <2>3. s.on = Target /\ Target \in Paths
    BY <1>2, <1>3, <2>2 DEF WorkShape, WorkFits, FileKinds
  <2>4. CASE h.do = "rename"
    <3>1. h.on = Target /\ sibling[h.on] > 0
      BY <1>1, <1>8, <2>4 DEF NextStepSafe, FileKinds
    <3>2. file'[h.on] = sibling[h.on] /\ born'[h.on] = Len(snaps)
      BY <1>4, <2>4 DEF DiskEffect
    <3> QED BY <2>1, <3>1, <3>2
  <2>5. CASE h.do # "rename"
    <3>1. born'[Target] = born[Target]
      BY <1>4, <2>3, <2>5 DEF DiskEffect
    <3>2. h.do # "unlink"
      BY <1>1, <2>1 DEF NextStepSafe
    <3>3. CASE h.do \in {"allocate", "set_len"}
      <4>1. h.to > 0 /\ file'[h.on] = h.to /\ h.on = Target
        BY <1>1, <1>4, <1>8, <3>3, HostAssumption DEF NextStepSafe, Sizes, DiskEffect, FileKinds
      <4> QED BY <2>1, <2>5, <3>1, <4>1
    <3>4. CASE h.do \notin {"allocate", "set_len"}
      <4>1. file'[Target] = file[Target]
        BY <1>4, <2>3, <2>5, <3>2, <3>4 DEF DiskEffect
      <4> QED BY <2>1, <2>5, <3>1, <4>1
    <3> QED BY <3>3, <3>4
  <2> QED BY <2>4, <2>5
<1>14. SysctlReady'
  <2> SUFFICES ASSUME Has(todo', "load_sysctl"), ~Has(todo', "write_sysctl")
               PROVE  etc'["sysctl"] \in Contents
    BY DEF SysctlReady
  <2>1. etc["sysctl"] \in Contents \/ h.do = "write_sysctl"
    BY <1>1, <1>3 DEF SysctlReady
  <2>2. h.do = "write_sysctl" => h.to \in Contents
    BY <1>2 DEF WorkFits
  <2> QED BY <1>4, <2>1, <2>2 DEF ConfigEffect
<1> QED BY <1>7, <1>10, <1>11, <1>12, <1>13, <1>14 DEF WorkInv

\* In a restore.
LEMMA RestoreAdvances ==
  ASSUME HostInv, StepTakes, phase = "restore"
  PROVE  RestoreInv'
<1> DEFINE h == Head(todo)
           k == job.snap
           others == Range(Tail(todo))
<1>1. /\ todo' = Tail(todo) /\ job' = job /\ snaps' = snaps /\ phase' = phase
      /\ todo # <<>> /\ todo' \in Seq(AnyStep) /\ NextStepSafe(h) /\ todo \in Seq(AnyStep)
      /\ \A kind : Has(todo, kind) <=> h.do = kind \/ Has(todo', kind)
      /\ \A kind, p : HasFor(todo, kind, p) <=> (h.do = kind /\ h.on = p) \/ HasFor(todo', kind, p)
  BY Advances
<1>2. /\ RestoreFits(h, k) /\ Range(todo) = {h} \cup others /\ h \in Range(todo)
      /\ \A s \in others : RestoreStage[h.do] <= RestoreStage[s.do]
  BY <1>1, RestoreNext
<1>3. /\ RestoreShape /\ RebuildNext /\ FilesBack /\ ZramBack /\ OthersOff /\ TypeOK
      /\ k \in DOMAIN snaps
  BY DEF HostInv, RestoreInv, BaseInv
<1>4. /\ DiskEffect(h) /\ SwapsEffect(h) /\ ConfigEffect(h)
      /\ h.do = "recreate" => file[h.on] > 0
  BY DEF StepTakes
<1>5. Range(todo') = others
  BY <1>1
<1>6. TypeOK'
  BY BaseAdvances
<1>7. /\ snaps[k].listed \in SUBSET Paths
      /\ snaps[k].etc["zram"] \in Contents \cup {Absent, Off}
  BY <1>3, SnapshotType
<1>8. job'.snap = k
  BY <1>1
<1>9. /\ DOMAIN todo = 1..Len(todo) /\ Len(todo) \in Nat \ {0} /\ h = todo[1]
      /\ DOMAIN todo' = 1..(Len(todo) - 1)
      /\ \A i \in 1..(Len(todo) - 1) : todo'[i] = todo[i + 1] /\ i + 1 \in 1..Len(todo)
  BY <1>1, NextAndOthers
<1>10. RestoreShape'
  <2>1. Ordered(RestoreStage, 0, todo')
    BY <1>1, <1>3, OrderedOthers, StagesAreNumbers DEF RestoreShape
  <2>2. \A s \in Range(todo') : RestoreFits(s, job.snap)'
    <3> TAKE s \in Range(todo')
    <3>1. RestoreFits(s, job.snap)
      BY <1>2, <1>3, <1>5 DEF RestoreShape
    <3>2. s.do = "unlink" => s.on \in Paths /\ Deletable(s.on, k)
      BY <3>1 DEF RestoreFits
    <3>3. s.do = "unlink" => born'[s.on] = born[s.on]
      <4>1. s.do = "unlink" => h.do # "rename"
        BY <1>2, <1>5, RestoreStages
      <4> QED BY <1>4, <3>2, <4>1 DEF DiskEffect
    <3>4. s.do = "unlink" => Deletable(s.on, job.snap)'
      BY <1>1, <3>2, <3>3 DEF Deletable, Newer, SameAge, Known
    <3> QED BY <1>1, <3>1, <3>4 DEF RestoreFits
  <2> QED BY <2>1, <2>2 DEF RestoreShape
<1> HIDE DEF h, others, k
<1>11. \A kind : Has(todo', kind) <=> \E s \in others : s.do = kind
  BY <1>5 DEF Has
<1>12. RebuildNext'
  <2> SUFFICES ASSUME NEW i \in DOMAIN todo'
               PROVE  /\ todo'[i].do # "build"
                      /\ todo'[i].do = "rename" => /\ file'[todo'[i].on] = 0
                                                   /\ i = 1 /\ sibling'[todo'[i].on] > 0
    BY DEF RebuildNext
  <2>1. todo'[i] = todo[i + 1] /\ i + 1 \in DOMAIN todo /\ i \in Nat /\ i >= 1
    BY <1>9
  <2>2. todo'[i].do # "build"
    BY <1>3, <2>1 DEF RebuildNext
  <2>3. ASSUME todo'[i].do = "rename"
        PROVE  file'[todo'[i].on] = 0 /\ i = 1 /\ sibling'[todo'[i].on] > 0
    <3> DEFINE p == todo'[i].on
    <3>1. file[p] = 0 /\ i + 1 = 2 /\ h.do = "build"
      BY <1>3, <1>9, <2>1, <2>3 DEF RebuildNext
    <3>2. i = 1 /\ 1 \in DOMAIN todo
      BY <1>9, <2>1, <3>1
    <3>3. p = h.on
      BY <1>3, <1>9, <2>1, <3>1, <3>2 DEF RebuildNext
    <3>4. h.to > 0 /\ sibling'[h.on] = h.to /\ h.on \in Paths
      BY <1>1, <1>4, <3>1, HostAssumption DEF NextStepSafe, Sizes, DiskEffect, FileKinds
    <3>5. file'[h.on] = file[h.on]
      BY <1>4, <3>1, <3>4 DEF DiskEffect
    <3> QED BY <3>1, <3>2, <3>3, <3>4, <3>5
  <2> QED BY <2>2, <2>3
<1>13. FilesBack'
  <2>1. etc'["zram"] = snaps[k].etc["zram"] \/ Has(todo', "write_zram")
    BY <1>1, <1>2, <1>3, <1>4 DEF FilesBack, ConfigEffect, RestoreFits, k
  <2>2. etc'["sysctl"] = snaps[k].etc["sysctl"] \/ Has(todo', "write_sysctl")
    BY <1>1, <1>2, <1>3, <1>4 DEF FilesBack, ConfigEffect, RestoreFits, k
  <2>3. fstab' = snaps[k].listed \/ Has(todo', "put_fstab")
    <3>1. h.do \notin {"list", "unlist"}
      BY <1>2 DEF RestoreFits, RestoreKinds
    <3>2. h.do = "put_fstab" => fstab' = snaps[k].listed
      BY <1>2, <1>4 DEF SwapsEffect, RestoreFits
    <3>3. h.do # "put_fstab" => fstab' = fstab
      BY <1>4, <3>1 DEF SwapsEffect
    <3> QED BY <1>1, <1>3, <3>2, <3>3 DEF FilesBack, k
  <2>4. ASSUME NEW p \in snaps[k].listed
        PROVE  file'[p] > 0 \/ HasFor(todo', "recreate", p) \/ HasFor(todo', "rename", p)
    <3>1. p \in Paths
      BY <1>7
    <3>2. CASE h.do = "rename" /\ h.on = p
      BY <1>1, <1>4, <3>2 DEF NextStepSafe, DiskEffect
    <3>3. CASE ~(h.do = "rename" /\ h.on = p)
      <4>1. h.do # "allocate" /\ h.do # "set_len" /\ (h.do = "unlink" => h.on # p)
        BY <1>2 DEF RestoreFits, RestoreKinds
      <4>2. file'[p] = file[p]
        BY <1>4, <3>1, <3>3, <4>1 DEF DiskEffect
      <4>3. file[p] > 0 \/ HasFor(todo, "recreate", p) \/ HasFor(todo, "rename", p)
        BY <1>3 DEF FilesBack, k
      <4> QED BY <1>1, <1>4, <3>3, <4>2, <4>3
    <3> QED BY <3>2, <3>3
  <2> QED BY <1>1, <1>8, <2>1, <2>2, <2>3, <2>4 DEF FilesBack
<1>14. ZramBack'
  <2> DEFINE goal == Goal(k)
  <2>0. goal = IF snaps[k].etc["zram"] \in Contents THEN snaps[k].etc["zram"] ELSE Off
    BY DEF Goal
  <2>00. Goal(job.snap)' = goal
    BY <1>1 DEF Goal, k
  <2>1. /\ live["zram"] = goal \/ Restarts(todo)
        /\ live["zram"] \in {Off, goal} \/ Has(todo, "zram_swapoff")
        /\ Has(todo, "zram_swapoff") => Restarts(todo)
    BY <1>3 DEF ZramBack, k
  <2> HIDE DEF goal
  <2>2. Restarts(todo) <=> h.do \in {"start_zram", "stop_zram"} \/ Restarts(todo')
    BY <1>1 DEF Restarts
  <2>3. CASE h.do \in {"start_zram", "stop_zram"}
    <3>1. ~Has(todo', "zram_swapoff") /\ ~Has(todo', "write_zram")
      BY <1>2, <1>11, <2>3, RestoreStages
    <3>2. ~Has(todo, "zram_swapoff") /\ ~Has(todo, "write_zram")
      BY <1>1, <2>3, <3>1
    <3>3. etc["zram"] = snaps[k].etc["zram"] /\ live["zram"] \in {Off, goal}
      BY <1>3, <2>1, <3>2 DEF FilesBack, k
    <3>4. live'["zram"] = goal
      <4>1. CASE h.do = "start_zram"
        <5>1. live'["zram"] = IF etc["zram"] \in Contents THEN etc["zram"] ELSE live["zram"]
          BY <1>4, <4>1 DEF ConfigEffect
        <5> QED BY <2>0, <3>3, <5>1
      <4>2. CASE h.do = "stop_zram"
        <5>1. live'["zram"] = Off /\ snaps[k].etc["zram"] = Absent
          BY <1>2, <1>4, <4>2 DEF ConfigEffect, RestoreFits
        <5> QED BY <2>0, <5>1, HostAssumption
      <4> QED BY <2>3, <4>1, <4>2
    <3> QED BY <2>00, <3>1, <3>4 DEF ZramBack
  <2>4. CASE h.do = "zram_swapoff"
    <3>1. live'["zram"] = Off /\ Restarts(todo')
      BY <1>1, <1>4, <2>1, <2>2, <2>4 DEF ConfigEffect
    <3> QED BY <2>00, <3>1 DEF ZramBack
  <2>5. CASE h.do \notin {"start_zram", "stop_zram", "zram_swapoff"}
    <3>1. live'["zram"] = live["zram"]
      BY <1>4, <2>5 DEF ConfigEffect
    <3>2. Has(todo, "zram_swapoff") <=> Has(todo', "zram_swapoff")
      BY <1>1, <2>5
    <3> QED BY <2>00, <2>1, <2>2, <2>5, <3>1, <3>2 DEF ZramBack
  <2> QED BY <2>3, <2>4, <2>5
<1>15. OthersOff'
  <2>1. ASSUME NEW p \in active', p \notin active
        PROVE  p \in snaps[k].listed /\ h.do = "try_swapon"
    <3>1. h.do \in {"swapon", "try_swapon"} /\ p = h.on
      BY <1>4, <2>1 DEF SwapsEffect
    <3> QED BY <1>2, <3>1 DEF RestoreFits, RestoreKinds
  <2>2. ASSUME NEW p \in active'
        PROVE  p \in snaps[k].listed \/ ~Newer(p, k)' \/ HasFor(todo', "swapoff", p)
    <3>1. CASE p \in active
      <4>1. p \in snaps[k].listed \/ ~Newer(p, k) \/ HasFor(todo, "swapoff", p)
        BY <1>3, <3>1 DEF OthersOff, k
      <4>2. HasFor(todo, "swapoff", p) => HasFor(todo', "swapoff", p)
        BY <1>1, <1>4, <2>2 DEF SwapsEffect
      <4>3. ~Newer(p, k) => p \in snaps[k].listed \/ ~Newer(p, k)'
        <5>1. p \in Paths
          BY <1>6, <2>2 DEF TypeOK
        <5>2. CASE h.do = "rename" /\ p = h.on
          BY <1>2, <5>2 DEF RestoreFits
        <5>3. CASE born'[p] = born[p]
          <6>1. k' = k
            BY <1>1 DEF k
          <6> QED BY <5>3, <6>1 DEF Newer
        <5> QED BY <1>4, <5>1, <5>2, <5>3 DEF DiskEffect
      <4> QED BY <4>1, <4>2, <4>3
    <3>2. CASE p \notin active
      BY <2>1, <2>2, <3>2
    <3> QED BY <3>1, <3>2
  <2>3. ASSUME NEW p \in active', HasFor(todo', "unlink", p)
        PROVE  HasFor(todo', "swapoff", p)
    <3>1. Has(todo', "unlink")
      BY <2>3 DEF Has, HasFor
    <3>2. h.do # "try_swapon"
      BY <1>2, <1>11, <3>1, RestoreStages
    <3>3. p \in active
      BY <2>1, <2>3, <3>2
    <3>4. HasFor(todo, "swapoff", p)
      BY <1>1, <1>3, <2>3, <3>3 DEF OthersOff
    <3> QED BY <1>1, <1>4, <2>3, <3>4 DEF SwapsEffect
  <2> QED BY <1>1, <1>8, <2>2, <2>3 DEF OthersOff, k
<1> QED BY <1>10, <1>12, <1>13, <1>14, <1>15 DEF RestoreInv

-----------------------------------------------------------------------------
(* A step that turns into others.                                          *)

\* A step that fails keeps the invariant.
LEMMA Breaks ==
  ASSUME HostInv, StepBreaks
  PROVE  HostInv'
<1>1. todo # <<>> /\ phase # "idle"
  BY NextStep DEF StepBreaks
<1> QED BY <1>1, StepFailing DEF StepBreaks

\* The steps of the change of a swapfile may stand for it.
PlanFits(plan) ==
  /\ plan \in Seq(AnyStep) /\ Ordered(WorkStage, 1, plan)
  /\ \A s \in Range(plan) : WorkFits(s) /\ UndoFits(s) /\ WorkStage[s.do] <= 10
  /\ Has(plan, "rename") => Has(plan, "build")
  /\ (\E s \in Range(plan) : Touches(s)) => Target \notin active \/ Has(plan, "swapoff")
  /\ Has(plan, "unlink") => job.change.swap.do = "remove" /\ Has(plan, "unlist")
  /\ Has(plan, "list") => job.change.swap.do = "create" /\ Has(plan, "rename")

\* A change that turns into its steps keeps the invariant.
LEMMA ChangeExpands ==
  ASSUME HostInv, todo # <<>>, Head(todo).do \in ChangeKinds, NEW plan, PlanFits(plan),
         todo' = plan \o Tail(todo), UNCHANGED <<disk, swaps, config, control, faults>>
  PROVE  HostInv'
<1> DEFINE h == Head(todo)
           rest == Tail(todo)
<1>1. /\ file' = file /\ header' = header /\ sparse' = sparse /\ sibling' = sibling /\ born' = born
      /\ fstab' = fstab /\ active' = active /\ etc' = etc /\ live' = live /\ job' = job
      /\ phase' = phase /\ outcome' = outcome /\ ops' = ops /\ snaps' = snaps /\ faults' = faults
  BY DEF disk, swaps, config, control
<1>2. phase = "work" /\ todo \in Seq(AnyStep) /\ rest \in Seq(AnyStep)
  BY NextStep, NextAndOthers DEF NextStepSafe, HostInv, BaseInv
<1>3. /\ Range(todo) = {h} \cup Range(rest)
      /\ \A s \in Range(rest) : WorkStage[h.do] + 1 <= WorkStage[s.do] /\ WorkStage[s.do] \in Nat
  BY <1>2, WorkNext
<1>4. WorkShape /\ SysctlReady /\ TypeOK /\ BaseInv
  BY <1>2 DEF HostInv, WorkInv
<1> HIDE DEF h, rest
<1>5. \A s \in Range(rest) : 11 <= WorkStage[s.do] /\ WorkStage[s.do] \in Nat
  BY <1>3, WorkStages DEF ChangeKinds, h
<1>6. Ordered(WorkStage, 1, rest)
  BY <1>2, <1>4, OrderedOthers, StagesAreNumbers DEF WorkShape, rest
<1>7. /\ plan \in Seq(AnyStep) /\ Ordered(WorkStage, 1, plan)
      /\ \A s \in Range(plan) : WorkFits(s) /\ UndoFits(s) /\ WorkStage[s.do] <= 10
  BY DEF PlanFits
<1>8. /\ todo' \in Seq(AnyStep) /\ Range(todo') = Range(plan) \cup Range(rest)
      /\ Ordered(WorkStage, 1, todo')
  <2>1. \A s \in Range(plan), t \in Range(rest) : WorkStage[s.do] + 1 <= WorkStage[t.do]
    <3> TAKE s \in Range(plan), t \in Range(rest)
    <3>1. WorkStage[s.do] \in Nat
      <4>1. s \in AnyStep
        BY <1>7, RangeOfSeq
      <4> QED BY <4>1, StagesAreNumbers DEF AnyStep
    <3> QED BY <1>5, <1>7, <3>1
  <2>2. todo' = plan \o rest
    BY DEF rest
  <2>3. /\ plan \o rest \in Seq(AnyStep) /\ Range(plan \o rest) = Range(plan) \cup Range(rest)
        /\ Ordered(WorkStage, 1, plan \o rest)
    BY <1>2, <1>6, <1>7, <2>1, OrderedConcat, StagesAreNumbers
  <2> QED BY <2>2, <2>3
<1>9. \A s \in Range(todo') : WorkFits(s) /\ UndoFits(s)
  BY <1>3, <1>4, <1>7, <1>8 DEF WorkShape
<1>10. \A kind : Has(todo', kind) <=> Has(plan, kind) \/ Has(rest, kind)
  BY <1>8 DEF Has
<1>11. /\ ~Has(rest, "rename") /\ ~Has(rest, "unlink") /\ ~Has(rest, "list")
       /\ \A s \in Range(rest) : ~Touches(s)
  BY <1>5, WorkStages DEF Has, Touches
<1>12. ~Has(plan, "load_sysctl")
  BY <1>7, WorkStages DEF Has
<1>13. Target' = Target
  BY <1>1 DEF Target
<1>14. WorkShape'
  <2>1. \A s \in Range(todo') : WorkFits(s)' /\ UndoFits(s)'
    <3> TAKE s \in Range(todo')
    <3>1. WorkFits(s) /\ UndoFits(s)
      BY <1>9
    <3>2. WorkFits(s)'
      BY <1>1, <1>13, <3>1 DEF WorkFits
    <3>3. UndoFits(s)'
      BY <1>1, <1>13, <3>1 DEF UndoFits, SizeBack
    <3> QED BY <3>2, <3>3
  <2> QED BY <1>8, <2>1 DEF WorkShape
<1>15. RenameReady'
  BY <1>10, <1>11 DEF RenameReady, PlanFits
<1>16. FileIdle'
  <2>1. \A s : Touches(s)' <=> Touches(s)
    BY DEF Touches
  <2>2. (\E s \in Range(todo') : Touches(s)) => Target \notin active \/ Has(todo', "swapoff")
    BY <1>8, <1>10, <1>11 DEF PlanFits
  <2> QED BY <1>1, <1>13, <2>1, <2>2 DEF FileIdle
<1>17. RemovalReady'
  <2>1. Has(todo', "unlink") => job.change.swap.do = "remove" /\ Has(todo', "unlist")
    BY <1>10, <1>11 DEF PlanFits
  <2> QED BY <1>1, <2>1 DEF RemovalReady
<1>18. ListReady'
  <2>1. Has(todo', "list") => job.change.swap.do = "create" /\ Has(todo', "rename")
    BY <1>10, <1>11 DEF PlanFits
  <2> QED BY <1>1, <2>1 DEF ListReady
<1>19. SysctlReady'
  <2>1. Has(rest, "load_sysctl") => Has(todo, "load_sysctl")
    BY <1>3 DEF Has
  <2>2. Has(todo, "write_sysctl") => Has(rest, "write_sysctl")
    BY <1>3 DEF Has, ChangeKinds, h
  <2>3. Has(todo', "load_sysctl") => etc["sysctl"] \in Contents \/ Has(todo', "write_sysctl")
    BY <1>4, <1>10, <1>12, <2>1, <2>2 DEF SysctlReady
  <2> QED BY <1>1, <2>3 DEF SysctlReady
<1>20. WorkInv'
  BY <1>14, <1>15, <1>16, <1>17, <1>18, <1>19 DEF WorkInv
<1>21. TypeOK'
  BY <1>1, <1>2, <1>4 DEF TypeOK
<1>22. BaseInv'
  <2>1. \A q, k : (Newer(q, k)' <=> Newer(q, k)) /\ (Known(q)' <=> Known(q))
    BY <1>1 DEF Newer, Known
  <2> QED BY <1>1, <1>4, <1>8, <2>1 DEF BaseInv
<1> QED BY <1>1, <1>2, <1>20, <1>21, <1>22 DEF HostInv

\* A missing swapfile of the snapshot is built anew.
LEMMA RebuildExpands ==
  ASSUME HostInv, Recreate, file[Head(todo).on] = 0, snaps[Head(todo).to].size[Head(todo).on] # 0
  PROVE  HostInv'
<1> DEFINE h == Head(todo)
           rest == Tail(todo)
           k == job.snap
           p == h.on
           n == snaps[k].size[p]
           b == Step("build", p, n)
           r == Step("rename", p, 0)
<1>1. /\ file' = file /\ header' = header /\ sparse' = sparse /\ sibling' = sibling /\ born' = born
      /\ fstab' = fstab /\ active' = active /\ etc' = etc /\ live' = live /\ job' = job
      /\ phase' = phase /\ outcome' = outcome /\ ops' = ops /\ snaps' = snaps /\ faults' = faults
      /\ todo # <<>> /\ h.do = "recreate"
      /\ todo' = <<Step("build", p, snaps[h.to].size[p]), r>> \o rest
  BY DEF Recreate, Doing, This, disk, swaps, config, control
<1>2. phase = "restore" /\ todo \in Seq(AnyStep) /\ rest \in Seq(AnyStep)
  BY <1>1, NextStep, NextAndOthers DEF NextStepSafe, HostInv, BaseInv
<1>3. /\ RestoreFits(h, k) /\ Range(todo) = {h} \cup Range(rest)
      /\ \A s \in Range(rest) : RestoreStage[h.do] <= RestoreStage[s.do]
  BY <1>1, <1>2, RestoreNext
<1>4. /\ RestoreShape /\ RebuildNext /\ FilesBack /\ ZramBack /\ OthersOff /\ TypeOK /\ BaseInv
      /\ k \in DOMAIN snaps
  BY <1>2 DEF HostInv, RestoreInv, BaseInv
<1>5. h.to = k /\ p \in snaps[k].listed /\ p \in Paths /\ n \in Sizes /\ file[p] = 0
  <2>1. h.to = k /\ p \in snaps[k].listed
    BY <1>1, <1>3 DEF RestoreFits
  <2>2. snaps[k].listed \in SUBSET Paths /\ snaps[k].size \in [Paths -> 0..MaxSize]
    BY <1>4, SnapshotType
  <2>3. n \in 0..MaxSize /\ n # 0
    BY <2>1, <2>2
  <2> QED BY <2>1, <2>2, <2>3, HostAssumption DEF Sizes
<1>6. /\ b \in AnyStep /\ b.do = "build" /\ b.on = p /\ b.to = n /\ b.undo = <<>>
      /\ r \in AnyStep /\ r.do = "rename" /\ r.on = p /\ r.undo = <<>>
  <2>1. "build" \in Kinds /\ "rename" \in Kinds /\ p \in Places /\ n \in Arguments /\ 0 \in Arguments
    BY <1>5, HostAssumption DEF Kinds, RestoreKinds, Places, Arguments, Sizes
  <2>2. b \in AnyStep /\ b.do = "build" /\ b.on = p /\ b.to = n /\ b.undo = <<>>
    BY <2>1, StepType
  <2>3. r \in AnyStep /\ r.do = "rename" /\ r.on = p /\ r.undo = <<>>
    BY <2>1, StepType
  <2> QED BY <2>2, <2>3
<1>7. todo' = <<b, r>> \o rest
  BY <1>1, <1>5
<1>8. /\ DOMAIN todo = 1..Len(todo) /\ Len(todo) \in Nat \ {0} /\ h = todo[1]
      /\ Len(rest) = Len(todo) - 1
      /\ \A i \in 1..(Len(todo) - 1) : rest[i] = todo[i + 1] /\ i + 1 \in 1..Len(todo)
  <2>1. DOMAIN rest = 1..(Len(todo) - 1) /\ Len(rest) \in Nat /\ DOMAIN rest = 1..Len(rest)
    BY <1>1, <1>2, NextAndOthers, LenProperties
  <2>2. Len(todo) \in Nat \ {0}
    BY <1>1, <1>2, NextAndOthers
  <2>3. Len(rest) = Len(todo) - 1
    BY <1>1, <1>2, HeadTailProperties
  <2> QED BY <1>1, <1>2, <2>3, NextAndOthers
<1> HIDE DEF h, rest, k, p, n, b, r
<1>9. /\ <<b, r>> \in Seq(AnyStep) /\ Range(<<b, r>>) = {b, r}
      /\ Ordered(RestoreStage, 0, <<b, r>>)
  <2>1. RestoreStage[b.do] + 0 <= RestoreStage[r.do]
    BY <1>6, RestoreStages
  <2> QED BY <1>6, <2>1, TwoSteps, StagesAreNumbers
<1>10. Ordered(RestoreStage, 0, rest)
  BY <1>1, <1>2, <1>4, OrderedOthers, StagesAreNumbers DEF RestoreShape, rest
<1>11. /\ todo' \in Seq(AnyStep) /\ Range(todo') = {b, r} \cup Range(rest)
       /\ Ordered(RestoreStage, 0, todo')
  <2>1. \A s \in Range(<<b, r>>), t \in Range(rest) : RestoreStage[s.do] + 0 <= RestoreStage[t.do]
    <3> TAKE s \in Range(<<b, r>>), t \in Range(rest)
    <3>1. RestoreStage[s.do] = 7 /\ RestoreStage[h.do] = 7
      BY <1>1, <1>6, <1>9, RestoreStages
    <3>2. t \in AnyStep
      BY <1>2, RangeOfSeq
    <3>3. RestoreStage[t.do] \in Nat
      BY <3>2, StagesAreNumbers DEF AnyStep
    <3> QED BY <1>3, <3>1, <3>3
  <2> DEFINE two == <<b, r>>
  <2>2. /\ two \in Seq(AnyStep) /\ Range(two) = {b, r} /\ Ordered(RestoreStage, 0, two)
        /\ \A s \in Range(two), t \in Range(rest) : RestoreStage[s.do] + 0 <= RestoreStage[t.do]
    BY <1>9, <2>1
  <2>3. todo' = two \o rest
    BY <1>7
  <2> HIDE DEF two
  <2> DEFINE R == RestoreStage
  <2>4. R \in [Kinds -> Nat] /\ 0 \in Nat /\ rest \in Seq(AnyStep) /\ Ordered(R, 0, rest)
    BY <1>2, <1>10, StagesAreNumbers
  <2>5. /\ two \in Seq(AnyStep) /\ Ordered(R, 0, two)
        /\ \A s \in Range(two), t \in Range(rest) : R[s.do] + 0 <= R[t.do]
    BY <2>2
  <2> HIDE DEF R
  <2>6. /\ two \o rest \in Seq(AnyStep) /\ Range(two \o rest) = Range(two) \cup Range(rest)
        /\ Ordered(R, 0, two \o rest)
    BY <2>4, <2>5, OrderedConcat
  <2> QED BY <2>2, <2>3, <2>6 DEF R
<1>12. /\ \A kind : Has(todo', kind) <=> kind \in {"build", "rename"} \/ Has(rest, kind)
       /\ \A kind, q : HasFor(todo', kind, q) <=>
            (kind \in {"build", "rename"} /\ q = p) \/ HasFor(rest, kind, q)
       /\ \A kind : Has(todo, kind) <=> kind = "recreate" \/ Has(rest, kind)
       /\ \A kind, q : HasFor(todo, kind, q) <=>
            (kind = "recreate" /\ q = p) \/ HasFor(rest, kind, q)
  <2>1. \A kind : Has(todo', kind) <=> kind \in {"build", "rename"} \/ Has(rest, kind)
    BY <1>6, <1>11 DEF Has
  <2>2. \A kind, q : HasFor(todo', kind, q) <=>
            (kind \in {"build", "rename"} /\ q = p) \/ HasFor(rest, kind, q)
    BY <1>6, <1>11 DEF HasFor
  <2>3. \A kind : Has(todo, kind) <=> kind = "recreate" \/ Has(rest, kind)
    BY <1>1, <1>3 DEF Has
  <2>4. \A kind, q : HasFor(todo, kind, q) <=>
            (kind = "recreate" /\ q = p) \/ HasFor(rest, kind, q)
    BY <1>1, <1>3 DEF HasFor, p
  <2> QED BY <2>1, <2>2, <2>3, <2>4
<1>13. /\ job'.snap = k /\ \A q, j : (Newer(q, j)' <=> Newer(q, j)) /\ (Known(q)' <=> Known(q))
       /\ \A q, j : Deletable(q, j)' <=> Deletable(q, j)
  BY <1>1 DEF Newer, SameAge, Known, Deletable, k
<1>14. RestoreShape'
  <2>1. \A s \in Range(todo') : RestoreFits(s, job.snap)'
    <3> TAKE s \in Range(todo')
    <3>1. RestoreFits(s, k)
      <4>1. CASE s \in Range(rest)
        BY <1>3, <1>4, <4>1 DEF RestoreShape, k
      <4>2. CASE s \in {b, r}
        BY <1>5, <1>6, <4>2 DEF RestoreFits, RestoreKinds
      <4> QED BY <1>11, <4>1, <4>2
    <3>2. \A s2 : Deletable(s2, job.snap)' <=> Deletable(s2, k)
      BY <1>1 DEF Newer, SameAge, Known, Deletable, k
    <3> QED BY <1>1, <1>13, <3>1, <3>2 DEF RestoreFits
  <2> QED BY <1>11, <2>1 DEF RestoreShape
<1>15. RebuildNext'
  <2>1. /\ DOMAIN todo' = 1..(Len(todo) + 1)
        /\ todo'[1] = b /\ todo'[2] = r
        /\ \A i \in 1..(Len(todo) + 1) :
             i # 1 /\ i # 2 => todo'[i] = todo[i - 1] /\ i - 1 \in DOMAIN todo /\ i - 1 # 1
    <3>1. /\ Len(<<b, r>>) = 2 /\ <<b, r>>[1] = b /\ <<b, r>>[2] = r
      OBVIOUS
    <3>2. /\ Len(todo') = 2 + Len(rest)
          /\ \A i \in 1..(2 + Len(rest)) :
               todo'[i] = IF i <= 2 THEN <<b, r>>[i] ELSE rest[i - 2]
      <4>1. /\ Len(<<b, r>> \o rest) = Len(<<b, r>>) + Len(rest)
            /\ \A i \in 1..(Len(<<b, r>>) + Len(rest)) :
                 (<<b, r>> \o rest)[i] = IF i <= Len(<<b, r>>) THEN <<b, r>>[i]
                                                               ELSE rest[i - Len(<<b, r>>)]
        BY <1>2, <1>9, ConcatProperties
      <4> QED BY <1>7, <3>1, <4>1
    <3>3. DOMAIN todo' = 1..(Len(todo) + 1)
      BY <1>8, <1>11, <3>2, LenProperties
    <3>4. ASSUME NEW i \in 1..(Len(todo) + 1), i # 1, i # 2
          PROVE  todo'[i] = todo[i - 1] /\ i - 1 \in DOMAIN todo /\ i - 1 # 1
      <4>1. i - 2 \in 1..(Len(todo) - 1) /\ (i - 2) + 1 = i - 1 /\ i \in 1..(2 + Len(rest)) /\ ~(i <= 2)
        BY <1>8, <3>4
      <4>2. todo'[i] = rest[i - 2]
        BY <3>2, <4>1
      <4>3. rest[i - 2] = todo[(i - 2) + 1] /\ (i - 2) + 1 \in 1..Len(todo)
        BY <1>8, <4>1
      <4> QED BY <1>8, <3>4, <4>1, <4>2, <4>3
    <3>5. todo'[1] = b /\ todo'[2] = r
      <4>1. 1 \in 1..(2 + Len(rest)) /\ 2 \in 1..(2 + Len(rest))
        BY <1>8
      <4> QED BY <3>1, <3>2, <4>1
    <3> QED BY <3>3, <3>4, <3>5
  <2> SUFFICES ASSUME NEW i \in DOMAIN todo'
               PROVE  /\ todo'[i].do = "build" => /\ i = 1 /\ 2 \in DOMAIN todo'
                                                  /\ todo'[2].do = "rename" /\ todo'[2].on = todo'[1].on
                      /\ todo'[i].do = "rename" => /\ file'[todo'[i].on] = 0
                                                   /\ \/ i = 1 /\ sibling'[todo'[i].on] > 0
                                                      \/ i = 2 /\ todo'[1].do = "build"
    BY DEF RebuildNext
  <2>2. CASE i = 1 \/ i = 2
    <3>1. 2 \in DOMAIN todo'
      BY <1>8, <2>1
    <3> QED BY <1>1, <1>5, <1>6, <2>1, <2>2, <3>1
  <2>3. CASE i # 1 /\ i # 2
    <3>1. todo'[i] = todo[i - 1] /\ i - 1 \in DOMAIN todo /\ i - 1 # 1
      BY <2>1, <2>3
    <3>2. todo[i - 1].do # "build" /\ todo[i - 1].do # "rename"
      BY <1>1, <1>4, <1>8, <3>1 DEF RebuildNext
    <3> QED BY <3>1, <3>2
  <2> QED BY <2>2, <2>3
<1>16. FilesBack'
  <2>1. /\ etc["zram"] = snaps[k].etc["zram"] \/ Has(todo', "write_zram")
        /\ etc["sysctl"] = snaps[k].etc["sysctl"] \/ Has(todo', "write_sysctl")
        /\ fstab = snaps[k].listed \/ Has(todo', "put_fstab")
    BY <1>4, <1>12 DEF FilesBack, k
  <2>2. ASSUME NEW q \in snaps[k].listed
        PROVE  file[q] > 0 \/ HasFor(todo', "recreate", q) \/ HasFor(todo', "rename", q)
    BY <1>4, <1>12 DEF FilesBack, k
  <2> QED BY <1>1, <1>13, <2>1, <2>2 DEF FilesBack
<1>17. ZramBack'
  <2>1. Restarts(todo') <=> Restarts(todo)
    BY <1>12 DEF Restarts
  <2>2. Has(todo', "zram_swapoff") <=> Has(todo, "zram_swapoff")
    BY <1>12
  <2>3. Goal(job.snap)' = Goal(job.snap)
    BY <1>1 DEF Goal
  <2> QED BY <1>1, <1>4, <2>1, <2>2, <2>3 DEF ZramBack
<1>18. OthersOff'
  <2>1. \A q : HasFor(todo', "swapoff", q) <=> HasFor(todo, "swapoff", q)
    BY <1>12
  <2>2. \A q : HasFor(todo', "unlink", q) <=> HasFor(todo, "unlink", q)
    BY <1>12
  <2>3. \A q : Newer(q, job.snap)' <=> Newer(q, job.snap)
    BY <1>1 DEF Newer
  <2> QED BY <1>1, <1>4, <2>1, <2>2, <2>3 DEF OthersOff
<1>19. RestoreInv'
  BY <1>14, <1>15, <1>16, <1>17, <1>18 DEF RestoreInv
<1>20. TypeOK' /\ BaseInv'
  BY <1>1, <1>2, <1>4, <1>11, <1>13 DEF TypeOK, BaseInv
<1> QED BY <1>1, <1>2, <1>19, <1>20 DEF HostInv

\* A step on the swapfile of the change.
LEMMA StepHere ==
  ASSUME Target \in Paths, NEW kind \in FileKinds, NEW arg \in Nat,
         kind \in {"build", "allocate", "set_len"} => arg \in Sizes
  PROVE  LET s == Step(kind, Target, arg)
         IN  /\ s \in AnyStep /\ s \in PlainStep /\ s.do = kind /\ s.on = Target /\ s.to = arg
             /\ s.undo = <<>> /\ WorkFits(s) /\ UndoFits(s)
<1> DEFINE s == Step(kind, Target, arg)
<1>1. kind \in Kinds /\ Target \in Places /\ arg \in Arguments
  BY DEF Kinds, WorkKinds, Places, Arguments
<1>2. s \in AnyStep /\ s \in PlainStep /\ s.do = kind /\ s.on = Target /\ s.to = arg /\ s.undo = <<>>
  BY <1>1, StepType
<1> HIDE DEF s
<1>3. WorkFits(s) /\ UndoFits(s)
  BY <1>2 DEF WorkFits, UndoFits, FileKinds, WorkKinds, ChangeKinds
<1> QED BY <1>2, <1>3 DEF s

\* The same with an undo.
LEMMA StepHereOrElse ==
  ASSUME Target \in Paths, NEW kind \in FileKinds, NEW arg \in Nat, NEW undo \in Seq(PlainStep),
         kind \in {"build", "allocate", "set_len"} => arg \in Sizes,
         \/ /\ kind \in {"swapoff", "rename"}
            /\ \/ undo = <<Step("discard", Target, 0)>>
               \/ undo = <<Step("discard", Target, 0), Step("try_swapon", Target, 0)>>
         \/ /\ kind \in {"allocate", "mkswap", "swapon"}
            /\ \E n \in Sizes : undo = SizeBack(n)
  PROVE  LET s == OrElse(Step(kind, Target, arg), undo)
         IN  /\ s \in AnyStep /\ s.do = kind /\ s.on = Target /\ s.to = arg
             /\ s.undo = undo /\ WorkFits(s) /\ UndoFits(s)
<1> DEFINE t == Step(kind, Target, arg)
           s == OrElse(t, undo)
<1>1. /\ t \in PlainStep /\ t.do = kind /\ t.on = Target /\ t.to = arg
  BY StepHere
<1> HIDE DEF t
<1>2. s \in AnyStep /\ s.do = kind /\ s.on = Target /\ s.to = arg /\ s.undo = undo
  BY <1>1, OrElseType
<1> HIDE DEF s
<1>3. WorkFits(s)
  BY <1>2 DEF WorkFits, FileKinds, WorkKinds, ChangeKinds
<1>4. UndoFits(s)
  BY <1>2 DEF UndoFits
<1> QED BY <1>2, <1>3, <1>4 DEF s, t

\* The steps of a creation fit when the path is not in use.
LEMMA CreatePlan ==
  ASSUME Target \in Paths, Target \notin active, job.change.swap.do = "create", NEW n \in Sizes
  PROVE  PlanFits(CreateSteps(Target, n))
<1> DEFINE a == Step("build", Target, n)
           b == Step("rename", Target, 0)
           c == Step("swapon", Target, 0)
           d == Step("list", Target, 0)
           plan == <<a, b, c, d>>
<1>1. n \in Nat /\ {"build", "rename", "swapon", "list"} \subseteq FileKinds
  BY HostAssumption DEF Sizes, FileKinds
<1>2. a \in AnyStep /\ a.do = "build" /\ WorkFits(a) /\ UndoFits(a)
  BY <1>1, StepHere
<1>3. b \in AnyStep /\ b.do = "rename" /\ WorkFits(b) /\ UndoFits(b)
  BY <1>1, StepHere
<1>4. c \in AnyStep /\ c.do = "swapon" /\ WorkFits(c) /\ UndoFits(c)
  BY <1>1, StepHere
<1>5. d \in AnyStep /\ d.do = "list" /\ WorkFits(d) /\ UndoFits(d)
  BY <1>1, StepHere
<1>6. CreateSteps(Target, n) = plan
  BY DEF CreateSteps
<1> HIDE DEF a, b, c, d
<1>7. /\ WorkStage[a.do] = 4 /\ WorkStage[b.do] = 6 /\ WorkStage[c.do] = 9 /\ WorkStage[d.do] = 10
  BY <1>2, <1>3, <1>4, <1>5, WorkStages
<1>8. plan \in Seq(AnyStep) /\ Range(plan) = {a, b, c, d} /\ Ordered(WorkStage, 1, plan)
  <2>1. /\ WorkStage[a.do] + 1 <= WorkStage[b.do] /\ WorkStage[b.do] + 1 <= WorkStage[c.do]
        /\ WorkStage[c.do] + 1 <= WorkStage[d.do]
    BY <1>7
  <2> QED BY <1>2, <1>3, <1>4, <1>5, <2>1, FourSteps, StagesAreNumbers
<1> HIDE DEF plan
<1>9. \A s \in Range(plan) : WorkFits(s) /\ UndoFits(s) /\ WorkStage[s.do] <= 10
  BY <1>2, <1>3, <1>4, <1>5, <1>7, <1>8
<1>10. Has(plan, "build") /\ Has(plan, "rename") /\ ~Has(plan, "unlink")
  BY <1>2, <1>3, <1>4, <1>5, <1>8 DEF Has
<1>11. PlanFits(plan)
  BY <1>8, <1>9, <1>10 DEF PlanFits
<1> QED BY <1>6, <1>11

\* The steps of a removal fit.
LEMMA RemovePlan ==
  ASSUME Target \in Paths, job.change.swap.do = "remove"
  PROVE  PlanFits(RemoveSteps(Target))
<1> DEFINE a == Step("swapoff", Target, 0)
           b == Step("unlist", Target, 0)
           c == Step("unlink", Target, 0)
           plan == <<a, b, c>>
<1>1. {"swapoff", "unlist", "unlink"} \subseteq FileKinds
  BY DEF FileKinds
<1>2. a \in AnyStep /\ a.do = "swapoff" /\ WorkFits(a) /\ UndoFits(a)
  BY <1>1, StepHere
<1>3. b \in AnyStep /\ b.do = "unlist" /\ WorkFits(b) /\ UndoFits(b)
  BY <1>1, StepHere
<1>4. c \in AnyStep /\ c.do = "unlink" /\ WorkFits(c) /\ UndoFits(c)
  BY <1>1, StepHere
<1>5. RemoveSteps(Target) = plan
  BY DEF RemoveSteps
<1> HIDE DEF a, b, c
<1>6. WorkStage[a.do] = 5 /\ WorkStage[b.do] = 6 /\ WorkStage[c.do] = 7
  BY <1>2, <1>3, <1>4, WorkStages
<1>7. plan \in Seq(AnyStep) /\ Range(plan) = {a, b, c} /\ Ordered(WorkStage, 1, plan)
  <2>1. WorkStage[a.do] + 1 <= WorkStage[b.do] /\ WorkStage[b.do] + 1 <= WorkStage[c.do]
    BY <1>6
  <2> QED BY <1>2, <1>3, <1>4, <2>1, ThreeSteps, StagesAreNumbers
<1> HIDE DEF plan
<1>8. \A s \in Range(plan) : WorkFits(s) /\ UndoFits(s) /\ WorkStage[s.do] <= 10
  BY <1>2, <1>3, <1>4, <1>6, <1>7
<1>9. Has(plan, "swapoff") /\ Has(plan, "unlist") /\ ~Has(plan, "rename") /\ ~Has(plan, "list")
  BY <1>2, <1>3, <1>4, <1>7 DEF Has
<1>10. PlanFits(plan)
  BY <1>7, <1>8, <1>9 DEF PlanFits
<1> QED BY <1>5, <1>10

\* The steps of a resize through a staging file fit.
LEMMA StagedPlan ==
  ASSUME Target \in Paths, NEW n \in Sizes
  PROVE  PlanFits(StagedSteps(Target, n))
<1> DEFINE drop == Step("discard", Target, 0)
           again == Step("try_swapon", Target, 0)
           back == IF Target \in active THEN <<again>> ELSE <<>>
           a == Step("build", Target, n)
           b == OrElse(Step("swapoff", Target, 0), <<drop>>)
           c == OrElse(Step("rename", Target, 0), <<drop>> \o back)
           d == Step("swapon", Target, 0)
           plan == <<a, b, c, d>>
<1>1. n \in Nat /\ {"build", "rename", "swapon", "swapoff", "discard", "try_swapon"} \subseteq FileKinds
  BY HostAssumption DEF Sizes, FileKinds
<1>2. drop \in PlainStep /\ again \in PlainStep
  BY <1>1, StepHere
<1>3. /\ <<drop>> \in Seq(PlainStep) /\ <<drop, again>> \in Seq(PlainStep)
      /\ <<drop>> \o back = <<drop>> \/ <<drop>> \o back = <<drop, again>>
  <2> HIDE DEF drop, again
  <2>1. <<drop>> \in Seq(PlainStep) /\ <<drop, again>> \in Seq(PlainStep)
    BY <1>2
  <2>2. <<drop>> \o <<again>> = <<drop, again>>
    <3>1. Append(<<drop>>, again) = <<drop>> \o <<again>>
      BY <1>2, <2>1, AppendIsConcat
    <3> QED BY <3>1, AppendToOne
  <2>3. <<drop>> \o <<>> = <<drop>>
    BY <2>1, ConcatEmptySeq
  <2> QED BY <2>1, <2>2, <2>3
<1>4. a \in AnyStep /\ a.do = "build" /\ WorkFits(a) /\ UndoFits(a)
  BY <1>1, StepHere
<1>u. ASSUME NEW kind \in {"swapoff", "rename"}, NEW undo \in {<<drop>>, <<drop, again>>}
      PROVE  LET s == OrElse(Step(kind, Target, 0), undo)
             IN  s \in AnyStep /\ s.do = kind /\ WorkFits(s) /\ UndoFits(s)
  <2>1. /\ kind \in FileKinds /\ 0 \in Nat /\ undo \in Seq(PlainStep)
        /\ kind \notin {"build", "allocate", "set_len"}
    BY <1>1, <1>3
  <2>2. \/ undo = <<Step("discard", Target, 0)>>
        \/ undo = <<Step("discard", Target, 0), Step("try_swapon", Target, 0)>>
    OBVIOUS
  <2> QED BY <2>1, <2>2, StepHereOrElse
<1>5. b \in AnyStep /\ b.do = "swapoff" /\ WorkFits(b) /\ UndoFits(b)
  BY <1>u
<1>6. c \in AnyStep /\ c.do = "rename" /\ WorkFits(c) /\ UndoFits(c)
  BY <1>3, <1>u
<1>7. d \in AnyStep /\ d.do = "swapon" /\ WorkFits(d) /\ UndoFits(d)
  BY <1>1, StepHere
<1>8. StagedSteps(Target, n) = plan
  BY DEF StagedSteps
<1> HIDE DEF a, b, c, d
<1>9. /\ WorkStage[a.do] = 4 /\ WorkStage[b.do] = 5 /\ WorkStage[c.do] = 6 /\ WorkStage[d.do] = 9
  BY <1>4, <1>5, <1>6, <1>7, WorkStages
<1>10. plan \in Seq(AnyStep) /\ Range(plan) = {a, b, c, d} /\ Ordered(WorkStage, 1, plan)
  <2>1. /\ WorkStage[a.do] + 1 <= WorkStage[b.do] /\ WorkStage[b.do] + 1 <= WorkStage[c.do]
        /\ WorkStage[c.do] + 1 <= WorkStage[d.do]
    BY <1>9
  <2> QED BY <1>4, <1>5, <1>6, <1>7, <2>1, FourSteps, StagesAreNumbers
<1> HIDE DEF plan
<1>11. \A s \in Range(plan) : WorkFits(s) /\ UndoFits(s) /\ WorkStage[s.do] <= 10
  BY <1>4, <1>5, <1>6, <1>7, <1>9, <1>10
<1>12. Has(plan, "build") /\ Has(plan, "swapoff") /\ ~Has(plan, "unlink") /\ ~Has(plan, "list")
  BY <1>4, <1>5, <1>6, <1>7, <1>10 DEF Has
<1>13. PlanFits(plan)
  BY <1>10, <1>11, <1>12 DEF PlanFits
<1> QED BY <1>8, <1>13

\* The steps of a resize in place fit when there is a file.
LEMMA InPlacePlan ==
  ASSUME Target \in Paths, file[Target] \in Sizes, NEW n \in Sizes
  PROVE  PlanFits(InPlaceSteps(Target, n))
<1> DEFINE l == Step("set_len", Target, file[Target])
           m == Step("mkswap", Target, 0)
           o == Step("swapon", Target, 0)
           undo == <<l, m, o>>
           a == Step("swapoff", Target, 0)
           b == OrElse(Step("allocate", Target, n), undo)
           c == OrElse(m, undo)
           d == OrElse(o, undo)
           plan == <<a, b, c, d>>
<1>1. /\ n \in Nat /\ file[Target] \in Nat
      /\ {"swapoff", "allocate", "set_len", "mkswap", "swapon"} \subseteq FileKinds
  BY HostAssumption DEF Sizes, FileKinds
<1>2. l \in PlainStep /\ m \in PlainStep /\ o \in PlainStep
  BY <1>1, StepHere
<1>3. undo \in Seq(PlainStep)
  <2> HIDE DEF l, m, o
  <2> QED BY <1>2
<1>4. \E size \in Sizes : undo = SizeBack(size)
  BY DEF SizeBack
<1> HIDE DEF undo
<1>5. a \in AnyStep /\ a.do = "swapoff" /\ WorkFits(a) /\ UndoFits(a)
  BY <1>1, StepHere
<1>6. b \in AnyStep /\ b.do = "allocate" /\ WorkFits(b) /\ UndoFits(b)
  BY <1>1, <1>3, <1>4, StepHereOrElse
<1>7. c \in AnyStep /\ c.do = "mkswap" /\ WorkFits(c) /\ UndoFits(c)
  BY <1>1, <1>3, <1>4, StepHereOrElse
<1>8. d \in AnyStep /\ d.do = "swapon" /\ WorkFits(d) /\ UndoFits(d)
  BY <1>1, <1>3, <1>4, StepHereOrElse
<1>9. InPlaceSteps(Target, n) = plan
  BY DEF InPlaceSteps, undo
<1> HIDE DEF a, b, c, d
<1>10. /\ WorkStage[a.do] = 5 /\ WorkStage[b.do] = 7 /\ WorkStage[c.do] = 8 /\ WorkStage[d.do] = 9
  BY <1>5, <1>6, <1>7, <1>8, WorkStages
<1>11. plan \in Seq(AnyStep) /\ Range(plan) = {a, b, c, d} /\ Ordered(WorkStage, 1, plan)
  <2>1. /\ WorkStage[a.do] + 1 <= WorkStage[b.do] /\ WorkStage[b.do] + 1 <= WorkStage[c.do]
        /\ WorkStage[c.do] + 1 <= WorkStage[d.do]
    BY <1>10
  <2> QED BY <1>5, <1>6, <1>7, <1>8, <2>1, FourSteps, StagesAreNumbers
<1> HIDE DEF plan
<1>12. \A s \in Range(plan) : WorkFits(s) /\ UndoFits(s) /\ WorkStage[s.do] <= 10
  BY <1>5, <1>6, <1>7, <1>8, <1>10, <1>11
<1>13. Has(plan, "swapoff") /\ ~Has(plan, "rename") /\ ~Has(plan, "unlink") /\ ~Has(plan, "list")
  BY <1>5, <1>6, <1>7, <1>8, <1>11 DEF Has
<1>14. PlanFits(plan)
  BY <1>11, <1>12, <1>13 DEF PlanFits
<1> QED BY <1>9, <1>14

\* The change of a swapfile becomes its steps, or is refused.
LEMMA ChangeSteps ==
  ASSUME HostInv, CreateFile \/ RemoveFile \/ ResizeFile
  PROVE  HostInv'
<1> DEFINE h == Head(todo)
<1>1. todo # <<>> /\ h.do \in ChangeKinds
  BY DEF CreateFile, RemoveFile, ResizeFile, Doing, ChangeKinds
<1>2. /\ phase = "work" /\ NextStepSafe(h) /\ HostTyped /\ TypeOK
      /\ \A p \in Paths : file[p] \in 0..MaxSize
  BY <1>1, NextStep, TypesOfHost DEF NextStepSafe, HostInv
<1>3. /\ h.on = Target /\ Target \in Paths /\ h.do = job.change.swap.do
      /\ h.do \in {"create", "resize"} => h.to \in Sizes
  BY <1>1, <1>2, WorkNext DEF WorkFits
<1>4. UNCHANGED <<disk, swaps, config>>
  BY DEF CreateFile, RemoveFile, ResizeFile
<1>5. ASSUME StepFails, faults' \in 0..MaxFaults
      PROVE  HostInv'
  <2>1. StepBreaks
    BY <1>1, <1>2, <1>4, <1>5 DEF StepBreaks, HostTyped, disk, swaps, config
  <2> QED BY <2>1, Breaks
<1>6. ASSUME NEW plan, PlanFits(plan), todo' = plan \o Tail(todo), UNCHANGED <<control, faults>>
      PROVE  HostInv'
  BY <1>1, <1>4, <1>6, ChangeExpands
<1>7. faults \in 0..MaxFaults /\ (Fault => faults' \in 0..MaxFaults)
  BY <1>2, HostAssumption DEF HostTyped, Fault
<1>8. CASE CreateFile
  <2>1. h.do = "create" /\ faults' = faults
    BY <1>8 DEF CreateFile, Doing
  <2>2. CASE Accepted(job.change.swap)
    <3>1. todo' = CreateSteps(h.on, h.to) \o Tail(todo) /\ UNCHANGED control
      BY <1>8, <2>2 DEF CreateFile, This
    <3>2. Target \notin active
      BY <1>3, <2>1, <2>2 DEF Accepted, Target
    <3>3. PlanFits(CreateSteps(h.on, h.to))
      BY <1>3, <2>1, <3>2, CreatePlan
    <3> QED BY <1>6, <2>1, <3>1, <3>3
  <2>3. CASE ~Accepted(job.change.swap)
    BY <1>5, <1>7, <1>8, <2>1, <2>3 DEF CreateFile
  <2> QED BY <2>2, <2>3
<1>9. CASE RemoveFile
  <2>1. h.do = "remove" /\ faults' = faults
    BY <1>9 DEF RemoveFile, Doing
  <2>2. CASE Accepted(job.change.swap)
    <3>1. todo' = RemoveSteps(h.on) \o Tail(todo) /\ UNCHANGED control
      BY <1>9, <2>2 DEF RemoveFile, This
    <3>2. PlanFits(RemoveSteps(h.on))
      BY <1>3, <2>1, RemovePlan
    <3> QED BY <1>6, <2>1, <3>1, <3>2
  <2>3. CASE ~Accepted(job.change.swap)
    BY <1>5, <1>7, <1>9, <2>1, <2>3 DEF RemoveFile
  <2> QED BY <2>2, <2>3
<1>10. CASE ResizeFile
  <2>1. h.do = "resize"
    BY <1>10 DEF ResizeFile, Doing
  <2>2. CASE todo' = StagedSteps(h.on, h.to) \o Tail(todo) /\ UNCHANGED <<control, faults>>
    <3>1. PlanFits(StagedSteps(h.on, h.to))
      BY <1>3, <2>1, StagedPlan
    <3> QED BY <1>6, <2>2, <3>1
  <2>3. CASE /\ file[h.on] > 0 /\ todo' = InPlaceSteps(h.on, h.to) \o Tail(todo)
             /\ UNCHANGED <<control, faults>>
    <3>1. file[Target] \in Sizes
      BY <1>2, <1>3, <2>3, HostAssumption DEF Sizes
    <3>2. PlanFits(InPlaceSteps(h.on, h.to))
      BY <1>3, <2>1, <3>1, InPlacePlan
    <3> QED BY <1>6, <2>3, <3>2
  <2>4. CASE Fault /\ StepFails
    BY <1>5, <1>7, <2>4
  <2> QED BY <1>10, <2>2, <2>3, <2>4 DEF ResizeFile, This
<1> QED BY <1>8, <1>9, <1>10

-----------------------------------------------------------------------------
(* The invariant holds.                                                    *)

\* A step that succeeds keeps the invariant.
LEMMA Takes ==
  ASSUME HostInv, StepTakes
  PROVE  HostInv'
<1>1. TypeOK' /\ BaseInv' /\ phase' = phase /\ phase \in {"work", "restore"}
  BY BaseAdvances, Advances
<1> QED BY <1>1, WorkAdvances, RestoreAdvances DEF HostInv

\* A listed swapfile is there, is built anew, or cannot be.
LEMMA RecreateSteps ==
  ASSUME HostInv, Recreate
  PROVE  StepTakes \/ StepBreaks \/ HostInv'
<1> DEFINE h == Head(todo)
<1>1. todo # <<>> /\ h.do = "recreate" /\ UNCHANGED <<disk, swaps, config, faults>>
  BY DEF Recreate, Doing
<1>2. NextStepSafe(h) /\ HostTyped
  BY <1>1, NextStep, TypesOfHost DEF HostInv
<1>3. h.on \in Paths /\ file[h.on] \in 0..MaxSize
  BY <1>1, <1>2 DEF NextStepSafe, HostTyped
<1>4. CASE file[h.on] > 0
  BY <1>4, OtherSteps
<1>5. CASE file[h.on] = 0 /\ snaps[h.to].size[h.on] = 0
  <2>1. StepFails
    BY <1>5 DEF Recreate, This
  <2> QED BY <1>1, <1>2, <2>1 DEF StepBreaks, HostTyped, disk, swaps, config
<1>6. CASE file[h.on] = 0 /\ snaps[h.to].size[h.on] # 0
  BY <1>6, RebuildExpands
<1>7. file[h.on] = 0 \/ file[h.on] > 0
  BY <1>3, HostAssumption
<1> QED BY <1>4, <1>5, <1>6, <1>7

\* Every step either succeeds, fails, or turns into others.
StepAction ==
  \/ Break
  \/ CreateFile \/ RemoveFile \/ ResizeFile \/ Build \/ Rename \/ Discard
  \/ Swapon \/ TrySwapon \/ Swapoff \/ SwapoffNow \/ List \/ Unlist \/ Unlink
  \/ Allocate \/ SetLen \/ Mkswap
  \/ WriteZram \/ WriteSysctl \/ StartZram \/ StopZram \/ LoadSysctl \/ ReloadSysctl
  \/ PutFstab \/ Recreate

\* Every step keeps the invariant.
LEMMA StepKeeps ==
  ASSUME HostInv, StepAction
  PROVE  HostInv'
<1>1. CASE CreateFile \/ RemoveFile \/ ResizeFile
  BY <1>1, ChangeSteps
<1>2. CASE ~(CreateFile \/ RemoveFile \/ ResizeFile)
  <2>1. StepTakes \/ StepBreaks \/ HostInv'
    BY <1>2, FileSteps, SwapsSteps, ConfigSteps, OtherSteps, RecreateSteps DEF StepAction
  <2> QED BY <2>1, Takes, Breaks
<1> QED BY <1>1, <1>2

\* The first states satisfy the invariant.
LEMMA InitInv == Init => HostInv
<1> SUFFICES ASSUME Init PROVE HostInv
  OBVIOUS
<1>1. /\ todo = <<>> /\ snaps = <<>> /\ phase = "idle" /\ ops = 0 /\ faults = 0 /\ outcome = "none"
      /\ Len(snaps) = 0 /\ DOMAIN snaps = {}
  BY DEF Init
<1>2. live \in [Settings -> Contents \cup {Off}]
  BY DEF Init
<1>3. job.snap \in 0..Len(snaps) /\ job.change \in Change
  <2>1. NoChange \in Change
    BY DEF NoChange, Change, SwapChange, NoSwap
  <2> QED BY <1>1, <2>1 DEF Init
<1>4. /\ file \in [Paths -> 0..MaxSize] /\ header \in [Paths -> 0..MaxSize]
      /\ sibling \in [Paths -> 0..MaxSize] /\ born \in [Paths -> 0..MaxOps]
      /\ sparse \subseteq Paths /\ fstab \subseteq Paths /\ active \subseteq Paths
      /\ ops \in 0..MaxOps /\ faults \in 0..MaxFaults
  BY HostAssumption DEF Init
<1>5. TypeOK
  BY <1>1, <1>2, <1>3, <1>4 DEF Init, TypeOK
<1>6. BaseInv
  <2>1. \A p \in active : file[p] > 0
    BY DEF Init
  <2> QED BY <1>1, <2>1 DEF BaseInv
<1> QED BY <1>1, <1>5, <1>6 DEF HostInv

\* It stays when nothing changes.
LEMMA Rests ==
  ASSUME HostInv, UNCHANGED vars
  PROVE  HostInv'
<1>1. /\ file' = file /\ header' = header /\ sparse' = sparse /\ sibling' = sibling /\ born' = born
      /\ fstab' = fstab /\ active' = active /\ etc' = etc /\ live' = live /\ job' = job
      /\ phase' = phase /\ outcome' = outcome /\ ops' = ops /\ snaps' = snaps /\ faults' = faults
      /\ todo' = todo
  BY DEF vars, disk, swaps, config, control
<1>2. TypeOK'
  BY <1>1 DEF HostInv, TypeOK
<1>3. /\ \A q, k : (Newer(q, k)' <=> Newer(q, k)) /\ (Known(q)' <=> Known(q))
      /\ \A q, k : Deletable(q, k)' <=> Deletable(q, k)
      /\ Target' = Target
  BY <1>1 DEF Newer, SameAge, Known, Deletable, Target
<1>4. BaseInv'
  BY <1>1, <1>3 DEF HostInv, BaseInv
<1>5. ASSUME phase = "work"
      PROVE  WorkInv'
  <2>1. WorkInv
    BY <1>5 DEF HostInv
  <2>2. \A s : Touches(s)' <=> Touches(s)
    BY DEF Touches
  <2>3. \A s : (WorkFits(s)' <=> WorkFits(s)) /\ (UndoFits(s)' <=> UndoFits(s))
    BY <1>1, <1>3 DEF WorkFits, UndoFits, SizeBack
  <2>4. WorkShape'
    BY <1>1, <2>1, <2>3 DEF WorkInv, WorkShape
  <2>5. RenameReady' /\ FileIdle' /\ RemovalReady' /\ ListReady' /\ SysctlReady'
    BY <1>1, <1>3, <2>1, <2>2
       DEF WorkInv, RenameReady, FileIdle, RemovalReady, ListReady, SysctlReady
  <2> QED BY <2>4, <2>5 DEF WorkInv
<1>6. ASSUME phase = "restore"
      PROVE  RestoreInv'
  <2>1. RestoreInv
    BY <1>6 DEF HostInv
  <2>2. \A s, k : RestoreFits(s, k)' <=> RestoreFits(s, k)
    BY <1>1, <1>3 DEF RestoreFits
  <2>3. RestoreShape'
    BY <1>1, <2>1, <2>2 DEF RestoreInv, RestoreShape
  <2>4. RebuildNext' /\ FilesBack'
    BY <1>1, <2>1 DEF RestoreInv, RebuildNext, FilesBack
  <2>5. ZramBack' /\ OthersOff'
    BY <1>1, <1>3, <2>1 DEF RestoreInv, ZramBack, OthersOff, Goal
  <2> QED BY <2>3, <2>4, <2>5 DEF RestoreInv
<1> QED BY <1>1, <1>2, <1>4, <1>5, <1>6 DEF HostInv

\* An operation begins or ends.
LEMMA OperationKeeps ==
  ASSUME HostInv, Apply \/ Direct \/ Restore \/ Finish \/ Fail \/ Kill
  PROVE  HostInv'
<1>1. CASE Apply \/ Direct
  <2>1. Asked \subseteq Change
    BY AskedAssumption
  <2>2. PICK op \in {"apply", "direct"}, c \in Change : Begin(op, c)
    BY <1>1, <2>1 DEF Apply, Direct, StagedChanges, DirectChanges
  <2> QED BY <2>2, WorkBegins
<1>2. CASE Restore
  <2>1. PICK k \in DOMAIN snaps :
          /\ job' = [op |-> "restore", change |-> NoChange, snap |-> k, sound |-> TRUE]
          /\ \E extra \in Extra(k) : todo' = RestoreSteps(k, extra)
    BY <1>2 DEF Restore
  <2>2. PICK extra \in Extra(k) : todo' = RestoreSteps(k, extra)
    BY <2>1
  <2>3. /\ phase = "idle" /\ ops < MaxOps /\ ops' = ops + 1 /\ phase' = "restore" /\ outcome' = "none"
        /\ file' = file /\ header' = header /\ sparse' = sparse /\ sibling' = sibling /\ born' = born
        /\ fstab' = fstab /\ active' = active /\ etc' = etc /\ live' = live
        /\ snaps' = snaps /\ faults' = faults
    BY <1>2 DEF Restore, disk, swaps, config
  <2>4. TypeOK /\ BaseInv /\ job'.snap = k /\ NoChange \in Change
    BY <2>1 DEF HostInv, NoChange, Change, SwapChange, NoSwap
  <2>5. todo' \in Seq(AnyStep) /\ RestoreInv'
    BY <2>2, <2>3, <2>4, RestoreBegins DEF swaps
  <2>6. k \in 0..Len(snaps) /\ ops' \in 0..MaxOps /\ ops \in Nat
    BY <2>3, <2>4, SnapshotType, HostAssumption DEF TypeOK
  <2>7. TypeOK'
    BY <2>1, <2>3, <2>4, <2>6 DEF TypeOK
  <2>8. BaseInv'
    <3>1. \A q, j : (Newer(q, j)' <=> Newer(q, j)) /\ (Known(q)' <=> Known(q))
      BY <2>3 DEF Newer, Known
    <3>2. Len(snaps) <= ops'
      BY <2>3, <2>4, <2>6, SnapshotType DEF BaseInv
    <3> QED BY <2>3, <2>4, <2>5, <3>1, <3>2 DEF BaseInv
  <2> QED BY <2>3, <2>5, <2>7, <2>8 DEF HostInv
<1>3. CASE Finish \/ Kill
  <2>1. /\ phase' = "idle" /\ todo' = <<>> /\ outcome' \in {"ok", "rolled_back", "killed"}
        /\ job' = job /\ ops' = ops /\ snaps' = snaps /\ (faults' = faults \/ Fault)
        /\ file' = file /\ header' = header /\ sparse' = sparse /\ sibling' = sibling /\ born' = born
        /\ fstab' = fstab /\ active' = active /\ etc' = etc /\ live' = live
    BY <1>3 DEF Finish, Kill, disk, swaps, config
  <2>2. TypeOK /\ BaseInv
    BY DEF HostInv
  <2>3. faults' \in 0..MaxFaults
    BY <2>1, <2>2, HostAssumption DEF TypeOK, Fault
  <2>4. TypeOK'
    BY <2>1, <2>2, <2>3 DEF TypeOK
  <2>5. BaseInv'
    <3>1. \A q, j : (Newer(q, j)' <=> Newer(q, j)) /\ (Known(q)' <=> Known(q))
      BY <2>1 DEF Newer, Known
    <3> QED BY <2>1, <2>2, <3>1, EmptySeq DEF BaseInv
  <2> QED BY <2>1, <2>4, <2>5 DEF HostInv
<1>4. CASE Fail
  <2>1. /\ todo # <<>> /\ GiveUp
        /\ file' = file /\ header' = header /\ sparse' = sparse /\ sibling' = sibling /\ born' = born
        /\ fstab' = fstab /\ active' = active /\ etc' = etc /\ live' = live /\ faults' = faults
    BY <1>4 DEF Fail, Doing, disk, swaps, config
  <2>2. phase # "idle" /\ HostTyped
    BY <2>1, NextStep, TypesOfHost DEF HostInv
  <2> QED BY <2>1, <2>2, GivesUp DEF HostTyped, swaps
<1> QED BY <1>1, <1>2, <1>3, <1>4

\* Every action keeps the invariant.
LEMMA NextKeeps == HostInv /\ [Next]_vars => HostInv'
<1> SUFFICES ASSUME HostInv, [Next]_vars PROVE HostInv'
  OBVIOUS
<1>1. CASE Apply \/ Direct \/ Restore \/ Finish \/ Fail \/ Kill
  BY <1>1, OperationKeeps
<1>2. CASE StepAction
  BY <1>2, StepKeeps
<1>3. CASE UNCHANGED vars
  BY <1>3, Rests
<1>4. CASE Rest
  BY <1>4, Rests DEF Rest
<1> QED BY <1>1, <1>2, <1>3, <1>4 DEF Next, StepAction

\* The invariant the other theorems rest on: the steps that are left are in a
\* safe order, and what they rely on holds or still comes before them.
THEOREM HostInvariant == Spec => []HostInv
BY InitInv, NextKeeps, PTL DEF Spec

\* The types of the host hold in every run.
THEOREM HostTypes == Spec => []TypeOK
<1>1. HostInv => TypeOK
  BY DEF HostInv
<1> QED BY <1>1, HostInvariant, PTL

-----------------------------------------------------------------------------
(* What no step does.                                                      *)

\* A step that becomes other steps.
StepTurns == UNCHANGED <<disk, swaps, config, control, faults>>

\* A step succeeds, fails or turns into others.
LEMMA StepCases ==
  ASSUME HostInv, StepAction
  PROVE  StepTakes \/ StepBreaks \/ StepTurns
<1>1. ASSUME todo # <<>>, StepFails, UNCHANGED <<disk, swaps, config>>, faults' \in 0..MaxFaults
      PROVE  StepBreaks
  <2>1. HostTyped
    BY TypesOfHost DEF HostInv
  <2> QED BY <1>1, <2>1 DEF StepBreaks, HostTyped, disk, swaps, config
<1>2. faults \in 0..MaxFaults /\ (Fault => faults' \in 0..MaxFaults)
  BY HostAssumption DEF HostInv, TypeOK, Fault
<1>3. CASE CreateFile \/ RemoveFile
  <2>1. todo # <<>> /\ UNCHANGED <<disk, swaps, config, faults>> /\ (StepFails \/ UNCHANGED control)
    BY <1>3 DEF CreateFile, RemoveFile, Doing
  <2> QED BY <1>1, <1>2, <2>1 DEF StepTurns
<1>4. CASE ResizeFile
  <2>1. /\ todo # <<>> /\ UNCHANGED <<disk, swaps, config>>
        /\ (Fault /\ StepFails) \/ UNCHANGED <<control, faults>>
    BY <1>4 DEF ResizeFile, Doing
  <2> QED BY <1>1, <1>2, <2>1 DEF StepTurns
<1>5. CASE Recreate
  <2>1. /\ todo # <<>> /\ UNCHANGED <<disk, swaps, config, faults>>
        /\ StepFails \/ UNCHANGED control
    BY <1>5 DEF Recreate, Doing, Advance
  <2> QED BY <1>1, <1>2, <2>1 DEF StepTurns
<1>6. CASE ~(CreateFile \/ RemoveFile \/ ResizeFile \/ Recreate)
  BY <1>6, FileSteps, SwapsSteps, ConfigSteps, OtherSteps DEF StepAction
<1> QED BY <1>3, <1>4, <1>5, <1>6

\* Only a step that succeeds changes swapfiles, their formats or the swap entries.
LEMMA OnlyStepsTouchSwap ==
  ASSUME HostInv, [Next]_vars
  PROVE  StepTakes \/ UNCHANGED <<file, header, born, fstab, active>>
<1>1. CASE Apply \/ Direct \/ Restore \/ Finish \/ Fail \/ Kill \/ Rest \/ UNCHANGED vars
  BY <1>1 DEF Apply, Direct, Begin, Restore, Finish, Fail, Kill, Rest, vars, disk, swaps
<1>2. CASE StepAction
  BY <1>2, StepCases DEF StepBreaks, StepTurns, disk, swaps
<1> QED BY <1>1, <1>2 DEF Next, StepAction

\* What a step that succeeds can do to a swapfile.
LEMMA FileChanges ==
  ASSUME HostInv, StepTakes, NEW p \in Paths,
         file'[p] # file[p] \/ header'[p] # header[p] \/ born'[p] # born[p]
  PROVE  LET h == Head(todo)
         IN  /\ p = h.on /\ p \notin active
             /\ \/ file'[p] > 0 \/ file'[p] = file[p]
                \/ h.do = "unlink"
<1> DEFINE h == Head(todo)
<1>1. DiskEffect(h) /\ NextStepSafe(h)
  BY Advances DEF StepTakes
<1> HIDE DEF h
<1>2. p = h.on /\ h.do \in {"rename", "unlink", "allocate", "set_len", "mkswap"}
  BY <1>1 DEF DiskEffect
<1>3. p \notin active
  BY <1>1, <1>2 DEF NextStepSafe
<1>4. CASE h.do = "rename"
  <2>1. file'[h.on] = sibling[h.on] /\ sibling[h.on] > 0
    BY <1>1, <1>4 DEF DiskEffect, NextStepSafe
  <2> QED BY <1>2, <1>3, <2>1 DEF h
<1>5. CASE h.do \in {"allocate", "set_len"}
  <2>1. h.to > 0 /\ file'[h.on] = h.to
    BY <1>1, <1>5, HostAssumption DEF DiskEffect, NextStepSafe, Sizes
  <2> QED BY <1>2, <1>3, <2>1 DEF h
<1>6. CASE h.do = "mkswap"
  BY <1>1, <1>2, <1>3, <1>6 DEF DiskEffect, h
<1>7. CASE h.do = "unlink"
  BY <1>2, <1>3, <1>7 DEF h
<1> QED BY <1>2, <1>4, <1>5, <1>6, <1>7

\* What becomes of an operation: a restore fails at one of its own commands or at
\* a listed file that was missing already, and only Finish reports success.
LEMMA RestoreOutcome ==
  ASSUME HostInv, StepAction, phase = "restore"
  PROVE  outcome' \in {"none", "failed"}
<1>1. outcome = "none"
  BY DEF HostInv, BaseInv
<1>2. StepFails => outcome' \in {outcome, "failed"}
  BY DEF StepFails, GiveUp, control
<1>3. StepTakes => outcome' = outcome
  BY Advances
<1>4. StepTurns => outcome' = outcome
  BY DEF StepTurns, control
<1> QED BY <1>1, <1>2, <1>3, <1>4, StepCases DEF StepBreaks

\* The kernel's swap is safe: whatever is asked for and wherever it fails or is
\* killed, a swapfile in use keeps its content, its format and its file
\* (swapoff comes first in every backend).
THEOREM ActiveSwapUntouched == Spec => ActiveUntouched
<1>1. HostInv /\ [Next]_vars =>
        [\A p \in active \cap active' :
           file'[p] = file[p] /\ header'[p] = header[p] /\ born'[p] = born[p]]_vars
  <2> SUFFICES ASSUME HostInv, [Next]_vars, NEW p \in active \cap active'
               PROVE  file'[p] = file[p] /\ header'[p] = header[p] /\ born'[p] = born[p]
    OBVIOUS
  <2>1. p \in Paths /\ p \in active
    BY DEF HostInv, TypeOK
  <2>2. CASE StepTakes
    BY <2>1, <2>2, FileChanges
  <2>3. CASE UNCHANGED <<file, header, born, fstab, active>>
    BY <2>3
  <2> QED BY <2>2, <2>3, OnlyStepsTouchSwap
<1> QED BY <1>1, HostInvariant, PTL DEF ActiveUntouched, Spec

\* The next boot finds every swapfile that /etc/fstab names: no apply, direct
\* action, failure, undo or kill leaves an entry without its file.
THEOREM ListedStayPresent == Spec => ListedFilesExist
<1>1. HostInv /\ [Next]_vars =>
        [phase = "work" => \A p \in fstab' : file'[p] = 0 => p \in fstab /\ file[p] = 0]_vars
  <2> SUFFICES ASSUME HostInv, [Next]_vars, phase = "work", NEW p \in fstab', file'[p] = 0
               PROVE  p \in fstab /\ file[p] = 0
    OBVIOUS
  <2>1. CASE StepTakes
    <3> DEFINE h == Head(todo)
    <3>1. NextStepSafe(h) /\ SwapsEffect(h) /\ DiskEffect(h)
      BY <2>1, Advances DEF StepTakes
    <3>2. TypeOK' /\ TypeOK
      BY <2>1, BaseAdvances DEF HostInv
    <3>3. p \in Paths
      BY <3>2 DEF TypeOK
    <3>4. h.do # "put_fstab"
      BY <3>1 DEF NextStepSafe
    <3>5. h.do = "list" => file[h.on] > 0 /\ file'[h.on] = file[h.on]
      <4>1. h.do = "list" => file[h.on] > 0 /\ h.on \in Paths
        BY <3>1 DEF NextStepSafe, FileKinds
      <4>2. h.do = "list" => file'[h.on] = file[h.on]
        <5> HIDE DEF h
        <5> QED BY <3>1, <4>1 DEF DiskEffect
      <4> QED BY <4>1, <4>2
    <3>6. p \in fstab /\ (h.do = "unlist" => p # h.on)
      <4> HIDE DEF h
      <4> QED BY <3>1, <3>4, <3>5 DEF SwapsEffect
    <3>7. CASE file'[p] # file[p]
      <4>1. p = h.on /\ h.do = "unlink"
        BY <2>1, <3>3, <3>7, FileChanges
      <4>2. h.on \notin fstab
        BY <3>1, <4>1 DEF NextStepSafe
      <4> QED BY <3>6, <4>1, <4>2
    <3> QED BY <3>6, <3>7
  <2>2. CASE UNCHANGED <<file, header, born, fstab, active>>
    BY <2>2
  <2> QED BY <2>1, <2>2, OnlyStepsTouchSwap
<1> QED BY <1>1, HostInvariant, PTL DEF ListedFilesExist, Spec

\* What a step that deletes a swapfile is.
LEMMA Deletion ==
  ASSUME HostInv, [Next]_vars, NEW p \in Paths, file[p] > 0, file'[p] = 0
  PROVE  LET h == Head(todo)
         IN  h.do = "unlink" /\ h.on = p /\ NextStepSafe(h) /\ phase \in {"work", "restore"}
<1>1. CASE StepTakes
  <2>1. Head(todo).do = "unlink" /\ Head(todo).on = p
    BY <1>1, FileChanges
  <2> QED BY <1>1, <2>1, Advances
<1>2. CASE UNCHANGED <<file, header, born, fstab, active>>
  BY <1>2
<1> QED BY <1>1, <1>2, OnlyStepsTouchSwap

\* A swapfile is gone only if its removal was asked for, or the snapshot that is
\* restored does not list it.
THEOREM NoSwapfileLost == Spec => NoFileLost
<1>1. HostInv /\ [Next]_vars =>
        [\A p \in Paths : file[p] > 0 /\ file'[p] = 0 =>
           \/ phase = "work" /\ job.change.swap.do = "remove" /\ job.change.swap.on = p
           \/ phase = "restore" /\ p \notin snaps[job.snap].listed]_vars
  <2> SUFFICES ASSUME HostInv, [Next]_vars, NEW p \in Paths, file[p] > 0, file'[p] = 0
               PROVE  \/ phase = "work" /\ job.change.swap.do = "remove" /\ job.change.swap.on = p
                      \/ phase = "restore" /\ p \notin snaps[job.snap].listed
    OBVIOUS
  <2> QED BY Deletion DEF NextStepSafe, Target
<1> QED BY <1>1, HostInvariant, PTL DEF NoFileLost, Spec

\* A restore leaves alone what was activated by hand.
THEOREM HandMadeFilesStay == Spec => UserFilesKept
<1>1. HostInv /\ [Next]_vars =>
        [phase = "restore" =>
           \A p \in Paths : file[p] > 0 /\ file'[p] = 0 =>
             \/ Newer(p, job.snap) \/ SameAge(p, job.snap)
             \/ \E k \in DOMAIN snaps : p \in snaps[k].listed]_vars
  <2> SUFFICES ASSUME HostInv, [Next]_vars, phase = "restore",
                      NEW p \in Paths, file[p] > 0, file'[p] = 0
               PROVE  \/ Newer(p, job.snap) \/ SameAge(p, job.snap)
                      \/ \E k \in DOMAIN snaps : p \in snaps[k].listed
    OBVIOUS
  <2> QED BY Deletion DEF NextStepSafe, Deletable, Known
<1> QED BY <1>1, HostInvariant, PTL DEF UserFilesKept, Spec

\* A restore that reports success has restored: drop-ins, swap entries with a
\* file for each, zram as configured, nothing newer left active.
THEOREM RestoreExact == Spec => RestoreIsExact
<1>1. HostInv /\ [Next]_vars =>
        [phase = "restore" /\ outcome' \in {"ok", "rolled_back"} => Restored]_vars
  <2> SUFFICES ASSUME HostInv, [Next]_vars, phase = "restore", outcome' \in {"ok", "rolled_back"}
               PROVE  Restored
    OBVIOUS
  <2>1. outcome = "none" /\ RestoreInv /\ TypeOK /\ job.snap \in DOMAIN snaps
    BY DEF HostInv, BaseInv
  <2>2. Finish
    <3>1. ~StepAction
      BY RestoreOutcome
    <3>2. ~(Apply \/ Direct \/ Restore \/ Kill \/ Rest \/ UNCHANGED vars)
      BY <2>1 DEF Apply, Direct, Begin, Restore, Kill, Rest, vars, control
    <3>3. ~Fail
      BY <2>1 DEF Fail, GiveUp
    <3> QED BY <3>1, <3>2, <3>3 DEF Next, StepAction
  <2>3. /\ todo = <<>> /\ etc' = etc /\ fstab' = fstab /\ active' = active /\ file' = file
        /\ live' = live
    BY <2>2 DEF Finish, disk, swaps, config
  <2>4. /\ \A kind : ~Has(todo, kind)
        /\ \A kind, p : ~HasFor(todo, kind, p)
        /\ ~Restarts(todo)
    BY <2>3, NoStep DEF Has, HasFor, Restarts
  <2>5. /\ etc = snaps[job.snap].etc /\ fstab = snaps[job.snap].listed
        /\ \A p \in snaps[job.snap].listed : file[p] > 0
    <3>1. /\ etc["zram"] = snaps[job.snap].etc["zram"]
          /\ etc["sysctl"] = snaps[job.snap].etc["sysctl"]
          /\ fstab = snaps[job.snap].listed
          /\ \A p \in snaps[job.snap].listed : file[p] > 0
      BY <2>1, <2>4 DEF RestoreInv, FilesBack
    <3>2. /\ etc \in [zram: Contents \cup {Absent, Off}, sysctl: Contents \cup {Absent}]
          /\ snaps[job.snap].etc \in [zram: Contents \cup {Absent, Off}, sysctl: Contents \cup {Absent}]
      BY <2>1, SnapshotType DEF TypeOK
    <3> QED BY <3>1, <3>2
  <2>6. live["zram"] = Goal(job.snap)
    BY <2>1, <2>4 DEF RestoreInv, ZramBack
  <2>7. \A p \in active : p \in snaps[job.snap].listed \/ ~Newer(p, job.snap)
    BY <2>1, <2>4 DEF RestoreInv, OthersOff
  <2> QED BY <2>3, <2>5, <2>6, <2>7 DEF Restored, Goal
<1> QED BY <1>1, HostInvariant, PTL DEF RestoreIsExact, Spec

\* Whatever a host looks like, nothing but a command that fails keeps a restore
\* from running to its end, or a listed swapfile that no longer existed when the
\* snapshot was taken.
THEOREM RestoreRuns == Spec => RestoreRunsThrough
<1>1. HostInv /\ [Next]_vars =>
        [phase = "restore" /\ outcome' = "failed" /\ faults' = faults =>
           \E p \in snaps[job.snap].listed : snaps[job.snap].size[p] = 0 /\ file[p] = 0]_vars
  <2> SUFFICES ASSUME HostInv, [Next]_vars, phase = "restore", outcome' = "failed", faults' = faults
               PROVE  \E p \in snaps[job.snap].listed : snaps[job.snap].size[p] = 0 /\ file[p] = 0
    OBVIOUS
  <2>1. outcome = "none" /\ ~Fault
    BY DEF HostInv, TypeOK, BaseInv, Fault
  <2>2. StepAction \/ Fail
    <3>1. ~(Apply \/ Direct \/ Restore \/ Finish \/ Kill \/ Rest \/ UNCHANGED vars)
      BY <2>1 DEF Apply, Direct, Begin, Restore, Finish, Kill, Rest, vars, control
    <3> QED BY <3>1 DEF Next, StepAction
  <2>3. todo # <<>>
    BY <2>2 DEF StepAction, Fail, Break, CreateFile, RemoveFile, ResizeFile, Build, Rename, Discard,
           Swapon, TrySwapon, Swapoff, SwapoffNow, List, Unlist, Unlink, Allocate, SetLen, Mkswap,
           WriteZram, WriteSysctl, StartZram, StopZram, LoadSysctl, ReloadSysctl, PutFstab,
           Recreate, Doing
  <2>4. RestoreFits(Head(todo), job.snap) /\ NextStepSafe(Head(todo))
    BY <2>3, RestoreNext, NextStep
  <2>5. ~Advance
    BY <2>1 DEF Advance, control
  <2>6. Recreate /\ Head(todo).do = "recreate"
    <3>1. ~(Fail \/ CreateFile \/ RemoveFile \/ ResizeFile \/ Swapon \/ SwapoffNow \/ LoadSysctl)
      BY <2>4 DEF RestoreFits, RestoreKinds, Fail, CreateFile, RemoveFile, ResizeFile,
                  Swapon, SwapoffNow, LoadSysctl, Doing
    <3>2. ~(Break \/ Build \/ StartZram)
      BY <2>1, <2>5 DEF Break, Build, StartZram
    <3>3. ~(Rename \/ Discard \/ TrySwapon \/ Swapoff \/ List \/ Unlist \/ Unlink
             \/ Allocate \/ SetLen \/ Mkswap \/ WriteZram \/ WriteSysctl \/ StopZram
             \/ ReloadSysctl \/ PutFstab)
      BY <2>5 DEF Rename, Discard, TrySwapon, Swapoff, List, Unlist, Unlink, Allocate, SetLen,
                  Mkswap, WriteZram, WriteSysctl, StopZram, ReloadSysctl, PutFstab
    <3>4. Recreate
      BY <2>2, <3>1, <3>2, <3>3 DEF StepAction
    <3> QED BY <3>4 DEF Recreate, Doing
  <2>7. ~(file[Head(todo).on] > 0) /\ snaps[Head(todo).to].size[Head(todo).on] = 0
    BY <2>1, <2>5, <2>6 DEF Recreate, This, control
  <2>8. /\ Head(todo).to = job.snap /\ Head(todo).on \in snaps[job.snap].listed
        /\ Head(todo).on \in Paths
    BY <2>4, <2>6 DEF RestoreFits, NextStepSafe
  <2>9. file[Head(todo).on] \in 0..MaxSize
    BY <2>8, TypesOfHost DEF HostInv
  <2>10. file[Head(todo).on] = 0
    BY <2>7, <2>9, HostAssumption
  <2> QED BY <2>7, <2>8, <2>10
<1> QED BY <1>1, HostInvariant, PTL DEF RestoreRunsThrough, Spec

=============================================================================
