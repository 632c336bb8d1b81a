--------------------------- MODULE XZramTuningProofs ---------------------------
(***************************************************************************)
(* The tuning of any machine: from advice and from what the user asks for  *)
(* to its effect and back, however many operations follow each other.      *)
(*                                                                         *)
(* The argument is one invariant, TuningInv.  The machine stays one        *)
(* (IsMachine: names are unique, space never runs out, no swap is larger   *)
(* than its file); what is staged can be applied (Stageable); a form that  *)
(* was optimized was optimized for this machine (DraftInv); and the        *)
(* machine can be taken back to the last snapshot (SnapInv), because an    *)
(* apply changes one swapfile at a time and leaves room for the one it     *)
(* removed (Undoable), leaves no swapfile in use that a rollback does not  *)
(* find again (Recalled), and leaves alone what a rollback does not look   *)
(* at (Kept); and a machine that advice was applied to alone has nothing   *)
(* left to advise (AdvisedInv).  The sections before it take an apply and  *)
(* a rollback apart into the swapfiles, the zram devices and the settings, *)
(* and follow the advice through an apply part by part.                    *)
(***************************************************************************)
EXTENDS XZramTuning, XZramLinkedProofs, XZramSizingProofs, FiniteSetTheorems

-----------------------------------------------------------------------------
(* Sums over at most one thing.                                            *)

\* No files take no space.
LEMMA SpaceOfNone ==
  ASSUME NEW h
  PROVE  SpaceOf(h, {}) = 0
<1> DEFINE Step(g, s) == IF s = {} THEN 0
                         ELSE SizeOf(h, CHOOSE x \in s : TRUE) + g[s \ {CHOOSE x \in s : TRUE}]
           it == CHOOSE g : g = [s \in SUBSET {} |-> Step(g, s)]
           w == [s \in SUBSET {} |-> 0]
<1>1. w = [s \in SUBSET {} |-> Step(w, s)]
  OBVIOUS
<1>2. it = [s \in SUBSET {} |-> Step(it, s)]
  BY <1>1
<1>3. it[{}] = 0
  BY <1>2
<1>4. SpaceOf(h, {}) = it[{}]
  BY DEF SpaceOf, MapThenSumSet, MapThenFoldSet
<1> QED BY <1>3, <1>4

\* One file takes its own.
LEMMA SpaceOfOne ==
  ASSUME NEW h, NEW a, SizeOf(h, a) \in Nat
  PROVE  SpaceOf(h, {a}) = SizeOf(h, a)
<1> DEFINE Step(g, s) == IF s = {} THEN 0
                         ELSE SizeOf(h, CHOOSE x \in s : TRUE) + g[s \ {CHOOSE x \in s : TRUE}]
           it == CHOOSE g : g = [s \in SUBSET {a} |-> Step(g, s)]
           w == [s \in SUBSET {a} |-> IF s = {} THEN 0 ELSE SizeOf(h, a)]
<1>0. (CHOOSE x \in {a} : TRUE) = a
  OBVIOUS
<1>a. \A s \in SUBSET {a} : s = {} \/ s = {a}
  OBVIOUS
<1>1. w = [s \in SUBSET {a} |-> Step(w, s)]
  <2>1. \A s \in SUBSET {a} : w[s] = Step(w, s)
    <3> TAKE s \in SUBSET {a}
    <3>1. CASE s = {}
      BY <3>1
    <3>2. CASE s = {a}
      BY <3>2, <1>0
    <3> QED BY <3>1, <3>2, <1>a
  <2> QED BY <2>1
<1>2. it = [s \in SUBSET {a} |-> Step(it, s)]
  BY <1>1
<1> HIDE DEF it
<1>3. it[{}] = 0
  BY <1>2
<1>4. it[{a}] = SizeOf(h, a) + it[{}]
  <2>1. it[{a}] = Step(it, {a})
    BY <1>2
  <2>2. {a} \ {a} = {} /\ {a} # {}
    OBVIOUS
  <2> QED BY <2>1, <2>2, <1>0
<1>5. SpaceOf(h, {a}) = it[{a}]
  BY DEF SpaceOf, MapThenSumSet, MapThenFoldSet, it
<1> QED BY <1>3, <1>4, <1>5
-----------------------------------------------------------------------------
(* Machines, part by part.                                                 *)

\* The part of a machine that is about swapfiles,
SwapPart(h) ==
  /\ h.free \in Nat
  /\ h.disk \subseteq SwapForms /\ h.fstab \subseteq EntryForms /\ h.files \subseteq FileForms
  /\ Unique(h.disk) /\ Unique(h.fstab) /\ Unique(h.files)
  /\ \A s \in h.disk : s.type = "file" => s.kb \div 1024 <= SizeOf(h, s.name)
  /\ \A f \in h.files : f.cow => f.name \notin DiskNames(h)

\* and the part that is about zram.
ZramPart(h) ==
  /\ h.conf \in [Dirs -> {Unset} \cup Seq(SectionForms)]
  /\ \A dir \in Dirs : h.conf[dir] # Unset =>
       \A i, j \in DOMAIN h.conf[dir] : h.conf[dir][i].device = h.conf[dir][j].device => i = j
  /\ h.zram \subseteq DeviceForms /\ Unique(h.zram)

\* A machine is these parts and two numbers.
LEMMA MachineParts ==
  ASSUME NEW h
  PROVE  HasStorage(h) <=> /\ Parts \subseteq DOMAIN h /\ h.ram \in Nat
                          /\ h.legacy \in LegacyForms \cup {Unset}
                          /\ SwapPart(h) /\ ZramPart(h)
<1>1. (\A part \in {"zram", "disk", "files", "fstab"} : Unique(h[part]))
        <=> Unique(h.zram) /\ Unique(h.disk) /\ Unique(h.files) /\ Unique(h.fstab)
  OBVIOUS
<1> QED BY <1>1 DEF HasStorage, SwapPart, ZramPart, Dirs

\* What keeps the fields of a part keeps the part.
LEMMA SwapPartSame ==
  ASSUME NEW h, NEW g, Keeps(h, g, {"free", "disk", "fstab", "files"}), SwapPart(h)
  PROVE  SwapPart(g) /\ \A p : SizeOf(g, p) = SizeOf(h, p)
<1>1. g.free = h.free /\ g.disk = h.disk /\ g.fstab = h.fstab /\ g.files = h.files
  BY DEF Keeps
<1>2. \A p : SizeOf(g, p) = SizeOf(h, p)
  BY <1>1 DEF SizeOf
<1> QED BY <1>1, <1>2 DEF SwapPart, DiskNames

\* The same for zram.
LEMMA ZramPartSame ==
  ASSUME NEW h, NEW g, Keeps(h, g, {"conf", "zram"}), ZramPart(h)
  PROVE  ZramPart(g)
<1>1. g.conf = h.conf /\ g.zram = h.zram
  BY DEF Keeps
<1> QED BY <1>1 DEF ZramPart

\* The size of a file is what its entry says.
LEMMA FileSize ==
  ASSUME NEW h, h.files \subseteq FileForms, Unique(h.files), NEW f \in h.files
  PROVE  SizeOf(h, f.name) = f.mb
<1> DEFINE same == {g \in h.files : g.name = f.name}
<1>1. f \in same /\ \A g \in same : g = f
  BY DEF Unique
<1>2. (CHOOSE g \in same : TRUE) = f
  BY <1>1
<1> QED BY <1>1, <1>2 DEF SizeOf

\* A size is a number, and none where there is no file.
LEMMA SizeIsOfFile ==
  ASSUME NEW h, h.files \subseteq FileForms, Unique(h.files), NEW path
  PROVE  /\ SizeOf(h, path) \in Nat
         /\ SizeOf(h, path) > 0 => \E f \in h.files : f.name = path /\ f.mb = SizeOf(h, path)
         /\ SizeOf(h, path) = 0 => \A f \in h.files : f.name # path
<1>1. CASE \E f \in h.files : f.name = path
  <2>1. PICK f \in h.files : f.name = path
    BY <1>1
  <2>2. SizeOf(h, path) = f.mb /\ f.mb \in Nat /\ f.mb # 0
    BY <2>1, FileSize DEF FileForms
  <2> QED BY <2>1, <2>2
<1>2. CASE ~ \E f \in h.files : f.name = path
  <2>1. SizeOf(h, path) = 0
    BY <1>2 DEF SizeOf
  <2> QED BY <2>1, <1>2
<1> QED BY <1>1, <1>2

\* All files but one have the size they had.
SameSizes(h, g, path) == \A p : p # path => SizeOf(g, p) = SizeOf(h, p)

\* The files of g are those of h, but for the one at path.
LEMMA OtherSizes ==
  ASSUME NEW h, NEW g, NEW path,
         \A f \in g.files : f.name # path => f \in h.files,
         \A f \in h.files : f.name # path => f \in g.files
  PROVE  SameSizes(h, g, path)
<1> SUFFICES ASSUME NEW p, p # path PROVE SizeOf(g, p) = SizeOf(h, p)
  BY DEF SameSizes
<1>1. {f \in g.files : f.name = p} = {f \in h.files : f.name = p}
  OBVIOUS
<1> DEFINE MbOf(S) == IF S = {} THEN 0 ELSE (CHOOSE f \in S : TRUE).mb
<1>2. /\ SizeOf(g, p) = MbOf({f \in g.files : f.name = p})
      /\ SizeOf(h, p) = MbOf({f \in h.files : f.name = p})
  BY DEF SizeOf
<1> HIDE DEF MbOf
<1> QED BY <1>1, <1>2

-----------------------------------------------------------------------------
(* What an apply does to the swapfiles.                                    *)

\* h and g have the same files at every path but this one.
ElsewhereSame(h, g, path) ==
  /\ SameSizes(h, g, path)
  /\ \A p : p # path => (p \in ListedFiles(g) <=> p \in ListedFiles(h))

SwapFields == {"free", "disk", "fstab", "files", "cowdirs", "fresh"}

\* g is h with the swapfile of this path and size.
PutDone(h, g, path, mb) ==
  /\ DOMAIN g = DOMAIN h /\ Keeps(h, g, Parts \ SwapFields) /\ g.fstab = h.fstab
  /\ SwapPart(g) /\ SizeOf(g, path) = mb /\ g.free = h.free + SizeOf(h, path) - mb
  /\ ElsewhereSame(h, g, path) /\ g.fresh = h.fresh \cup {path}

\* A file that fits is put where it should be, and takes the space it needs
\* (create_allocated_swapfile, the staged and the in-place resize).
LEMMA PutSwap ==
  ASSUME NEW h, Parts \subseteq DOMAIN h, SwapPart(h),
         NEW path \in Texts, NEW mb \in Nat \ {0}, NEW prio \in Int,
         mb <= h.free + SizeOf(h, path)
  PROVE  PutDone(h, Put(h, path, mb, prio), path, mb)
<1> SUFFICES ASSUME NEW g, g = Put(h, path, mb, prio)
             PROVE  PutDone(h, g, path, mb)
  OBVIOUS
<1> DEFINE new  == [name |-> path, mb |-> mb, cow |-> FALSE]
           swap == [name |-> path, type |-> "file", kb |-> ReportedKb(mb), prio |-> prio]
<1>1. /\ DOMAIN g = DOMAIN h /\ Keeps(h, g, Parts \ SwapFields) /\ g.fstab = h.fstab
      /\ g.files = {f \in h.files : f.name # path} \cup {new}
      /\ g.disk = {s \in h.disk : s.name # path} \cup {swap}
      /\ g.free = h.free + SizeOf(h, path) - mb
      /\ g.fresh = h.fresh \cup {path}
  BY DEF Put, Parts, SwapFields, Keeps
<1>2. /\ h.free \in Nat /\ h.files \subseteq FileForms /\ Unique(h.files)
      /\ h.disk \subseteq SwapForms /\ Unique(h.disk)
      /\ h.fstab \subseteq EntryForms /\ Unique(h.fstab)
      /\ \A s \in h.disk : s.type = "file" => s.kb \div 1024 <= SizeOf(h, s.name)
  BY DEF SwapPart
<1>3. new \in FileForms /\ new.name = path /\ new.mb = mb
  BY DEF FileForms
<1>4. ReportedKb(mb) \in Nat /\ ReportedKb(mb) \div 1024 <= mb
  BY DEF ReportedKb
<1>5. swap \in SwapForms /\ swap.name = path /\ swap.kb = ReportedKb(mb)
  BY <1>4 DEF SwapForms
<1> HIDE DEF new, swap
<1>6. g.files \subseteq FileForms /\ Unique(g.files) /\ new \in g.files
  BY <1>1, <1>2, <1>3 DEF Unique
<1>7. g.disk \subseteq SwapForms /\ Unique(g.disk)
  BY <1>1, <1>2, <1>5 DEF Unique
<1>8. SizeOf(g, path) = mb
  BY <1>3, <1>6, FileSize
<1>9. SameSizes(h, g, path)
  <2>1. /\ \A f \in g.files : f.name # path => f \in h.files
        /\ \A f \in h.files : f.name # path => f \in g.files
    BY <1>1, <1>3
  <2> QED BY <2>1, OtherSizes
<1>10. SizeOf(h, path) \in Nat
  BY <1>2, SizeIsOfFile
<1>11. g.free \in Nat
  BY <1>1, <1>2, <1>10
<1>12. \A s \in g.disk : s.type = "file" => s.kb \div 1024 <= SizeOf(g, s.name)
  <2> TAKE s \in g.disk
  <2>1. CASE s = swap
    BY <2>1, <1>4, <1>5, <1>8
  <2>2. CASE s \in h.disk /\ s.name # path
    BY <2>2, <1>2, <1>9 DEF SameSizes
  <2> QED BY <2>1, <2>2, <1>1
<1>13. \A p : p # path => (p \in ListedFiles(g) <=> p \in ListedFiles(h))
  BY <1>1 DEF ListedFiles
<1>14. \A f \in g.files : f.cow => f.name \notin DiskNames(g)
  <2> TAKE f \in g.files
  <2> HAVE f.cow
  <2>1. ~ new.cow
    BY DEF new
  <2>2. f \in h.files /\ f.name # path /\ f.name \notin DiskNames(h)
    BY <1>1, <2>1 DEF SwapPart
  <2> QED BY <1>1, <1>5, <2>2 DEF DiskNames
<1> QED BY <1>1, <1>2, <1>6, <1>7, <1>8, <1>9, <1>11, <1>12, <1>13, <1>14
        DEF SwapPart, ElsewhereSame, PutDone

\* The files s lists that are gone from h and can be built again.
Lost(h, s) == {p \in Missing(h, s) : SizeOf(s, p) > 0}

\* At most one file is to be removed and one to be built again, and there is
\* room for it.
Undoable(h, s) ==
  /\ \A a, b \in Extra(h, s) : a = b
  /\ \A a, b \in Lost(h, s) : a = b
  /\ \A p \in Lost(h, s) : SizeOf(s, p) <= h.free

\* One change at one path can be taken back.
LEMMA OneChangeIsUndoable ==
  ASSUME NEW h, NEW g, NEW path, SwapPart(h), SwapPart(g), ElsewhereSame(h, g, path),
         g.fresh \subseteq {path}, SizeOf(g, path) = 0 => SizeOf(h, path) <= g.free
  PROVE  Undoable(g, h)
<1>1. \A p : p # path => SizeOf(g, p) = SizeOf(h, p)
  BY DEF ElsewhereSame, SameSizes
<1>2. \A p \in Extra(g, h) : p = path
  BY DEF ElsewhereSame, Extra
<1>3. \A p : SizeOf(h, p) \in Nat /\ SizeOf(g, p) \in Nat
  BY SizeIsOfFile DEF SwapPart
<1>4. \A p \in Lost(g, h) : SizeOf(g, p) = 0 /\ SizeOf(h, p) > 0
  BY DEF Lost, Missing
<1>5. \A p \in Lost(g, h) : p = path
  BY <1>1, <1>3, <1>4
<1> QED BY <1>2, <1>4, <1>5 DEF Undoable

\* An apply's or a rollback's step on the swapfiles.
SwapStep(h, g) ==
  /\ DOMAIN g = DOMAIN h /\ Keeps(h, g, Parts \ SwapFields)
  /\ SwapPart(g) /\ Undoable(g, h)

\* g is h but for the entry of /etc/fstab at this path.
ListedDone(h, g, path) ==
  /\ DOMAIN g = DOMAIN h /\ Keeps(h, g, Parts \ {"fstab"})
  /\ SwapPart(g) /\ ElsewhereSame(h, g, path)

\* An entry of /etc/fstab is written or replaced.
LEMMA ListedSwap ==
  ASSUME NEW h, Parts \subseteq DOMAIN h, SwapPart(h),
         NEW path \in Texts, NEW prio \in Int
  PROVE  ListedDone(h, Listed(h, path, prio), path)
<1> SUFFICES ASSUME NEW g, g = Listed(h, path, prio)
             PROVE  ListedDone(h, g, path)
  OBVIOUS
<1> DEFINE new == [name |-> path, type |-> "file", there |-> TRUE, prio |-> prio]
<1>1. /\ DOMAIN g = DOMAIN h /\ Keeps(h, g, Parts \ {"fstab"})
      /\ g.fstab = {e \in h.fstab : e.name # path} \cup {new}
  BY DEF Listed, Parts, Keeps
<1>2. new \in EntryForms /\ new.name = path
  BY DEF EntryForms
<1> HIDE DEF new
<1>3. g.fstab \subseteq EntryForms /\ Unique(g.fstab)
  BY <1>1, <1>2 DEF SwapPart, Unique
<1>4. g.free = h.free /\ g.disk = h.disk /\ g.files = h.files
  BY <1>1 DEF Keeps, Parts
<1>5. \A p : SizeOf(g, p) = SizeOf(h, p)
  BY <1>4 DEF SizeOf
<1>6. SwapPart(g)
  BY <1>3, <1>4, <1>5 DEF SwapPart, DiskNames
<1>7. \A p : p # path => (p \in ListedFiles(g) <=> p \in ListedFiles(h))
  BY <1>1, <1>2 DEF ListedFiles
<1> QED BY <1>1, <1>5, <1>6, <1>7 DEF ElsewhereSame, SameSizes, ListedDone

\* A swapfile is created.
LEMMA CreateSwap ==
  ASSUME NEW h, Parts \subseteq DOMAIN h, SwapPart(h),
         NEW c \in CreateForms, c.size > 0, h.free >= c.size, h.fresh = {}
  PROVE  SwapStep(h, Create(h, c))
<1> DEFINE g == Put(h, c.path, c.size, c.prio)
           k == Create(h, c)
<1>1. c.path \in Texts /\ c.size \in Nat \ {0} /\ c.prio \in Int
  BY DEF CreateForms
<1>2. c.size <= h.free + SizeOf(h, c.path)
  BY <1>1, SizeIsOfFile DEF SwapPart
<1>3. /\ DOMAIN g = DOMAIN h /\ Keeps(h, g, Parts \ SwapFields) /\ g.fstab = h.fstab
      /\ SwapPart(g) /\ SizeOf(g, c.path) = c.size
      /\ ElsewhereSame(h, g, c.path) /\ g.fresh = {c.path}
  <2>1. PutDone(h, g, c.path, c.size)
    BY <1>1, <1>2, PutSwap
  <2> HIDE DEF g
  <2> QED BY <2>1 DEF PutDone
<1>4. k = Listed(g, c.path, c.prio)
  BY DEF Create
<1> HIDE DEF g, k
<1>5. /\ DOMAIN k = DOMAIN g /\ Keeps(g, k, Parts \ {"fstab"})
      /\ SwapPart(k) /\ ElsewhereSame(g, k, c.path)
  <2>1. ListedDone(g, k, c.path)
    BY <1>1, <1>3, <1>4, ListedSwap
  <2> QED BY <2>1 DEF ListedDone
<1>6. Keeps(h, k, Parts \ SwapFields)
  BY <1>3, <1>5 DEF Keeps, SwapFields
<1>7. SizeOf(k, c.path) = c.size
  <2>1. k.files = g.files
    BY <1>5 DEF Keeps, Parts
  <2> QED BY <2>1, <1>3 DEF SizeOf
<1>8. ElsewhereSame(h, k, c.path)
  BY <1>3, <1>5 DEF ElsewhereSame, SameSizes
<1>9. Undoable(k, h)
  <2>1. k.fresh = g.fresh
    BY <1>5 DEF Keeps, Parts
  <2> QED BY <1>1, <1>3, <1>5, <1>7, <1>8, <2>1, OneChangeIsUndoable
<1> QED BY <1>3, <1>5, <1>6, <1>9 DEF SwapStep, k

\* A swapfile is removed.
LEMMA RemoveSwap ==
  ASSUME NEW h, Parts \subseteq DOMAIN h, SwapPart(h), NEW path, h.fresh = {}
  PROVE  SwapStep(h, Remove(h, path))
<1> DEFINE g == Remove(h, path)
<1>1. /\ DOMAIN g = DOMAIN h /\ Keeps(h, g, Parts \ SwapFields)
      /\ g.files = {f \in h.files : f.name # path}
      /\ g.disk = {s \in h.disk : s.name # path}
      /\ g.fstab = {e \in h.fstab : e.name # path}
      /\ g.free = h.free + SizeOf(h, path)
      /\ g.fresh = h.fresh \ {path}
  BY DEF Remove, Drop, Parts, SwapFields, Keeps
<1> HIDE DEF g
<1>2. /\ h.free \in Nat /\ h.files \subseteq FileForms /\ Unique(h.files)
      /\ h.disk \subseteq SwapForms /\ Unique(h.disk)
      /\ h.fstab \subseteq EntryForms /\ Unique(h.fstab)
      /\ \A s \in h.disk : s.type = "file" => s.kb \div 1024 <= SizeOf(h, s.name)
  BY DEF SwapPart
<1>3. /\ g.files \subseteq FileForms /\ Unique(g.files)
      /\ g.disk \subseteq SwapForms /\ Unique(g.disk)
      /\ g.fstab \subseteq EntryForms /\ Unique(g.fstab)
  BY <1>1, <1>2 DEF Unique
<1>4. SizeOf(h, path) \in Nat
  BY <1>2, SizeIsOfFile
<1>5. SameSizes(h, g, path)
  <2>1. /\ \A f \in g.files : f.name # path => f \in h.files
        /\ \A f \in h.files : f.name # path => f \in g.files
    BY <1>1
  <2> QED BY <2>1, OtherSizes
<1>6. SwapPart(g)
  <2>1. \A s \in g.disk : s.type = "file" => s.kb \div 1024 <= SizeOf(g, s.name)
    BY <1>1, <1>2, <1>5 DEF SameSizes
  <2>2. g.free \in Nat
    BY <1>1, <1>2, <1>4
  <2>3. \A f \in g.files : f.cow => f.name \notin DiskNames(g)
    BY <1>1 DEF SwapPart, DiskNames
  <2> QED BY <1>3, <2>1, <2>2, <2>3 DEF SwapPart
<1>7. ElsewhereSame(h, g, path)
  BY <1>1, <1>5 DEF ElsewhereSame, ListedFiles
<1>8. SizeOf(h, path) <= g.free
  BY <1>1, <1>2, <1>4
<1>9. Undoable(g, h)
  BY <1>1, <1>6, <1>7, <1>8, OneChangeIsUndoable
<1> QED BY <1>1, <1>6, <1>9 DEF SwapStep, g

\* A resized file gets a priority that is one.
LEMMA PriorityIsNumber ==
  ASSUME NEW h, SwapPart(h), NEW path
  PROVE  PriorityOf(h, path) \in Int
<1> DEFINE listed == {e \in h.fstab : e.name = path /\ e.type = "file"}
<1>1. listed \subseteq EntryForms
  BY DEF SwapPart
<1>2. listed # {} => (CHOOSE e \in listed : TRUE) \in EntryForms
  BY <1>1
<1>3. PriorityOf(h, path) = IF listed = {} THEN 10 ELSE (CHOOSE e \in listed : TRUE).prio
  BY DEF PriorityOf
<1> HIDE DEF listed
<1> QED BY <1>2, <1>3 DEF EntryForms

\* Nothing is done to the swapfiles, and the snapshot has nothing to undo.
LEMMA AgedSwap ==
  ASSUME NEW h, Parts \subseteq DOMAIN h, SwapPart(h)
  PROVE  /\ DOMAIN Aged(h) = DOMAIN h /\ Keeps(h, Aged(h), Parts \ {"fresh"})
         /\ Aged(h).fresh = {} /\ SwapStep(h, Aged(h))
<1> DEFINE g == Aged(h)
<1>1. DOMAIN g = DOMAIN h /\ Keeps(h, g, Parts \ {"fresh"}) /\ g.fresh = {}
  BY DEF Aged, Parts, Keeps
<1> HIDE DEF g
<1>2. g.free = h.free /\ g.disk = h.disk /\ g.files = h.files /\ g.fstab = h.fstab
  BY <1>1 DEF Keeps, Parts
<1>3. SwapPart(g) /\ \A p : SizeOf(g, p) = SizeOf(h, p)
  BY <1>2, SwapPartSame DEF Keeps
<1>4. \A p : SizeOf(h, p) \in Nat
  BY SizeIsOfFile DEF SwapPart
<1>5. Undoable(g, h)
  BY <1>1, <1>2, <1>3, <1>4 DEF Undoable, Extra, Lost, Missing, ListedFiles
<1>6. Keeps(h, g, Parts \ SwapFields)
  BY <1>1 DEF Keeps, SwapFields
<1> QED BY <1>1, <1>3, <1>5, <1>6 DEF SwapStep, g

\* A swapfile is resized, one way or the other.
LEMMA ResizeSwap ==
  ASSUME NEW h, Parts \subseteq DOMAIN h, SwapPart(h),
         NEW r \in ResizeForms, r.size > 0, CanResize(h, r)
  PROVE  /\ DOMAIN Resize(h, r) = DOMAIN h /\ Keeps(h, Resize(h, r), Parts \ SwapFields)
         /\ SwapPart(Resize(h, r)) /\ ElsewhereSame(h, Resize(h, r), r.path)
         /\ SizeOf(Resize(h, r), r.path) = r.size
         /\ Resize(h, r).fresh \in {h.fresh, h.fresh \cup {r.path}}
<1> DEFINE prio == PriorityOf(h, r.path)
           put  == Put(h, r.path, r.size, prio)
<1>1. r.path \in Texts /\ r.size \in Nat \ {0} /\ prio \in Int /\ r # Unset
  BY PriorityIsNumber, UnsetIsNothing DEF ResizeForms
<1>2. SizeOf(h, r.path) \in Nat /\ h.free \in Nat
  BY SizeIsOfFile DEF SwapPart
<1>3. r.size <= h.free + SizeOf(h, r.path)
  BY <1>1, <1>2 DEF CanResize, Strategy, Most
<1>4. PutDone(h, put, r.path, r.size)
  BY <1>1, <1>3, PutSwap
<1>5. Resize(h, r) = IF Strategy(h, r.path, r.size) = "staged" THEN put ELSE InPlace(h, put, r)
  BY <1>1 DEF Resize
<1>a. put.disk = {s \in h.disk : s.name # r.path} \cup {[name |-> r.path, type |-> "file",
                                                    kb |-> ReportedKb(r.size), prio |-> prio]}
  BY DEF Put, Parts
<1> HIDE DEF put
<1>6. CASE Strategy(h, r.path, r.size) = "staged"
  BY <1>4, <1>5, <1>6 DEF PutDone
<1>7. CASE Strategy(h, r.path, r.size) # "staged"
  <2> DEFINE g == InPlace(h, put, r)
             Grown(f) == IF f.name = r.path THEN [f EXCEPT !.mb = r.size] ELSE f
  <2>0. \A f \in h.files : f.name = r.path => ~ f.cow
    BY <1>7 DEF CanResize
  <2>1. PICK f \in h.files : f.name = r.path
    <3>1. SizeOf(h, r.path) > 0
      BY <1>1, <1>2, <1>7 DEF CanResize, Strategy, Most
    <3> QED BY <3>1, SizeIsOfFile DEF SwapPart
  <2>2. /\ DOMAIN g = DOMAIN put /\ Keeps(put, g, Parts \ {"files", "cowdirs", "fresh"})
        /\ g.files = {Grown(e) : e \in h.files} /\ g.fresh = h.fresh
    <3>1. "files" \in DOMAIN put /\ "fresh" \in DOMAIN put
      BY <1>4 DEF PutDone, Parts
    <3> DEFINE grown == {Grown(e) : e \in h.files}
    <3>2. g = [put EXCEPT !.files = grown, !.cowdirs = h.cowdirs, !.fresh = h.fresh]
      BY DEF InPlace
    <3> HIDE DEF g, grown
    <3>3. DOMAIN g = DOMAIN put /\ g.files = grown /\ g.fresh = h.fresh
      BY <3>1, <3>2
    <3>4. Keeps(put, g, Parts \ {"files", "cowdirs", "fresh"})
      BY <1>4, <3>2 DEF Keeps, PutDone
    <3> QED BY <3>3, <3>4 DEF grown
  <2> HIDE DEF g
  <2>3. \A e \in h.files : /\ Grown(e) \in FileForms /\ Grown(e).name = e.name
                           /\ e.name # r.path => Grown(e) = e
                           /\ e.name = r.path => Grown(e).mb = r.size
                           /\ Grown(e).cow = e.cow
    BY <1>1 DEF SwapPart, FileForms
  <2> HIDE DEF Grown
  <2>4. g.files \subseteq FileForms /\ Unique(g.files)
    BY <2>2, <2>3 DEF SwapPart, Unique
  <2>5. SizeOf(g, r.path) = r.size
    <3>1. Grown(f) \in g.files /\ Grown(f).name = r.path /\ Grown(f).mb = r.size
      BY <2>1, <2>2, <2>3
    <3> QED BY <3>1, <2>4, FileSize
  <2>6. SameSizes(h, g, r.path)
    <3>1. /\ \A e \in g.files : e.name # r.path => e \in h.files
          /\ \A e \in h.files : e.name # r.path => e \in g.files
      BY <2>2, <2>3
    <3> QED BY <3>1, OtherSizes
  <2>7. /\ g.free = put.free /\ g.disk = put.disk /\ g.fstab = put.fstab
        /\ g.fstab = h.fstab
    BY <1>4, <2>2 DEF Keeps, Parts, PutDone
  <2>8. \A p : SizeOf(g, p) = SizeOf(put, p)
    BY <1>4, <2>5, <2>6 DEF PutDone, ElsewhereSame, SameSizes
  <2>9. SwapPart(g)
    <3>1. \A e \in g.files : e.cow => e.name \notin DiskNames(g)
      <4> TAKE e \in g.files
      <4> HAVE e.cow
      <4>1. PICK d \in h.files : e = Grown(d)
        BY <2>2
      <4>2. e.name # r.path /\ d.name = e.name /\ d.cow
        BY <2>0, <2>3, <4>1
      <4>3. e.name \notin DiskNames(h)
        BY <4>2 DEF SwapPart
      <4> QED BY <1>a, <2>7, <4>2, <4>3 DEF DiskNames
    <3> QED BY <1>4, <2>4, <2>7, <2>8, <3>1 DEF PutDone, SwapPart
  <2>10. ElsewhereSame(h, g, r.path)
    BY <2>6, <2>7 DEF ElsewhereSame, ListedFiles
  <2>11. DOMAIN g = DOMAIN h /\ Keeps(h, g, Parts \ SwapFields)
    BY <1>4, <2>2 DEF PutDone, Keeps, SwapFields
  <2> QED BY <1>5, <1>7, <2>2, <2>5, <2>9, <2>10, <2>11 DEF g
<1> QED BY <1>6, <1>7

\* What is staged, or asked for directly: sizes are positive and one file changes.
SwapAsked(p) ==
  /\ p \in Forms
  /\ p.create # Unset => p.create.size > 0
  /\ p.resize # Unset => p.resize.size > 0
  /\ OneSwapChange(p)

\* Whatever is asked of the swapfiles keeps them in order and can be undone.
LEMMA SwapChangedStep ==
  ASSUME NEW h, Parts \subseteq DOMAIN h, SwapPart(h),
         NEW p, SwapAsked(p),
         p.create # Unset /\ p.remove = Unset => h.free >= p.create.size,
         p.resize # Unset => CanResize(h, p.resize)
  PROVE  SwapStep(h, SwapChanged(h, p))
<1> DEFINE a == Aged(h)
           g == SwapChanged(h, p)
<1>1. /\ p.create # Unset => p.create \in CreateForms /\ p.create.size > 0
      /\ p.resize # Unset => p.resize \in ResizeForms /\ p.resize.size > 0
  BY DEF SwapAsked, Forms
<1>2. /\ p.create # Unset => p.remove = Unset /\ p.resize = Unset
      /\ p.resize # Unset => p.remove = Unset /\ p.create = Unset
      /\ p.remove # Unset => p.create = Unset /\ p.resize = Unset
  BY DEF SwapAsked, OneSwapChange
<1>3. /\ DOMAIN a = DOMAIN h /\ Keeps(h, a, Parts \ {"fresh"})
      /\ a.fresh = {} /\ SwapStep(h, a)
  BY AgedSwap
<1>4. /\ Parts \subseteq DOMAIN a /\ SwapPart(a)
      /\ a.free = h.free /\ a.files = h.files /\ a.fstab = h.fstab
  BY <1>3 DEF SwapStep, Keeps, Parts
<1>5. \A q : SizeOf(a, q) = SizeOf(h, q)
  BY <1>4 DEF SizeOf
<1>6. p.resize # Unset => CanResize(a, p.resize)
  BY <1>4, <1>5 DEF CanResize, Strategy
<1>7. SwapStep(a, g)
  <2>1. CASE p.resize # Unset
    <3>1. g = Resize(a, p.resize)
      BY <1>2, <2>1 DEF SwapChanged
    <3> HIDE DEF g, a
    <3>2. /\ DOMAIN g = DOMAIN a /\ Keeps(a, g, Parts \ SwapFields)
          /\ SwapPart(g) /\ ElsewhereSame(a, g, p.resize.path)
          /\ SizeOf(g, p.resize.path) = p.resize.size
          /\ g.fresh \subseteq {p.resize.path}
      <4> DEFINE r == p.resize
      <4>1. r \in ResizeForms /\ r.size > 0 /\ CanResize(a, r) /\ g = Resize(a, r)
        BY <1>1, <1>6, <2>1, <3>1
      <4> HIDE DEF r
      <4>2. /\ DOMAIN g = DOMAIN a /\ Keeps(a, g, Parts \ SwapFields)
            /\ SwapPart(g) /\ ElsewhereSame(a, g, r.path) /\ SizeOf(g, r.path) = r.size
            /\ g.fresh \in {a.fresh, a.fresh \cup {r.path}}
        BY <1>4, <4>1, ResizeSwap
      <4> QED BY <1>3, <4>2 DEF r
    <3>3. Undoable(g, a)
      BY <1>1, <1>4, <2>1, <3>2, OneChangeIsUndoable DEF ResizeForms
    <3> QED BY <3>2, <3>3 DEF SwapStep
  <2>2. CASE p.create # Unset
    <3>1. g = Create(a, p.create)
      BY <1>2, <2>2 DEF SwapChanged, Resize
    <3> QED BY <1>1, <1>2, <1>3, <1>4, <2>2, <3>1, CreateSwap
  <2>3. CASE p.remove # Unset
    <3>1. g = Remove(a, p.remove)
      BY <1>2, <2>3 DEF SwapChanged, Resize
    <3> QED BY <1>3, <1>4, <3>1, RemoveSwap
  <2>4. CASE p.create = Unset /\ p.resize = Unset /\ p.remove = Unset
    <3>1. g = a
      BY <2>4 DEF SwapChanged, Resize
    <3>2. Aged(a) = a
      BY <1>3, <1>4 DEF Aged, Parts
    <3> QED BY <1>4, <3>1, <3>2, AgedSwap
  <2> QED BY <2>1, <2>2, <2>3, <2>4
<1>8. Undoable(g, h)
  <2>1. ListedFiles(a) = ListedFiles(h)
    BY <1>4 DEF ListedFiles
  <2>2. Extra(g, a) = Extra(g, h) /\ Lost(g, a) = Lost(g, h)
    BY <1>5, <2>1 DEF Extra, Lost, Missing
  <2> QED BY <1>5, <1>7, <2>2 DEF SwapStep, Undoable
<1>9. DOMAIN g = DOMAIN h /\ Keeps(h, g, Parts \ SwapFields)
  BY <1>3, <1>7 DEF SwapStep, Keeps, SwapFields
<1> QED BY <1>7, <1>8, <1>9 DEF SwapStep

-----------------------------------------------------------------------------
(* What an apply does to the zram devices.                                 *)

\* Sections as a file gives them, each for a device of its own.
SectionList(s) ==
  /\ s \in Seq(SectionForms)
  /\ \A i, j \in DOMAIN s : s[i].device = s[j].device => i = j

\* The configuration that is read is that of a directory that has one.
LEMMA LayerIsDirectory ==
  ASSUME NEW h, Layer(h) # Unset
  PROVE  Layer(h) \in Dirs /\ h.conf[Layer(h)] # Unset
<1> DEFINE found == {i \in DOMAIN Layers : h.conf[Layers[i]] # Unset}
<1>1. DOMAIN Layers = 1..4
  BY DEF Layers
<1>2. Layer(h) = Layers[Min(found)] /\ found # {} /\ found \subseteq 1..4
  BY <1>1 DEF Layer
<1>3. \A i \in found : h.conf[Layers[i]] # Unset
  OBVIOUS
<1> HIDE DEF found
<1>4. \E i \in found : \A j \in found : i <= j
  <2>1. CASE 1 \in found
    BY <1>2, <2>1
  <2>2. CASE 1 \notin found /\ 2 \in found
    BY <1>2, <2>2
  <2>3. CASE 1 \notin found /\ 2 \notin found /\ 3 \in found
    BY <1>2, <2>3
  <2>4. CASE 1 \notin found /\ 2 \notin found /\ 3 \notin found
    <3>1. \A i \in found : i = 4
      BY <1>2, <2>4
    <3>2. PICK i \in found : TRUE
      BY <1>2
    <3> QED BY <3>1, <3>2
  <2> QED BY <2>1, <2>2, <2>3, <2>4
<1>5. Min(found) \in found
  BY <1>4 DEF Min
<1>6. \A i \in 1..4 : Layers[i] \in Dirs
  BY DEF Layers, Dirs
<1> QED BY <1>2, <1>3, <1>5, <1>6

\* What is read of a configuration is a list of sections.
LEMMA SectionsForm ==
  ASSUME NEW h, ZramPart(h)
  PROVE  SectionList(Sections(h))
<1>1. CASE Layer(h) = Unset
  <2>1. Sections(h) = <<>>
    BY <1>1 DEF Sections
  <2> QED BY <2>1 DEF SectionList
<1>2. CASE Layer(h) # Unset
  <2> DEFINE s == h.conf[Layer(h)]
             t == Sections(h)
             Read(x) == [x EXCEPT !.rest = FALSE]
  <2>1. /\ s \in Seq(SectionForms)
        /\ \A i, j \in DOMAIN s : s[i].device = s[j].device => i = j
    BY <1>2, LayerIsDirectory DEF ZramPart
  <2>2. t = [i \in DOMAIN s |-> Read(s[i])]
    BY <1>2 DEF Sections
  <2> HIDE DEF s, t
  <2>3. \A x \in SectionForms : Read(x) \in SectionForms /\ Read(x).device = x.device
    BY DEF SectionForms
  <2> HIDE DEF Read
  <2>4. \A i \in DOMAIN s : s[i] \in SectionForms
    BY <2>1
  <2>5. DOMAIN t = 1..Len(s) /\ Len(s) \in Nat /\ DOMAIN s = 1..Len(s)
    BY <2>1, <2>2
  <2>6. t \in Seq(SectionForms)
    BY <2>2, <2>3, <2>4, <2>5
  <2> QED BY <2>1, <2>2, <2>3, <2>4, <2>5, <2>6 DEF SectionList, t
<1> QED BY <1>1, <1>2

\* g is h but for the zram devices and their configuration.
ZramStep(h, g) ==
  DOMAIN g = DOMAIN h /\ Keeps(h, g, Parts \ {"zram", "conf"}) /\ ZramPart(g)

\* A list of sections is written to /etc.
LEMMA ConfigurationWritten ==
  ASSUME NEW h, Parts \subseteq DOMAIN h, ZramPart(h),
         NEW s, s = Unset \/ SectionList(s)
  PROVE  ZramStep(h, [h EXCEPT !.conf["etc"] = s])
<1> DEFINE g    == [h EXCEPT !.conf["etc"] = s]
           conf == [h.conf EXCEPT !["etc"] = s]
<1>1. g = [h EXCEPT !.conf = conf]
  OBVIOUS
<1> HIDE DEF g
<1>2. DOMAIN h.conf = Dirs /\ "etc" \in Dirs
  BY DEF ZramPart, Dirs
<1>3. conf \in [Dirs -> {Unset} \cup Seq(SectionForms)]
  BY <1>2 DEF ZramPart, SectionList
<1>4. \A dir \in Dirs : conf[dir] # Unset =>
        \A i, j \in DOMAIN conf[dir] : conf[dir][i].device = conf[dir][j].device => i = j
  BY <1>2 DEF ZramPart, SectionList
<1> HIDE DEF conf
<1>5. DOMAIN g = DOMAIN h /\ Keeps(h, g, Parts \ {"conf"}) /\ g.conf = conf
  BY <1>1 DEF Keeps, Parts
<1>6. g.zram = h.zram /\ Keeps(h, g, Parts \ {"zram", "conf"})
  BY <1>5 DEF Keeps, Parts
<1>7. g.zram \subseteq DeviceForms /\ Unique(g.zram)
  BY <1>6 DEF ZramPart
<1>8. ZramPart(g)
  BY <1>3, <1>4, <1>5, <1>7 DEF ZramPart
<1> QED BY <1>5, <1>6, <1>8 DEF ZramStep, g

\* A section is replaced or added, and is the only one for its device.
LEMMA ConfigureStep ==
  ASSUME NEW h, Parts \subseteq DOMAIN h, ZramPart(h), NEW z \in ZramForms
  PROVE  ZramStep(h, Configure(h, z))
<1> DEFINE section == [device |-> z.device, size |-> z.size, limit |-> z.limit,
                       algo |-> z.algo, prio |-> z.prio, mount |-> FALSE, rest |-> FALSE]
           t    == Sections(h)
           same == {i \in DOMAIN t : t[i].device = z.device}
           s    == IF same = {} THEN Append(t, section) ELSE [t EXCEPT ![Min(same)] = section]
<1>1. SectionList(t)
  BY SectionsForm
<1>2. Configure(h, z) = [h EXCEPT !.conf["etc"] = s]
  BY DEF Configure
<1>3. section \in SectionForms /\ section.device = z.device
  BY DEF ZramForms, SectionForms
<1> HIDE DEF section, t
<1>4. SectionList(s)
  <2>1. CASE same = {}
    <3>1. s = Append(t, section) /\ \A i \in DOMAIN t : t[i].device # z.device
      BY <2>1
    <3> HIDE DEF s, same
    <3>2. /\ t \in Seq(SectionForms) /\ s \in Seq(SectionForms)
          /\ DOMAIN t = 1..Len(t) /\ DOMAIN s = 1..Len(t) + 1 /\ Len(t) \in Nat
          /\ \A i \in 1..Len(t) : s[i] = t[i]
          /\ s[Len(t) + 1] = section
      BY <1>1, <1>3, <3>1 DEF SectionList
    <3> QED BY <1>1, <1>3, <3>1, <3>2 DEF SectionList
  <2>2. CASE same # {}
    <3>1. PICK k : same = {k} /\ k \in DOMAIN t /\ t[k].device = z.device
      BY <1>1, <2>2 DEF SectionList
    <3>2. t \in Seq(SectionForms) /\ DOMAIN t = 1..Len(t) /\ Len(t) \in Nat
      BY <1>1 DEF SectionList
    <3>3. Min(same) = k
      BY <3>1, <3>2 DEF Min
    <3>4. s = [t EXCEPT ![k] = section]
      BY <2>2, <3>3
    <3>5. \A i \in DOMAIN t : t[i].device = z.device => i = k
      BY <3>1
    <3> HIDE DEF s, same
    <3>6. s \in Seq(SectionForms) /\ DOMAIN s = DOMAIN t
      BY <1>3, <3>1, <3>2, <3>4
    <3> QED BY <1>1, <1>3, <3>1, <3>4, <3>5, <3>6 DEF SectionList
  <2> QED BY <2>1, <2>2
<1> HIDE DEF s
<1> QED BY <1>2, <1>4, ConfigurationWritten

\* The devices are stopped.
LEMMA StopStep ==
  ASSUME NEW h, Parts \subseteq DOMAIN h, ZramPart(h)
  PROVE  ZramStep(h, Stop(h))
<1> DEFINE g == Stop(h)
           Off(d) == [d EXCEPT !.swap = FALSE]
<1>1. DOMAIN g = DOMAIN h /\ Keeps(h, g, Parts \ {"zram"}) /\ g.zram = {Off(d) : d \in h.zram}
  BY DEF Stop, Keeps, Parts
<1>2. \A d \in h.zram : Off(d) \in DeviceForms /\ Off(d).name = d.name
  BY DEF ZramPart, DeviceForms
<1> HIDE DEF g, Off
<1>3. g.zram \subseteq DeviceForms /\ Unique(g.zram)
  BY <1>1, <1>2 DEF ZramPart, Unique
<1>4. g.conf = h.conf /\ Keeps(h, g, Parts \ {"zram", "conf"})
  BY <1>1 DEF Keeps, Parts
<1> QED BY <1>1, <1>3, <1>4 DEF ZramStep, ZramPart, g

\* Devices are started as their sections say, and each is one device.
LEMMA RestartStep ==
  ASSUME NEW h, Parts \subseteq DOMAIN h, ZramPart(h), NEW devices
  PROVE  ZramStep(h, Restart(h, devices))
<1> DEFINE g == Restart(h, devices)
           t == Sections(h)
           found   == {i \in DOMAIN t : t[i].device \in devices}
           started == {Started(t[i]) : i \in found}
<1>1. DOMAIN g = DOMAIN h /\ Keeps(h, g, Parts \ {"zram"})
      /\ g.zram = {d \in h.zram : \A s \in started : s.name # d.name} \cup started
  BY DEF Restart, Keeps, Parts
<1>2. SectionList(t)
  BY SectionsForm
<1> HIDE DEF g, t
<1>3. \A s \in SectionForms : Started(s) \in DeviceForms /\ Started(s).name = s.device
  BY DEF Started, SectionForms, DeviceForms
<1>4. \A i \in DOMAIN t : t[i] \in SectionForms
  BY <1>2 DEF SectionList
<1>5. started \subseteq DeviceForms /\ Unique(started)
  BY <1>2, <1>3, <1>4 DEF SectionList, Unique
<1> HIDE DEF started
<1>6. g.zram \subseteq DeviceForms /\ Unique(g.zram)
  BY <1>1, <1>5 DEF ZramPart, Unique
<1>7. g.conf = h.conf /\ Keeps(h, g, Parts \ {"zram", "conf"})
  BY <1>1 DEF Keeps, Parts
<1> QED BY <1>1, <1>6, <1>7 DEF ZramStep, ZramPart, g

\* Whatever is asked of zram keeps the devices in order.
LEMMA ZramChangedStep ==
  ASSUME NEW h, Parts \subseteq DOMAIN h, ZramPart(h), NEW p \in Forms
  PROVE  ZramStep(h, ZramChanged(h, p))
<1>1. CASE p.disable
  <2> DEFINE g == Stop(h)
             k == [g EXCEPT !.conf["etc"] = <<>>]
  <2>1. ZramStep(h, g)
    BY StopStep
  <2>2. ZramChanged(h, p) = k
    BY <1>1 DEF ZramChanged, Disable
  <2> HIDE DEF g
  <2>3. SectionList(<<>>)
    BY DEF SectionList
  <2>4. ZramStep(g, k)
    BY <2>1, <2>3, ConfigurationWritten DEF ZramStep
  <2> HIDE DEF k
  <2> QED BY <2>1, <2>2, <2>4 DEF ZramStep, Keeps
<1>2. CASE ~ p.disable /\ p.zram # Unset
  <2> DEFINE g == Configure(h, p.zram)
             k == Restart(g, Devices(Sections(g)))
  <2>1. p.zram \in ZramForms
    BY <1>2 DEF Forms
  <2>2. ZramStep(h, g)
    BY <2>1, ConfigureStep
  <2>3. ZramChanged(h, p) = k
    BY <1>2 DEF ZramChanged, RestartAll
  <2> HIDE DEF g
  <2>4. ZramStep(g, k)
    BY <2>2, RestartStep DEF ZramStep
  <2> HIDE DEF k
  <2> QED BY <2>2, <2>3, <2>4 DEF ZramStep, Keeps
<1>3. CASE ~ p.disable /\ p.zram = Unset
  BY <1>3 DEF ZramChanged, ZramStep, Keeps
<1> QED BY <1>1, <1>2, <1>3

-----------------------------------------------------------------------------
(* The whole of an apply.                                                  *)

\* The fields no setting is in.
Core == {"ram", "free", "conf", "zram", "disk", "fstab", "files", "fresh"}

\* A step on the settings alone.
SettingStep(h, g) ==
  /\ DOMAIN g = DOMAIN h /\ Keeps(h, g, Core)
  /\ h.legacy \in LegacyForms \cup {Unset} => g.legacy \in LegacyForms \cup {Unset}

\* Steps on the settings are one step on the settings.
LEMMA SettingStepsCompose ==
  ASSUME NEW h, NEW g, NEW k, SettingStep(h, g), SettingStep(g, k)
  PROVE  SettingStep(h, k)
BY DEF SettingStep, Keeps

\* The parts of an apply that change settings change nothing else.
LEMMA SettingSteps ==
  ASSUME NEW h, Parts \subseteq DOMAIN h, NEW values
  PROVE  /\ SettingStep(h, SetSysctl(h, values))
         /\ SettingStep(h, Prepare(h, values))
         /\ SettingStep(h, DisableZswap(h, values))
         /\ SettingStep(h, EnableOomd(h, values))
         /\ SettingStep(h, SetMm(h, values))
         /\ SettingStep(h, Finalize(h, values))
<1>1. SettingStep(h, SetSysctl(h, values))
  <2> DEFINE e == [h EXCEPT !.etc["sysctl"] = IF @ = Unset THEN values ELSE Overlaid(@, values)]
             l == Loaded(e)
  <2>1. SetSysctl(h, values) = IF values = Unset THEN h ELSE [e EXCEPT !.sysctl = l]
    BY DEF SetSysctl, Reload
  <2>2. DOMAIN e = DOMAIN h /\ Keeps(h, e, Core) /\ e.legacy = h.legacy
    BY DEF Keeps, Core
  <2> HIDE DEF e, l
  <2> QED BY <2>1, <2>2 DEF SettingStep, Keeps, Core
<1>2. SettingStep(h, Prepare(h, values))
  BY DEF SettingStep, Keeps, Core, Prepare
<1>3. SettingStep(h, DisableZswap(h, values))
  BY DEF SettingStep, Keeps, Core, DisableZswap
<1>4. SettingStep(h, EnableOomd(h, values))
  BY DEF SettingStep, Keeps, Core, EnableOomd
<1>5. SettingStep(h, SetMm(h, values))
  BY DEF SettingStep, Keeps, Core, SetMm
<1>6. SettingStep(h, Finalize(h, values))
  BY DEF SettingStep, Keeps, Core, Finalize, Parts
<1> QED BY <1>1, <1>2, <1>3, <1>4, <1>5, <1>6

\* A step on the settings keeps a machine one.
LEMMA SettingsKeepMachine ==
  ASSUME NEW h, HasStorage(h), NEW g, SettingStep(h, g)
  PROVE  HasStorage(g)
<1>1. Keeps(h, g, {"free", "disk", "fstab", "files"}) /\ Keeps(h, g, {"conf", "zram"})
      /\ g.ram = h.ram
  BY DEF SettingStep, Keeps, Core
<1>2. SwapPart(h) /\ ZramPart(h)
  BY MachineParts
<1>3. SwapPart(g) /\ ZramPart(g)
  BY <1>1, <1>2, SwapPartSame, ZramPartSame
<1>4. Parts \subseteq DOMAIN g /\ g.ram \in Nat /\ g.legacy \in LegacyForms \cup {Unset}
  BY <1>1, MachineParts DEF SettingStep
<1> QED BY <1>3, <1>4, MachineParts

\* A step on the settings leaves what can be undone.
LEMMA SettingsStayUndoable ==
  ASSUME NEW h, NEW g, NEW s, SettingStep(h, g), Undoable(h, s)
  PROVE  Undoable(g, s)
<1>1. /\ g.free = h.free /\ g.fstab = h.fstab /\ g.files = h.files
      /\ g.disk = h.disk /\ g.fresh = h.fresh
  BY DEF SettingStep, Keeps, Core
<1>2. /\ ListedFiles(g) = ListedFiles(h) /\ \A p : SizeOf(g, p) = SizeOf(h, p)
      /\ ActiveFiles(g) \cap g.fresh = ActiveFiles(h) \cap h.fresh
  BY <1>1 DEF ListedFiles, ActiveFiles, SizeOf
<1>3. Extra(g, s) = Extra(h, s) /\ Lost(g, s) = Lost(h, s)
  BY <1>2 DEF Extra, Lost, Missing
<1> QED BY <1>1, <1>3 DEF Undoable

\* An apply makes a machine of a machine, and can be undone.
LEMMA AppliedStep ==
  ASSUME NEW h, HasStorage(h), NEW p, SwapAsked(p), CanApply(h, p)
  PROVE  HasStorage(Applied(h, p)) /\ Undoable(Applied(h, p), h)
<1> SUFFICES ASSUME NEW a, a = ZramChanged(h, p),
                    NEW b, b = SwapChanged(a, p),
                    NEW c, c = SetSysctl(b, p.sysctl),
                    NEW d, d = Prepare(c, p.prepare),
                    NEW e, e = DisableZswap(d, p.zswap),
                    NEW f, f = EnableOomd(e, p.oomd),
                    NEW g, g = SetMm(f, p.mm),
                    NEW k, k = Finalize(g, p.finalize)
             PROVE  HasStorage(k) /\ Undoable(k, h)
  BY DEF Applied
<1>1. Parts \subseteq DOMAIN h /\ SwapPart(h) /\ ZramPart(h) /\ p \in Forms
  BY MachineParts DEF SwapAsked
<1>2. ZramStep(h, a)
  BY <1>1, ZramChangedStep
<1>3. /\ Parts \subseteq DOMAIN a /\ ZramPart(a)
      /\ Keeps(h, a, {"free", "disk", "fstab", "files", "fresh"})
      /\ a.free = h.free /\ a.fstab = h.fstab /\ a.ram = h.ram /\ a.legacy = h.legacy
  BY <1>1, <1>2 DEF ZramStep, Keeps, Parts
<1>4. SwapPart(a) /\ \A x : SizeOf(a, x) = SizeOf(h, x)
  <2>1. Keeps(h, a, {"free", "disk", "fstab", "files"})
    BY <1>3 DEF Keeps
  <2> QED BY <1>1, <2>1, SwapPartSame
<1>5. SwapStep(a, b)
  <2>1. p.create # Unset /\ p.remove = Unset => a.free >= p.create.size
    BY <1>3 DEF CanApply
  <2>2. p.resize # Unset => CanResize(a, p.resize)
    <3>1. a.files = h.files
      BY <1>3 DEF Keeps
    <3> QED BY <1>3, <1>4, <3>1 DEF CanApply, CanResize, Strategy
  <2> QED BY <1>3, <1>4, <2>1, <2>2, SwapChangedStep
<1>6. HasStorage(b)
  <2>1. Keeps(a, b, {"conf", "zram"}) /\ b.ram = a.ram /\ b.legacy = a.legacy
    BY <1>5 DEF SwapStep, Keeps, Parts, SwapFields
  <2>2. ZramPart(b)
    BY <1>3, <2>1, ZramPartSame
  <2>3. Parts \subseteq DOMAIN b /\ b.ram \in Nat /\ b.legacy \in LegacyForms \cup {Unset}
    BY <1>3, <1>5, <2>1, MachineParts DEF SwapStep
  <2>4. SwapPart(b)
    BY <1>5 DEF SwapStep
  <2> QED BY <2>2, <2>3, <2>4, MachineParts
<1>7. Undoable(b, h)
  <2>1. ListedFiles(a) = ListedFiles(h)
    BY <1>3 DEF ListedFiles
  <2>2. Extra(b, a) = Extra(b, h) /\ Lost(b, a) = Lost(b, h)
    BY <2>1, <1>4 DEF Extra, Lost, Missing
  <2> QED BY <1>4, <1>5, <2>2 DEF SwapStep, Undoable, Lost
<1>8. SettingStep(b, k)
  <2>1. Parts \subseteq DOMAIN b
    BY <1>6 DEF HasStorage
  <2>2. SettingStep(b, c)
    BY <2>1, SettingSteps
  <2>3. SettingStep(c, d)
    BY <2>1, <2>2, SettingSteps DEF SettingStep
  <2>4. SettingStep(d, e)
    BY <2>1, <2>2, <2>3, SettingSteps DEF SettingStep
  <2>5. SettingStep(e, f)
    BY <2>1, <2>2, <2>3, <2>4, SettingSteps DEF SettingStep
  <2>6. SettingStep(f, g)
    BY <2>1, <2>2, <2>3, <2>4, <2>5, SettingSteps DEF SettingStep
  <2>7. SettingStep(g, k)
    BY <2>1, <2>2, <2>3, <2>4, <2>5, <2>6, SettingSteps DEF SettingStep
  <2> QED BY <2>2, <2>3, <2>4, <2>5, <2>6, <2>7, SettingStepsCompose
<1> QED BY <1>6, <1>7, <1>8, SettingsKeepMachine, SettingsStayUndoable

-----------------------------------------------------------------------------
(* The whole of a rollback.                                                *)

\* The step of a rollback on the swapfiles: nothing is left to be undone.
SwappedBack(h, g, s) ==
  /\ DOMAIN g = DOMAIN h /\ Keeps(h, g, Parts \ SwapFields)
  /\ SwapPart(g) /\ Undoable(g, s)

\* The swapfiles are put back: there is room for the one that is gone.
LEMMA SwapBackStep ==
  ASSUME NEW h, Parts \subseteq DOMAIN h, SwapPart(h), NEW s, SwapPart(s),
         Undoable(h, s), \A p \in Missing(h, s) : SizeOf(s, p) > 0
  PROVE  SwappedBack(h, SwapBack(h, s), s)
<1> DEFINE g == SwapBack(h, s)
           extra   == Extra(h, s)
           missing == Missing(h, s)
           listed  == ListedFiles(s)
           files   == FilesBack(h, s)
           built(p) == [name |-> p, mb |-> SizeOf(s, p), cow |-> FALSE]
           swapped == {f \in files : f.name \in listed /\ ~ f.cow}
<1>1. /\ DOMAIN g = DOMAIN h /\ Keeps(h, g, Parts \ SwapFields)
      /\ g.fstab = s.fstab /\ g.files = files
      /\ g.disk = {d \in h.disk : d.name \notin extra \cup listed}
                    \cup {Activated(s, f) : f \in swapped}
      /\ g.free = h.free + SpaceOf(h, extra) - SpaceOf(s, missing)
      /\ g.fresh = (h.fresh \ extra) \cup missing
  BY DEF SwapBack, Parts, SwapFields, Keeps
<1>2. files = {f \in h.files : f.name \notin extra} \cup {built(p) : p \in missing}
  BY DEF FilesBack
<1> HIDE DEF g
<1>3. /\ h.free \in Nat /\ h.files \subseteq FileForms /\ Unique(h.files)
      /\ h.disk \subseteq SwapForms /\ Unique(h.disk)
      /\ \A d \in h.disk : d.type = "file" => d.kb \div 1024 <= SizeOf(h, d.name)
      /\ s.files \subseteq FileForms /\ Unique(s.files)
      /\ s.fstab \subseteq EntryForms /\ Unique(s.fstab)
  BY DEF SwapPart
<1>4. \A p : SizeOf(h, p) \in Nat /\ SizeOf(s, p) \in Nat
  BY <1>3, SizeIsOfFile
<1>5. \A p \in missing : p \in listed /\ p \in Texts /\ SizeOf(h, p) = 0 /\ SizeOf(s, p) > 0
  BY <1>3 DEF Missing, ListedFiles, EntryForms
<1>6. \A p \in missing : \A f \in h.files : f.name # p
  BY <1>3, <1>5, SizeIsOfFile
<1>7. \A p \in missing : built(p) \in FileForms /\ built(p).name = p
  BY <1>4, <1>5 DEF FileForms
<1>8. listed = ListedFiles(g)
  BY <1>1 DEF ListedFiles
<1>9. \A p \in extra : p \notin listed
  BY DEF Extra
<1> HIDE DEF extra, missing, listed, built
<1>10. g.files \subseteq FileForms /\ Unique(g.files)
  BY <1>1, <1>2, <1>3, <1>6, <1>7 DEF Unique
<1>11. \A f \in files : Activated(s, f) \in SwapForms /\ Activated(s, f).name = f.name
                         /\ Activated(s, f).kb \div 1024 <= f.mb
  <2> TAKE f \in files
  <2>1. f \in FileForms
    BY <1>1, <1>10
  <2>2. ReportedKb(f.mb) \in Nat /\ ReportedKb(f.mb) \div 1024 <= f.mb
    BY <2>1 DEF ReportedKb, FileForms
  <2>3. PriorityOf(s, f.name) \in Int
    BY PriorityIsNumber
  <2> QED BY <2>1, <2>2, <2>3 DEF Activated, SwapForms, FileForms
<1> HIDE DEF files
<1>12. g.disk \subseteq SwapForms /\ Unique(g.disk)
  BY <1>1, <1>3, <1>10, <1>11 DEF Unique
<1>13. \A d \in g.disk : d.type = "file" => d.kb \div 1024 <= SizeOf(g, d.name)
  <2> TAKE d \in g.disk
  <2> HAVE d.type = "file"
  <2>1. CASE d \in h.disk /\ d.name \notin extra \cup listed
    <3>1. SizeOf(h, d.name) = SizeOf(g, d.name)
      <4>1. CASE SizeOf(h, d.name) = 0
        <5>1. \A f \in g.files : f.name # d.name
          <6>1. \A f \in h.files : f.name # d.name
            BY <1>3, <4>1, SizeIsOfFile
          <6> QED BY <6>1, <1>1, <1>2, <1>5, <1>7, <2>1
        <5> QED BY <4>1, <5>1 DEF SizeOf
      <4>2. CASE SizeOf(h, d.name) # 0
        <5>1. PICK f \in h.files : f.name = d.name /\ f.mb = SizeOf(h, d.name)
          BY <1>3, <1>4, <4>2, SizeIsOfFile
        <5>2. f \in g.files
          BY <1>1, <1>2, <2>1, <5>1
        <5> QED BY <5>1, <5>2, <1>10, FileSize
      <4> QED BY <4>1, <4>2
    <3> QED BY <1>3, <2>1, <3>1
  <2>2. CASE \E f \in files : d = Activated(s, f)
    <3>1. PICK f \in files : d = Activated(s, f)
      BY <2>2
    <3>2. SizeOf(g, d.name) = f.mb
      BY <1>1, <1>10, <1>11, <3>1, FileSize
    <3> QED BY <1>11, <3>1, <3>2
  <2> QED BY <1>1, <2>1, <2>2
<1>14. g.free \in Nat
  <2>1. SpaceOf(h, extra) \in Nat
    <3>1. CASE extra = {}
      BY <3>1, SpaceOfNone
    <3>2. CASE extra # {}
      <4>1. PICK a : extra = {a}
        BY <3>2 DEF Undoable, extra
      <4> QED BY <4>1, <1>4, SpaceOfOne
    <3> QED BY <3>1, <3>2
  <2>2. SpaceOf(s, missing) \in Nat /\ SpaceOf(s, missing) <= h.free
    <3>1. missing = Lost(h, s)
      BY DEF Lost, missing
    <3>2. CASE missing = {}
      BY <1>3, <3>2, SpaceOfNone
    <3>3. CASE missing # {}
      <4>1. PICK a : missing = {a} /\ SizeOf(s, a) <= h.free
        BY <3>1, <3>3 DEF Undoable
      <4> QED BY <4>1, <1>4, SpaceOfOne
    <3> QED BY <3>2, <3>3
  <2> QED BY <1>1, <1>3, <2>1, <2>2
<1>a. \A f \in g.files : f.cow => f.name \notin DiskNames(g)
  <2> SUFFICES ASSUME NEW f \in g.files, f.cow, NEW d \in g.disk, d.name = f.name
               PROVE  FALSE
    BY DEF DiskNames
  <2>1. f \in h.files /\ f.name \notin DiskNames(h)
    <3>1. \A p \in missing : ~ built(p).cow
      BY DEF built
    <3> QED BY <1>1, <1>2, <3>1 DEF SwapPart
  <2>2. PICK e \in swapped : d = Activated(s, e)
    BY <1>1, <2>1 DEF DiskNames
  <2>3. e \in files /\ e.name = f.name /\ ~ e.cow
    BY <1>11, <2>2
  <2> QED BY <1>1, <1>10, <2>3 DEF Unique
<1>15. SwapPart(g)
  BY <1>1, <1>3, <1>10, <1>12, <1>13, <1>14, <1>a DEF SwapPart
<1>16. Undoable(g, s)
  <2>1. Extra(g, s) = {}
    <3> SUFFICES ASSUME NEW p \in Extra(g, s) PROVE FALSE
      OBVIOUS
    <3>1. p \in ActiveFiles(g) /\ p \in g.fresh /\ p \notin listed
      BY <1>8 DEF Extra, listed
    <3>2. p \notin missing /\ p \in h.fresh /\ p \notin extra
      BY <1>1, <1>5, <3>1
    <3>3. PICK d \in g.disk : d.name = p /\ d.type = "file"
      BY <3>1 DEF ActiveFiles
    <3>4. d \in h.disk
      BY <1>1, <1>11, <3>1, <3>3
    <3>5. p \in ActiveFiles(h)
      BY <3>3, <3>4 DEF ActiveFiles
    <3> QED BY <3>1, <3>2, <3>5 DEF Extra, extra, listed
  <2>2. Lost(g, s) = {}
    <3> SUFFICES ASSUME NEW p \in Lost(g, s) PROVE FALSE
      OBVIOUS
    <3>1. p \in listed /\ SizeOf(g, p) = 0 /\ SizeOf(s, p) > 0
      BY DEF Lost, Missing, listed
    <3>2. \A f \in g.files : f.name # p
      BY <1>10, <3>1, SizeIsOfFile
    <3>3. CASE p \in missing
      BY <1>1, <1>2, <1>7, <3>2, <3>3
    <3>4. CASE p \notin missing
      <4>1. SizeOf(h, p) > 0
        BY <1>4, <3>1, <3>4 DEF Missing, missing, listed
      <4>2. PICK f \in h.files : f.name = p
        BY <1>3, <4>1, SizeIsOfFile
      <4>3. p \notin extra
        BY <1>9, <3>1
      <4> QED BY <1>1, <1>2, <3>2, <4>2, <4>3
    <3> QED BY <3>3, <3>4
  <2> QED BY <2>1, <2>2 DEF Undoable
<1> QED BY <1>1, <1>15, <1>16 DEF SwappedBack, g

\* The zram devices are put back.
LEMMA ZramBackStep ==
  ASSUME NEW h, Parts \subseteq DOMAIN h, ZramPart(h), NEW s, ZramPart(s)
  PROVE  ZramStep(h, ZramBack(h, s))
<1> DEFINE a == Stop(h)
           b == [a EXCEPT !.conf["etc"] = s.conf["etc"]]
           devices == IF s.conf["etc"] = Unset THEN {} ELSE Devices(s.conf["etc"])
           c == Restart(b, devices)
<1>1. ZramBack(h, s) = c
  BY DEF ZramBack
<1>2. ZramStep(h, a)
  BY StopStep
<1>3. s.conf["etc"] = Unset \/ SectionList(s.conf["etc"])
  BY DEF ZramPart, SectionList, Dirs
<1> HIDE DEF a, devices
<1>4. ZramStep(a, b)
  BY <1>2, <1>3, ConfigurationWritten DEF ZramStep
<1> HIDE DEF b
<1>5. ZramStep(b, c)
  BY <1>2, <1>4, RestartStep DEF ZramStep
<1> HIDE DEF c
<1> QED BY <1>1, <1>2, <1>4, <1>5 DEF ZramStep, Keeps

\* The parts of a rollback that change settings change nothing else.
LEMMA SettingsBackSteps ==
  ASSUME NEW h, Parts \subseteq DOMAIN h, NEW s, s.legacy \in LegacyForms \cup {Unset}
  PROVE  /\ SettingStep(h, SettingsBack(h, s))
         /\ SettingStep(h, ZswapBack(h, s))
         /\ SettingStep(h, OomdBack(h, s))
         /\ SettingStep(h, MmBack(h, s))
<1>1. SettingStep(h, SettingsBack(h, s))
  <2> DEFINE e == [h EXCEPT !.etc = s.etc, !.legacy = s.legacy]
             l == Loaded(e)
  <2>1. SettingsBack(h, s) = [e EXCEPT !.sysctl = l]
    BY DEF SettingsBack, Reload
  <2>2. DOMAIN e = DOMAIN h /\ Keeps(h, e, Core) /\ e.legacy = s.legacy
    BY DEF Keeps, Core, Parts
  <2> HIDE DEF e, l
  <2> QED BY <2>1, <2>2 DEF SettingStep, Keeps, Core
<1>2. SettingStep(h, ZswapBack(h, s))
  BY DEF SettingStep, Keeps, Core, ZswapBack
<1>3. SettingStep(h, OomdBack(h, s))
  BY DEF SettingStep, Keeps, Core, OomdBack
<1>4. SettingStep(h, MmBack(h, s))
  BY DEF SettingStep, Keeps, Core, MmBack
<1> QED BY <1>1, <1>2, <1>3, <1>4

\* A rollback makes a machine of a machine, and can be repeated.
LEMMA RolledBackStep ==
  ASSUME NEW h, HasStorage(h), NEW s, HasStorage(s), Undoable(h, s),
         \A p \in Missing(h, s) : SizeOf(s, p) > 0
  PROVE  HasStorage(RolledBack(h, s)) /\ Undoable(RolledBack(h, s), s)
<1> SUFFICES ASSUME NEW a, a = SwapBack(h, s),
                    NEW b, b = ZramBack(a, s),
                    NEW c, c = SettingsBack(b, s),
                    NEW d, d = ZswapBack(c, s),
                    NEW e, e = OomdBack(d, s),
                    NEW f, f = MmBack(e, s)
             PROVE  HasStorage(f) /\ Undoable(f, s)
  BY DEF RolledBack
<1>1. /\ Parts \subseteq DOMAIN h /\ SwapPart(h) /\ ZramPart(h)
      /\ SwapPart(s) /\ ZramPart(s) /\ s.legacy \in LegacyForms \cup {Unset}
      /\ h.ram \in Nat /\ h.legacy \in LegacyForms \cup {Unset}
  BY MachineParts
<1>2. SwappedBack(h, a, s)
  BY <1>1, SwapBackStep
<1>3. /\ Parts \subseteq DOMAIN a /\ SwapPart(a) /\ Undoable(a, s)
      /\ Keeps(h, a, {"conf", "zram"}) /\ a.ram = h.ram /\ a.legacy = h.legacy
  BY <1>1, <1>2 DEF SwappedBack, Keeps, Parts, SwapFields
<1>4. ZramPart(a)
  BY <1>1, <1>3, ZramPartSame
<1>5. ZramStep(a, b)
  BY <1>1, <1>3, <1>4, ZramBackStep
<1>6. /\ Parts \subseteq DOMAIN b /\ ZramPart(b)
      /\ Keeps(a, b, {"free", "disk", "fstab", "files", "fresh"}) /\ b.ram = a.ram /\ b.legacy = a.legacy
  BY <1>3, <1>5 DEF ZramStep, Keeps, Parts
<1>7. SwapPart(b) /\ \A p : SizeOf(b, p) = SizeOf(a, p)
  <2>1. Keeps(a, b, {"free", "disk", "fstab", "files"})
    BY <1>6 DEF Keeps
  <2> QED BY <1>3, <2>1, SwapPartSame
<1>8. HasStorage(b)
  BY <1>1, <1>3, <1>6, <1>7, MachineParts
<1>9. Undoable(b, s)
  <2>1. /\ b.free = a.free /\ ListedFiles(b) = ListedFiles(a)
        /\ ActiveFiles(b) \cap b.fresh = ActiveFiles(a) \cap a.fresh
    BY <1>6 DEF Keeps, ListedFiles, ActiveFiles
  <2>2. Extra(b, s) = Extra(a, s) /\ Lost(b, s) = Lost(a, s)
    BY <1>7, <2>1 DEF Extra, Lost, Missing
  <2> QED BY <1>3, <2>1, <2>2 DEF Undoable
<1>10. SettingStep(b, f)
  <2>1. SettingStep(b, c)
    BY <1>1, <1>6, SettingsBackSteps
  <2>2. SettingStep(c, d)
    BY <1>1, <1>6, <2>1, SettingsBackSteps DEF SettingStep
  <2>3. SettingStep(d, e)
    BY <1>1, <1>6, <2>1, <2>2, SettingsBackSteps DEF SettingStep
  <2>4. SettingStep(e, f)
    BY <1>1, <1>6, <2>1, <2>2, <2>3, SettingsBackSteps DEF SettingStep
  <2> QED BY <2>1, <2>2, <2>3, <2>4, SettingStepsCompose
<1> QED BY <1>8, <1>9, <1>10, SettingsKeepMachine, SettingsStayUndoable

-----------------------------------------------------------------------------
(* What is staged.                                                         *)

\* What may be staged: one change of the swapfiles, and zram or its end.
Stageable(p) == SwapAsked(p) /\ (p.disable => p.zram = Unset)

\* An overlay of values of a kind is of that kind.
LEMMA OverlaidForms ==
  /\ \A a, b \in SysctlForms : Overlaid(a, b) \in SysctlForms
  /\ \A a, b \in MmForms : Overlaid(a, b) \in MmForms
<1>1. ASSUME NEW a \in SysctlForms, NEW b \in SysctlForms
      PROVE  Overlaid(a, b) \in SysctlForms
  BY DEF Overlaid, SysctlForms
<1>2. ASSUME NEW a \in MmForms, NEW b \in MmForms
      PROVE  Overlaid(a, b) \in MmForms
  <2> DEFINE o == Overlaid(a, b)
  <2>1. DOMAIN a = {"ttl", "defrag"}
    BY DEF MmForms
  <2>2. o = [ttl |-> IF b.ttl = Unset THEN a.ttl ELSE b.ttl,
             defrag |-> IF b.defrag = Unset THEN a.defrag ELSE b.defrag]
    BY <2>1 DEF Overlaid
  <2> HIDE DEF o
  <2>3. o \in MmForms
    BY <2>2 DEF MmForms
  <2> QED BY <2>3 DEF o
<1> QED BY <1>1, <1>2

\* What is merged into what is staged can be staged (merge_pending).
LEMMA MergeStageable ==
  ASSUME NEW p, Stageable(p), NEW q \in Forms,
         q.create # Unset => q.create.size > 0,
         q.resize # Unset => q.resize.size > 0
  PROVE  Stageable(Merge(p, q))
<1> DEFINE z == IF q.zram # Unset THEN [p EXCEPT !.disable = FALSE, !.zram = q.zram]
                ELSE IF q.disable THEN [p EXCEPT !.disable = TRUE, !.zram = Unset] ELSE p
           swap == [create |-> q.create, resize |-> q.resize, remove |-> q.remove]
           kind == IF q.remove # Unset THEN "remove"
                   ELSE IF q.resize # Unset THEN "resize"
                   ELSE IF q.create # Unset THEN "create" ELSE "none"
           Kept(k) == IF kind = "none" THEN p[k] ELSE IF kind = k THEN swap[k] ELSE Unset
           create == Kept("create")
           resize == Kept("resize")
           remove == Kept("remove")
           sysctl == IF q.sysctl = Unset THEN z.sysctl
                     ELSE IF z.sysctl = Unset THEN q.sysctl ELSE Overlaid(z.sysctl, q.sysctl)
           mm == IF q.mm = Unset THEN z.mm
                 ELSE IF z.mm = Unset THEN q.mm ELSE Overlaid(z.mm, q.mm)
           finalize == z.finalize \/ q.finalize
           zswap == z.zswap \/ q.zswap
           oomd == z.oomd \/ q.oomd
           prepare == z.prepare \cup q.prepare
           r == Merge(p, q)
<1>1. p \in Forms /\ (p.disable => p.zram = Unset)
  BY DEF Stageable, SwapAsked
<1>2. z \in Forms /\ (z.disable => z.zram = Unset)
  <2>1. CASE q.zram # Unset
    BY <1>1, <2>1 DEF Forms
  <2>2. CASE q.zram = Unset /\ q.disable
    <3>1. z = [p EXCEPT !.disable = TRUE, !.zram = Unset]
      BY <2>2
    <3> HIDE DEF z
    <3>2. z \in Forms
      BY <1>1, <3>1 DEF Forms
    <3>3. z.zram = Unset
      BY <1>1, <3>1 DEF Forms
    <3> QED BY <3>2, <3>3
  <2>3. CASE q.zram = Unset /\ ~ q.disable
    BY <1>1, <2>3
  <2> QED BY <2>1, <2>2, <2>3
<1>3. r = [z EXCEPT !.create = create, !.resize = resize, !.remove = remove,
                    !.sysctl = sysctl, !.mm = mm, !.finalize = finalize,
                    !.zswap = zswap, !.oomd = oomd, !.prepare = prepare]
  <2>1. z.sysctl = p.sysctl /\ z.mm = p.mm
    BY <1>1 DEF Forms
  <2> QED BY <1>2 DEF Merge, Forms
<1>4. sysctl \in SysctlForms \cup {Unset} /\ mm \in MmForms \cup {Unset}
  <2> HIDE DEF z
  <2>1. /\ q.sysctl \in SysctlForms \cup {Unset} /\ q.mm \in MmForms \cup {Unset}
        /\ z.sysctl \in SysctlForms \cup {Unset} /\ z.mm \in MmForms \cup {Unset}
    BY <1>2 DEF Forms
  <2> QED BY <2>1, OverlaidForms
<1>5. finalize \in BOOLEAN /\ zswap \in BOOLEAN /\ oomd \in BOOLEAN
      /\ prepare \in SUBSET Texts
  <2> HIDE DEF z
  <2> QED BY <1>2 DEF Forms
<1>6. /\ create \in CreateForms \cup {Unset} /\ resize \in ResizeForms \cup {Unset}
      /\ remove \in Texts \cup {Unset}
  BY <1>1 DEF Forms
<1>7. /\ create # Unset => create.size > 0
      /\ resize # Unset => resize.size > 0
  BY DEF Stageable, SwapAsked
<1>8. /\ create # Unset => resize = Unset /\ remove = Unset
      /\ resize # Unset => create = Unset /\ remove = Unset
  BY DEF Stageable, SwapAsked, OneSwapChange
<1> HIDE DEF z, create, resize, remove, sysctl, mm, finalize, zswap, oomd, prepare, r
<1>9. /\ r \in Forms /\ r.create = create /\ r.resize = resize /\ r.remove = remove
      /\ r.disable = z.disable /\ r.zram = z.zram
  <2>1. z = [disable |-> z.disable, zram |-> z.zram, create |-> z.create,
             resize |-> z.resize, remove |-> z.remove, sysctl |-> z.sysctl,
             zswap |-> z.zswap, oomd |-> z.oomd, mm |-> z.mm, prepare |-> z.prepare,
             finalize |-> z.finalize]
    BY <1>2 DEF Forms
  <2>2. r = [disable |-> z.disable, zram |-> z.zram, create |-> create,
             resize |-> resize, remove |-> remove, sysctl |-> sysctl,
             zswap |-> zswap, oomd |-> oomd, mm |-> mm, prepare |-> prepare,
             finalize |-> finalize]
    BY <1>3, <2>1
  <2>3. z.disable \in BOOLEAN /\ z.zram \in ZramForms \cup {Unset}
    BY <1>2 DEF Forms
  <2> QED BY <2>2, <2>3, <1>4, <1>5, <1>6 DEF Forms
<1>10. OneSwapChange(r)
  BY <1>8, <1>9 DEF OneSwapChange
<1> QED BY <1>2, <1>7, <1>9, <1>10 DEF Stageable, SwapAsked, r

\* Nothing is staged yet.
LEMMA NothingIsStageable ==
  /\ NoChanges \in Forms /\ Stageable(NoChanges)
  /\ NoChanges.zram = Unset /\ NoChanges.create = Unset /\ NoChanges.resize = Unset
  /\ NoChanges.remove = Unset /\ NoChanges.sysctl = Unset /\ NoChanges.mm = Unset
  /\ NoChanges.prepare = {} /\ NoChanges.disable = FALSE
BY DEF NoChanges, Forms, Stageable, SwapAsked, OneSwapChange

\* What the swapfile advice comes to.
OverflowDecided(d, h, mb) ==
  /\ d.do = "stage" => /\ d.mb = mb /\ mb > 0 /\ h.disk = {} /\ Configured(h) = {}
                       /\ mb + Margin <= h.free
  /\ d.do = "grow" => /\ d.mb = mb /\ mb > 0
                      /\ mb - SizeOf(h, OverflowPath) + Margin <= h.free + 1
                      /\ Margin <= h.free
                      /\ \E s \in h.disk : s.name = OverflowPath /\ s.kb \div 1024 + Slack < mb

\* What is decided about the swapfile has the recommended size, and there is room
\* for it (overflow.rs).
LEMMA OverflowDecision ==
  ASSUME NEW h, HasStorage(h), NEW scale
  PROVE  OverflowDecided(DecideOverflow(h.disk, h.ram, Configured(h), h.free, scale),
                         h, OverflowMb(h.ram, scale))
<1>1. h.ram \in Nat /\ h.free \in Nat /\ SwapPart(h)
  BY MachineParts DEF SwapPart
<1>2. OverflowMb(h.ram, scale) \in Nat
  BY <1>1, OverflowIsNumber
<1> DEFINE mb == OverflowMb(h.ram, scale)
           swap == CHOOSE s \in h.disk : TRUE
           d == DecideOverflow(h.disk, h.ram, Configured(h), h.free, scale)
<1>3. CASE h.disk = {}
  <2>1. d = IF Configured(h) # {} THEN Decision("skip_configured", 0)
            ELSE IF mb = 0 THEN Decision("skip_zero", 0)
            ELSE IF h.free = Unset \/ h.free < mb + Margin THEN Decision("skip_space", 0)
            ELSE Decision("stage", mb)
    BY <1>3 DEF DecideOverflow
  <2> HIDE DEF mb, d
  <2>2. d.do = "stage" => d.mb = mb /\ mb > 0 /\ Configured(h) = {} /\ mb + Margin <= h.free
    BY <1>1, <1>2, <2>1 DEF Decision, Margin, mb
  <2>3. d.do # "grow"
    BY <2>1 DEF Decision
  <2> QED BY <1>3, <2>2, <2>3 DEF OverflowDecided, d, mb
<1>4. CASE h.disk # {}
  <2>1. swap \in h.disk
    BY <1>4
  <2> HIDE DEF swap
  <2>2. swap.kb \in Nat /\ (swap.type = "file" => swap.kb \div 1024 <= SizeOf(h, swap.name))
        /\ SizeOf(h, swap.name) \in Nat
    BY <1>1, <2>1, SizeIsOfFile DEF SwapPart, SwapForms
  <2>3. d = IF \/ Cardinality(h.disk) # 1 \/ swap.name # OverflowPath \/ swap.type # "file"
               \/ swap.kb \div 1024 + Slack >= mb
            THEN Decision("skip_active", 0)
            ELSE IF h.free = Unset \/ h.free < mb - swap.kb \div 1024 + Margin
            THEN Decision("skip_space", 0)
            ELSE Decision("grow", mb)
    BY <1>4 DEF DecideOverflow, DecideGrow, swap
  <2> HIDE DEF mb, d
  <2>4. d.do # "stage"
    BY <2>3 DEF Decision
  <2>5. ASSUME d.do = "grow"
        PROVE  /\ d.mb = mb /\ mb > 0 /\ Margin <= h.free
               /\ mb - SizeOf(h, OverflowPath) + Margin <= h.free + 1
               /\ \E s \in h.disk : s.name = OverflowPath /\ s.kb \div 1024 + Slack < mb
    <3>1. /\ swap.name = OverflowPath /\ swap.type = "file" /\ d.mb = mb
          /\ ~ (swap.kb \div 1024 + Slack >= mb)
          /\ ~ (h.free < mb - swap.kb \div 1024 + Margin)
      BY <2>3, <2>5 DEF Decision
    <3>2. swap.kb \div 1024 \in Nat
      BY <2>2
    <3>3. swap.kb \div 1024 <= SizeOf(h, OverflowPath) /\ SizeOf(h, OverflowPath) \in Nat
      BY <2>2, <3>1
    <3>4. mb \in Nat
      BY <1>2 DEF mb
    <3>5. swap.kb \div 1024 + Slack < mb
      BY <3>1, <3>2, <3>4 DEF Slack
    <3>6. /\ mb > 0 /\ Margin <= h.free
          /\ mb - SizeOf(h, OverflowPath) + Margin <= h.free + 1
      BY <1>1, <3>1, <3>2, <3>3, <3>4 DEF Margin, Slack
    <3> QED BY <2>1, <3>1, <3>5, <3>6
  <2> QED BY <2>4, <2>5 DEF OverflowDecided, d, mb
<1> QED BY <1>3, <1>4

\* The zram configuration that is staged is valid, also with a size that was there
\* before (staging.rs).
LEMMA WantedZram ==
  ASSUME NEW h, HasStorage(h), NEW scale
  PROVE  LET z == ZramForStaging(Show(h), RecommendZram(h, scale), h.ram)
         IN  z \in ZramForms /\ ValidZram(z)
<1> DEFINE w == RecommendZram(h, scale)
           now == Show(h)
           z == ZramForStaging(now, w, h.ram)
<1>1. ZramFormula(Profile(h), h.ram, scale) \in Formula
      /\ ZramFormula(Profile(h), h.ram, scale).of # "invalid"
  BY DEF ZramFormula, DefaultFormula, Formula, Ram, Capped
<1>2. ResidentLimit(Profile(h), scale) \in {"half", Unset}
  BY DEF ResidentLimit
<1>3. Algorithm(Family(h), h.ram, h.cores) \in {"zstd", "lz4"}
  BY DEF Algorithm
<1>4. w = [device |-> "zram0", size |-> ZramFormula(Profile(h), h.ram, scale),
           limit |-> ResidentLimit(Profile(h), scale),
           algo |-> Algorithm(Family(h), h.ram, h.cores), prio |-> 100]
  BY DEF RecommendZram, RecommendedZram, Profile
<1> HIDE DEF w, now
<1>5. w \in ZramForms
  BY <1>1, <1>2, <1>3, <1>4 DEF ZramForms, Texts
<1>6. ValidZram(w)
  BY <1>1, <1>2, <1>3, <1>4, UnsetIsNothing DEF ValidZram
<1>7. CASE now # Unset /\ now.size # Unset /\ ~ SizeNeedsUpdate(now.size, w.size, h.ram)
  <2>1. z = [w EXCEPT !.size = now.size]
    BY <1>7 DEF ZramForStaging
  <2>2. now.size \in Formula
    <3>1. ZramPart(h) /\ Sections(h) # <<>> /\ now = Config(Sections(h)[1])
      BY <1>7, MachineParts DEF Show, now
    <3>2. Sections(h) \in Seq(SectionForms)
      BY <3>1, SectionsForm DEF SectionList
    <3>3. Sections(h)[1] \in SectionForms
      BY <3>1, <3>2
    <3>4. now.size = Sections(h)[1].size
      BY <3>1 DEF Config
    <3> QED BY <1>7, <3>3, <3>4 DEF SectionForms
  <2>3. now.size.of # "invalid"
    <3>1. now.size = w.size \/ Evaluates(now.size)
      BY <1>7 DEF SizeNeedsUpdate
    <3>2. \A f : Evaluates(f) => f.of # "invalid"
      BY DEF Evaluates, Known, Ram, Capped
    <3> QED BY <1>1, <1>4, <3>1, <3>2
  <2> HIDE DEF z
  <2>4. z \in ZramForms /\ ValidZram(z)
    BY <1>5, <1>6, <2>1, <2>2, <2>3 DEF ZramForms, ValidZram
  <2> QED BY <2>4 DEF z, w, now
<1>8. CASE ~ (now # Unset /\ now.size # Unset /\ ~ SizeNeedsUpdate(now.size, w.size, h.ram))
  <2>1. z = w
    BY <1>8 DEF ZramForStaging
  <2> QED BY <1>5, <1>6, <2>1 DEF w, now
<1> QED BY <1>7, <1>8

\* The recommended sysctl values are valid, and none is left out.
LEMMA RecommendedSysctlForm ==
  /\ RecommendedSysctl \in SysctlForms /\ ValidSysctl(RecommendedSysctl)
  /\ \A k \in Knobs : RecommendedSysctl[k] \in Nat
<1> DEFINE sc == RecommendedSysctl
<1>1. /\ DOMAIN ZramTuning = Knobs /\ DOMAIN DesktopTuning = Knobs
      /\ ZramTuning["swappiness"] = 180 /\ ZramTuning["boost"] = 0
      /\ ZramTuning["scale"] = 125 /\ ZramTuning["cluster"] = 0
      /\ DesktopTuning["swappiness"] = Unset /\ DesktopTuning["boost"] = Unset
      /\ DesktopTuning["scale"] = Unset /\ DesktopTuning["cluster"] = Unset
      /\ DesktopTuning["cache"] = 50
      /\ DesktopTuning["dirty"] = 262144 /\ DesktopTuning["background"] = 65536
  BY SMT DEF ZramTuning, DesktopTuning, NoSysctl, Knobs
<1>2. /\ DOMAIN sc = Knobs
      /\ sc = [k \in Knobs |-> sc[k]]
      /\ \A k \in Knobs : sc[k] = IF DesktopTuning[k] = Unset THEN ZramTuning[k]
                                                         ELSE DesktopTuning[k]
  BY <1>1, SMT DEF RecommendedSysctl, Overlaid
<1> HIDE DEF sc
<1>3. /\ sc["swappiness"] = 180 /\ sc["boost"] = 0 /\ sc["scale"] = 125 /\ sc["cluster"] = 0
      /\ sc["cache"] = 50 /\ sc["dirty"] = 262144 /\ sc["background"] = 65536
  BY <1>1, <1>2, UnsetIsNothing, SMT DEF Knobs
<1>4. \A k \in Knobs : sc[k] \in Nat
  BY <1>3, SMT DEF Knobs
<1>5. sc \in SysctlForms
  BY <1>2, <1>4, SMT DEF SysctlForms
<1>6. \A k \in Knobs : InRange(k, sc[k])
  <2>1. /\ DOMAIN Highest = {"swappiness", "cluster", "boost", "scale"}
        /\ Highest["swappiness"] = 200 /\ Highest["cluster"] = 8
        /\ Highest["boost"] = 10000 /\ Highest["scale"] = 10000
    BY SMT DEF Highest
  <2>2. DirtyMost \in Nat /\ 262144 <= DirtyMost
    BY SMT DEF DirtyMost
  <2> HIDE DEF Highest, DirtyMost
  <2> SUFFICES ASSUME NEW k \in Knobs PROVE InRange(k, sc[k])
    OBVIOUS
  <2>3. k \in DOMAIN Highest => sc[k] \in 0..Highest[k]
    BY <1>3, <2>1, SMT
  <2>4. k = "cache" => sc[k] \in 1..1000
    BY <1>3, SMT
  <2>5. k \in {"dirty", "background"} => sc[k] \in 8..DirtyMost
    BY <1>3, <2>2, SMT
  <2> QED BY <2>3, <2>4, <2>5 DEF InRange
<1>7. ValidSysctl(sc)
  BY <1>3, <1>6, SMT DEF ValidSysctl
<1> QED BY <1>4, <1>5, <1>7 DEF sc


\* What the advice can stage: nothing but these fields.
Proposal(z, c, r, s) ==
  [disable |-> FALSE, zram |-> z, create |-> c, resize |-> r,
   remove |-> Unset, sysctl |-> s, zswap |-> FALSE, oomd |-> FALSE,
   mm |-> Unset, prepare |-> {}, finalize |-> FALSE]

\* What is staged for zram is a valid configuration.
LEMMA ZramProposed ==
  ASSUME NEW h, HasStorage(h), NEW scale, NEW p, p = StageZram(h, scale).pending
  PROVE  /\ p = Proposal(p.zram, Unset, Unset, Unset)
         /\ p.zram # Unset => p.zram \in ZramForms /\ ValidZram(p.zram)
<1> DEFINE z == ZramForStaging(Show(h), RecommendZram(h, scale), h.ram)
<1>1. z \in ZramForms /\ ValidZram(z)
  BY WantedZram
<1>2. p = NoChanges \/ p = [NoChanges EXCEPT !.zram = z]
  BY DEF StageZram, Report
<1> HIDE DEF z
<1>3. CASE p = NoChanges
  BY <1>3 DEF NoChanges, Proposal
<1>4. CASE p = [NoChanges EXCEPT !.zram = z]
  BY <1>1, <1>4 DEF NoChanges, Proposal
<1> QED BY <1>2, <1>3, <1>4

\* What is staged for sysctl is what is recommended.
LEMMA SysctlProposed ==
  ASSUME NEW h, NEW p, p = StageSysctl(h).pending
  PROVE  p = Proposal(Unset, Unset, Unset, p.sysctl) /\ p.sysctl \in {Unset, RecommendedSysctl}
<1>1. p = NoChanges \/ p = [NoChanges EXCEPT !.sysctl = RecommendedSysctl]
  BY DEF StageSysctl, Report
<1>2. CASE p = NoChanges
  BY <1>2 DEF NoChanges, Proposal
<1>3. CASE p = [NoChanges EXCEPT !.sysctl = RecommendedSysctl]
  <2>1. p = Proposal(Unset, Unset, Unset, RecommendedSysctl)
    BY <1>3 DEF NoChanges, Proposal
  <2>2. p.sysctl = RecommendedSysctl
    BY <2>1 DEF Proposal
  <2> QED BY <2>1, <2>2
<1> QED BY <1>1, <1>2, <1>3

\* The swapfile that is advised, and that there is room for it.
SwapfileFits(h, mb, c, r) ==
  /\ c # Unset => /\ c = [path |-> OverflowPath, size |-> mb, prio |-> 10] /\ mb > 0
                  /\ h.disk = {} /\ Configured(h) = {} /\ mb + Margin <= h.free
                  /\ r = Unset
  /\ r # Unset => /\ r = [path |-> OverflowPath, size |-> mb] /\ mb > 0
                  /\ mb - SizeOf(h, OverflowPath) + Margin <= h.free + 1
                  /\ Margin <= h.free
                  /\ \E s \in h.disk : s.name = OverflowPath /\ s.kb \div 1024 + Slack < mb

\* What is staged for the swapfile is what was decided.
LEMMA SwapfileProposed ==
  ASSUME NEW h, HasStorage(h), NEW scale, NEW p, p = StageSwapfile(h, scale).pending
  PROVE  /\ p = Proposal(Unset, p.create, p.resize, Unset)
         /\ SwapfileFits(h, OverflowMb(h.ram, scale), p.create, p.resize)
<1> DEFINE d == DecideOverflow(h.disk, h.ram, Configured(h), h.free, scale)
           mb == OverflowMb(h.ram, scale)
           c == [path |-> OverflowPath, size |-> d.mb, prio |-> 10]
           r == [path |-> OverflowPath, size |-> d.mb]
<1>1. OverflowDecided(d, h, mb)
  BY OverflowDecision
<1>2. \/ d.do = "stage" /\ p = [NoChanges EXCEPT !.create = c]
      \/ d.do = "grow" /\ p = [NoChanges EXCEPT !.resize = r]
      \/ p = NoChanges
  BY DEF StageSwapfile, Report
<1> HIDE DEF d, mb
<1>3. CASE d.do = "stage" /\ p = [NoChanges EXCEPT !.create = c]
  <2>1. p = Proposal(Unset, c, Unset, Unset)
    BY <1>3 DEF NoChanges, Proposal
  <2>2. p.create = c /\ p.resize = Unset
    BY <2>1 DEF Proposal
  <2> QED BY <1>1, <1>3, <2>1, <2>2 DEF OverflowDecided, SwapfileFits, mb
<1>4. CASE d.do = "grow" /\ p = [NoChanges EXCEPT !.resize = r]
  <2>1. p = Proposal(Unset, Unset, r, Unset)
    BY <1>4 DEF NoChanges, Proposal
  <2>2. p.create = Unset /\ p.resize = r
    BY <2>1 DEF Proposal
  <2> QED BY <1>1, <1>4, <2>1, <2>2 DEF OverflowDecided, SwapfileFits, mb
<1>5. CASE p = NoChanges
  BY <1>5 DEF NoChanges, Proposal, SwapfileFits
<1> QED BY <1>2, <1>3, <1>4, <1>5

\* The part of the advice that looks at the configuration.
BaseFits(h, scales, p) ==
  /\ p = Proposal(p.zram, p.create, p.resize, p.sysctl)
  /\ p.zram # Unset => p.zram \in ZramForms /\ ValidZram(p.zram)
  /\ p.sysctl \in {Unset, RecommendedSysctl}
  /\ SwapfileFits(h, OverflowMb(h.ram, scales.swapfile), p.create, p.resize)
  /\ p.create # Unset => ~ Blocked(h)

\* The three together do not disturb each other.
LEMMA BaseProposed ==
  ASSUME NEW h, HasStorage(h), NEW scales, NEW p, p = Base(h, scales).pending
  PROVE  BaseFits(h, scales, p)
<1>1. CASE Blocked(h)
  <2>1. p = NoChanges
    BY <1>1 DEF Base, Noted, Report
  <2> QED BY <2>1 DEF BaseFits, SwapfileFits, NoChanges, Proposal
<1>2. CASE ~ Blocked(h)
  <2> DEFINE z == StageZram(h, scales.zram).pending
             s == StageSysctl(h).pending
             f == StageSwapfile(h, scales.swapfile).pending
  <2>1. p = [z EXCEPT !.sysctl = s.sysctl, !.create = f.create, !.resize = f.resize]
    BY <1>2 DEF Base, Noted, Report, Combined
  <2>2. z = Proposal(z.zram, Unset, Unset, Unset)
        /\ (z.zram # Unset => z.zram \in ZramForms /\ ValidZram(z.zram))
    BY ZramProposed
  <2>3. s.sysctl \in {Unset, RecommendedSysctl}
    BY SysctlProposed
  <2>4. SwapfileFits(h, OverflowMb(h.ram, scales.swapfile), f.create, f.resize)
    BY SwapfileProposed
  <2> HIDE DEF z, s, f
  <2>5. p = Proposal(z.zram, f.create, f.resize, s.sysctl)
    <3> DEFINE x == z.zram
    <3>1. z = Proposal(x, Unset, Unset, Unset)
      BY <2>2
    <3> HIDE DEF x
    <3>2. p = Proposal(x, f.create, f.resize, s.sysctl)
      BY <2>1, <3>1 DEF Proposal
    <3> QED BY <3>2 DEF x
  <2>6. p.zram = z.zram /\ p.create = f.create /\ p.resize = f.resize /\ p.sysctl = s.sysctl
    BY <2>5 DEF Proposal
  <2> QED BY <1>2, <2>2, <2>3, <2>4, <2>5, <2>6 DEF BaseFits
<1> QED BY <1>1, <1>2

\* The memory tunables that are staged are valid.
LEMMA AdvisedMm ==
  ASSUME NEW h
  PROVE  StageMm(h) \in MmForms \cup {Unset} /\ (StageMm(h) # Unset => ValidMm(StageMm(h)))
<1> DEFINE ttl == IF h.lru /\ h.mm.ttl = 0 THEN 1000 ELSE Unset
           defrag == IF h.mm.defrag \in {"madvise", "always"} THEN "defer+madvise" ELSE Unset
           mm == [ttl |-> ttl, defrag |-> defrag]
<1>1. ttl \in {1000, Unset} /\ defrag \in {"defer+madvise", Unset}
  OBVIOUS
<1>2. StageMm(h) = Unset \/ StageMm(h) = mm
  BY DEF StageMm
<1> HIDE DEF ttl, defrag
<1>3. "defer+madvise" \in Texts
  BY DEF Texts
<1>4. mm \in MmForms /\ ValidMm(mm)
  BY <1>1, <1>3, UnsetIsNothing DEF MmForms, ValidMm
<1> QED BY <1>2, <1>4

\* The advice as a whole.
FitFor(h, scales, p) ==
  /\ p \in Forms /\ Stageable(p) /\ Valid(p, KnownFiles(h))
  /\ SwapfileFits(h, OverflowMb(h.ram, scales.swapfile), p.create, p.resize)
  /\ p.create # Unset => ~ Blocked(h)

\* Whatever the machine, the advice is valid, can be staged, and fits on the disk.
LEMMA AdviceIsFit ==
  ASSUME NEW h, HasStorage(h), NEW scales, NEW p, p = Recommend(h, scales).pending
  PROVE  FitFor(h, scales, p)
<1> DEFINE b == Base(h, scales).pending
           zswap == ZswapBypasses(h, b) /\ ~ Blocked(h)
           prepare == IF Blocked(h) THEN {} ELSE MissingNodatacow(h)
           oomd == StageOom(h).stage
           mm == StageMm(h)
           mb == OverflowMb(h.ram, scales.swapfile)
<1>1. p = [b EXCEPT !.zswap = zswap, !.prepare = prepare, !.oomd = oomd, !.mm = mm]
  BY DEF Recommend, HostFixes, Report
<1>2. BaseFits(h, scales, b)
  BY BaseProposed
<1>3. zswap \in BOOLEAN /\ oomd \in BOOLEAN
  BY DEF ZswapBypasses, StageOom
<1>4. prepare \subseteq AllowedPaths /\ prepare \subseteq Texts
  BY LinkedAssumption DEF MissingNodatacow, Texts
<1>5. mm \in MmForms \cup {Unset} /\ (mm # Unset => ValidMm(mm))
  BY AdvisedMm
<1>6. mb \in Nat
  <2>1. h.ram \in Nat
    BY DEF HasStorage
  <2> QED BY <2>1, OverflowIsNumber
<1> HIDE DEF b, zswap, prepare, oomd, mm, mb
<1>7. p = [disable |-> FALSE, zram |-> b.zram, create |-> b.create, resize |-> b.resize,
           remove |-> Unset, sysctl |-> b.sysctl, zswap |-> zswap, oomd |-> oomd,
           mm |-> mm, prepare |-> prepare, finalize |-> FALSE]
  <2> DEFINE z == b.zram
             c == b.create
             r == b.resize
             s == b.sysctl
  <2>1. b = Proposal(z, c, r, s)
    BY <1>2 DEF BaseFits
  <2> HIDE DEF z, c, r, s
  <2>2. p = [disable |-> FALSE, zram |-> z, create |-> c, resize |-> r,
             remove |-> Unset, sysctl |-> s, zswap |-> zswap, oomd |-> oomd,
             mm |-> mm, prepare |-> prepare, finalize |-> FALSE]
    BY <1>1, <2>1 DEF Proposal
  <2> QED BY <2>2 DEF z, c, r, s
<1>8. SwapfileFits(h, mb, b.create, b.resize)
  BY <1>2 DEF BaseFits, mb
<1>9. OverflowPath \in Texts /\ OverflowPath \in AllowedPaths /\ ValidPath(OverflowPath)
  BY LinkedAssumption DEF Texts, ValidPath
<1>10. /\ b.create # Unset => b.create \in CreateForms /\ ValidCreate(b.create)
       /\ b.resize # Unset => b.resize \in ResizeForms /\ ValidResize(b.resize, KnownFiles(h))
  <2>1. ASSUME b.create # Unset
        PROVE  b.create \in CreateForms /\ ValidCreate(b.create)
    <3>1. b.create = [path |-> OverflowPath, size |-> mb, prio |-> 10] /\ mb > 0
      BY <1>8, <2>1 DEF SwapfileFits
    <3> QED BY <1>6, <1>9, <3>1 DEF CreateForms, ValidCreate, Priorities
  <2>2. ASSUME b.resize # Unset
        PROVE  b.resize \in ResizeForms /\ ValidResize(b.resize, KnownFiles(h))
    <3>1. b.resize = [path |-> OverflowPath, size |-> mb] /\ mb > 0
      BY <1>8, <2>2 DEF SwapfileFits
    <3> QED BY <1>6, <1>9, <3>1 DEF ResizeForms, ValidResize
  <2> QED BY <2>1, <2>2
<1>11. b.sysctl # Unset => b.sysctl \in SysctlForms /\ ValidSysctl(b.sysctl)
  BY <1>2, RecommendedSysctlForm DEF BaseFits
<1>12. b.zram # Unset => b.zram \in ZramForms /\ ValidZram(b.zram)
  BY <1>2 DEF BaseFits
<1>13. p \in Forms
  BY <1>3, <1>4, <1>5, <1>7, <1>10, <1>11, <1>12 DEF Forms
<1>14. /\ p.disable = FALSE /\ p.zram = b.zram /\ p.create = b.create /\ p.resize = b.resize
       /\ p.remove = Unset /\ p.sysctl = b.sysctl /\ p.mm = mm /\ p.prepare = prepare
  BY <1>7
<1>15. Valid(p, KnownFiles(h))
  BY <1>4, <1>5, <1>10, <1>11, <1>12, <1>14 DEF Valid
<1>16. OneSwapChange(p)
  BY <1>8, <1>14 DEF OneSwapChange, SwapfileFits
<1>17. Stageable(p)
  BY <1>10, <1>13, <1>14, <1>16 DEF Stageable, SwapAsked, ValidCreate, ValidResize
<1>18. p.create # Unset => ~ Blocked(h)
  BY <1>2, <1>14 DEF BaseFits
<1> QED BY <1>8, <1>13, <1>14, <1>15, <1>17, <1>18 DEF FitFor, mb


\* What a migration stages is valid for any configuration of zram-tools it could
\* read.
LEMMA MigrationForm ==
  ASSUME NEW legacy \in LegacyForms, NEW p, p = Migration(legacy)
  PROVE  p \in Forms /\ p.create = Unset /\ p.resize = Unset
<1> DEFINE size == IF legacy.percent # Unset THEN Percent(legacy.percent)
                   ELSE IF legacy.mb # Unset THEN Number(legacy.mb) ELSE Percent(50)
           prio == IF legacy.prio = Unset THEN 100 ELSE legacy.prio
           z == [device |-> "zram0", limit |-> Unset, algo |-> legacy.algo,
                 size |-> size, prio |-> prio]
<1>1. size \in Formula
  <2>1. \A n \in Nat : Percent(n) \in Formula /\ Number(n) \in Formula
    BY DEF Percent, Number, Formula
  <2>2. legacy.percent \in Nat \cup {Unset} /\ legacy.mb \in Nat \cup {Unset}
    BY DEF LegacyForms
  <2> QED BY <2>1, <2>2
<1>2. prio \in Int /\ legacy.algo \in Texts \cup {Unset} /\ "zram0" \in Texts
  BY DEF LegacyForms, Texts
<1>3. p = [NoChanges EXCEPT !.zram = z, !.finalize = TRUE]
  BY DEF Migration
<1> HIDE DEF size, prio
<1>4. z \in ZramForms
  BY <1>1, <1>2 DEF ZramForms
<1> HIDE DEF z
<1>5. p = [disable |-> FALSE, zram |-> z, create |-> Unset, resize |-> Unset,
           remove |-> Unset, sysctl |-> Unset, zswap |-> FALSE, oomd |-> FALSE,
           mm |-> Unset, prepare |-> {}, finalize |-> TRUE]
  BY <1>3 DEF NoChanges
<1> QED BY <1>4, <1>5 DEF Forms

\* A machine is one a form can be optimized for.
LEMMA ContextForm ==
  ASSUME NEW h, HasStorage(h)
  PROVE  Context(h) \in Contexts
<1>1. h.ram \in Nat
  BY DEF HasStorage
<1>2. Profile(h) \in Profiles
  BY DEF Profile, PickProfile, Profiles
<1>3. HibernationConflict(h) \in BOOLEAN
  BY DEF HibernationConflict
<1> QED BY <1>1, <1>2, <1>3 DEF Context, Contexts

-----------------------------------------------------------------------------
(* What an operation leaves alone, and the settings.                       *)

\* g is h but for these fields.
Only(h, g, fields) ==
  DOMAIN g = DOMAIN h /\ \A x \in DOMAIN h \ fields : g[x] = h[x]

\* One change after the other.
LEMMA OnlyComposed ==
  ASSUME NEW h, NEW g, NEW k, NEW m, NEW n, Only(h, g, m), Only(g, k, n)
  PROVE  Only(h, k, m \cup n)
BY DEF Only

\* What is asked of zram is done to the devices and their configuration,
LEMMA OnlyZram ==
  ASSUME NEW h, NEW p
  PROVE  Only(h, ZramChanged(h, p), {"zram", "conf"})
<1>1. \A m : Only(m, Stop(m), {"zram"})
  BY DEF Only, Stop
<1>2. \A m, s : Only(m, [m EXCEPT !.conf["etc"] = s], {"conf"})
  BY DEF Only
<1>3. \A m, devices : Only(m, Restart(m, devices), {"zram"})
  BY DEF Only, Restart
<1>4. \A m, z : Only(m, Configure(m, z), {"conf"})
  BY DEF Only, Configure
<1>5. CASE p.disable
  <2>1. ZramChanged(h, p) = [Stop(h) EXCEPT !.conf["etc"] = <<>>]
    BY <1>5 DEF ZramChanged, Disable
  <2> QED BY <2>1, <1>1, <1>2 DEF Only
<1>6. CASE ~ p.disable /\ p.zram # Unset
  <2> DEFINE c == Configure(h, p.zram)
  <2>1. ZramChanged(h, p) = Restart(c, Devices(Sections(c)))
    BY <1>6 DEF ZramChanged, RestartAll
  <2>2. Only(h, c, {"conf"})
    BY <1>4
  <2> HIDE DEF c
  <2> QED BY <2>1, <2>2, <1>3 DEF Only
<1>7. CASE ~ p.disable /\ p.zram = Unset
  BY <1>7 DEF ZramChanged, Only
<1> QED BY <1>5, <1>6, <1>7

\* what is asked of the swapfiles to them,
LEMMA OnlySwap ==
  ASSUME NEW h, NEW p
  PROVE  Only(h, SwapChanged(h, p), SwapFields)
<1>1. \A m, path, mb, prio : Only(m, Put(m, path, mb, prio), SwapFields)
  <2> TAKE m, path, mb, prio
  <2> DEFINE files == {f \in m.files : f.name # path}
                        \cup {[name |-> path, mb |-> mb, cow |-> FALSE]}
             disk  == {s \in m.disk : s.name # path}
                        \cup {[name |-> path, type |-> "file", kb |-> ReportedKb(mb), prio |-> prio]}
             free  == m.free + SizeOf(m, path) - mb
             cows  == m.cowdirs \ {path}
             new   == m.fresh \cup {path}
  <2>1. Put(m, path, mb, prio) =
          [m EXCEPT !.files = files, !.disk = disk, !.cowdirs = cows, !.fresh = new, !.free = free]
    BY DEF Put
  <2> HIDE DEF files, disk, free, cows, new
  <2> QED BY <2>1 DEF Only, SwapFields
<1>2. \A m, path, prio : Only(m, Listed(m, path, prio), SwapFields)
  BY DEF Only, Listed, SwapFields
<1>3. \A m, put, r : Only(m, put, SwapFields) => Only(m, InPlace(m, put, r), SwapFields)
  BY DEF Only, InPlace, SwapFields
<1>4. \A m, path : Only(m, Remove(m, path), SwapFields)
  BY DEF Only, Remove, Drop, SwapFields
<1>5. \A m, c : Only(m, Create(m, c), SwapFields)
  BY <1>1, <1>2 DEF Create, Only
<1>6. \A m, r : Only(m, Resize(m, r), SwapFields)
  <2> TAKE m, r
  <2>1. Only(m, m, SwapFields)
    BY DEF Only
  <2> QED BY <2>1, <1>1, <1>3 DEF Resize
<1> DEFINE a == Aged(h)
           m == IF p.remove # Unset THEN Remove(a, p.remove)
                ELSE IF p.create # Unset THEN Create(a, p.create) ELSE a
<1>a. Only(h, a, SwapFields)
  BY DEF Aged, Only, SwapFields
<1> HIDE DEF a
<1>7. Only(h, m, SwapFields)
  BY <1>a, <1>4, <1>5 DEF Only
<1>8. SwapChanged(h, p) = Resize(m, p.resize)
  BY DEF SwapChanged, a
<1> HIDE DEF m
<1> QED BY <1>6, <1>7, <1>8 DEF Only

\* and every setting to a drop-in and what it is about.
LEMMA OnlySetting ==
  ASSUME NEW h, NEW v
  PROVE  /\ Only(h, SetSysctl(h, v), {"etc", "sysctl"})
         /\ Only(h, Prepare(h, v), {"cowdirs"})
         /\ Only(h, DisableZswap(h, v), {"etc", "zswap"})
         /\ Only(h, EnableOomd(h, v), {"etc", "oomd"})
         /\ Only(h, SetMm(h, v), {"etc", "mm"})
         /\ Only(h, Finalize(h, v), {"legacy", "service"})
<1>1. Only(h, SetSysctl(h, v), {"etc", "sysctl"})
  <2> DEFINE e == [h EXCEPT !.etc["sysctl"] = IF @ = Unset THEN v ELSE Overlaid(@, v)]
             l == Loaded(e)
  <2>1. SetSysctl(h, v) = IF v = Unset THEN h ELSE [e EXCEPT !.sysctl = l]
    BY DEF SetSysctl, Reload
  <2>2. Only(h, e, {"etc"})
    BY DEF Only
  <2> HIDE DEF e, l
  <2> QED BY <2>1, <2>2 DEF Only
<1>2. Only(h, Prepare(h, v), {"cowdirs"})
  BY DEF Only, Prepare
<1>3. Only(h, DisableZswap(h, v), {"etc", "zswap"})
  BY DEF Only, DisableZswap
<1>4. Only(h, EnableOomd(h, v), {"etc", "oomd"})
  BY DEF Only, EnableOomd
<1>5. Only(h, SetMm(h, v), {"etc", "mm"})
  BY DEF Only, SetMm
<1>6. Only(h, Finalize(h, v), {"legacy", "service"})
  BY DEF Only, Finalize
<1> QED BY <1>1, <1>2, <1>3, <1>4, <1>5, <1>6

\* What is set,
SettingFields == {"sysctl", "mm", "zswap", "oomd", "etc"}

\* and that what is not changed keeps its form.
LEMMA SettingsFramed ==
  ASSUME NEW h, HasSettings(h), SettingFields \subseteq DOMAIN h,
         NEW fields, fields \cap Traits = {}, NEW g, Only(h, g, fields),
         "sysctl" \in fields => g.sysctl \in [Knobs -> Nat],
         "mm" \in fields => g.mm \in [ttl: Nat, defrag: Texts],
         "zswap" \in fields => g.zswap \in {"on", "off", "none"},
         "oomd" \in fields => g.oomd \in OomdForms /\ (g.oomd.userkill => g.oomd.policies),
         "etc" \in fields => g.etc \in DropInForms
  PROVE  HasSettings(g)
<1>1. /\ "sysctl" \notin fields => g.sysctl = h.sysctl
      /\ "mm" \notin fields => g.mm = h.mm
      /\ "zswap" \notin fields => g.zswap = h.zswap
      /\ "oomd" \notin fields => g.oomd = h.oomd
      /\ "etc" \notin fields => g.etc = h.etc
  BY DEF Only, SettingFields
<1>2. Traits \subseteq DOMAIN h /\ "later" \in Traits
  BY DEF HasSettings, Traits
<1>3. g.later = h.later /\ Traits \subseteq DOMAIN g
  BY <1>2 DEF Only
<1> QED BY <1>1, <1>3 DEF HasSettings


\* Values over values are values.
LEMMA LoadedForm ==
  ASSUME NEW h, HasSettings(h)
  PROVE  Loaded(h) \in [Knobs -> Nat]
<1>1. \A a \in [Knobs -> Nat], b \in SysctlForms : Overlaid(a, b) \in [Knobs -> Nat]
  BY DEF Overlaid, SysctlForms
<1>2. h.etc.sysctl \in SysctlForms \cup {Unset}
  BY DEF HasSettings, DropInForms
<1> QED BY <1>1, <1>2 DEF Loaded, HasSettings

\* The settings of a machine stay settings when values are set,
LEMMA SysctlKeepsSettings ==
  ASSUME NEW h, HasSettings(h), SettingFields \subseteq DOMAIN h,
         NEW v \in SysctlForms \cup {Unset}
  PROVE  HasSettings(SetSysctl(h, v))
<1> DEFINE w == IF h.etc.sysctl = Unset THEN v ELSE Overlaid(h.etc.sysctl, v)
           etc == [h.etc EXCEPT !["sysctl"] = w]
           e == [h EXCEPT !.etc = etc]
           g == [e EXCEPT !.sysctl = Loaded(e)]
<1>1. SetSysctl(h, v) = IF v = Unset THEN h ELSE g
  BY DEF SetSysctl, Reload
<1>2. CASE v # Unset
  <2>1. h.etc \in DropInForms /\ h.etc.sysctl \in SysctlForms \cup {Unset}
    BY DEF HasSettings, DropInForms
  <2>2. w \in SysctlForms
    BY <1>2, <2>1, OverlaidForms
  <2> HIDE DEF w
  <2>3. etc \in DropInForms
    BY <2>1, <2>2 DEF DropInForms
  <2> HIDE DEF etc
  <2>4. Only(h, e, {"etc"}) /\ e.etc = etc
    BY DEF Only, SettingFields
  <2> HIDE DEF e
  <2>5. HasSettings(e)
    BY <2>3, <2>4, SettingsFramed DEF Traits
  <2>6. Only(e, g, {"sysctl"}) /\ g.sysctl = Loaded(e) /\ SettingFields \subseteq DOMAIN e
    BY <2>4 DEF Only, SettingFields
  <2> HIDE DEF g
  <2>7. HasSettings(g)
    BY <2>5, <2>6, LoadedForm, SettingsFramed DEF Traits
  <2> QED BY <1>1, <1>2, <2>7
<1> QED BY <1>1, <1>2

\* and by all the rest of an apply.
LEMMA TunablesKeepSettings ==
  ASSUME NEW h, HasSettings(h), SettingFields \subseteq DOMAIN h
  PROVE  /\ \A wanted \in BOOLEAN : /\ HasSettings(DisableZswap(h, wanted))
                                    /\ HasSettings(EnableOomd(h, wanted))
         /\ \A wanted \in MmForms \cup {Unset} : HasSettings(SetMm(h, wanted))
<1>0. h.etc \in DropInForms /\ h.zswap \in {"on", "off", "none"}
      /\ h.oomd \in OomdForms /\ (h.oomd.userkill => h.oomd.policies)
      /\ h.mm \in [ttl: Nat, defrag: Texts]
  BY DEF HasSettings
<1>1. ASSUME NEW wanted \in BOOLEAN PROVE HasSettings(DisableZswap(h, wanted))
  <2> DEFINE etc == [h.etc EXCEPT !["zswap"] = TRUE]
             g == DisableZswap(h, wanted)
  <2>1. CASE wanted
    <3>1. etc \in DropInForms
      BY <1>0 DEF DropInForms
    <3>2. g.etc = etc /\ g.zswap \in {"off", "none"}
      BY <2>1 DEF DisableZswap, SettingFields
    <3> HIDE DEF etc, g
    <3>3. Only(h, g, {"etc", "zswap"})
      BY OnlySetting DEF g
    <3>4. HasSettings(g)
      BY <3>1, <3>2, <3>3, SettingsFramed DEF Traits
    <3> QED BY <3>4 DEF g
  <2> QED BY <2>1 DEF DisableZswap
<1>2. ASSUME NEW wanted \in BOOLEAN PROVE HasSettings(EnableOomd(h, wanted))
  <2> DEFINE etc == [h.etc EXCEPT !["oomd"] = TRUE]
             oomd == [h.oomd EXCEPT !.enabled = TRUE, !.active = TRUE]
             g == EnableOomd(h, wanted)
  <2>1. CASE wanted
    <3>1. etc \in DropInForms
      BY <1>0 DEF DropInForms
    <3>2. oomd \in OomdForms /\ (oomd.userkill => oomd.policies)
      BY <1>0 DEF OomdForms
    <3>3. g.etc = etc /\ g.oomd = oomd
      BY <2>1 DEF EnableOomd, SettingFields
    <3> HIDE DEF etc, oomd, g
    <3>4. Only(h, g, {"etc", "oomd"})
      BY OnlySetting DEF g
    <3>5. HasSettings(g)
      BY <3>1, <3>2, <3>3, <3>4, SettingsFramed DEF Traits
    <3> QED BY <3>5 DEF g
  <2> QED BY <2>1 DEF EnableOomd
<1>3. ASSUME NEW wanted \in MmForms \cup {Unset} PROVE HasSettings(SetMm(h, wanted))
  <2> DEFINE m == IF h.etc.mm = Unset THEN wanted ELSE Overlaid(h.etc.mm, wanted)
             etc == [h.etc EXCEPT !["mm"] = m]
             ttl == IF wanted.ttl # Unset /\ h.lru THEN wanted.ttl ELSE h.mm.ttl
             defrag == IF wanted.defrag = Unset THEN h.mm.defrag ELSE wanted.defrag
             mm == [h.mm EXCEPT !.ttl = ttl, !.defrag = defrag]
             g == SetMm(h, wanted)
  <2>1. CASE wanted \notin {Unset, NoMm}
    <3>0. wanted \in MmForms /\ wanted.ttl \in Nat \cup {Unset}
          /\ wanted.defrag \in Texts \cup {Unset}
      BY <2>1 DEF MmForms
    <3>1. h.etc.mm \in MmForms \cup {Unset}
      BY <1>0 DEF DropInForms
    <3>2. m \in MmForms
      BY <3>0, <3>1, OverlaidForms
    <3> HIDE DEF m
    <3>3. etc \in DropInForms
      BY <1>0, <3>2 DEF DropInForms
    <3>4. ttl \in Nat /\ defrag \in Texts
      BY <1>0, <3>0
    <3>5. g.etc = etc /\ g.mm = mm
      BY <2>1 DEF SetMm, SettingFields, m
    <3> HIDE DEF etc, g, ttl, defrag
    <3>6. mm \in [ttl: Nat, defrag: Texts]
      BY <1>0, <3>4
    <3> HIDE DEF mm
    <3>7. Only(h, g, {"etc", "mm"})
      BY OnlySetting DEF g
    <3>8. HasSettings(g)
      BY <3>3, <3>5, <3>6, <3>7, SettingsFramed DEF Traits
    <3> QED BY <3>8 DEF g
  <2> QED BY <2>1 DEF SetMm
<1> QED BY <1>1, <1>2, <1>3

\* An apply keeps them settings.
LEMMA SettingsApplied ==
  ASSUME NEW h, HasSettings(h), Parts \subseteq DOMAIN h, NEW p \in Forms
  PROVE  HasSettings(Applied(h, p))
<1> SUFFICES ASSUME NEW a, a = ZramChanged(h, p),
                    NEW b, b = SwapChanged(a, p),
                    NEW c, c = SetSysctl(b, p.sysctl),
                    NEW d, d = Prepare(c, p.prepare),
                    NEW e, e = DisableZswap(d, p.zswap),
                    NEW f, f = EnableOomd(e, p.oomd),
                    NEW g, g = SetMm(f, p.mm),
                    NEW k, k = Finalize(g, p.finalize)
             PROVE  HasSettings(k)
  BY DEF Applied
<1>1. /\ p.sysctl \in SysctlForms \cup {Unset} /\ p.mm \in MmForms \cup {Unset}
      /\ p.zswap \in BOOLEAN /\ p.oomd \in BOOLEAN
  BY DEF Forms
<1>2. SettingFields \subseteq DOMAIN h
  BY DEF SettingFields, Parts
<1>3. HasSettings(a) /\ SettingFields \subseteq DOMAIN a
  <2>1. Only(h, a, {"zram", "conf"})
    BY OnlyZram
  <2>2. DOMAIN a = DOMAIN h
    BY <2>1 DEF Only
  <2> QED BY <1>2, <2>1, <2>2, SettingsFramed DEF Traits
<1>4. HasSettings(b) /\ SettingFields \subseteq DOMAIN b
  <2>1. Only(a, b, SwapFields)
    BY OnlySwap
  <2>2. DOMAIN b = DOMAIN a
    BY <2>1 DEF Only
  <2> QED BY <1>3, <2>1, <2>2, SettingsFramed DEF Traits, SwapFields
<1>5. HasSettings(c) /\ SettingFields \subseteq DOMAIN c
  <2>1. Only(b, c, {"etc", "sysctl"})
    BY OnlySetting
  <2>2. DOMAIN c = DOMAIN b
    BY <2>1 DEF Only
  <2> QED BY <1>1, <1>4, <2>2, SysctlKeepsSettings
<1>6. HasSettings(d) /\ SettingFields \subseteq DOMAIN d
  <2>1. Only(c, d, {"cowdirs"})
    BY OnlySetting
  <2>2. DOMAIN d = DOMAIN c
    BY <2>1 DEF Only
  <2> QED BY <1>5, <2>1, <2>2, SettingsFramed DEF Traits
<1>7. HasSettings(e) /\ SettingFields \subseteq DOMAIN e
  <2>1. DOMAIN e = DOMAIN d
    BY OnlySetting DEF Only
  <2> QED BY <1>1, <1>6, <2>1, TunablesKeepSettings
<1>8. HasSettings(f) /\ SettingFields \subseteq DOMAIN f
  <2>1. DOMAIN f = DOMAIN e
    BY OnlySetting DEF Only
  <2> QED BY <1>1, <1>7, <2>1, TunablesKeepSettings
<1>9. HasSettings(g) /\ SettingFields \subseteq DOMAIN g
  <2>1. DOMAIN g = DOMAIN f
    BY OnlySetting DEF Only
  <2> QED BY <1>1, <1>8, <2>1, TunablesKeepSettings
<1>10. Only(g, k, {"legacy", "service"})
  BY OnlySetting
<1> QED BY <1>9, <1>10, SettingsFramed DEF Traits


\* What a rollback leaves alone.
LEMMA OnlyBack ==
  ASSUME NEW h, NEW s
  PROVE  /\ Only(h, SwapBack(h, s), SwapFields)
         /\ Only(h, ZramBack(h, s), {"zram", "conf"})
         /\ Only(h, ZswapBack(h, s), {"zswap"})
         /\ Only(h, OomdBack(h, s), {"oomd"})
         /\ Only(h, MmBack(h, s), {"mm"})
<1>1. Only(h, SwapBack(h, s), SwapFields)
  <2> DEFINE files == FilesBack(h, s)
             disk  == {d \in h.disk : d.name \notin Extra(h, s) \cup ListedFiles(s)}
                        \cup {Activated(s, f) : f \in {f \in FilesBack(h, s) :
                                                 f.name \in ListedFiles(s) /\ ~ f.cow}}
             cows  == h.cowdirs \ Missing(h, s)
             new   == (h.fresh \ Extra(h, s)) \cup Missing(h, s)
             free  == h.free + SpaceOf(h, Extra(h, s)) - SpaceOf(s, Missing(h, s))
  <2>1. SwapBack(h, s) = [h EXCEPT !.fstab = s.fstab, !.files = files, !.disk = disk,
                                   !.cowdirs = cows, !.fresh = new, !.free = free]
    BY DEF SwapBack
  <2> HIDE DEF files, disk, cows, new, free
  <2> QED BY <2>1 DEF Only, SwapFields
<1>2. Only(h, ZramBack(h, s), {"zram", "conf"})
  <2> DEFINE a == Stop(h)
             b == [a EXCEPT !.conf["etc"] = s.conf["etc"]]
             devices == IF s.conf["etc"] = Unset THEN {} ELSE Devices(s.conf["etc"])
  <2>1. ZramBack(h, s) = Restart(b, devices)
    BY DEF ZramBack
  <2>2. Only(h, a, {"zram"})
    BY DEF Only, Stop
  <2> HIDE DEF a, devices
  <2>3. Only(a, b, {"conf"})
    BY DEF Only
  <2> HIDE DEF b
  <2>4. Only(b, Restart(b, devices), {"zram"})
    BY DEF Only, Restart
  <2> QED BY <2>1, <2>2, <2>3, <2>4 DEF Only
<1>3. Only(h, ZswapBack(h, s), {"zswap"})
  BY DEF Only, ZswapBack
<1>4. Only(h, OomdBack(h, s), {"oomd"})
  BY DEF Only, OomdBack
<1>5. Only(h, MmBack(h, s), {"mm"})
  BY DEF Only, MmBack
<1> QED BY <1>1, <1>2, <1>3, <1>4, <1>5

\* So does a rollback.
LEMMA SettingsRolledBack ==
  ASSUME NEW h, HasSettings(h), Parts \subseteq DOMAIN h, NEW s, HasSettings(s)
  PROVE  HasSettings(RolledBack(h, s))
<1> SUFFICES ASSUME NEW a, a = SwapBack(h, s),
                    NEW b, b = ZramBack(a, s),
                    NEW c, c = SettingsBack(b, s),
                    NEW d, d = ZswapBack(c, s),
                    NEW e, e = OomdBack(d, s),
                    NEW f, f = MmBack(e, s)
             PROVE  HasSettings(f)
  BY DEF RolledBack
<1>1. SettingFields \subseteq DOMAIN h
  BY DEF SettingFields, Parts
<1>2. HasSettings(a) /\ SettingFields \subseteq DOMAIN a /\ Parts \subseteq DOMAIN a
  <2>1. Only(h, a, SwapFields)
    BY OnlyBack
  <2>2. DOMAIN a = DOMAIN h
    BY <2>1 DEF Only
  <2> QED BY <1>1, <2>1, <2>2, SettingsFramed DEF Traits, SwapFields
<1>3. HasSettings(b) /\ SettingFields \subseteq DOMAIN b /\ Parts \subseteq DOMAIN b
  <2>1. Only(a, b, {"zram", "conf"})
    BY OnlyBack
  <2>2. DOMAIN b = DOMAIN a
    BY <2>1 DEF Only
  <2> QED BY <1>2, <2>1, <2>2, SettingsFramed DEF Traits
<1>4. HasSettings(c) /\ SettingFields \subseteq DOMAIN c
  <2> DEFINE m == [b EXCEPT !.etc = s.etc, !.legacy = s.legacy]
             l == Loaded(m)
  <2>1. c = [m EXCEPT !.sysctl = l]
    BY DEF SettingsBack, Reload
  <2>2. Only(b, m, {"etc", "legacy"}) /\ m.etc = s.etc
    BY <1>3 DEF Only, SettingFields
  <2> HIDE DEF m
  <2>3. s.etc \in DropInForms
    BY DEF HasSettings
  <2>4. HasSettings(m)
    BY <1>3, <2>2, <2>3, SettingsFramed DEF Traits
  <2>5. l \in [Knobs -> Nat]
    BY <2>4, LoadedForm
  <2> HIDE DEF l
  <2>6. Only(m, c, {"sysctl"}) /\ c.sysctl = l /\ SettingFields \subseteq DOMAIN m
        /\ DOMAIN c = DOMAIN m
    BY <1>3, <2>1, <2>2 DEF Only, SettingFields
  <2>7. HasSettings(c)
    BY <2>4, <2>5, <2>6, SettingsFramed DEF Traits
  <2> QED BY <2>6, <2>7
<1>5. HasSettings(d) /\ SettingFields \subseteq DOMAIN d
  <2>1. Only(c, d, {"zswap"}) /\ DOMAIN d = DOMAIN c
    BY OnlyBack DEF Only
  <2>2. d.zswap \in {"on", "off", "none"}
    BY <1>4 DEF ZswapBack, HasSettings, SettingFields
  <2> QED BY <1>4, <2>1, <2>2, SettingsFramed DEF Traits
<1>6. HasSettings(e) /\ SettingFields \subseteq DOMAIN e
  <2>1. Only(d, e, {"oomd"}) /\ DOMAIN e = DOMAIN d
    BY OnlyBack DEF Only
  <2>2. d.oomd \in OomdForms /\ (d.oomd.userkill => d.oomd.policies)
    BY <1>5 DEF HasSettings
  <2>3. e.oomd = d.oomd \/ e.oomd = [d.oomd EXCEPT !.enabled = FALSE, !.active = FALSE]
    BY <1>5 DEF OomdBack, SettingFields
  <2>4. e.oomd \in OomdForms /\ (e.oomd.userkill => e.oomd.policies)
    <3> DEFINE o == [d.oomd EXCEPT !.enabled = FALSE, !.active = FALSE]
    <3>1. o \in OomdForms /\ o.userkill = d.oomd.userkill /\ o.policies = d.oomd.policies
      BY <2>2 DEF OomdForms
    <3> QED BY <2>2, <2>3, <3>1
  <2> QED BY <1>5, <2>1, <2>4, SettingsFramed DEF Traits
<1>7. Only(e, f, {"mm"})
  BY OnlyBack
<1>8. f.mm \in [ttl: Nat, defrag: Texts]
  <2> DEFINE kept == IF e.etc["mm"] = Unset THEN NoMm ELSE e.etc["mm"]
             mm == [k \in DOMAIN e.mm |-> IF kept[k] = Unset THEN s.mm[k] ELSE e.mm[k]]
  <2>1. f.mm = mm
    BY <1>6 DEF MmBack, SettingFields
  <2> HIDE DEF kept
  <2>2. e.mm \in [ttl: Nat, defrag: Texts] /\ s.mm \in [ttl: Nat, defrag: Texts]
    BY <1>6 DEF HasSettings
  <2>3. mm = [ttl |-> IF kept.ttl = Unset THEN s.mm.ttl ELSE e.mm.ttl,
              defrag |-> IF kept.defrag = Unset THEN s.mm.defrag ELSE e.mm.defrag]
    BY <2>2
  <2> HIDE DEF mm
  <2> QED BY <2>1, <2>2, <2>3
<1> QED BY <1>6, <1>7, <1>8, SettingsFramed DEF Traits

\* A machine stays one.
LEMMA AppliedMachine ==
  ASSUME NEW h, IsMachine(h), NEW p, SwapAsked(p), CanApply(h, p)
  PROVE  IsMachine(Applied(h, p)) /\ Undoable(Applied(h, p), h)
<1>1. HasStorage(h) /\ HasSettings(h) /\ Parts \subseteq DOMAIN h /\ p \in Forms
  BY DEF IsMachine, HasStorage, SwapAsked
<1> QED BY <1>1, AppliedStep, SettingsApplied DEF IsMachine

\* The same for a rollback.
LEMMA RolledBackMachine ==
  ASSUME NEW h, IsMachine(h), NEW s, IsMachine(s), Undoable(h, s),
         \A p \in Missing(h, s) : SizeOf(s, p) > 0
  PROVE  IsMachine(RolledBack(h, s)) /\ Undoable(RolledBack(h, s), s)
<1>1. HasStorage(h) /\ HasSettings(h) /\ Parts \subseteq DOMAIN h /\ HasStorage(s) /\ HasSettings(s)
  BY DEF IsMachine, HasStorage
<1> QED BY <1>1, RolledBackStep, SettingsRolledBack DEF IsMachine

-----------------------------------------------------------------------------
(* What the advice leaves to be done once it is applied.                   *)

\* What is configured depends on the configurations alone.
LEMMA ShowOf ==
  ASSUME NEW h, NEW g, g.conf = h.conf
  PROVE  Show(g) = Show(h)
<1>1. Layer(g) = Layer(h)
  BY DEF Layer
<1>2. Sections(g) = Sections(h)
  BY <1>1 DEF Sections
<1> QED BY <1>2 DEF Show

\* A configuration that is written is read again, unless one in /run hides it or
\* another device comes first.
LEMMA ShowAfter ==
  ASSUME NEW h, Parts \subseteq DOMAIN h, ZramPart(h), NEW z \in ZramForms,
         NEW g, g.conf = Configure(h, z).conf, g.conf["run"] = Unset
  PROVE  /\ Show(g) # Unset /\ (Show(g) = z \/ Show(g).device # z.device)
         /\ Show(h) # Unset /\ Show(h).device = z.device => Show(g) = z
<1> DEFINE section == [device |-> z.device, size |-> z.size, limit |-> z.limit,
                       algo |-> z.algo, prio |-> z.prio, mount |-> FALSE, rest |-> FALSE]
           t    == Sections(h)
           same == {i \in DOMAIN t : t[i].device = z.device}
           s    == IF same = {} THEN Append(t, section) ELSE [t EXCEPT ![Min(same)] = section]
           Read(x) == [x EXCEPT !.rest = FALSE]
<1>1. SectionList(t)
  BY SectionsForm
<1>2. g.conf = [h.conf EXCEPT !["etc"] = s] /\ "etc" \in DOMAIN h.conf
  BY DEF Configure, Parts, ZramPart, Dirs
<1>3. section \in SectionForms /\ section.device = z.device /\ Config(Read(section)) = z
  <2>1. section \in SectionForms /\ section.device = z.device
    BY DEF ZramForms, SectionForms
  <2>2. \A k \in {"device", "size", "limit", "algo", "prio"} : Read(section)[k] = z[k]
    OBVIOUS
  <2>3. Config(Read(section)) = [k \in {"device", "size", "limit", "algo", "prio"} |-> z[k]]
    BY <2>2 DEF Config
  <2>4. z = [k \in {"device", "size", "limit", "algo", "prio"} |-> z[k]]
    BY DEF ZramForms
  <2> QED BY <2>1, <2>3, <2>4
<1> HIDE DEF section, t
<1>4. /\ s \in Seq(SectionForms) /\ 1 \in DOMAIN s
      /\ s[1] = section \/ (s[1].device # z.device /\ t # <<>> /\ s[1].device = t[1].device)
  <2>1. CASE same = {}
    <3>1. s = Append(t, section) /\ \A i \in DOMAIN t : t[i].device # z.device
      BY <2>1
    <3> HIDE DEF s, same
    <3>2. /\ t \in Seq(SectionForms) /\ s \in Seq(SectionForms)
          /\ DOMAIN t = 1..Len(t) /\ DOMAIN s = 1..Len(t) + 1 /\ Len(t) \in Nat
          /\ \A i \in 1..Len(t) : s[i] = t[i]
          /\ s[Len(t) + 1] = section
      BY <1>1, <1>3, <3>1 DEF SectionList
    <3> QED BY <3>1, <3>2
  <2>2. CASE same # {}
    <3>1. PICK k : same = {k} /\ k \in DOMAIN t /\ t[k].device = z.device
      BY <1>1, <2>2 DEF SectionList
    <3>2. t \in Seq(SectionForms) /\ DOMAIN t = 1..Len(t) /\ Len(t) \in Nat
      BY <1>1 DEF SectionList
    <3>3. Min(same) = k
      BY <3>1, <3>2 DEF Min
    <3>4. s = [t EXCEPT ![k] = section]
      BY <2>2, <3>3
    <3>5. \A i \in DOMAIN t : t[i].device = z.device => i = k
      BY <3>1
    <3> HIDE DEF s, same
    <3>6. s \in Seq(SectionForms) /\ DOMAIN s = DOMAIN t /\ 1 \in DOMAIN t
      BY <1>3, <3>1, <3>2, <3>4
    <3> QED BY <3>4, <3>5, <3>6
  <2> QED BY <2>1, <2>2
<1> HIDE DEF s
<1>5. Layer(g) = "etc"
  <2> DEFINE found == {i \in DOMAIN Layers : g.conf[Layers[i]] # Unset}
  <2>1. DOMAIN Layers = 1..4 /\ Layers[1] = "run" /\ Layers[2] = "etc"
    BY DEF Layers
  <2>2. 1 \notin found /\ 2 \in found /\ found \subseteq 1..4
    BY <1>2, <1>4, <2>1, TuningAssumption
  <2>3. Layer(g) = IF found = {} THEN Unset ELSE Layers[Min(found)]
    BY DEF Layer
  <2> HIDE DEF found
  <2>4. \A i \in found : 2 <= i
    BY <2>2
  <2>5. Min(found) \in found /\ Min(found) <= 2
    BY <2>2, <2>4 DEF Min
  <2> DEFINE least == Min(found)
  <2>6. least \in 1..4 /\ 2 <= least /\ least <= 2
    BY <2>2, <2>4, <2>5
  <2> HIDE DEF least
  <2>7. least = 2
    BY <2>6
  <2> QED BY <2>1, <2>2, <2>3, <2>7 DEF least
<1>6. g.conf["etc"] = s /\ "etc" # Unset
  BY <1>2, TuningAssumption DEF Dirs
<1>7. Sections(g) = [i \in DOMAIN s |-> Read(s[i])]
  BY <1>5, <1>6 DEF Sections
<1>8. Sections(g)[1] = Read(s[1]) /\ Sections(g) # <<>>
  BY <1>4, <1>7
<1>9. Show(g) = Config(Read(s[1]))
  BY <1>8 DEF Show
<1>12. Show(h) # Unset => t # <<>> /\ Show(h).device = t[1].device
  BY DEF Show, Config, t
<1>10. CASE s[1] = section
  BY <1>3, <1>9, <1>10, FormsAssumption
<1>11. s[1].device # z.device => Show(g) # Unset /\ Show(g).device # z.device
  <2> HAVE s[1].device # z.device
  <2>1. s[1] \in SectionForms
    BY <1>4
  <2>2. Read(s[1]).device = s[1].device /\ Read(s[1]) \in SectionForms
    BY <2>1 DEF SectionForms
  <2> HIDE DEF Read
  <2>3. Config(Read(s[1])) \in ZramForms /\ Config(Read(s[1])).device = s[1].device
    BY <2>2 DEF Config, ZramForms, SectionForms
  <2> QED BY <1>9, <2>3, FormsAssumption
<1>13. CASE s[1].device # z.device /\ t # <<>> /\ s[1].device = t[1].device
  BY <1>11, <1>12, <1>13
<1> QED BY <1>4, <1>10, <1>13

\* What is staged for zram, if anything.
LEMMA ZramAdvised ==
  ASSUME NEW h, NEW scale
  PROVE  StageZram(h, scale).pending.zram =
           IF HibernationConflict(h) \/ ~ ZramNeedsUpdate(Show(h), RecommendZram(h, scale), h.ram)
           THEN Unset ELSE ZramForStaging(Show(h), RecommendZram(h, scale), h.ram)
BY DEF StageZram, Report, NoChanges

\* What is wanted for zram is known.
LEMMA WantedFields ==
  ASSUME NEW h, NEW scale, NEW w, w = RecommendZram(h, scale)
  PROVE  /\ w \in ZramForms /\ w.device = "zram0" /\ w.size # Unset
         /\ w = [device |-> w.device, size |-> w.size, limit |-> w.limit,
                 algo |-> w.algo, prio |-> w.prio]
<1> DEFINE size == ZramFormula(Profile(h), h.ram, scale)
           limit == ResidentLimit(Profile(h), scale)
           algo == Algorithm(Family(h), h.ram, h.cores)
<1>1. size \in Formula
  BY DEF ZramFormula, DefaultFormula, Formula, Ram, Capped
<1>2. limit \in {"half", Unset} /\ algo \in {"zstd", "lz4"}
  BY DEF ResidentLimit, Algorithm
<1>3. w = [device |-> "zram0", size |-> size, limit |-> limit, algo |-> algo, prio |-> 100]
  BY DEF RecommendZram, RecommendedZram, Profile
<1> HIDE DEF size, limit, algo
<1>4. w \in ZramForms
  BY <1>1, <1>2, <1>3 DEF ZramForms, Texts
<1> QED BY <1>1, <1>3, <1>4, FormsAssumption

\* A configuration that was staged needs no update.
LEMMA StagedNeedsNone ==
  ASSUME NEW h, HasStorage(h), NEW scale, NEW w, w = RecommendZram(h, scale),
         NEW z, z = ZramForStaging(Show(h), w, h.ram)
  PROVE  z \in ZramForms /\ z.device = "zram0" /\ ~ ZramNeedsUpdate(z, w, h.ram)
<1> DEFINE now == Show(h)
           kept == now # Unset /\ now.size # Unset /\ ~ SizeNeedsUpdate(now.size, w.size, h.ram)
<1>1. z \in ZramForms
  BY WantedZram
<1>2. w.device = "zram0" /\ w.size # Unset
      /\ w = [device |-> w.device, size |-> w.size, limit |-> w.limit,
              algo |-> w.algo, prio |-> w.prio]
  BY WantedFields
<1>3. z = IF kept THEN [w EXCEPT !.size = now.size] ELSE w
  BY DEF ZramForStaging
<1>4. kept => now.size # Unset /\ ~ SizeNeedsUpdate(now.size, w.size, h.ram)
  OBVIOUS
<1> HIDE DEF now, kept
<1>5. z.device = w.device /\ z.limit = w.limit /\ z.algo = w.algo /\ z.prio = w.prio
      /\ z.size = IF kept THEN now.size ELSE w.size
  BY <1>2, <1>3
<1>6. ~ SizeNeedsUpdate(z.size, w.size, h.ram)
  BY <1>2, <1>4, <1>5 DEF SizeNeedsUpdate
<1>7. z # Unset
  BY <1>1, FormsAssumption
<1> QED BY <1>1, <1>2, <1>5, <1>6, <1>7 DEF ZramNeedsUpdate

\* The same of two machines.
SameTraits(h, g) ==
  g.ram = h.ram /\ \A x \in Traits : g[x] = h[x]

\* zram: nothing is left to stage where what was staged is read again.
LEMMA ZramSettles ==
  ASSUME NEW h, HasStorage(h), NEW scale, NEW z, z = StageZram(h, scale).pending.zram,
         NEW g, SameTraits(h, g),
         z = Unset => g.conf = h.conf,
         z # Unset => g.conf = Configure(h, z).conf,
         StageZram(g, scale).pending.zram # Unset
  PROVE  z # Unset /\ (g.conf["run"] # Unset \/ Show(g).device # "zram0")
<1> DEFINE w == RecommendZram(h, scale)
<1>1. /\ g.ram = h.ram /\ g.distro = h.distro /\ g.like = h.like
      /\ g.cores = h.cores /\ g.resume = h.resume
  BY DEF SameTraits, Traits
<1>2. Family(g) = Family(h) /\ HibernationConflict(g) = HibernationConflict(h)
  BY <1>1 DEF Family, HibernationConflict
<1>3. RecommendZram(g, scale) = w
  BY <1>1, <1>2 DEF RecommendZram
<1>4. ~ HibernationConflict(h) /\ ZramNeedsUpdate(Show(g), w, h.ram)
  BY <1>1, <1>2, <1>3, ZramAdvised
<1>5. CASE z = Unset
  <2>1. Show(g) = Show(h)
    BY <1>5, ShowOf
  <2>2. z = ZramForStaging(Show(h), w, h.ram)
    BY <1>4, <2>1, ZramAdvised
  <2> QED BY <1>5, <2>2, WantedZram, FormsAssumption
<1>6. CASE z # Unset
  <2>1. z = ZramForStaging(Show(h), w, h.ram)
    BY <1>6, ZramAdvised
  <2>2. z \in ZramForms /\ z.device = "zram0" /\ ~ ZramNeedsUpdate(z, w, h.ram)
    BY <2>1, StagedNeedsNone
  <2>3. ASSUME g.conf["run"] = Unset PROVE Show(g).device # "zram0"
    <3>1. Parts \subseteq DOMAIN h /\ ZramPart(h)
      BY MachineParts
    <3>2. Show(g) = z \/ Show(g).device # z.device
      BY <1>6, <2>2, <2>3, <3>1, ShowAfter
    <3> QED BY <1>4, <2>2, <3>2
  <2> QED BY <1>6, <2>3
<1> QED BY <1>5, <1>6


\* One swapfile of h is put in the place of another, or is new.
NewSwap(h, g, c) ==
  \E prio : g.disk = {s \in h.disk : s.name # c.path}
                       \cup {[name |-> c.path, type |-> "file", kb |-> ReportedKb(c.size),
                              prio |-> prio]}

\* The swap after a change that creates or resizes.
LEMMA SwapAdvised ==
  ASSUME NEW h, NEW o, Parts \subseteq DOMAIN o, Keeps(h, o, SwapFields),
         NEW p, p.remove = Unset, OneSwapChange(p), NEW b, b = SwapChanged(o, p)
  PROVE  /\ p.create = Unset /\ p.resize = Unset => Keeps(h, b, SwapFields \ {"fresh"})
         /\ p.create # Unset => NewSwap(h, b, p.create)
         /\ p.resize # Unset => NewSwap(h, b, p.resize)
         /\ b.cowdirs \subseteq h.cowdirs
         /\ p.create = Unset => ListedFiles(b) = ListedFiles(h)
         /\ p.create # Unset => /\ ListedFiles(b) \subseteq ListedFiles(h) \cup {p.create.path}
                                /\ p.create.path \notin b.cowdirs
<1> DEFINE a == Aged(o)
<1>0. /\ a.disk = h.disk /\ a.fstab = h.fstab /\ a.files = h.files
      /\ a.cowdirs = h.cowdirs /\ a.free = h.free
      /\ SwapFields \subseteq DOMAIN a
  BY DEF Keeps, SwapFields, Parts, Aged
<1>1. CASE p.create # Unset
  <2> DEFINE c == p.create
             m == Put(a, c.path, c.size, c.prio)
             new == [name |-> c.path, type |-> "file", kb |-> ReportedKb(c.size), prio |-> c.prio]
             entry == [name |-> c.path, type |-> "file", there |-> TRUE, prio |-> c.prio]
  <2>1. b = Listed(m, c.path, c.prio) /\ p.resize = Unset
    BY <1>1 DEF SwapChanged, Resize, Create, OneSwapChange
  <2> HIDE DEF a
  <2>2. /\ m.disk = {s \in a.disk : s.name # c.path} \cup {new}
        /\ m.cowdirs = a.cowdirs \ {c.path}
        /\ m.fstab = a.fstab /\ DOMAIN m = DOMAIN a
    BY <1>0 DEF Put, SwapFields
  <2> HIDE DEF m, new
  <2>3. /\ b.disk = m.disk /\ b.cowdirs = m.cowdirs
        /\ b.fstab = {e \in m.fstab : e.name # c.path} \cup {entry}
    BY <1>0, <2>1, <2>2 DEF Listed, SwapFields
  <2>4. entry.name = c.path
    OBVIOUS
  <2> HIDE DEF entry
  <2>5. ListedFiles(b) \subseteq ListedFiles(h) \cup {c.path}
    BY <1>0, <2>2, <2>3, <2>4 DEF ListedFiles
  <2>6. NewSwap(h, b, c)
    BY <1>0, <2>2, <2>3 DEF NewSwap, new
  <2> QED BY <1>0, <1>1, <2>1, <2>2, <2>3, <2>5, <2>6
<1>2. CASE p.create = Unset /\ p.resize # Unset
  <2> DEFINE r == p.resize
             prio == PriorityOf(a, r.path)
             m == Put(a, r.path, r.size, prio)
             new == [name |-> r.path, type |-> "file", kb |-> ReportedKb(r.size), prio |-> prio]
             files == {IF f.name = r.path THEN [f EXCEPT !.mb = r.size] ELSE f : f \in a.files}
  <2>1. b = m \/ b = InPlace(a, m, r)
    BY <1>2 DEF SwapChanged, Resize
  <2> HIDE DEF a
  <2>2. /\ m.disk = {s \in a.disk : s.name # r.path} \cup {new}
        /\ m.cowdirs = a.cowdirs \ {r.path}
        /\ m.fstab = a.fstab /\ DOMAIN m = DOMAIN a
    BY <1>0 DEF Put, SwapFields
  <2> HIDE DEF m, new
  <2>3. InPlace(a, m, r) = [m EXCEPT !.files = files, !.cowdirs = a.cowdirs, !.fresh = a.fresh]
    BY DEF InPlace
  <2> HIDE DEF files
  <2>4. b.disk = m.disk /\ b.fstab = m.fstab /\ b.cowdirs \subseteq a.cowdirs
    BY <1>0, <2>1, <2>2, <2>3 DEF SwapFields
  <2>5. ListedFiles(b) = ListedFiles(h)
    BY <1>0, <2>2, <2>4 DEF ListedFiles
  <2>6. NewSwap(h, b, r)
    BY <1>0, <2>2, <2>4 DEF NewSwap, new
  <2> QED BY <1>0, <1>2, <2>4, <2>5, <2>6
<1>3. CASE p.create = Unset /\ p.resize = Unset
  <2>1. b = a
    BY <1>3 DEF SwapChanged, Resize
  <2> HIDE DEF a
  <2>2. ListedFiles(b) = ListedFiles(h)
    BY <1>0, <2>1 DEF ListedFiles
  <2>3. Keeps(h, b, SwapFields \ {"fresh"})
    BY <1>0, <2>1 DEF Keeps, SwapFields
  <2> QED BY <1>0, <1>3, <2>1, <2>2, <2>3
<1> QED BY <1>1, <1>2, <1>3

\* What is staged for the swapfile is what was decided.
LEMMA SwapfileStaged ==
  ASSUME NEW h, HasStorage(h), NEW scale,
         NEW d, d = DecideOverflow(h.disk, h.ram, Configured(h), h.free, scale),
         NEW p, p = StageSwapfile(h, scale).pending
  PROVE  /\ d.do = "stage" => p.create # Unset
         /\ d.do = "grow" => p.resize # Unset
         /\ d.do \notin {"stage", "grow"} => p.create = Unset /\ p.resize = Unset
<1> DEFINE c == [path |-> OverflowPath, size |-> d.mb, prio |-> 10]
           r == [path |-> OverflowPath, size |-> d.mb]
<1>0. d.do \in {"stage", "grow"} => c # Unset /\ r # Unset
  <2>1. OverflowMb(h.ram, scale) \in Nat
    BY OverflowIsNumber DEF HasStorage
  <2>2. d.do \in {"stage", "grow"} => d.mb \in Nat
    BY <2>1, OverflowDecision DEF OverflowDecided
  <2>3. OverflowPath \in Texts
    BY DEF Texts
  <2> QED BY <2>2, <2>3, FormsAssumption DEF CreateForms, ResizeForms
<1>1. CASE d.do = "stage"
  <2>1. p = [NoChanges EXCEPT !.create = c]
    BY <1>1 DEF StageSwapfile, Report
  <2>2. p.create = c
    BY <2>1 DEF NoChanges
  <2> HIDE DEF c, r
  <2> QED BY <1>0, <1>1, <2>2
<1>2. CASE d.do = "grow"
  <2>1. p = [NoChanges EXCEPT !.resize = r]
    BY <1>2 DEF StageSwapfile, Report
  <2>2. p.resize = r
    BY <2>1 DEF NoChanges
  <2> HIDE DEF c, r
  <2> QED BY <1>0, <1>2, <2>2
<1>3. CASE d.do \notin {"stage", "grow"}
  <2>1. p = NoChanges
    BY <1>3 DEF StageSwapfile, Report
  <2> QED BY <1>3, <2>1 DEF NoChanges
<1> QED BY <1>1, <1>2, <1>3

\* The swapfile: nothing is left to stage when it is there.
LEMMA SwapfileSettles ==
  ASSUME NEW h, HasStorage(h), NEW scale, NEW f, f = StageSwapfile(h, scale).pending,
         NEW g, HasStorage(g), g.ram = h.ram,
         f.create = Unset /\ f.resize = Unset => Keeps(h, g, {"free", "disk", "fstab"}),
         f.create # Unset => NewSwap(h, g, f.create),
         f.resize # Unset => NewSwap(h, g, f.resize)
  PROVE  /\ StageSwapfile(g, scale).pending.create = Unset
         /\ StageSwapfile(g, scale).pending.resize = Unset
<1> DEFINE mb == OverflowMb(h.ram, scale)
           d == DecideOverflow(g.disk, g.ram, Configured(g), g.free, scale)
<1>1. CASE f.create = Unset /\ f.resize = Unset
  <2>1. d = DecideOverflow(h.disk, h.ram, Configured(h), h.free, scale)
    BY <1>1 DEF Keeps, Configured
  <2> HIDE DEF d
  <2>2. d.do \notin {"stage", "grow"}
    BY <1>1, <2>1, SwapfileStaged
  <2> QED BY <2>2, SwapfileStaged DEF d
<1>2. CASE f.create # Unset \/ f.resize # Unset
  <2>1. PICK c : NewSwap(h, g, c) /\ c.path = OverflowPath /\ c.size = mb
    <3>1. SwapfileFits(h, mb, f.create, f.resize)
      BY SwapfileProposed
    <3> HIDE DEF mb
    <3>2. f.create # Unset => f.create.path = OverflowPath /\ f.create.size = mb
      BY <3>1 DEF SwapfileFits
    <3>3. f.resize # Unset => f.resize.path = OverflowPath /\ f.resize.size = mb
      BY <3>1 DEF SwapfileFits
    <3> QED BY <1>2, <3>2, <3>3
  <2>2. mb \in Nat
    BY OverflowIsNumber DEF HasStorage
  <2>3. PICK prio : g.disk = {s \in h.disk : s.name # OverflowPath}
                      \cup {[name |-> OverflowPath, type |-> "file", kb |-> ReportedKb(mb),
                             prio |-> prio]}
    BY <2>1 DEF NewSwap
  <2> DEFINE swap == CHOOSE s \in g.disk : TRUE
             now == swap.kb \div 1024
  <2>4. g.disk # {} /\ swap \in g.disk
    BY <2>3
  <2>5. d = IF \/ Cardinality(g.disk) # 1 \/ swap.name # OverflowPath \/ swap.type # "file"
               \/ now + Slack >= mb
            THEN Decision("skip_active", 0)
            ELSE IF g.free = Unset \/ g.free < mb - now + Margin
            THEN Decision("skip_space", 0)
            ELSE Decision("grow", mb)
    BY <2>4 DEF DecideOverflow, DecideGrow
  <2> HIDE DEF swap, mb, d
  <2>6. swap.name = OverflowPath => swap.kb = ReportedKb(mb)
    BY <2>3, <2>4
  <2>7. swap.name = OverflowPath => now + Slack >= mb
    BY <2>2, <2>6 DEF ReportedKb, Slack
  <2> HIDE DEF now
  <2>8. d = Decision("skip_active", 0)
    BY <2>5, <2>7
  <2>9. d.do \notin {"stage", "grow"}
    BY <2>8 DEF Decision
  <2> QED BY <2>9, SwapfileStaged DEF d
<1> QED BY <1>1, <1>2

\* The values of sysctl: nothing is left but what a later file overrides.
LEMMA SysctlSettles ==
  ASSUME NEW h, HasSettings(h), SettingFields \subseteq DOMAIN h,
         NEW v, v = StageSysctl(h).pending.sysctl,
         NEW g, g.sysctl = SetSysctl(h, v).sysctl,
         StageSysctl(g).pending.sysctl # Unset
  PROVE  h.later # NoSysctl
<1> DEFINE r == RecommendedSysctl
<1>1. r \in SysctlForms /\ r # Unset
  BY RecommendedSysctlForm, FormsAssumption
<1>2. \A k \in Knobs : r[k] # Unset
  BY RecommendedSysctlForm, UnsetIsNothing
<1> HIDE DEF r
<1>3. \A m : StageSysctl(m).pending.sysctl = IF SysctlNeedsUpdate(m.sysctl, r) THEN r ELSE Unset
  BY DEF StageSysctl, Report, NoChanges, r
<1>4. SysctlNeedsUpdate(g.sysctl, r)
  BY <1>3
<1>5. CASE v = Unset
  <2>1. g.sysctl = h.sysctl
    BY <1>5 DEF SetSysctl
  <2> QED BY <1>1, <1>3, <1>4, <1>5, <2>1
<1>6. CASE v # Unset
  <2>1. v = r
    BY <1>3, <1>6
  <2> DEFINE w == IF h.etc.sysctl = Unset THEN v ELSE Overlaid(h.etc.sysctl, v)
             etc == [h.etc EXCEPT !["sysctl"] = w]
             e == [h EXCEPT !.etc = etc]
             l == Loaded(e)
  <2>2. SetSysctl(h, v) = [e EXCEPT !.sysctl = l]
    BY <1>6 DEF SetSysctl, Reload
  <2>3. h.etc \in DropInForms /\ h.etc.sysctl \in SysctlForms \cup {Unset}
    BY DEF HasSettings, DropInForms
  <2>4. w \in SysctlForms /\ \A k \in Knobs : w[k] = r[k]
    BY <1>1, <1>2, <2>1, <2>3, OverlaidForms DEF Overlaid, SysctlForms
  <2> HIDE DEF w
  <2>5. e.etc.sysctl = w /\ e.later = h.later /\ e.sysctl = h.sysctl /\ DOMAIN e = DOMAIN h
    BY <2>3 DEF SettingFields, DropInForms
  <2> HIDE DEF e
  <2>6. l = Overlaid(Overlaid(h.sysctl, w), h.later)
    BY <2>4, <2>5, FormsAssumption DEF Loaded
  <2>7. g.sysctl = l
    BY <2>2, <2>5 DEF SettingFields
  <2>8. h.sysctl \in [Knobs -> Nat]
    BY DEF HasSettings
  <2> HIDE DEF l
  <2>9. h.later = NoSysctl => \A k \in Knobs : l[k] = r[k]
    BY <1>2, <2>4, <2>6, <2>8 DEF Overlaid, NoSysctl
  <2>10. DOMAIN r = Knobs
    BY <1>1 DEF SysctlForms
  <2> QED BY <1>4, <2>7, <2>9, <2>10 DEF SysctlNeedsUpdate
<1> QED BY <1>5, <1>6

\* systemd-oomd: once it runs with the policies of xzram, or was not to be
\* enabled, it is not to be enabled.
LEMMA OomSettles ==
  ASSUME NEW h, NEW g, SameTraits(h, g), Blocked(g) = Blocked(h),
         StageOom(h).stage => g.oomd.active /\ g.etc["oomd"],
         ~ StageOom(h).stage => g.oomd = h.oomd /\ g.etc["oomd"] = h.etc["oomd"]
  PROVE  ~ StageOom(g).stage
<1>1. \A m : StageOom(m).stage <=>
               /\ ~ Blocked(m)
               /\ IF Protected(m) THEN AtRisk(m) ELSE m.psi /\ m.oomd.installed
  BY DEF StageOom
<1>2. CASE StageOom(h).stage
  <2>1. Protected(g) /\ ~ AtRisk(g)
    BY <1>2 DEF Protected, AtRisk, Policies, Guarded
  <2> QED BY <1>1, <2>1
<1>3. CASE ~ StageOom(h).stage
  <2>1. Protected(g) = Protected(h) /\ AtRisk(g) = AtRisk(h) /\ g.psi = h.psi
    BY <1>3 DEF Protected, AtRisk, Policies, UserKill, Guarded, SameTraits, Traits
  <2> QED BY <1>1, <1>3, <2>1
<1> QED BY <1>2, <1>3

\* The memory tunables: what is set is no default of the kernel.
LEMMA MmSettles ==
  ASSUME NEW h, HasSettings(h), SettingFields \subseteq DOMAIN h,
         NEW v, v = StageMm(h), NEW g, SameTraits(h, g), Blocked(g) = Blocked(h),
         g.mm = SetMm(h, v).mm
  PROVE  StageMm(g) = Unset
<1> DEFINE Ttl(m) == IF m.lru /\ m.mm.ttl = 0 THEN 1000 ELSE Unset
           Defrag(m) == IF m.mm.defrag \in {"madvise", "always"} THEN "defer+madvise" ELSE Unset
           Wanted(m) == [ttl |-> Ttl(m), defrag |-> Defrag(m)]
<1>1. \A m : StageMm(m) = IF Blocked(m) \/ Wanted(m) = NoMm THEN Unset ELSE Wanted(m)
  BY DEF StageMm
<1>2. g.lru = h.lru
  BY DEF SameTraits, Traits
<1>3. CASE v = Unset
  <2>1. g.mm = h.mm
    BY <1>3 DEF SetMm
  <2>2. Wanted(g) = Wanted(h)
    BY <1>2, <2>1
  <2> HIDE DEF Wanted
  <2>3. CASE Blocked(h)
    BY <1>1, <2>3
  <2>4. CASE Wanted(h) = NoMm
    BY <1>1, <2>2, <2>4
  <2> QED BY <1>1, <1>3, <2>2, <2>3, <2>4
<1>4. CASE v # Unset
  <2>1. v = Wanted(h) /\ v # NoMm
    BY <1>1, <1>4
  <2>2. v.ttl = Ttl(h) /\ v.defrag = Defrag(h)
    BY <2>1
  <2>3. h.mm \in [ttl: Nat, defrag: Texts]
    BY DEF HasSettings
  <2> DEFINE ttl == IF v.ttl # Unset /\ h.lru THEN v.ttl ELSE h.mm.ttl
             defrag == IF v.defrag = Unset THEN h.mm.defrag ELSE v.defrag
  <2> HIDE DEF Wanted, Ttl, Defrag
  <2>4. g.mm.ttl = ttl /\ g.mm.defrag = defrag
    BY <1>4, <2>1, <2>3 DEF SetMm, SettingFields
  <2>5. ~ (h.lru /\ ttl = 0)
    BY <2>2, <2>3, FormsAssumption DEF Ttl
  <2>6. defrag \notin {"madvise", "always"}
    BY <2>2, FormsAssumption DEF Defrag, Texts
  <2> HIDE DEF ttl, defrag
  <2>7. Ttl(g) = Unset /\ Defrag(g) = Unset
    BY <1>2, <2>4, <2>5, <2>6 DEF Ttl, Defrag
  <2>8. Wanted(g) = NoMm
    BY <2>7 DEF NoMm, Wanted
  <2> QED BY <1>1, <2>8
<1> QED BY <1>3, <1>4

\* What can be staged depends on the machine for two of its traits.
LEMMA SameBlocked ==
  ASSUME NEW h, NEW g, SameTraits(h, g)
  PROVE  Blocked(g) = Blocked(h)
BY DEF Blocked, Immutable, SameTraits, Traits

\* The advice, field by field.
AdviceOf(h, scales, p) ==
  /\ p.disable = FALSE /\ p.remove = Unset /\ p.finalize = FALSE
  /\ p.zram   = StageZram(h, scales.zram).pending.zram
  /\ p.sysctl = StageSysctl(h).pending.sysctl
  /\ p.create = StageSwapfile(h, scales.swapfile).pending.create
  /\ p.resize = StageSwapfile(h, scales.swapfile).pending.resize
  /\ p.zswap  = ((h.zram # {} \/ p.zram # Unset) /\ h.zswap = "on")
  /\ p.oomd   = StageOom(h).stage
  /\ p.mm     = StageMm(h)
  /\ p.prepare = MissingNodatacow(h)

\* Nothing is advised for a machine whose /etc cannot be written,
LEMMA NothingWhenBlocked ==
  ASSUME NEW h, HasStorage(h), Blocked(h), NEW scales
  PROVE  Recommend(h, scales).pending = NoChanges
<1> DEFINE zswap == ZswapBypasses(h, NoChanges) /\ ~ Blocked(h)
           prepare == IF Blocked(h) THEN {} ELSE MissingNodatacow(h)
           oomd == StageOom(h).stage
           mm == StageMm(h)
<1>1. Base(h, scales).pending = NoChanges
  BY DEF Base, Noted, Report
<1>2. Recommend(h, scales).pending =
        [NoChanges EXCEPT !.zswap = zswap, !.prepare = prepare, !.oomd = oomd, !.mm = mm]
  BY <1>1 DEF Recommend, HostFixes, Report
<1>3. zswap = FALSE /\ prepare = {} /\ oomd = FALSE /\ mm = Unset
  BY DEF StageOom, StageMm
<1> HIDE DEF zswap, prepare, oomd, mm
<1> QED BY <1>2, <1>3 DEF NoChanges

\* and for any other what every part of the advice says.
LEMMA AdviceFields ==
  ASSUME NEW h, HasStorage(h), ~ Blocked(h), NEW scales,
         NEW p, p = Recommend(h, scales).pending
  PROVE  AdviceOf(h, scales, p)
<1> DEFINE z == StageZram(h, scales.zram).pending
           s == StageSysctl(h).pending
           f == StageSwapfile(h, scales.swapfile).pending
           b == Base(h, scales).pending
           zswap == ZswapBypasses(h, b) /\ ~ Blocked(h)
           prepare == IF Blocked(h) THEN {} ELSE MissingNodatacow(h)
           oomd == StageOom(h).stage
           mm == StageMm(h)
<1>1. b = [z EXCEPT !.sysctl = s.sysctl, !.create = f.create, !.resize = f.resize]
  BY DEF Base, Noted, Report, Combined
<1>2. z = Proposal(z.zram, Unset, Unset, Unset)
  BY ZramProposed
<1>3. p = [b EXCEPT !.zswap = zswap, !.prepare = prepare, !.oomd = oomd, !.mm = mm]
  BY DEF Recommend, HostFixes, Report
<1>4. zswap = ((h.zram # {} \/ b.zram # Unset) /\ h.zswap = "on")
      /\ prepare = MissingNodatacow(h)
  BY DEF ZswapBypasses
<1> HIDE DEF zswap, prepare, oomd, mm, z, s, f, b
<1>5. b = Proposal(z.zram, f.create, f.resize, s.sysctl)
  <2> DEFINE x == z.zram
  <2>1. z = Proposal(x, Unset, Unset, Unset)
    BY <1>2
  <2> HIDE DEF x
  <2>2. b = Proposal(x, f.create, f.resize, s.sysctl)
    BY <1>1, <2>1 DEF Proposal
  <2> QED BY <2>2 DEF x
<1>6. /\ p.disable = FALSE /\ p.remove = Unset /\ p.finalize = FALSE
      /\ p.zram = z.zram /\ p.sysctl = s.sysctl /\ p.create = f.create /\ p.resize = f.resize
      /\ p.zswap = zswap /\ p.oomd = oomd /\ p.mm = mm /\ p.prepare = prepare
      /\ b.zram = z.zram
  BY <1>3, <1>5 DEF Proposal
<1> QED BY <1>4, <1>6 DEF AdviceOf, z, s, f, oomd, mm

\* It is one change, that can be merged.
LEMMA AdviceMergeable ==
  ASSUME NEW h, HasStorage(h), NEW scales, NEW p, p = Recommend(h, scales).pending,
         p # NoChanges
  PROVE  p \in Forms /\ p.disable = FALSE /\ OneSwapChange(p)
<1>1. ~ Blocked(h)
  BY NothingWhenBlocked
<1>2. AdviceOf(h, scales, p)
  BY <1>1, AdviceFields
<1>3. p \in Forms /\ OneSwapChange(p)
  BY AdviceIsFit DEF FitFor, Stageable, SwapAsked
<1> QED BY <1>2, <1>3 DEF AdviceOf

\* What is merged into nothing is what is performed.
LEMMA MergeIntoNothing ==
  ASSUME NEW p \in Forms, p.disable = FALSE, OneSwapChange(p)
  PROVE  Merge(NoChanges, p) = p
<1> DEFINE z == IF p.zram # Unset THEN [NoChanges EXCEPT !.disable = FALSE, !.zram = p.zram]
                ELSE IF p.disable THEN [NoChanges EXCEPT !.disable = TRUE, !.zram = Unset]
                ELSE NoChanges
           swap == [create |-> p.create, resize |-> p.resize, remove |-> p.remove]
           kind == IF p.remove # Unset THEN "remove"
                   ELSE IF p.resize # Unset THEN "resize"
                   ELSE IF p.create # Unset THEN "create" ELSE "none"
           Kept(k) == IF kind = "none" THEN NoChanges[k] ELSE IF kind = k THEN swap[k] ELSE Unset
           create == Kept("create")
           resize == Kept("resize")
           remove == Kept("remove")
           sysctl == IF p.sysctl = Unset THEN z.sysctl
                     ELSE IF z.sysctl = Unset THEN p.sysctl ELSE Overlaid(z.sysctl, p.sysctl)
           mm == IF p.mm = Unset THEN z.mm
                 ELSE IF z.mm = Unset THEN p.mm ELSE Overlaid(z.mm, p.mm)
           finalize == z.finalize \/ p.finalize
           zswap == z.zswap \/ p.zswap
           oomd == z.oomd \/ p.oomd
           prepare == z.prepare \cup p.prepare
<1>1. Merge(NoChanges, p) =
        [z EXCEPT !.create = create, !.resize = resize, !.remove = remove,
                  !.sysctl = sysctl, !.mm = mm, !.finalize = finalize,
                  !.zswap = zswap, !.oomd = oomd, !.prepare = prepare]
  BY DEF Merge, NoChanges
<1>2. create = p.create /\ resize = p.resize /\ remove = p.remove
  BY DEF OneSwapChange, NoChanges
<1>3. z = [disable |-> FALSE, zram |-> p.zram, create |-> Unset, resize |-> Unset,
           remove |-> Unset, sysctl |-> Unset, zswap |-> FALSE, oomd |-> FALSE,
           mm |-> Unset, prepare |-> {}, finalize |-> FALSE]
  BY DEF NoChanges
<1> HIDE DEF z, create, resize, remove
<1>4. /\ sysctl = p.sysctl /\ mm = p.mm /\ finalize = p.finalize /\ zswap = p.zswap
      /\ oomd = p.oomd /\ prepare = p.prepare
  <2>1. p.finalize \in BOOLEAN /\ p.zswap \in BOOLEAN /\ p.oomd \in BOOLEAN
    BY DEF Forms
  <2> QED BY <1>3, <2>1
<1> HIDE DEF sysctl, mm, finalize, zswap, oomd, prepare
<1>5. Merge(NoChanges, p) =
        [disable |-> FALSE, zram |-> p.zram, create |-> p.create, resize |-> p.resize,
         remove |-> p.remove, sysctl |-> p.sysctl, zswap |-> p.zswap, oomd |-> p.oomd,
         mm |-> p.mm, prepare |-> p.prepare, finalize |-> p.finalize]
  BY <1>1, <1>2, <1>3, <1>4
<1>6. p = [disable |-> p.disable, zram |-> p.zram, create |-> p.create, resize |-> p.resize,
           remove |-> p.remove, sysctl |-> p.sysctl, zswap |-> p.zswap, oomd |-> p.oomd,
           mm |-> p.mm, prepare |-> p.prepare, finalize |-> p.finalize]
  BY DEF Forms
<1> QED BY <1>5, <1>6

\* The drop-in of systemd-oomd is left alone.
SameOomdDropIn(h, g) == DOMAIN g.etc = DOMAIN h.etc /\ g.etc["oomd"] = h.etc["oomd"]

\* It is there.
OomdDropInWritten(h, g) == DOMAIN g.etc = DOMAIN h.etc /\ g.etc["oomd"] = TRUE

\* A change writes the drop-in it is about; that of systemd-oomd is written to
\* enable it.
LEMMA OomdDropIn ==
  ASSUME NEW h, NEW v, "etc" \in DOMAIN h, "oomd" \in DOMAIN h.etc
  PROVE  /\ SameOomdDropIn(h, SetSysctl(h, v))
         /\ SameOomdDropIn(h, DisableZswap(h, v))
         /\ SameOomdDropIn(h, SetMm(h, v))
         /\ v = TRUE => OomdDropInWritten(h, EnableOomd(h, v))
         /\ v = FALSE => SameOomdDropIn(h, EnableOomd(h, v))
<1>1. DOMAIN SetSysctl(h, v).etc = DOMAIN h.etc /\ SetSysctl(h, v).etc["oomd"] = h.etc["oomd"]
  <2> DEFINE w == IF h.etc["sysctl"] = Unset THEN v ELSE Overlaid(h.etc["sysctl"], v)
             etc == [h.etc EXCEPT !["sysctl"] = w]
             e == [h EXCEPT !.etc = etc]
             l == Loaded(e)
  <2>1. SetSysctl(h, v) = IF v = Unset THEN h ELSE [e EXCEPT !.sysctl = l]
    BY DEF SetSysctl, Reload
  <2> HIDE DEF l, w
  <2>2. DOMAIN etc = DOMAIN h.etc /\ etc["oomd"] = h.etc["oomd"]
    OBVIOUS
  <2> HIDE DEF etc
  <2>3. e.etc = etc
    OBVIOUS
  <2> HIDE DEF e
  <2> QED BY <2>1, <2>2, <2>3
<1>2. DOMAIN DisableZswap(h, v).etc = DOMAIN h.etc /\ DisableZswap(h, v).etc["oomd"] = h.etc["oomd"]
  BY DEF DisableZswap
<1>3. DOMAIN SetMm(h, v).etc = DOMAIN h.etc /\ SetMm(h, v).etc["oomd"] = h.etc["oomd"]
  BY DEF SetMm
<1>4. /\ v = TRUE => OomdDropInWritten(h, EnableOomd(h, v))
      /\ v = FALSE => SameOomdDropIn(h, EnableOomd(h, v))
  BY DEF EnableOomd, SameOomdDropIn, OomdDropInWritten
<1> QED BY <1>1, <1>2, <1>3, <1>4 DEF SameOomdDropIn

\* The sysctl values that result depend on the values, on what is set and on what
\* is set later.
LEMMA SameSysctl ==
  ASSUME NEW h, NEW b, DOMAIN b = DOMAIN h, {"etc", "sysctl", "later"} \subseteq DOMAIN h,
         b.etc = h.etc, b.sysctl = h.sysctl, b.later = h.later, NEW v
  PROVE  SetSysctl(b, v).sysctl = SetSysctl(h, v).sysctl
<1> DEFINE w == IF h.etc["sysctl"] = Unset THEN v ELSE Overlaid(h.etc["sysctl"], v)
           etc == [h.etc EXCEPT !["sysctl"] = w]
           x == [h EXCEPT !.etc = etc]
           y == [b EXCEPT !.etc = etc]
<1>1. SetSysctl(h, v) = IF v = Unset THEN h ELSE [x EXCEPT !.sysctl = Loaded(x)]
  BY DEF SetSysctl, Reload
<1>2. SetSysctl(b, v) = IF v = Unset THEN b ELSE [y EXCEPT !.sysctl = Loaded(y)]
  BY DEF SetSysctl, Reload
<1> HIDE DEF etc
<1>3. x.etc = etc /\ x.sysctl = h.sysctl /\ x.later = h.later /\ DOMAIN x = DOMAIN h
      /\ y.etc = etc /\ y.sysctl = h.sysctl /\ y.later = h.later /\ DOMAIN y = DOMAIN h
  OBVIOUS
<1> HIDE DEF x, y
<1>4. Loaded(x) = Loaded(y)
  BY <1>3 DEF Loaded
<1> QED BY <1>1, <1>2, <1>3, <1>4

\* What zram is like after a change of it.
LEMMA ZramAfter ==
  ASSUME NEW h, NEW p, p.disable = FALSE
  PROVE  /\ p.zram = Unset => ZramChanged(h, p) = h
         /\ p.zram # Unset => ZramChanged(h, p).conf = Configure(h, p.zram).conf
<1> DEFINE c == Configure(h, p.zram)
<1>1. \A m, devices : Restart(m, devices).conf = m.conf
  BY DEF Restart
<1>2. p.zram # Unset => ZramChanged(h, p) = Restart(c, Devices(Sections(c)))
  BY DEF ZramChanged, RestartAll
<1> HIDE DEF c
<1>3. p.zram # Unset => ZramChanged(h, p).conf = c.conf
  BY <1>1, <1>2
<1> QED BY <1>3 DEF ZramChanged, c

\* What the advice changes of a machine.
Advanced(h, p, g) ==
  /\ SameTraits(h, g)
  /\ p.zram = Unset => g.conf = h.conf /\ g.zram = h.zram
  /\ p.zram # Unset => g.conf = Configure(h, p.zram).conf
  /\ p.create = Unset /\ p.resize = Unset => Keeps(h, g, {"free", "disk", "fstab"})
  /\ p.create # Unset => NewSwap(h, g, p.create)
  /\ p.resize # Unset => NewSwap(h, g, p.resize)
  /\ ListedFiles(g) \cap g.cowdirs \subseteq (ListedFiles(h) \cap h.cowdirs) \ p.prepare
  /\ g.sysctl = SetSysctl(h, p.sysctl).sysctl
  /\ g.zswap = DisableZswap(h, p.zswap).zswap
  /\ p.oomd => g.oomd.active /\ g.etc["oomd"]
  /\ ~ p.oomd => g.oomd = h.oomd /\ g.etc["oomd"] = h.etc["oomd"]
  /\ g.mm = SetMm(h, p.mm).mm

\* It does just that.
LEMMA AppliedAdvice ==
  ASSUME NEW h, IsMachine(h), NEW p \in Forms, OneSwapChange(p),
         p.disable = FALSE, p.remove = Unset
  PROVE  Advanced(h, p, Applied(h, p))
<1> SUFFICES ASSUME NEW a, a = ZramChanged(h, p),
                    NEW b, b = SwapChanged(a, p),
                    NEW c, c = SetSysctl(b, p.sysctl),
                    NEW d, d = Prepare(c, p.prepare),
                    NEW e, e = DisableZswap(d, p.zswap),
                    NEW f, f = EnableOomd(e, p.oomd),
                    NEW g, g = SetMm(f, p.mm),
                    NEW k, k = Finalize(g, p.finalize)
             PROVE  Advanced(h, p, k)
  BY DEF Applied
<1>1. /\ Parts \subseteq DOMAIN h /\ Traits \subseteq DOMAIN h /\ p.oomd \in BOOLEAN
      /\ h.etc \in DropInForms
  BY DEF IsMachine, HasStorage, HasSettings, Forms
<1>2. "oomd" \in DOMAIN h.etc
  BY <1>1 DEF DropInForms
<1>3. /\ Only(h, a, {"zram", "conf"}) /\ Only(a, b, SwapFields) /\ Only(b, c, {"etc", "sysctl"})
      /\ Only(c, d, {"cowdirs"}) /\ Only(d, e, {"etc", "zswap"}) /\ Only(e, f, {"etc", "oomd"})
      /\ Only(f, g, {"etc", "mm"}) /\ Only(g, k, {"legacy", "service"})
  BY OnlyZram, OnlySwap, OnlySetting
<1>4. /\ DOMAIN a = DOMAIN h /\ DOMAIN b = DOMAIN h /\ DOMAIN c = DOMAIN h /\ DOMAIN d = DOMAIN h
      /\ DOMAIN e = DOMAIN h /\ DOMAIN f = DOMAIN h /\ DOMAIN g = DOMAIN h /\ DOMAIN k = DOMAIN h
  BY <1>3 DEF Only
<1>5. SameTraits(h, k)
  <2>1. ASSUME NEW x \in Traits \cup {"ram"} PROVE k[x] = h[x]
    <3>1. x \in DOMAIN h /\ x \notin {"zram", "conf", "etc", "sysctl", "cowdirs", "zswap",
                                      "oomd", "mm", "legacy", "service"} \cup SwapFields
      BY <1>1 DEF Traits, Parts, SwapFields
    <3> QED BY <1>3, <1>4, <3>1 DEF Only
  <2> QED BY <2>1 DEF SameTraits
<1>6. k.conf = a.conf /\ k.zram = a.zram
  <2>1. {"conf", "zram"} \subseteq DOMAIN h
    BY <1>1 DEF Parts
  <2> QED BY <1>3, <1>4, <2>1 DEF Only, SwapFields
<1>7. /\ p.zram = Unset => k.conf = h.conf /\ k.zram = h.zram
      /\ p.zram # Unset => k.conf = Configure(h, p.zram).conf
  BY <1>6, ZramAfter
<1>8. Keeps(h, a, SwapFields) /\ Keeps(b, k, {"free", "disk", "fstab"})
  <2>1. SwapFields \subseteq DOMAIN h
    BY <1>1 DEF Parts, SwapFields
  <2>2. Keeps(h, a, SwapFields)
    BY <1>3, <2>1 DEF Only, Keeps, SwapFields
  <2>3. Keeps(b, k, {"free", "disk", "fstab"})
    BY <1>3, <1>4, <2>1 DEF Only, Keeps, SwapFields
  <2> QED BY <2>2, <2>3
<1>9. /\ p.create = Unset /\ p.resize = Unset => Keeps(h, b, SwapFields \ {"fresh"})
      /\ p.create # Unset => NewSwap(h, b, p.create)
      /\ p.resize # Unset => NewSwap(h, b, p.resize)
      /\ b.cowdirs \subseteq h.cowdirs
      /\ p.create = Unset => ListedFiles(b) = ListedFiles(h)
      /\ p.create # Unset => /\ ListedFiles(b) \subseteq ListedFiles(h) \cup {p.create.path}
                             /\ p.create.path \notin b.cowdirs
  <2>1. Parts \subseteq DOMAIN a
    BY <1>1, <1>4
  <2> QED BY <2>1, <1>8, SwapAdvised
<1>10. /\ p.create = Unset /\ p.resize = Unset => Keeps(h, k, {"free", "disk", "fstab"})
       /\ p.create # Unset => NewSwap(h, k, p.create)
       /\ p.resize # Unset => NewSwap(h, k, p.resize)
  <2>1. k.disk = b.disk /\ k.free = b.free /\ k.fstab = b.fstab
    BY <1>8 DEF Keeps
  <2>2. \A new : NewSwap(h, b, new) => NewSwap(h, k, new)
    BY <2>1 DEF NewSwap
  <2>3. Keeps(h, b, SwapFields \ {"fresh"}) => Keeps(h, k, {"free", "disk", "fstab"})
    BY <2>1 DEF Keeps, SwapFields
  <2> QED BY <1>9, <2>2, <2>3
<1>11. ListedFiles(k) \cap k.cowdirs \subseteq (ListedFiles(h) \cap h.cowdirs) \ p.prepare
  <2>1. ListedFiles(k) = ListedFiles(b)
    BY <1>8 DEF Keeps, ListedFiles
  <2>2. "cowdirs" \in DOMAIN h
    BY <1>1 DEF Parts
  <2>3. c.cowdirs = b.cowdirs /\ k.cowdirs = d.cowdirs
    BY <1>3, <1>4, <2>2 DEF Only
  <2>4. d.cowdirs = c.cowdirs \ p.prepare
    BY <1>4, <2>2 DEF Prepare
  <2> QED BY <1>9, <2>1, <2>3, <2>4
<1>12. k.sysctl = SetSysctl(h, p.sysctl).sysctl
  <2>1. {"etc", "sysctl", "later"} \subseteq DOMAIN h
    BY <1>1 DEF Parts, Traits
  <2>2. b.etc = h.etc /\ b.sysctl = h.sysctl /\ b.later = h.later
    BY <1>3, <1>4, <2>1 DEF Only, SwapFields
  <2>3. c.sysctl = SetSysctl(h, p.sysctl).sysctl
    BY <1>4, <2>1, <2>2, SameSysctl
  <2> QED BY <1>3, <1>4, <2>1, <2>3 DEF Only
<1>13. k.zswap = DisableZswap(h, p.zswap).zswap
  <2>1. "zswap" \in DOMAIN h
    BY <1>1 DEF Parts
  <2>2. d.zswap = h.zswap /\ k.zswap = e.zswap
    BY <1>3, <1>4, <2>1 DEF Only, SwapFields
  <2>3. e.zswap = DisableZswap(h, p.zswap).zswap
    BY <1>4, <2>1, <2>2 DEF DisableZswap
  <2> QED BY <2>2, <2>3
<1>14. /\ p.oomd => k.oomd.active /\ k.etc["oomd"]
       /\ ~ p.oomd => k.oomd = h.oomd /\ k.etc["oomd"] = h.etc["oomd"]
  <2>1. {"oomd", "etc"} \subseteq DOMAIN h
    BY <1>1 DEF Parts
  <2>2. /\ b.etc = h.etc /\ d.etc = c.etc /\ k.etc = g.etc
        /\ e.oomd = h.oomd /\ k.oomd = f.oomd
    BY <1>3, <1>4, <2>1 DEF Only, SwapFields
  <2>3. DOMAIN c.etc = DOMAIN h.etc /\ c.etc["oomd"] = h.etc["oomd"]
    <3>1. "etc" \in DOMAIN b /\ "oomd" \in DOMAIN b.etc
      BY <1>2, <1>4, <2>1, <2>2
    <3>2. SameOomdDropIn(b, SetSysctl(b, p.sysctl))
      BY <3>1, OomdDropIn
    <3> QED BY <2>2, <3>2 DEF SameOomdDropIn
  <2>4. DOMAIN e.etc = DOMAIN h.etc /\ e.etc["oomd"] = h.etc["oomd"]
    <3>1. "etc" \in DOMAIN d /\ "oomd" \in DOMAIN d.etc
      BY <1>2, <1>4, <2>1, <2>2, <2>3
    <3>2. SameOomdDropIn(d, DisableZswap(d, p.zswap))
      BY <3>1, OomdDropIn
    <3> QED BY <2>2, <2>3, <3>2 DEF SameOomdDropIn
  <2>5. DOMAIN f.etc = DOMAIN h.etc
        /\ f.etc["oomd"] = IF p.oomd THEN TRUE ELSE h.etc["oomd"]
    <3>1. "etc" \in DOMAIN e /\ "oomd" \in DOMAIN e.etc
      BY <1>2, <1>4, <2>1, <2>4
    <3>2. /\ p.oomd = TRUE => OomdDropInWritten(e, EnableOomd(e, p.oomd))
          /\ p.oomd = FALSE => SameOomdDropIn(e, EnableOomd(e, p.oomd))
      BY <3>1, OomdDropIn
    <3> QED BY <1>1, <2>4, <3>2 DEF OomdDropInWritten, SameOomdDropIn
  <2>6. g.etc["oomd"] = f.etc["oomd"]
    <3>1. "etc" \in DOMAIN f /\ "oomd" \in DOMAIN f.etc
      BY <1>2, <1>4, <2>1, <2>5
    <3>2. SameOomdDropIn(f, SetMm(f, p.mm))
      BY <3>1, OomdDropIn
    <3> QED BY <3>2 DEF SameOomdDropIn
  <2>7. /\ p.oomd => f.oomd.active
        /\ ~ p.oomd => f.oomd = e.oomd
    <3>1. h.oomd \in OomdForms
      BY DEF IsMachine, HasSettings
    <3>2. "active" \in DOMAIN e.oomd
      BY <2>2, <3>1 DEF OomdForms
    <3> QED BY <1>4, <2>1, <3>2 DEF EnableOomd
  <2> QED BY <2>2, <2>5, <2>6, <2>7
<1>15. k.mm = SetMm(h, p.mm).mm
  <2>1. "mm" \in DOMAIN h /\ "lru" \in DOMAIN h
    BY <1>1 DEF Parts, Traits
  <2>2. f.mm = h.mm /\ f.lru = h.lru /\ k.mm = g.mm
    BY <1>3, <1>4, <2>1 DEF Only, SwapFields
  <2>3. g.mm = SetMm(h, p.mm).mm
    <3> DEFINE w == p.mm
               Mm(m) == [m.mm EXCEPT
                           !.ttl    = IF w.ttl # Unset /\ m.lru THEN w.ttl ELSE @,
                           !.defrag = IF w.defrag = Unset THEN @ ELSE w.defrag]
    <3>1. ASSUME NEW m, "mm" \in DOMAIN m
          PROVE  SetMm(m, w).mm = IF w \in {Unset, NoMm} THEN m.mm ELSE Mm(m)
      BY <3>1 DEF SetMm
    <3> HIDE DEF w
    <3>2. Mm(f) = Mm(h)
      BY <2>2
    <3> HIDE DEF Mm
    <3>3. g = SetMm(f, w) /\ "mm" \in DOMAIN f
      BY <1>4, <2>1 DEF w
    <3>4. g.mm = IF w \in {Unset, NoMm} THEN f.mm ELSE Mm(f)
      BY <3>1, <3>3
    <3>5. SetMm(h, w).mm = IF w \in {Unset, NoMm} THEN h.mm ELSE Mm(h)
      BY <2>1, <3>1
    <3> QED BY <2>2, <3>2, <3>4, <3>5 DEF w
  <2> QED BY <2>2, <2>3
<1> QED BY <1>5, <1>7, <1>10, <1>11, <1>12, <1>13, <1>14, <1>15 DEF Advanced

\* What the advice leaves for a machine: nothing but what it cannot reach.
Settled(h, scales) ==
  \A left \in {Recommend(h, scales).pending} :
    /\ left.zram # Unset => h.conf["run"] # Unset \/ Show(h).device # "zram0"
    /\ left.sysctl # Unset => h.later # NoSysctl
    /\ [left EXCEPT !.zram = Unset, !.sysctl = Unset] = NoChanges

\* Where nothing is advised nothing is left,
LEMMA NothingLeft ==
  ASSUME NEW h, NEW scales, Recommend(h, scales).pending = NoChanges
  PROVE  Settled(h, scales)
BY NothingIsStageable DEF Settled, NoChanges

\* and nothing is left where the advice was applied.
LEMMA AdviceSettlesMachine ==
  ASSUME NEW h, IsMachine(h), NEW scales, NEW p, p = Recommend(h, scales).pending,
         p # NoChanges, CanApply(h, p)
  PROVE  Settled(Applied(h, p), scales)
<1> SUFFICES ASSUME NEW g, g = Applied(h, p), NEW left, left = Recommend(g, scales).pending
             PROVE  /\ left.zram # Unset => g.conf["run"] # Unset \/ Show(g).device # "zram0"
                    /\ left.sysctl # Unset => g.later # NoSysctl
                    /\ [left EXCEPT !.zram = Unset, !.sysctl = Unset] = NoChanges
  BY DEF Settled
<1>1. HasStorage(h) /\ HasSettings(h) /\ SettingFields \subseteq DOMAIN h
  BY DEF IsMachine, HasStorage, Parts, SettingFields
<1>2. ~ Blocked(h)
  BY <1>1, NothingWhenBlocked
<1>3. AdviceOf(h, scales, p)
  BY <1>1, <1>2, AdviceFields
<1>4. p \in Forms /\ OneSwapChange(p) /\ SwapAsked(p)
  BY <1>1, AdviceIsFit DEF FitFor, Stageable, SwapAsked
<1>5. IsMachine(g) /\ HasStorage(g)
  BY <1>4, AppliedMachine DEF IsMachine
<1>6. Advanced(h, p, g)
  BY <1>3, <1>4, AppliedAdvice DEF AdviceOf
<1>7. SameTraits(h, g) /\ Blocked(g) = Blocked(h) /\ g.ram = h.ram /\ g.later = h.later
  BY <1>6, SameBlocked DEF Advanced, SameTraits, Traits
<1>8. AdviceOf(g, scales, left)
  BY <1>2, <1>5, <1>7, AdviceFields
<1>9. left.zram # Unset => p.zram # Unset /\ (g.conf["run"] # Unset \/ Show(g).device # "zram0")
  BY <1>1, <1>3, <1>6, <1>7, <1>8, ZramSettles DEF AdviceOf, Advanced
<1>10. left.sysctl # Unset => g.later # NoSysctl
  BY <1>1, <1>3, <1>6, <1>7, <1>8, SysctlSettles DEF AdviceOf, Advanced
<1>11. left.create = Unset /\ left.resize = Unset
  BY <1>1, <1>3, <1>5, <1>6, <1>7, <1>8, SwapfileSettles DEF AdviceOf, Advanced
<1>12. left.oomd = FALSE
  <2>1. ~ StageOom(g).stage
    BY <1>3, <1>6, <1>7, OomSettles DEF AdviceOf, Advanced
  <2>2. left.oomd \in BOOLEAN
    BY <1>5, AdviceIsFit DEF FitFor, Forms
  <2> QED BY <1>8, <2>1, <2>2 DEF AdviceOf
<1>13. left.mm = Unset
  BY <1>1, <1>3, <1>6, <1>7, <1>8, MmSettles DEF AdviceOf, Advanced
<1>14. left.zswap = FALSE
  <2>1. g.zswap = IF p.zswap THEN IF h.zswap = "none" THEN "none" ELSE "off" ELSE h.zswap
    <3>1. p.zswap \in BOOLEAN /\ "zswap" \in DOMAIN h
      BY <1>1, <1>4 DEF Forms, SettingFields
    <3> QED BY <1>6, <3>1 DEF Advanced, DisableZswap
  <2>2. p.zswap = ((h.zram # {} \/ p.zram # Unset) /\ h.zswap = "on")
    BY <1>3 DEF AdviceOf
  <2>3. p.zram = Unset => g.zram = h.zram
    BY <1>6 DEF Advanced
  <2>4. ~ ((g.zram # {} \/ left.zram # Unset) /\ g.zswap = "on")
    BY <1>9, <2>1, <2>2, <2>3
  <2> QED BY <1>8, <2>4 DEF AdviceOf
<1>15. left.prepare = {}
  <2>1. ListedFiles(g) \cap g.cowdirs \subseteq (ListedFiles(h) \cap h.cowdirs) \ p.prepare
    BY <1>6 DEF Advanced
  <2>2. p.prepare = ListedFiles(h) \cap h.cowdirs \cap AllowedPaths
    BY <1>3 DEF AdviceOf, MissingNodatacow
  <2>3. left.prepare = ListedFiles(g) \cap g.cowdirs \cap AllowedPaths
    BY <1>8 DEF AdviceOf, MissingNodatacow
  <2> QED BY <2>1, <2>2, <2>3
<1>16. left.disable = FALSE /\ left.remove = Unset /\ left.finalize = FALSE
  BY <1>8 DEF AdviceOf
<1>17. left \in Forms
  BY <1>5, AdviceIsFit DEF FitFor
<1>18. [left EXCEPT !.zram = Unset, !.sysctl = Unset] = NoChanges
  <2> DEFINE rest == [left EXCEPT !.zram = Unset, !.sysctl = Unset]
  <2>1. /\ rest \in Forms /\ rest.zram = Unset /\ rest.sysctl = Unset
        /\ rest.disable = left.disable /\ rest.create = left.create
        /\ rest.resize = left.resize /\ rest.remove = left.remove
        /\ rest.zswap = left.zswap /\ rest.oomd = left.oomd /\ rest.mm = left.mm
        /\ rest.prepare = left.prepare /\ rest.finalize = left.finalize
    BY <1>17 DEF Forms
  <2> HIDE DEF rest
  <2>2. rest = [disable |-> rest.disable, zram |-> rest.zram, create |-> rest.create,
                resize |-> rest.resize, remove |-> rest.remove, sysctl |-> rest.sysctl,
                zswap |-> rest.zswap, oomd |-> rest.oomd, mm |-> rest.mm,
                prepare |-> rest.prepare, finalize |-> rest.finalize]
    BY <2>1 DEF Forms
  <2>3. rest = NoChanges
    BY <2>1, <2>2, <1>11, <1>12, <1>13, <1>14, <1>15, <1>16 DEF NoChanges
  <2> QED BY <2>3 DEF rest
<1> QED BY <1>9, <1>10, <1>18

-----------------------------------------------------------------------------
(* What doctor still reports once the advice is applied.                   *)

\* No swap is of no size,
LEMMA DiskOfNone ==
  ASSUME NEW h, h.disk = {}
  PROVE  DiskKb(h) = 0
<1> DEFINE Step(g, s) == IF s = {} THEN 0
                         ELSE (CHOOSE x \in s : TRUE).kb + g[s \ {CHOOSE x \in s : TRUE}]
           it == CHOOSE g : g = [s \in SUBSET h.disk |-> Step(g, s)]
           w == [s \in SUBSET h.disk |-> 0]
<1>1. w = [s \in SUBSET h.disk |-> Step(w, s)]
  OBVIOUS
<1>2. it = [s \in SUBSET h.disk |-> Step(it, s)]
  BY <1>1
<1>3. DiskKb(h) = it[h.disk]
  BY DEF DiskKb, MapThenSumSet, MapThenFoldSet
<1> HIDE DEF it
<1> QED BY <1>2, <1>3

\* and one swap is of its own.
LEMMA DiskOfOne ==
  ASSUME NEW h, NEW a, h.disk = {a}, a.kb \in Nat
  PROVE  DiskKb(h) = a.kb
<1> DEFINE Step(g, s) == IF s = {} THEN 0
                         ELSE (CHOOSE x \in s : TRUE).kb + g[s \ {CHOOSE x \in s : TRUE}]
           it == CHOOSE g : g = [s \in SUBSET h.disk |-> Step(g, s)]
           w == [s \in SUBSET h.disk |-> IF s = {} THEN 0 ELSE a.kb]
<1>0. (CHOOSE x \in {a} : TRUE) = a
  OBVIOUS
<1>1. w = [s \in SUBSET h.disk |-> Step(w, s)]
  <2>1. \A s \in SUBSET h.disk : w[s] = Step(w, s)
    <3> TAKE s \in SUBSET h.disk
    <3>1. CASE s = {}
      BY <3>1
    <3>2. CASE s = {a}
      BY <3>2, <1>0
    <3> QED BY <3>1, <3>2
  <2> QED BY <2>1
<1>2. it = [s \in SUBSET h.disk |-> Step(it, s)]
  BY <1>1
<1>3. DiskKb(h) = it[h.disk]
  BY DEF DiskKb, MapThenSumSet, MapThenFoldSet
<1> HIDE DEF it
<1>4. it[{}] = 0
  BY <1>2
<1>5. it[{a}] = a.kb + it[{}]
  <2>1. it[{a}] = Step(it, {a})
    BY <1>2
  <2>2. {a} \ {a} = {} /\ {a} # {}
    OBVIOUS
  <2> QED BY <2>1, <2>2, <1>0
<1> QED BY <1>3, <1>4, <1>5

\* What a problem that is reported says of the machine.
Says(h, issue) ==
  /\ issue.code = "zswap_enabled" => h.zswap = "on"
  /\ issue.code = "zram_zswap_conflict" => h.zswap = "on" /\ h.zram # {}
  /\ issue.code = "hibernate_zram" => HibernationConflict(h)
  /\ issue.code = "btrfs_swapfile_nodatacow" =>
       \E f \in ListedFiles(h) : f \in h.cowdirs \/ \E g \in h.files : g.name = f /\ g.cow
  /\ issue.code = "oomd_session_unprotected" => AtRisk(h)
  /\ issue.code \in {"oomd_no_policies", "no_oom_protection"} => ~ Protected(h)
  /\ issue.code = "no_disk_overflow" => h.disk = {}
  /\ issue.code = "disk_overflow_small" => h.disk # {} /\ DiskKb(h) < OverflowFloor(h)
  /\ issue.severity = "error" => issue.code \in {"zram_zswap_conflict", "hibernate_zram"}

LEMMA DoctorSays ==
  ASSUME NEW h, NEW issue \in Doctor(h)
  PROVE  Says(h, issue)
<1>1. issue \in CheckSystem(h) => Says(h, issue)
  BY DEF CheckSystem, When, Warning, Info, Says
<1>2. issue \in CheckZram(h) => Says(h, issue)
  BY DEF CheckZram, When, Warning, Error, Says
<1>3. issue \in CheckFilesystem(h) => Says(h, issue)
  BY DEF CheckFilesystem, When, Warning, Info, Says
<1>4. issue \in CheckOomProtection(h) => Says(h, issue)
  BY DEF CheckOomProtection, When, Warning, Says
<1>5. issue \in CheckOomKills(h) => Says(h, issue)
  BY DEF CheckOomKills, When, Warning, Info, Says
<1>6. issue \in CheckPressure(h) => Says(h, issue)
  BY DEF CheckPressure, When, Warning, Info, Says
<1>7. issue \in CheckHeadroom(h) => Says(h, issue)
  BY DEF CheckHeadroom, When, Warning, Says
<1>8. issue \in CheckOverflow(h) => Says(h, issue)
  BY DEF CheckOverflow, When, Warning, Info, Says
<1>9. issue \in CheckPlacement(h) => Says(h, issue)
  BY DEF CheckPlacement, When, Warning, Says
<1>10. issue \in CheckThp(h) => Says(h, issue)
  BY DEF CheckThp, When, Info, Says
<1> QED BY <1>1, <1>2, <1>3, <1>4, <1>5, <1>6, <1>7, <1>8, <1>9, <1>10 DEF Doctor

\* What a settled machine is like, if its /etc can be written.
Healed(h, scales) ==
  /\ h.zswap = "on" => h.zram = {}
  /\ \A f \in ListedFiles(h) : f \in h.cowdirs => f \notin AllowedPaths
  /\ ~ Protected(h) => ~ h.psi \/ ~ h.oomd.installed
  /\ ~ AtRisk(h)
  /\ StageSwapfile(h, scales.swapfile).pending.create = Unset
  /\ StageSwapfile(h, scales.swapfile).pending.resize = Unset

LEMMA SettledIsHealed ==
  ASSUME NEW h, IsMachine(h), ~ Blocked(h), NEW scales, Settled(h, scales)
  PROVE  Healed(h, scales)
<1> DEFINE left == Recommend(h, scales).pending
           rest == [left EXCEPT !.zram = Unset, !.sysctl = Unset]
<1>1. HasStorage(h) /\ HasSettings(h)
  BY DEF IsMachine
<1>2. AdviceOf(h, scales, left) /\ left \in Forms
  BY <1>1, AdviceFields, AdviceIsFit DEF FitFor
<1>3. rest = NoChanges
  BY DEF Settled
<1> HIDE DEF left
<1>4. /\ rest.create = left.create /\ rest.resize = left.resize /\ rest.zswap = left.zswap
      /\ rest.oomd = left.oomd /\ rest.prepare = left.prepare
  BY <1>2 DEF Forms
<1>5. /\ left.create = Unset /\ left.resize = Unset /\ left.zswap = FALSE
      /\ left.oomd = FALSE /\ left.prepare = {}
  BY <1>3, <1>4 DEF NoChanges
<1>6. h.zswap = "on" => h.zram = {}
  BY <1>2, <1>5 DEF AdviceOf
<1>7. \A f \in ListedFiles(h) : f \in h.cowdirs => f \notin AllowedPaths
  BY <1>2, <1>5 DEF AdviceOf, MissingNodatacow
<1>8. ~ StageOom(h).stage
  BY <1>2, <1>5 DEF AdviceOf
<1>9. IF Protected(h) THEN ~ AtRisk(h) ELSE ~ h.psi \/ ~ h.oomd.installed
  BY <1>8 DEF StageOom
<1>10. AtRisk(h) => Protected(h)
  <2>1. h.oomd.userkill => h.oomd.policies
    BY <1>1 DEF HasSettings
  <2> QED BY <2>1 DEF AtRisk, Protected, UserKill, Guarded, Policies
<1> QED BY <1>2, <1>5, <1>6, <1>7, <1>9, <1>10 DEF Healed, AdviceOf

\* No disk swap is left without a reason,
LEMMA NoOverflowIsExcused ==
  ASSUME NEW h, HasStorage(h), NEW scale \in Scales, h.disk = {},
         StageSwapfile(h, scale).pending.create = Unset
  PROVE  \/ Configured(h) # {} \/ h.ram < 2 * Slack
         \/ h.free = Unset
         \/ h.free < OverflowMb(h.ram, scale) - (DiskKb(h) \div 1024) + Margin
<1> DEFINE mb == OverflowMb(h.ram, scale)
           d == DecideOverflow(h.disk, h.ram, Configured(h), h.free, scale)
<1>1. h.ram \in Nat /\ h.free \in Nat /\ mb \in Nat
  BY OverflowIsNumber DEF HasStorage
<1>2. d.do # "stage"
  BY SwapfileStaged
<1>3. d = IF Configured(h) # {} THEN Decision("skip_configured", 0)
          ELSE IF mb = 0 THEN Decision("skip_zero", 0)
          ELSE IF h.free = Unset \/ h.free < mb + Margin THEN Decision("skip_space", 0)
          ELSE Decision("stage", mb)
  BY DEF DecideOverflow
<1>4. mb = 0 => h.ram < 2 * Slack
  BY <1>1 DEF OverflowMb, Least, Slack, Scales
<1>5. DiskKb(h) \div 1024 = 0
  BY DiskOfNone
<1> HIDE DEF d, mb
<1>6. Configured(h) # {} \/ mb = 0 \/ h.free = Unset \/ h.free < mb + Margin
  BY <1>2, <1>3 DEF Decision
<1>7. mb - 0 + Margin = mb + Margin
  BY <1>1 DEF Margin
<1> QED BY <1>4, <1>5, <1>6, <1>7 DEF mb

\* nor one that is too small.
LEMMA SmallOverflowIsExcused ==
  ASSUME NEW h, HasStorage(h), NEW scale \in Scales, h.disk # {},
         DiskKb(h) < OverflowFloor(h),
         StageSwapfile(h, scale).pending.resize = Unset
  PROVE  \/ \E s \in h.disk : s.name # OverflowPath \/ s.type # "file"
         \/ h.ram < 2 * Slack \/ scale = "low"
         \/ h.free = Unset
         \/ h.free < OverflowMb(h.ram, scale) - (DiskKb(h) \div 1024) + Margin
<1> SUFFICES ASSUME \A s \in h.disk : s.name = OverflowPath /\ s.type = "file",
                    ~ (h.ram < 2 * Slack), scale # "low"
             PROVE  \/ h.free = Unset
                    \/ h.free < OverflowMb(h.ram, scale) - (DiskKb(h) \div 1024) + Margin
  OBVIOUS
<1> DEFINE mb == OverflowMb(h.ram, scale)
           d == DecideOverflow(h.disk, h.ram, Configured(h), h.free, scale)
           swap == CHOOSE s \in h.disk : TRUE
           now == swap.kb \div 1024
<1>1. h.ram \in Nat /\ h.free \in Nat /\ mb \in Nat /\ SwapPart(h)
  BY OverflowIsNumber, MachineParts DEF HasStorage
<1>2. d.do # "grow"
  BY SwapfileStaged
<1>3. swap \in h.disk
  OBVIOUS
<1>4. d = IF \/ Cardinality(h.disk) # 1 \/ swap.name # OverflowPath \/ swap.type # "file"
             \/ now + Slack >= mb
          THEN Decision("skip_active", 0)
          ELSE IF h.free = Unset \/ h.free < mb - now + Margin
          THEN Decision("skip_space", 0)
          ELSE Decision("grow", mb)
  BY DEF DecideOverflow, DecideGrow
<1>5. mb = Least(h.ram, 8192) \/ mb = Least(h.ram, 16384)
  BY DEF OverflowMb, Scales
<1> HIDE DEF swap, d, mb
<1>6. h.disk = {swap}
  BY <1>1, <1>3 DEF SwapPart, Unique
<1>7. Cardinality(h.disk) = 1
  BY <1>6, FS_Singleton
<1>8. swap.kb \in Nat
  BY <1>1, <1>3 DEF SwapPart, SwapForms
<1>9. DiskKb(h) = swap.kb
  BY <1>6, <1>8, DiskOfOne
<1>10. swap.kb < Least(h.ram \div 2, 4096) * 1024
  BY <1>9 DEF OverflowFloor
<1>11. ~ (now + Slack >= mb)
  <2> DEFINE floor == Least(h.ram \div 2, 4096)
  <2>1. floor \in Nat /\ floor <= 4096 /\ 2 * floor <= h.ram
    BY <1>1 DEF Least
  <2> HIDE DEF floor
  <2>2. swap.kb < floor * 1024
    BY <1>10 DEF floor
  <2>3. now < floor /\ now \in Nat
    BY <1>8, <2>1, <2>2
  <2> HIDE DEF now
  <2>4. h.ram >= 128
    BY <1>1 DEF Slack
  <2>5. mb >= h.ram \/ mb >= 8192
    BY <1>1, <1>5 DEF Least
  <2> QED BY <1>1, <2>1, <2>3, <2>4, <2>5 DEF Slack
<1>12. h.free = Unset \/ h.free < mb - now + Margin
  BY <1>2, <1>3, <1>4, <1>7, <1>11 DEF Decision
<1> QED BY <1>9, <1>12 DEF mb

\* The property about a settled machine.
LEMMA DoctorHealedMachine ==
  ASSUME IsMachine(host), advised \in Asked, Settled(host, advised)
  PROVE  DoctorHealed
<1> SUFFICES ASSUME ~ Blocked(host)
             PROVE  /\ \A issue \in Doctor(host) : Excused(issue.code)
                    /\ Healthy(host) \/ HibernationConflict(host)
  BY DEF DoctorHealed
<1>1. HasStorage(host) /\ advised.swapfile \in Scales
  BY TuningAssumption DEF IsMachine
<1>2. Healed(host, advised)
  BY SettledIsHealed
<1>3. ASSUME NEW issue \in Doctor(host) PROVE Excused(issue.code)
  <2> DEFINE code == issue.code
             full == host.free = Unset
                     \/ host.free < OverflowMb(host.ram, advised.swapfile)
                                      - (DiskKb(host) \div 1024) + Margin
  <2>1. Says(host, issue)
    BY DoctorSays
  <2>2. code = "zswap_enabled" => host.zram = {}
    BY <1>2, <2>1 DEF Healed, Says
  <2>3. code = "btrfs_swapfile_nodatacow" =>
          \E f \in ListedFiles(host) :
             f \notin AllowedPaths \/ \E g \in host.files : g.name = f /\ g.cow
    BY <1>2, <2>1 DEF Healed, Says
  <2>4. code \in {"oomd_no_policies", "no_oom_protection"} => ~ host.psi \/ ~ host.oomd.installed
    BY <1>2, <2>1 DEF Healed, Says
  <2>5. code = "no_disk_overflow" => Configured(host) # {} \/ full \/ host.ram < 2 * Slack
    BY <1>1, <1>2, <2>1, NoOverflowIsExcused DEF Healed, Says
  <2>6. code = "disk_overflow_small" =>
          \/ \E s \in host.disk : s.name # OverflowPath \/ s.type # "file"
          \/ full \/ host.ram < 2 * Slack \/ advised.swapfile = "low"
    BY <1>1, <1>2, <2>1, SmallOverflowIsExcused DEF Healed, Says
  <2>7. code \notin {"zram_zswap_conflict", "oomd_session_unprotected"}
    BY <1>2, <2>1 DEF Healed, Says
  <2> HIDE DEF code
  <2>8. Excused(code)
    BY <2>2, <2>3, <2>4, <2>5, <2>6, <2>7 DEF Excused
  <2> QED BY <2>8 DEF code
<1>4. Healthy(host) \/ HibernationConflict(host)
  <2> SUFFICES ASSUME NEW issue \in Doctor(host), issue.severity = "error"
               PROVE  HibernationConflict(host)
    BY DEF Healthy
  <2>1. Says(host, issue)
    BY DoctorSays
  <2> QED BY <1>2, <2>1 DEF Healed, Says
<1> QED BY <1>3, <1>4

-----------------------------------------------------------------------------
(* What an apply leaves for a rollback to find.                            *)

\* What h lists, and what it uses, is known to s or was made since; and what
\* cannot be used now was not used then.
Recalled(h, s) ==
  /\ ListedFiles(h) \subseteq ListedFiles(s) \cup h.fresh
  /\ \A f \in h.files : f.cow => f.name \notin DiskNames(s)
  /\ \A d \in h.disk : \/ d.name \in DiskNames(s) \cup ListedFiles(s)
                       \/ SizeOf(s, d.name) > 0
                       \/ d.type = "file" /\ d.name \in h.fresh

\* A swapfile that is put somewhere is new,
LEMMA PutRecalled ==
  ASSUME NEW h, Parts \subseteq DOMAIN h, SwapPart(h), NEW path, NEW mb, NEW prio
  PROVE  Recalled(Put(h, path, mb, prio), h)
<1> DEFINE g == Put(h, path, mb, prio)
           new == [name |-> path, mb |-> mb, cow |-> FALSE]
           swap == [name |-> path, type |-> "file", kb |-> ReportedKb(mb), prio |-> prio]
<1>1. /\ g.files = {f \in h.files : f.name # path} \cup {new} /\ g.fstab = h.fstab
      /\ g.disk = {s \in h.disk : s.name # path} \cup {swap}
      /\ g.fresh = h.fresh \cup {path}
  BY DEF Put, Parts
<1>2. ~ new.cow /\ swap.name = path /\ swap.type = "file"
  OBVIOUS
<1> HIDE DEF g, new, swap
<1>3. ListedFiles(g) = ListedFiles(h)
  BY <1>1 DEF ListedFiles
<1>4. \A f \in g.files : f.cow => f.name \notin DiskNames(h)
  BY <1>1, <1>2 DEF SwapPart
<1>5. \A d \in g.disk : \/ d.name \in DiskNames(h)
                        \/ d.type = "file" /\ d.name \in g.fresh
  BY <1>1, <1>2 DEF DiskNames
<1>6. Recalled(g, h)
  BY <1>3, <1>4, <1>5 DEF Recalled
<1> QED BY <1>6 DEF g

\* so is one that is created and listed,
LEMMA CreateRecalled ==
  ASSUME NEW h, Parts \subseteq DOMAIN h, SwapPart(h), NEW c
  PROVE  Recalled(Create(h, c), h)
<1> DEFINE g == Put(h, c.path, c.size, c.prio)
           k == Listed(g, c.path, c.prio)
           new == [name |-> c.path, type |-> "file", there |-> TRUE, prio |-> c.prio]
<1>1. Recalled(g, h)
  BY PutRecalled
<1>2. DOMAIN g = DOMAIN h /\ c.path \in g.fresh
  BY DEF Put, Parts
<1> HIDE DEF g
<1>3. /\ k.fstab = {e \in g.fstab : e.name # c.path} \cup {new} /\ k.files = g.files
      /\ k.disk = g.disk /\ k.fresh = g.fresh
  BY <1>2 DEF Listed, Parts
<1>4. new.name = c.path
  OBVIOUS
<1> HIDE DEF k, new
<1>5. ListedFiles(k) \subseteq ListedFiles(g) \cup {c.path}
  BY <1>3, <1>4 DEF ListedFiles
<1>6. Recalled(k, h)
  BY <1>1, <1>2, <1>3, <1>5 DEF Recalled
<1> QED BY <1>6 DEF Create, g, k

\* nothing new is left by a removal,
LEMMA RemoveRecalled ==
  ASSUME NEW h, Parts \subseteq DOMAIN h, SwapPart(h), NEW path
  PROVE  Recalled(Remove(h, path), h)
<1> DEFINE g == Remove(h, path)
<1>1. g.files \subseteq h.files /\ g.disk \subseteq h.disk /\ g.fstab \subseteq h.fstab
  BY DEF Remove, Drop, Parts
<1> HIDE DEF g
<1>2. ListedFiles(g) \subseteq ListedFiles(h) /\ \A d \in g.disk : d.name \in DiskNames(h)
  BY <1>1 DEF ListedFiles, DiskNames
<1>3. Recalled(g, h)
  BY <1>1, <1>2 DEF Recalled, SwapPart
<1> QED BY <1>3 DEF g

\* and a file that is resized in place was there.
LEMMA ResizeRecalled ==
  ASSUME NEW h, Parts \subseteq DOMAIN h, SwapPart(h),
         NEW r \in ResizeForms, r.size > 0, CanResize(h, r)
  PROVE  Recalled(Resize(h, r), h)
<1> DEFINE prio == PriorityOf(h, r.path)
           put  == Put(h, r.path, r.size, prio)
           g    == InPlace(h, put, r)
           Grown(f) == IF f.name = r.path THEN [f EXCEPT !.mb = r.size] ELSE f
           grown == {Grown(e) : e \in h.files}
           swap == [name |-> r.path, type |-> "file", kb |-> ReportedKb(r.size), prio |-> prio]
<1>1. r.size \in Nat /\ r # Unset
  BY UnsetIsNothing DEF ResizeForms
<1>2. Recalled(put, h)
  BY PutRecalled
<1>3. CASE Strategy(h, r.path, r.size) = "staged"
  BY <1>1, <1>2, <1>3 DEF Resize
<1>4. CASE Strategy(h, r.path, r.size) # "staged"
  <2>1. SizeOf(h, r.path) > 0
    <3>1. SizeOf(h, r.path) \in Nat /\ h.free \in Nat
      BY SizeIsOfFile DEF SwapPart
    <3> QED BY <1>1, <1>4, <3>1 DEF CanResize, Strategy, Most
  <2>2. /\ DOMAIN put = DOMAIN h /\ put.fstab = h.fstab
        /\ put.disk = {s \in h.disk : s.name # r.path} \cup {swap}
    BY DEF Put, Parts
  <2>3. \A f \in h.files : Grown(f).name = f.name /\ Grown(f).cow = f.cow
    BY DEF SwapPart, FileForms
  <2>4. swap.name = r.path
    OBVIOUS
  <2>5. g = [put EXCEPT !.files = grown, !.cowdirs = h.cowdirs, !.fresh = h.fresh]
    BY DEF InPlace
  <2> HIDE DEF put, g, swap, Grown
  <2>6. g.files = grown /\ g.fstab = h.fstab /\ g.disk = put.disk
    BY <2>2, <2>5 DEF Parts
  <2>7. ListedFiles(g) = ListedFiles(h)
    BY <2>6 DEF ListedFiles
  <2>8. \A f \in g.files : f.cow => f.name \notin DiskNames(h)
    BY <2>3, <2>6 DEF SwapPart
  <2>9. \A d \in g.disk : d.name \in DiskNames(h) \/ SizeOf(h, d.name) > 0
    BY <2>1, <2>2, <2>4, <2>6 DEF DiskNames
  <2>10. Recalled(g, h)
    BY <2>7, <2>8, <2>9 DEF Recalled
  <2> QED BY <1>1, <1>4, <2>10 DEF Resize, g, put
<1> QED BY <1>3, <1>4

\* What is asked of the swapfiles is found by a rollback.
LEMMA SwapChangedRecalled ==
  ASSUME NEW h, Parts \subseteq DOMAIN h, SwapPart(h), NEW p, SwapAsked(p),
         p.resize # Unset => CanResize(h, p.resize)
  PROVE  Recalled(SwapChanged(h, p), h)
<1> DEFINE a == Aged(h)
           g == SwapChanged(h, p)
<1>1. p.resize # Unset => p.resize \in ResizeForms /\ p.resize.size > 0
  BY DEF SwapAsked, Forms
<1>2. /\ p.create # Unset => p.remove = Unset /\ p.resize = Unset
      /\ p.resize # Unset => p.remove = Unset /\ p.create = Unset
      /\ p.remove # Unset => p.create = Unset /\ p.resize = Unset
  BY DEF SwapAsked, OneSwapChange
<1>3. /\ DOMAIN a = DOMAIN h /\ Keeps(h, a, Parts \ {"fresh"}) /\ SwapPart(a)
  BY AgedSwap DEF SwapStep
<1>4. /\ Parts \subseteq DOMAIN a
      /\ a.free = h.free /\ a.files = h.files /\ a.fstab = h.fstab /\ a.disk = h.disk
  BY <1>3 DEF Keeps, Parts
<1>5. /\ ListedFiles(a) = ListedFiles(h) /\ DiskNames(a) = DiskNames(h)
      /\ \A q : SizeOf(a, q) = SizeOf(h, q)
  BY <1>4 DEF SizeOf, ListedFiles, DiskNames
<1>6. p.resize # Unset => CanResize(a, p.resize)
  BY <1>4, <1>5 DEF CanResize, Strategy
<1>7. Recalled(g, a)
  <2>1. CASE p.resize # Unset
    <3>1. g = Resize(a, p.resize)
      BY <1>2, <2>1 DEF SwapChanged
    <3> HIDE DEF g, a
    <3> QED BY <1>1, <1>3, <1>4, <1>6, <2>1, <3>1, ResizeRecalled
  <2>2. CASE p.create # Unset
    <3>1. g = Create(a, p.create)
      BY <1>2, <2>2 DEF SwapChanged, Resize
    <3> HIDE DEF g, a
    <3> QED BY <1>3, <1>4, <3>1, CreateRecalled
  <2>3. CASE p.remove # Unset
    <3>1. g = Remove(a, p.remove)
      BY <1>2, <2>3 DEF SwapChanged, Resize
    <3> HIDE DEF g, a
    <3> QED BY <1>3, <1>4, <3>1, RemoveRecalled
  <2>4. CASE p.create = Unset /\ p.resize = Unset /\ p.remove = Unset
    <3>1. g = a
      BY <2>4 DEF SwapChanged, Resize
    <3> HIDE DEF g, a
    <3> QED BY <1>3, <3>1 DEF Recalled, DiskNames, SwapPart
  <2> QED BY <2>1, <2>2, <2>3, <2>4
<1> HIDE DEF g, a
<1>8. Recalled(g, h)
  BY <1>5, <1>7 DEF Recalled
<1> QED BY <1>8 DEF g

\* What a rollback is about, and what only the swapfiles' part of it changes.
LEMMA RecalledFramed ==
  ASSUME NEW h, NEW g, NEW s, Recalled(h, s),
         g.disk = h.disk, g.fstab = h.fstab, g.files = h.files, g.fresh = h.fresh
  PROVE  Recalled(g, s)
BY DEF Recalled, ListedFiles

\* After a rollback it is found again.
LEMMA SwapBackRecalled ==
  ASSUME NEW h, Parts \subseteq DOMAIN h, SwapPart(h), NEW s, SwapPart(s), Recalled(h, s)
  PROVE  Recalled(SwapBack(h, s), s)
<1> DEFINE g == SwapBack(h, s)
           files == FilesBack(h, s)
           swapped == {f \in files : f.name \in ListedFiles(s) /\ ~ f.cow}
<1>1. /\ g.fstab = s.fstab /\ g.files = files
      /\ g.disk = {d \in h.disk : d.name \notin Extra(h, s) \cup ListedFiles(s)}
                    \cup {Activated(s, f) : f \in swapped}
      /\ g.fresh = (h.fresh \ Extra(h, s)) \cup Missing(h, s)
  BY DEF SwapBack, Parts
<1> HIDE DEF g
<1>2. ListedFiles(g) = ListedFiles(s)
  BY <1>1 DEF ListedFiles
<1>3. \A f \in files : f.cow => f \in h.files
  BY DEF FilesBack
<1>4. \A f : Activated(s, f).name = f.name
  BY DEF Activated
<1> HIDE DEF files
<1>5. \A d \in g.disk : \/ d \in h.disk /\ d.name \notin Extra(h, s)
                        \/ d.name \in ListedFiles(s)
  BY <1>1, <1>4
<1>6. \A d \in g.disk : \/ d.name \in DiskNames(s) \cup ListedFiles(s)
                        \/ SizeOf(s, d.name) > 0
                        \/ d.type = "file" /\ d.name \in g.fresh
  BY <1>1, <1>5 DEF Recalled
<1>7. Recalled(g, s)
  BY <1>1, <1>2, <1>3, <1>6 DEF Recalled
<1> QED BY <1>7 DEF g

\* What the apply of s kept, and what it can only have turned off or on.
Kept(h, s) ==
  /\ h.cmdline = s.cmdline /\ h.later = s.later
  /\ \A dir \in Dirs \ {"etc"} : h.conf[dir] = s.conf[dir]
  /\ h.zswap # s.zswap => s.zswap = "on" /\ h.zswap = "off"
  /\ s.oomd.enabled => h.oomd.enabled
  /\ s.oomd.active = s.oomd.enabled =>
       /\ s.oomd.enabled => h.oomd.active
       /\ h.oomd.active => h.oomd.enabled

\* zram is configured in /etc.
LEMMA OnlyEtc ==
  ASSUME NEW h, NEW p, NEW dir, dir # "etc"
  PROVE  ZramChanged(h, p).conf[dir] = h.conf[dir]
<1>1. \A m, s : Only(m, [m EXCEPT !.conf["etc"] = s], {"conf"})
                /\ [m EXCEPT !.conf["etc"] = s].conf[dir] = m.conf[dir]
  BY DEF Only
<1>2. CASE p.disable
  <2>1. ZramChanged(h, p) = [Stop(h) EXCEPT !.conf["etc"] = <<>>]
    BY <1>2 DEF ZramChanged, Disable
  <2>2. Stop(h).conf = h.conf
    BY DEF Stop
  <2> QED BY <1>1, <2>1, <2>2
<1>3. CASE ~ p.disable /\ p.zram # Unset
  <2> DEFINE c == Configure(h, p.zram)
  <2>1. ZramChanged(h, p) = Restart(c, Devices(Sections(c)))
    BY <1>3 DEF ZramChanged, RestartAll
  <2>2. c.conf[dir] = h.conf[dir]
    BY <1>1 DEF Configure
  <2> HIDE DEF c
  <2>3. Restart(c, Devices(Sections(c))).conf = c.conf
    BY DEF Restart
  <2> QED BY <2>1, <2>2, <2>3
<1>4. CASE ~ p.disable /\ p.zram = Unset
  BY <1>4 DEF ZramChanged
<1> QED BY <1>2, <1>3, <1>4

\* An apply leaves what a rollback needs to know.
LEMMA AppliedKept ==
  ASSUME NEW h, IsMachine(h), NEW p, SwapAsked(p), CanApply(h, p)
  PROVE  Recalled(Applied(h, p), h) /\ Kept(Applied(h, p), h)
<1> SUFFICES ASSUME NEW a, a = ZramChanged(h, p),
                    NEW b, b = SwapChanged(a, p),
                    NEW c, c = SetSysctl(b, p.sysctl),
                    NEW d, d = Prepare(c, p.prepare),
                    NEW e, e = DisableZswap(d, p.zswap),
                    NEW f, f = EnableOomd(e, p.oomd),
                    NEW g, g = SetMm(f, p.mm),
                    NEW k, k = Finalize(g, p.finalize)
             PROVE  Recalled(k, h) /\ Kept(k, h)
  BY DEF Applied
<1>1. /\ Only(h, a, {"zram", "conf"}) /\ Only(a, b, SwapFields)
      /\ Only(b, c, {"etc", "sysctl"}) /\ Only(c, d, {"cowdirs"})
      /\ Only(d, e, {"etc", "zswap"}) /\ Only(e, f, {"etc", "oomd"})
      /\ Only(f, g, {"etc", "mm"}) /\ Only(g, k, {"legacy", "service"})
  BY OnlyZram, OnlySwap, OnlySetting
<1>2. Parts \subseteq DOMAIN h /\ Traits \subseteq DOMAIN h /\ SwapPart(h) /\ p \in Forms
      /\ h.zswap \in {"on", "off", "none"} /\ h.oomd \in OomdForms
  BY MachineParts DEF IsMachine, HasSettings, SwapAsked
<1>3. Recalled(k, h)
  <2>1. /\ a.disk = h.disk /\ a.files = h.files /\ a.fstab = h.fstab /\ a.free = h.free
        /\ a.fresh = h.fresh /\ DOMAIN a = DOMAIN h
    BY <1>1, <1>2 DEF Only, Parts
  <2>2. SwapPart(a)
    <3>1. Keeps(h, a, {"free", "disk", "fstab", "files"})
      BY <2>1 DEF Keeps
    <3> QED BY <1>2, <3>1, SwapPartSame
  <2>3. \A q : SizeOf(a, q) = SizeOf(h, q)
    BY <2>1 DEF SizeOf
  <2>4. p.resize # Unset => CanResize(a, p.resize)
    BY <2>1, <2>3 DEF CanApply, CanResize, Strategy
  <2>5. Recalled(b, a)
    BY <1>2, <2>1, <2>2, <2>4, SwapChangedRecalled
  <2>6. Recalled(b, h)
    <3>1. DiskNames(a) = DiskNames(h) /\ ListedFiles(a) = ListedFiles(h)
      BY <2>1 DEF DiskNames, ListedFiles
    <3> QED BY <2>3, <2>5, <3>1 DEF Recalled
  <2>7. k.disk = b.disk /\ k.fstab = b.fstab /\ k.files = b.files /\ k.fresh = b.fresh
    BY <1>1, <1>2 DEF Only, Parts
  <2> QED BY <2>6, <2>7, RecalledFramed
<1>4. k.cmdline = h.cmdline /\ k.later = h.later
  BY <1>1, <1>2 DEF Only, Traits, SwapFields
<1>5. \A dir \in Dirs \ {"etc"} : k.conf[dir] = h.conf[dir]
  <2>1. k.conf = a.conf
    BY <1>1, <1>2 DEF Only, Parts, SwapFields
  <2> QED BY <2>1, OnlyEtc
<1>6. k.zswap # h.zswap => h.zswap = "on" /\ k.zswap = "off"
  <2>1. d.zswap = h.zswap /\ k.zswap = e.zswap /\ "zswap" \in DOMAIN d
    BY <1>1, <1>2 DEF Only, Parts, SwapFields
  <2>2. e.zswap = IF p.zswap THEN IF d.zswap = "none" THEN "none" ELSE "off" ELSE d.zswap
    BY <2>1 DEF DisableZswap
  <2> QED BY <1>2, <2>1, <2>2
<1>7. /\ h.oomd.enabled => k.oomd.enabled
      /\ h.oomd.active = h.oomd.enabled =>
           /\ h.oomd.enabled => k.oomd.active
           /\ k.oomd.active => k.oomd.enabled
  <2>1. e.oomd = h.oomd /\ k.oomd = f.oomd /\ "oomd" \in DOMAIN e
    BY <1>1, <1>2 DEF Only, Parts, SwapFields
  <2> DEFINE on == [e.oomd EXCEPT !.enabled = TRUE, !.active = TRUE]
  <2>2. f.oomd = IF p.oomd THEN on ELSE e.oomd
    BY <2>1 DEF EnableOomd
  <2>3. /\ on.enabled /\ on.active
        /\ h.oomd.enabled \in BOOLEAN /\ h.oomd.active \in BOOLEAN
    BY <1>2, <2>1 DEF OomdForms
  <2> HIDE DEF on
  <2> QED BY <2>1, <2>2, <2>3
<1> QED BY <1>3, <1>4, <1>5, <1>6, <1>7 DEF Kept

\* The swapfiles are put back: every listed one is in use, for it can be, and what
\* is removed was made since or is no longer listed.
LEMMA SwapBackUndone ==
  ASSUME NEW h, Parts \subseteq DOMAIN h, SwapPart(h), NEW s, SwapPart(s), Recalled(h, s),
         NEW p
  PROVE  /\ p \in DiskNames(s) \ DiskNames(SwapBack(h, s)) =>
              p \notin ListedFiles(s) /\ (p \notin DiskNames(h) \/ p \in h.fresh)
         /\ p \in DiskNames(SwapBack(h, s)) \ DiskNames(s) =>
              p \in ListedFiles(s) \/ SizeOf(s, p) > 0
<1> DEFINE g == SwapBack(h, s)
           files == FilesBack(h, s)
           listed == ListedFiles(s)
           extra == Extra(h, s)
           built(q) == [name |-> q, mb |-> SizeOf(s, q), cow |-> FALSE]
           swapped == {f \in files : f.name \in listed /\ ~ f.cow}
<1>1. g.disk = {d \in h.disk : d.name \notin extra \cup listed}
                 \cup {Activated(s, f) : f \in swapped}
  BY DEF SwapBack, Parts
<1>2. files = {f \in h.files : f.name \notin extra} \cup {built(q) : q \in Missing(h, s)}
  BY DEF FilesBack
<1>3. \A f : Activated(s, f).name = f.name
  BY DEF Activated
<1>4. \A q : built(q).name = q /\ ~ built(q).cow
  OBVIOUS
<1>5. \A q \in extra : q \notin listed
  BY DEF Extra
<1>6. \A q \in extra : q \in h.fresh
  BY DEF Extra, Recalled
<1>7. \A d \in h.disk : d.type = "file" /\ d.name \in h.fresh => d.name \in extra \cup listed
  BY DEF Extra, ActiveFiles
<1>a. DiskNames(g) = {d.name : d \in g.disk} /\ DiskNames(s) = {d.name : d \in s.disk}
      /\ DiskNames(h) = {d.name : d \in h.disk}
  BY DEF DiskNames
<1> HIDE DEF g, files, built, extra
<1>8. ASSUME p \in DiskNames(s) \ DiskNames(g)
      PROVE  p \notin listed /\ (p \notin DiskNames(h) \/ p \in h.fresh)
  <2>1. p \notin listed
    <3> SUFFICES ASSUME p \in listed PROVE FALSE
      OBVIOUS
    <3>1. PICK f \in files : f.name = p
      <4>1. CASE SizeOf(h, p) = 0
        <5>1. p \in Missing(h, s)
          BY <4>1 DEF Missing
        <5> QED BY <1>2, <1>4, <5>1
      <4>2. CASE SizeOf(h, p) # 0
        <5>1. PICK f \in h.files : f.name = p
          BY <4>2, SizeIsOfFile DEF SwapPart
        <5> QED BY <1>2, <1>5, <5>1
      <4> QED BY <4>1, <4>2
    <3>2. ~ f.cow
      <4> SUFFICES ASSUME f.cow PROVE FALSE
        OBVIOUS
      <4>1. f \in h.files
        BY <1>2, <1>4
      <4> QED BY <1>8, <3>1, <4>1 DEF Recalled
    <3>3. Activated(s, f) \in g.disk /\ Activated(s, f).name = p
      BY <1>1, <1>3, <3>1, <3>2
    <3> QED BY <1>8, <1>a, <3>3
  <2>2. p \in DiskNames(h) => p \in h.fresh
    <3> SUFFICES ASSUME p \in DiskNames(h) PROVE p \in h.fresh
      OBVIOUS
    <3>1. PICK d \in h.disk : d.name = p
      BY <1>a
    <3>2. d \notin g.disk
      BY <1>8, <1>a, <3>1
    <3>3. p \in extra
      BY <1>1, <2>1, <3>1, <3>2
    <3> QED BY <1>6, <3>3
  <2> QED BY <2>1, <2>2
<1>9. ASSUME p \in DiskNames(g) \ DiskNames(s)
      PROVE  p \in listed \/ SizeOf(s, p) > 0
  <2>1. PICK d \in g.disk : d.name = p
    BY <1>9, <1>a
  <2>2. CASE d \in h.disk /\ d.name \notin extra \cup listed
    BY <1>7, <1>9, <2>1, <2>2 DEF Recalled
  <2>3. CASE \E f \in swapped : d = Activated(s, f)
    BY <1>3, <2>1, <2>3
  <2> QED BY <1>1, <2>2, <2>3
<1> QED BY <1>8, <1>9 DEF g

\* The zram devices run again as they are configured.
LEMMA ZramBackUndone ==
  ASSUME NEW h, Parts \subseteq DOMAIN h, ZramPart(h), NEW s, ZramPart(s),
         \A dir \in Dirs \ {"etc"} : h.conf[dir] = s.conf[dir]
  PROVE  /\ ZramBack(h, s).conf = s.conf
         /\ AsConfigured(s) => {d \in ZramBack(h, s).zram : d.swap} = {d \in s.zram : d.swap}
<1> DEFINE a == Stop(h)
           b == [a EXCEPT !.conf["etc"] = s.conf["etc"]]
           devices == IF s.conf["etc"] = Unset THEN {} ELSE Devices(s.conf["etc"])
           c == Restart(b, devices)
           t == Sections(s)
           ours == {i \in DOMAIN t : s.conf["etc"] # Unset /\ t[i].device \in Devices(s.conf["etc"])}
           found == {i \in DOMAIN t : t[i].device \in devices}
           started == {Started(t[i]) : i \in found}
<1>1. ZramBack(h, s) = c
  BY DEF ZramBack
<1>2. /\ DOMAIN a = DOMAIN h /\ a.conf = h.conf /\ \A d \in a.zram : ~ d.swap
  <2> DEFINE Off(d) == [d EXCEPT !.swap = FALSE]
  <2>1. DOMAIN a = DOMAIN h /\ a.conf = h.conf /\ a.zram = {Off(d) : d \in h.zram}
    BY DEF Stop, Parts
  <2>2. \A d \in h.zram : ~ Off(d).swap
    BY DEF ZramPart, DeviceForms
  <2> HIDE DEF Off
  <2> QED BY <2>1, <2>2
<1> HIDE DEF a
<1>3. b.conf = s.conf /\ b.zram = a.zram /\ DOMAIN b = DOMAIN a
  <2>1. DOMAIN h.conf = Dirs /\ DOMAIN s.conf = Dirs /\ "etc" \in Dirs
        /\ s.conf = [dir \in Dirs |-> s.conf[dir]]
    BY DEF ZramPart, Dirs
  <2> DEFINE conf == [a.conf EXCEPT !["etc"] = s.conf["etc"]]
  <2>2. b = [a EXCEPT !.conf = conf]
    OBVIOUS
  <2>3. conf = s.conf
    BY <1>2, <2>1
  <2> HIDE DEF conf, b
  <2> QED BY <1>2, <2>2, <2>3 DEF Parts
<1> HIDE DEF b
<1>4. Sections(b) = t
  <2>1. Layer(b) = Layer(s)
    BY <1>3 DEF Layer
  <2> QED BY <1>3, <2>1 DEF Sections
<1> HIDE DEF t
<1>5. /\ c.conf = s.conf
      /\ c.zram = {d \in b.zram : \A x \in started : x.name # d.name} \cup started
  BY <1>2, <1>3, <1>4 DEF Restart, Parts
<1>6. found = ours
  OBVIOUS
<1>7. {d \in c.zram : d.swap} = {d \in started : d.swap}
  BY <1>2, <1>3, <1>5
<1>8. AsConfigured(s) => {d \in s.zram : d.swap} = {d \in started : d.swap}
  <2>1. AsConfigured(s) = ({d \in s.zram : d.swap} = {d \in {Started(t[i]) : i \in ours} : d.swap})
    BY DEF AsConfigured, t
  <2> QED BY <1>6, <2>1
<1> QED BY <1>1, <1>5, <1>7, <1>8

\* The values that a drop-in sets are loaded whatever was set before.
LEMMA LoadedAgain ==
  ASSUME NEW h, NEW s, h.etc = s.etc, h.later = s.later,
         HasSettings(h), HasSettings(s), NEW k \in Knobs,
         s.etc["sysctl"] # Unset, s.etc["sysctl"][k] # Unset
  PROVE  Loaded(h)[k] = Loaded(s)[k]
<1> DEFINE v == s.etc["sysctl"]
<1>1. h.sysctl \in [Knobs -> Nat] /\ s.sysctl \in [Knobs -> Nat] /\ v \in SysctlForms
  BY DEF HasSettings, DropInForms
<1>2. /\ Loaded(h) = Overlaid(Overlaid(h.sysctl, v), s.later)
      /\ Loaded(s) = Overlaid(Overlaid(s.sysctl, v), s.later)
  BY DEF Loaded
<1>3. \A old \in [Knobs -> Nat] : Overlaid(Overlaid(old, v), s.later)[k] =
                                    IF s.later[k] = Unset THEN v[k] ELSE s.later[k]
  BY DEF Overlaid
<1> HIDE DEF v
<1> QED BY <1>1, <1>2, <1>3

\* A rollback undoes what was done since the snapshot, and can be repeated.
LEMMA RolledBackUndone ==
  ASSUME NEW h, IsMachine(h), NEW s, IsMachine(s), Undoable(h, s), Recalled(h, s), Kept(h, s),
         \A p \in Missing(h, s) : SizeOf(s, p) > 0
  PROVE  LET g == RolledBack(h, s)
         IN  Undone(h, s, g) /\ Recalled(g, s) /\ Kept(g, s)
<1> SUFFICES ASSUME NEW a, a = SwapBack(h, s),
                    NEW b, b = ZramBack(a, s),
                    NEW c, c = SettingsBack(b, s),
                    NEW d, d = ZswapBack(c, s),
                    NEW e, e = OomdBack(d, s),
                    NEW f, f = MmBack(e, s)
             PROVE  Undone(h, s, f) /\ Recalled(f, s) /\ Kept(f, s)
  BY DEF RolledBack
<1> DEFINE m == [b EXCEPT !.etc = s.etc, !.legacy = s.legacy]
<1>1. /\ Only(h, a, SwapFields) /\ Only(a, b, {"zram", "conf"})
      /\ Only(c, d, {"zswap"}) /\ Only(d, e, {"oomd"}) /\ Only(e, f, {"mm"})
  BY OnlyBack
<1>2. /\ Parts \subseteq DOMAIN h /\ Traits \subseteq DOMAIN h
      /\ SwapPart(h) /\ ZramPart(h) /\ SwapPart(s) /\ ZramPart(s)
      /\ HasSettings(h) /\ HasSettings(s)
  BY MachineParts DEF IsMachine, HasSettings
<1>3. Only(b, m, {"etc", "legacy"}) /\ m.etc = s.etc /\ c = [m EXCEPT !.sysctl = Loaded(m)]
  <2>1. "etc" \in DOMAIN b
    BY <1>1, <1>2 DEF Only, Parts
  <2> QED BY <2>1 DEF Only, SettingsBack, Reload
<1> HIDE DEF m
<1>4. Only(m, c, {"sysctl"}) /\ c.sysctl = Loaded(m)
  <2>1. "sysctl" \in DOMAIN m
    BY <1>1, <1>2, <1>3 DEF Only, Parts
  <2> QED BY <1>3, <2>1 DEF Only
<1>5. /\ DOMAIN a = DOMAIN h /\ DOMAIN b = DOMAIN h /\ DOMAIN c = DOMAIN h
      /\ DOMAIN d = DOMAIN h /\ DOMAIN e = DOMAIN h
  BY <1>1, <1>3, <1>4 DEF Only
<1>6. f.cmdline = s.cmdline /\ c.cmdline = s.cmdline /\ f.later = s.later /\ m.later = s.later
  BY <1>1, <1>2, <1>3, <1>4 DEF Only, Traits, SwapFields, Kept
<1>7. /\ f.disk = a.disk /\ f.fstab = a.fstab /\ f.files = a.files /\ f.fresh = a.fresh
      /\ f.zram = b.zram /\ f.conf = b.conf
  BY <1>1, <1>2, <1>3, <1>4 DEF Only, Parts
<1>8. e.etc = s.etc /\ c.etc = s.etc
  BY <1>1, <1>2, <1>3, <1>4 DEF Only, Parts
<1>9. Recalled(f, s)
  BY <1>2, <1>7, SwapBackRecalled, RecalledFramed
<1>10. f.zswap # s.zswap => s.etc["zswap"] \/ s.cmdline
  <2>1. c.zswap = h.zswap /\ f.zswap = d.zswap
    BY <1>1, <1>2, <1>3, <1>4, <1>5 DEF Only, Parts, SwapFields
  <2>2. d.zswap = IF s.zswap = "on" /\ c.zswap = "off" /\ ~ s.etc["zswap"] /\ ~ s.cmdline
                  THEN "on" ELSE c.zswap
    BY <1>2, <1>5, <1>6, <1>8 DEF ZswapBack, Parts
  <2> QED BY <2>1, <2>2 DEF Kept
<1>11. f.zswap # s.zswap => s.zswap = "on" /\ f.zswap = "off"
  <2>1. c.zswap = h.zswap /\ f.zswap = d.zswap
    BY <1>1, <1>2, <1>3, <1>4, <1>5 DEF Only, Parts, SwapFields
  <2>2. d.zswap = c.zswap \/ (d.zswap = "on" /\ s.zswap = "on")
    BY <1>2, <1>5 DEF ZswapBack, Parts
  <2> QED BY <2>1, <2>2 DEF Kept
<1>12. /\ f.oomd.enabled = s.oomd.enabled
       /\ s.oomd.active = s.oomd.enabled => f.oomd.active = s.oomd.active
  <2>1. d.oomd = h.oomd /\ f.oomd = e.oomd /\ "oomd" \in DOMAIN d
    BY <1>1, <1>2, <1>3, <1>4, <1>5 DEF Only, Parts, SwapFields
  <2>2. /\ h.oomd.enabled \in BOOLEAN /\ h.oomd.active \in BOOLEAN
        /\ s.oomd.enabled \in BOOLEAN /\ s.oomd.active \in BOOLEAN
        /\ {"enabled", "active"} \subseteq DOMAIN h.oomd
    BY <1>2 DEF HasSettings, OomdForms
  <2> DEFINE off == [d.oomd EXCEPT !.enabled = FALSE, !.active = FALSE]
  <2>3. e.oomd = IF ~ s.oomd.enabled /\ d.oomd.enabled THEN off ELSE d.oomd
    BY <2>1 DEF OomdBack
  <2>4. off.enabled = FALSE /\ off.active = FALSE
    BY <2>1, <2>2
  <2> HIDE DEF off
  <2> QED BY <2>1, <2>2, <2>3, <2>4 DEF Kept
<1>13. \A k \in DOMAIN s.mm : f.mm[k] # s.mm[k] => s.etc["mm"] # Unset /\ s.etc["mm"][k] # Unset
  <2> DEFINE kept == IF e.etc["mm"] = Unset THEN NoMm ELSE e.etc["mm"]
  <2>1. f.mm = [k \in DOMAIN e.mm |-> IF kept[k] = Unset THEN s.mm[k] ELSE e.mm[k]]
    BY <1>2, <1>5 DEF MmBack, Parts
  <2>2. e.mm = h.mm
    BY <1>1, <1>2, <1>3, <1>4, <1>5 DEF Only, Parts, SwapFields
  <2>3. DOMAIN h.mm = {"ttl", "defrag"} /\ DOMAIN s.mm = {"ttl", "defrag"}
    BY <1>2 DEF HasSettings
  <2>4. \A k \in {"ttl", "defrag"} : NoMm[k] = Unset
    BY DEF NoMm
  <2> QED BY <1>8, <2>1, <2>2, <2>3, <2>4
<1>14. \A k \in Knobs : f.sysctl[k] # s.sysctl[k] =>
         \/ s.etc["sysctl"] = Unset \/ s.etc["sysctl"][k] = Unset
         \/ Loaded(s)[k] # s.sysctl[k]
  <2>1. f.sysctl = Loaded(m)
    BY <1>1, <1>2, <1>4, <1>5 DEF Only, Parts
  <2>2. HasSettings(m)
    <3>1. Only(h, m, SwapFields \cup {"zram", "conf", "etc", "legacy"})
      BY <1>1, <1>3 DEF Only
    <3>2. SettingFields \subseteq DOMAIN h
      BY <1>2 DEF Parts, SettingFields
    <3>3. m.etc \in DropInForms
      BY <1>2, <1>3 DEF HasSettings
    <3> QED BY <1>2, <3>1, <3>2, <3>3, SettingsFramed DEF SwapFields, Traits
  <2> QED BY <1>2, <1>3, <1>6, <2>1, <2>2, LoadedAgain
<1>15. /\ f.conf = s.conf
       /\ {x \in f.zram : x.swap} # {x \in s.zram : x.swap} => ~ AsConfigured(s)
  <2>1. a.conf = h.conf /\ a.zram = h.zram
    BY <1>1, <1>2 DEF Only, Parts, SwapFields
  <2>2. ZramPart(a)
    BY <1>2, <2>1, ZramPartSame DEF Keeps
  <2>3. \A dir \in Dirs \ {"etc"} : a.conf[dir] = s.conf[dir]
    BY <2>1 DEF Kept
  <2> QED BY <1>2, <1>5, <1>7, <2>2, <2>3, ZramBackUndone
<1>16. /\ \A p \in DiskNames(s) \ DiskNames(f) :
            p \notin ListedFiles(s) /\ (p \notin DiskNames(h) \/ p \in h.fresh)
       /\ \A p \in DiskNames(f) \ DiskNames(s) : p \in ListedFiles(s) \/ SizeOf(s, p) > 0
  <2>1. DiskNames(f) = DiskNames(a)
    BY <1>7 DEF DiskNames
  <2> QED BY <1>2, <2>1, SwapBackUndone
<1>17. Kept(f, s)
  <2>1. s.oomd.enabled \in BOOLEAN /\ s.oomd.active \in BOOLEAN
    BY <1>2 DEF HasSettings, OomdForms
  <2> QED BY <1>6, <1>11, <1>12, <1>15, <2>1 DEF Kept
<1>18. Undone(h, s, f)
  BY <1>10, <1>12, <1>13, <1>14, <1>15, <1>16 DEF Undone
<1> QED BY <1>9, <1>17, <1>18

-----------------------------------------------------------------------------
(* The advice never makes anything smaller.                                *)

\* What /run says hides what is written to /etc.
LEMMA ShowHidden ==
  ASSUME NEW h, NEW g, h.conf["run"] # Unset, g.conf["run"] = h.conf["run"]
  PROVE  Show(g) = Show(h)
<1>1. ASSUME NEW m, m.conf["run"] # Unset PROVE Layer(m) = "run"
  <2> DEFINE found == {i \in DOMAIN Layers : m.conf[Layers[i]] # Unset}
             least == Min(found)
  <2>1. DOMAIN Layers = 1..4 /\ Layers[1] = "run"
    BY DEF Layers
  <2>2. 1 \in found /\ found \subseteq 1..4
    BY <1>1, <2>1
  <2>3. Layer(m) = Layers[least]
    BY <2>2 DEF Layer
  <2> HIDE DEF found
  <2>4. \A i \in found : 1 <= i
    BY <2>2
  <2>5. least \in found /\ least <= 1
    BY <2>2, <2>4 DEF Min
  <2> HIDE DEF least
  <2>6. least = 1
    BY <2>2, <2>5
  <2> QED BY <2>1, <2>3, <2>6
<1>2. Layer(h) = "run" /\ Layer(g) = "run"
  BY <1>1
<1>3. Sections(g) = Sections(h)
  BY <1>2 DEF Sections
<1> QED BY <1>3 DEF Show

\* The size of the device that is shown is a number.
LEMMA ShownSize ==
  ASSUME NEW h, HasStorage(h), NEW now, now = Show(h), now # Unset, now.size # Unset,
         Evaluates(now.size)
  PROVE  LET Others == Texts \cup Int \cup {Unset}
         IN  /\ now \in [device: Others, size: Formula, limit: Others, algo: Others, prio: Others]
             /\ EvalZramMb(now.size, h.ram) \in Nat
<1> DEFINE Others == Texts \cup Int \cup {Unset}
           Zrams == [device: Others, size: Formula, limit: Others, algo: Others, prio: Others]
<1>1. ZramPart(h) /\ Parts \subseteq DOMAIN h /\ h.ram \in Nat
  BY MachineParts
<1>2. now \in Zrams
  <2>1. Sections(h) # <<>> /\ now = Config(Sections(h)[1])
    BY DEF Show
  <2>2. Sections(h) \in Seq(SectionForms)
    BY <1>1, SectionsForm DEF SectionList
  <2>3. Sections(h)[1] \in SectionForms
    BY <2>1, <2>2
  <2> DEFINE s == Sections(h)[1]
  <2>4. now = [k \in {"device", "size", "limit", "algo", "prio"} |-> s[k]]
    BY <2>1 DEF Config
  <2> HIDE DEF s
  <2>5. now = [device |-> s.device, size |-> s.size, limit |-> s.limit,
               algo |-> s.algo, prio |-> s.prio]
    BY <2>4
  <2>6. s.size \in Formula
    BY <2>3, <2>4 DEF SectionForms, s
  <2> QED BY <2>3, <2>5, <2>6 DEF SectionForms, s
<1>3. EvalZramMb(now.size, h.ram) \in Nat
  BY <1>1, <1>2, SizeIsNumber
<1> QED BY <1>2, <1>3

\* zram0 is not made smaller where its size can be evaluated (zram/staging.rs).
LEMMA AdvisedZramNoSmaller ==
  ASSUME NEW h, HasStorage(h), NEW scale, NEW z, z = StageZram(h, scale).pending.zram,
         NEW g, Parts \subseteq DOMAIN g, z = Unset => g.conf = h.conf,
         z # Unset => g.conf = Configure(h, z).conf,
         NEW now, now = Show(h), now # Unset, now.device = "zram0", now.size # Unset,
         Evaluates(now.size)
  PROVE  EvalZramMb(Show(g).size, h.ram) >= EvalZramMb(now.size, h.ram)
<1> DEFINE w == RecommendZram(h, scale)
           Others == Texts \cup Int \cup {Unset}
           Zrams == [device: Others, size: Formula, limit: Others, algo: Others, prio: Others]
<1>1. ZramPart(h) /\ Parts \subseteq DOMAIN h /\ h.ram \in Nat
  BY MachineParts
<1>2. now \in Zrams /\ EvalZramMb(now.size, h.ram) \in Nat
  BY ShownSize
<1>3. EvalZramMb(now.size, h.ram) \in Nat
  BY <1>2
<1>7. z # Unset => g.conf["run"] = h.conf["run"]
  <2>1. \A m, s : [m EXCEPT !.conf["etc"] = s].conf["run"] = m.conf["run"]
    OBVIOUS
  <2>2. Configure(h, z).conf["run"] = h.conf["run"]
    BY <2>1 DEF Configure
  <2> QED BY <2>2
<1>4. CASE Show(g) = now
  BY <1>3, <1>4
<1>5. CASE z = Unset \/ h.conf["run"] # Unset
  <2>1. CASE z = Unset
    BY <1>4, <2>1, ShowOf
  <2>2. CASE z # Unset /\ h.conf["run"] # Unset
    <3>1. g.conf["run"] = h.conf["run"]
      BY <1>7, <2>2
    <3> QED BY <1>4, <2>2, <3>1, ShowHidden
  <2> QED BY <1>5, <2>1, <2>2
<1>6. CASE z # Unset /\ h.conf["run"] = Unset
  <2>1. z = ZramForStaging(now, w, h.ram)
    BY <1>6, ZramAdvised
  <2>2. z \in ZramForms /\ z.device = "zram0"
    BY <2>1, StagedNeedsNone
  <2>3. g.conf["run"] = Unset
    BY <1>6, <1>7
  <2>4. Show(g) = z
    BY <1>1, <1>6, <2>2, <2>3, ShowAfter
  <2>5. w \in Zrams /\ Evaluates(w.size)
    <3>1. /\ w \in ZramForms /\ w.size # Unset
          /\ w = [device |-> w.device, size |-> w.size, limit |-> w.limit,
                  algo |-> w.algo, prio |-> w.prio]
      BY WantedFields
    <3>2. w.size = ZramFormula(Profile(h), h.ram, scale)
      BY DEF RecommendZram, RecommendedZram, Profile
    <3>3. Evaluates(w.size)
      BY <3>2 DEF ZramFormula, DefaultFormula, Evaluates, Known, Ram, Capped
    <3> HIDE DEF w
    <3> QED BY <3>1, <3>3 DEF ZramForms
  <2> HIDE DEF Others, w
  <2>6. EvalZramMb(now.size, h.ram) <= EvalZramMb(ZramForStaging(now, w, h.ram).size, h.ram)
    BY <1>1, <1>2, <2>5, StagedZramNeverSmaller
  <2>7. EvalZramMb(z.size, h.ram) \in Nat
    <3>1. ZramForStaging(now, w, h.ram).size \in {now.size, w.size}
      BY <1>2, <2>5 DEF ZramForStaging
    <3>2. w.size \in Formula /\ now.size \in Formula
      BY <1>2, <2>5
    <3> QED BY <1>1, <2>1, <2>5, <3>1, <3>2, SizeIsNumber
  <2> QED BY <1>3, <2>1, <2>4, <2>6, <2>7
<1> QED BY <1>5, <1>6

\* The sizes after a change that removes nothing.
LEMMA SwapChangedSizes ==
  ASSUME NEW h, Parts \subseteq DOMAIN h, SwapPart(h), NEW p, SwapAsked(p), p.remove = Unset,
         p.resize # Unset => CanResize(h, p.resize),
         NEW b, b = SwapChanged(h, p)
  PROVE  /\ p.create = Unset /\ p.resize = Unset => \A q : SizeOf(b, q) = SizeOf(h, q)
         /\ p.create # Unset => SameSizes(h, b, p.create.path)
         /\ p.resize # Unset => /\ SameSizes(h, b, p.resize.path)
                                /\ SizeOf(b, p.resize.path) = p.resize.size
<1> DEFINE a == Aged(h)
<1>1. p.resize # Unset => p.resize \in ResizeForms /\ p.resize.size > 0
  BY DEF SwapAsked, Forms
<1>2. p.create = Unset \/ p.resize = Unset
  BY DEF SwapAsked, OneSwapChange
<1>3. DOMAIN a = DOMAIN h /\ Keeps(h, a, Parts \ {"fresh"}) /\ SwapPart(a)
  BY AgedSwap DEF SwapStep
<1>4. Parts \subseteq DOMAIN a /\ a.free = h.free /\ a.files = h.files
  BY <1>3 DEF Keeps, Parts
<1>5. \A q : SizeOf(a, q) = SizeOf(h, q)
  BY <1>4 DEF SizeOf
<1>6. CASE p.create = Unset /\ p.resize = Unset
  <2>1. b = a
    BY <1>6 DEF SwapChanged, Resize
  <2> HIDE DEF a
  <2> QED BY <1>5, <1>6, <2>1
<1>7. CASE p.create # Unset
  <2> DEFINE c == p.create
             new == [name |-> c.path, mb |-> c.size, cow |-> FALSE]
             m == Put(a, c.path, c.size, c.prio)
  <2>1. b = Listed(m, c.path, c.prio) /\ p.resize = Unset
    BY <1>2, <1>7 DEF SwapChanged, Resize, Create
  <2> HIDE DEF a
  <2>2. DOMAIN m = DOMAIN a /\ m.files = {f \in a.files : f.name # c.path} \cup {new}
    BY <1>4 DEF Put, Parts
  <2> HIDE DEF m
  <2>3. b.files = m.files
    BY <2>1, <2>2 DEF Listed
  <2>4. new.name = c.path
    OBVIOUS
  <2> HIDE DEF new
  <2>5. /\ \A f \in b.files : f.name # c.path => f \in h.files
        /\ \A f \in h.files : f.name # c.path => f \in b.files
    BY <1>4, <2>2, <2>3, <2>4
  <2>6. SameSizes(h, b, c.path)
    BY <2>5, OtherSizes
  <2> QED BY <1>7, <2>1, <2>6
<1>8. CASE p.resize # Unset
  <2> DEFINE r == p.resize
  <2>1. b = Resize(a, r) /\ p.create = Unset
    BY <1>2, <1>8 DEF SwapChanged
  <2> HIDE DEF a
  <2>2. r \in ResizeForms /\ r.size > 0 /\ CanResize(a, r)
    BY <1>1, <1>4, <1>5, <1>8 DEF CanResize, Strategy
  <2> HIDE DEF r
  <2>3. ElsewhereSame(a, b, r.path) /\ SizeOf(b, r.path) = r.size
    BY <1>3, <1>4, <2>1, <2>2, ResizeSwap
  <2>4. SameSizes(h, b, r.path)
    BY <1>5, <2>3 DEF ElsewhereSame, SameSizes
  <2> QED BY <1>8, <2>1, <2>3, <2>4 DEF r
<1> QED BY <1>6, <1>7, <1>8

\* An apply changes sizes as the part of it that is about swapfiles does.
LEMMA AppliedSizes ==
  ASSUME NEW h, IsMachine(h), NEW p, SwapAsked(p), p.remove = Unset, CanApply(h, p),
         NEW k, k = Applied(h, p)
  PROVE  /\ p.create = Unset /\ p.resize = Unset => \A q : SizeOf(k, q) = SizeOf(h, q)
         /\ p.create # Unset => SameSizes(h, k, p.create.path)
         /\ p.resize # Unset => /\ SameSizes(h, k, p.resize.path)
                                /\ SizeOf(k, p.resize.path) = p.resize.size
<1> SUFFICES ASSUME NEW a, a = ZramChanged(h, p),
                    NEW b, b = SwapChanged(a, p),
                    NEW c, c = SetSysctl(b, p.sysctl),
                    NEW d, d = Prepare(c, p.prepare),
                    NEW e, e = DisableZswap(d, p.zswap),
                    NEW f, f = EnableOomd(e, p.oomd),
                    NEW g, g = SetMm(f, p.mm),
                    k = Finalize(g, p.finalize)
             PROVE  /\ p.create = Unset /\ p.resize = Unset => \A q : SizeOf(k, q) = SizeOf(h, q)
                    /\ p.create # Unset => SameSizes(h, k, p.create.path)
                    /\ p.resize # Unset => /\ SameSizes(h, k, p.resize.path)
                                           /\ SizeOf(k, p.resize.path) = p.resize.size
  BY DEF Applied
<1>1. /\ Only(h, a, {"zram", "conf"}) /\ Only(a, b, SwapFields)
      /\ Only(b, c, {"etc", "sysctl"}) /\ Only(c, d, {"cowdirs"})
      /\ Only(d, e, {"etc", "zswap"}) /\ Only(e, f, {"etc", "oomd"})
      /\ Only(f, g, {"etc", "mm"}) /\ Only(g, k, {"legacy", "service"})
  BY OnlyZram, OnlySwap, OnlySetting
<1>2. Parts \subseteq DOMAIN h /\ SwapPart(h)
  BY MachineParts DEF IsMachine
<1>3. /\ a.disk = h.disk /\ a.files = h.files /\ a.fstab = h.fstab /\ a.free = h.free
      /\ DOMAIN a = DOMAIN h /\ k.files = b.files
  BY <1>1, <1>2 DEF Only, Parts
<1>4. SwapPart(a)
  <2>1. Keeps(h, a, {"free", "disk", "fstab", "files"})
    BY <1>3 DEF Keeps
  <2> QED BY <1>2, <2>1, SwapPartSame
<1>5. \A q : SizeOf(a, q) = SizeOf(h, q) /\ SizeOf(k, q) = SizeOf(b, q)
  BY <1>3 DEF SizeOf
<1>6. p.resize # Unset => CanResize(a, p.resize)
  BY <1>3, <1>5 DEF CanApply, CanResize, Strategy
<1>7. /\ p.create = Unset /\ p.resize = Unset => \A q : SizeOf(b, q) = SizeOf(a, q)
      /\ p.create # Unset => SameSizes(a, b, p.create.path)
      /\ p.resize # Unset => /\ SameSizes(a, b, p.resize.path)
                             /\ SizeOf(b, p.resize.path) = p.resize.size
  BY <1>2, <1>3, <1>4, <1>6, SwapChangedSizes
<1> QED BY <1>5, <1>7 DEF SameSizes

\* No swapfile is made smaller, but one that is replaced or used only in part
\* (overflow.rs).
LEMMA AdvisedFilesNoSmaller ==
  ASSUME NEW h, IsMachine(h), NEW mb \in Nat, NEW p, SwapAsked(p), p.remove = Unset,
         CanApply(h, p), SwapfileFits(h, mb, p.create, p.resize),
         NEW k, k = Applied(h, p), NEW f \in h.files, SizeOf(k, f.name) < f.mb
  PROVE  /\ f.name = OverflowPath
         /\ \/ f.name \notin DiskNames(h) \cup ListedFiles(h)
            \/ \E s \in h.disk : s.name = f.name /\ s.kb < ReportedKb(f.mb)
<1>1. SwapPart(h)
  BY MachineParts DEF IsMachine
<1>2. SizeOf(h, f.name) = f.mb /\ f.mb \in Nat
  BY <1>1, FileSize DEF SwapPart, FileForms
<1>3. /\ p.create = Unset /\ p.resize = Unset => SizeOf(k, f.name) = f.mb
      /\ p.create # Unset => SameSizes(h, k, p.create.path)
      /\ p.resize # Unset => /\ SameSizes(h, k, p.resize.path)
                             /\ SizeOf(k, p.resize.path) = p.resize.size
  BY <1>2, AppliedSizes
<1>4. CASE p.create # Unset
  <2>1. p.create.path = OverflowPath /\ h.disk = {} /\ Configured(h) = {}
    BY <1>4 DEF SwapfileFits
  <2>2. f.name = OverflowPath
    BY <1>2, <1>3, <1>4, <2>1 DEF SameSizes
  <2>3. f.name \notin DiskNames(h) \cup ListedFiles(h)
    BY <2>1 DEF DiskNames, ListedFiles, Configured
  <2> QED BY <2>2, <2>3
<1>5. CASE p.resize # Unset
  <2>1. p.resize.path = OverflowPath /\ p.resize.size = mb
    BY <1>5 DEF SwapfileFits
  <2>2. PICK s \in h.disk : s.name = OverflowPath /\ s.kb \div 1024 + Slack < mb
    BY <1>5 DEF SwapfileFits
  <2>3. f.name = OverflowPath
    BY <1>2, <1>3, <1>5, <2>1 DEF SameSizes
  <2>4. mb < f.mb
    BY <1>3, <1>5, <2>1, <2>3
  <2>5. s.kb \in Nat
    BY <1>1 DEF SwapPart, SwapForms
  <2>6. s.kb < ReportedKb(f.mb)
    BY <1>2, <2>2, <2>4, <2>5 DEF ReportedKb, Slack
  <2> QED BY <2>2, <2>3, <2>6
<1> QED BY <1>2, <1>3, <1>4, <1>5

\* The advice makes nothing smaller on the machine it is made for, applied
LEMMA AdvisedNoSmaller ==
  ASSUME NEW h, IsMachine(h), NEW scales, NEW p, p = Recommend(h, scales).pending,
         p # NoChanges, CanApply(h, p)
  PROVE  NoSmaller(h, Applied(h, p))
<1> DEFINE mb == OverflowMb(h.ram, scales.swapfile)
<1> SUFFICES ASSUME NEW g, g = Applied(h, p) PROVE NoSmaller(h, g)
  OBVIOUS
<1>1. HasStorage(h) /\ h.ram \in Nat
  BY DEF IsMachine, HasStorage
<1>2. ~ Blocked(h)
  BY <1>1, NothingWhenBlocked
<1>3. AdviceOf(h, scales, p)
  BY <1>1, <1>2, AdviceFields
<1>4. p \in Forms /\ OneSwapChange(p) /\ SwapAsked(p)
  BY <1>1, AdviceIsFit DEF FitFor, Stageable, SwapAsked
<1>5. Parts \subseteq DOMAIN g
  BY <1>4, AppliedMachine DEF IsMachine, HasStorage
<1>6. Advanced(h, p, g)
  BY <1>3, <1>4, AppliedAdvice DEF AdviceOf
<1>7. SwapfileFits(h, mb, p.create, p.resize)
  BY <1>1, <1>3, SwapfileProposed DEF AdviceOf
<1>8. mb \in Nat
  BY <1>1, OverflowIsNumber
<1> HIDE DEF mb
<1>9. ASSUME NEW f \in h.files, SizeOf(g, f.name) < f.mb
      PROVE  /\ f.name = OverflowPath
             /\ \/ f.name \notin DiskNames(h) \cup ListedFiles(h)
                \/ \E s \in h.disk : s.name = f.name /\ s.kb < ReportedKb(f.mb)
  BY <1>3, <1>4, <1>7, <1>8, <1>9, AdvisedFilesNoSmaller DEF AdviceOf
<1>10. ASSUME NEW now, now = Show(h), now # Unset, now.device = "zram0", now.size # Unset,
              Evaluates(now.size)
       PROVE  EvalZramMb(Show(g).size, h.ram) >= EvalZramMb(now.size, h.ram)
  <2>1. p.zram = StageZram(h, scales.zram).pending.zram
    BY <1>3 DEF AdviceOf
  <2>2. /\ p.zram = Unset => g.conf = h.conf
        /\ p.zram # Unset => g.conf = Configure(h, p.zram).conf
    BY <1>6 DEF Advanced
  <2> QED BY <1>1, <1>5, <1>10, <2>1, <2>2, AdvisedZramNoSmaller
<1> QED BY <1>9, <1>10 DEF NoSmaller

\* or not.
LEMMA UnchangedNoSmaller ==
  ASSUME NEW h, IsMachine(h)
  PROVE  NoSmaller(h, h)
<1>1. SwapPart(h) /\ HasStorage(h)
  BY MachineParts DEF IsMachine
<1>2. \A f \in h.files : SizeOf(h, f.name) = f.mb /\ f.mb \in Nat
  BY <1>1, FileSize DEF SwapPart, FileForms
<1>3. ASSUME NEW now, now = Show(h), now # Unset, now.device = "zram0", now.size # Unset,
             Evaluates(now.size)
      PROVE  EvalZramMb(Show(h).size, h.ram) >= EvalZramMb(now.size, h.ram)
  <2>1. EvalZramMb(now.size, h.ram) \in Nat
    BY <1>1, <1>3, ShownSize
  <2> QED BY <1>3, <2>1
<1> QED BY <1>2, <1>3 DEF NoSmaller

-----------------------------------------------------------------------------
(* The invariant.                                                          *)

\* The form was optimized for this machine.
DraftInv ==
  draft # Unset =>
    /\ draft.anchor \in Anchors /\ draft.seed \in Seeds
    /\ draft.ctx = Context(host)
    /\ draft.result = Optimize(draft.anchor, draft.seed, draft.ctx)

\* The machine can be taken back to the last snapshot, and becomes what it was.
SnapInv ==
  snap # Unset =>
    IsMachine(snap) /\ Undoable(host, snap) /\ Recalled(host, snap) /\ Kept(host, snap)

\* The advice that was applied leaves nothing to be done.
AdvisedInv == advised # Unset => Settled(host, advised)

\* The inductive invariant.
TuningInv ==
  /\ IsMachine(host) /\ SnapInv /\ DraftInv
  /\ Stageable(pending)
  /\ advised \in Asked \cup {Unset} /\ AdvisedInv
  /\ ops \in 0..MaxOps

\* An operation is counted, and ends the form unless it optimizes one.
LEMMA DoStep ==
  ASSUME ops \in 0..MaxOps, NEW op, Do(op)
  PROVE  ops' \in 0..MaxOps /\ (op # "optimize" => DraftInv')
BY TuningAssumption DEF Do, DraftInv

\* What is staged keeps the invariant.
LEMMA StageStep ==
  ASSUME TuningInv, NEW p \in Forms, Stage(p)
  PROVE  /\ IsMachine(host)' /\ SnapInv' /\ Stageable(pending)'
         /\ advised' \in Asked \cup {Unset} /\ AdvisedInv'
<1>1. /\ p.create # Unset => p.create.size > 0
      /\ p.resize # Unset => p.resize.size > 0
  BY DEF Stage, Valid, ValidCreate, ValidResize
<1>2. Stageable(Merge(pending, p))
  BY <1>1, MergeStageable DEF TuningInv
<1>3. /\ pending' = Merge(pending, p)
      /\ host' = host /\ snap' = snap /\ advised' = advised
  BY DEF Stage
<1>4. Stageable(pending)'
  BY <1>2, <1>3
<1> QED BY <1>3, <1>4 DEF TuningInv, SnapInv, AdvisedInv

\* What is performed keeps the invariant.
LEMMA PerformStep ==
  ASSUME TuningInv, NEW p, SwapAsked(p), Perform(p)
  PROVE  IsMachine(host)' /\ SnapInv'
<1>1. /\ IsMachine(Applied(host, p)) /\ Undoable(Applied(host, p), host)
      /\ Recalled(Applied(host, p), host) /\ Kept(Applied(host, p), host)
  BY AppliedMachine, AppliedKept DEF TuningInv, Perform
<1>2. host' = Applied(host, p) /\ snap' = host
  BY DEF Perform
<1>3. /\ IsMachine(host') /\ IsMachine(snap') /\ Undoable(host', snap')
      /\ Recalled(host', snap') /\ Kept(host', snap')
  BY <1>1, <1>2 DEF TuningInv
<1> QED BY <1>3 DEF SnapInv

\* The invariant holds when it begins,
LEMMA TuningInit ==
  ASSUME Init PROVE TuningInv
<1>1. IsMachine(host)
  BY TuningAssumption DEF Init
<1>2. Stageable(pending)
  BY NothingIsStageable DEF Init
<1>3. ops \in 0..MaxOps
  BY TuningAssumption DEF Init
<1> QED BY <1>1, <1>2, <1>3 DEF Init, TuningInv, SnapInv, DraftInv, AdvisedInv

\* and after every operation.
LEMMA TuningNext ==
  ASSUME TuningInv, [Next]_vars
  PROVE  TuningInv'
<1>0. ops \in 0..MaxOps /\ IsMachine(host) /\ HasStorage(host) /\ Stageable(pending)
      /\ advised \in Asked \cup {Unset}
  BY DEF TuningInv, IsMachine
<1>1. CASE StageDefaults
  <2>1. PICK scales \in Asked : Stage(Recommend(host, scales).pending)
    BY <1>1 DEF StageDefaults
  <2>2. Recommend(host, scales).pending \in Forms
    BY <1>0, AdviceIsFit DEF FitFor
  <2>3. ops' \in 0..MaxOps /\ DraftInv'
    BY <1>0, <1>1, DoStep DEF StageDefaults
  <2> QED BY <2>1, <2>2, <2>3, StageStep DEF TuningInv
<1>2. CASE ApplyDefaults
  <2>1. ops' \in 0..MaxOps /\ DraftInv'
    BY <1>0, <1>2, DoStep DEF ApplyDefaults
  <2>2. PICK scales \in Asked :
          LET p == Recommend(host, scales).pending
          IN  IF p = NoChanges
              THEN advised' = scales /\ UNCHANGED <<host, pending, snap>>
              ELSE /\ Valid(p, KnownFiles(host))
                   /\ Perform(Merge(pending, p))
                   /\ pending' = NoChanges
                   /\ advised' = IF pending = NoChanges THEN scales ELSE Unset
    BY <1>2 DEF ApplyDefaults
  <2> DEFINE p == Recommend(host, scales).pending
  <2>3. advised' \in Asked \cup {Unset}
    BY <2>2
  <2>4. CASE p = NoChanges
    <3>1. host' = host /\ pending' = pending /\ snap' = snap /\ advised' = scales
      BY <2>2, <2>4
    <3>2. Settled(host, scales)
      BY <2>4, NothingLeft
    <3> HIDE DEF p
    <3>3. AdvisedInv'
      BY <3>1, <3>2 DEF AdvisedInv
    <3> QED BY <2>1, <2>3, <3>1, <3>3 DEF TuningInv, SnapInv
  <2>5. CASE p # NoChanges
    <3>1. /\ Perform(Merge(pending, p)) /\ pending' = NoChanges
          /\ advised' = IF pending = NoChanges THEN scales ELSE Unset
      BY <2>2, <2>5
    <3>2. p \in Forms /\ Stageable(p)
      BY <1>0, AdviceIsFit DEF FitFor
    <3>6. AdvisedInv'
      <4>1. CASE pending = NoChanges
        <5>1. p.disable = FALSE /\ OneSwapChange(p)
          BY <1>0, <2>5, AdviceMergeable
        <5>2. Merge(pending, p) = p
          BY <3>2, <4>1, <5>1, MergeIntoNothing
        <5>3. CanApply(host, p) /\ host' = Applied(host, p)
          BY <3>1, <5>2 DEF Perform
        <5>4. Settled(Applied(host, p), scales)
          BY <1>0, <2>5, <5>3, AdviceSettlesMachine
        <5> HIDE DEF p
        <5> QED BY <3>1, <4>1, <5>3, <5>4 DEF AdvisedInv
      <4>2. CASE pending # NoChanges
        BY <3>1, <4>2 DEF AdvisedInv
      <4> QED BY <4>1, <4>2
    <3> HIDE DEF p
    <3>3. Stageable(Merge(pending, p))
      BY <1>0, <3>2, MergeStageable DEF Stageable, SwapAsked
    <3>4. IsMachine(host)' /\ SnapInv'
      BY <3>1, <3>3, PerformStep DEF Stageable
    <3>5. Stageable(pending)'
      BY <3>1, NothingIsStageable
    <3> QED BY <2>1, <2>3, <3>4, <3>5, <3>6 DEF TuningInv
  <2> QED BY <2>4, <2>5
<1>3. CASE Apply
  <2>1. ops' \in 0..MaxOps /\ DraftInv'
    BY <1>0, <1>3, DoStep DEF Apply
  <2>2. Perform(pending) /\ pending' = NoChanges /\ advised' = Unset
    BY <1>3 DEF Apply
  <2>3. IsMachine(host)' /\ SnapInv'
    BY <1>0, <2>2, PerformStep DEF Stageable
  <2>4. Stageable(pending)'
    BY <2>2, NothingIsStageable
  <2> QED BY <2>1, <2>2, <2>3, <2>4 DEF TuningInv, AdvisedInv
<1>4. CASE Direct
  <2>1. ops' \in 0..MaxOps /\ DraftInv'
    BY <1>0, <1>4, DoStep DEF Direct
  <2>2. PICK c \in Directs : Valid(c, KnownFiles(host)) /\ Perform(c)
    BY <1>4 DEF Direct
  <2>3. SwapAsked(c)
    BY <2>2, TuningAssumption DEF SwapAsked, Valid, ValidCreate, ValidResize
  <2>4. IsMachine(host)' /\ SnapInv'
    BY <2>2, <2>3, PerformStep
  <2>5. pending' = pending /\ advised' = Unset
    BY <1>4 DEF Direct
  <2> QED BY <1>0, <2>1, <2>4, <2>5 DEF TuningInv, AdvisedInv
<1>5. CASE OptimizeLinked
  <2>1. ops' \in 0..MaxOps
    BY <1>0, <1>5, DoStep DEF OptimizeLinked
  <2>2. PICK anchor \in Anchors, seed \in Seeds :
          draft' = [anchor |-> anchor, seed |-> seed, ctx |-> Context(host),
                    result |-> Optimize(anchor, seed, Context(host))]
    BY <1>5 DEF OptimizeLinked
  <2>3. host' = host /\ pending' = pending /\ snap' = snap /\ advised' = advised
    BY <1>5 DEF OptimizeLinked
  <2>4. draft'.anchor = anchor /\ draft'.seed = seed /\ draft'.ctx = Context(host)
        /\ draft'.result = Optimize(anchor, seed, Context(host))
    BY <2>2
  <2>5. DraftInv'
    BY <2>3, <2>4 DEF DraftInv
  <2> QED BY <2>1, <2>3, <2>5 DEF TuningInv, SnapInv, AdvisedInv
<1>6. CASE StageDraft
  <2>1. ops' \in 0..MaxOps /\ DraftInv'
    BY <1>0, <1>6, DoStep DEF StageDraft
  <2>2. draft # Unset /\ Stage(draft.result)
    BY <1>6 DEF StageDraft
  <2>3. draft.result \in Forms
    <3>1. /\ draft.anchor \in Anchors /\ draft.seed \in Forms /\ draft.ctx \in Contexts
          /\ draft.result = Optimize(draft.anchor, draft.seed, draft.ctx)
      BY <1>0, <2>2, ContextForm, TuningAssumption DEF TuningInv, DraftInv
    <3> QED BY <3>1, OptimizedIsForm
  <2> QED BY <2>1, <2>2, <2>3, StageStep DEF TuningInv
<1>7. CASE Migrate
  <2>1. ops' \in 0..MaxOps /\ DraftInv'
    BY <1>0, <1>7, DoStep DEF Migrate
  <2>2. host.legacy # Unset /\ Stage(Migration(host.legacy))
    BY <1>7 DEF Migrate
  <2>3. Migration(host.legacy) \in Forms
    <3>1. host.legacy \in LegacyForms
      BY <1>0, <2>2 DEF HasStorage
    <3> QED BY <3>1, MigrationForm
  <2> QED BY <2>1, <2>2, <2>3, StageStep DEF TuningInv
<1>8. CASE Rollback
  <2>1. ops' \in 0..MaxOps /\ DraftInv'
    BY <1>0, <1>8, DoStep DEF Rollback
  <2>2. /\ snap # Unset /\ \A p \in Missing(host, snap) : SizeOf(snap, p) > 0
        /\ host' = RolledBack(host, snap) /\ advised' = Unset
        /\ pending' = pending /\ snap' = snap
    BY <1>8 DEF Rollback
  <2>3. IsMachine(RolledBack(host, snap)) /\ Undoable(RolledBack(host, snap), snap)
    BY <1>0, <2>2, RolledBackMachine DEF TuningInv, SnapInv
  <2>5. Recalled(RolledBack(host, snap), snap) /\ Kept(RolledBack(host, snap), snap)
    BY <1>0, <2>2, RolledBackUndone DEF TuningInv, SnapInv
  <2>4. /\ IsMachine(host') /\ Undoable(host', snap') /\ IsMachine(snap')
        /\ Recalled(host', snap') /\ Kept(host', snap')
    BY <2>2, <2>3, <2>5 DEF TuningInv, SnapInv
  <2> QED BY <1>0, <2>1, <2>2, <2>4 DEF TuningInv, SnapInv, AdvisedInv
<1>9. CASE UNCHANGED vars
  BY <1>9 DEF TuningInv, SnapInv, DraftInv, AdvisedInv, vars
<1>10. CASE Rest
  BY <1>9, <1>10 DEF Rest
<1> QED
  BY <1>1, <1>2, <1>3, <1>4, <1>5, <1>6, <1>7, <1>8, <1>9, <1>10 DEF Next

\* The invariant holds for any machines, forms, changes and scales, and any number of
\* operations.
THEOREM TuningInvariant == Spec => []TuningInv
<1>1. Init => TuningInv
  BY TuningInit
<1>2. TuningInv /\ [Next]_vars => TuningInv'
  BY TuningNext
<1> QED BY <1>1, <1>2, PTL DEF Spec

-----------------------------------------------------------------------------
(* What follows from it.                                                   *)

\* Names stay unique, one swapfile change at a time is staged, and space never runs
\* out, however changes, advice and rollbacks follow each other.
THEOREM TuningTypes == Spec => []TypeOK
<1>1. TuningInv => TypeOK
  <2> SUFFICES ASSUME TuningInv PROVE TypeOK
    OBVIOUS
  <2>1. host.free >= 0 /\ \A part \in {"zram", "disk", "files", "fstab"} : Unique(host[part])
    BY DEF TuningInv, IsMachine, HasStorage
  <2>2. OneSwapChange(pending) /\ (pending.disable => pending.zram = Unset)
    BY DEF TuningInv, Stageable, SwapAsked
  <2> QED BY <2>1, <2>2 DEF TypeOK, TuningInv
<1> QED BY <1>1, TuningInvariant, PTL

\* A rollback undoes on the running machine what was done since the snapshot, whatever
\* was applied and however often it is repeated.
THEOREM RollbacksUndo == Spec => RollbackUndoes
<1>1. TuningInv /\ [Next]_vars => [last' = "rollback" => Undone(host, snap, host')]_vars
  <2> SUFFICES ASSUME TuningInv, Next, last' = "rollback"
               PROVE  Undone(host, snap, host') \/ UNCHANGED vars
    OBVIOUS
  <2>1. CASE Rollback
    <3>1. /\ snap # Unset /\ \A p \in Missing(host, snap) : SizeOf(snap, p) > 0
          /\ host' = RolledBack(host, snap)
      BY <2>1 DEF Rollback
    <3> QED BY <3>1, RolledBackUndone DEF TuningInv, SnapInv
  <2>2. CASE Rest
    BY <2>2 DEF Rest
  <2>3. CASE ~ Rollback /\ ~ Rest
    BY <2>3 DEF Next, StageDefaults, ApplyDefaults, Apply, Direct, OptimizeLinked, StageDraft,
                Migrate, Do
  <2> QED BY <2>1, <2>2, <2>3
<1> QED BY <1>1, TuningInvariant, PTL DEF Spec, RollbackUndoes

\* 'defaults apply' with nothing staged makes no swapfile and no zram device smaller,
\* on any machine.
THEOREM AdviceOnlyGrows == Spec => AdviceNeverShrinks
<1>1. TuningInv /\ [Next]_vars =>
        [last' = "defaults" /\ pending = NoChanges => NoSmaller(host, host')]_vars
  <2> SUFFICES ASSUME TuningInv, Next, last' = "defaults", pending = NoChanges
               PROVE  NoSmaller(host, host') \/ UNCHANGED vars
    OBVIOUS
  <2>0. IsMachine(host) /\ HasStorage(host)
    BY DEF TuningInv, IsMachine
  <2>1. CASE ApplyDefaults
    <3>1. PICK scales \in Asked :
            LET p == Recommend(host, scales).pending
            IN  IF p = NoChanges THEN host' = host ELSE Perform(Merge(pending, p))
      BY <2>1 DEF ApplyDefaults
    <3> DEFINE p == Recommend(host, scales).pending
    <3>2. CASE p = NoChanges
      <4>1. host' = host
        BY <3>1, <3>2
      <4> QED BY <2>0, <4>1, UnchangedNoSmaller
    <3>3. CASE p # NoChanges
      <4>1. p \in Forms /\ p.disable = FALSE /\ OneSwapChange(p)
        BY <2>0, <3>3, AdviceMergeable
      <4>2. Merge(pending, p) = p
        BY <4>1, MergeIntoNothing
      <4>3. CanApply(host, p) /\ host' = Applied(host, p)
        BY <3>1, <3>3, <4>2 DEF Perform
      <4> QED BY <2>0, <3>3, <4>3, AdvisedNoSmaller
    <3> QED BY <3>2, <3>3
  <2>2. CASE Rest
    BY <2>2 DEF Rest
  <2>3. CASE ~ ApplyDefaults /\ ~ Rest
    BY <2>3 DEF Next, StageDefaults, Apply, Direct, OptimizeLinked, StageDraft,
                Migrate, Rollback, Do
  <2> QED BY <2>1, <2>2, <2>3
<1> QED BY <1>1, TuningInvariant, PTL DEF Spec, AdviceNeverShrinks

\* The property about a machine alone.
LEMMA AdviceFitsMachine ==
  ASSUME HasStorage(host)
  PROVE  AdviceFits
<1> SUFFICES ASSUME NEW scales \in Asked, NEW p, p = Recommend(host, scales).pending,
                    NEW show, show = Sliders(host, scales)
             PROVE  /\ Valid(p, KnownFiles(host))
                    /\ p.create # Unset =>
                         /\ p.create.path \notin DiskNames(host)
                         /\ host.free >= p.create.size + 64
                         /\ show.available
                         /\ show.swapfile[show.selected.swapfile] = p.create.size
                    /\ p.resize # Unset => Strategy(host, p.resize.path, p.resize.size) # "none"
  BY DEF AdviceFits
<1> DEFINE mb == OverflowMb(host.ram, scales.swapfile)
<1>1. FitFor(host, scales, p)
  BY AdviceIsFit
<1>2. scales.swapfile \in Scales
  BY TuningAssumption
<1>3. host.free \in Nat /\ mb \in Nat /\ SizeOf(host, OverflowPath) \in Nat
  <2>1. host.ram \in Nat /\ host.free \in Nat /\ SwapPart(host)
    BY MachineParts DEF SwapPart
  <2> QED BY <2>1, OverflowIsNumber, SizeIsOfFile DEF SwapPart
<1>4. ASSUME p.create # Unset
      PROVE  /\ p.create.path \notin DiskNames(host)
             /\ host.free >= p.create.size + 64
             /\ show.available
             /\ show.swapfile[show.selected.swapfile] = p.create.size
  <2>1. /\ p.create.size = mb /\ host.disk = {} /\ Configured(host) = {}
        /\ mb + Margin <= host.free /\ ~ Blocked(host)
    BY <1>1, <1>4 DEF FitFor, SwapfileFits
  <2>2. show.available /\ show.selected = scales
        /\ show.swapfile[scales.swapfile] = mb
    BY <1>2, <2>1 DEF Sliders, SizeScales
  <2> HIDE DEF mb
  <2> QED BY <1>3, <2>1, <2>2 DEF DiskNames, Margin
<1>5. ASSUME p.resize # Unset
      PROVE  Strategy(host, p.resize.path, p.resize.size) # "none"
  <2>1. /\ p.resize.path = OverflowPath /\ p.resize.size = mb
        /\ mb - SizeOf(host, OverflowPath) + Margin <= host.free + 1
        /\ Margin <= host.free
    BY <1>1, <1>5 DEF FitFor, SwapfileFits
  <2> HIDE DEF mb
  <2>2. host.free >= Most(mb - SizeOf(host, OverflowPath), 0) + 64
    BY <1>3, <2>1 DEF Most, Margin
  <2> QED BY <2>1, <2>2 DEF Strategy
<1> QED BY <1>1, <1>4, <1>5 DEF FitFor

\* Whatever machine it has become, what is advised is valid, fits on the disk, and is
\* what the slider shows (engine_build.rs, overflow.rs).
THEOREM AdviceAlwaysFits == Spec => []AdviceFits
<1>1. TuningInv => AdviceFits
  BY AdviceFitsMachine DEF TuningInv, IsMachine
<1> QED BY <1>1, TuningInvariant, PTL

\* Once 'defaults apply' is done the advice has nothing left to stage but what it
\* cannot reach, whatever machine it began on (staging.rs, overflow.rs, host_fixes.rs).
THEOREM AdviceSettles == Spec => []AdviceConverges
<1>1. TuningInv => AdviceConverges
  BY DEF TuningInv, AdvisedInv, AdviceConverges, Settled
<1> QED BY <1>1, TuningInvariant, PTL

\* After 'defaults apply' doctor no longer reports what it sends the user there for,
\* but for the exceptions that are named (doctor.rs, engine_build.rs).
THEOREM AppliedAdviceHeals == Spec => []DoctorHealed
<1>1. TuningInv => DoctorHealed
  <2> SUFFICES ASSUME TuningInv, advised # Unset PROVE DoctorHealed
    BY DEF DoctorHealed
  <2> QED BY DoctorHealedMachine DEF TuningInv, AdvisedInv
<1> QED BY <1>1, TuningInvariant, PTL

\* What a form was optimized from, and for.
LEMMA DraftOf ==
  ASSUME TuningInv, draft # Unset
  PROVE  /\ draft.anchor \in Anchors /\ draft.seed \in Forms /\ draft.ctx \in Contexts
         /\ draft.result = Optimize(draft.anchor, draft.seed, draft.ctx)
BY ContextForm, TuningAssumption DEF TuningInv, DraftInv, IsMachine

\* What the user has just edited is still in the form, for every form and machine
\* (link.rs).
THEOREM EditsStay == Spec => []LinkedKeeps
<1>1. TuningInv => LinkedKeeps
  <2> SUFFICES ASSUME TuningInv, draft # Unset PROVE LinkedKeeps
    BY DEF LinkedKeeps
  <2> DEFINE seed == draft.seed
             got == draft.result
  <2>1. /\ draft.anchor \in Anchors /\ draft.seed \in Forms /\ draft.ctx \in Contexts
        /\ draft.result = Optimize(draft.anchor, draft.seed, draft.ctx)
    BY DraftOf
  <2>2. CASE draft.anchor = "zram_size"
    <3>1. seed.zram # Unset /\ ~ draft.ctx.resume
            /\ seed.zram.size # Unset /\ seed.zram.size.of # "invalid"
            => got.zram.size = seed.zram.size
      BY <2>1, <2>2, EditIsKept
    <3> QED BY <2>2, <3>1 DEF LinkedKeeps
  <2>3. CASE draft.anchor = "zram_algo"
    <3>1. seed.zram # Unset /\ ~ draft.ctx.resume /\ seed.zram.algo \notin {Unset, "invalid"}
            => got.zram.algo = seed.zram.algo
      BY <2>1, <2>3, EditIsKept
    <3> QED BY <2>3, <3>1 DEF LinkedKeeps
  <2>4. CASE draft.anchor = "zram_priority"
    <3>1. seed.zram # Unset /\ ~ draft.ctx.resume /\ seed.zram.prio \in Priorities
            => got.zram.prio \in {seed.zram.prio, 100}
      BY <2>1, <2>4, EditIsKept
    <3> QED BY <2>4, <3>1 DEF LinkedKeeps
  <2>5. CASE draft.anchor = "sysctl"
    <3>1. seed.sysctl # Unset =>
            \A k \in Knobs : seed.sysctl[k] # Unset /\ InRange(k, seed.sysctl[k])
                               => got.sysctl[k] = seed.sysctl[k]
      BY <2>1, <2>5, EditIsKept
    <3> QED BY <2>5, <3>1 DEF LinkedKeeps
  <2>6. CASE draft.anchor = "swapfile_create"
    <3>1. seed.create # Unset /\ seed.create.size \in 1..OverflowMb(draft.ctx.ram, "high")
            => got.create.size = seed.create.size
      BY <2>1, <2>6, EditIsKept
    <3> QED BY <2>6, <3>1 DEF LinkedKeeps
  <2>7. CASE draft.anchor = "swapfile_resize"
    <3>1. seed.resize # Unset /\ ValidPath(seed.resize.path)
            /\ seed.resize.size \in 1..OverflowMb(draft.ctx.ram, "high")
            => got.resize = seed.resize
      BY <2>1, <2>7, EditIsKept
    <3> QED BY <2>7, <3>1 DEF LinkedKeeps
  <2>8. CASE draft.anchor = "swapfile_remove"
    <3>1. seed.remove # Unset /\ ValidPath(seed.remove) => got.remove = seed.remove
      BY <2>1, <2>8, EditIsKept
    <3> QED BY <2>8, <3>1 DEF LinkedKeeps
  <2> QED BY <2>1, <2>2, <2>3, <2>4, <2>5, <2>6, <2>7, <2>8 DEF Anchors
<1> QED BY <1>1, TuningInvariant, PTL

\* What the optimization returns is refused only for what it does not look at, also
\* when the files of the machine are others than those of the form.
THEOREM OptimizedStages == Spec => []LinkedStageable
<1>1. TuningInv => LinkedStageable
  <2> SUFFICES ASSUME TuningInv, draft # Unset, ~ Valid(draft.result, KnownFiles(host))
               PROVE  LinkedStageable
    BY DEF LinkedStageable
  <2> QED BY DraftOf, OptimizedIsValid DEF LinkedStageable
<1> QED BY <1>1, TuningInvariant, PTL

\* The optimized form uses zram before the swapfile it creates, but for the forms
\* that are named.
THEOREM TiersStayApart == Spec => []LinkedTiers
<1>1. TuningInv => LinkedTiers
  <2> SUFFICES ASSUME TuningInv, draft # Unset,
                      draft.anchor \in {"zram_priority", "swapfile_create"},
                      draft.result.create # Unset, draft.result.zram # Unset
               PROVE  LinkedTiers
    BY DEF LinkedTiers
  <2> QED BY DraftOf, TiersAreApart DEF LinkedTiers
<1> QED BY <1>1, TuningInvariant, PTL

=============================================================================
