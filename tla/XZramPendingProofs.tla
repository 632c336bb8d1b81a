------------------------- MODULE XZramPendingProofs -------------------------
(***************************************************************************)
(* Proofs about XZramPending, for all devices, swapfiles and values.       *)
(***************************************************************************)
EXTENDS XZramPending, FiniteSetTheorems, TLAPS

-----------------------------------------------------------------------------
(* What a merge does to each field (stage, merge_pending).               *)

LEMMA MergeSysctlType ==
  ASSUME NEW base \in Sysctl, NEW overlay \in Sysctl
  PROVE  MergeSysctl(base, overlay) \in Sysctl
BY DEF MergeSysctl, Sysctl

\* The zram group: a device replaces a disable and the other way round.
LEMMA MergeZramFields ==
  ASSUME NEW c \in PendingConfig, NEW p \in PendingConfig
  PROVE  LET m == MergeZram(c, p) IN
         /\ m \in PendingConfig
         /\ m.zram = IF p.zram # Unset THEN p.zram ELSE IF p.disable THEN Unset ELSE c.zram
         /\ m.disable = IF p.zram # Unset THEN FALSE ELSE IF p.disable THEN TRUE ELSE c.disable
         /\ m.create = c.create /\ m.resize = c.resize /\ m.remove = c.remove
         /\ m.sysctl = c.sysctl /\ m.flag = c.flag
<1>1. CASE p.zram # Unset
  BY <1>1 DEF MergeZram, PendingConfig
<1>2. CASE p.zram = Unset /\ p.disable
  BY <1>2 DEF MergeZram, PendingConfig
<1>3. CASE p.zram = Unset /\ ~p.disable
  BY <1>3 DEF MergeZram, PendingConfig
<1> QED BY <1>1, <1>2, <1>3 DEF PendingConfig

\* The swapfile group: what is staged last is all that is left.
LEMMA MergeSwapFields ==
  ASSUME NEW c \in PendingConfig, NEW p \in PendingConfig
  PROVE  LET m == MergeSwap(c, p)
             last == IF p.remove # Unset THEN "remove"
                     ELSE IF p.resize # Unset THEN "resize"
                     ELSE IF p.create # Unset THEN "create" ELSE "none"
         IN
         /\ m \in PendingConfig
         /\ m.zram = c.zram /\ m.disable = c.disable
         /\ m.sysctl = c.sysctl /\ m.flag = c.flag
         /\ m.remove = IF last = "none" THEN c.remove ELSE IF last = "remove" THEN p.remove ELSE Unset
         /\ m.resize = IF last = "none" THEN c.resize ELSE IF last = "resize" THEN p.resize ELSE Unset
         /\ m.create = IF last = "none" THEN c.create ELSE IF last = "create" THEN p.create ELSE Unset
<1>1. CASE p.remove # Unset
  BY <1>1 DEF MergeSwap, PendingConfig
<1>2. CASE p.remove = Unset /\ p.resize # Unset
  BY <1>2 DEF MergeSwap, PendingConfig
<1>3. CASE p.remove = Unset /\ p.resize = Unset /\ p.create # Unset
  BY <1>3 DEF MergeSwap, PendingConfig
<1>4. CASE p.remove = Unset /\ p.resize = Unset /\ p.create = Unset
  BY <1>4 DEF MergeSwap, PendingConfig
<1> QED BY <1>1, <1>2, <1>3, <1>4

\* Both groups, the sysctl values and the flags together.
LEMMA MergeFields ==
  ASSUME NEW c \in PendingConfig, NEW p \in PendingConfig
  PROVE  LET m == Merge(c, p)
             z == MergeZram(c, p)
             s == MergeSwap(z, p)
         IN
         /\ m \in PendingConfig /\ z \in PendingConfig
         /\ m.zram = z.zram /\ m.disable = z.disable
         /\ m.remove = s.remove /\ m.resize = s.resize /\ m.create = s.create
         /\ m.sysctl = MergeSysctl(c.sysctl, p.sysctl)
         /\ m.flag = (c.flag \/ p.flag)
<1> DEFINE z == MergeZram(c, p)
           s == MergeSwap(z, p)
<1>1. z \in PendingConfig /\ z.sysctl = c.sysctl /\ z.flag = c.flag
  BY MergeZramFields
<1> HIDE DEF z
<1>2. s \in PendingConfig /\ s.zram = z.zram /\ s.disable = z.disable
      /\ s.sysctl = z.sysctl /\ s.flag = z.flag
  BY <1>1, MergeSwapFields
<1> HIDE DEF s
<1>3. MergeSysctl(s.sysctl, p.sysctl) \in Sysctl
  BY <1>2, MergeSysctlType DEF PendingConfig
<1>4. (s.flag \/ p.flag) \in BOOLEAN
  BY <1>2 DEF PendingConfig
<1>5. Merge(c, p) = [s EXCEPT !.sysctl = MergeSysctl(@, p.sysctl), !.flag = @ \/ p.flag]
  BY DEF Merge, z, s
<1>6. /\ Merge(c, p) \in PendingConfig
      /\ Merge(c, p).zram = s.zram /\ Merge(c, p).disable = s.disable
      /\ Merge(c, p).remove = s.remove /\ Merge(c, p).resize = s.resize
      /\ Merge(c, p).create = s.create
      /\ Merge(c, p).sysctl = MergeSysctl(s.sysctl, p.sysctl)
      /\ Merge(c, p).flag = (s.flag \/ p.flag)
  BY <1>2, <1>3, <1>4, <1>5 DEF PendingConfig
<1> QED BY <1>1, <1>2, <1>6 DEF z, s

-----------------------------------------------------------------------------
(* The record is consistent.                                               *)

\* At most one of the three swapfile changes, said field by field.
OneSwapChange(c) ==
  /\ c.remove # Unset => c.resize = Unset /\ c.create = Unset
  /\ c.resize # Unset => c.create = Unset

Consistent(c) ==
  /\ c \in PendingConfig
  /\ c.disable => c.zram = Unset
  /\ OneSwapChange(c)

LEMMA OneSwapChangeCounts ==
  ASSUME NEW c \in PendingConfig, OneSwapChange(c)
  PROVE  Cardinality({f \in {"create", "resize", "remove"} : c[f] # Unset}) <= 1
<1> DEFINE set == {f \in {"create", "resize", "remove"} : c[f] # Unset}
<1>1. set = {} \/ \E f \in {"create", "resize", "remove"} : set = {f}
  <2>1. CASE c.remove # Unset
    <3>1. set = {"remove"}
      BY <2>1 DEF OneSwapChange, PendingConfig
    <3> QED BY <3>1
  <2>2. CASE c.remove = Unset /\ c.resize # Unset
    <3>1. set = {"resize"}
      BY <2>2 DEF OneSwapChange, PendingConfig
    <3> QED BY <3>1
  <2>3. CASE c.remove = Unset /\ c.resize = Unset /\ c.create # Unset
    <3>1. set = {"create"}
      BY <2>3 DEF OneSwapChange, PendingConfig
    <3> QED BY <3>1
  <2>4. CASE c.remove = Unset /\ c.resize = Unset /\ c.create = Unset
    BY <2>4 DEF PendingConfig
  <2> QED BY <2>1, <2>2, <2>3, <2>4
<1> HIDE DEF set
<1>2. Cardinality({}) = 0
  BY FS_EmptySet
<1>3. \A f : Cardinality({f}) = 1
  BY FS_Singleton
<1>4. Cardinality(set) = 0 \/ Cardinality(set) = 1
  BY <1>1, <1>2, <1>3
<1> QED BY <1>4 DEF set

LEMMA DefaultConsistent == Consistent(Default)
BY PendingAssumption DEF Consistent, OneSwapChange, Default, PendingConfig, Sysctl,
   NoSysctl, Bytes

LEMMA MergeConsistent ==
  ASSUME NEW c, Consistent(c), NEW p \in PendingConfig
  PROVE  Consistent(Merge(c, p))
<1> DEFINE z == MergeZram(c, p)
           s == MergeSwap(z, p)
           m == Merge(c, p)
<1>0. c \in PendingConfig
  BY DEF Consistent
<1>1. /\ m \in PendingConfig /\ z \in PendingConfig
      /\ m.zram = z.zram /\ m.disable = z.disable
      /\ m.remove = s.remove /\ m.resize = s.resize /\ m.create = s.create
  BY <1>0, MergeFields
<1>2. z.disable => z.zram = Unset
  BY <1>0, MergeZramFields DEF Consistent
<1>3. OneSwapChange(z)
  BY <1>0, MergeZramFields DEF Consistent, OneSwapChange
<1> HIDE DEF z, m
<1>4. OneSwapChange(s)
  BY <1>1, <1>3, MergeSwapFields DEF OneSwapChange
<1> HIDE DEF s
<1>5. Consistent(m)
  BY <1>1, <1>2, <1>4 DEF Consistent, OneSwapChange
<1> QED BY <1>5 DEF m

\* Whatever is staged in whatever order, the record never contradicts itself
\* (stage validates the partial configurations only).
THEOREM RecordConsistent == Spec => []StagedIsConsistent
<1>1. Init => Consistent(pending)
  BY DefaultConsistent DEF Init
<1>2. Consistent(pending) /\ [Next]_vars => Consistent(pending)'
  <2> SUFFICES ASSUME Consistent(pending), [Next]_vars
               PROVE  Consistent(pending')
    BY DEF Consistent, OneSwapChange, PendingConfig
  <2>1. CASE Stage
    BY <2>1, MergeConsistent DEF Stage
  <2>2. CASE Clear
    BY <2>2, DefaultConsistent DEF Clear
  <2>3. CASE SetSysctl
    BY <2>3 DEF SetSysctl
  <2>4. CASE Apply
    BY <2>4, DefaultConsistent DEF Apply
  <2>5. CASE UNCHANGED vars
    BY <2>5 DEF vars
  <2> QED BY <2>1, <2>2, <2>3, <2>4, <2>5 DEF Next
<1>3. Consistent(pending) => StagedIsConsistent
  BY OneSwapChangeCounts DEF Consistent, StagedIsConsistent
<1> QED BY <1>1, <1>2, <1>3, PTL DEF Spec

-----------------------------------------------------------------------------
(* The drop-in is valid.                                                   *)

\* Each write of the drop-in keeps background below dirty, whenever the two
\* keys were staged or set (sysctl::set validates what it is about to write).
THEOREM DropInStaysValid == Spec => []DropInIsValid
<1> DEFINE Both == pending \in PendingConfig /\ DropInIsValid
<1>1. Init => Both
  BY DefaultConsistent DEF Init, DropInIsValid, Consistent
<1>2. Both /\ [Next]_vars => Both'
  <2> SUFFICES ASSUME Both, [Next]_vars PROVE Both'
    OBVIOUS
  <2>0. Default \in PendingConfig
    BY DefaultConsistent DEF Consistent
  <2>1. ASSUME NEW values \in Sysctl, Set(values)
        PROVE  DropInIsValid'
    BY <2>1, MergeSysctlType DEF Set, DropInIsValid
  <2>2. CASE Stage
    <3>1. dropin' = dropin /\ pending' \in PendingConfig
      BY <2>2, MergeFields DEF Stage
    <3> QED BY <3>1 DEF DropInIsValid
  <2>3. CASE Clear
    BY <2>0, <2>3 DEF Clear, DropInIsValid
  <2>4. CASE SetSysctl
    BY <2>1, <2>4 DEF SetSysctl
  <2>5. CASE Apply
    <3>1. pending.sysctl \in Sysctl
      BY DEF PendingConfig
    <3>2. DropInIsValid'
      BY <2>1, <2>5, <3>1 DEF Apply, DropInIsValid
    <3> QED BY <2>0, <2>5, <3>2 DEF Apply
  <2>6. CASE UNCHANGED vars
    BY <2>6 DEF vars, DropInIsValid
  <2> QED BY <2>2, <2>3, <2>4, <2>5, <2>6 DEF Next
<1>3. Both => DropInIsValid
  OBVIOUS
<1> QED BY <1>1, <1>2, <1>3, PTL DEF Spec

-----------------------------------------------------------------------------
(* The record is an overlay of slots.                                      *)

\* A slot is unset exactly when the partial configuration says nothing of its
\* group.
LEMMA SwapOfUnset ==
  ASSUME NEW c \in PendingConfig
  PROVE  SwapOf(c) = Unset <=> c.remove = Unset /\ c.resize = Unset /\ c.create = Unset
<1>1. \A f \in Swapfiles : /\ <<"remove", f>> # Unset /\ <<"resize", f>> # Unset
                           /\ <<"create", f>> # Unset
  <2> TAKE f \in Swapfiles
  <2>1. /\ <<"remove", f>> \in {"create", "resize", "remove"} \X Swapfiles
        /\ <<"resize", f>> \in {"create", "resize", "remove"} \X Swapfiles
        /\ <<"create", f>> \in {"create", "resize", "remove"} \X Swapfiles
    OBVIOUS
  <2> QED BY <2>1, PendingAssumption
<1>2. /\ c.remove # Unset => c.remove \in Swapfiles
      /\ c.resize # Unset => c.resize \in Swapfiles
      /\ c.create # Unset => c.create \in Swapfiles
  BY DEF PendingConfig
<1> QED BY <1>1, <1>2 DEF SwapOf

\* What the view shows, slot by slot.
LEMMA ViewSlots ==
  ASSUME NEW c \in PendingConfig
  PROVE  /\ View(c) = [s \in Places |-> View(c)[s]]
         /\ View(c)["zram"] = IF c.zram # Unset THEN c.zram ELSE IF c.disable THEN Off ELSE Unset
         /\ View(c)["swap"] = SwapOf(c)
         /\ View(c)["flag"] = IF c.flag THEN Flag ELSE Unset
         /\ \A k \in Keys : View(c)[k] = c.sysctl[k]
BY DEF View, Places, Groups, Keys

\* Merging two records is laying the slots of one over those of the other.
LEMMA MergeIsOverlay ==
  ASSUME NEW c \in PendingConfig, NEW p \in PendingConfig
  PROVE  View(Merge(c, p)) = Slots!Overlay(View(c), View(p))
<1> DEFINE m == Merge(c, p)
           z == MergeZram(c, p)
           s == MergeSwap(z, p)
           over == [x \in Places |-> IF View(p)[x] = Unset THEN View(c)[x] ELSE View(p)[x]]
<1>1. /\ m \in PendingConfig /\ z \in PendingConfig
      /\ m.zram = z.zram /\ m.disable = z.disable
      /\ m.remove = s.remove /\ m.resize = s.resize /\ m.create = s.create
      /\ m.sysctl = MergeSysctl(c.sysctl, p.sysctl)
      /\ m.flag = (c.flag \/ p.flag)
  BY MergeFields
<1>2. Off # Unset /\ Flag # Unset
  BY PendingAssumption
<1>3. View(m)["zram"] = over["zram"]
  <2>1. /\ z.zram = IF p.zram # Unset THEN p.zram ELSE IF p.disable THEN Unset ELSE c.zram
        /\ z.disable = IF p.zram # Unset THEN FALSE ELSE IF p.disable THEN TRUE ELSE c.disable
    BY MergeZramFields
  <2> HIDE DEF m, z
  <2>2. "zram" \in Places
    BY DEF Places, Groups
  <2> DEFINE Shown(x) == IF x.zram # Unset THEN x.zram ELSE IF x.disable THEN Off ELSE Unset
  <2>3. View(m)["zram"] = Shown(m) /\ View(c)["zram"] = Shown(c) /\ View(p)["zram"] = Shown(p)
    BY <1>1, ViewSlots
  <2>4. Shown(m) = IF Shown(p) = Unset THEN Shown(c) ELSE Shown(p)
    <3>1. CASE p.zram # Unset
      BY <1>1, <2>1, <3>1
    <3>2. CASE p.zram = Unset /\ p.disable
      BY <1>1, <1>2, <2>1, <3>2
    <3>3. CASE p.zram = Unset /\ ~p.disable
      BY <1>1, <2>1, <3>3
    <3> QED BY <3>1, <3>2, <3>3
  <2> HIDE DEF Shown
  <2> QED BY <2>2, <2>3, <2>4
<1>4. View(m)["swap"] = over["swap"]
  <2>1. z.remove = c.remove /\ z.resize = c.resize /\ z.create = c.create
    BY MergeZramFields
  <2> HIDE DEF z
  <2>2. CASE p.remove = Unset /\ p.resize = Unset /\ p.create = Unset
    <3>1. m.remove = c.remove /\ m.resize = c.resize /\ m.create = c.create
      BY <1>1, <2>1, <2>2, MergeSwapFields
    <3>2. SwapOf(m) = SwapOf(c) /\ SwapOf(p) = Unset
      BY <2>2, <3>1 DEF SwapOf
    <3> HIDE DEF m
    <3> QED BY <1>1, <3>2, ViewSlots DEF Places, Groups
  <2>3. CASE ~(p.remove = Unset /\ p.resize = Unset /\ p.create = Unset)
    <3>1. /\ m.remove = p.remove
          /\ p.remove = Unset => m.resize = p.resize
          /\ p.remove = Unset /\ p.resize = Unset => m.create = p.create
      BY <1>1, <2>3, MergeSwapFields
    <3>2. SwapOf(m) = SwapOf(p)
      BY <2>3, <3>1 DEF SwapOf
    <3>3. SwapOf(p) # Unset
      BY <2>3, SwapOfUnset
    <3> HIDE DEF m
    <3> QED BY <1>1, <3>2, <3>3, ViewSlots DEF Places, Groups
  <2> QED BY <2>2, <2>3
<1>5. View(m)["flag"] = over["flag"]
  <2>1. "flag" \in Places
    BY DEF Places, Groups
  <2> HIDE DEF m
  <2> QED BY <1>1, <1>2, <2>1, ViewSlots DEF PendingConfig
<1>6. \A k \in Keys : View(m)[k] = over[k]
  <2> TAKE k \in Keys
  <2>1. k \in Places
    BY DEF Places
  <2> HIDE DEF m
  <2>2. /\ View(m)[k] = m.sysctl[k] /\ View(c)[k] = c.sysctl[k] /\ View(p)[k] = p.sysctl[k]
    BY <1>1, ViewSlots
  <2>3. m.sysctl[k] = IF p.sysctl[k] = Unset THEN c.sysctl[k] ELSE p.sysctl[k]
    BY <1>1 DEF MergeSysctl
  <2> QED BY <2>1, <2>2, <2>3
<1>7. \A x \in Places : View(m)[x] = over[x]
  BY <1>3, <1>4, <1>5, <1>6 DEF Places, Groups
<1>8. View(m) = over
  <2>1. View(m) = [x \in Places |-> View(m)[x]]
    BY <1>1, ViewSlots
  <2> HIDE DEF m
  <2> QED BY <1>7, <2>1
<1> QED BY <1>8 DEF Slots!Overlay

\* Staging is an overlay of slots at every record that can be reached, which is
\* what XZramStore assumes of stage.
THEOREM StagingIsOverlay == Spec => []StageIsOverlay
<1> DEFINE Typed == pending \in PendingConfig
<1>1. Init => Typed
  BY DefaultConsistent DEF Init, Consistent
<1>2. Typed /\ [Next]_vars => Typed'
  <2>1. Default \in PendingConfig
    BY DefaultConsistent DEF Consistent
  <2> QED BY <2>1, MergeFields DEF Next, Stage, Clear, SetSysctl, Apply, vars
<1>3. Typed => StageIsOverlay
  BY MergeIsOverlay DEF StageIsOverlay
<1> HIDE DEF Typed
<1> QED BY <1>1, <1>2, <1>3, PTL DEF Spec

=============================================================================
