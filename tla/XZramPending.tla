---------------------------- MODULE XZramPending ----------------------------
(***************************************************************************)
(* What pending.json says: the record stage merges a partial configuration *)
(* into, and the sysctl drop-in an apply merges the staged values into.    *)
(*                                                                         *)
(* The record has two groups of fields that exclude each other (disable    *)
(* and configure zram; create, resize and remove a swapfile).  Seen as one *)
(* slot per group and one per other field it is an overlay of slots, which *)
(* is how StagedSlots, and with it XZramStore, sees it.                    *)
(*                                                                         *)
(* The two sysctl keys are the ones with a rule between them,              *)
(* vm.dirty_bytes (0: off) and vm.dirty_background_bytes.  The flags       *)
(* (zswap, systemd-oomd, zram-tools) and the directories to prepare are    *)
(* one field, they merge alike: what is set stays set.                     *)
(***************************************************************************)
EXTENDS Naturals, FiniteSets

CONSTANTS
  Devices,    \* zram configurations
  Swapfiles,  \* paths of swapfiles
  MaxBytes,   \* sysctl values are 0..MaxBytes
  Unset,      \* a field that is not set
  Flag,       \* a flag that is set
  Off         \* in the slot view: disable zram

ASSUME PendingAssumption ==
  /\ MaxBytes \in Nat
  /\ Unset \notin Devices \cup Swapfiles \cup 0..MaxBytes \cup {Flag, Off}
  /\ Off \notin Devices
  /\ Unset \notin {"create", "resize", "remove"} \X Swapfiles

VARIABLES
  pending,   \* the staged configuration; a missing file is an empty one
  dropin     \* the values in /etc/sysctl.d/99-xzram.conf

vars == <<pending, dropin>>

Bytes == 0..MaxBytes \cup {Unset}

Keys == {"dirty", "background"}
Sysctl == [Keys -> Bytes]
NoSysctl == [k \in Keys |-> Unset]

PendingConfig ==
  [disable: BOOLEAN, zram: Devices \cup {Unset},
   create: Swapfiles \cup {Unset}, resize: Swapfiles \cup {Unset},
   remove: Swapfiles \cup {Unset},
   sysctl: Sysctl, flag: BOOLEAN]

Default ==
  [disable |-> FALSE, zram |-> Unset, create |-> Unset, resize |-> Unset,
   remove |-> Unset, sysctl |-> NoSysctl, flag |-> FALSE]

-----------------------------------------------------------------------------
(* Merging.                                                                *)

\* The keys of the overlay win.
MergeSysctl(base, overlay) ==
  [k \in Keys |-> IF overlay[k] = Unset THEN base[k] ELSE overlay[k]]

\* Both directions of the zram group, the later block of the code winning when
\* a partial configuration sets both.
MergeZram(current, partial) ==
  IF partial.zram # Unset
  THEN [current EXCEPT !.disable = FALSE, !.zram = partial.zram]
  ELSE IF partial.disable
  THEN [current EXCEPT !.disable = TRUE, !.zram = Unset]
  ELSE current

\* Mutant: a removal does not cancel the staged creation.
MergeSwapKeepsCreate(current, partial) ==
  IF partial.remove # Unset
  THEN [current EXCEPT !.remove = partial.remove, !.resize = Unset]
  ELSE IF partial.resize # Unset
  THEN [current EXCEPT !.resize = partial.resize, !.create = Unset, !.remove = Unset]
  ELSE IF partial.create # Unset
  THEN [current EXCEPT !.create = partial.create, !.resize = Unset, !.remove = Unset]
  ELSE current

MergeSwap(current, partial) ==
  LET cleared == [current EXCEPT !.create = Unset, !.resize = Unset, !.remove = Unset]
  IN  IF partial.remove # Unset THEN [cleared EXCEPT !.remove = partial.remove]
      ELSE IF partial.resize # Unset THEN [cleared EXCEPT !.resize = partial.resize]
      ELSE IF partial.create # Unset THEN [cleared EXCEPT !.create = partial.create]
      ELSE current

\* Mutant: the staged sysctl values replace the earlier ones.
MergeReplacingSysctl(current, partial) ==
  LET merged == MergeSwap(MergeZram(current, partial), partial)
  IN  [merged EXCEPT !.sysctl = IF partial.sysctl = NoSysctl THEN @ ELSE partial.sysctl,
                     !.flag = @ \/ partial.flag]

Merge(current, partial) ==
  LET merged == MergeSwap(MergeZram(current, partial), partial)
  IN  [merged EXCEPT !.sysctl = MergeSysctl(@, partial.sysctl),
                     !.flag = @ \/ partial.flag]

\* The range of each value is in the bounds of the model; this is the rule
\* between the two.
ValidSysctl(values) ==
  values["dirty"] \notin {Unset, 0} /\ values["background"] # Unset
    => values["background"] < values["dirty"]

-----------------------------------------------------------------------------
(* The operations on the file and on the drop-in.                          *)

Init ==
  /\ pending = Default
  /\ dropin \in {values \in Sysctl : ValidSysctl(values)}

\* Each partial configuration is validated, the result of the merge is not.
Stage ==
  \E partial \in PendingConfig :
    /\ partial # Default
    /\ ValidSysctl(partial.sysctl)
    /\ pending' = Merge(pending, partial)
    /\ UNCHANGED dropin

Clear == pending' = Default /\ UNCHANGED dropin

\* Mutant: only the given values are validated, not what is written.
SetUnchecked(values) ==
  /\ values # NoSysctl
  /\ ValidSysctl(values)
  /\ dropin' = MergeSysctl(dropin, values)

\* sysctl::set validates the values and their merge with the drop-in.
Set(values) ==
  LET merged == MergeSysctl(dropin, values)
  IN  /\ values # NoSysctl
      /\ ValidSysctl(values) /\ ValidSysctl(merged)
      /\ dropin' = merged

SetSysctl == \E values \in Sysctl : Set(values) /\ UNCHANGED pending

\* An apply whose other parts succeed; what is staged is then gone.  One that
\* fails restores the drop-in and leaves the file for a retry.
Apply ==
  /\ pending # Default
  /\ IF pending.sysctl = NoSysctl THEN UNCHANGED dropin ELSE Set(pending.sysctl)
  /\ pending' = Default

Next == Stage \/ Clear \/ SetSysctl \/ Apply

Spec == Init /\ [][Next]_vars

-----------------------------------------------------------------------------
(* The slot view.                                                          *)

Groups == {"zram", "swap", "flag"}
Places == Groups \cup Keys

SwapOf(c) ==
  IF c.remove # Unset THEN <<"remove", c.remove>>
  ELSE IF c.resize # Unset THEN <<"resize", c.resize>>
  ELSE IF c.create # Unset THEN <<"create", c.create>>
  ELSE Unset

View(c) ==
  [s \in Places |->
     CASE s = "zram" -> IF c.zram # Unset THEN c.zram ELSE IF c.disable THEN Off ELSE Unset
       [] s = "swap" -> SwapOf(c)
       [] s = "flag" -> IF c.flag THEN Flag ELSE Unset
       [] OTHER -> c.sysctl[s]]

Slots == INSTANCE StagedSlots
  WITH Slots <- Places,
       Values <- Devices \cup ({"create", "resize", "remove"} \X Swapfiles)
                   \cup 0..MaxBytes \cup {Flag, Off}

-----------------------------------------------------------------------------
(* Properties.                                                             *)

\* The staged configuration never asks for two things that exclude each other,
\* whatever was staged in whatever order.
StagedIsConsistent ==
  /\ pending \in PendingConfig
  /\ pending.disable => pending.zram = Unset
  /\ Cardinality({f \in {"create", "resize", "remove"} : pending[f] # Unset}) <= 1

\* The values in the drop-in keep background below dirty, although each key can
\* be staged, set and applied on its own.
DropInIsValid == dropin \in Sysctl /\ ValidSysctl(dropin)

\* Staging is an overlay of slots, whatever is staged and whatever comes next:
\* what is staged last wins in its own slot and nothing in another is lost.
StageIsOverlay ==
  \A partial \in PendingConfig :
    View(Merge(pending, partial)) = Slots!Overlay(View(pending), View(partial))

=============================================================================
