----------------------------- MODULE StagedSlots -----------------------------
(***************************************************************************)
(* The staged configuration, seen as a set of independent slots.           *)
(*                                                                         *)
(* pending.json holds at most one decision per slot: what to do with the   *)
(* zram device, what to do with the swapfile, each sysctl key, each flag,  *)
(* each directory to prepare.  Staging a partial configuration overwrites  *)
(* the slots it sets and leaves the others alone.  Module XZramPending     *)
(* models the record the code really merges and shows that it is an        *)
(* overlay of slots; module XZramStore uses the overlay.                   *)
(***************************************************************************)

CONSTANTS
  Slots,     \* the independent decisions of a staged configuration
  Values,    \* what a slot can be set to
  Unset      \* the slot is not staged

ASSUME UnsetAssumption == Unset \notin Values

Config == [Slots -> Values \cup {Unset}]

\* PendingConfig::default(), and also the missing file: every reader of
\* pending.json treats "no file" and "nothing staged" alike.
NothingStaged == [s \in Slots |-> Unset]

Overlay(base, part) ==
  [s \in Slots |-> IF part[s] = Unset THEN base[s] ELSE part[s]]

=============================================================================
