---------------------------- MODULE SnapshotStore ----------------------------
(***************************************************************************)
(* What the store under /var/lib/xzram promises its users: the staged      *)
(* configuration and the catalogue of snapshots change one whole operation *)
(* at a time, whoever performs the operations and whatever crashes.        *)
(* XZramStore, with its locks, unlocked reads, files and crashes, is shown *)
(* to implement it.                                                        *)
(***************************************************************************)
EXTENDS Naturals, SequencesExt, StagedSlots

CONSTANTS
  SnapIds,      \* the names a snapshot can have
  Triggers      \* why a snapshot was taken

VARIABLES
  staged,       \* the staged configuration
  catalogue     \* the snapshots on offer, the newest first

storeVars == <<staged, catalogue>>

Entry == [id: SnapIds, trigger: Triggers]

IdsIn(s) == {s[i].id : i \in DOMAIN s}

Init ==
  /\ staged \in Config
  /\ catalogue = <<>>

\* A partial configuration is laid over everything staged so far.
Stage == \E part \in Config : staged' = Overlay(staged, part)

\* Discarded by the user, or taken by an apply that succeeded.
Discard == staged' = NothingStaged

\* A new snapshot heads the catalogue ...
Record ==
  \E e \in Entry : /\ e.id \notin IdsIn(catalogue)
                   /\ catalogue' = Cons(e, catalogue)

\* ... unless it is the import of a legacy backup, which is the oldest.
Import ==
  \E e \in Entry : /\ e.id \notin IdsIn(catalogue)
                   /\ catalogue' = Append(catalogue, e)

\* Exactly one snapshot leaves the catalogue, the others keep their order.
Drop == \E i \in 1..Len(catalogue) : catalogue' = RemoveAt(catalogue, i)

Next ==
  \/ (Stage \/ Discard) /\ UNCHANGED catalogue
  \/ (Record \/ Import \/ Drop) /\ UNCHANGED staged

Spec == Init /\ [][Next]_storeVars

=============================================================================
