----------------------------- MODULE MCXZramHost -----------------------------
(* Small instances of XZramHost for TLC. *)
EXTENDS XZramHost

\* Every change of a single part, and the changes of all parts at once.
EveryPart ==
  {c \in Change : Cardinality({part \in DOMAIN c : c[part] # NoChange[part]}) \in {1, 3}}

\* Changes of one swapfile only.
SwapOnly == {c \in Change : c.zram = Unset /\ c.sysctl = Unset /\ c # NoChange}

\* Changes of one swapfile and of sysctl.
SwapAndSysctl == {c \in Change : c.zram = Unset /\ c # NoChange}

=============================================================================
