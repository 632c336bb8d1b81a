---------------------------- MODULE MCXZramFront ----------------------------
(* A small instance of XZramFront for TLC. *)
EXTENDS XZramFront

\* The window, the terminals and the readers of xzramd share only what the
\* requests go through.  All operations overlap as they like while the window
\* is closed and nobody reads.  Otherwise only these clients ask, the others at
\* most while the window is closed and before or after the reads; while the window
\* is open they ask from it alone, and nobody reads.
CONSTANT Lone

Asked == {c \in Clients : client[c] # "new"}
UnderWay == {c \in Asked : client[c] # "done"}
Flooded == permits # MaxConcurrentReads \/ \E r \in Readers : request[r] # "none"

Bounded ==
  /\ open => Asked \subseteq Lone /\ UnderWay \subseteq {busy} /\ ~Flooded
  /\ Flooded => UnderWay \subseteq Lone /\ (Asked \subseteq Lone \/ UnderWay = {})

MCSpec == FrontInit /\ [][FrontNext /\ Bounded']_front /\ Fairness

=============================================================================
