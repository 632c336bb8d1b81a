----------------------------- MODULE XZramReads -----------------------------
(***************************************************************************)
(* The unauthenticated reads of xzramd.  Anybody on the bus may call them; *)
(* each holds one of a few slots while its work runs on the blocking pool, *)
(* and a caller may disconnect at any time, which drops the call but not   *)
(* the work.                                                               *)
(***************************************************************************)
EXTENDS Naturals, FiniteSets

CONSTANTS
  Readers,             \* callers of the read methods
  MaxConcurrentReads   \* MAX_CONCURRENT_READS

VARIABLES
  permits,     \* slots of the semaphore that are free
  request,     \* where the call of each reader is
  abandoned    \* reads at work whose call was dropped

reads == <<permits, request, abandoned>>

ReadsInit ==
  /\ permits = MaxConcurrentReads
  /\ request = [r \in Readers |-> "none"]
  /\ abandoned = 0

Ask(r) ==
  /\ request[r] = "none"
  /\ request' = [request EXCEPT ![r] = "queued"]
  /\ UNCHANGED <<permits, abandoned>>

Admit(r) ==
  /\ request[r] = "queued" /\ permits > 0
  /\ request' = [request EXCEPT ![r] = "working"]
  /\ permits' = permits - 1
  /\ UNCHANGED abandoned

\* The work ends, well or not, and its permit goes with it.
Done(r) ==
  /\ request[r] = "working"
  /\ request' = [request EXCEPT ![r] = "none"]
  /\ permits' = permits + 1
  /\ UNCHANGED abandoned

\* Mutant: the permit belongs to the call and goes with it.
DropWithPermit(r) ==
  /\ request[r] # "none"
  /\ request' = [request EXCEPT ![r] = "none"]
  /\ IF request[r] = "working"
     THEN abandoned' = abandoned + 1 /\ permits' = permits + 1
     ELSE UNCHANGED <<permits, abandoned>>

\* The caller is gone: a call that waits leaves the queue, one at work leaves
\* its work behind, which keeps the permit.
Drop(r) ==
  /\ request[r] # "none"
  /\ request' = [request EXCEPT ![r] = "none"]
  /\ abandoned' = IF request[r] = "working" THEN abandoned + 1 ELSE abandoned
  /\ UNCHANGED permits

DoneAbandoned ==
  /\ abandoned > 0
  /\ abandoned' = abandoned - 1
  /\ permits' = permits + 1
  /\ UNCHANGED request

\* xzramd stops, and its next process has every slot.
Lose ==
  /\ permits' = MaxConcurrentReads
  /\ request' = [r \in Readers |-> "none"]
  /\ abandoned' = 0

ReadsNext ==
  \/ DoneAbandoned
  \/ \E r \in Readers : Ask(r) \/ Admit(r) \/ Done(r) \/ Drop(r)

AtWork == Cardinality({r \in Readers : request[r] = "working"}) + abandoned

\* However callers come and go, the reads at work and the free slots are
\* together the slots there are: a flood of reads that disconnect cannot put
\* more of them on the blocking pool, and no slot is ever lost to the others.
SlotsExact == permits \in Nat /\ AtWork + permits = MaxConcurrentReads

=============================================================================
