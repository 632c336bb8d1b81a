------------------------------ MODULE XZramGui ------------------------------
(***************************************************************************)
(* The window of xzram-qt.  It runs the command line in child processes:   *)
(* one privileged operation at a time, behind a dialog nobody can dismiss, *)
(* and batches of read-only queries whose answers fill the pages when the  *)
(* last has come.  A query has a timeout and may fail to start; a          *)
(* privileged operation has no timeout and cannot be cancelled.            *)
(*                                                                         *)
(* What is on a page is abstracted to when it was read: after the last     *)
(* change of it that the window knows of ("new"), before a change that a   *)
(* full refresh follows ("old"), before one after which the window read    *)
(* only this page again ("overtaken"), or not at all (nothing yet, or an   *)
(* error message).                                                         *)
(***************************************************************************)
EXTENDS Naturals, FiniteSets

CONSTANTS
  Operations,    \* privileged operations somebody may start
  Nobody,        \* none of them
  Queries,       \* the queries of a full refresh
  LiveQueries,   \* those the timer repeats
  TabQueries,    \* those it adds while the snapshot page is in front
  OwnQueries,    \* the pages that are read again on their own: staged changes, snapshots
  DaemonCheck    \* systemctl is-active

VARIABLES
  open,          \* the window is open
  busy,          \* the privileged operation it runs
  notice,        \* a message box reports a change and a refresh follows it
  batch,         \* the queries of the refresh under way
  job,           \* the child process of each of its queries
  outstanding,   \* m_outstanding
  fullQueued,    \* m_fullRefreshQueued
  seen,          \* what the answers of the batch have read
  shown          \* what is on the pages

gui == <<open, busy, notice, batch, job, outstanding, fullQueued, seen, shown>>

Jobs == Queries \cup {DaemonCheck}
Nothing == [q \in Queries |-> "nothing"]
NoJob == [j \in Jobs |-> "none"]

-----------------------------------------------------------------------------
(* RefreshRunner.                                                          *)

\* Every job of the batch is launched; the runner holds a count of its own
\* until they all are, which is back to zero by the end of the step.
Launch(queries) ==
  /\ batch' = queries
  /\ job' = [j \in Jobs |-> IF j \in queries \cup {DaemonCheck} THEN "running" ELSE "none"]
  /\ outstanding' = (Cardinality(queries) + 2) - 1
  /\ seen' = Nothing

\* Mutant: a refresh asked for while another runs is skipped, as the timer's is.
SkipRefresh(answers) ==
  IF outstanding > 0 THEN seen' = answers /\ UNCHANGED <<batch, job, outstanding, fullQueued>>
  ELSE Launch(Queries) /\ UNCHANGED fullQueued

\* A full refresh is remembered while another runs, whose answers so far stay.
RequestRefresh(answers) ==
  IF outstanding > 0
  THEN fullQueued' = TRUE /\ seen' = answers /\ UNCHANGED <<batch, job, outstanding>>
  ELSE Launch(Queries) /\ UNCHANGED fullQueued

\* One page is read again, or not, while the window waits.
Reload(q) == \E read \in {"new", "nothing"} : shown' = [shown EXCEPT ![q] = read]

\* The last answer fills the pages of the batch, and the refresh that was
\* remembered follows.
Answered(j, answers) ==
  IF outstanding > 1
  THEN /\ outstanding' = outstanding - 1
       /\ job' = [job EXCEPT ![j] = "none"]
       /\ seen' = answers
       /\ UNCHANGED <<batch, fullQueued, shown>>
  ELSE /\ shown' = [q \in Queries |-> IF q \in batch THEN answers[q] ELSE shown[q]]
       /\ fullQueued' = FALSE
       /\ IF fullQueued THEN Launch(Queries)
          ELSE /\ outstanding' = 0
               /\ job' = [job EXCEPT ![j] = "none"]
               /\ batch' = {} /\ seen' = Nothing

\* The timer skips its turn while a batch is under way.
Tick ==
  /\ open /\ outstanding = 0
  /\ \E more \in {{}, TabQueries} : Launch(LiveQueries \cup more)
  /\ UNCHANGED <<open, busy, notice, fullQueued, shown>>

\* The child reads the machine and prints.
Read(q) ==
  /\ job[q] = "running" /\ seen[q] = "nothing"
  /\ seen' = [seen EXCEPT ![q] = "new"]
  /\ UNCHANGED <<open, busy, notice, batch, job, outstanding, fullQueued, shown>>

\* Mutant: the timeout reports the end of the job, and so does the end.
TimeOutReports(j) ==
  /\ job[j] = "running" /\ outstanding > 1
  /\ job' = [job EXCEPT ![j] = "killed"]
  /\ outstanding' = outstanding - 1
  /\ UNCHANGED <<open, busy, notice, batch, fullQueued, seen, shown>>

\* The timeout kills the child and leaves the report to its end.
TimeOut(j) ==
  /\ job[j] = "running"
  /\ job' = [job EXCEPT ![j] = "killed"]
  /\ UNCHANGED <<open, busy, notice, batch, outstanding, fullQueued, seen, shown>>

\* Mutant: the end of a child that timed out is not reported.
EndUnlessTimedOut(j) ==
  /\ job[j] = "running"
  /\ \/ (j \in Queries => seen[j] # "nothing") /\ Answered(j, seen)
     \/ Answered(j, [q \in Queries |-> IF q = j THEN "nothing" ELSE seen[q]])
  /\ UNCHANGED <<open, busy, notice>>

\* The end of a child: what it read, or an error if it was killed, failed, or
\* could not be started.
End(j) ==
  /\ job[j] # "none"
  /\ \/ /\ job[j] = "running" /\ (j \in Queries => seen[j] # "nothing")
        /\ Answered(j, seen)
     \/ Answered(j, [q \in Queries |-> IF q = j THEN "nothing" ELSE seen[q]])
  /\ UNCHANGED <<open, busy, notice>>

-----------------------------------------------------------------------------
(* Privileged operations.                                                  *)

\* The dialog blocks the window, and so does a message box.
Run(c) ==
  /\ open /\ busy = Nobody /\ ~notice
  /\ busy' = c
  /\ UNCHANGED <<open, notice, batch, job, outstanding, fullQueued, seen, shown>>

Outdated(pages) ==
  [q \in Queries |-> IF pages[q] = "nothing" THEN "nothing" ELSE "old"]

\* What a batch has read of a page before the page was read again on its own.
Overtaken(answers, q) == IF answers[q] = "new" THEN [answers EXCEPT ![q] = "overtaken"] ELSE answers

\* The child is over.  A change of the machine is refreshed after a message box,
\* or at once (swap on and off).  What changes only the snapshots or the staged
\* changes reads that page again and asks for no refresh, and neither does what
\* prepares a directory, which is on no page, nor an error.
Told(c, ok) ==
  /\ busy = c /\ busy' = Nobody
  /\ \/ /\ ok /\ notice' = TRUE /\ seen' = Outdated(seen) /\ shown' = Outdated(shown)
        /\ UNCHANGED <<batch, job, outstanding, fullQueued>>
     \/ /\ ok /\ RequestRefresh(Outdated(seen)) /\ shown' = Outdated(shown)
        /\ UNCHANGED notice
     \/ /\ ok /\ \E q \in OwnQueries : Reload(q) /\ seen' = Overtaken(seen, q)
        /\ UNCHANGED <<notice, batch, job, outstanding, fullQueued>>
     \/ UNCHANGED <<notice, batch, job, outstanding, fullQueued, seen, shown>>
  /\ UNCHANGED open

\* The snapshot page reads itself again before it asks for the refresh.
Dismiss ==
  /\ notice /\ notice' = FALSE
  /\ RequestRefresh(seen)
  /\ UNCHANGED shown \/ \E q \in OwnQueries : Reload(q)
  /\ UNCHANGED <<open, busy>>

Closed ==
  /\ open' = FALSE /\ busy' = Nobody /\ notice' = FALSE /\ batch' = {}
  /\ job' = NoJob /\ outstanding' = 0 /\ fullQueued' = FALSE
  /\ seen' = Nothing /\ shown' = Nothing

\* Mutant: the window closes whatever it runs.
CloseAnyway == open /\ ~notice /\ Closed

\* The window does not close while an operation runs; it kills its queries.
Close == open /\ busy = Nobody /\ ~notice /\ Closed

-----------------------------------------------------------------------------
\* A window that was opened has asked for a full refresh.
GuiInit ==
  /\ busy = Nobody /\ notice = FALSE /\ fullQueued = FALSE
  /\ seen = Nothing /\ shown = Nothing
  /\ \/ /\ open = FALSE /\ batch = {} /\ job = NoJob /\ outstanding = 0
     \/ /\ open = TRUE /\ batch = Queries /\ outstanding = Cardinality(Jobs)
        /\ job = [j \in Jobs |-> "running"]

\* What it does by itself.
GuiNext ==
  \/ Tick \/ Dismiss \/ Close
  \/ \E q \in Queries : Read(q)
  \/ \E j \in Jobs : TimeOut(j) \/ End(j)

-----------------------------------------------------------------------------
\* A batch is over when its last child is, neither before nor never: what is
\* still counted is what still has to answer, whatever times out, fails to
\* start or ends in between.
RefreshEndsOnce == outstanding = Cardinality({j \in Jobs : job[j] # "none"})

\* A window at rest shows nothing that was read before a change it follows with
\* a full refresh, also if the change fell into a refresh that had read half of
\* the machine.  The exceptions are the snapshot list and the banner of the
\* staged changes.  A snapshot that is created, deleted or pruned, and a change
\* that is staged or cleared, reads only that page again, and a refresh under way
\* that had read it before overwrites it with what it was: it stays so, the
\* banner until the timer's next turn, the list until the first turn with its page
\* in front, both if the timer is off.  An operation that failed is followed by no refresh, whatever it did.
ViewFresh ==
  open /\ outstanding = 0 /\ ~notice =>
    \A q \in Queries : shown[q] # "old" /\ (shown[q] = "overtaken" => q \in OwnQueries)

=============================================================================
