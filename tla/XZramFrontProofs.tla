-------------------------- MODULE XZramFrontProofs --------------------------
(***************************************************************************)
(* Proofs about XZramFront, for any number of clients, restarts, queries   *)
(* and readers.                                                            *)
(***************************************************************************)
EXTENDS XZramFront, XZramRequestProofs, FiniteSetTheorems

-----------------------------------------------------------------------------
(* The requests are those of XZramRequest.                                 *)

LEMMA FrontStepIsRequestStep == [FrontNext]_front => [Next]_vars
<1> SUFFICES ASSUME [FrontNext]_front
             PROVE  [Next]_vars
  OBVIOUS
<1>1. CASE UNCHANGED front
  BY <1>1 DEF front
<1>2. CASE Outside
  BY <1>2 DEF Outside, Next
<1>3. CASE StopDaemon
  BY <1>3 DEF StopDaemon, Next
<1>4. CASE Window
  BY <1>4 DEF Window
<1>5. CASE Reading
  BY <1>5 DEF Reading
<1>6. ASSUME NEW c \in Clients, Start(c)
      PROVE  Next
  BY <1>6 DEF Start, Next, Step
<1>7. ASSUME NEW c \in Clients, Report(c)
      PROVE  UNCHANGED vars
  BY <1>7 DEF Report
<1> QED BY <1>1, <1>2, <1>3, <1>4, <1>5, <1>6, <1>7 DEF FrontNext

\* Whatever the window and the readers do, the requests behave as XZramRequest
\* says, so everything proved of it holds of the composition.
THEOREM FrontIsRequest == FrontSpec => Spec
<1>1. FrontInit => Init
  BY DEF FrontInit
<1> QED BY <1>1, FrontStepIsRequestStep, PTL DEF FrontSpec, Spec

\* With a window and readers as well, no operation is carried out twice, no
\* definite answer is wrong and xzramd blames no other run.
THEOREM FrontOperationsRunOnce == FrontSpec => []AtMostOnce
BY FrontIsRequest, OperationsRunOnce, PTL

\* What a user is told, in the window or at a terminal, is the truth, and xzramd
\* reports no error of another run (privileged.rs, error_sink.rs).
THEOREM FrontAnswersHold == FrontSpec => [](AnswersAreTrue /\ DaemonBlamesOwnRun)
BY FrontIsRequest, DefiniteAnswersHold, DaemonErrorsAreOwn, PTL

-----------------------------------------------------------------------------
(* The modules that are instantiated count with the same operator.         *)

LEMMA ReadsCardinality == ASSUME NEW S PROVE Reads!Cardinality(S) = Cardinality(S)
BY DEF Reads!Cardinality, Cardinality

LEMMA GuiCardinality == ASSUME NEW S PROVE Gui!Cardinality(S) = Cardinality(S)
BY DEF Gui!Cardinality, Cardinality

-----------------------------------------------------------------------------
(* The read slots.                                                         *)

Working == {r \in Readers : request[r] = "working"}

SlotInv ==
  /\ request \in [Readers -> {"none", "queued", "working"}]
  /\ permits \in Nat /\ abandoned \in Nat
  /\ Cardinality(Working) + abandoned + permits = MaxConcurrentReads

LEMMA WorkingFinite == IsFiniteSet(Working) /\ Cardinality(Working) \in Nat
BY FrontAssumption, FS_Subset, FS_CardinalityType DEF Working

\* A reader that stops working leaves one working reader fewer.
LEMMA OneFewer ==
  ASSUME NEW r \in Readers, request[r] = "working",
         request \in [Readers -> {"none", "queued", "working"}],
         request' = [request EXCEPT ![r] = "none"]
  PROVE  Cardinality(Working') = Cardinality(Working) - 1
<1>1. Working' = Working \ {r}
  BY DEF Working
<1>2. r \in Working
  BY DEF Working
<1> QED BY <1>1, <1>2, WorkingFinite, FS_RemoveElement

LEMMA SlotInit == FrontInit => SlotInv
<1> SUFFICES ASSUME FrontInit
             PROVE  SlotInv
  OBVIOUS
<1>1. Working = {}
  BY DEF FrontInit, Reads!ReadsInit, Working
<1> QED BY <1>1, FS_EmptySet, FrontAssumption DEF FrontInit, Reads!ReadsInit, SlotInv

LEMMA SlotReads ==
  ASSUME SlotInv, Reads!ReadsNext
  PROVE  SlotInv'
<1> USE WorkingFinite DEF SlotInv
<1>1. CASE Reads!DoneAbandoned
  <2>1. Working' = Working
    BY <1>1 DEF Reads!DoneAbandoned, Working
  <2> QED BY <1>1, <2>1 DEF Reads!DoneAbandoned
<1>2. ASSUME NEW r \in Readers, Reads!Ask(r)
      PROVE  SlotInv'
  <2>1. Working' = Working
    BY <1>2 DEF Reads!Ask, Working
  <2> QED BY <1>2, <2>1 DEF Reads!Ask
<1>3. ASSUME NEW r \in Readers, Reads!Admit(r)
      PROVE  SlotInv'
  <2>1. Working' = Working \cup {r} /\ r \notin Working
    BY <1>3 DEF Reads!Admit, Working
  <2>2. Cardinality(Working') = Cardinality(Working) + 1
    BY <2>1, FS_AddElement
  <2> QED BY <1>3, <2>2 DEF Reads!Admit
<1>4. ASSUME NEW r \in Readers, Reads!Done(r)
      PROVE  SlotInv'
  <2>1. Cardinality(Working') = Cardinality(Working) - 1
    BY <1>4, OneFewer DEF Reads!Done
  <2> QED BY <1>4, <2>1 DEF Reads!Done
<1>5. ASSUME NEW r \in Readers, Reads!Drop(r)
      PROVE  SlotInv'
  <2>1. CASE request[r] = "working"
    <3>1. Cardinality(Working') = Cardinality(Working) - 1
      BY <1>5, <2>1, OneFewer DEF Reads!Drop
    <3> QED BY <1>5, <2>1, <3>1 DEF Reads!Drop
  <2>2. CASE request[r] # "working"
    <3>1. Working' = Working
      BY <1>5, <2>2 DEF Reads!Drop, Working
    <3> QED BY <1>5, <2>2, <3>1 DEF Reads!Drop
  <2> QED BY <2>1, <2>2
<1> QED BY <1>1, <1>2, <1>3, <1>4, <1>5 DEF Reads!ReadsNext

LEMMA SlotStep == SlotInv /\ [FrontNext]_front => SlotInv'
<1> SUFFICES ASSUME SlotInv, [FrontNext]_front
             PROVE  SlotInv'
  OBVIOUS
<1>1. CASE UNCHANGED slots
  BY <1>1 DEF slots, SlotInv, Working
<1>2. CASE Reading
  BY <1>2, SlotReads DEF Reading
<1>3. CASE StopDaemon
  <2>1. Working' = {}
    BY <1>3 DEF StopDaemon, Reads!Lose, Working
  <2> QED BY <1>3, <2>1, FS_EmptySet, FrontAssumption DEF StopDaemon, Reads!Lose, SlotInv
<1>4. UNCHANGED slots \/ Reading \/ StopDaemon
  BY DEF FrontNext, front, Outside, Window, Start, Report
<1> QED BY <1>1, <1>2, <1>3, <1>4

\* Reads at work and free slots are always the slots there are, for any number
\* of readers and slots: dropped calls can neither exceed the bound nor leak a
\* slot (dbus/reads.rs).
THEOREM SlotsNeverLeak == FrontSpec => []SlotsExact
<1>1. SlotInv => SlotsExact
  BY ReadsCardinality DEF SlotInv, SlotsExact, Reads!SlotsExact, Reads!AtWork, Working
<1> QED BY SlotInit, SlotStep, <1>1, PTL DEF FrontSpec

-----------------------------------------------------------------------------
(* The refreshes of the window.                                            *)

JobStates == {"none", "running", "killed"}
Unanswered == {j \in Gui!Jobs : job[j] # "none"}

\* What is counted is what has still to answer.
CountInv ==
  /\ job \in [Gui!Jobs -> JobStates]
  /\ outstanding = Cardinality(Unanswered)

LEMMA JobsFinite ==
  /\ IsFiniteSet(Gui!Jobs) /\ IsFiniteSet(Unanswered)
  /\ Cardinality(Unanswered) \in Nat
<1>1. IsFiniteSet(Gui!Jobs)
  BY FrontAssumption, FS_AddElement DEF Gui!Jobs
<1> QED BY <1>1, FS_Subset, FS_CardinalityType DEF Unanswered

\* A batch is launched with one job for each query and one for the daemon, and
\* counted as such.
LEMMA LaunchCounts ==
  ASSUME NEW queries, queries \subseteq Queries, Gui!Launch(queries)
  PROVE  CountInv' /\ outstanding' > 0
<1>1. Unanswered' = queries \cup {DaemonCheck}
  BY DEF Unanswered, Gui!Launch, Gui!Jobs
<1>2. IsFiniteSet(queries) /\ Cardinality(queries) \in Nat /\ DaemonCheck \notin queries
  BY FrontAssumption, FS_Subset, FS_CardinalityType
<1>3. Cardinality(queries \cup {DaemonCheck}) = Cardinality(queries) + 1
  BY <1>2, FS_AddElement
<1>4. outstanding' = Cardinality(queries) + 1
  BY <1>2, GuiCardinality DEF Gui!Launch
<1>5. job' \in [Gui!Jobs -> JobStates]
  BY DEF Gui!Launch, JobStates
<1> QED BY <1>1, <1>2, <1>3, <1>4, <1>5 DEF CountInv

LEMMA RequestCounts ==
  ASSUME CountInv, NEW answers, Gui!RequestRefresh(answers)
  PROVE  CountInv'
<1>1. CASE UNCHANGED <<job, outstanding>>
  BY <1>1 DEF CountInv, Unanswered
<1>2. CASE Gui!Launch(Queries)
  BY <1>2, LaunchCounts
<1> QED BY <1>1, <1>2 DEF Gui!RequestRefresh

LEMMA AnswerCounts ==
  ASSUME CountInv, NEW j \in Gui!Jobs, job[j] # "none", NEW answers, Gui!Answered(j, answers)
  PROVE  CountInv'
<1> USE DEF CountInv
<1>1. CASE job' = [job EXCEPT ![j] = "none"]
  <2>1. Unanswered' = Unanswered \ {j} /\ j \in Unanswered
    BY <1>1 DEF Unanswered
  <2>2. Cardinality(Unanswered') = Cardinality(Unanswered) - 1
    BY <2>1, JobsFinite, FS_RemoveElement
  <2>3. Cardinality(Unanswered) = Cardinality(Unanswered') + 1 /\ Cardinality(Unanswered') \in Nat
    BY <2>1, <2>2, JobsFinite, FS_Subset, FS_CardinalityType
  <2>4. job' \in [Gui!Jobs -> JobStates]
    BY <1>1 DEF JobStates
  <2>5. CASE outstanding' = outstanding - 1
    BY <2>2, <2>4, <2>5
  <2>6. CASE ~ (outstanding > 1) /\ outstanding' = 0
    BY <2>3, <2>4, <2>6
  <2>7. CASE Gui!Launch(Queries)
    BY <2>7, LaunchCounts
  <2> QED BY <2>5, <2>6, <2>7 DEF Gui!Answered
<1>2. CASE job' # [job EXCEPT ![j] = "none"]
  BY <1>2, LaunchCounts DEF Gui!Answered
<1> QED BY <1>1, <1>2

LEMMA CountInit == FrontInit => CountInv
<1> SUFFICES ASSUME FrontInit
             PROVE  CountInv
  OBVIOUS
<1>1. CASE outstanding = 0 /\ job = Gui!NoJob
  <2>1. Unanswered = {}
    BY <1>1 DEF Unanswered, Gui!NoJob
  <2> QED BY <1>1, <2>1, FS_EmptySet DEF CountInv, Gui!NoJob, JobStates
<1>2. CASE /\ outstanding = Gui!Cardinality(Gui!Jobs)
           /\ job = [j \in Gui!Jobs |-> "running"]
  <2>1. Unanswered = Gui!Jobs
    BY <1>2 DEF Unanswered
  <2> QED BY <1>2, <2>1, GuiCardinality DEF CountInv, JobStates
<1> QED BY <1>1, <1>2 DEF FrontInit, Gui!GuiInit

LEMMA CountStep == CountInv /\ [FrontNext]_front => CountInv'
<1> SUFFICES ASSUME CountInv, [FrontNext]_front
             PROVE  CountInv'
  OBVIOUS
<1>1. CASE UNCHANGED <<job, outstanding>>
  BY <1>1 DEF CountInv, Unanswered
<1>2. CASE Gui!Tick
  <2>1. PICK more \in {{}, TabQueries} : Gui!Launch(LiveQueries \cup more)
    BY <1>2 DEF Gui!Tick
  <2> QED BY <2>1, LaunchCounts, FrontAssumption
<1>3. CASE Gui!Dismiss
  BY <1>3, RequestCounts DEF Gui!Dismiss
<1>4. CASE Gui!Close
  <2>1. Unanswered' = {}
    BY <1>4 DEF Gui!Close, Gui!Closed, Gui!NoJob, Unanswered
  <2> QED BY <1>4, <2>1, FS_EmptySet DEF Gui!Close, Gui!Closed, Gui!NoJob, CountInv, JobStates
<1>5. ASSUME NEW j \in Gui!Jobs, Gui!TimeOut(j)
      PROVE  CountInv'
  <2>1. Unanswered' = Unanswered
    BY <1>5 DEF Gui!TimeOut, Unanswered, CountInv
  <2> QED BY <1>5, <2>1 DEF Gui!TimeOut, CountInv, JobStates
<1>6. ASSUME NEW j \in Gui!Jobs, Gui!End(j)
      PROVE  CountInv'
  BY <1>6, AnswerCounts DEF Gui!End
<1>7. ASSUME NEW q \in Queries, Gui!Read(q)
      PROVE  CountInv'
  BY <1>1, <1>7 DEF Gui!Read
<1>8. ASSUME NEW c \in Clients, Report(c)
      PROVE  CountInv'
  BY <1>1, <1>8, RequestCounts DEF Report, Gui!Told
<1>9. CASE Window
  BY <1>2, <1>3, <1>4, <1>5, <1>6, <1>7, <1>9 DEF Window, Gui!GuiNext
<1>10. CASE ~ Window /\ ~ \E c \in Clients : Report(c)
  BY <1>1, <1>10 DEF FrontNext, front, window, Outside, StopDaemon, Reading, Start, Gui!Run
<1> QED BY <1>8, <1>9, <1>10

\* A batch ends with its last answer and not before, for any set of queries:
\* the count of RefreshRunner is the number of jobs still to answer, whatever
\* times out, fails or ends (refreshrunner.cpp, clijob.cpp).
THEOREM RefreshesEndOnce == FrontSpec => []RefreshEndsOnce
<1>1. CountInv => RefreshEndsOnce
  BY GuiCardinality DEF CountInv, RefreshEndsOnce, Gui!RefreshEndsOnce, Unanswered
<1> QED BY CountInit, CountStep, <1>1, PTL DEF FrontSpec

-----------------------------------------------------------------------------
(* What the window shows.                                                  *)

Ages == {"nothing", "old", "overtaken", "new"}

\* Only what is read again on its own is overtaken by that.
OwnOvertaken(pages) == \A q \in Queries : pages[q] = "overtaken" => q \in OwnQueries

\* Between a change that was reported and the refresh that follows it there is
\* a message box or a remembered refresh; after them, a full refresh is under
\* way that began since and none of whose answers is old.
FreshInv ==
  /\ seen \in [Queries -> Ages] /\ OwnOvertaken(seen)
  /\ shown \in [Queries -> Ages] /\ OwnOvertaken(shown)
  /\ outstanding \in Nat
  /\ fullQueued \in BOOLEAN
  /\ fullQueued => outstanding > 0
  /\ ~ notice /\ ~ fullQueued =>
       /\ \A q \in Queries : seen[q] # "old"
       /\ (\E q \in Queries : shown[q] = "old") => outstanding > 0 /\ batch = Queries

LEMMA CountIsPositive ==
  ASSUME CountInv
  PROVE  /\ outstanding \in Nat
         /\ \A j \in Gui!Jobs : job[j] # "none" => outstanding > 0
<1>1. ASSUME NEW j \in Gui!Jobs, job[j] # "none"
      PROVE  Cardinality(Unanswered) # 0
  <2>1. j \in Unanswered
    BY <1>1 DEF Unanswered
  <2> QED BY <2>1, JobsFinite, FS_EmptySet
<1> QED BY <1>1, JobsFinite DEF CountInv

LEMMA FreshLaunch ==
  ASSUME NEW queries, queries \subseteq Queries, Gui!Launch(queries)
  PROVE  /\ outstanding' \in Nat /\ outstanding' > 0
         /\ seen' \in [Queries -> Ages]
         /\ \A q \in Queries : seen'[q] = "nothing"
         /\ batch' = queries
<1>1. CountInv' /\ outstanding' > 0
  BY LaunchCounts
<1>2. outstanding' \in Nat
  BY <1>1, CountIsPositive DEF Gui!Launch, CountInv, Unanswered
<1> QED BY <1>1, <1>2 DEF Gui!Launch, Gui!Nothing, Ages

\* A full refresh that was asked for begins or is remembered, so that whatever is
\* shown until then and has been read until then may be old.
LEMMA FreshRequest ==
  ASSUME FreshInv, NEW answers \in [Queries -> Ages], OwnOvertaken(answers),
         Gui!RequestRefresh(answers), shown' \in [Queries -> Ages], OwnOvertaken(shown')
  PROVE  FreshInv'
<1>1. CASE outstanding > 0
  BY <1>1 DEF Gui!RequestRefresh, FreshInv, OwnOvertaken
<1>2. CASE ~ (outstanding > 0)
  <2>1. Gui!Launch(Queries) /\ UNCHANGED fullQueued
    BY <1>2 DEF Gui!RequestRefresh
  <2> QED BY <2>1, FreshLaunch DEF FreshInv, OwnOvertaken
<1> QED BY <1>1, <1>2

\* A page that is read again is not old afterwards, and the others stay.
LEMMA FreshReload ==
  ASSUME FreshInv, NEW p \in OwnQueries, Gui!Reload(p)
  PROVE  /\ shown' \in [Queries -> Ages] /\ OwnOvertaken(shown')
         /\ \A q \in Queries : shown'[q] = "old" => shown[q] = "old"
<1>1. PICK read \in {"new", "nothing"} : shown' = [shown EXCEPT ![p] = read]
  BY DEF Gui!Reload
<1> QED BY <1>1, FrontAssumption DEF FreshInv, OwnOvertaken, Ages

\* What was reported as outdated is old wherever something is shown or was read.
LEMMA OutdatedAges ==
  ASSUME NEW pages
  PROVE  Gui!Outdated(pages) \in [Queries -> Ages] /\ OwnOvertaken(Gui!Outdated(pages))
BY DEF Gui!Outdated, Ages, OwnOvertaken

LEMMA FreshAnswer ==
  ASSUME FreshInv, CountInv, NEW j \in Gui!Jobs, job[j] # "none",
         NEW answers \in [Queries -> Ages],
         \A q \in Queries : answers[q] \in {seen[q], "nothing"},
         Gui!Answered(j, answers), UNCHANGED notice
  PROVE  FreshInv'
<1> USE DEF FreshInv, OwnOvertaken
<1>0. outstanding \in Nat /\ outstanding > 0
  BY CountIsPositive
<1>1. CASE outstanding > 1
  BY <1>0, <1>1 DEF Gui!Answered
<1>2. CASE ~ (outstanding > 1) /\ fullQueued
  <2>1. /\ Gui!Launch(Queries) /\ fullQueued' = FALSE
        /\ shown' = [q \in Queries |-> IF q \in batch THEN answers[q] ELSE shown[q]]
    BY <1>2 DEF Gui!Answered
  <2>2. shown' \in [Queries -> Ages] /\ OwnOvertaken(shown')
    BY <2>1
  <2> QED BY <2>1, <2>2, FreshLaunch
<1>3. CASE ~ (outstanding > 1) /\ ~ fullQueued
  <2>1. /\ outstanding' = 0 /\ seen' = Gui!Nothing /\ fullQueued' = FALSE
        /\ shown' = [q \in Queries |-> IF q \in batch THEN answers[q] ELSE shown[q]]
    BY <1>3 DEF Gui!Answered
  <2>2. /\ shown' \in [Queries -> Ages] /\ OwnOvertaken(shown')
        /\ seen' \in [Queries -> Ages] /\ OwnOvertaken(seen')
    BY <2>1 DEF Gui!Nothing, Ages
  <2>3. ASSUME ~ notice'
        PROVE  \A q \in Queries : shown'[q] # "old" /\ seen'[q] # "old"
    BY <1>3, <2>1, <2>3 DEF Gui!Nothing
  <2> QED BY <2>1, <2>2, <2>3
<1> QED BY <1>1, <1>2, <1>3

LEMMA FreshInit == FrontInit => FreshInv
<1> SUFFICES ASSUME FrontInit
             PROVE  FreshInv
  OBVIOUS
<1>1. outstanding \in Nat
  BY CountInit, CountIsPositive
<1> QED BY <1>1 DEF FrontInit, Gui!GuiInit, Gui!Nothing, FreshInv, OwnOvertaken, Ages

LEMMA FreshStep == CountInv /\ FreshInv /\ [FrontNext]_front => FreshInv'
<1> SUFFICES ASSUME CountInv, FreshInv, [FrontNext]_front
             PROVE  FreshInv'
  OBVIOUS
<1>1. CASE UNCHANGED <<notice, batch, outstanding, fullQueued, seen, shown>>
  BY <1>1 DEF FreshInv, OwnOvertaken
<1>2. CASE Gui!Tick
  <2>1. PICK more \in {{}, TabQueries} : Gui!Launch(LiveQueries \cup more)
    BY <1>2 DEF Gui!Tick
  <2>2. LiveQueries \cup more \subseteq Queries
    BY FrontAssumption
  <2>3. outstanding = 0 /\ UNCHANGED <<notice, fullQueued, shown>>
    BY <1>2 DEF Gui!Tick
  <2>4. ~ notice => \A q \in Queries : shown[q] # "old"
    BY <2>3 DEF FreshInv
  <2> QED BY <2>1, <2>2, <2>3, <2>4, FreshLaunch DEF FreshInv, OwnOvertaken
<1>3. CASE Gui!Dismiss
  <2>1. shown' \in [Queries -> Ages] /\ OwnOvertaken(shown')
    BY <1>3, FreshReload DEF Gui!Dismiss, FreshInv, OwnOvertaken
  <2> QED BY <1>3, <2>1, FreshRequest DEF Gui!Dismiss, FreshInv
<1>4. CASE Gui!Close
  BY <1>4 DEF Gui!Close, Gui!Closed, Gui!Nothing, FreshInv, OwnOvertaken, Ages
<1>5. ASSUME NEW j \in Gui!Jobs, Gui!TimeOut(j)
      PROVE  FreshInv'
  BY <1>1, <1>5 DEF Gui!TimeOut
<1>6. ASSUME NEW j \in Gui!Jobs, Gui!End(j)
      PROVE  FreshInv'
  <2> DEFINE cleared == [q \in Queries |-> IF q = j THEN "nothing" ELSE seen[q]]
  <2>1. CASE Gui!Answered(j, seen)
    BY <1>6, <2>1, FreshAnswer DEF Gui!End, FreshInv
  <2>2. CASE Gui!Answered(j, cleared)
    <3>1. cleared \in [Queries -> Ages] /\ \A q \in Queries : cleared[q] \in {seen[q], "nothing"}
      BY DEF FreshInv, Ages
    <3>2. job[j] # "none" /\ UNCHANGED notice
      BY <1>6 DEF Gui!End
    <3> HIDE DEF cleared
    <3> QED BY <2>2, <3>1, <3>2, FreshAnswer
  <2> QED BY <1>6, <2>1, <2>2 DEF Gui!End
<1>7. ASSUME NEW q \in Queries, Gui!Read(q)
      PROVE  FreshInv'
  BY <1>7 DEF Gui!Read, FreshInv, OwnOvertaken, Ages
<1>8. ASSUME NEW c \in Clients, Report(c)
      PROVE  FreshInv'
  <2>1. CASE UNCHANGED <<notice, batch, outstanding, fullQueued, seen, shown>>
    BY <1>1, <2>1
  <2>2. CASE /\ notice' = TRUE /\ seen' = Gui!Outdated(seen) /\ shown' = Gui!Outdated(shown)
             /\ UNCHANGED <<batch, outstanding, fullQueued>>
    BY <2>2, OutdatedAges DEF FreshInv, OwnOvertaken
  <2>3. CASE Gui!RequestRefresh(Gui!Outdated(seen)) /\ shown' = Gui!Outdated(shown)
    BY <2>3, OutdatedAges, FreshRequest
  <2>4. ASSUME NEW p \in OwnQueries, Gui!Reload(p), seen' = Gui!Overtaken(seen, p),
               UNCHANGED <<notice, batch, outstanding, fullQueued>>
        PROVE  FreshInv'
    <3>1. /\ seen' \in [Queries -> Ages] /\ OwnOvertaken(seen')
          /\ \A q \in Queries : seen'[q] = "old" => seen[q] = "old"
      BY <2>4 DEF Gui!Overtaken, FreshInv, OwnOvertaken, Ages
    <3> QED BY <2>4, <3>1, FreshReload DEF FreshInv, OwnOvertaken
  <2> QED BY <1>8, <2>1, <2>2, <2>3, <2>4 DEF Report, Gui!Told
<1>9. CASE Window
  BY <1>2, <1>3, <1>4, <1>5, <1>6, <1>7, <1>9 DEF Window, Gui!GuiNext
<1>10. CASE ~ Window /\ ~ \E c \in Clients : Report(c)
  BY <1>1, <1>10 DEF FrontNext, front, window, Outside, StopDaemon, Reading, Start, Gui!Run
<1> QED BY <1>8, <1>9, <1>10

\* For any queries and any number of operations, a window at rest shows nothing
\* that was read before a change it follows with a full refresh, and nothing that
\* was overtaken by a page read again on its own, but for the pages for which the
\* code does that: the snapshot list and the banner (mainwindow_refresh.cpp).
THEOREM ViewsStayFresh == FrontSpec => []ViewFresh
<1>1. FreshInv => ViewFresh
  BY DEF FreshInv, OwnOvertaken, ViewFresh, Gui!ViewFresh
<1> QED BY CountInit, CountStep, FreshInit, FreshStep, <1>1, PTL DEF FrontSpec

-----------------------------------------------------------------------------
(* What the window waits for.                                              *)

\* A client that is through has been told something.
Heard == \A c \in Clients : client[c] = "done" => answer[c] # "none"

LEMMA HeardStep == TypeOK /\ Heard /\ [Next]_vars => Heard'
<1> SUFFICES ASSUME TypeOK, Heard, [Next]_vars
             PROVE  Heard'
  OBVIOUS
<1> USE DEF Heard
<1>1. CASE UNCHANGED <<client, answer>>
  BY <1>1
<1>2. ASSUME NEW c \in Clients, NEW where, where # "done", Goto(c, where), UNCHANGED answer
      PROVE  Heard'
  BY <1>2 DEF Goto, TypeOK
<1>3. ASSUME NEW c \in Clients, NEW what, NEW whose, what # "none", Tell(c, what, whose)
      PROVE  Heard'
  BY <1>3 DEF Tell, Goto, TypeOK
<1>4. ASSUME NEW c \in Clients, NEW what, NEW whose, what # "none", Reply(c, what, whose)
      PROVE  Heard'
  BY <1>1, <1>3, <1>4 DEF Reply, asking
<1>5. ASSUME NEW c \in Clients, Choose(c) \/ Call(c) \/ LoseReply(c) \/ Pkexec(c) \/ Collect(c)
      PROVE  Heard'
  BY <1>2, <1>3, <1>5 DEF Choose, Call, LoseReply, Pkexec, Collect
<1>6. ASSUME NEW c \in Clients, Serve(c) \/ Finish(c)
      PROVE  Heard'
  BY <1>1, <1>4, <1>6 DEF Serve, Finish, asking
<1>7. ASSUME NEW c \in Clients,
             Clear(c) \/ Begin(c) \/ Succeed(c) \/ Fail(c) \/ WriteError(c) \/ Kill(c)
      PROVE  Heard'
  BY <1>1, <1>7 DEF Clear, Begin, Succeed, Fail, WriteError, Kill, asking
<1>8. CASE Stop \/ Resume \/ Terminated \/ UNCHANGED vars
  BY <1>1, <1>8 DEF Stop, Resume, Terminated, vars, asking
<1> QED BY <1>5, <1>6, <1>7, <1>8 DEF Next, Step

LEMMA SeenThroughStep ==
  ASSUME Heard, [FrontNext]_front, NEW c \in Clients, busy = c, busy' # c
  PROVE  client[c] = "done" /\ answer[c] # "none"
<1>1. CASE Report(c)
  BY <1>1 DEF Report, Heard
<1>2. CASE ~ Report(c)
  BY <1>2, RequestAssumption DEF FrontNext, front, window, Outside, StopDaemon, Window, Reading,
     Start, Report, Gui!GuiNext, Gui!Run, Gui!Told, Gui!Tick, Gui!Dismiss, Gui!Close, Gui!Read,
     Gui!TimeOut, Gui!End
<1> QED BY <1>1, <1>2

\* The window never gives up an operation whose xzram still runs, however many
\* there are (privilegedjob.h, MainWindow::closeEvent).
THEOREM OperationsSeenThrough == FrontSpec => SeenThrough
<1>1. Init => Heard
  BY DEF Init, Heard
<1>2. FrontSpec => []Heard
  <2>1. Spec => []Heard
    BY <1>1, HeardStep, RequestTypeCorrect, PTL DEF Spec
  <2> QED BY <2>1, FrontIsRequest, PTL
<1>3. Heard /\ [FrontNext]_front =>
        [\A c \in Clients : busy = c /\ busy' # c => client[c] = "done" /\ answer[c] # "none"]_front
  BY SeenThroughStep
<1> QED BY <1>2, <1>3, PTL DEF FrontSpec, SeenThrough

=============================================================================
