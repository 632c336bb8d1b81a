----------------------------- MODULE XZramFront -----------------------------
(***************************************************************************)
(* Everything between a user and the root helper: the requests of          *)
(* XZramRequest, made by people at a terminal or by the window of          *)
(* XZramGui, and xzramd with the reads of XZramReads.  A privileged        *)
(* operation of the window is one client of XZramRequest, and the window   *)
(* reports what that client was told.  A restart of xzramd ends its reads  *)
(* as it ends its calls.                                                   *)
(***************************************************************************)
EXTENDS XZramRequest

CONSTANTS Queries, LiveQueries, TabQueries, OwnQueries, DaemonCheck, Readers, MaxConcurrentReads

ASSUME FrontAssumption ==
  /\ LiveQueries \subseteq Queries /\ TabQueries \subseteq Queries /\ OwnQueries \subseteq Queries
  /\ DaemonCheck \notin Queries /\ IsFiniteSet(Queries)
  /\ IsFiniteSet(Readers)
  /\ MaxConcurrentReads \in Nat \ {0}

VARIABLES open, busy, notice, batch, job, outstanding, fullQueued, seen, shown,
          permits, request, abandoned

Gui == INSTANCE XZramGui WITH Operations <- Clients
Reads == INSTANCE XZramReads

window == <<open, busy, notice, batch, job, outstanding, fullQueued, seen, shown>>
slots == <<permits, request, abandoned>>
front == <<vars, window, slots>>

FrontInit == Init /\ Gui!GuiInit /\ Reads!ReadsInit

\* Somebody at a terminal, the system or a helper does something.
Outside ==
  /\ Resume \/ Terminated \/ \E c \in Clients : Step(c)
  /\ UNCHANGED <<window, slots>>

StopDaemon == Stop /\ Reads!Lose /\ UNCHANGED window

\* The window starts xzram for an operation.
Start(c) == Choose(c) /\ Gui!Run(c) /\ UNCHANGED slots

\* That xzram is over.
Report(c) ==
  /\ client[c] = "done" /\ Gui!Told(c, answer[c] = "ok")
  /\ UNCHANGED <<vars, slots>>

Window == Gui!GuiNext /\ UNCHANGED <<vars, slots>>

Reading == up /\ Reads!ReadsNext /\ UNCHANGED <<vars, window>>

FrontNext ==
  \/ Outside \/ StopDaemon \/ Window \/ Reading
  \/ \E c \in Clients : Start(c) \/ Report(c)

FrontSpec == FrontInit /\ [][FrontNext]_front

-----------------------------------------------------------------------------
(* Fairness.  The command line, xzramd, the helpers and the children of the *)
(* window are processes, which go on while they can: a call that was        *)
(* allowed gets the gate when it is free, the work of a helper ends, the    *)
(* bus reports a reply that cannot come any more, a query ends or its timer *)
(* kills it.  Nobody has to ask for anything, to refuse, to fail, to        *)
(* restart xzramd or to dismiss a message.                                  *)

Alone(A) == A /\ UNCHANGED <<window, slots>>

ClientGoesOn(c) ==
  Alone(Call(c) \/ Pkexec(c) \/ Collect(c) \/ (call[c] = "over" /\ LoseReply(c)))

DaemonGoesOn(c) == Alone((Serve(c) /\ gate' = c) \/ Finish(c))

HelperGoesOn(c) == Alone(Clear(c) \/ Begin(c) \/ Succeed(c) \/ Fail(c) \/ WriteError(c))

QueryGoesOn(j) ==
  (Gui!TimeOut(j) \/ (job[j] = "killed" /\ Gui!End(j))) /\ UNCHANGED <<vars, slots>>

Fairness ==
  /\ \A c \in Clients :
       /\ WF_front(ClientGoesOn(c)) /\ WF_front(DaemonGoesOn(c))
       /\ WF_front(HelperGoesOn(c)) /\ WF_front(Report(c))
  /\ \A j \in Gui!Jobs : WF_front(QueryGoesOn(j))

-----------------------------------------------------------------------------
\* The counts of RefreshRunner and of the read slots, and what a window at
\* rest shows: see the modules.
RefreshEndsOnce == Gui!RefreshEndsOnce
ViewFresh == Gui!ViewFresh
SlotsExact == Reads!SlotsExact

\* What the window waits for it sees through: it never gives up an operation
\* whose xzram still runs, by a timeout, a cancellation or its own end, because
\* that would orphan the helper and leave the outcome unknown.
SeenThrough ==
  [][\A c \in Clients : busy = c /\ busy' # c => client[c] = "done" /\ answer[c] # "none"]_front

\* Whoever asks is answered in the end, though not always with more than that the
\* outcome is unknown: whatever xzramd loses when it stops, whoever is killed, and
\* in whatever order the gate and helper.lock are waited for.
EveryoneIsAnswered == <>[](\A c \in Clients : client[c] \in {"new", "done"})

\* What a page shows is replaced in the end once a change that a full refresh
\* follows has been dismissed: no child that hangs, is killed or fails holds up
\* the refresh, nor does one that was under way already.  Nothing of the kind is
\* said of the pages that are read again on their own: see ViewFresh.
PagesCatchUp ==
  open /\ ~notice /\ (\E q \in Queries : shown[q] = "old")
    ~> ~open \/ notice \/ \A q \in Queries : shown[q] # "old"

=============================================================================
