---------------------------- MODULE XZramRequest ----------------------------
(***************************************************************************)
(* How a privileged operation gets from a client to the root helper and    *)
(* its outcome back.                                                       *)
(*                                                                         *)
(* A client (xzram, or the GUI through it) calls xzramd over D-Bus and     *)
(* falls back to pkexec only when the call cannot have been delivered.     *)
(* xzramd serves one call at a time by launching a helper and waiting for  *)
(* it; it can be restarted at any time, which loses its calls and its      *)
(* answers but not its helpers.  A helper reports a failure in a file: one *)
(* of its own when xzramd launched it, the global last_error otherwise.    *)
(*                                                                         *)
(* What the helper does is in XZramStore and XZramHost; here it succeeds,  *)
(* fails or is killed.                                                     *)
(***************************************************************************)
EXTENDS Naturals, FiniteSets

CONSTANTS
  Clients,      \* each asks for one operation
  Nobody,       \* no client
  MaxRestarts   \* bound on the restarts of xzramd

ASSUME RequestAssumption == Nobody \notin Clients /\ MaxRestarts \in Nat

VARIABLES
  up,          \* xzramd owns its bus name
  restarts,
  gate,        \* the call xzramd is serving
  client,      \* where each client is
  answer,      \* what it was told
  blame,       \* whose error message it was shown
  call,        \* where its D-Bus call is
  helper,      \* where the helper of its operation is
  launcher,    \* who launched it: xzramd or pkexec
  lock,        \* the holder of helper.lock
  runs,        \* how often the operation was begun
  lastError,   \* global last_error: whose message, and for whom it is fresh
  ownError     \* whether the per-run file of a helper has its message

vars == <<up, restarts, gate, client, answer, blame, call, helper, launcher, lock, runs,
          lastError, ownError>>
daemon == <<up, restarts, gate>>
asking == <<client, answer, blame>>
work   == <<helper, launcher, lock, runs>>
errors == <<lastError, ownError>>

NoError == [by |-> Nobody, fresh |-> {}]

Init ==
  /\ up \in BOOLEAN /\ restarts = 0 /\ gate = Nobody
  /\ client = [c \in Clients |-> "new"]
  /\ answer = [c \in Clients |-> "none"]
  /\ blame = [c \in Clients |-> Nobody]
  /\ call = [c \in Clients |-> "none"]
  /\ helper = [c \in Clients |-> "none"]
  /\ launcher = [c \in Clients |-> "none"]
  /\ lock = Nobody
  /\ runs = [c \in Clients |-> 0]
  /\ lastError = NoError
  /\ ownError = [c \in Clients |-> FALSE]

Goto(c, where) == client' = [client EXCEPT ![c] = where]

Tell(c, what, whose) ==
  /\ Goto(c, "done")
  /\ answer' = [answer EXCEPT ![c] = what]
  /\ blame' = [blame EXCEPT ![c] = whose]

-----------------------------------------------------------------------------
(* The client.                                                             *)

\* Compound operations and --no-dbus go to pkexec at once, the others only if
\* nobody owns the bus name.
Choose(c) ==
  /\ client[c] = "new"
  /\ \/ up /\ Goto(c, "call")
     \/ Goto(c, "pkexec")
  /\ UNCHANGED <<daemon, answer, blame, call, work, errors>>

\* The request is delivered, to a daemon the bus activates if it must, or it is
\* not and the client falls back.
Call(c) ==
  /\ client[c] = "call"
  /\ \/ /\ up' = TRUE
        /\ call' = [call EXCEPT ![c] = "queued"]
        /\ Goto(c, "waiting")
     \/ /\ ~up
        /\ Goto(c, "pkexec")
        /\ UNCHANGED <<up, call>>
  /\ UNCHANGED <<restarts, gate, answer, blame, work, errors>>

\* Mutant: a lost reply is taken for an unavailable daemon.
LoseReplyAndRetry(c) ==
  /\ client[c] = "waiting"
  /\ Goto(c, "pkexec")
  /\ UNCHANGED <<daemon, answer, blame, call, work, errors>>

\* No reply, a timeout, a broken connection: the operation may have been done.
LoseReply(c) ==
  /\ client[c] = "waiting"
  /\ Tell(c, "unknown", Nobody)
  /\ UNCHANGED <<daemon, call, work, errors>>

Launch(c, by) ==
  /\ helper' = [helper EXCEPT ![c] = "started"]
  /\ launcher' = [launcher EXCEPT ![c] = by]
  /\ UNCHANGED <<lock, runs>>

\* What is written to last_error from now on is fresh for this client.
Pkexec(c) ==
  /\ client[c] = "pkexec"
  /\ \/ Launch(c, "pkexec") /\ Goto(c, "spawned") /\ UNCHANGED <<answer, blame>>
     \/ Tell(c, "denied", Nobody) /\ UNCHANGED work
  /\ UNCHANGED <<daemon, call, errors>>

\* pkexec is over; of a failure the client shows last_error if it is fresh.
Collect(c) ==
  /\ client[c] = "spawned" /\ helper[c] \in {"ok", "failed", "killed"}
  /\ IF helper[c] = "ok" THEN Tell(c, "ok", Nobody)
     ELSE Tell(c, "error", IF c \in lastError.fresh THEN lastError.by ELSE Nobody)
  /\ UNCHANGED <<daemon, call, work, errors>>

-----------------------------------------------------------------------------
(* xzramd.                                                                 *)

Reply(c, what, whose) ==
  IF client[c] = "waiting" THEN Tell(c, what, whose) ELSE UNCHANGED asking

\* A call that polkit refuses, or whose helper cannot be launched, is answered;
\* any other waits for the gate and launches a helper, its error file gone.
Serve(c) ==
  /\ up /\ call[c] = "queued"
  /\ \/ /\ call' = [call EXCEPT ![c] = "over"]
        /\ Reply(c, "denied", Nobody)
        /\ UNCHANGED <<gate, work, ownError>>
     \/ /\ gate = Nobody /\ gate' = c
        /\ call' = [call EXCEPT ![c] = "served"]
        /\ ownError' = [ownError EXCEPT ![c] = FALSE]
        /\ Launch(c, "xzramd")
        /\ UNCHANGED asking
  /\ UNCHANGED <<up, restarts, lastError>>

\* Mutant: a failure without a message of its own is explained by last_error.
FinishWithLastError(c) ==
  /\ up /\ gate = c /\ helper[c] \in {"ok", "failed", "killed"}
  /\ Reply(c, IF helper[c] = "ok" THEN "ok" ELSE "error",
           IF helper[c] = "ok" THEN Nobody ELSE IF ownError[c] THEN c ELSE lastError.by)
  /\ gate' = Nobody
  /\ call' = [call EXCEPT ![c] = "over"]
  /\ ownError' = [ownError EXCEPT ![c] = FALSE]
  /\ UNCHANGED <<up, restarts, work, lastError>>

\* Mutant: xzramd does not wait for the helper.
FinishEarly(c) ==
  /\ up /\ gate = c /\ helper[c] # "started"
  /\ Reply(c, IF helper[c] \in {"failed", "killed"} THEN "error" ELSE "ok",
           IF ownError[c] THEN c ELSE Nobody)
  /\ gate' = Nobody
  /\ call' = [call EXCEPT ![c] = "over"]
  /\ ownError' = [ownError EXCEPT ![c] = FALSE]
  /\ UNCHANGED <<up, restarts, work, lastError>>

\* Mutant: xzramd waits for a result that a killed helper does not leave.
FinishUnlessKilled(c) ==
  /\ up /\ gate = c /\ helper[c] \in {"ok", "failed"}
  /\ Reply(c, IF helper[c] = "ok" THEN "ok" ELSE "error",
           IF helper[c] # "ok" /\ ownError[c] THEN c ELSE Nobody)
  /\ gate' = Nobody
  /\ call' = [call EXCEPT ![c] = "over"]
  /\ ownError' = [ownError EXCEPT ![c] = FALSE]
  /\ UNCHANGED <<up, restarts, work, lastError>>

\* The helper is over: its error file is read and removed.
Finish(c) ==
  /\ up /\ gate = c /\ helper[c] \in {"ok", "failed", "killed"}
  /\ Reply(c, IF helper[c] = "ok" THEN "ok" ELSE "error",
           IF helper[c] # "ok" /\ ownError[c] THEN c ELSE Nobody)
  /\ gate' = Nobody
  /\ call' = [call EXCEPT ![c] = "over"]
  /\ ownError' = [ownError EXCEPT ![c] = FALSE]
  /\ UNCHANGED <<up, restarts, work, lastError>>

\* xzramd stops: its calls are lost, their clients get no reply.
Stop ==
  /\ up /\ restarts < MaxRestarts
  /\ up' = FALSE /\ restarts' = restarts + 1 /\ gate' = Nobody
  /\ call' = [c \in Clients |-> IF call[c] = "none" THEN "none" ELSE "over"]
  /\ UNCHANGED <<asking, work, errors>>

\* systemd starts it again.
Resume ==
  /\ ~up
  /\ up' = TRUE
  /\ UNCHANGED <<restarts, gate, asking, call, work, errors>>

-----------------------------------------------------------------------------
(* The helper.                                                             *)

\* The sink is cleared before the helper waits for its turn: the file of its own
\* that xzramd gave it, if that can be used, or else the global one.
Clear(c) ==
  /\ helper[c] = "started"
  /\ helper' = [helper EXCEPT ![c] = "cleared"]
  /\ \/ /\ launcher[c] = "xzramd"
        /\ ownError' = [ownError EXCEPT ![c] = FALSE] /\ UNCHANGED lastError
     \/ lastError' = NoError /\ UNCHANGED ownError
  /\ UNCHANGED <<daemon, asking, call, launcher, lock, runs>>

\* Mutant: the helper works without its lock.
BeginUnlocked(c) ==
  /\ helper[c] = "cleared"
  /\ lock' = c
  /\ helper' = [helper EXCEPT ![c] = "working"]
  /\ runs' = [runs EXCEPT ![c] = @ + 1]
  /\ UNCHANGED <<daemon, asking, call, launcher, errors>>

Begin(c) ==
  /\ helper[c] = "cleared" /\ lock = Nobody
  /\ lock' = c
  /\ helper' = [helper EXCEPT ![c] = "working"]
  /\ runs' = [runs EXCEPT ![c] = @ + 1]
  /\ UNCHANGED <<daemon, asking, call, launcher, errors>>

Spawned == {c \in Clients : client[c] = "spawned"}

WriteLastError(c) == lastError' = [by |-> c, fresh |-> Spawned]

Succeed(c) ==
  /\ helper[c] = "working"
  /\ helper' = [helper EXCEPT ![c] = "ok"]
  /\ lock' = Nobody
  /\ UNCHANGED <<daemon, asking, call, launcher, runs, errors>>

\* The run has released helper.lock when its message is written.  The message
\* goes to the global file too when its own cannot be written.
Fail(c) ==
  /\ helper[c] = "working"
  /\ helper' = [helper EXCEPT ![c] = "writing"]
  /\ lock' = Nobody
  /\ UNCHANGED <<daemon, asking, call, launcher, runs, errors>>

WriteError(c) ==
  /\ helper[c] = "writing"
  /\ helper' = [helper EXCEPT ![c] = "failed"]
  /\ \/ /\ launcher[c] = "xzramd"
        /\ ownError' = [ownError EXCEPT ![c] = TRUE] /\ UNCHANGED lastError
     \/ WriteLastError(c) /\ UNCHANGED ownError
  /\ UNCHANGED <<daemon, asking, call, launcher, lock, runs>>

\* Killed by RuntimeMaxSec, by the kernel or by a panic: nothing is written.
Kill(c) ==
  /\ helper[c] \in {"started", "cleared", "working", "writing"}
  /\ helper' = [helper EXCEPT ![c] = "killed"]
  /\ lock' = IF lock = c THEN Nobody ELSE lock
  /\ UNCHANGED <<daemon, asking, call, launcher, runs, errors>>

-----------------------------------------------------------------------------
Over == \A c \in Clients : client[c] = "done" /\ call[c] \in {"none", "over"}
                             /\ helper[c] \in {"none", "ok", "failed", "killed"}

Terminated == Over /\ UNCHANGED vars

Step(c) ==
  \/ Choose(c) \/ Call(c) \/ LoseReply(c) \/ Pkexec(c) \/ Collect(c)
  \/ Serve(c) \/ Finish(c)
  \/ Clear(c) \/ Begin(c) \/ Succeed(c) \/ Fail(c) \/ WriteError(c) \/ Kill(c)

Next == Stop \/ Resume \/ Terminated \/ \E c \in Clients : Step(c)

Spec == Init /\ [][Next]_vars

-----------------------------------------------------------------------------
(* Properties.                                                             *)

\* Every variable keeps its type, and helper.lock belongs to a helper at work.
TypeOK ==
  /\ up \in BOOLEAN /\ restarts \in 0..MaxRestarts
  /\ gate \in Clients \cup {Nobody} /\ lock \in Clients \cup {Nobody}
  /\ \A c \in Clients : (lock = c) <=> (helper[c] = "working")
  /\ \A c \in Clients : gate = c => up /\ call[c] = "served" /\ launcher[c] = "xzramd"
  /\ client \in [Clients -> {"new", "call", "waiting", "pkexec", "spawned", "done"}]
  /\ answer \in [Clients -> {"none", "ok", "error", "denied", "unknown"}]
  /\ blame \in [Clients -> Clients \cup {Nobody}]
  /\ call \in [Clients -> {"none", "queued", "served", "over"}]
  /\ launcher \in [Clients -> {"none", "xzramd", "pkexec"}]
  /\ lastError \in [by: Clients \cup {Nobody}, fresh: SUBSET Clients]
  /\ ownError \in [Clients -> BOOLEAN]

\* An operation is never carried out twice, whatever is lost or restarted: the
\* client falls back only when its call cannot have been delivered.
AtMostOnce == \A c \in Clients : runs[c] <= 1

\* A definite answer is the truth: a client told of success has its operation
\* done, one told of an error or a refusal has not.
AnswersAreTrue ==
  \A c \in Clients :
    /\ answer[c] = "ok" => helper[c] = "ok"
    /\ answer[c] = "error" => helper[c] \in {"failed", "killed"}
    /\ answer[c] = "denied" => helper[c] = "none" /\ call[c] \in {"none", "over"}

\* xzramd never explains a failure with the error of another run.
DaemonBlamesOwnRun ==
  \A c \in Clients : launcher[c] = "xzramd" => blame[c] \in {c, Nobody}

\* What the code says of pkexec as well and does not do: the message shown is
\* the one of the run that failed.
PkexecBlamesOwnRun ==
  \A c \in Clients : launcher[c] = "pkexec" => blame[c] \in {c, Nobody}

=============================================================================
