------------------------- MODULE XZramRequestProofs -------------------------
(***************************************************************************)
(* Proofs about XZramRequest, for any number of clients and restarts.      *)
(***************************************************************************)
EXTENDS XZramRequest, TLAPS

HelperStates == {"none", "started", "cleared", "working", "writing", "ok", "failed", "killed"}

\* The types TypeOK leaves out.
HelperType == helper \in [Clients -> HelperStates] /\ runs \in [Clients -> Nat]

\* Where a request is tells what can have happened to it so far.
\* A client that still has a choice has asked nobody ...
Undecided(c) ==
  client[c] \in {"new", "call", "pkexec"} => call[c] = "none" /\ helper[c] = "none"
\* ... one that has called never goes to pkexec, nor the other way round ...
OneWay(c) ==
  /\ call[c] # "none" => client[c] \in {"waiting", "done"}
  /\ client[c] = "spawned" => call[c] = "none" /\ launcher[c] = "pkexec"
\* ... and a call in the queue has no helper yet.
Unlaunched(c) == call[c] = "queued" => helper[c] = "none"

\* A helper begins its operation once, and not before it holds the lock.
Counted(c) ==
  /\ runs[c] <= 1
  /\ helper[c] \in {"none", "started", "cleared"} => runs[c] = 0

\* What was answered stays true, and nobody is blamed for what has not run.
Answered(c) ==
  /\ answer[c] # "none" => client[c] = "done"
  /\ answer[c] = "ok" => helper[c] = "ok"
  /\ answer[c] = "error" => helper[c] \in {"failed", "killed"}
  /\ answer[c] = "denied" => helper[c] = "none" /\ call[c] \in {"none", "over"}
  /\ helper[c] = "none" => blame[c] = Nobody
  /\ launcher[c] = "xzramd" => blame[c] \in {c, Nobody}

Track(c) == Undecided(c) /\ OneWay(c) /\ Unlaunched(c) /\ Counted(c) /\ Answered(c)

IInv == TypeOK /\ HelperType /\ \A c \in Clients : Track(c)

LEMMA InitIInv == Init => IInv
BY RequestAssumption DEF Init, IInv, TypeOK, HelperType, HelperStates, Track, Undecided, OneWay,
   Unlaunched, Counted, Answered, NoError

-----------------------------------------------------------------------------
(* The steps of a client, of xzramd and of a helper.                       *)

LEMMA ChooseStep ==
  ASSUME IInv, NEW c \in Clients, Choose(c)
  PROVE  IInv'
<1> USE DEF IInv
<1>0. Track(c)
  OBVIOUS
<1>1. TypeOK' /\ HelperType'
  BY <1>0, RequestAssumption DEF TypeOK, HelperType, HelperStates, Track, Undecided,
     OneWay, Unlaunched, Choose, Goto, daemon, asking, work, errors
<1>2. ASSUME NEW x \in Clients
      PROVE  Track(x)'
  BY <1>0, <1>2, Track(x) DEF TypeOK, HelperType, HelperStates, Track, Undecided,
     OneWay, Unlaunched, Counted, Answered, Choose, Goto, daemon, asking, work, errors
<1> QED BY <1>1, <1>2

LEMMA CallStep ==
  ASSUME IInv, NEW c \in Clients, Call(c)
  PROVE  IInv'
<1> USE DEF IInv
<1>0. Track(c)
  OBVIOUS
<1>1. TypeOK' /\ HelperType'
  <2>1. lastError' \in [by: Clients \cup {Nobody}, fresh: SUBSET Clients]
    BY DEF TypeOK, Call, Goto, daemon, asking, work, errors
  <2>2. \A d \in Clients : (lock' = d) <=> (helper'[d] = "working")
    BY <1>0 DEF TypeOK, HelperType, Track, Undecided, Unlaunched, Call, Goto, daemon,
       asking, work, errors
  <2>3. \A d \in Clients :
          gate' = d => up' /\ call'[d] = "served" /\ launcher'[d] = "xzramd"
    BY <1>0, RequestAssumption DEF TypeOK, Track, Undecided, OneWay, Call, Goto, daemon,
       asking, work, errors
  <2>4. HelperType'
    BY DEF TypeOK, HelperType, HelperStates, Call, Goto, daemon, asking, work, errors
  <2>5. /\ up' \in BOOLEAN /\ restarts' \in 0..MaxRestarts
        /\ gate' \in Clients \cup {Nobody} /\ lock' \in Clients \cup {Nobody}
    BY DEF TypeOK, Call, Goto, daemon, asking, work, errors
  <2>6. /\ client' \in [Clients -> {"new", "call", "waiting", "pkexec", "spawned", "done"}]
        /\ answer' \in [Clients -> {"none", "ok", "error", "denied", "unknown"}]
        /\ blame' \in [Clients -> Clients \cup {Nobody}]
    BY DEF TypeOK, Call, Goto, daemon, asking, work, errors
  <2>7. /\ call' \in [Clients -> {"none", "queued", "served", "over"}]
        /\ launcher' \in [Clients -> {"none", "xzramd", "pkexec"}]
        /\ ownError' \in [Clients -> BOOLEAN]
    BY DEF TypeOK, Call, Goto, daemon, asking, work, errors
  <2> QED BY <2>1, <2>2, <2>3, <2>4, <2>5, <2>6, <2>7 DEF TypeOK
<1>2. ASSUME NEW x \in Clients
      PROVE  Track(x)'
  BY <1>0, <1>2, Track(x) DEF TypeOK, HelperType, HelperStates, Track, Undecided,
     OneWay, Unlaunched, Counted, Answered, Call, Goto, daemon, asking, work, errors
<1> QED BY <1>1, <1>2

LEMMA LoseReplyStep ==
  ASSUME IInv, NEW c \in Clients, LoseReply(c)
  PROVE  IInv'
<1> USE DEF IInv
<1>0. Track(c)
  OBVIOUS
<1>1. TypeOK' /\ HelperType'
  BY <1>0, RequestAssumption DEF TypeOK, HelperType, HelperStates, Track, Undecided,
     OneWay, Unlaunched, LoseReply, Tell, Goto, daemon, asking, work, errors
<1>2. ASSUME NEW x \in Clients
      PROVE  Track(x)'
  BY <1>0, <1>2, Track(x) DEF TypeOK, HelperType, HelperStates, Track, Undecided,
     OneWay, Unlaunched, Counted, Answered, LoseReply, Tell, Goto, daemon, asking, work,
     errors
<1> QED BY <1>1, <1>2

LEMMA PkexecStep ==
  ASSUME IInv, NEW c \in Clients, Pkexec(c)
  PROVE  IInv'
<1> USE DEF IInv
<1>0. Track(c)
  OBVIOUS
<1>1. TypeOK' /\ HelperType'
  BY <1>0, RequestAssumption DEF TypeOK, HelperType, HelperStates, Track, Undecided,
     OneWay, Unlaunched, Pkexec, Tell, Goto, Launch, daemon, asking, work, errors
<1>2. ASSUME NEW x \in Clients
      PROVE  Track(x)'
  BY <1>0, <1>2, Track(x) DEF TypeOK, HelperType, HelperStates, Track, Undecided,
     OneWay, Unlaunched, Counted, Answered, Pkexec, Tell, Goto, Launch, daemon, asking,
     work, errors
<1> QED BY <1>1, <1>2

LEMMA CollectStep ==
  ASSUME IInv, NEW c \in Clients, Collect(c)
  PROVE  IInv'
<1> USE DEF IInv
<1>0. Track(c)
  OBVIOUS
<1>1. TypeOK' /\ HelperType'
  BY <1>0, RequestAssumption DEF TypeOK, HelperType, HelperStates, Track, Undecided,
     OneWay, Unlaunched, Collect, Tell, Goto, daemon, asking, work, errors
<1>2. ASSUME NEW x \in Clients
      PROVE  Track(x)'
  BY <1>0, <1>2, Track(x) DEF TypeOK, HelperType, HelperStates, Track, Undecided,
     OneWay, Unlaunched, Counted, Answered, Collect, Tell, Goto, daemon, asking, work,
     errors
<1> QED BY <1>1, <1>2

LEMMA ServeStep ==
  ASSUME IInv, NEW c \in Clients, Serve(c)
  PROVE  IInv'
<1> USE DEF IInv
<1>0. Track(c)
  OBVIOUS
<1>1. TypeOK' /\ HelperType'
  <2>1. lastError' \in [by: Clients \cup {Nobody}, fresh: SUBSET Clients]
    BY DEF TypeOK, Serve, Reply, Tell, Goto, Launch, daemon, asking, work, errors
  <2>2. \A d \in Clients : (lock' = d) <=> (helper'[d] = "working")
    BY <1>0 DEF TypeOK, HelperType, Track, Undecided, Unlaunched, Serve, Reply, Tell,
       Goto, Launch, daemon, asking, work, errors
  <2>3. \A d \in Clients :
          gate' = d => up' /\ call'[d] = "served" /\ launcher'[d] = "xzramd"
    BY <1>0, RequestAssumption DEF TypeOK, Track, Undecided, OneWay, Serve, Reply, Tell,
       Goto, Launch, daemon, asking, work, errors
  <2>4. HelperType'
    BY DEF TypeOK, HelperType, HelperStates, Serve, Reply, Tell, Goto, Launch, daemon,
       asking, work, errors
  <2>5. /\ up' \in BOOLEAN /\ restarts' \in 0..MaxRestarts
        /\ gate' \in Clients \cup {Nobody} /\ lock' \in Clients \cup {Nobody}
    <3>1. up' = up /\ up \in BOOLEAN
      BY DEF Serve, TypeOK
    <3>2. restarts' = restarts /\ restarts \in 0..MaxRestarts
      BY DEF Serve, TypeOK
    <3>3. gate' \in Clients \cup {Nobody} /\ lock' = lock
      BY DEF Serve, Launch, work, TypeOK
    <3> QED BY <3>1, <3>2, <3>3 DEF TypeOK
  <2>6. /\ client' \in [Clients -> {"new", "call", "waiting", "pkexec", "spawned", "done"}]
        /\ answer' \in [Clients -> {"none", "ok", "error", "denied", "unknown"}]
        /\ blame' \in [Clients -> Clients \cup {Nobody}]
    <3>1. Reply(c, "denied", Nobody) \/ UNCHANGED asking
      BY DEF Serve
    <3>2. CASE UNCHANGED asking
      BY <3>2 DEF TypeOK, asking
    <3>3. CASE Tell(c, "denied", Nobody)
      BY <3>3 DEF TypeOK, Tell, Goto
    <3> QED BY <3>1, <3>2, <3>3 DEF Reply
  <2>7. /\ call' \in [Clients -> {"none", "queued", "served", "over"}]
        /\ launcher' \in [Clients -> {"none", "xzramd", "pkexec"}]
        /\ ownError' \in [Clients -> BOOLEAN]
    <3>1. \/ call' = [call EXCEPT ![c] = "over"]
          \/ call' = [call EXCEPT ![c] = "served"]
      BY DEF Serve
    <3>2. launcher' = launcher \/ launcher' = [launcher EXCEPT ![c] = "xzramd"]
      BY DEF Serve, Launch, work
    <3>3. ownError' = ownError \/ ownError' = [ownError EXCEPT ![c] = FALSE]
      BY DEF Serve
    <3>4. /\ call \in [Clients -> {"none", "queued", "served", "over"}]
          /\ launcher \in [Clients -> {"none", "xzramd", "pkexec"}]
          /\ ownError \in [Clients -> BOOLEAN]
      BY DEF TypeOK
    <3>5. call' \in [Clients -> {"none", "queued", "served", "over"}]
      BY <3>1, <3>4
    <3>6. launcher' \in [Clients -> {"none", "xzramd", "pkexec"}]
      BY <3>2, <3>4
    <3>7. ownError' \in [Clients -> BOOLEAN]
      BY <3>3, <3>4
    <3> QED BY <3>5, <3>6, <3>7
  <2> QED BY <2>1, <2>2, <2>3, <2>4, <2>5, <2>6, <2>7 DEF TypeOK
<1>2. ASSUME NEW x \in Clients
      PROVE  Track(x)'
  BY <1>0, <1>2, Track(x) DEF TypeOK, HelperType, HelperStates, Track, Undecided,
     OneWay, Unlaunched, Counted, Answered, Serve, Reply, Tell, Goto, Launch, daemon,
     asking, work, errors
<1> QED BY <1>1, <1>2

LEMMA FinishStep ==
  ASSUME IInv, NEW c \in Clients, Finish(c)
  PROVE  IInv'
<1> USE DEF IInv
<1>0. Track(c)
  OBVIOUS
<1>1. TypeOK' /\ HelperType'
  BY <1>0, RequestAssumption DEF TypeOK, HelperType, HelperStates, Track, Undecided,
     OneWay, Unlaunched, Finish, Reply, Tell, Goto, daemon, asking, work, errors
<1>2. ASSUME NEW x \in Clients
      PROVE  Track(x)'
  BY <1>0, <1>2, Track(x) DEF TypeOK, HelperType, HelperStates, Track, Undecided,
     OneWay, Unlaunched, Counted, Answered, Finish, Reply, Tell, Goto, daemon, asking,
     work, errors
<1> QED BY <1>1, <1>2

LEMMA ClearStep ==
  ASSUME IInv, NEW c \in Clients, Clear(c)
  PROVE  IInv'
<1> USE DEF IInv
<1>0. Track(c)
  OBVIOUS
<1>1. TypeOK' /\ HelperType'
  <2>1. lastError' \in [by: Clients \cup {Nobody}, fresh: SUBSET Clients]
    BY DEF TypeOK, Clear, NoError, daemon, asking, work, errors
  <2>2. \A d \in Clients : (lock' = d) <=> (helper'[d] = "working")
    BY <1>0 DEF TypeOK, HelperType, Track, Undecided, Unlaunched, Clear, NoError,
       daemon, asking, work, errors
  <2>3. \A d \in Clients :
          gate' = d => up' /\ call'[d] = "served" /\ launcher'[d] = "xzramd"
    BY <1>0, RequestAssumption DEF TypeOK, Track, Undecided, OneWay, Clear, NoError,
       daemon, asking, work, errors
  <2>4. HelperType'
    BY DEF TypeOK, HelperType, HelperStates, Clear, NoError, daemon, asking, work,
       errors
  <2>5. /\ up' \in BOOLEAN /\ restarts' \in 0..MaxRestarts
        /\ gate' \in Clients \cup {Nobody} /\ lock' \in Clients \cup {Nobody}
    BY DEF TypeOK, Clear, NoError, daemon, asking, work, errors
  <2>6. /\ client' \in [Clients -> {"new", "call", "waiting", "pkexec", "spawned", "done"}]
        /\ answer' \in [Clients -> {"none", "ok", "error", "denied", "unknown"}]
        /\ blame' \in [Clients -> Clients \cup {Nobody}]
    BY DEF TypeOK, Clear, NoError, daemon, asking, work, errors
  <2>7. /\ call' \in [Clients -> {"none", "queued", "served", "over"}]
        /\ launcher' \in [Clients -> {"none", "xzramd", "pkexec"}]
        /\ ownError' \in [Clients -> BOOLEAN]
    BY DEF TypeOK, Clear, NoError, daemon, asking, work, errors
  <2> QED BY <2>1, <2>2, <2>3, <2>4, <2>5, <2>6, <2>7 DEF TypeOK
<1>2. ASSUME NEW x \in Clients
      PROVE  Track(x)'
  BY <1>0, <1>2, Track(x) DEF TypeOK, HelperType, HelperStates, Track, Undecided,
     OneWay, Unlaunched, Counted, Answered, Clear, NoError, daemon, asking, work, errors
<1> QED BY <1>1, <1>2

LEMMA BeginStep ==
  ASSUME IInv, NEW c \in Clients, Begin(c)
  PROVE  IInv'
<1> USE DEF IInv
<1>0. Track(c)
  OBVIOUS
<1>1. TypeOK' /\ HelperType'
  BY <1>0, RequestAssumption DEF TypeOK, HelperType, HelperStates, Track, Undecided,
     OneWay, Unlaunched, Begin, daemon, asking, work, errors
<1>2. ASSUME NEW x \in Clients
      PROVE  Track(x)'
  BY <1>0, <1>2, Track(x) DEF TypeOK, HelperType, HelperStates, Track, Undecided,
     OneWay, Unlaunched, Counted, Answered, Begin, daemon, asking, work, errors
<1> QED BY <1>1, <1>2

LEMMA SucceedStep ==
  ASSUME IInv, NEW c \in Clients, Succeed(c)
  PROVE  IInv'
<1> USE DEF IInv
<1>0. Track(c)
  OBVIOUS
<1>1. TypeOK' /\ HelperType'
  BY <1>0, RequestAssumption DEF TypeOK, HelperType, HelperStates, Track, Undecided,
     OneWay, Unlaunched, Succeed, daemon, asking, work, errors
<1>2. ASSUME NEW x \in Clients
      PROVE  Track(x)'
  BY <1>0, <1>2, Track(x) DEF TypeOK, HelperType, HelperStates, Track, Undecided,
     OneWay, Unlaunched, Counted, Answered, Succeed, daemon, asking, work, errors
<1> QED BY <1>1, <1>2

LEMMA FailStep ==
  ASSUME IInv, NEW c \in Clients, Fail(c)
  PROVE  IInv'
<1> USE DEF IInv
<1>0. Track(c)
  OBVIOUS
<1>1. TypeOK' /\ HelperType'
  BY <1>0, RequestAssumption DEF TypeOK, HelperType, HelperStates, Track, Undecided,
     OneWay, Unlaunched, Fail, daemon, asking, work, errors
<1>2. ASSUME NEW x \in Clients
      PROVE  Track(x)'
  BY <1>0, <1>2, Track(x) DEF TypeOK, HelperType, HelperStates, Track, Undecided,
     OneWay, Unlaunched, Counted, Answered, Fail, daemon, asking, work, errors
<1> QED BY <1>1, <1>2

LEMMA WriteErrorStep ==
  ASSUME IInv, NEW c \in Clients, WriteError(c)
  PROVE  IInv'
<1> USE DEF IInv
<1>0. Track(c)
  OBVIOUS
<1>1. TypeOK' /\ HelperType'
  <2>1. lastError' \in [by: Clients \cup {Nobody}, fresh: SUBSET Clients]
    BY DEF TypeOK, WriteError, WriteLastError, Spawned, daemon, asking, work, errors
  <2>2. \A d \in Clients : (lock' = d) <=> (helper'[d] = "working")
    BY <1>0 DEF TypeOK, HelperType, Track, Undecided, Unlaunched, WriteError,
       WriteLastError, Spawned, daemon, asking, work, errors
  <2>3. \A d \in Clients :
          gate' = d => up' /\ call'[d] = "served" /\ launcher'[d] = "xzramd"
    BY <1>0, RequestAssumption DEF TypeOK, Track, Undecided, OneWay, WriteError,
       WriteLastError, Spawned, daemon, asking, work, errors
  <2>4. HelperType'
    BY DEF TypeOK, HelperType, HelperStates, WriteError, WriteLastError, Spawned,
       daemon, asking, work, errors
  <2>5. /\ up' \in BOOLEAN /\ restarts' \in 0..MaxRestarts
        /\ gate' \in Clients \cup {Nobody} /\ lock' \in Clients \cup {Nobody}
    BY DEF TypeOK, WriteError, WriteLastError, Spawned, daemon, asking, work, errors
  <2>6. /\ client' \in [Clients -> {"new", "call", "waiting", "pkexec", "spawned", "done"}]
        /\ answer' \in [Clients -> {"none", "ok", "error", "denied", "unknown"}]
        /\ blame' \in [Clients -> Clients \cup {Nobody}]
    BY DEF TypeOK, WriteError, WriteLastError, Spawned, daemon, asking, work, errors
  <2>7. /\ call' \in [Clients -> {"none", "queued", "served", "over"}]
        /\ launcher' \in [Clients -> {"none", "xzramd", "pkexec"}]
        /\ ownError' \in [Clients -> BOOLEAN]
    BY DEF TypeOK, WriteError, WriteLastError, Spawned, daemon, asking, work, errors
  <2> QED BY <2>1, <2>2, <2>3, <2>4, <2>5, <2>6, <2>7 DEF TypeOK
<1>2. ASSUME NEW x \in Clients
      PROVE  Track(x)'
  BY <1>0, <1>2, Track(x) DEF TypeOK, HelperType, HelperStates, Track, Undecided,
     OneWay, Unlaunched, Counted, Answered, WriteError, WriteLastError, Spawned, daemon,
     asking, work, errors
<1> QED BY <1>1, <1>2

LEMMA KillStep ==
  ASSUME IInv, NEW c \in Clients, Kill(c)
  PROVE  IInv'
<1> USE DEF IInv
<1>0. Track(c)
  OBVIOUS
<1>1. TypeOK' /\ HelperType'
  BY <1>0, RequestAssumption DEF TypeOK, HelperType, HelperStates, Track, Undecided,
     OneWay, Unlaunched, Kill, daemon, asking, work, errors
<1>2. ASSUME NEW x \in Clients
      PROVE  Track(x)'
  BY <1>0, <1>2, Track(x) DEF TypeOK, HelperType, HelperStates, Track, Undecided,
     OneWay, Unlaunched, Counted, Answered, Kill, daemon, asking, work, errors
<1> QED BY <1>1, <1>2

LEMMA StopStep ==
  ASSUME IInv, Stop
  PROVE  IInv'
<1> USE DEF IInv
<1>1. TypeOK' /\ HelperType'
  <2>1. up' \in BOOLEAN /\ restarts' \in 0..MaxRestarts
    <3>1. restarts \in 0..MaxRestarts
      BY DEF TypeOK
    <3>2. restarts < MaxRestarts /\ restarts' = restarts + 1
      BY DEF Stop
    <3>3. restarts' \in 0..MaxRestarts
      BY <3>1, <3>2, RequestAssumption
    <3>4. up' \in BOOLEAN
      BY DEF Stop
    <3> QED BY <3>3, <3>4
  <2>2. call' \in [Clients -> {"none", "queued", "served", "over"}]
    BY DEF Stop
  <2>3. gate' \in Clients \cup {Nobody} /\ \A d \in Clients : gate' # d
    BY RequestAssumption DEF Stop
  <2> QED BY <2>1, <2>2, <2>3 DEF TypeOK, HelperType, Stop, asking, work, errors
<1>2. ASSUME NEW x \in Clients
      PROVE  Track(x)'
  BY <1>2, Track(x) DEF TypeOK, HelperType, Track, Undecided, OneWay, Unlaunched, Counted,
     Answered, Stop, asking, work, errors
<1> QED BY <1>1, <1>2

LEMMA ResumeStep ==
  ASSUME IInv, Resume
  PROVE  IInv'
<1> USE DEF IInv
<1>1. TypeOK' /\ HelperType'
  BY RequestAssumption DEF TypeOK, HelperType, HelperStates, Resume, asking, work, errors
<1>2. ASSUME NEW x \in Clients
      PROVE  Track(x)'
  BY <1>2, Track(x) DEF TypeOK, HelperType, Track, Undecided, OneWay, Unlaunched, Counted,
     Answered, Resume, asking, work, errors
<1> QED BY <1>1, <1>2

LEMMA Invariance ==
  ASSUME IInv, [Next]_vars
  PROVE  IInv'
<1>1. CASE Stop \/ Resume
  BY <1>1, StopStep, ResumeStep
<1>2. ASSUME NEW c \in Clients, Step(c)
      PROVE  IInv'
  BY <1>2, ChooseStep, CallStep, LoseReplyStep, PkexecStep, CollectStep, ServeStep,
     FinishStep, ClearStep, BeginStep, SucceedStep, FailStep, WriteErrorStep, KillStep
     DEF Step
<1>3. CASE UNCHANGED vars
  <2>1. TypeOK' /\ HelperType'
    BY <1>3 DEF vars, IInv, TypeOK, HelperType
  <2>2. ASSUME NEW x \in Clients
        PROVE  Track(x)'
    BY <1>3, <2>2, Track(x) DEF vars, IInv, Track, Undecided, OneWay, Unlaunched, Counted,
       Answered
  <2> QED BY <2>1, <2>2 DEF IInv
<1> QED BY <1>1, <1>2, <1>3 DEF Next, Terminated

LEMMA Always == Spec => []IInv
BY InitIInv, Invariance, PTL DEF Spec

-----------------------------------------------------------------------------
(* The theorems.                                                           *)

\* Every variable keeps its type, helper.lock belongs to the helper at work and
\* the gate to a call whose helper xzramd launched.
THEOREM RequestTypeCorrect == Spec => []TypeOK
<1>1. IInv => TypeOK
  BY DEF IInv
<1> QED BY <1>1, Always, PTL

\* No operation is carried out twice, whatever is lost, restarted or killed
\* (run_privileged falls back to pkexec only for a call that was not delivered).
THEOREM OperationsRunOnce == Spec => []AtMostOnce
<1>1. IInv => AtMostOnce
  BY DEF IInv, Track, Counted, AtMostOnce
<1> QED BY <1>1, Always, PTL

\* A definite answer is true: success was success, an error an error, and what
\* was refused never began.
THEOREM DefiniteAnswersHold == Spec => []AnswersAreTrue
<1>1. IInv => AnswersAreTrue
  BY DEF IInv, Track, Answered, AnswersAreTrue
<1> QED BY <1>1, Always, PTL

\* xzramd shows a client the error of its own run or none, although helpers of
\* both origins write errors at any time (error_file_path, take_error_file).
THEOREM DaemonErrorsAreOwn == Spec => []DaemonBlamesOwnRun
<1>1. IInv => DaemonBlamesOwnRun
  BY DEF IInv, Track, Answered, DaemonBlamesOwnRun
<1> QED BY <1>1, Always, PTL

=============================================================================
