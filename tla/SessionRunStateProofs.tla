----------------------- MODULE SessionRunStateProofs -----------------------
(***************************************************************************)
(* Proofs about SessionRunState, for any set of callers and whether or not *)
(* the scheduler switches fibers between two operations.                   *)
(***************************************************************************)
EXTENDS SessionRunState, TLAPS

(* The fields of a Runner's state, by its tag. *)
LEMMA RunnerFields ==
  ASSUME NEW st \in RunnerStates
  PROVE  /\ st.tag \in {"Idle", "Running", "Shell", "ShellThenRun"}
         /\ st.tag = "Idle" => st = Idle /\ st.run = None /\ st.shell = None
         /\ st.tag = "Running" =>
              st.run \in Callers /\ st = Running(st.run) /\ st.shell = None
         /\ st.tag = "Shell" =>
              st.shell \in Callers /\ st = Shell(st.shell) /\ st.run = None
         /\ st.tag = "ShellThenRun" =>
              /\ st.shell \in Callers /\ st.run \in Callers
              /\ st = ShellThenRun(st.shell, st.run)
  BY DEF RunnerStates, Idle, Running, Shell, ShellThenRun

LEMMA RunnerValues ==
  /\ Idle \in RunnerStates
  /\ Idle.tag = "Idle" /\ Idle.run = None /\ Idle.shell = None
  /\ \A c \in Callers :
       /\ Running(c) \in RunnerStates /\ Shell(c) \in RunnerStates
       /\ Running(c).tag = "Running" /\ Running(c).run = c /\ Running(c).shell = None
       /\ Shell(c).tag = "Shell" /\ Shell(c).shell = c /\ Shell(c).run = None
  /\ \A s, c \in Callers :
       /\ ShellThenRun(s, c) \in RunnerStates
       /\ ShellThenRun(s, c).tag = "ShellThenRun"
       /\ ShellThenRun(s, c).shell = s /\ ShellThenRun(s, c).run = c
  <1>1. Idle \in RunnerStates
    BY DEF RunnerStates
  <1>2. Idle.tag = "Idle" /\ Idle.run = None /\ Idle.shell = None
    BY DEF Idle
  <1>3. ASSUME NEW c \in Callers
        PROVE  Running(c) \in RunnerStates /\ Shell(c) \in RunnerStates
    BY DEF RunnerStates
  <1>4. ASSUME NEW c \in Callers
        PROVE  /\ Running(c).tag = "Running" /\ Running(c).run = c /\ Running(c).shell = None
               /\ Shell(c).tag = "Shell" /\ Shell(c).shell = c /\ Shell(c).run = None
    BY DEF Running, Shell
  <1>5. ASSUME NEW s \in Callers, NEW c \in Callers
        PROVE  ShellThenRun(s, c) \in RunnerStates
    BY DEF RunnerStates
  <1>6. ASSUME NEW s \in Callers, NEW c \in Callers
        PROVE  /\ ShellThenRun(s, c).tag = "ShellThenRun"
               /\ ShellThenRun(s, c).shell = s /\ ShellThenRun(s, c).run = c
    BY DEF ShellThenRun
  <1>7. QED
    BY <1>1, <1>2, <1>3, <1>4, <1>5, <1>6

LEMMA InitIInv == Init => IInv
  <1> SUFFICES ASSUME Init PROVE IInv
    OBVIOUS
  <1>1. TypeOK
    BY RunnerValues DEF Init, TypeOK, Ops, PCs, FiberStates
  <1>2. CallersInv /\ FibersInv /\ LockInv
    BY DEF Init, CallersInv, FibersInv, LockInv, Finalizing, Ops
  <1>3. RunnersInv
    BY RunnerValues DEF Init, RunnersInv
  <1>4. InterruptInv /\ OpenInv /\ AwaitInv /\ LiveWorkOwned
    BY DEF Init, InterruptInv, OpenInv, AwaitInv, LiveWorkOwned
  <1>5. QED
    BY <1>1, <1>2, <1>3, <1>4 DEF IInv, Bookkeeping

----------------------------------------------------------------------------
(* Every step keeps the types. *)

LEMMA TypeStep == TypeOK /\ CallersInv /\ FibersInv /\ [Next]_vars => TypeOK'
  <1> SUFFICES ASSUME TypeOK, CallersInv, FibersInv, [Next]_vars PROVE TypeOK'
    OBVIOUS
  <1> USE DEF TypeOK, Goto, SetFiber, SetStatus, callerVars
  <1>1. CASE UNCHANGED vars
    BY <1>1 DEF vars
  <1>2. ASSUME NEW c \in Callers, LoopStep(c) PROVE TypeOK'
    <2>1. CASE RunnerLookup(c)
      BY <2>1 DEF RunnerLookup, PCs
    <2>2. CASE StartRun(c)
      BY <2>2, RunnerValues DEF StartRun, AtLoop, PCs, FiberStates, CallersInv
    <2>3. CASE QueueBehindShell(c)
      <3>1. handle[c] \in Callers
        BY <2>3 DEF QueueBehindShell, AtLoop, CallersInv
      <3>2. runner[handle[c]].shell \in Callers
        BY <2>3, <3>1, RunnerFields DEF QueueBehindShell
      <3>3. QED
        BY <2>3, <3>1, <3>2, RunnerValues DEF QueueBehindShell, PCs
    <2>4. CASE JoinRun(c)
      <3>1. handle[c] \in Callers
        BY <2>4 DEF JoinRun, AtLoop, CallersInv
      <3>2. runner[handle[c]].run \in Callers
        BY <2>4, <3>1, RunnerFields DEF JoinRun
      <3>3. QED
        BY <2>4, <3>2 DEF JoinRun, PCs
    <2>5. CASE LoopReturns(c)
      BY <2>5 DEF LoopReturns, PCs
    <2>6. QED
      BY <1>2, <2>1, <2>2, <2>3, <2>4, <2>5 DEF LoopStep
  <1>3. ASSUME NEW c \in Callers, ShellStep(c) PROVE TypeOK'
    <2>1. CASE ShellRejected(c) \/ ShellBusy(c) \/ ShellReturns(c)
      BY <2>1 DEF ShellRejected, ShellBusy, ShellReturns, PCs
    <2>2. CASE StartShell(c)
      BY <2>2, RunnerValues DEF StartShell, PCs, FiberStates
    <2>3. QED
      BY <1>3, <2>1, <2>2 DEF ShellStep
  <1>4. ASSUME NEW c \in Callers, CancelStep(c) PROVE TypeOK'
    <2>1. CASE CancelLookup(c) \/ CancelIdle(c)
      BY <2>1 DEF CancelLookup, CancelIdle, SessionBusy, PCs
    <2>2. CASE CancelModify(c)
      <3>1. handle[c] \in Callers
        BY <2>2 DEF CancelModify, CallersInv
      <3>2. runner[handle[c]].tag # "Idle" =>
              (IF runner[handle[c]].tag = "Running" THEN runner[handle[c]].run
                                                    ELSE runner[handle[c]].shell) \in Callers
        BY <3>1, RunnerFields
      <3>3. target' \in [Callers -> Callers \cup {None}]
        BY <2>2, <3>2 DEF CancelModify
      <3>4. runner' \in [Callers -> RunnerStates]
        BY <2>2, RunnerValues DEF CancelModify
      <3>5. done' \in [Callers -> {"none", "open", "done", "cancelled"}]
        BY <2>2 DEF CancelModify
      <3>6. pc' \in [Callers -> PCs]
        BY <2>2 DEF CancelModify, PCs
      <3>7. QED
        BY <2>2, <3>3, <3>4, <3>5, <3>6 DEF CancelModify
    <2>3. CASE CancelInterrupt(c)
      BY <2>3 DEF CancelInterrupt, PCs, FiberStates
    <2>4. CASE IdleIfCurrent(c) \/ CancelUntrack(c) \/ CancelIdling(c)
      BY <2>4 DEF IdleIfCurrent, CancelUntrack, CancelIdling, PCs
    <2>5. QED
      BY <1>4, <2>1, <2>2, <2>3, <2>4 DEF CancelStep
  <1>5. ASSUME NEW c \in Callers, WorkStatus(c) \/ WorkEnds(c) PROVE TypeOK'
    BY <1>5 DEF WorkStatus, WorkEnds, FiberStates
  <1>6. ASSUME NEW c \in Callers, CleanupStep(c) PROVE TypeOK'
    <2>1. CASE Unwind(c) \/ Untrack(c) \/ Idling(c)
      BY <2>1 DEF Unwind, Untrack, Idling, FiberStates
    <2>2. CASE FinishRun(c)
      <3>1. Idle \in RunnerStates
        BY RunnerValues
      <3>2. QED
        BY <2>2, <3>1 DEF FinishRun, FiberStates
    <2>3. CASE FinishShell(c)
      <3>1. handle[c] \in Callers
        BY <2>3 DEF FinishShell, FibersInv
      <3>2. CASE Owns(handle[c], c) /\ runner[handle[c]].tag # "Shell"
        <4>1. runner[handle[c]].run \in Callers
          BY <2>3, <3>1, <3>2, RunnerFields DEF Owns, FinishShell
        <4>2. QED
          <5>1. Running(runner[handle[c]].run) \in RunnerStates
            BY <4>1, RunnerValues
          <5>2. QED
            BY <2>3, <3>2, <4>1, <5>1 DEF FinishShell, FiberStates
      <3>3. CASE ~ (Owns(handle[c], c) /\ runner[handle[c]].tag # "Shell")
        <4>1. Idle \in RunnerStates
          BY RunnerValues
        <4>2. QED
          BY <2>3, <3>3, <4>1 DEF FinishShell, FiberStates
      <3>4. QED
        BY <3>2, <3>3
    <2>4. CASE Settle(c)
      <3>1. exit[c] \in {"done", "cancelled"}
        BY <2>4 DEF Settle, FibersInv, Finalizing
      <3>2. QED
        BY <2>4, <3>1 DEF Settle, FiberStates
    <2>5. QED
      BY <1>6, <2>1, <2>2, <2>3, <2>4 DEF CleanupStep
  <1>7. QED
    BY <1>1, <1>2, <1>3, <1>4, <1>5, <1>6
    DEF Next, CallerStep, WorkStep, UnwindStep
----------------------------------------------------------------------------
(* The Runners' states refer to callers. *)
LEMMA RunnerRefs ==
  TypeOK => \A r \in Callers :
    /\ runner[r].tag \in {"Idle", "Running", "Shell", "ShellThenRun"}
    /\ runner[r].tag = "Idle" => runner[r] = Idle
    /\ runner[r].tag \in {"Running", "ShellThenRun"} => runner[r].run \in Callers
    /\ runner[r].tag \in {"Shell", "ShellThenRun"} => runner[r].shell \in Callers
  BY RunnerFields DEF TypeOK

(* A step that only moves its caller on keeps the books, unless the caller  *)
(* was about to interrupt some work.                                        *)
LEMMA MoveKeepsBooks ==
  ASSUME IInv, NEW c \in Callers,
         NEW l \in {"returned", "rejected", "untrack", "idling"},
         Goto(c, l),
         pc[c] # "interrupt",
         l = "rejected" => op[c] = "shell",
         l \in {"untrack", "idling"} => op[c] = "cancel",
         UNCHANGED <<op, handle, target, runner, fiber, exit, done>>
  PROVE  Bookkeeping'
  <1> USE DEF IInv, Bookkeeping, TypeOK, Goto
  <1>1. CallersInv' /\ FibersInv' /\ LockInv'
    BY DEF CallersInv, FibersInv, LockInv
  <1>2. RunnersInv' /\ OpenInv' /\ AwaitInv'
    BY DEF RunnersInv, OpenInv, AwaitInv
  <1>3. InterruptInv'
    BY DEF InterruptInv, Owns
  <1>4. LiveWorkOwned'
    BY DEF LiveWorkOwned, Interrupting, Owns
  <1>5. QED
    BY <1>1, <1>2, <1>3, <1>4

(* So does a step that only moves a fiber on towards its end: first to its  *)
(* exit, then through onIdle, or after it for the fiber of a shell.         *)
LEMMA FiberMoveKeepsBooks ==
  ASSUME IInv, NEW c \in Callers, NEW s \in Finalizing \cup {"dead"},
         fiber[c] \in {"active", "stopping", "untrack", "idling"},
         fiber[c] = "active" => s = "exiting",
         s = "settling" => op[c] = "loop",
         s = "dead" => op[c] = "shell",
         fiber' = [fiber EXCEPT ![c] = s],
         s # "dead" => exit'[c] # "none",
         \A k \in Callers \ {c} : exit'[k] = exit[k],
         UNCHANGED <<op, pc, handle, target, runner, done>>
  PROVE  Bookkeeping'
  <1> USE DEF IInv, Bookkeeping, TypeOK
  <1>1. CallersInv' /\ LockInv' /\ AwaitInv'
    BY DEF CallersInv, LockInv, AwaitInv
  <1>2. FibersInv'
    BY DEF FibersInv, Finalizing
  <1>3. RunnersInv'
    BY DEF RunnersInv
  <1>4. InterruptInv'
    BY DEF InterruptInv, Owns, Finalizing
  <1>5. OpenInv'
    BY DEF OpenInv, Alive, Finalizing
  <1>6. LiveWorkOwned'
    BY DEF LiveWorkOwned, Interrupting, Owns, Finalizing
  <1>7. QED
    BY <1>1, <1>2, <1>3, <1>4, <1>5, <1>6

(* A step of ensureRunning keeps the books. *)
LEMMA LoopKeepsBooks ==
  ASSUME IInv, NEW c \in Callers, LoopStep(c)
  PROVE  Bookkeeping'
  <1> USE DEF IInv, Bookkeeping, TypeOK, Goto, SetFiber, callerVars
  <1>1. CASE RunnerLookup(c)
    <2>1. CallersInv'
      BY <1>1 DEF CallersInv, RunnerLookup
    <2>2. FibersInv'
      BY <1>1 DEF FibersInv, RunnerLookup
    <2>3. LockInv'
      BY <1>1 DEF LockInv, RunnerLookup
    <2>4. RunnersInv'
      BY <1>1 DEF FibersInv, RunnersInv, RunnerLookup
    <2>5. InterruptInv'
      BY <1>1 DEF InterruptInv, RunnersInv, Owns, RunnerLookup
    <2>6. OpenInv'
      BY <1>1 DEF FibersInv, OpenInv, RunnerLookup
    <2>7. AwaitInv'
      BY <1>1 DEF AwaitInv, RunnerLookup
    <2>8. LiveWorkOwned'
      BY <1>1 DEF FibersInv, LiveWorkOwned, Owns, Interrupting, RunnerLookup
    <2>9. QED
      BY <2>1, <2>2, <2>3, <2>4, <2>5, <2>6, <2>7, <2>8 DEF Bookkeeping
  <1>2. CASE StartRun(c)
    <2>1. CallersInv'
      BY <1>2 DEF CallersInv, AtLoop, StartRun
    <2>2. FibersInv'
      BY <1>2 DEF CallersInv, FibersInv, AtLoop, Finalizing, StartRun
    <2>3. LockInv'
      BY <1>2 DEF LockInv, AtLoop, Locked, StartRun
    <2>4. RunnersInv'
      BY <1>2 DEF RunnersInv, Running, AtLoop, StartRun
    <2>5. InterruptInv'
      BY <1>2 DEF FibersInv, InterruptInv, Running, AtLoop, Owns, StartRun
    <2>6. OpenInv'
      BY <1>2 DEF CallersInv, OpenInv, AtLoop, Alive, StartRun
    <2>7. AwaitInv'
      BY <1>2 DEF AwaitInv, StartRun
    <2>8. LiveWorkOwned'
      BY <1>2 DEF CallersInv, LiveWorkOwned, Running, AtLoop, Owns,
           Interrupting, StartRun
    <2>9. QED
      BY <2>1, <2>2, <2>3, <2>4, <2>5, <2>6, <2>7, <2>8 DEF Bookkeeping
  <1>3. CASE QueueBehindShell(c)
    <2>1. CallersInv'
      BY <1>3 DEF CallersInv, AtLoop, QueueBehindShell
    <2>2. FibersInv'
      BY <1>3 DEF FibersInv, AtLoop, QueueBehindShell
    <2>3. LockInv'
      BY <1>3 DEF LockInv, AtLoop, Locked, QueueBehindShell
    <2>4. RunnersInv'
      BY <1>3 DEF FibersInv, RunnersInv, ShellThenRun, AtLoop, QueueBehindShell
    <2>5. InterruptInv'
      BY <1>3 DEF InterruptInv, ShellThenRun, Owns, QueueBehindShell
    <2>6. OpenInv'
      BY <1>3 DEF CallersInv, OpenInv, ShellThenRun, AtLoop, QueueBehindShell
    <2>7. AwaitInv'
      BY <1>3 DEF AwaitInv, QueueBehindShell
    <2>8. LiveWorkOwned'
      BY <1>3 DEF LiveWorkOwned, ShellThenRun, AtLoop, Owns, Interrupting,
           QueueBehindShell
    <2>9. QED
      BY <2>1, <2>2, <2>3, <2>4, <2>5, <2>6, <2>7, <2>8 DEF Bookkeeping
  <1>4. CASE JoinRun(c)
    <2>1. RunnersInv' /\ OpenInv'
      BY <1>4 DEF RunnersInv, OpenInv, JoinRun
    <2>2. CallersInv'
      BY <1>4, RunnerRefs DEF CallersInv, AtLoop, JoinRun
    <2>3. FibersInv'
      BY <1>4 DEF FibersInv, JoinRun
    <2>4. LockInv'
      BY <1>4 DEF LockInv, JoinRun
    <2>5. InterruptInv'
      BY <1>4 DEF InterruptInv, Owns, JoinRun
    <2>6. AwaitInv'
      BY <1>4 DEF CallersInv, AwaitInv, RunnersInv, AtLoop, JoinRun
    <2>7. LiveWorkOwned'
      BY <1>4 DEF LiveWorkOwned, AtLoop, Owns, Interrupting, JoinRun
    <2>8. QED
      BY <2>1, <2>2, <2>3, <2>4, <2>5, <2>6, <2>7 DEF Bookkeeping
  <1>5. CASE LoopReturns(c)
    BY <1>5, MoveKeepsBooks DEF LoopReturns, CallersInv
  <1>6. QED
    BY <1>1, <1>2, <1>3, <1>4, <1>5 DEF LoopStep

(* A step of startShell keeps the books. *)
LEMMA ShellKeepsBooks ==
  ASSUME IInv, NEW c \in Callers, ShellStep(c)
  PROVE  Bookkeeping'
  <1> USE DEF IInv, Bookkeeping, TypeOK, Goto, SetFiber, callerVars
  <1>1. CASE ShellRejected(c)
    BY <1>1, MoveKeepsBooks DEF ShellRejected, AtShell, CallersInv
  <1>2. CASE ShellBusy(c)
    <2>1. RunnersInv' /\ OpenInv'
      BY <1>2 DEF RunnersInv, OpenInv, ShellBusy
    <2>2. CallersInv'
      BY <1>2 DEF CallersInv, AtShell, ShellBusy
    <2>3. FibersInv'
      BY <1>2 DEF FibersInv, AtShell, ShellBusy
    <2>4. LockInv'
      BY <1>2, RunnerRefs DEF CallersInv, LockInv, Locked, AtShell, ShellBusy
    <2>5. InterruptInv'
      BY <1>2 DEF InterruptInv, Owns, ShellBusy
    <2>6. AwaitInv'
      BY <1>2 DEF AwaitInv, ShellBusy
    <2>7. LiveWorkOwned'
      BY <1>2 DEF LiveWorkOwned, AtShell, Owns, Interrupting, ShellBusy
    <2>8. QED
      BY <2>1, <2>2, <2>3, <2>4, <2>5, <2>6, <2>7 DEF Bookkeeping
  <1>3. CASE StartShell(c)
    <2>1. CallersInv'
      BY <1>3 DEF CallersInv, StartShell
    <2>2. FibersInv'
      BY <1>3 DEF CallersInv, FibersInv, Finalizing, StartShell
    <2>3. LockInv'
      BY <1>3 DEF LockInv, StartShell
    <2>4. RunnersInv'
      BY <1>3 DEF CallersInv, RunnersInv, Shell, StartShell
    <2>5. InterruptInv'
      BY <1>3 DEF FibersInv, InterruptInv, Shell, Owns, StartShell
    <2>6. OpenInv'
      BY <1>3 DEF OpenInv, Idle, LockInv, Alive, StartShell
    <2>7. AwaitInv'
      BY <1>3 DEF CallersInv, AwaitInv, StartShell
    <2>8. LiveWorkOwned'
      BY <1>3 DEF CallersInv, LiveWorkOwned, Idle, Shell, LockInv, Owns,
           Interrupting, StartShell
    <2>9. QED
      BY <2>1, <2>2, <2>3, <2>4, <2>5, <2>6, <2>7, <2>8 DEF Bookkeeping
  <1>4. CASE ShellReturns(c)
    BY <1>4, MoveKeepsBooks DEF ShellReturns, CallersInv
  <1>5. QED
    BY <1>1, <1>2, <1>3, <1>4 DEF ShellStep

(* A step of cancel keeps the books. *)
LEMMA CancelKeepsBooks ==
  ASSUME IInv, NEW c \in Callers, CancelStep(c)
  PROVE  Bookkeeping'
  <1> USE DEF IInv, Bookkeeping, TypeOK, Goto, SetFiber, callerVars
  <1>1. CASE CancelLookup(c)
    <2>1. CallersInv'
      BY <1>1 DEF CallersInv, SessionBusy, CancelLookup
    <2>2. FibersInv'
      BY <1>1 DEF FibersInv, CancelLookup
    <2>3. LockInv'
      BY <1>1 DEF LockInv, CancelLookup
    <2>4. RunnersInv'
      BY <1>1, RunnerRefs DEF RunnersInv, CancelLookup
    <2>5. InterruptInv'
      BY <1>1 DEF CallersInv, FibersInv, InterruptInv, Owns, CancelLookup
    <2>6. OpenInv'
      BY <1>1 DEF OpenInv, CancelLookup
    <2>7. AwaitInv'
      BY <1>1 DEF AwaitInv, CancelLookup
    <2>8. LiveWorkOwned'
      BY <1>1 DEF FibersInv, LiveWorkOwned, Owns, Interrupting, CancelLookup
    <2>9. QED
      BY <2>1, <2>2, <2>3, <2>4, <2>5, <2>6, <2>7, <2>8 DEF Bookkeeping
  <1>2. CASE CancelIdle(c)
    BY <1>2, MoveKeepsBooks DEF CancelIdle, CallersInv
  <1>3. CASE CancelModify(c)
    <2>1. CallersInv'
      BY <1>3, RunnerRefs DEF CallersInv, CancelModify
    <2>2. FibersInv'
      BY <1>3 DEF CallersInv, FibersInv, RunnersInv, CancelModify
    <2>3. LockInv'
      BY <1>3 DEF LockInv, CancelModify
    <2>4. RunnersInv'
      BY <1>3 DEF CallersInv, RunnersInv, Idle, CancelModify
    <2>5. InterruptInv'
      BY <1>3, RunnerRefs DEF CallersInv, RunnersInv, InterruptInv, Owns, Idle,
           CancelModify
    <2>6. OpenInv'
      BY <1>3 DEF OpenInv, CancelModify
    <2>7. AwaitInv'
      BY <1>3 DEF AwaitInv, CancelModify
    <2>8. LiveWorkOwned'
      BY <1>3 DEF LiveWorkOwned, Owns, Interrupting, CancelModify
    <2>9. QED
      BY <2>1, <2>2, <2>3, <2>4, <2>5, <2>6, <2>7, <2>8 DEF Bookkeeping
  <1>4. CASE CancelInterrupt(c)
    <2>1. CallersInv'
      BY <1>4 DEF CallersInv, CancelInterrupt
    <2>2. FibersInv'
      BY <1>4 DEF FibersInv, Finalizing, CancelInterrupt
    <2>3. LockInv'
      BY <1>4 DEF LockInv, CancelInterrupt
    <2>4. RunnersInv'
      BY <1>4 DEF RunnersInv, InterruptInv, Owns, CancelInterrupt
    <2>5. InterruptInv'
      BY <1>4 DEF InterruptInv, Owns, CancelInterrupt
    <2>6. OpenInv'
      BY <1>4 DEF OpenInv, Alive, CancelInterrupt
    <2>7. AwaitInv'
      BY <1>4 DEF AwaitInv, CancelInterrupt
    <2>8. LiveWorkOwned'
      BY <1>4 DEF LiveWorkOwned, Owns, Interrupting, CancelInterrupt
    <2>9. QED
      BY <2>1, <2>2, <2>3, <2>4, <2>5, <2>6, <2>7, <2>8 DEF Bookkeeping
  <1>5. CASE IdleIfCurrent(c)
    BY <1>5, MoveKeepsBooks DEF IdleIfCurrent, CallersInv
  <1>6. CASE CancelUntrack(c)
    BY <1>6, MoveKeepsBooks DEF CancelUntrack, CallersInv
  <1>7. CASE CancelIdling(c)
    BY <1>7, MoveKeepsBooks DEF CancelIdling, CallersInv
  <1>8. QED
    BY <1>1, <1>2, <1>3, <1>4, <1>5, <1>6, <1>7 DEF CancelStep

(* A step of the exit of some work keeps the books. *)
LEMMA CleanupKeepsBooks ==
  ASSUME IInv, NEW c \in Callers, CleanupStep(c)
  PROVE  Bookkeeping'
  <1> USE DEF IInv, Bookkeeping, TypeOK, Goto, SetFiber, callerVars
  <1>1. CASE Unwind(c)
    BY <1>1, FiberMoveKeepsBooks DEF Unwind, Finalizing, FibersInv
  <1>2. CASE FinishRun(c)
    <2>1. CallersInv' /\ AwaitInv'
      BY <1>2 DEF CallersInv, AwaitInv, FinishRun
    <2>2. FibersInv'
      BY <1>2 DEF FibersInv, Finalizing, FinishRun
    <2>3. LockInv'
      BY <1>2 DEF CallersInv, LockInv, FinishRun
    <2>4. RunnersInv'
      BY <1>2, RunnerRefs DEF RunnersInv, Owns, Idle, FinishRun
    <2>5. InterruptInv'
      BY <1>2 DEF CallersInv, FibersInv, InterruptInv, Idle, Owns, FinishRun
    <2>6. OpenInv'
      BY <1>2 DEF OpenInv, Owns, Alive, Finalizing, FinishRun
    <2>7. LiveWorkOwned'
      BY <1>2 DEF FibersInv, LiveWorkOwned, Owns, Interrupting, FinishRun
    <2>8. QED
      BY <2>1, <2>2, <2>3, <2>4, <2>5, <2>6, <2>7 DEF Bookkeeping
  <1>3. CASE FinishShell(c)
    <2>1. CallersInv' /\ AwaitInv'
      BY <1>3 DEF CallersInv, AwaitInv, FinishShell
    <2>2. FibersInv'
      BY <1>3 DEF RunnersInv, FibersInv, Finalizing, Owns, FinishShell
    <2>3. LockInv'
      BY <1>3 DEF CallersInv, LockInv, Locked, FinishShell
    <2>4. RunnersInv'
      BY <1>3, RunnerRefs DEF RunnersInv, FibersInv, Owns, Running, Idle,
           FinishShell
    <2>5. InterruptInv'
      BY <1>3 DEF CallersInv, FibersInv, InterruptInv, RunnersInv, Idle,
           Running, Owns, FinishShell
    <2>6. OpenInv'
      BY <1>3 DEF OpenInv, Alive, FinishShell
    <2>7. LiveWorkOwned'
      BY <1>3 DEF FibersInv, LiveWorkOwned, RunnersInv, Running, Owns,
           Interrupting, FinishShell
    <2>8. QED
      BY <2>1, <2>2, <2>3, <2>4, <2>5, <2>6, <2>7 DEF Bookkeeping
  <1>4. CASE Untrack(c)
    BY <1>4, FiberMoveKeepsBooks DEF Untrack, Finalizing, FibersInv
  <1>5. CASE Idling(c)
    <2>1. CASE op[c] = "loop"
      BY <1>5, <2>1, FiberMoveKeepsBooks DEF Idling, Finalizing, FibersInv
    <2>2. CASE op[c] # "loop"
      <3>1. op[c] = "shell"
        BY <1>5, <2>2 DEF Idling, FibersInv, Ops
      <3>2. QED
        BY <1>5, <3>1, FiberMoveKeepsBooks DEF Idling, Finalizing, FibersInv
    <2>3. QED
      BY <2>1, <2>2
  <1>6. CASE Settle(c)
    <2>1. CallersInv' /\ LockInv'
      BY <1>6 DEF CallersInv, LockInv, Settle
    <2>2. FibersInv'
      BY <1>6 DEF FibersInv, Finalizing, Settle
    <2>3. RunnersInv'
      BY <1>6 DEF RunnersInv, Settle
    <2>4. InterruptInv'
      BY <1>6 DEF InterruptInv, Owns, Settle
    <2>5. OpenInv'
      BY <1>6 DEF OpenInv, Settle
    <2>6. AwaitInv'
      BY <1>6 DEF AwaitInv, FibersInv, Finalizing, Settle
    <2>7. LiveWorkOwned'
      BY <1>6 DEF LiveWorkOwned, Owns, Interrupting, Settle
    <2>8. QED
      BY <2>1, <2>2, <2>3, <2>4, <2>5, <2>6, <2>7 DEF Bookkeeping
  <1>7. QED
    BY <1>1, <1>2, <1>3, <1>4, <1>5, <1>6 DEF CleanupStep
(* So does the work itself. *)
LEMMA WorkKeepsBooks ==
  ASSUME IInv, NEW c \in Callers, WorkStatus(c) \/ WorkEnds(c)
  PROVE  Bookkeeping'
  <1>1. CASE WorkStatus(c)
    <2>1. UNCHANGED <<op, pc, handle, target, runner, fiber, exit, done>>
      BY <1>1 DEF WorkStatus, callerVars
    <2>2. (CallersInv /\ FibersInv /\ LockInv /\ RunnersInv)'
      BY <2>1 DEF IInv, Bookkeeping, CallersInv, FibersInv, LockInv, RunnersInv
    <2>3. (InterruptInv /\ OpenInv /\ AwaitInv /\ LiveWorkOwned)'
      BY <2>1 DEF IInv, Bookkeeping, InterruptInv, OpenInv, AwaitInv,
           LiveWorkOwned, Interrupting, Owns
    <2>4. QED
      BY <2>2, <2>3 DEF Bookkeeping
  <1>2. CASE WorkEnds(c)
    BY <1>2, FiberMoveKeepsBooks
    DEF WorkEnds, SetFiber, callerVars, IInv, TypeOK, Finalizing
  <1>3. QED
    BY <1>1, <1>2

(* IInv is inductive: the types need only the books of callers and fibers,  *)
(* the books need the types and each other.                                 *)
LEMMA InductiveStep == IInv /\ [Next]_vars => IInv'
  <1> SUFFICES ASSUME IInv, [Next]_vars PROVE IInv'
    OBVIOUS
  <1>1. TypeOK'
    BY TypeStep DEF IInv, Bookkeeping
  <1>2. CASE UNCHANGED vars
    <2>1. (CallersInv /\ FibersInv /\ LockInv /\ RunnersInv)'
      BY <1>2 DEF vars, callerVars, IInv, Bookkeeping, CallersInv, FibersInv,
           LockInv, RunnersInv
    <2>2. (InterruptInv /\ OpenInv /\ AwaitInv /\ LiveWorkOwned)'
      BY <1>2 DEF vars, callerVars, IInv, Bookkeeping, InterruptInv, OpenInv,
           AwaitInv, LiveWorkOwned, Interrupting, Owns
    <2>3. QED
      BY <1>1, <2>1, <2>2 DEF IInv, Bookkeeping
  <1>3. CASE Next
    <2>1. PICK c \in Callers : CallerStep(c) \/ WorkStep(c) \/ UnwindStep(c)
      BY <1>3 DEF Next
    <2>2. CASE CallerStep(c)
      BY <2>2, LoopKeepsBooks, ShellKeepsBooks, CancelKeepsBooks, <1>1
      DEF CallerStep, IInv
    <2>3. CASE WorkStep(c)
      BY <2>3, WorkKeepsBooks, <1>1 DEF WorkStep, IInv
    <2>4. CASE UnwindStep(c)
      BY <2>4, CleanupKeepsBooks, <1>1 DEF UnwindStep, IInv
    <2>5. QED
      BY <2>1, <2>2, <2>3, <2>4
  <1>4. QED
    BY <1>2, <1>3

----------------------------------------------------------------------------
(* The theorems *)

(* In every behaviour of the run state the inductive invariant holds: types *)
(* and the bookkeeping of runners, fibers, Deferreds and handles.           *)
THEOREM Invariance == Spec => []IInv
  <1>1. Init => IInv
    BY InitIInv
  <1>2. IInv /\ [Next]_vars => IInv'
    BY InductiveStep
  <1>3. QED
    BY <1>1, <1>2, PTL DEF Spec

(* Every variable keeps its type. *)
THEOREM TypeCorrect == Spec => []TypeOK
  <1>1. IInv => TypeOK
    BY DEF IInv
  <1>2. QED
    BY <1>1, Invariance, PTL

(* Work that runs and is not about to be interrupted is the work its Runner *)
(* names, for any number of loops, shells and cancels: Runner.cancel can    *)
(* reach it, and the ids compared by finishRun and finishShell suffice to   *)
(* keep the exit of replaced work from ending its successor.                *)
THEOREM LiveWorkIsOwned == Spec => []LiveWorkOwned
  <1>1. IInv => LiveWorkOwned
    BY DEF IInv, Bookkeeping
  <1>2. QED
    BY <1>1, Invariance, PTL

(* No caller of ensureRunning waits for a Deferred that nobody will settle, *)
(* whichever cancels and shells come between.                               *)
THEOREM NoWaiterIsLost == Spec => []NoLostWaiter
  <1>1. IInv => NoLostWaiter
    <2> SUFFICES ASSUME IInv, NEW c \in Callers, pc[c] = "await",
                        done[target[c]] = "open", fiber[target[c]] \notin Alive
                 PROVE  LET st == runner[handle[target[c]]] IN
                          /\ st.tag = "ShellThenRun" /\ st.run = target[c]
                          /\ fiber[st.shell] \in Alive
      BY DEF NoLostWaiter
    <2> DEFINE d == target[c]
    <2>1. d \in Callers
      BY DEF IInv, Bookkeeping, CallersInv
    <2>2. handle[d] \in Callers /\ runner[handle[d]].tag = "ShellThenRun"
          /\ runner[handle[d]].run = d
      BY <2>1 DEF IInv, Bookkeeping, OpenInv
    <2>3. fiber[runner[handle[d]].shell] \in Alive
      BY <2>2 DEF IInv, Bookkeeping, RunnersInv, Alive, Finalizing
    <2>4. QED
      BY <2>2, <2>3
  <1>2. QED
    BY <1>1, Invariance, PTL

(* A run that waits for a shell starts only when that shell's work is over, *)
(* cleanup included: only the shell's own finishShell starts it.            *)
THEOREM RunsAfterTheShell == Spec => RunAfterShell
  <1> DEFINE Late == \A s, c, r \in Callers :
        (runner[r] = ShellThenRun(s, c) /\ fiber[c] = "none" /\ fiber'[c] = "active")
          => fiber'[s] \notin {"active", "stopping"}
  <1>1. IInv /\ [Next]_vars => Late
    <2> SUFFICES ASSUME IInv, [Next]_vars,
                        NEW s \in Callers, NEW c \in Callers, NEW r \in Callers,
                        runner[r] = ShellThenRun(s, c),
                        fiber[c] = "none", fiber'[c] = "active"
                 PROVE  fiber'[s] \notin {"active", "stopping"}
      OBVIOUS
    <2>1. runner[r].tag = "ShellThenRun" /\ runner[r].run = c /\ runner[r].shell = s
      BY DEF ShellThenRun
    <2>2. /\ op[c] = "loop" /\ handle[c] = r /\ done[c] = "open"
          /\ op[s] = "shell" /\ handle[s] = r
      BY <2>1 DEF IInv, Bookkeeping, RunnersInv
    <2>3. fiber \in [Callers -> FiberStates]
      BY DEF IInv, TypeOK
    <2>4. PICK k \in Callers : CallerStep(k) \/ WorkStep(k) \/ UnwindStep(k)
      BY DEF Next, vars
    <2>5. CASE CallerStep(k)
      <3>1. ~ StartRun(c) /\ ~ StartShell(c)
        BY <2>2 DEF StartRun, StartShell, AtLoop, IInv, Bookkeeping, FibersInv,
             CallersInv
      <3>2. fiber'[c] = fiber[c] \/ (k = c /\ (StartRun(k) \/ StartShell(k)))
        BY <2>3, <2>5 DEF CallerStep, LoopStep, ShellStep, CancelStep,
             RunnerLookup, StartRun, QueueBehindShell, JoinRun, LoopReturns,
             ShellRejected, ShellBusy, StartShell, ShellReturns, CancelLookup,
             CancelIdle, CancelModify, CancelInterrupt, IdleIfCurrent,
             CancelUntrack, CancelIdling
      <3>3. QED
        BY <3>1, <3>2
    <2>6. CASE WorkStep(k)
      BY <2>3, <2>6 DEF WorkStep, WorkStatus, WorkEnds, SetFiber
    <2>7. CASE UnwindStep(k)
      <3>1. CASE FinishShell(k)
        <4>1. /\ Owns(handle[k], k) /\ runner[handle[k]].tag = "ShellThenRun"
              /\ runner[handle[k]].run = c
              /\ fiber' = [fiber EXCEPT ![k] = "dead", ![c] = "active"]
          BY <2>3, <3>1 DEF FinishShell, SetFiber, Owns
        <4>2. op[k] = "shell" /\ handle[k] \in Callers
          BY <3>1 DEF FinishShell, IInv, Bookkeeping, FibersInv
        <4>3. handle[c] = handle[k]
          BY <4>1, <4>2 DEF IInv, Bookkeeping, RunnersInv
        <4>4. s = k
          BY <2>1, <2>2, <4>1, <4>2, <4>3 DEF Owns
        <4>5. QED
          BY <2>2, <2>3, <4>1, <4>4
      <3>2. CASE Unwind(k) \/ FinishRun(k) \/ Untrack(k) \/ Idling(k) \/ Settle(k)
        BY <2>3, <3>2 DEF Unwind, FinishRun, Untrack, Idling, Settle, SetFiber
      <3>3. QED
        BY <2>7, <3>1, <3>2 DEF UnwindStep, CleanupStep
    <2>8. QED
      BY <2>4, <2>5, <2>6, <2>7
  <1>2. QED
    BY <1>1, Invariance, PTL DEF Spec, RunAfterShell

----------------------------------------------------------------------------
(* What the session is still busy with. *)

(* A Runner in the table is busy, or is about to be, or somebody is about   *)
(* to take it out.                                                          *)
Tracked == current # None =>
  \/ runner[current].tag # "Idle"
  \/ \E c \in Callers :
       \/ /\ handle[c] = current
          /\ \/ op[c] # "cancel" /\ pc[c] \in {"modify", "shellBusy"}
             \/ pc[c] \in {"interrupt", "unwound"}
       \/ pc[c] = "untrack"
       \/ fiber[c] = "untrack"

(* A busy status has work behind it, or somebody is about to reset it. *)
BusyForCause == status = "busy" =>
  \E c \in Callers :
    \/ runner[c].tag # "Idle"
    \/ pc[c] \in {"shellBusy", "interrupt", "unwound", "untrack", "idling"}
    \/ fiber[c] \in {"untrack", "idling"}

LEMMA CausesStep ==
  ASSUME IInv, Tracked, BusyForCause, NEW c \in Callers,
         CallerStep(c) \/ WorkStep(c) \/ UnwindStep(c)
  PROVE  Tracked' /\ BusyForCause'
<1> USE NoneAssumption DEF Goto, SetFiber, SetStatus, callerVars
<1>0. TypeOK /\ CallersInv /\ FibersInv /\ LockInv /\ RunnersInv /\ LiveWorkOwned
  BY DEF IInv, Bookkeeping
<1>a. /\ pc \in [Callers -> PCs] /\ fiber \in [Callers -> FiberStates]
      /\ handle \in [Callers -> Callers \cup {None}] /\ DOMAIN runner = Callers
      /\ current \in Callers \cup {None}
      /\ op \in [Callers -> Ops]
  BY <1>0 DEF TypeOK
<1>b. \A k \in Callers : /\ Running(k).tag # "Idle" /\ Shell(k).tag # "Idle"
                         /\ \A j \in Callers : ShellThenRun(k, j).tag # "Idle"
  BY RunnerValues
<1> DEFINE Goal == Tracked' /\ BusyForCause'
<1>1. ASSUME LoopStep(c) PROVE Goal
  <2>1. CASE RunnerLookup(c)
    BY <1>a, <2>1 DEF RunnerLookup, Tracked, BusyForCause
  <2>2. CASE StartRun(c)
    <3>1. handle[c] \in Callers /\ Running(c).tag # "Idle"
      BY <1>0, <1>b, <2>2 DEF StartRun, AtLoop, CallersInv
    <3>2. /\ runner'[handle[c]].tag # "Idle"
          /\ \A r \in Callers \ {handle[c]} : runner'[r] = runner[r]
      BY <1>a, <2>2, <3>1 DEF StartRun
    <3>3. fiber[c] = "none"
      BY <1>0, <2>2 DEF StartRun, AtLoop, FibersInv
    <3>4. /\ \A k \in Callers \ {c} : pc'[k] = pc[k] /\ fiber'[k] = fiber[k]
          /\ pc[c] \in {"modify", "shellBusy"} /\ UNCHANGED <<op, handle, current>>
      BY <1>a, <2>2 DEF StartRun, AtLoop
    <3>5. BusyForCause'
      BY <3>1, <3>2 DEF BusyForCause
    <3>6. Tracked'
      BY <1>a, <3>2, <3>3, <3>4 DEF Tracked
    <3> QED BY <3>5, <3>6
  <2>3. CASE QueueBehindShell(c)
    <3>1. handle[c] \in Callers /\ runner[handle[c]].shell \in Callers
      BY <1>0, <2>3, RunnerRefs DEF QueueBehindShell, AtLoop, CallersInv
    <3>2. ShellThenRun(runner[handle[c]].shell, c).tag # "Idle"
      BY <1>b, <3>1
    <3> QED BY <1>a, <2>3, <3>1, <3>2 DEF QueueBehindShell, AtLoop, Tracked, BusyForCause
  <2>4. CASE JoinRun(c)
    BY <1>a, <2>4 DEF JoinRun, AtLoop, Tracked, BusyForCause
  <2>5. CASE LoopReturns(c)
    BY <1>a, <2>5 DEF LoopReturns, Tracked, BusyForCause
  <2> QED BY <1>1, <2>1, <2>2, <2>3, <2>4, <2>5 DEF LoopStep
<1>2. ASSUME ShellStep(c) PROVE Goal
  <2>1. CASE ShellRejected(c) \/ ShellReturns(c)
    BY <1>a, <2>1 DEF ShellRejected, ShellReturns, AtShell, Tracked, BusyForCause
  <2>2. CASE ShellBusy(c)
    BY <1>a, <2>2 DEF ShellBusy, AtShell, Tracked, BusyForCause
  <2>3. CASE StartShell(c)
    <3>1. handle[c] \in Callers /\ Shell(c).tag # "Idle"
      BY <1>0, <1>b, <2>3 DEF StartShell, CallersInv
    <3>2. /\ runner'[handle[c]].tag # "Idle"
          /\ \A r \in Callers \ {handle[c]} : runner'[r] = runner[r]
      BY <1>a, <2>3, <3>1 DEF StartShell
    <3>3. fiber[c] = "none"
      BY <1>0, <2>3 DEF StartShell, FibersInv
    <3>4. /\ \A k \in Callers \ {c} : pc'[k] = pc[k] /\ fiber'[k] = fiber[k]
          /\ pc[c] \in {"modify", "shellBusy"} /\ UNCHANGED <<op, handle, current>>
      BY <1>a, <2>3 DEF StartShell
    <3>5. BusyForCause'
      BY <3>1, <3>2 DEF BusyForCause
    <3>6. Tracked'
      BY <1>a, <3>2, <3>3, <3>4 DEF Tracked
    <3> QED BY <3>5, <3>6
  <2> QED BY <1>2, <2>1, <2>2, <2>3 DEF ShellStep
<1>3. ASSUME CancelStep(c) PROVE Goal
  <2>1. CASE CancelLookup(c)
    BY <1>a, <2>1 DEF CancelLookup, Tracked, BusyForCause
  <2>2. CASE CancelModify(c)
    <3>1. handle[c] \in Callers /\ Idle.tag = "Idle"
      BY <1>0, <2>2, RunnerValues DEF CancelModify, CallersInv
    <3>2. CASE runner[handle[c]].tag = "Idle"
      BY <1>a, <2>2, <3>1, <3>2 DEF CancelModify, Tracked, BusyForCause
    <3>3. CASE runner[handle[c]].tag # "Idle"
      <4>1. pc' = [pc EXCEPT ![c] = "interrupt"]
        BY <2>2, <3>3 DEF CancelModify
      <4>2. BusyForCause'
        BY <1>a, <4>1 DEF BusyForCause
      <4>3. Tracked'
        BY <1>a, <2>2, <3>1, <3>3, <4>1 DEF CancelModify, Tracked
      <4> QED BY <4>2, <4>3
    <3> QED BY <3>2, <3>3
  <2>3. CASE CancelInterrupt(c)
    <3>1. handle[c] \in Callers /\ target[c] \in Callers
      BY <1>0, <2>3 DEF CancelInterrupt, CallersInv
    <3> QED BY <1>a, <2>3, <3>1 DEF CancelInterrupt, Tracked, BusyForCause
  <2>4. CASE IdleIfCurrent(c)
    <3>1. handle[c] \in Callers
      BY <1>0, <2>4 DEF IdleIfCurrent, CallersInv
    <3> QED BY <1>a, <2>4, <3>1 DEF IdleIfCurrent, Tracked, BusyForCause
  <2>5. CASE CancelIdle(c) \/ CancelUntrack(c) \/ CancelIdling(c)
    BY <1>a, <2>5 DEF CancelIdle, CancelUntrack, CancelIdling, Tracked, BusyForCause
  <2> QED BY <1>3, <2>1, <2>2, <2>3, <2>4, <2>5 DEF CancelStep
<1>4. ASSUME WorkStatus(c) \/ WorkEnds(c) PROVE Goal
  <2>1. Tracked'
    BY <1>4, <1>a DEF WorkStatus, WorkEnds, Tracked
  <2>2. CASE status' = "busy" /\ status # "busy"
    <3>1. fiber[c] = "active" /\ UNCHANGED <<pc, fiber, runner>>
      BY <1>4, <2>2 DEF WorkStatus, WorkEnds
    <3>2. handle[c] \in Callers /\ (Owns(handle[c], c) \/ Interrupting(c))
      BY <1>0, <3>1 DEF FibersInv, LiveWorkOwned
    <3>3. BusyForCause'
      BY <3>1, <3>2 DEF BusyForCause, Owns, Interrupting
    <3> QED BY <2>1, <3>3
  <2>3. CASE status' = "busy" => status = "busy"
    BY <1>4, <1>a, <2>1, <2>3 DEF WorkStatus, WorkEnds, BusyForCause
  <2> QED BY <2>2, <2>3
<1>5. ASSUME CleanupStep(c) PROVE Goal
  <2>1. CASE Unwind(c)
    BY <1>a, <2>1 DEF Unwind, Tracked, BusyForCause
  <2>2. CASE FinishRun(c)
    <3>1. handle[c] \in Callers
      BY <1>0, <2>2 DEF FinishRun, FibersInv
    <3> QED BY <1>a, <2>2, <3>1 DEF FinishRun, Tracked, BusyForCause
  <2>3. CASE FinishShell(c)
    <3> DEFINE st == runner[handle[c]]
    <3>1. handle[c] \in Callers /\ fiber[c] = "exiting"
      BY <1>0, <2>3 DEF FinishShell, FibersInv
    <3>2. CASE ~ Owns(handle[c], c)
      BY <1>a, <2>3, <3>1, <3>2 DEF FinishShell, Tracked, BusyForCause
    <3>3. CASE Owns(handle[c], c) /\ st.tag = "Shell"
      BY <1>a, <2>3, <3>1, <3>3 DEF FinishShell, Tracked, BusyForCause
    <3>4. CASE Owns(handle[c], c) /\ st.tag # "Shell"
      <4>1. op[c] = "shell"
        BY <2>3 DEF FinishShell
      <4>2. st.tag = "ShellThenRun"
        BY <3>4, <4>1 DEF Owns
      <4>3. st.run \in Callers /\ fiber[st.run] = "none"
        BY <1>0, <3>1, <4>2, RunnerRefs DEF RunnersInv
      <4>4. Running(st.run).tag # "Idle"
        BY <1>b, <4>3
      <4>5. /\ runner' = [runner EXCEPT ![handle[c]] = Running(st.run)]
            /\ fiber' = [fiber EXCEPT ![c] = "dead", ![st.run] = "active"]
            /\ UNCHANGED <<op, pc, handle, current, status>>
        BY <2>3, <3>4 DEF FinishShell
      <4>6. \A k \in Callers : fiber[k] \in {"untrack", "idling"} => fiber'[k] = fiber[k]
        BY <1>a, <3>1, <4>3, <4>5
      <4>7. \A r \in Callers : runner[r].tag # "Idle" => runner'[r].tag # "Idle"
        BY <1>a, <4>4, <4>5
      <4> QED BY <1>a, <4>5, <4>6, <4>7 DEF Tracked, BusyForCause
    <3> QED BY <3>2, <3>3, <3>4
  <2>4. CASE Untrack(c) \/ Idling(c)
    BY <1>a, <2>4 DEF Untrack, Idling, Tracked, BusyForCause
  <2>5. CASE Settle(c)
    BY <1>a, <2>5 DEF Settle, Tracked, BusyForCause
  <2> QED BY <1>5, <2>1, <2>2, <2>3, <2>4, <2>5 DEF CleanupStep
<1> QED BY <1>1, <1>2, <1>3, <1>4, <1>5 DEF CallerStep, WorkStep, UnwindStep

(* When every operation has ended and no work is left, the session is idle  *)
(* for everybody: SessionRunState.QuiescentIdle.                            *)
THEOREM EndsIdle == Spec => []QuiescentIdle
<1>1. Init => Tracked /\ BusyForCause
  BY DEF Init, Tracked, BusyForCause
<1>2. IInv /\ Tracked /\ BusyForCause /\ [Next]_vars => Tracked' /\ BusyForCause'
  <2>1. UNCHANGED vars /\ Tracked /\ BusyForCause => Tracked' /\ BusyForCause'
    BY DEF vars, callerVars, Tracked, BusyForCause
  <2> QED BY <2>1, CausesStep DEF Next
<1>3. IInv /\ Tracked /\ BusyForCause => QuiescentIdle
  <2> SUFFICES ASSUME IInv, Tracked, BusyForCause,
                      \A c \in Callers : /\ pc[c] \in {"start", "returned", "rejected"}
                                         /\ fiber[c] \in {"none", "dead"}
               PROVE  current = None /\ status = "idle"
    BY DEF QuiescentIdle
  <2>1. \A r \in Callers : runner[r].tag = "Idle"
    BY RunnerRefs DEF IInv, Bookkeeping, RunnersInv
  <2> QED BY <2>1 DEF Tracked, BusyForCause, IInv, TypeOK
<1> QED BY <1>1, <1>2, <1>3, Invariance, PTL DEF Spec
============================================================================
