-------------------------- MODULE SessionRunState --------------------------
(***************************************************************************)
(* The execution state of ONE session: the Runner state machine            *)
(* (effect/runner.ts), the table that maps the session to its runner       *)
(* (session/run-state.ts) and the session's status (session/status.ts).    *)
(*                                                                         *)
(* Each caller performs one operation: "loop" (ensureRunning), "shell"     *)
(* (startShell) or "cancel".  A caller makes at most one Runner and starts *)
(* at most one piece of work, so the Runner it would make, the fiber of    *)
(* its work and the Deferred of its run all carry the caller's name.       *)
(*                                                                         *)
(* A step is one Effect operation: an update under the Runner's            *)
(* SynchronizedRef, or one call of a callback outside it.  With Preempt    *)
(* any fiber may run between two operations of another; without it a fiber *)
(* keeps the event loop until it waits for something.                      *)
(***************************************************************************)

CONSTANTS
  Callers,   \* the fibers that call into SessionRunState
  None,      \* no runner, no caller
  Preempt    \* may the scheduler switch fibers between any two operations?

ASSUME NoneAssumption    == None \notin Callers
ASSUME PreemptAssumption == Preempt \in BOOLEAN

VARIABLES
  op,        \* the operation each caller performs
  pc,        \* where each caller is in its operation
  handle,    \* the Runner object a caller has got hold of
  target,    \* the caller whose run, shell or fiber a caller waits for
  runner,    \* the state of each Runner object
  current,   \* runners.get(sessionID)
  fiber,     \* the fiber of each caller's work
  exit,      \* how that work ended
  done,      \* the Deferred of each caller's run
  status     \* SessionStatus of the session

callerVars == <<pc, handle, target>>
vars == <<op, callerVars, runner, current, fiber, exit, done, status>>

----------------------------------------------------------------------------
(* The Runner's states, after `State` in runner.ts. *)

Idle              == [tag |-> "Idle", run |-> None, shell |-> None]
Running(c)        == [tag |-> "Running", run |-> c, shell |-> None]
Shell(s)          == [tag |-> "Shell", run |-> None, shell |-> s]
ShellThenRun(s,c) == [tag |-> "ShellThenRun", run |-> c, shell |-> s]

RunnerStates ==
  {Idle} \cup {Running(c) : c \in Callers} \cup {Shell(s) : s \in Callers}
         \cup {ShellThenRun(s, c) : s, c \in Callers}

Ops == {"loop", "shell", "cancel"}

PCs == {"start", "modify", "shellBusy", "await", "cancelIdle", "interrupt",
        "unwound", "untrack", "idling", "returned", "rejected"}

(* none: not started; active: the work runs; stopping: interrupted, its     *)
(* cleanup runs; exiting: finishRun/finishShell is next; untrack, idling:   *)
(* the two operations of onIdle; settling: complete(done) is next.          *)
FiberStates == {"none", "active", "stopping", "exiting", "untrack", "idling",
                "settling", "dead"}

Finalizing == {"exiting", "untrack", "idling", "settling"}
Alive      == {"active", "stopping"} \cup Finalizing

TypeOK ==
  /\ op \in [Callers -> Ops]
  /\ pc \in [Callers -> PCs]
  /\ handle \in [Callers -> Callers \cup {None}]
  /\ target \in [Callers -> Callers \cup {None}]
  /\ runner \in [Callers -> RunnerStates]
  /\ current \in Callers \cup {None}
  /\ fiber \in [Callers -> FiberStates]
  /\ exit \in [Callers -> {"none", "done", "cancelled"}]
  /\ done \in [Callers -> {"none", "open", "done", "cancelled"}]
  /\ status \in {"idle", "busy"}

Init ==
  /\ op \in [Callers -> Ops]
  /\ pc = [c \in Callers |-> "start"]
  /\ handle = [c \in Callers |-> None]
  /\ target = [c \in Callers |-> None]
  /\ runner = [c \in Callers |-> Idle]
  /\ current = None
  /\ fiber = [c \in Callers |-> "none"]
  /\ exit = [c \in Callers |-> "none"]
  /\ done = [c \in Callers |-> "none"]
  /\ status = "idle"

----------------------------------------------------------------------------
(* Runner r is running the work of c. *)
Owns(r, c) ==
  IF op[c] = "loop"
    THEN runner[r].tag = "Running" /\ runner[r].run = c
    ELSE runner[r].tag \in {"Shell", "ShellThenRun"} /\ runner[r].shell = c

(* The Runner's lock: only startShell keeps it over more than one step,     *)
(* while its onBusy callback runs.                                          *)
Locked(r) == \E k \in Callers : pc[k] = "shellBusy" /\ handle[k] = r

Goto(c, l) == pc' = [pc EXCEPT ![c] = l]

(* SessionStatus.set: an absent entry is idle. *)
SetStatus(s) == status' = s

(* assertNotBusy(sessionID) throws BusyError. *)
SessionBusy == current # None /\ runner[current].tag # "Idle"

(* ensureRunning and startShell: take the session's runner, or make one. *)
RunnerLookup(c) ==
  /\ pc[c] = "start"
  /\ op[c] \in {"loop", "shell"}
  /\ handle' = [handle EXCEPT ![c] = IF current = None THEN c ELSE current]
  /\ current' = handle'[c]
  /\ Goto(c, "modify")
  /\ UNCHANGED <<op, target, runner, fiber, exit, done, status>>

AtLoop(c) == pc[c] = "modify" /\ op[c] = "loop" /\ ~ Locked(handle[c])

(* ensureRunning, case Idle: startRun forks the work. *)
StartRun(c) ==
  /\ AtLoop(c)
  /\ runner[handle[c]].tag = "Idle"
  /\ runner' = [runner EXCEPT ![handle[c]] = Running(c)]
  /\ fiber' = [fiber EXCEPT ![c] = "active"]
  /\ done' = [done EXCEPT ![c] = "open"]
  /\ target' = [target EXCEPT ![c] = c]
  /\ Goto(c, "await")
  /\ UNCHANGED <<op, handle, current, exit, status>>

(* ensureRunning, case Shell: the run waits for the shell to exit. *)
QueueBehindShell(c) ==
  /\ AtLoop(c)
  /\ runner[handle[c]].tag = "Shell"
  /\ runner' = [runner EXCEPT ![handle[c]] = ShellThenRun(@.shell, c)]
  /\ done' = [done EXCEPT ![c] = "open"]
  /\ target' = [target EXCEPT ![c] = c]
  /\ Goto(c, "await")
  /\ UNCHANGED <<op, handle, current, fiber, exit, status>>

(* ensureRunning, cases Running and ShellThenRun: share that run. *)
JoinRun(c) ==
  /\ AtLoop(c)
  /\ runner[handle[c]].tag \in {"Running", "ShellThenRun"}
  /\ target' = [target EXCEPT ![c] = runner[handle[c]].run]
  /\ Goto(c, "await")
  /\ UNCHANGED <<op, handle, runner, current, fiber, exit, done, status>>

(* Deferred.await answers; on Cancelled the caller reads the last message   *)
(* of the session instead (onInterrupt), which changes nothing here.        *)
LoopReturns(c) ==
  /\ pc[c] = "await"
  /\ op[c] = "loop"
  /\ done[target[c]] # "open"
  /\ Goto(c, "returned")
  /\ UNCHANGED <<op, handle, target, runner, current, fiber, exit, done, status>>

----------------------------------------------------------------------------
(* startShell *)

AtShell(c) == pc[c] = "modify" /\ op[c] = "shell" /\ ~ Locked(handle[c])

ShellRejected(c) ==
  /\ AtShell(c)
  /\ runner[handle[c]].tag # "Idle"
  /\ Goto(c, "rejected")
  /\ UNCHANGED <<op, handle, target, runner, current, fiber, exit, done, status>>

(* onBusy, called with the lock held. *)
ShellBusy(c) ==
  /\ AtShell(c)
  /\ runner[handle[c]].tag = "Idle"
  /\ SetStatus("busy")
  /\ Goto(c, "shellBusy")
  /\ UNCHANGED <<op, handle, target, runner, current, fiber, exit, done>>

StartShell(c) ==
  /\ pc[c] = "shellBusy"
  /\ runner' = [runner EXCEPT ![handle[c]] = Shell(c)]
  /\ fiber' = [fiber EXCEPT ![c] = "active"]
  /\ target' = [target EXCEPT ![c] = c]
  /\ Goto(c, "await")
  /\ UNCHANGED <<op, handle, current, exit, done, status>>

(* Fiber.await of the shell's fiber. *)
ShellReturns(c) ==
  /\ pc[c] = "await"
  /\ op[c] = "shell"
  /\ fiber[c] = "dead"
  /\ Goto(c, "returned")
  /\ UNCHANGED <<op, handle, target, runner, current, fiber, exit, done, status>>

----------------------------------------------------------------------------
(* cancel *)

(* SessionRunState.cancel: look the runner up and read its busy flag. *)
CancelLookup(c) ==
  /\ pc[c] = "start"
  /\ op[c] = "cancel"
  /\ IF SessionBusy
       THEN handle' = [handle EXCEPT ![c] = current] /\ Goto(c, "modify")
       ELSE UNCHANGED handle /\ Goto(c, "cancelIdle")
  /\ UNCHANGED <<op, target, runner, current, fiber, exit, done, status>>

CancelIdle(c) ==
  /\ pc[c] = "cancelIdle"
  /\ SetStatus("idle")
  /\ Goto(c, "returned")
  /\ UNCHANGED <<op, handle, target, runner, current, fiber, exit, done>>

(* Mutant: a cancel of the shell lets the run that waits for it begin.      *)
CancelModifyStartsPending(c) ==
  LET st == runner[handle[c]] IN
  /\ pc[c] = "modify"
  /\ op[c] = "cancel"
  /\ ~ Locked(handle[c])
  /\ runner' = [runner EXCEPT ![handle[c]] =
                  IF st.tag = "ShellThenRun" THEN Running(st.run) ELSE Idle]
  /\ fiber' = IF st.tag = "ShellThenRun"
                THEN [fiber EXCEPT ![st.run] = "active"] ELSE fiber
  /\ IF st.tag = "Idle"
       THEN Goto(c, "returned") /\ UNCHANGED target
       ELSE /\ Goto(c, "interrupt")
            /\ target' = [target EXCEPT ![c] =
                            IF st.tag = "Running" THEN st.run ELSE st.shell]
  /\ UNCHANGED <<op, handle, current, exit, done, status>>

(* Mutant: nobody settles the Deferred of a run that waits for the shell. *)
CancelModifyForgetsPending(c) ==
  /\ pc[c] = "modify"
  /\ op[c] = "cancel"
  /\ ~ Locked(handle[c])
  /\ runner' = [runner EXCEPT ![handle[c]] = Idle]
  /\ IF runner[handle[c]].tag = "Idle"
       THEN Goto(c, "returned") /\ UNCHANGED target
       ELSE /\ Goto(c, "interrupt")
            /\ target' = [target EXCEPT ![c] = IF runner[handle[c]].tag = "Running"
                                               THEN runner[handle[c]].run
                                               ELSE runner[handle[c]].shell]
  /\ UNCHANGED <<op, handle, current, fiber, exit, done, status>>

(* Runner.cancel: the Runner is Idle at once; what was running is           *)
(* interrupted next, and a run that waits for the shell fails as Cancelled  *)
(* (nobody else can settle that Deferred any more).                         *)
CancelModify(c) ==
  LET st == runner[handle[c]] IN
  /\ pc[c] = "modify"
  /\ op[c] = "cancel"
  /\ ~ Locked(handle[c])
  /\ runner' = [runner EXCEPT ![handle[c]] = Idle]
  /\ IF st.tag = "Idle"
       THEN Goto(c, "returned") /\ UNCHANGED target
       ELSE /\ Goto(c, "interrupt")
            /\ target' = [target EXCEPT ![c] =
                            IF st.tag = "Running" THEN st.run ELSE st.shell]
  /\ done' = IF st.tag = "ShellThenRun"
               THEN [done EXCEPT ![st.run] = "cancelled"] ELSE done
  /\ UNCHANGED <<op, handle, current, fiber, exit, status>>

(* Fiber.interrupt: work that runs starts its cleanup; an exit finalizer    *)
(* is not interruptible.                                                    *)
CancelInterrupt(c) ==
  /\ pc[c] = "interrupt"
  /\ fiber' = [fiber EXCEPT ![target[c]] = IF @ = "active" THEN "stopping" ELSE @]
  /\ Goto(c, "unwound")
  /\ UNCHANGED <<op, handle, target, runner, current, exit, done, status>>

(* Mutant: cancel leaves onIdle to finishRun and finishShell. *)
IdleIfCurrentNever(c) ==
  /\ pc[c] = "unwound"
  /\ fiber[target[c]] = "dead"
  /\ ~ Locked(handle[c])
  /\ Goto(c, "returned")
  /\ UNCHANGED <<op, handle, target, runner, current, fiber, exit, done, status>>

(* The interrupted fiber has exited and its Deferred is settled:            *)
(* idleIfCurrent runs onIdle if the Runner is (again) Idle.                 *)
IdleIfCurrent(c) ==
  /\ pc[c] = "unwound"
  /\ fiber[target[c]] = "dead"
  /\ ~ Locked(handle[c])
  /\ Goto(c, IF runner[handle[c]].tag = "Idle" THEN "untrack" ELSE "returned")
  /\ UNCHANGED <<op, handle, target, runner, current, fiber, exit, done, status>>

(* onIdle, first operation: runners.delete(sessionID), whatever is there. *)
CancelUntrack(c) ==
  /\ pc[c] = "untrack"
  /\ current' = None
  /\ Goto(c, "idling")
  /\ UNCHANGED <<op, handle, target, runner, fiber, exit, done, status>>

(* onIdle, second operation: status.set(sessionID, idle). *)
CancelIdling(c) ==
  /\ pc[c] = "idling"
  /\ SetStatus("idle")
  /\ Goto(c, "returned")
  /\ UNCHANGED <<op, handle, target, runner, current, fiber, exit, done>>

----------------------------------------------------------------------------
(* The work's fiber *)

SetFiber(c, s) == fiber' = [fiber EXCEPT ![c] = s]

(* runLoop and the message processor set the status busy at every step; the *)
(* processor sets it idle when it halts on an error, of which an            *)
(* interruption is one.  Retrying is a way of being busy here.              *)
WorkStatus(c) ==
  /\ op[c] = "loop"
  /\ \/ fiber[c] = "active" /\ (SetStatus("busy") \/ SetStatus("idle"))
     \/ fiber[c] = "stopping" /\ SetStatus("idle")
  /\ UNCHANGED <<op, callerVars, runner, current, fiber, exit, done>>

WorkEnds(c) ==
  /\ fiber[c] = "active"
  /\ SetFiber(c, "exiting")
  /\ exit' = [exit EXCEPT ![c] = "done"]
  /\ UNCHANGED <<op, callerVars, runner, current, done, status>>

(* The cleanup of interrupted work ends; its exit may still be a result or  *)
(* a failure, and only an interrupt-only exit counts as Cancelled.          *)
Unwind(c) ==
  /\ fiber[c] = "stopping"
  /\ SetFiber(c, "exiting")
  /\ \E x \in {"done", "cancelled"} : exit' = [exit EXCEPT ![c] = x]
  /\ UNCHANGED <<op, callerVars, runner, current, done, status>>

(* Mutant: finishRun does not compare run ids. *)
FinishAnyRun(c) ==
  /\ fiber[c] = "exiting"
  /\ op[c] = "loop"
  /\ ~ Locked(handle[c])
  /\ IF runner[handle[c]].tag = "Running"
       THEN /\ runner' = [runner EXCEPT ![handle[c]] = Idle]
            /\ SetFiber(c, "untrack")
       ELSE UNCHANGED runner /\ SetFiber(c, "settling")
  /\ UNCHANGED <<op, callerVars, current, exit, done, status>>

(* finishRun: onIdle runs only if this run is still the Runner's. *)
FinishRun(c) ==
  /\ fiber[c] = "exiting"
  /\ op[c] = "loop"
  /\ ~ Locked(handle[c])
  /\ IF Owns(handle[c], c)
       THEN /\ runner' = [runner EXCEPT ![handle[c]] = Idle]
            /\ SetFiber(c, "untrack")
       ELSE UNCHANGED runner /\ SetFiber(c, "settling")
  /\ UNCHANGED <<op, callerVars, current, exit, done, status>>

(* finishShell: to Idle, or start the run that waits for this shell. *)
FinishShell(c) ==
  LET st == runner[handle[c]] IN
  /\ fiber[c] = "exiting"
  /\ op[c] = "shell"
  /\ ~ Locked(handle[c])
  /\ IF ~ Owns(handle[c], c) THEN UNCHANGED runner /\ SetFiber(c, "dead")
     ELSE IF st.tag = "Shell"
       THEN /\ runner' = [runner EXCEPT ![handle[c]] = Idle]
            /\ SetFiber(c, "untrack")
       ELSE /\ runner' = [runner EXCEPT ![handle[c]] = Running(st.run)]
            /\ fiber' = [fiber EXCEPT ![c] = "dead", ![st.run] = "active"]
  /\ UNCHANGED <<op, callerVars, current, exit, done, status>>

Untrack(c) ==
  /\ fiber[c] = "untrack"
  /\ current' = None
  /\ SetFiber(c, "idling")
  /\ UNCHANGED <<op, callerVars, runner, exit, done, status>>

Idling(c) ==
  /\ fiber[c] = "idling"
  /\ SetStatus("idle")
  /\ SetFiber(c, IF op[c] = "loop" THEN "settling" ELSE "dead")
  /\ UNCHANGED <<op, callerVars, runner, current, exit, done>>

(* Mutant: only a result completes the Deferred. *)
SettleResultsOnly(c) ==
  /\ fiber[c] = "settling"
  /\ done' = [done EXCEPT ![c] = IF exit[c] = "done" THEN "done" ELSE @]
  /\ SetFiber(c, "dead")
  /\ UNCHANGED <<op, callerVars, runner, current, exit, status>>

(* complete(done, exit) *)
Settle(c) ==
  /\ fiber[c] = "settling"
  /\ done' = [done EXCEPT ![c] = exit[c]]
  /\ SetFiber(c, "dead")
  /\ UNCHANGED <<op, callerVars, runner, current, exit, status>>

----------------------------------------------------------------------------
(* Who may take a step: anyone, or without Preempt the fiber that is in the *)
(* middle of operations it performs without waiting.                        *)

CallerMidway(c) ==
  pc[c] \in {"modify", "shellBusy", "cancelIdle", "interrupt", "untrack", "idling"}
FiberMidway(c) == fiber[c] \in Finalizing

CallerTurn(c) == ~ Preempt =>
  /\ \A k \in Callers \ {c} : ~ CallerMidway(k)
  /\ \A k \in Callers : ~ FiberMidway(k)
FiberTurn(c) == ~ Preempt =>
  /\ \A k \in Callers : ~ CallerMidway(k)
  /\ \A k \in Callers \ {c} : ~ FiberMidway(k)

LoopStep(c) ==
  RunnerLookup(c) \/ StartRun(c) \/ QueueBehindShell(c) \/ JoinRun(c) \/ LoopReturns(c)
ShellStep(c) ==
  ShellRejected(c) \/ ShellBusy(c) \/ StartShell(c) \/ ShellReturns(c)
CancelStep(c) ==
  \/ CancelLookup(c) \/ CancelIdle(c) \/ CancelModify(c) \/ CancelInterrupt(c)
  \/ IdleIfCurrent(c) \/ CancelUntrack(c) \/ CancelIdling(c)
CleanupStep(c) ==
  \/ Unwind(c) \/ FinishRun(c) \/ FinishShell(c) \/ Untrack(c) \/ Idling(c)
  \/ Settle(c)

CallerStep(c)  == CallerTurn(c) /\ (LoopStep(c) \/ ShellStep(c) \/ CancelStep(c))
WorkStep(c)    == FiberTurn(c) /\ (WorkStatus(c) \/ WorkEnds(c))
UnwindStep(c)  == FiberTurn(c) /\ CleanupStep(c)

Next == \E c \in Callers : CallerStep(c) \/ WorkStep(c) \/ UnwindStep(c)

Spec == Init /\ [][Next]_vars

(* Callers and cleanups are scheduled by the runtime; the work itself (a    *)
(* model's stream, a command) may run for ever.                             *)
Fairness == \A c \in Callers : WF_vars(CallerStep(c)) /\ WF_vars(UnwindStep(c))

FairSpec == Spec /\ Fairness

----------------------------------------------------------------------------
(* Properties *)

(* A caller about to interrupt the work of c. *)
Interrupting(c) == \E k \in Callers :
  op[k] = "cancel" /\ pc[k] = "interrupt" /\ target[k] = c

(* Work that runs and is not being interrupted is what its Runner says it   *)
(* is running: Runner.cancel can reach it, and no Runner has two of them.   *)
LiveWorkOwned == \A c \in Callers :
  fiber[c] = "active" => Owns(handle[c], c) \/ Interrupting(c)

(* A caller of ensureRunning never waits for a Deferred nobody will settle: *)
(* the run's fiber lives, or a live shell will start it.                    *)
NoLostWaiter == \A c \in Callers :
  pc[c] = "await" /\ op[c] = "loop" /\ done[target[c]] = "open" =>
    \/ fiber[target[c]] \in Alive
    \/ LET st == runner[handle[target[c]]] IN
         st.tag = "ShellThenRun" /\ st.run = target[c] /\ fiber[st.shell] \in Alive

(* When every operation has ended and no work is left, the session is idle  *)
(* for everybody: no runner in the table and no busy status to stay for     *)
(* ever.                                                                    *)
QuiescentIdle ==
  (\A c \in Callers : /\ pc[c] \in {"start", "returned", "rejected"}
                      /\ fiber[c] \in {"none", "dead"})
    => current = None /\ status = "idle"

(* A run that waits for a shell never starts while that shell's work is     *)
(* still running or being cleaned up.                                       *)
RunAfterShell == [][\A s, c, r \in Callers :
  (runner[r] = ShellThenRun(s, c) /\ fiber[c] = "none" /\ fiber'[c] = "active")
    => fiber'[s] \notin {"active", "stopping"}]_vars

(* Everybody who waits for a run that was interrupted gets an answer, those *)
(* who joined it and those who were waiting behind a shell included.        *)
CancelledCallersReturn == \A c \in Callers :
  (pc[c] = "await" /\ (fiber[target[c]] = "stopping" \/ done[target[c]] = "cancelled"))
    ~> (pc[c] = "returned")

(* While a loop runs that nobody has cancelled, assertNotBusy throws        *)
(* BusyError ("assertNotBusy throws BusyError when loop running",           *)
(* test/session/prompt.test.ts).                                            *)
BusyWhileLoopRuns == \A c \in Callers :
  op[c] = "loop" /\ fiber[c] = "active" /\ ~ Interrupting(c) => SessionBusy

----------------------------------------------------------------------------
(* The inductive invariant behind LiveWorkOwned and NoLostWaiter. *)

(* Which operation is where, and which handles it has by then. *)
CallersInv == \A c \in Callers :
  /\ pc[c] \in {"shellBusy", "rejected"} => op[c] = "shell"
  /\ pc[c] \in {"cancelIdle", "interrupt", "unwound", "untrack", "idling"}
       => op[c] = "cancel"
  /\ pc[c] = "await" => op[c] \in {"loop", "shell"}
  /\ pc[c] \in {"modify", "shellBusy", "await", "interrupt", "unwound"}
       => handle[c] \in Callers
  /\ pc[c] \in {"await", "interrupt", "unwound"} => target[c] \in Callers

(* A caller's work starts once, after the caller chose its Runner. *)
FibersInv == \A c \in Callers :
  /\ op[c] = "cancel" \/ pc[c] \in {"start", "modify", "shellBusy"}
       => fiber[c] = "none" /\ done[c] = "none"
  /\ op[c] = "shell" => done[c] = "none"
  /\ fiber[c] # "none" => handle[c] \in Callers
  /\ fiber[c] \in Finalizing => exit[c] # "none"
  /\ fiber[c] = "settling" => op[c] = "loop"

(* While onBusy runs, the Runner is Idle and its lock has one holder. *)
LockInv == \A c \in Callers : pc[c] = "shellBusy" =>
  /\ runner[handle[c]] = Idle
  /\ \A k \in Callers : pc[k] = "shellBusy" /\ handle[k] = handle[c] => k = c

(* What a Runner names exists: its run or shell has not finished, and a run *)
(* that waits for the shell has not begun.                                  *)
RunnersInv == \A r \in Callers :
  /\ runner[r].tag = "Running" =>
       /\ op[runner[r].run] = "loop"
       /\ handle[runner[r].run] = r
       /\ fiber[runner[r].run] \in {"active", "exiting"}
       /\ done[runner[r].run] = "open"
  /\ runner[r].tag \in {"Shell", "ShellThenRun"} =>
       /\ op[runner[r].shell] = "shell"
       /\ handle[runner[r].shell] = r
       /\ fiber[runner[r].shell] \in {"active", "exiting"}
  /\ runner[r].tag = "ShellThenRun" =>
       /\ op[runner[r].run] = "loop"
       /\ handle[runner[r].run] = r
       /\ fiber[runner[r].run] = "none"
       /\ done[runner[r].run] = "open"

(* Work about to be interrupted has begun and is no Runner's any more. *)
InterruptInv == \A k \in Callers : pc[k] = "interrupt" =>
  /\ fiber[target[k]] # "none"
  /\ ~ Owns(handle[target[k]], target[k])

(* An unsettled Deferred has a fiber, or a shell before it, to settle it. *)
OpenInv == \A c \in Callers : done[c] = "open" =>
  /\ op[c] = "loop"
  /\ handle[c] \in Callers
  /\ \/ fiber[c] \in Alive
     \/ /\ runner[handle[c]].tag = "ShellThenRun"
        /\ runner[handle[c]].run = c

(* Who awaits a run awaits one that has a Deferred. *)
AwaitInv == \A c \in Callers :
  pc[c] = "await" /\ op[c] = "loop" => done[target[c]] # "none"

Bookkeeping == /\ CallersInv /\ FibersInv /\ LockInv /\ RunnersInv
               /\ InterruptInv /\ OpenInv /\ AwaitInv /\ LiveWorkOwned

IInv == TypeOK /\ Bookkeeping
============================================================================
