--------------------------- MODULE SessionTurns ----------------------------
(***************************************************************************)
(* The prompt queue and the run state of one session put together, as      *)
(* SessionPrompt does (session/prompt.ts): a prompt takes a slot of the    *)
(* queue and calls ensureRunning while it holds it, a cancel first makes   *)
(* the queue drop what waits and then cancels the runner, and a shell      *)
(* command calls startShell and knows nothing of the queue.                *)
(***************************************************************************)
EXTENDS Naturals

CONSTANTS
  Prompts,    \* callers of prompt(), one prompt each
  Others,     \* callers of the other operations
  OtherOps,   \* what the others may do
  None,
  Preempt

ASSUME CallersAssumption == Prompts \cap Others = {}
ASSUME NoneAssumption == None \notin Prompts \cup Others
ASSUME PreemptAssumption == Preempt \in BOOLEAN
ASSUME OtherOpsAssumption == OtherOps \subseteq {"loop", "shell", "cancel"}

Callers == Prompts \cup Others

VARIABLES op, pc, handle, target, runner, current, fiber, exit, done, status
VARIABLES slot, seq, seqOf, versionOf, previous, tail, version, latest,
          activeSince, scoped, doomed, newer
VARIABLE dropped   \* the cancels that have called KiloSessionPromptQueue.cancel

RS == INSTANCE SessionRunState
PQ == INSTANCE PromptQueue WITH target <- scoped

runVars   == <<op, pc, handle, target, runner, current, fiber, exit, done, status>>
queueVars == <<slot, seq, seqOf, versionOf, previous, tail, version, latest,
               activeSince, scoped, doomed, newer>>
vars == <<runVars, queueVars, dropped>>

TypeOK ==
  /\ RS!TypeOK
  /\ PQ!QueueTypeOK
  /\ dropped \subseteq Others

Init ==
  /\ RS!Init
  /\ \A p \in Prompts : op[p] = "loop"
  /\ \A c \in Others : op[c] \in OtherOps
  /\ PQ!QueueInit
  /\ dropped = {}

----------------------------------------------------------------------------

(* prompt(): the message is stored, the prompt takes a slot. *)
EnqueuePrompt(p) == PQ!Enqueue(p) /\ UNCHANGED <<runVars, dropped>>

TakeTurn(p) ==
  /\ PQ!StartSlot(p) \/ PQ!SkipSlot(p)
  /\ UNCHANGED <<runVars, dropped>>

(* The turn is over when ensureRunning has returned; a dropped prompt only  *)
(* reads the last message.                                                  *)
EndTurn(p) ==
  /\ slot[p] = "running" => pc[p] = "returned"
  /\ PQ!Release(p)
  /\ UNCHANGED <<runVars, dropped>>

(* SessionPrompt.cancel, first call. *)
DropQueued(c) ==
  /\ op[c] = "cancel"
  /\ c \notin dropped
  /\ PQ!CancelQueue
  /\ dropped' = dropped \cup {c}
  /\ UNCHANGED runVars

(* A caller's own steps: a prompt's once its slot runs, a cancel's once it  *)
(* has dropped the queue.                                                   *)
CallerStep(c) ==
  /\ c \in Prompts => slot[c] = "running"
  /\ op[c] = "cancel" => c \in dropped
  /\ RS!CallerStep(c)
  /\ UNCHANGED <<queueVars, dropped>>

WorkStep(c)   == RS!WorkStep(c) /\ UNCHANGED <<queueVars, dropped>>
UnwindStep(c) == RS!UnwindStep(c) /\ UNCHANGED <<queueVars, dropped>>

QueueStep(p) == TakeTurn(p) \/ EndTurn(p)

Next ==
  \/ \E p \in Prompts : EnqueuePrompt(p) \/ QueueStep(p)
  \/ \E c \in Others : DropQueued(c)
  \/ \E c \in Callers : CallerStep(c) \/ WorkStep(c) \/ UnwindStep(c)

Spec == Init /\ [][Next]_vars

(* As in SessionRunState: the runtime schedules callers, promises and       *)
(* cleanups; here every piece of work also ends by itself, since the queue  *)
(* rightly waits for work that doesn't.                                     *)
Fairness ==
  /\ \A p \in Prompts : WF_vars(QueueStep(p))
  /\ \A c \in Others : WF_vars(DropQueued(c))
  /\ \A c \in Callers : /\ WF_vars(CallerStep(c))
                        /\ WF_vars(UnwindStep(c))
                        /\ WF_vars(RS!FiberTurn(c) /\ RS!WorkEnds(c)
                                   /\ UNCHANGED <<queueVars, dropped>>)

FairSpec == Spec /\ Fairness

----------------------------------------------------------------------------
(* Properties *)

(* The queue and the runner together serve a line of prompts: the runner    *)
(* works for one prompt at a time, in the order in which the prompts were   *)
(* enqueued, never twice, and never while the work of an earlier prompt is  *)
(* still cleaning up after an interruption.                                 *)
Work(p) == IF fiber[p] = "none" THEN "fresh"
           ELSE IF fiber[p] \in RS!Alive THEN "working" ELSE "over"

Line == INSTANCE PromptLine WITH
          ticket <- seqOf,
          line   <- {p \in Prompts : PQ!Open(p)},
          work   <- [p \in Prompts |-> Work(p)]

ServesLine == Line!LineSpec

(* No prompt is swallowed by the run of another one: it waits for the run   *)
(* it started itself, which was started with its own message as target.     *)
OwnRun == \A p \in Prompts :
  /\ pc[p] = "await" => target[p] = p
  /\ fiber[p] = "active" => scoped = p

(* A cancel reaches every prompt sent before it: once its call to           *)
(* KiloSessionPromptQueue.cancel is made, none of the prompts that waited   *)
(* then is ever worked on.                                                  *)
DroppedNeverRuns == \A p \in doomed : fiber[p] = "none"

CancelDropsTheWaiting == PQ!CancelDropsTheWaiting
FollowupIsExact       == PQ!FollowupIsExact
QueueForgets          == PQ!QueueForgets

(* Every prompt is answered, cancelled or not. *)
EveryPromptAnswered == \A p \in Prompts :
  (slot[p] = "waiting") ~> (slot[p] = "released")
============================================================================
