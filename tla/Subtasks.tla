------------------------------ MODULE Subtasks ------------------------------
(***************************************************************************)
(* Subagents and what they cost.  A call of the task tool (tool/task.ts)   *)
(* prompts a child session, fresh or resumed, and adds what the child      *)
(* spent meanwhile to the parent's assistant message                       *)
(* (kilocode/session/cost-propagation.ts).  That message also belongs to   *)
(* the step that made the call (session/processor.ts), which keeps a copy  *)
(* in memory, or to the wrapper of a command (handleSubtask in             *)
(* session/prompt.ts).  Aborts reach a child through a listener.           *)
(***************************************************************************)
EXTENDS Naturals, Sequences, FiniteSets, FiniteSetsExt

CONSTANTS
  Tasks,        \* calls of the task tool
  Sessions,     \* child sessions
  MaxAttempts,  \* streams that a step tries
  MaxCost       \* bound on what a child session costs

ASSUME BoundsAssumption == MaxAttempts \in Nat \ {0} /\ MaxCost \in Nat \ {0}
ASSUME FiniteAssumption == IsFiniteSet(Tasks) /\ IsFiniteSet(Sessions)

VARIABLES
  mode,         \* who calls: a step of the model, a command
  phase,        \* of the caller
  attempt,      \* which stream this is
  copy,         \* ctx.assistantMessage.cost
  cost,         \* the stored cost of the parent's message
  own,          \* what the step itself has cost
  interrupted,  \* the turn was interrupted
  stage,        \* where each call is
  of,           \* the stream that made it
  before,       \* costBefore
  amount,       \* what it has to propagate
  seen,         \* the stored cost that it has read
  line,         \* who holds and waits for the message's lock
  prompts,      \* the prompts of each child session, the one worked on first
  cancels,      \* calls whose listener has cancelled, before the cancel runs
  child,        \* the cost of each child session
  base,         \* and at the beginning: resumed sessions
  childOf,      \* the session that each call makes or resumes
  shared,       \* history: calls overlapped on a session
  overtaken     \* history: a call has written while the step's cost was unstored

parent == <<mode, phase, attempt, copy, own, interrupted, of>>
books == <<before, amount, seen>>
children == <<prompts, child>>
history == <<childOf, shared, overtaken>>
vars == <<parent, cost, stage, books, line, children, cancels, base, history>>

Stages == {"none", "preparing", "entering", "prompting", "returned", "locking", "writing", "over"}
Phases == {"working", "tracking", "retrying", "waiting", "saving", "ended"}

TypeOK ==
  /\ mode \in {"step", "command"} /\ phase \in Phases /\ attempt \in 1..MaxAttempts
  /\ copy \in Nat /\ cost \in Nat /\ own \in Nat /\ interrupted \in BOOLEAN
  /\ stage \in [Tasks -> Stages] /\ of \in [Tasks -> 0..MaxAttempts]
  /\ before \in [Tasks -> Nat] /\ amount \in [Tasks -> Nat] /\ seen \in [Tasks -> Nat]
  /\ line \in Seq(Tasks) /\ prompts \in [Sessions -> Seq(Tasks)] /\ cancels \subseteq Tasks
  /\ child \in [Sessions -> 0..MaxCost] /\ base \in [Sessions -> 0..1]
  /\ childOf \in [Tasks -> Sessions] /\ shared \in BOOLEAN /\ overtaken \in BOOLEAN
  /\ \A t \in Tasks : (\E i \in DOMAIN line : line[i] = t) <=> stage[t] \in {"locking", "writing"}

Init ==
  /\ mode \in {"step", "command"} /\ phase = "working" /\ attempt = 1
  /\ copy = 0 /\ cost = 0 /\ own = 0 /\ interrupted = FALSE
  /\ stage = [t \in Tasks |-> "none"] /\ of = [t \in Tasks |-> 0]
  /\ before = [t \in Tasks |-> 0] /\ amount = [t \in Tasks |-> 0] /\ seen = [t \in Tasks |-> 0]
  /\ line = <<>> /\ prompts = [s \in Sessions |-> <<>>] /\ cancels = {}
  /\ base \in [Sessions -> IF mode = "step" THEN {0, 1} ELSE {0}] /\ child = base
  /\ childOf \in [Tasks -> Sessions] /\ shared = FALSE /\ overtaken = FALSE

Move(t, from, to) == stage[t] = from /\ stage' = [stage EXCEPT ![t] = to]

Listening == {t \in Tasks : stage[t] \in {"entering", "prompting", "returned"}}
(* What the calls of this stream have registered hears its abort. *)
Signal == cancels' = cancels \cup {t \in Listening : of[t] = attempt}

----------------------------------------------------------------------------
(* The task tool *)

(* A command is one call; a stream makes any. *)
Call(t) ==
  /\ phase = "working" /\ Move(t, "none", "preparing")
  /\ mode = "command" => \A u \in Tasks : stage[u] = "none"
  /\ of' = [of EXCEPT ![t] = attempt]
  /\ UNCHANGED <<mode, phase, attempt, copy, own, interrupted, cost, books, line, children, cancels, base, history>>

(* Permission refused, unknown agent, and the like. *)
Refuse(t) ==
  /\ Move(t, "preparing", "over")
  /\ UNCHANGED <<parent, cost, books, line, children, cancels, base, history>>

(* Register the listener, which hears no abort of the past. *)
Begin(t) ==
  /\ Move(t, "preparing", "entering")
  /\ before' = [before EXCEPT ![t] = child[childOf[t]]]
  /\ shared' = (shared \/ \E u \in Listening : childOf[u] = childOf[t])
  /\ UNCHANGED <<parent, cost, amount, seen, line, children, cancels, base, childOf, overtaken>>

(* SessionPrompt.prompt stores the message and takes a slot ... *)
Enqueue(t) ==
  /\ Move(t, "entering", "prompting")
  /\ prompts' = [prompts EXCEPT ![childOf[t]] = Append(@, t)]
  /\ UNCHANGED <<parent, cost, books, line, cancels, child, base, history>>

(* ... or fails before. *)
Fail(t) ==
  /\ Move(t, "entering", "returned")
  /\ UNCHANGED <<parent, cost, books, line, children, cancels, base, history>>

(* Mutant: all that the session has cost. *)
ReleaseAll(t) ==
  LET delta == child[childOf[t]] IN
  /\ Move(t, "returned", IF delta > 0 THEN "locking" ELSE "over")
  /\ amount' = [amount EXCEPT ![t] = delta]
  /\ line' = IF delta > 0 THEN Append(line, t) ELSE line
  /\ UNCHANGED <<parent, cost, before, seen, children, cancels, base, history>>

(* The release stage: forget the listener, take a place for the message. *)
Release(t) ==
  LET delta == child[childOf[t]] - before[t] IN
  /\ Move(t, "returned", IF delta > 0 THEN "locking" ELSE "over")
  /\ amount' = [amount EXCEPT ![t] = delta]
  /\ line' = IF delta > 0 THEN Append(line, t) ELSE line
  /\ UNCHANGED <<parent, cost, before, seen, children, cancels, base, history>>

(* propagate, in two operations *)
Read(t) ==
  /\ Move(t, "locking", "writing") /\ Head(line) = t
  /\ seen' = [seen EXCEPT ![t] = cost]
  /\ UNCHANGED <<parent, cost, before, amount, line, children, cancels, base, history>>

(* The step's cost is in the copy and not stored: finish-step waits, or was *)
(* interrupted.                                                             *)
Unstored == own # 0 /\ (phase = "tracking" \/ (interrupted /\ phase # "ended"))

(* Mutant: the lock is not released. *)
WriteKeeps(t) ==
  /\ Move(t, "writing", "over")
  /\ cost' = seen[t] + amount[t]
  /\ overtaken' = (overtaken \/ Unstored)
  /\ UNCHANGED <<parent, books, line, children, cancels, base, childOf, shared>>

Write(t) ==
  /\ Move(t, "writing", "over")
  /\ cost' = seen[t] + amount[t]
  /\ line' = Tail(line)
  /\ overtaken' = (overtaken \/ Unstored)
  /\ UNCHANGED <<parent, books, children, cancels, base, childOf, shared>>

----------------------------------------------------------------------------
(* Child sessions *)

Back(ts) == stage' = [t \in Tasks |-> IF t \in ts /\ stage[t] = "prompting" THEN "returned" ELSE stage[t]]

Spend(s) ==
  /\ prompts[s] # <<>> /\ child[s] < MaxCost
  /\ child' = [child EXCEPT ![s] = @ + 1]
  /\ UNCHANGED <<parent, cost, stage, books, line, prompts, cancels, base, history>>

(* The child has answered the prompt it works on. *)
Answer(s) ==
  /\ prompts[s] # <<>>
  /\ Back({Head(prompts[s])}) /\ prompts' = [prompts EXCEPT ![s] = Tail(@)]
  /\ UNCHANGED <<parent, cost, books, line, cancels, child, base, history>>

(* ops.cancel, in a fiber of its own: what the child works on and what waits *)
(* is over; what comes later is not.                                         *)
Cancel(t) ==
  LET s == childOf[t] IN
  /\ t \in cancels /\ cancels' = cancels \ {t}
  /\ Back({prompts[s][i] : i \in DOMAIN prompts[s]}) /\ prompts' = [prompts EXCEPT ![s] = <<>>]
  /\ UNCHANGED <<parent, cost, books, line, child, base, history>>

----------------------------------------------------------------------------
(* A step of the parent *)

(* Mutant: what calls have added meanwhile is not looked at. *)
CopyAsItIs == copy

ReconciledCopy == IF cost > copy THEN cost ELSE copy

(* finish-step comes when the tools of the stream are over; it reconciles,  *)
(* adds, and waits for the snapshot before it stores.                       *)
FinishStep ==
  /\ mode = "step" /\ phase = "working"
  /\ \A t \in Tasks : of[t] = attempt => stage[t] = "over"
  /\ phase' = "tracking" /\ copy' = ReconciledCopy + 1 /\ own' = own + 1
  /\ UNCHANGED <<mode, attempt, interrupted, of, cost, stage, books, line, children, cancels, base, history>>

StoreStep ==
  /\ phase = "tracking" /\ phase' = "waiting"
  /\ cost' = copy /\ Signal
  /\ UNCHANGED <<mode, attempt, copy, own, interrupted, of, stage, books, line, children, base, history>>

Break ==
  /\ mode = "step" /\ phase = "working"
  /\ phase' \in {"waiting"} \cup (IF attempt < MaxAttempts THEN {"retrying"} ELSE {})
  /\ Signal
  /\ UNCHANGED <<mode, attempt, copy, own, interrupted, of, cost, stage, books, line, children, base, history>>

Retry ==
  /\ phase = "retrying" /\ phase' = "working" /\ attempt' = attempt + 1
  /\ UNCHANGED <<mode, copy, own, interrupted, of, cost, stage, books, line, children, cancels, base, history>>

Interrupt ==
  /\ mode = "step" /\ phase \in {"working", "tracking", "retrying"}
  /\ phase' = "waiting" /\ interrupted' = TRUE
  /\ IF phase = "retrying" THEN UNCHANGED cancels ELSE Signal
  /\ UNCHANGED <<mode, attempt, copy, own, of, cost, stage, books, line, children, base, history>>

(* cleanup, after its wait of at most 250 ms *)
Reconcile ==
  /\ mode = "step" /\ phase = "waiting"
  /\ phase' = "saving" /\ copy' = ReconciledCopy
  /\ UNCHANGED <<mode, attempt, own, interrupted, of, cost, stage, books, line, children, cancels, base, history>>

Save ==
  /\ mode = "step" /\ phase = "saving"
  /\ phase' = "ended" /\ cost' = copy
  /\ UNCHANGED <<mode, attempt, copy, own, interrupted, of, stage, books, line, children, cancels, base, history>>

----------------------------------------------------------------------------
(* A command: handleSubtask *)

(* The call runs in the turn's fiber: an interruption ends its preparation  *)
(* or its wait, but not its release, nor the child's work; the signal comes *)
(* after the release, when nobody listens.  A call that is over is not      *)
(* recorded any more.                                                       *)
InterruptCommand(t) ==
  /\ mode = "command" /\ phase = "working" /\ stage[t] # "none"
  /\ phase' = (IF stage[t] = "over" THEN "ended" ELSE "waiting") /\ interrupted' = TRUE
  /\ stage' = [stage EXCEPT ![t] = CASE @ = "preparing" -> "over"
                                     [] @ \in {"entering", "prompting"} -> "returned"
                                     [] OTHER -> @]
  /\ UNCHANGED <<mode, attempt, copy, own, of, cost, books, line, children, cancels, base, history>>

(* The wrapper's cost becomes the child's. *)
Record(t) ==
  /\ mode = "command" /\ phase \in {"working", "waiting"} /\ stage[t] = "over"
  /\ phase' = "ended" /\ cost' = child[childOf[t]]
  /\ UNCHANGED <<mode, attempt, copy, own, interrupted, of, stage, books, line, children, cancels, base, history>>

----------------------------------------------------------------------------
(* A fiber keeps the thread until it waits, so that nothing comes between   *)
(* some operations.  Other fibers may run between a call's read and write   *)
(* of the message while the step streams: that is what the lock is for.     *)
Follows == phase = "saving" \/ (phase # "working" /\ \E t \in Tasks : stage[t] = "writing")
Switch == ~ Follows

Settling(t) == Release(t) \/ Read(t)
Running(s) == Spend(s) \/ Answer(s)

Next ==
  \/ \E t \in Tasks : Write(t)
  \/ Save
  \/ /\ Switch
     /\ \/ \E t \in Tasks : \/ Call(t) \/ Refuse(t) \/ Begin(t) \/ Enqueue(t) \/ Fail(t)
                            \/ Settling(t) \/ Cancel(t) \/ InterruptCommand(t) \/ Record(t)
        \/ \E s \in Sessions : Running(s)
        \/ FinishStep \/ StoreStep \/ Break \/ Retry \/ Interrupt \/ Reconcile

Spec == Init /\ [][Next]_vars
(* Fibers run; a child may work for ever. *)
FairSpec ==
  /\ Spec /\ WF_vars(Save)
  /\ \A t \in Tasks : WF_vars(Switch /\ (Settling(t) \/ Cancel(t))) /\ WF_vars(Write(t))

----------------------------------------------------------------------------
(* Properties *)

Spent == own + MapThenSumSet(LAMBDA s : child[s] - base[s], Sessions)

(* "Count propagated subagent cost once" (cli/cmd/stats.ts): the message    *)
(* never says more than the step and its subagents have spent, unless calls *)
(* overlap on one session: each takes what it costs meanwhile for its own.  *)
CountedOnce == ~ shared => cost <= Spent

(* "Propagate subagent cost delta to parent on every exit path"             *)
(* (tool/task.ts): when everything is over nothing is missing, unless a     *)
(* call of a broken stream has written while the next one's cost was to be  *)
(* stored.  Children that an interrupted command has left behind are        *)
(* another matter.                                                          *)
NothingLost ==
  /\ phase = "ended" /\ \A t \in Tasks : stage[t] \in {"none", "over"}
  /\ mode = "step" \/ ~ interrupted
  /\ ~ overtaken
  => cost >= Spent

(* The message's cost is exact: nothing twice, in the end nothing missing.  *)
CostIsExact == TypeOK /\ CountedOnce /\ NothingLost

(* What the message says is never taken back, by no copy in memory either,  *)
(* with the same exception.                                                 *)
CostNeverFalls == [][~ overtaken => cost' >= cost]_vars

(* A cancel that finds the child at work ends the call, its books included. *)
CancelEndsTask ==
  \A t \in Tasks : (t \in cancels /\ stage[t] = "prompting") ~> stage[t] = "over"
=============================================================================
