------------------------- MODULE SessionTurnsProofs -------------------------
(***************************************************************************)
(* Proofs about SessionTurns, for any prompts, shells, loops and cancels:  *)
(* the queue and the run state of a session together serve its prompts as  *)
(* a line.                                                                 *)
(***************************************************************************)
EXTENDS SessionTurns, TLAPS

Open(p) == slot[p] \in {"waiting", "running", "skipped"}

(* Numbers are drawn once. *)
Tickets ==
  /\ \A p \in Prompts : slot[p] = "new" <=> seqOf[p] = 0
  /\ \A p \in Prompts : seqOf[p] <= seq
  /\ \A p, q \in Prompts : seqOf[p] = seqOf[q] /\ seqOf[p] # 0 => p = q
  /\ latest <= seq /\ activeSince <= latest

(* The tail is the last of the open slots, and is forgotten with it. *)
TailIsLast ==
  /\ tail = None => latest = 0 /\ activeSince = 0 /\ \A p \in Prompts : ~ Open(p)
  /\ tail # None => Open(tail) /\ \A p \in Prompts : Open(p) => seqOf[p] <= seqOf[tail]

(* Nobody stands between a slot and its predecessor. *)
Chained == \A p, q \in Prompts :
  slot[p] = "waiting" /\ Open(q) /\ seqOf[q] < seqOf[p] =>
    previous[p] # None /\ seqOf[q] <= seqOf[previous[p]]

(* Slots go one after the other. *)
InOrder == \A p, q \in Prompts : Open(q) =>
  /\ slot[p] \in {"running", "skipped"} => seqOf[p] <= seqOf[q]
  /\ slot[p] = "released" => seqOf[p] < seqOf[q]

(* A cancel is known to a waiting slot by the version. *)
Versions == \A p \in Prompts :
  /\ slot[p] = "new" => p \notin doomed
  /\ slot[p] = "waiting" => versionOf[p] <= version /\ (p \in doomed <=> versionOf[p] # version)

(* The target is the message of the slot that runs. *)
Targeted ==
  /\ \A p \in Prompts : slot[p] = "running" => scoped = p
  /\ scoped # None => slot[scoped] = "running"

QueueInv ==
  /\ PQ!QueueTypeOK /\ Tickets /\ TailIsLast /\ Chained /\ InOrder
  /\ Versions /\ Targeted /\ PQ!CancelDropsTheWaiting /\ PQ!FollowupIsExact

LEMMA QueueInitInv == PQ!QueueInit => QueueInv
<1> SUFFICES ASSUME PQ!QueueInit PROVE QueueInv
  OBVIOUS
<1> USE DEF PQ!QueueInit
<1>1. PQ!QueueTypeOK
  BY DEF PQ!QueueTypeOK, PQ!SlotStates
<1>2. Tickets /\ TailIsLast /\ Chained /\ InOrder
  BY DEF Tickets, TailIsLast, Chained, InOrder, Open
<1>3. Versions /\ Targeted /\ PQ!CancelDropsTheWaiting /\ PQ!FollowupIsExact
  BY DEF Versions, Targeted, PQ!CancelDropsTheWaiting, PQ!FollowupIsExact
<1> QED BY <1>1, <1>2, <1>3 DEF QueueInv

LEMMA EnqueueInv == ASSUME QueueInv, NEW p \in Prompts, PQ!Enqueue(p) PROVE QueueInv'
<1> USE NoneAssumption DEF QueueInv, PQ!QueueTypeOK, PQ!SlotStates, PQ!Enqueue
<1>1. PQ!QueueTypeOK'
  OBVIOUS
<1>2. Tickets'
  BY DEF Tickets
<1>3. TailIsLast'
  BY DEF TailIsLast, Tickets, Open
<1>4. Chained'
  BY DEF Chained, TailIsLast, Tickets, Open
<1>5. InOrder'
  BY DEF InOrder, Tickets, Open
<1>6. Versions'
  BY DEF Versions
<1>7. Targeted'
  BY DEF Targeted
<1>8. PQ!CancelDropsTheWaiting' /\ PQ!FollowupIsExact'
  BY DEF PQ!CancelDropsTheWaiting, PQ!FollowupIsExact, PQ!HasFollowup, Tickets
<1> QED BY <1>1, <1>2, <1>3, <1>4, <1>5, <1>6, <1>7, <1>8

(* When its predecessor has gone, a slot is the first. *)
LEMMA ReadyIsFirst ==
  ASSUME QueueInv, NEW p \in Prompts, PQ!Ready(p)
  PROVE  /\ \A q \in Prompts : Open(q) => seqOf[p] <= seqOf[q]
         /\ \A q \in Prompts : slot[q] \notin {"running", "skipped"}
<1>1. ASSUME NEW q \in Prompts, Open(q), seqOf[q] < seqOf[p] PROVE FALSE
  <2>1. previous[p] \in Prompts /\ slot[previous[p]] = "released" /\ seqOf[q] <= seqOf[previous[p]]
    BY <1>1 DEF QueueInv, Chained, PQ!Ready, PQ!TailSettled, PQ!QueueTypeOK
  <2> QED BY <1>1, <2>1 DEF QueueInv, InOrder, PQ!QueueTypeOK
<1>2. \A q \in Prompts : Open(q) => seqOf[p] <= seqOf[q]
  BY <1>1 DEF QueueInv, PQ!QueueTypeOK
<1>3. ASSUME NEW q \in Prompts, slot[q] \in {"running", "skipped"} PROVE FALSE
  <2>1. Open(q) /\ Open(p) /\ slot[p] = "waiting"
    BY <1>3 DEF PQ!Ready, Open
  <2>2. seqOf[p] = seqOf[q] /\ seqOf[p] # 0
    BY <1>2, <1>3, <2>1 DEF QueueInv, InOrder, Tickets, PQ!QueueTypeOK
  <2> QED BY <1>3, <2>1, <2>2 DEF QueueInv, Tickets
<1> QED BY <1>2, <1>3

LEMMA StartSlotInv == ASSUME QueueInv, NEW p \in Prompts, PQ!StartSlot(p) PROVE QueueInv'
<1> USE NoneAssumption, ReadyIsFirst DEF QueueInv, PQ!QueueTypeOK, PQ!SlotStates, PQ!StartSlot
<1>0. slot[p] = "waiting"
  BY DEF PQ!Ready
<1>1. PQ!QueueTypeOK'
  OBVIOUS
<1>2. Tickets'
  BY <1>0 DEF Tickets
<1>3. TailIsLast' /\ Chained'
  BY <1>0 DEF TailIsLast, Chained, Open
<1>5. InOrder'
  BY <1>0 DEF InOrder, Open
<1>6. Versions'
  BY <1>0 DEF Versions
<1>7. Targeted'
  BY <1>0 DEF Targeted
<1>8. PQ!CancelDropsTheWaiting' /\ PQ!FollowupIsExact'
  BY <1>0 DEF PQ!CancelDropsTheWaiting, PQ!FollowupIsExact, PQ!HasFollowup, Tickets, Versions
<1> QED BY <1>1, <1>2, <1>3, <1>5, <1>6, <1>7, <1>8

LEMMA SkipSlotInv == ASSUME QueueInv, NEW p \in Prompts, PQ!SkipSlot(p) PROVE QueueInv'
<1> USE NoneAssumption, ReadyIsFirst DEF QueueInv, PQ!QueueTypeOK, PQ!SlotStates, PQ!SkipSlot
<1>0. slot[p] = "waiting"
  BY DEF PQ!Ready
<1>1. PQ!QueueTypeOK'
  OBVIOUS
<1>2. Tickets'
  BY <1>0 DEF Tickets
<1>3. TailIsLast' /\ Chained'
  BY <1>0 DEF TailIsLast, Chained, Open
<1>5. InOrder'
  BY <1>0 DEF InOrder, Open
<1>6. Versions'
  BY <1>0 DEF Versions
<1>7. Targeted'
  BY <1>0 DEF Targeted
<1>8. PQ!CancelDropsTheWaiting' /\ PQ!FollowupIsExact'
  BY <1>0 DEF PQ!CancelDropsTheWaiting, PQ!FollowupIsExact, PQ!HasFollowup, Versions
<1> QED BY <1>1, <1>2, <1>3, <1>5, <1>6, <1>7, <1>8

LEMMA ReleaseInv == ASSUME QueueInv, NEW p \in Prompts, PQ!Release(p) PROVE QueueInv'
<1> USE NoneAssumption DEF QueueInv, PQ!QueueTypeOK, PQ!SlotStates, PQ!Release
<1>0. \A q \in Prompts \ {p} : /\ slot[q] \notin {"running", "skipped"}
                               /\ Open(q) => seqOf[p] < seqOf[q]
  BY DEF InOrder, Tickets, Open
<1>a. tail = p => \A q \in Prompts \ {p} : ~ Open(q)
  BY <1>0 DEF TailIsLast, Open
<1>1. PQ!QueueTypeOK'
  OBVIOUS
<1>2. Tickets'
  BY DEF Tickets
<1>3. TailIsLast'
  BY <1>0, <1>a DEF TailIsLast, Open
<1>4. Chained'
  BY DEF Chained, Open
<1>5. InOrder'
  BY <1>0 DEF InOrder, Open
<1>6. Versions'
  BY <1>a DEF Versions, Open
<1>7. Targeted'
  BY <1>0 DEF Targeted
<1>8. PQ!CancelDropsTheWaiting' /\ PQ!FollowupIsExact'
  BY <1>0 DEF PQ!CancelDropsTheWaiting, PQ!FollowupIsExact, PQ!HasFollowup
<1> QED BY <1>1, <1>2, <1>3, <1>4, <1>5, <1>6, <1>7, <1>8

LEMMA CancelQueueInv == ASSUME QueueInv, PQ!CancelQueue PROVE QueueInv'
<1> USE NoneAssumption DEF QueueInv, PQ!QueueTypeOK, PQ!SlotStates, PQ!CancelQueue
<1>1. PQ!QueueTypeOK'
  OBVIOUS
<1>2. Tickets' /\ TailIsLast' /\ Chained' /\ InOrder' /\ Targeted'
  BY DEF Tickets, TailIsLast, Chained, InOrder, Targeted, Open
<1>3. Versions'
  BY DEF Versions
<1>4. PQ!CancelDropsTheWaiting' /\ PQ!FollowupIsExact'
  BY DEF PQ!CancelDropsTheWaiting, PQ!FollowupIsExact, PQ!HasFollowup
<1> QED BY <1>1, <1>2, <1>3, <1>4

----------------------------------------------------------------------------
(* The run state keeps its own invariant: its steps are those of            *)
(* SessionRunState, whose proofs are used as they stand.                    *)
Books == INSTANCE SessionRunStateProofs

LEMMA RunStateMoves ==
  ASSUME [Next]_vars
  PROVE  [Books!Next]_Books!vars
<1>1. CASE runVars' = runVars
  BY <1>1 DEF runVars, Books!vars, Books!callerVars
<1>2. ASSUME NEW c \in Callers, RS!CallerStep(c) PROVE Books!CallerStep(c)
  <2>1. RS!CallerTurn(c) => Books!CallerTurn(c)
    BY DEF RS!CallerTurn, Books!CallerTurn, RS!CallerMidway, Books!CallerMidway,
       RS!FiberMidway, Books!FiberMidway, RS!Finalizing, Books!Finalizing
  <2>2. RS!LoopStep(c) => Books!LoopStep(c)
    BY DEF RS!LoopStep, Books!LoopStep, RS!RunnerLookup, Books!RunnerLookup,
       RS!StartRun, Books!StartRun, RS!QueueBehindShell, Books!QueueBehindShell,
       RS!JoinRun, Books!JoinRun, RS!LoopReturns, Books!LoopReturns,
       RS!AtLoop, Books!AtLoop, RS!Locked, Books!Locked, RS!Goto, Books!Goto,
       RS!Running, Books!Running, RS!ShellThenRun, Books!ShellThenRun
  <2>3. RS!ShellStep(c) => Books!ShellStep(c)
    BY DEF RS!ShellStep, Books!ShellStep, RS!ShellRejected, Books!ShellRejected,
       RS!ShellBusy, Books!ShellBusy, RS!StartShell, Books!StartShell,
       RS!ShellReturns, Books!ShellReturns, RS!AtShell, Books!AtShell,
       RS!Locked, Books!Locked, RS!Goto, Books!Goto, RS!Shell, Books!Shell,
       RS!SetStatus, Books!SetStatus
  <2>4. RS!CancelStep(c) => Books!CancelStep(c)
    BY DEF RS!CancelStep, Books!CancelStep, RS!CancelLookup, Books!CancelLookup,
       RS!CancelIdle, Books!CancelIdle, RS!CancelModify, Books!CancelModify,
       RS!CancelInterrupt, Books!CancelInterrupt, RS!IdleIfCurrent, Books!IdleIfCurrent,
       RS!CancelUntrack, Books!CancelUntrack, RS!CancelIdling, Books!CancelIdling,
       RS!SessionBusy, Books!SessionBusy, RS!Locked, Books!Locked, RS!Goto, Books!Goto,
       RS!Idle, Books!Idle, RS!SetStatus, Books!SetStatus
  <2> QED BY <1>2, <2>1, <2>2, <2>3, <2>4 DEF RS!CallerStep, Books!CallerStep
<1>3. ASSUME NEW c \in Callers, RS!FiberTurn(c) PROVE Books!FiberTurn(c)
  BY <1>3 DEF RS!FiberTurn, Books!FiberTurn, RS!CallerMidway, Books!CallerMidway,
     RS!FiberMidway, Books!FiberMidway, RS!Finalizing, Books!Finalizing
<1>4. ASSUME NEW c \in Callers, RS!WorkStep(c) PROVE Books!WorkStep(c)
  BY <1>3, <1>4 DEF RS!WorkStep, Books!WorkStep, RS!WorkStatus, Books!WorkStatus,
     RS!WorkEnds, Books!WorkEnds, RS!SetStatus, Books!SetStatus, RS!SetFiber, Books!SetFiber,
     RS!callerVars, Books!callerVars
<1>5. ASSUME NEW c \in Callers, RS!UnwindStep(c) PROVE Books!UnwindStep(c)
  <2>1. RS!CleanupStep(c) => Books!CleanupStep(c)
    BY DEF RS!CleanupStep, Books!CleanupStep, RS!Unwind, Books!Unwind,
       RS!FinishRun, Books!FinishRun, RS!FinishShell, Books!FinishShell,
       RS!Untrack, Books!Untrack, RS!Idling, Books!Idling, RS!Settle, Books!Settle,
       RS!Owns, Books!Owns, RS!Locked, Books!Locked, RS!Idle, Books!Idle,
       RS!Running, Books!Running, RS!SetStatus, Books!SetStatus,
       RS!SetFiber, Books!SetFiber, RS!callerVars, Books!callerVars
  <2> QED BY <1>3, <1>5, <2>1 DEF RS!UnwindStep, Books!UnwindStep
<1> QED
  BY <1>1, <1>2, <1>4, <1>5
  DEF Next, vars, Books!Next, EnqueuePrompt, QueueStep, TakeTurn, EndTurn, DropQueued,
      CallerStep, WorkStep, UnwindStep

LEMMA RunStateInit == Init => Books!IInv
<1>1. None \notin Callers /\ Preempt \in BOOLEAN
  BY NoneAssumption, PreemptAssumption DEF Callers
<1>2. Init => Books!Init
  BY DEF Init, RS!Init, Books!Init, RS!Ops, Books!Ops, RS!Idle, Books!Idle
<1> QED BY <1>1, <1>2, Books!InitIInv

LEMMA RunStateInv == Books!IInv /\ [Next]_vars => Books!IInv'
<1>1. None \notin Callers /\ Preempt \in BOOLEAN
  BY NoneAssumption, PreemptAssumption DEF Callers
<1>2. Books!IInv /\ [Books!Next]_Books!vars => Books!IInv'
  BY <1>1, Books!InductiveStep
<1> QED BY <1>2, RunStateMoves

(* What of it is needed here. *)
LEMMA BookFacts ==
  ASSUME Books!IInv
  PROVE  /\ op \in [Callers -> {"loop", "shell", "cancel"}]
         /\ pc \in [Callers -> RS!PCs]
         /\ handle \in [Callers -> Callers \cup {None}]
         /\ target \in [Callers -> Callers \cup {None}]
         /\ fiber \in [Callers -> RS!FiberStates]
         /\ exit \in [Callers -> {"none", "done", "cancelled"}]
         /\ done \in [Callers -> {"none", "open", "done", "cancelled"}]
         /\ DOMAIN runner = Callers
         /\ \A c \in Callers :
              /\ pc[c] \in {"shellBusy", "rejected"} => op[c] = "shell"
              /\ pc[c] \in {"cancelIdle", "interrupt", "unwound", "untrack", "idling"} => op[c] = "cancel"
              /\ pc[c] \in {"modify", "shellBusy", "await", "interrupt", "unwound"} => handle[c] \in Callers
              /\ pc[c] \in {"await", "interrupt", "unwound"} => target[c] \in Callers
              /\ op[c] = "cancel" \/ pc[c] \in {"start", "modify", "shellBusy"}
                   => fiber[c] = "none" /\ done[c] = "none"
              /\ fiber[c] # "none" => handle[c] \in Callers
              /\ fiber[c] = "settling" => exit[c] # "none"
              /\ fiber[c] = "settling" => op[c] = "loop"
         /\ \A r \in Callers :
              /\ runner[r].tag \in {"Idle", "Running", "Shell", "ShellThenRun"}
              /\ runner[r].tag \in {"Running", "ShellThenRun"} =>
                   /\ runner[r].run \in Callers
                   /\ op[runner[r].run] = "loop"
                   /\ done[runner[r].run] = "open"
              /\ runner[r].tag = "ShellThenRun" => fiber[runner[r].run] = "none"
<1>1. None \notin Callers /\ Preempt \in BOOLEAN
  BY NoneAssumption, PreemptAssumption DEF Callers
<1>2. Books!TypeOK /\ Books!CallersInv /\ Books!FibersInv /\ Books!RunnersInv
  BY DEF Books!IInv, Books!Bookkeeping
<1>3. \A r \in Callers :
        /\ runner[r].tag \in {"Idle", "Running", "Shell", "ShellThenRun"}
        /\ runner[r].tag \in {"Running", "ShellThenRun"} => runner[r].run \in Callers
  BY <1>1, <1>2, Books!RunnerRefs
<1>4. /\ op \in [Callers -> {"loop", "shell", "cancel"}]
      /\ pc \in [Callers -> RS!PCs]
      /\ handle \in [Callers -> Callers \cup {None}]
      /\ target \in [Callers -> Callers \cup {None}]
      /\ fiber \in [Callers -> RS!FiberStates]
      /\ exit \in [Callers -> {"none", "done", "cancelled"}]
      /\ done \in [Callers -> {"none", "open", "done", "cancelled"}]
      /\ DOMAIN runner = Callers
  BY <1>2 DEF Books!TypeOK, Books!Ops, Books!PCs, RS!PCs, Books!FiberStates, RS!FiberStates
<1> QED BY <1>2, <1>3, <1>4 DEF Books!CallersInv, Books!FibersInv, Books!RunnersInv, Books!Finalizing

----------------------------------------------------------------------------
(* A loop's run is awaited by its own caller until it is settled, and it is *)
(* settled when its fiber ends.                                             *)
RunsAwaited == \A c \in Callers : op[c] = "loop" =>
  /\ done[c] = "open" => pc[c] = "await" /\ target[c] = c
  /\ fiber[c] \in RS!Alive => done[c] = "open"

LEMMA RunsAwaitedStep ==
  ASSUME Books!IInv, RunsAwaited, NEW c \in Callers,
         RS!CallerStep(c) \/ RS!WorkStep(c) \/ RS!UnwindStep(c)
  PROVE  RunsAwaited'
<1> USE BookFacts DEF RunsAwaited, RS!Goto, RS!SetFiber, RS!SetStatus, RS!callerVars,
    RS!Alive, RS!Finalizing, RS!FiberStates, RS!PCs
<1>1. CASE RS!LoopStep(c)
  <2>1. CASE RS!RunnerLookup(c)
    BY <2>1 DEF RS!RunnerLookup
  <2>2. CASE RS!StartRun(c) \/ RS!QueueBehindShell(c)
    BY <2>2 DEF RS!StartRun, RS!QueueBehindShell, RS!AtLoop
  <2>3. CASE RS!JoinRun(c) \/ RS!LoopReturns(c)
    BY <2>3 DEF RS!JoinRun, RS!LoopReturns, RS!AtLoop
  <2> QED BY <1>1, <2>1, <2>2, <2>3 DEF RS!LoopStep
<1>2. CASE RS!ShellStep(c)
  BY <1>2 DEF RS!ShellStep, RS!ShellRejected, RS!ShellBusy, RS!StartShell, RS!ShellReturns,
     RS!AtShell
<1>3. CASE RS!CancelStep(c)
  <2>1. CASE RS!CancelModify(c)
    BY <2>1 DEF RS!CancelModify
  <2>2. CASE RS!CancelInterrupt(c)
    BY <2>2 DEF RS!CancelInterrupt
  <2>3. CASE RS!CancelLookup(c) \/ RS!CancelIdle(c) \/ RS!IdleIfCurrent(c)
             \/ RS!CancelUntrack(c) \/ RS!CancelIdling(c)
    BY <2>3 DEF RS!CancelLookup, RS!CancelIdle, RS!IdleIfCurrent, RS!CancelUntrack,
       RS!CancelIdling
  <2> QED BY <1>3, <2>1, <2>2, <2>3 DEF RS!CancelStep
<1>4. CASE RS!WorkStatus(c) \/ RS!WorkEnds(c)
  BY <1>4 DEF RS!WorkStatus, RS!WorkEnds
<1>5. CASE RS!CleanupStep(c)
  <2>1. CASE RS!Unwind(c) \/ RS!FinishRun(c) \/ RS!Untrack(c) \/ RS!Idling(c)
    BY <2>1 DEF RS!Unwind, RS!FinishRun, RS!Untrack, RS!Idling
  <2>2. CASE RS!FinishShell(c)
    BY <2>2 DEF RS!FinishShell, RS!Owns
  <2>3. CASE RS!Settle(c)
    BY <2>3 DEF RS!Settle
  <2> QED BY <1>5, <2>1, <2>2, <2>3 DEF RS!CleanupStep
<1> QED
  BY <1>1, <1>2, <1>3, <1>4, <1>5 DEF RS!CallerStep, RS!WorkStep, RS!UnwindStep

(* What a step of the run state does to where callers are. *)
LEMMA CallersMove ==
  ASSUME Books!IInv, NEW c \in Callers,
         RS!CallerStep(c) \/ RS!WorkStep(c) \/ RS!UnwindStep(c)
  PROVE  /\ op' = op
         /\ \A k \in Callers \ {c} : pc'[k] = pc[k]
         /\ RS!WorkStep(c) \/ RS!UnwindStep(c) => pc' = pc
<1> USE DEF RS!Goto, RS!callerVars
<1>0. pc \in [Callers -> RS!PCs]
  BY BookFacts
<1>1. ASSUME RS!LoopStep(c) \/ RS!ShellStep(c)
      PROVE  op' = op /\ \A k \in Callers \ {c} : pc'[k] = pc[k]
  BY <1>0, <1>1 DEF RS!LoopStep, RS!ShellStep, RS!RunnerLookup, RS!StartRun, RS!QueueBehindShell,
     RS!JoinRun, RS!LoopReturns, RS!ShellRejected, RS!ShellBusy, RS!StartShell, RS!ShellReturns
<1>2. ASSUME RS!CancelStep(c)
      PROVE  op' = op /\ \A k \in Callers \ {c} : pc'[k] = pc[k]
  BY <1>0, <1>2 DEF RS!CancelStep, RS!CancelLookup, RS!CancelIdle, RS!CancelModify,
     RS!CancelInterrupt, RS!IdleIfCurrent, RS!CancelUntrack, RS!CancelIdling
<1>3. RS!WorkStep(c) \/ RS!UnwindStep(c) => op' = op /\ pc' = pc
  BY DEF RS!WorkStep, RS!UnwindStep, RS!WorkStatus, RS!WorkEnds, RS!CleanupStep, RS!Unwind,
     RS!FinishRun, RS!FinishShell, RS!Untrack, RS!Idling, RS!Settle
<1>4. RS!CallerStep(c) => op' = op /\ \A k \in Callers \ {c} : pc'[k] = pc[k]
  BY <1>1, <1>2 DEF RS!CallerStep
<1> QED
  BY <1>3, <1>4

(* What it does to work: nothing that shows; or the run of somebody who     *)
(* awaits it begins; or a run is settled.                                   *)
Same(k) ==
  /\ fiber'[k] = "none" <=> fiber[k] = "none"
  /\ fiber'[k] \in RS!Alive <=> fiber[k] \in RS!Alive

Begins(c) == \E k \in Callers :
  /\ op[k] = "loop" /\ fiber[k] = "none" /\ fiber'[k] = "active"
  /\ pc[k] = "await" \/ (k = c /\ RS!StartRun(c))
  /\ \A j \in Callers \ {k} : op[j] = "loop" => Same(j)

Ends == \E k \in Callers :
  /\ op[k] = "loop" /\ fiber[k] \in RS!Alive /\ fiber'[k] = "dead"
  /\ \A j \in Callers \ {k} : op[j] = "loop" => Same(j)

LEMMA WorkMoves ==
  ASSUME Books!IInv, RunsAwaited, NEW c \in Callers,
         RS!CallerStep(c) \/ RS!WorkStep(c) \/ RS!UnwindStep(c)
  PROVE  \/ \A k \in Callers : op[k] = "loop" => Same(k)
         \/ Begins(c)
         \/ Ends
<1> DEFINE Goal == (\A k \in Callers : op[k] = "loop" => Same(k)) \/ Begins(c) \/ Ends
<1> USE DEF RS!SetFiber, RS!Alive, RS!Finalizing
<1>0. fiber \in [Callers -> RS!FiberStates]
  BY BookFacts
<1>1. ASSUME fiber' = fiber PROVE Goal
  BY <1>1 DEF Same
<1>2. ASSUME RS!CallerStep(c) PROVE Goal
  <2>1. CASE RS!StartRun(c)
    <3>1. op[c] = "loop" /\ fiber[c] = "none"
      BY <2>1, BookFacts DEF RS!StartRun, RS!AtLoop
    <3> QED BY <1>0, <1>2, <2>1, <3>1 DEF RS!StartRun, Begins, Same
  <2>2. CASE RS!StartShell(c)
    <3>1. op[c] = "shell"
      BY <2>2, BookFacts DEF RS!StartShell
    <3> QED BY <1>0, <2>2, <3>1 DEF RS!StartShell, Same
  <2>3. CASE RS!CancelInterrupt(c)
    BY <1>0, <2>3 DEF RS!CancelInterrupt, Same
  <2>4. CASE ~ (RS!StartRun(c) \/ RS!StartShell(c) \/ RS!CancelInterrupt(c))
    <3>1. fiber' = fiber
      BY <1>2, <2>4 DEF RS!CallerStep, RS!LoopStep, RS!ShellStep, RS!CancelStep,
         RS!RunnerLookup, RS!QueueBehindShell, RS!JoinRun, RS!LoopReturns, RS!ShellRejected,
         RS!ShellBusy, RS!ShellReturns, RS!CancelLookup, RS!CancelIdle, RS!CancelModify,
         RS!IdleIfCurrent, RS!CancelUntrack, RS!CancelIdling
    <3> QED BY <1>1, <3>1
  <2> QED BY <2>1, <2>2, <2>3, <2>4
<1>3. ASSUME RS!WorkStep(c) PROVE Goal
  <2>1. CASE RS!WorkStatus(c)
    BY <1>1, <2>1 DEF RS!WorkStatus
  <2>2. CASE RS!WorkEnds(c)
    BY <1>0, <2>2 DEF RS!WorkEnds, Same
  <2> QED BY <1>3, <2>1, <2>2 DEF RS!WorkStep
<1>4. ASSUME RS!UnwindStep(c) PROVE Goal
  <2>1. CASE RS!Unwind(c) \/ RS!FinishRun(c) \/ RS!Untrack(c)
    BY <1>0, <2>1 DEF RS!Unwind, RS!FinishRun, RS!Untrack, Same
  <2>2. CASE RS!Idling(c)
    BY <1>0, <2>2 DEF RS!Idling, Same
  <2>3. CASE RS!Settle(c)
    <3>1. op[c] = "loop"
      BY <2>3, BookFacts DEF RS!Settle
    <3> QED BY <1>0, <2>3, <3>1 DEF RS!Settle, Ends, Same
  <2>4. CASE RS!FinishShell(c)
    <3> DEFINE st == runner[handle[c]]
    <3>1. op[c] = "shell" /\ fiber[c] = "exiting" /\ handle[c] \in Callers
      BY <2>4, BookFacts DEF RS!FinishShell
    <3>2. CASE ~ RS!Owns(handle[c], c) \/ st.tag = "Shell"
      BY <1>0, <2>4, <3>1, <3>2 DEF RS!FinishShell, Same
    <3>3. CASE RS!Owns(handle[c], c) /\ st.tag # "Shell"
      <4>1. st.tag = "ShellThenRun"
        BY <3>1, <3>3 DEF RS!Owns
      <4>2. /\ st.run \in Callers /\ op[st.run] = "loop" /\ fiber[st.run] = "none"
            /\ done[st.run] = "open"
        BY <3>1, <4>1, BookFacts
      <4>3. pc[st.run] = "await"
        BY <4>2 DEF RunsAwaited
      <4>4. fiber' = [fiber EXCEPT ![c] = "dead", ![st.run] = "active"]
        BY <2>4, <3>3 DEF RS!FinishShell
      <4>5. \A j \in Callers \ {st.run} : op[j] = "loop" => Same(j)
        BY <1>0, <3>1, <4>4 DEF Same
      <4>6. fiber'[st.run] = "active"
        BY <1>0, <4>2, <4>4
      <4> QED BY <4>2, <4>3, <4>5, <4>6 DEF Begins
    <3> QED BY <3>2, <3>3
  <2> QED BY <1>4, <2>1, <2>2, <2>3, <2>4 DEF RS!UnwindStep, RS!CleanupStep
<1> QED BY <1>2, <1>3, <1>4

----------------------------------------------------------------------------
(* The inductive invariant of the composition: a prompt calls the run state *)
(* while its slot runs, and a prompt that a cancel found waiting never      *)
(* does.                                                                    *)
TurnsInv ==
  /\ \A p \in Prompts : op[p] = "loop"
  /\ \A c \in Others : op[c] \in OtherOps
  /\ \A p \in Prompts :
       /\ slot[p] \in {"new", "waiting", "skipped"} => pc[p] = "start"
       /\ slot[p] = "released" => pc[p] \in {"start", "returned"}
       /\ p \in doomed => pc[p] = "start"
  /\ dropped \subseteq Others

IInv == Books!IInv /\ RunsAwaited /\ QueueInv /\ TurnsInv

LEMMA InitInv == Init => IInv
<1> SUFFICES ASSUME Init PROVE IInv
  OBVIOUS
<1>1. RunsAwaited
  BY DEF Init, RS!Init, RunsAwaited, RS!Alive, RS!Finalizing
<1>2. TurnsInv
  BY DEF Init, RS!Init, PQ!QueueInit, TurnsInv, Callers
<1>3. QueueInv
  BY QueueInitInv DEF Init
<1> QED BY <1>1, <1>2, <1>3, RunStateInit DEF IInv

LEMMA NextInv == IInv /\ [Next]_vars => IInv'
<1> SUFFICES ASSUME IInv, [Next]_vars PROVE IInv'
  OBVIOUS
<1> USE DEF IInv
<1>0. Books!IInv'
  BY RunStateInv
<1>1. CASE UNCHANGED vars
  <2>1. RunsAwaited'
    BY <1>1 DEF vars, runVars, RunsAwaited
  <2>2. QueueInv'
    BY <1>1 DEF vars, queueVars, QueueInv, PQ!QueueTypeOK, Tickets, TailIsLast, Chained,
       InOrder, Versions, Targeted, PQ!CancelDropsTheWaiting, PQ!FollowupIsExact,
       PQ!HasFollowup, Open
  <2>3. TurnsInv'
    BY <1>1 DEF vars, runVars, queueVars, TurnsInv
  <2> QED BY <1>0, <2>1, <2>2, <2>3
<1>2. ASSUME NEW p \in Prompts, EnqueuePrompt(p) \/ QueueStep(p) PROVE IInv'
  <2>1. RunsAwaited'
    BY <1>2 DEF EnqueuePrompt, QueueStep, TakeTurn, EndTurn, runVars, RunsAwaited
  <2>2. QueueInv'
    BY <1>2, EnqueueInv, StartSlotInv, SkipSlotInv, ReleaseInv
    DEF EnqueuePrompt, QueueStep, TakeTurn, EndTurn
  <2>3. TurnsInv'
    <3>1. CASE EnqueuePrompt(p)
      BY <3>1 DEF EnqueuePrompt, PQ!Enqueue, runVars, TurnsInv, QueueInv, PQ!QueueTypeOK
    <3>2. CASE TakeTurn(p)
      BY <3>2 DEF TakeTurn, PQ!StartSlot, PQ!SkipSlot, PQ!Ready, runVars, TurnsInv, QueueInv,
         PQ!QueueTypeOK
    <3>3. CASE EndTurn(p)
      BY <3>3 DEF EndTurn, PQ!Release, runVars, TurnsInv, QueueInv, PQ!QueueTypeOK
    <3> QED BY <1>2, <3>1, <3>2, <3>3 DEF QueueStep
  <2> QED BY <1>0, <2>1, <2>2, <2>3
<1>3. ASSUME NEW c \in Others, DropQueued(c) PROVE IInv'
  <2>1. RunsAwaited'
    BY <1>3 DEF DropQueued, runVars, RunsAwaited
  <2>2. QueueInv'
    BY <1>3, CancelQueueInv DEF DropQueued
  <2>3. TurnsInv'
    BY <1>3 DEF DropQueued, PQ!CancelQueue, runVars, TurnsInv
  <2> QED BY <1>0, <2>1, <2>2, <2>3
<1>4. ASSUME NEW c \in Callers, CallerStep(c) \/ WorkStep(c) \/ UnwindStep(c) PROVE IInv'
  <2>1. RS!CallerStep(c) \/ RS!WorkStep(c) \/ RS!UnwindStep(c)
    BY <1>4 DEF CallerStep, WorkStep, UnwindStep
  <2>2. UNCHANGED <<queueVars, dropped>>
    BY <1>4 DEF CallerStep, WorkStep, UnwindStep
  <2>3. RunsAwaited'
    BY <2>1, RunsAwaitedStep
  <2>4. QueueInv'
    BY <2>2 DEF queueVars, QueueInv, PQ!QueueTypeOK, Tickets, TailIsLast, Chained,
       InOrder, Versions, Targeted, PQ!CancelDropsTheWaiting, PQ!FollowupIsExact,
       PQ!HasFollowup, Open
  <2>5. op' = op /\ \A k \in Callers \ {c} : pc'[k] = pc[k]
    BY <2>1, CallersMove
  <2>6. pc' = pc \/ (c \in Prompts => slot[c] = "running")
    BY <1>4, <2>1, CallersMove DEF CallerStep, WorkStep, UnwindStep
  <2>7. TurnsInv'
    BY <2>2, <2>5, <2>6 DEF TurnsInv, Callers, queueVars, QueueInv, PQ!CancelDropsTheWaiting
  <2> QED BY <1>0, <2>3, <2>4, <2>7
<1> QED BY <1>1, <1>2, <1>3, <1>4 DEF Next

(* The queue and the run state keep their books together. *)
THEOREM Invariance == Spec => []IInv
<1> QED BY InitInv, NextInv, PTL DEF Spec

----------------------------------------------------------------------------
(* Every variable has its type: SessionTurns.TypeOK. *)
THEOREM TypeCorrect == Spec => []TypeOK
<1>1. IInv => TypeOK
  BY DEF IInv, QueueInv, TurnsInv, TypeOK, Books!IInv, Books!TypeOK, RS!TypeOK,
     Books!Ops, RS!Ops, Books!PCs, RS!PCs, Books!FiberStates, RS!FiberStates,
     Books!RunnerStates, RS!RunnerStates, Books!Idle, RS!Idle, Books!Running, RS!Running,
     Books!Shell, RS!Shell, Books!ShellThenRun, RS!ShellThenRun
<1> QED BY <1>1, Invariance, PTL

(* A cancel drops exactly the prompts that waited when it came.             *)
THEOREM WaitingAreDropped == Spec => []CancelDropsTheWaiting
<1>1. IInv => CancelDropsTheWaiting
  BY DEF IInv, QueueInv, CancelDropsTheWaiting
<1> QED BY <1>1, Invariance, PTL

(* The running prompt knows of every newer prompt, and of no other.         *)
THEOREM FollowupsAreExact == Spec => []FollowupIsExact
<1>1. IInv => FollowupIsExact
  BY DEF IInv, QueueInv, FollowupIsExact
<1> QED BY <1>1, Invariance, PTL

(* Without open slots the queue remembers nothing of the session.           *)
THEOREM EmptyQueueForgets == Spec => []QueueForgets
<1>1. IInv => QueueForgets
  <2> SUFFICES ASSUME IInv, \A p \in Prompts : ~ Open(p)
               PROVE  tail = None /\ latest = 0 /\ activeSince = 0 /\ scoped = None
    BY DEF QueueForgets, PQ!QueueForgets, PQ!Open, Open
  <2>1. tail = None /\ latest = 0 /\ activeSince = 0
    BY DEF IInv, QueueInv, TailIsLast, PQ!QueueTypeOK
  <2>2. scoped = None
    BY DEF IInv, QueueInv, Targeted, PQ!QueueTypeOK, Open
  <2> QED BY <2>1, <2>2
<1> QED BY <1>1, Invariance, PTL

(* A prompt that waited when a cancel came is never worked on.              *)
THEOREM DroppedNeverRun == Spec => []DroppedNeverRuns
<1>1. IInv => DroppedNeverRuns
  <2> SUFFICES ASSUME IInv, NEW p \in doomed PROVE fiber[p] = "none"
    BY DEF DroppedNeverRuns
  <2>1. p \in Prompts /\ p \in Callers
    BY DEF IInv, QueueInv, PQ!QueueTypeOK, Callers
  <2>2. pc[p] = "start"
    BY <2>1 DEF IInv, TurnsInv
  <2> QED BY <2>1, <2>2, BookFacts DEF IInv
<1> QED BY <1>1, Invariance, PTL

(* A prompt's live work belongs to the slot that runs.                      *)
LEMMA LiveWorkHasTheSlot ==
  ASSUME IInv, NEW p \in Prompts, fiber[p] \in RS!Alive \/ pc[p] = "await"
  PROVE  slot[p] = "running" /\ scoped = p
<1>1. p \in Callers /\ op[p] = "loop"
  BY DEF Callers, IInv, TurnsInv
<1>2. pc[p] = "await"
  BY <1>1 DEF IInv, RunsAwaited
<1>3. slot[p] = "running"
  BY <1>2 DEF IInv, TurnsInv, QueueInv, PQ!QueueTypeOK, PQ!SlotStates
<1> QED BY <1>3 DEF IInv, QueueInv, Targeted

----------------------------------------------------------------------------
(* The refinement. *)

LEMMA LineOfQueueStep ==
  ASSUME IInv, NEW p \in Prompts, EnqueuePrompt(p) \/ QueueStep(p)
  PROVE  [Line!LineNext]_Line!lineVars
<1> DEFINE line == {q \in Prompts : PQ!Open(q)}
           work == [q \in Prompts |-> Work(q)]
<1>0. slot \in [Prompts -> PQ!SlotStates] /\ seqOf \in [Prompts -> Nat] /\ seq \in Nat
  BY DEF IInv, QueueInv, PQ!QueueTypeOK
<1>1. work' = work
  BY DEF EnqueuePrompt, QueueStep, TakeTurn, EndTurn, runVars, Work
<1>2. CASE EnqueuePrompt(p)
  <2>1. slot' = [slot EXCEPT ![p] = "waiting"] /\ seqOf' = [seqOf EXCEPT ![p] = seq + 1]
        /\ slot[p] = "new"
    BY <1>2 DEF EnqueuePrompt, PQ!Enqueue
  <2>2. line' = line \cup {p}
    BY <1>0, <2>1 DEF PQ!Open
  <2>3. seqOf[p] = 0 /\ \A q \in Prompts : seqOf'[p] > seqOf[q]
    BY <1>0, <2>1 DEF IInv, QueueInv, Tickets
  <2>4. seqOf' = [seqOf EXCEPT ![p] = seqOf'[p]]
    BY <1>0, <2>1
  <2>5. Line!Join(p)
    BY <1>1, <2>2, <2>3, <2>4 DEF Line!Join
  <2> QED BY <2>5 DEF Line!LineNext
<1>3. CASE TakeTurn(p)
  <2>1. seqOf' = seqOf
    BY <1>3 DEF TakeTurn, PQ!StartSlot, PQ!SkipSlot
  <2>2. line' = line
    BY <1>0, <1>3 DEF TakeTurn, PQ!StartSlot, PQ!SkipSlot, PQ!Ready, PQ!Open
  <2> QED BY <1>1, <2>1, <2>2 DEF Line!lineVars
<1>4. CASE EndTurn(p)
  <2>1. /\ slot[p] \in {"running", "skipped"} /\ slot' = [slot EXCEPT ![p] = "released"]
        /\ seqOf' = seqOf
        /\ slot[p] = "running" => pc[p] = "returned"
    BY <1>4 DEF EndTurn, PQ!Release
  <2>2. line' = line \ {p}
    BY <1>0, <2>1 DEF PQ!Open
  <2>3. p \in line /\ \A q \in line : seqOf[p] <= seqOf[q]
    BY <2>1 DEF IInv, QueueInv, InOrder, Open, PQ!Open
  <2>4. pc[p] # "await"
    BY <2>1 DEF IInv, TurnsInv
  <2>5. fiber[p] \notin RS!Alive
    BY <2>4 DEF IInv, TurnsInv, RunsAwaited, Callers
  <2>6. work[p] # "working"
    BY <2>5 DEF Work
  <2>7. Line!Leave(p)
    BY <1>1, <2>1, <2>2, <2>3, <2>6 DEF Line!Leave, Line!First
  <2> QED BY <2>7 DEF Line!LineNext
<1> QED BY <1>2, <1>3, <1>4 DEF QueueStep

LEMMA LineOfRunStep ==
  ASSUME IInv, NEW c \in Callers, CallerStep(c) \/ WorkStep(c) \/ UnwindStep(c)
  PROVE  [Line!LineNext]_Line!lineVars
<1> DEFINE line == {q \in Prompts : PQ!Open(q)}
           work == [q \in Prompts |-> Work(q)]
<1>1. RS!CallerStep(c) \/ RS!WorkStep(c) \/ RS!UnwindStep(c)
  BY DEF CallerStep, WorkStep, UnwindStep
<1>2. line' = line /\ seqOf' = seqOf
  BY DEF CallerStep, WorkStep, UnwindStep, queueVars, PQ!Open
<1>3. \A q \in Prompts : q \in Callers /\ op[q] = "loop"
  BY DEF IInv, TurnsInv, Callers
<1>4. \A q \in Prompts : Same(q) => Work(q)' = Work(q)
  BY DEF Same, Work
<1>5. CASE \A k \in Callers : op[k] = "loop" => Same(k)
  <2>1. work' = work
    BY <1>3, <1>4, <1>5
  <2> QED BY <1>2, <2>1 DEF Line!lineVars
<1>6. ASSUME NEW k \in Callers, k \notin Prompts,
             \A j \in Callers \ {k} : op[j] = "loop" => Same(j)
      PROVE  work' = work
  BY <1>3, <1>4, <1>6
<1>7. CASE Begins(c)
  <2>1. PICK k \in Callers :
          /\ op[k] = "loop" /\ fiber[k] = "none" /\ fiber'[k] = "active"
          /\ pc[k] = "await" \/ (k = c /\ RS!StartRun(c))
          /\ \A j \in Callers \ {k} : op[j] = "loop" => Same(j)
    BY <1>7 DEF Begins
  <2>2. CASE k \in Prompts
    <3>1. slot[k] = "running"
      <4>1. CASE pc[k] = "await"
        BY <2>2, <4>1, LiveWorkHasTheSlot
      <4>2. CASE pc[k] # "await"
        <5>1. k = c /\ pc'[c] = "await"
          BY <2>1, <4>2, BookFacts DEF IInv, RS!StartRun, RS!Goto
        <5>2. CallerStep(c)
          BY <1>1, <4>2, <5>1, CallersMove DEF IInv, WorkStep, UnwindStep
        <5> QED BY <2>2, <5>1, <5>2 DEF CallerStep
      <4> QED BY <4>1, <4>2
    <3>2. k \in line /\ \A q \in line : seqOf[k] <= seqOf[q]
      BY <2>2, <3>1 DEF IInv, QueueInv, InOrder, Open, PQ!Open
    <3>3. Work(k) = "fresh" /\ Work(k)' = "working"
      BY <2>1 DEF Work, RS!Alive
    <3>4. \A q \in Prompts \ {k} : Work(q)' = Work(q)
      BY <1>3, <1>4, <2>1
    <3>5. work' = [work EXCEPT ![k] = "working"]
      BY <2>2, <3>3, <3>4
    <3>6. Line!Begin(k)
      BY <1>2, <2>2, <3>2, <3>3, <3>5 DEF Line!Begin, Line!First
    <3> QED BY <2>2, <3>6 DEF Line!LineNext
  <2>3. CASE k \notin Prompts
    <3>1. work' = work
      BY <1>6, <2>1, <2>3
    <3> QED BY <1>2, <3>1 DEF Line!lineVars
  <2> QED BY <2>2, <2>3
<1>8. CASE Ends
  <2>1. PICK k \in Callers :
          /\ op[k] = "loop" /\ fiber[k] \in RS!Alive /\ fiber'[k] = "dead"
          /\ \A j \in Callers \ {k} : op[j] = "loop" => Same(j)
    BY <1>8 DEF Ends
  <2>2. CASE k \in Prompts
    <3>1. Work(k) = "working" /\ Work(k)' = "over"
      BY <2>1 DEF Work, RS!Alive, RS!Finalizing
    <3>2. \A q \in Prompts \ {k} : Work(q)' = Work(q)
      BY <1>3, <1>4, <2>1
    <3>3. work' = [work EXCEPT ![k] = "over"]
      BY <2>2, <3>1, <3>2
    <3>4. Line!End(k)
      BY <1>2, <2>2, <3>1, <3>3 DEF Line!End
    <3> QED BY <2>2, <3>4 DEF Line!LineNext
  <2>3. CASE k \notin Prompts
    <3>1. work' = work
      BY <1>6, <2>1, <2>3
    <3> QED BY <1>2, <3>1 DEF Line!lineVars
  <2> QED BY <2>2, <2>3
<1> QED BY <1>1, <1>5, <1>7, <1>8, WorkMoves DEF IInv

(* Whatever shells, loops and cancels come in between, the session serves   *)
(* its prompts as PromptLine says.                                          *)
THEOREM Refinement == Spec => ServesLine
<1>1. Init => Line!LineInit
  <2> SUFFICES ASSUME Init PROVE Line!LineInit
    OBVIOUS
  <2>1. {q \in Prompts : PQ!Open(q)} = {}
    BY DEF Init, PQ!QueueInit, PQ!Open
  <2>2. [q \in Prompts |-> Work(q)] = [q \in Prompts |-> "fresh"]
    BY DEF Init, RS!Init, Work, Callers
  <2>3. seqOf = [q \in Prompts |-> 0]
    BY DEF Init, PQ!QueueInit
  <2> QED BY <2>1, <2>2, <2>3 DEF Line!LineInit
<1>2. IInv /\ [Next]_vars => [Line!LineNext]_Line!lineVars
  <2> SUFFICES ASSUME IInv, [Next]_vars PROVE [Line!LineNext]_Line!lineVars
    OBVIOUS
  <2>1. CASE UNCHANGED vars
    <3>1. {q \in Prompts : PQ!Open(q)}' = {q \in Prompts : PQ!Open(q)}
      BY <2>1 DEF vars, queueVars, PQ!Open
    <3>2. [q \in Prompts |-> Work(q)]' = [q \in Prompts |-> Work(q)]
      BY <2>1 DEF vars, runVars, Work
    <3> QED BY <2>1, <3>1, <3>2 DEF vars, queueVars, Line!lineVars
  <2>2. ASSUME NEW c \in Others, DropQueued(c) PROVE [Line!LineNext]_Line!lineVars
    <3>1. {q \in Prompts : PQ!Open(q)}' = {q \in Prompts : PQ!Open(q)}
      BY <2>2 DEF DropQueued, PQ!CancelQueue, PQ!Open
    <3>2. [q \in Prompts |-> Work(q)]' = [q \in Prompts |-> Work(q)]
      BY <2>2 DEF DropQueued, runVars, Work
    <3> QED BY <2>2, <3>1, <3>2 DEF DropQueued, PQ!CancelQueue, Line!lineVars
  <2> QED BY <2>1, <2>2, LineOfQueueStep, LineOfRunStep DEF Next
<1> QED BY <1>1, <1>2, Invariance, PTL DEF Spec, ServesLine, Line!LineSpec

----------------------------------------------------------------------------
(* Who comes to await a run has started it, or joins one that its caller    *)
(* awaits.                                                                  *)
LEMMA RunsChosen ==
  ASSUME Books!IInv, RunsAwaited, NEW c \in Callers,
         RS!CallerStep(c) \/ RS!WorkStep(c) \/ RS!UnwindStep(c),
         NEW k \in Callers, op[k] = "loop", pc'[k] = "await"
  PROVE  \/ target'[k] = k
         \/ pc[k] = "await" /\ target'[k] = target[k]
         \/ k = c /\ pc[k] = "modify" /\ RS!CallerStep(c)
            /\ \E r \in Callers : op[r] = "loop" /\ pc[r] = "await"
<1> DEFINE Goal == \/ target'[k] = k
                   \/ pc[k] = "await" /\ target'[k] = target[k]
                   \/ k = c /\ pc[k] = "modify" /\ RS!CallerStep(c)
                      /\ \E r \in Callers : op[r] = "loop" /\ pc[r] = "await"
<1> USE DEF RS!Goto
<1>0. pc \in [Callers -> RS!PCs] /\ target \in [Callers -> Callers \cup {None}]
  BY BookFacts
<1>1. ASSUME RS!LoopStep(c), RS!CallerStep(c) PROVE Goal
  <2>1. CASE RS!JoinRun(c)
    <3>1. runner[handle[c]].run \in Callers /\ op[runner[handle[c]].run] = "loop"
          /\ done[runner[handle[c]].run] = "open"
      BY <2>1, BookFacts DEF RS!JoinRun, RS!AtLoop
    <3>2. pc[runner[handle[c]].run] = "await"
      BY <3>1 DEF RunsAwaited
    <3>3. CASE k = c
      BY <1>1, <2>1, <3>1, <3>2, <3>3 DEF RS!JoinRun, RS!AtLoop
    <3>4. CASE k # c
      BY <1>0, <2>1, <3>4 DEF RS!JoinRun
    <3> QED BY <3>3, <3>4
  <2>2. CASE RS!RunnerLookup(c) \/ RS!LoopReturns(c)
    BY <1>0, <2>2 DEF RS!RunnerLookup, RS!LoopReturns
  <2>3. CASE RS!StartRun(c) \/ RS!QueueBehindShell(c)
    BY <1>0, <2>3 DEF RS!StartRun, RS!QueueBehindShell
  <2> QED BY <1>1, <2>1, <2>2, <2>3 DEF RS!LoopStep
<1>2. ASSUME RS!ShellStep(c) PROVE Goal
  BY <1>0, <1>2 DEF RS!ShellStep, RS!ShellRejected, RS!ShellBusy, RS!StartShell,
     RS!ShellReturns, RS!AtShell
<1>3. ASSUME RS!CancelStep(c) PROVE Goal
  <2>1. CASE RS!CancelModify(c)
    BY <1>0, <2>1 DEF RS!CancelModify
  <2>2. CASE ~ RS!CancelModify(c)
    BY <1>0, <1>3, <2>2 DEF RS!CancelStep, RS!CancelLookup, RS!CancelIdle,
       RS!CancelInterrupt, RS!IdleIfCurrent, RS!CancelUntrack, RS!CancelIdling
  <2> QED BY <2>1, <2>2
<1>4. RS!WorkStep(c) \/ RS!UnwindStep(c) => pc' = pc /\ target' = target
  BY DEF RS!callerVars, RS!WorkStep, RS!UnwindStep, RS!WorkStatus, RS!WorkEnds, RS!CleanupStep,
     RS!Unwind, RS!FinishRun, RS!FinishShell, RS!Untrack, RS!Idling, RS!Settle
<1> QED BY <1>1, <1>2, <1>3, <1>4 DEF RS!CallerStep

LEMMA OwnRunStep ==
  ASSUME "loop" \notin OtherOps, IInv, OwnRun, [Next]_vars
  PROVE  OwnRun'
<1>1. IInv'
  BY NextInv
<1>2. ASSUME NEW p \in Prompts, fiber'[p] = "active" PROVE scoped' = p
  <2>1. p \in Callers /\ op'[p] = "loop"
    BY <1>1 DEF Callers, IInv, TurnsInv
  <2>2. pc'[p] = "await"
    BY <1>1, <1>2, <2>1 DEF IInv, RunsAwaited, RS!Alive
  <2>3. slot'[p] = "running"
    BY <1>1, <2>2 DEF IInv, TurnsInv, QueueInv, PQ!QueueTypeOK, PQ!SlotStates
  <2> QED BY <1>1, <2>3 DEF IInv, QueueInv, Targeted
<1>3. ASSUME NEW p \in Prompts, pc'[p] = "await" PROVE target'[p] = p
  <2>1. p \in Callers /\ op[p] = "loop"
    BY DEF Callers, IInv, TurnsInv
  <2>2. CASE UNCHANGED runVars
    BY <1>3, <2>2 DEF runVars, OwnRun
  <2>3. CASE ~ UNCHANGED runVars
    <3>1. PICK c \in Callers : CallerStep(c) \/ WorkStep(c) \/ UnwindStep(c)
      BY <2>3 DEF Next, vars, EnqueuePrompt, QueueStep, TakeTurn, EndTurn, DropQueued
    <3>2. RS!CallerStep(c) \/ RS!WorkStep(c) \/ RS!UnwindStep(c)
      BY <3>1 DEF CallerStep, WorkStep, UnwindStep
    <3>3. CASE pc[p] = "await" /\ target'[p] = target[p]
      BY <3>3 DEF OwnRun
    <3>4. CASE p = c /\ pc[p] = "modify" /\ RS!CallerStep(c)
               /\ \E r \in Callers : op[r] = "loop" /\ pc[r] = "await"
      <4>1. PICK r \in Callers : op[r] = "loop" /\ pc[r] = "await"
        BY <3>4
      <4>2. r \in Prompts
        BY <4>1 DEF Callers, IInv, TurnsInv
      <4>3. scoped = r
        BY <4>1, <4>2, LiveWorkHasTheSlot
      <4>4. CallerStep(c)
        BY <1>3, <3>1, <3>2, <3>4, CallersMove DEF IInv, WorkStep, UnwindStep
      <4>5. slot[p] = "running"
        BY <3>4, <4>4 DEF CallerStep
      <4>6. scoped = p
        BY <4>5 DEF IInv, QueueInv, Targeted
      <4> QED BY <3>4, <4>1, <4>3, <4>6
    <3> QED BY <1>3, <2>1, <3>2, <3>3, <3>4, RunsChosen DEF IInv
  <2> QED BY <2>2, <2>3
<1> QED BY <1>2, <1>3 DEF OwnRun

(* Without direct loops, no prompt is swallowed by the run of another one.  *)
THEOREM RunsAreOwn == ASSUME "loop" \notin OtherOps PROVE Spec => []OwnRun
<1>1. Init => OwnRun
  BY DEF Init, RS!Init, OwnRun, Callers
<1>2. IInv /\ OwnRun /\ [Next]_vars => OwnRun'
  BY OwnRunStep
<1> QED BY <1>1, <1>2, Invariance, PTL DEF Spec
=============================================================================
