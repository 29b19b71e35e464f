------------------------------ MODULE AgentLoop ------------------------------
(***************************************************************************)
(* The loop that answers the prompts of one session (runLoop of            *)
(* session/prompt.ts): what it reads of the stored messages, which it may  *)
(* not see because the turn's target hides them                            *)
(* (kilocode/session/prompt-queue.ts), when it stops, and when it          *)
(* summarises the history (session/compaction.ts).  A message is its place *)
(* in `messages`, for ids and times of creation ascend together.  Slots    *)
(* are served in order and runs are joined as SessionTurns shows; nothing  *)
(* is cancelled or reverted here.  Subtasks (module Subtasks), structured  *)
(* output and the limit on an agent's steps are left out.                  *)
(***************************************************************************)
EXTENDS Naturals, SequencesExt

CONSTANTS
  Prompts,      \* callers of prompt(), one message each
  Summaries,    \* callers of the summarize route
  MaxAttempts,  \* MAX_COMPACTION_ATTEMPTS
  Overflows,    \* whether requests may exceed the model's context
  MaxMessages

ASSUME CallersAssumption == Prompts \cap Summaries = {}
ASSUME MaxAttemptsAssumption == MaxAttempts \in Nat \ {0}
ASSUME OverflowsAssumption == Overflows \in BOOLEAN
ASSUME MaxMessagesAssumption == MaxMessages \in Nat

Callers == Prompts \cup Summaries

VARIABLES
  messages,
  pc, msgOf,      \* of each caller
  queue,          \* the prompts that hold a slot, the first is the active one
  newer,          \* hasFollowup
  base, extras,   \* the active target, base = 0 when there is none
  at,             \* where the run is
  view,           \* the messages it has read at the top of the loop
  current,        \* the assistant message being streamed
  attempts,       \* compactionAttempts
  joined,         \* the callers that wait for the run
  reason,         \* closeReasons
  ended, closed,  \* how the run ended, and what the caller's TurnClose says
  late            \* history of this run: steps begun although newer

callerVars == <<pc, msgOf, queue, newer, base, ended, closed>>
runVars    == <<at, view, current, attempts, joined, reason, late>>
vars == <<messages, callerVars, extras, runVars>>

Blank == [role |-> "user", kind |-> "prompt", parent |-> 0, finish |-> "none",
          error |-> FALSE, full |-> FALSE, tail |-> 0, auto |-> FALSE, overflow |-> FALSE]

User(kind) == [Blank EXCEPT !.kind = kind]
Compaction(auto, overflow) ==
  [Blank EXCEPT !.kind = "compaction", !.auto = auto, !.overflow = overflow]
Assistant(kind, parent) ==
  [Blank EXCEPT !.role = "assistant", !.kind = kind, !.parent = parent]

Ids == DOMAIN messages
Next1 == Len(messages) + 1

TypeOK ==
  /\ Len(messages) <= MaxMessages
  /\ \A i \in Ids :
       /\ messages[i].role \in {"user", "assistant"}
       /\ messages[i].kind \in {"prompt", "compaction", "continue", "replay",
                                "followup", "step", "summary"}
       /\ messages[i].parent < i
       /\ messages[i].tail # 0 => messages[i].kind = "compaction"
  /\ pc \in [Callers -> {"start", "stored", "waiting", "joined", "closing", "done"}]
  /\ msgOf \in [Callers -> 0..MaxMessages]
  /\ ToSet(queue) \subseteq Prompts
  /\ newer \in BOOLEAN
  /\ base \in 0..MaxMessages /\ extras \subseteq Ids
  /\ at \in {"none", "top", "seen", "asking", "streaming", "summarising"}
  /\ ToSet(view) \subseteq Ids
  /\ current \in 0..MaxMessages
  /\ attempts \in 0..MaxAttempts
  /\ joined \subseteq Callers /\ (at = "none" <=> joined = {})
  /\ reason \in {"", "error", "interrupted"}
  /\ ended \in [Callers -> {"", "exit", "nouser", "exhausted", "error",
                            "blocked", "interrupted"}]
  /\ closed \in [Callers -> {"", "completed", "error", "interrupted"}]

Init ==
  /\ messages = <<>>
  /\ pc = [c \in Callers |-> "start"]
  /\ msgOf = [c \in Callers |-> 0]
  /\ queue = <<>> /\ newer = FALSE
  /\ base = 0 /\ extras = {}
  /\ at = "none" /\ view = <<>> /\ current = 0 /\ attempts = 0
  /\ joined = {} /\ reason = ""
  /\ ended = [c \in Callers |-> ""] /\ closed = [c \in Callers |-> ""]
  /\ late = 0

----------------------------------------------------------------------------
(* What the loop sees. *)

IsUser(i)    == messages[i].role = "user"
Finished(i)  == messages[i].role = "assistant" /\ messages[i].finish # "none"
Summarised(i) == messages[i].kind = "summary" /\ Finished(i) /\ ~messages[i].error

MaxOr0(S) == IF S = {} THEN 0 ELSE CHOOSE i \in S : \A j \in S : j <= i

(* What of a sequence is in a set. *)
Keep(s, S) ==
  LET kept[k \in 0..Len(s)] ==
        IF k = 0 THEN <<>>
        ELSE IF s[k] \in S THEN Append(kept[k - 1], s[k]) ELSE kept[k - 1]
  IN kept[Len(s)]

(* filterCompacted: from the newest compaction whose summary is complete,   *)
(* and from the tail it keeps.                                              *)
Compacted ==
  LET c == MaxOr0({i \in Ids : /\ messages[i].kind = "compaction"
                               /\ \E s \in Ids : Summarised(s) /\ messages[s].parent = i})
  IN IF c = 0 \/ messages[c].tail > c THEN 1
     ELSE IF messages[c].tail = 0 THEN c ELSE messages[c].tail

(* scope: what later prompts say is not part of this turn. *)
Hidden(i) == base # 0 /\ i > base /\ i \notin extras

Visible(from) ==
  LET user(i) == IF IsUser(i) THEN i ELSE messages[i].parent
      recent == [k \in 1..(Len(messages) + 1 - from) |-> from + k - 1]
  IN Keep(recent, {i \in Ids : ~(user(i) >= from /\ Hidden(user(i)))})

Owned(i) ==
  LET u == IF IsUser(i) THEN i ELSE messages[i].parent
  IN base # 0 /\ u \in {base} \cup extras
Own == {i \in Ids : Owned(i)}

(* Mutant: the messages stay in the order they were stored in. *)
ScopedInOrder == Visible(Compacted)

Scoped ==
  LET seen == Visible(Compacted)
  IN Keep(seen, Ids \ Own) \o Keep(seen, Own)

(* trimBeforeLastSummary *)
Shown ==
  LET seen == Scoped
      s == SelectLastInSeq(seen, Summarised)
      p == IF s = 0 THEN 0
           ELSE SelectInSeq(seen, LAMBDA i : i = messages[seen[s]].parent)
  IN IF p = 0 THEN seen ELSE SubSeq(seen, p, Len(seen))

(* What the loop makes of it, once it has read it. *)
LastSeen(Test(_)) ==
  LET k == SelectLastInSeq(view, Test) IN IF k = 0 THEN 0 ELSE view[k]

LastUser      == LastSeen(IsUser)
LastAssistant == LastSeen(LAMBDA i : ~IsUser(i))
LastFinished  == LastSeen(Finished)

(* The oldest compaction that no finished answer follows. *)
Task ==
  LET after == SubSeq(view, SelectLastInSeq(view, Finished) + 1, Len(view))
      k == SelectInSeq(after, LAMBDA i : messages[i].kind = "compaction")
  IN IF k = 0 THEN 0 ELSE after[k]

(* Mutant: any later answer ends the turn. *)
AnsweredByAny ==
  LET a == LastAssistant
  IN a # 0 /\ messages[a].finish \in {"stop", "error"} /\ LastUser < a

Answered ==
  LET a == LastAssistant IN
  /\ a # 0
  /\ messages[a].finish \in {"stop", "error"}
  /\ messages[a].parent = LastUser
  /\ LastUser < a

Full ==
  LET a == LastFinished
  IN a # 0 /\ messages[a].kind # "summary" /\ messages[a].full

(* compaction.process asked to shorten a request that was too large: the    *)
(* prompt before the parent is sent again, when another one comes before it.*)
Replays(task) ==
  /\ messages[task].overflow
  /\ LET before == SubSeq(view, 1, SelectInSeq(view, LAMBDA i : i = LastUser) - 1)
     IN Len(Keep(before, {i \in Ids : IsUser(i) /\ messages[i].kind # "compaction"})) >= 2

(* Where the part of the history that is kept may begin: the choice is by   *)
(* size.  Only a parent with a compaction part records it.                  *)
Tails ==
  {0} \cup (IF messages[LastUser].kind = "compaction"
            THEN ToSet(view) \ {view[1], LastUser} ELSE {})

----------------------------------------------------------------------------
(* The callers. *)

Append1(m) == Len(messages) < MaxMessages /\ messages' = Append(messages, m)

(* prompt() stores its message and then takes a slot. *)
Store(p) ==
  /\ pc[p] = "start"
  /\ Append1(User("prompt"))
  /\ msgOf' = [msgOf EXCEPT ![p] = Next1]
  /\ pc' = [pc EXCEPT ![p] = "stored"]
  /\ UNCHANGED <<queue, newer, base, ended, closed, extras, runVars>>

Enqueue(p) ==
  /\ pc[p] = "stored"
  /\ queue' = Append(queue, p)
  /\ newer' = TRUE
  /\ pc' = [pc EXCEPT ![p] = "waiting"]
  /\ UNCHANGED <<messages, msgOf, base, ended, closed, extras, runVars>>

(* ensureRunning: the caller joins the run, which it starts if there is     *)
(* none.  Those who waited for the last run have read closeReasons by the   *)
(* time a new one clears it: they were resumed before it was forked.        *)
Join(c) ==
  /\ at = "none" => \A d \in Callers : pc[d] # "closing"
  /\ pc' = [pc EXCEPT ![c] = "joined"]
  /\ joined' = joined \cup {c}
  /\ IF at # "none" THEN UNCHANGED <<at, attempts, reason>>
     ELSE at' = "top" /\ attempts' = 0 /\ reason' = ""
  /\ UNCHANGED <<view, current>>

(* Mutant: the target is the newest message when the turn starts. *)
TargetAtStart(p) == Len(messages)

Target(p) == msgOf[p]

StartTurn(p) ==
  /\ pc[p] = "waiting" /\ Head(queue) = p
  /\ base' = Target(p) /\ extras' = {} /\ newer' = FALSE /\ late' = 0
  /\ Join(p)
  /\ UNCHANGED <<messages, msgOf, queue, ended, closed>>

(* The route stores a compaction and calls loop(), outside of the queue. *)
CreateSummary(s) ==
  /\ pc[s] = "start"
  /\ \E auto \in BOOLEAN : Append1(Compaction(auto, FALSE))
  /\ msgOf' = [msgOf EXCEPT ![s] = Next1]
  /\ pc' = [pc EXCEPT ![s] = "stored"]
  /\ UNCHANGED <<queue, newer, base, ended, closed, extras, runVars>>

LoopDirect(s) ==
  /\ s \in Summaries /\ pc[s] = "stored"
  /\ Join(s)
  /\ late' = IF at = "none" THEN 0 ELSE late
  /\ UNCHANGED <<messages, msgOf, queue, newer, base, ended, closed, extras>>

(* resolveCloseReason *)
Close(c) ==
  /\ pc[c] = "closing"
  /\ closed' = [closed EXCEPT ![c] =
       IF reason # "" THEN reason
       ELSE IF ended[c] = "nouser" THEN "error" ELSE "completed"]
  /\ reason' = ""
  /\ pc' = [pc EXCEPT ![c] = "done"]

(* A prompt's slot is released with its target. *)
Return(c) ==
  /\ Close(c)
  /\ IF c \in Prompts
     THEN /\ queue' = Tail(queue) /\ base' = 0 /\ extras' = {}
          /\ newer' = (newer /\ Tail(queue) # <<>>)
     ELSE UNCHANGED <<queue, newer, base, extras>>
  /\ UNCHANGED <<messages, msgOf, ended, at, view, current, attempts, joined, late>>

----------------------------------------------------------------------------
(* The run. *)

(* All who joined get the outcome; a failure and an interruption are noted  *)
(* for whoever closes first.                                                *)
EndRun(how) ==
  /\ at' = "none" /\ joined' = {} /\ view' = <<>> /\ current' = 0
  /\ ended' = [c \in Callers |-> IF c \in joined THEN how ELSE ended[c]]
  /\ pc' = [c \in Callers |-> IF c \in joined THEN "closing" ELSE pc[c]]
  /\ reason' = IF how \in {"error", "exhausted"} THEN "error"
               ELSE IF how = "interrupted" THEN "interrupted" ELSE reason
  /\ UNCHANGED <<msgOf, queue, newer, base, closed, late>>

Proceed(where) ==
  /\ at' = where
  /\ UNCHANGED <<callerVars, joined, reason>>

(* The messages are read; what follows is decided on what was read. *)
Look ==
  /\ at = "top"
  /\ view' = Shown
  /\ Proceed("seen")
  /\ UNCHANGED <<messages, extras, current, attempts, late>>

NoUser ==
  /\ at = "seen" /\ LastUser = 0
  /\ EndRun("nouser")
  /\ UNCHANGED <<messages, extras, attempts>>

Exit ==
  /\ at = "seen" /\ LastUser # 0 /\ Answered
  /\ EndRun("exit")
  /\ UNCHANGED <<messages, extras, attempts>>

(* The answer ends a plan: the user is asked how to go on. *)
AskFollowup ==
  /\ at = "seen" /\ LastUser # 0 /\ Answered
  /\ Proceed("asking")
  /\ UNCHANGED <<messages, extras, view, current, attempts, late>>

Dismissed ==
  /\ at = "asking"
  /\ EndRun("exit")
  /\ UNCHANGED <<messages, extras, attempts>>

Inject ==
  /\ at = "asking"
  /\ Append1(User("followup"))
  /\ extras' = IF base = 0 THEN extras ELSE extras \cup {Next1}
  /\ Proceed("top") /\ view' = <<>>
  /\ UNCHANGED <<current, attempts, late>>

GoesOn == at = "seen" /\ LastUser # 0 /\ ~Answered

(* guardCompactionAttempt: the failure is written on message i. *)
Exhaust(ms, i) ==
  [ms EXCEPT ![i].error = TRUE, ![i].finish = IF @ = "none" THEN "error" ELSE @]

(* The last answer filled the context. *)
Create ==
  /\ GoesOn /\ Task = 0 /\ Full
  /\ IF attempts = MaxAttempts
     THEN messages' = Exhaust(messages, LastFinished) /\ EndRun("exhausted") /\ UNCHANGED attempts
     ELSE /\ Append1(Compaction(TRUE, FALSE))
          /\ attempts' = attempts + 1
          /\ Proceed("top") /\ view' = <<>>
          /\ UNCHANGED <<current, late>>
  /\ UNCHANGED extras

Step ==
  /\ GoesOn /\ Task = 0 /\ ~Full
  /\ Append1(Assistant("step", LastUser))
  /\ current' = Next1
  /\ late' = IF newer THEN late + 1 ELSE late
  /\ Proceed("streaming")
  /\ UNCHANGED <<extras, view, attempts>>

Finish(finish, full) == [messages EXCEPT ![current].finish = finish, ![current].full = full]

(* Mutant: the next step is taken although a newer prompt waits. *)
OnwardAlways == Proceed("top") /\ view' = <<>> /\ current' = 0

(* A step is over and the turn is not: a newer prompt takes it over. *)
Onward ==
  \/ newer /\ EndRun("interrupted")
  \/ ~newer /\ Proceed("top") /\ view' = <<>> /\ current' = 0

StepEnds ==
  /\ at = "streaming"
  /\ \E finish \in {"stop", "tools"} : messages' = Finish(finish, FALSE)
  /\ Onward
  /\ UNCHANGED <<extras, attempts, late>>

StepFails ==
  /\ at = "streaming"
  /\ messages' = [messages EXCEPT ![current].error = TRUE]
  /\ EndRun("error")
  /\ UNCHANGED <<extras, attempts>>

(* A tool call was refused. *)
StepBlocked ==
  /\ at = "streaming"
  /\ messages' = Finish("tools", FALSE)
  /\ EndRun("blocked")
  /\ UNCHANGED <<extras, attempts>>

(* The context is used up, or the request was too large for it. *)
StepOverflows ==
  /\ at = "streaming" /\ Overflows
  /\ \E finish \in {"none", "stop", "tools"} :
       LET ms == Finish(finish, finish # "none") IN
       IF attempts = MaxAttempts
       THEN messages' = Exhaust(ms, current) /\ EndRun("exhausted") /\ UNCHANGED attempts
       ELSE /\ Len(messages) < MaxMessages
            /\ messages' = Append(ms, Compaction(TRUE, finish = "none"))
            /\ attempts' = attempts + 1
            /\ Onward
            /\ UNCHANGED late
  /\ UNCHANGED extras

(* compaction.process *)
Summarise ==
  /\ GoesOn /\ Task # 0
  /\ Append1(Assistant("summary", LastUser))
  /\ current' = Next1
  /\ Proceed("summarising")
  /\ UNCHANGED <<extras, view, attempts, late>>

(* The tail is written on the parent, before an error is looked at. *)
WithTail(ms, tail) ==
  IF tail = 0 THEN ms ELSE [ms EXCEPT ![LastUser].tail = tail]

SummaryEnds ==
  /\ at = "summarising"
  /\ \E tail \in Tails :
       LET ms == WithTail(Finish("stop", FALSE), tail) IN
       IF messages[Task].auto
       THEN /\ Len(messages) < MaxMessages
            /\ messages' = Append(ms, User(IF Replays(Task) THEN "replay" ELSE "continue"))
       ELSE messages' = ms
  /\ Proceed("top") /\ view' = <<>> /\ current' = 0
  /\ UNCHANGED <<extras, attempts, late>>

SummaryFails ==
  /\ at = "summarising"
  /\ \/ \E tail \in Tails :
          messages' = [WithTail(messages, tail) EXCEPT ![current].error = TRUE]
     \/ messages' = [messages EXCEPT ![current].error = TRUE, ![current].finish = "error"]
  /\ EndRun("error")
  /\ UNCHANGED <<extras, attempts>>

Next ==
  \/ \E p \in Prompts : Store(p) \/ Enqueue(p) \/ StartTurn(p)
  \/ \E s \in Summaries : CreateSummary(s) \/ LoopDirect(s)
  \/ \E c \in Callers : Return(c)
  \/ Look \/ NoUser \/ Exit \/ AskFollowup \/ Dismissed \/ Inject
  \/ Create \/ Step
  \/ StepEnds \/ StepFails \/ StepBlocked \/ StepOverflows
  \/ Summarise \/ SummaryEnds \/ SummaryFails

Spec == Init /\ [][Next]_vars

----------------------------------------------------------------------------
(* Nobody has asked for a summary. *)
NoSummarize == \A s \in Summaries : pc[s] = "start"

(* A step that begins in a prompt's turn answers that prompt, or what was   *)
(* injected for it, and no prompt that was stored later                     *)
(* (session/prompt.ts:1381).  Summarize adds messages outside of any turn.  *)
OwnTurn ==
  [][/\ at = "seen" /\ at' = "streaming" /\ NoSummarize
     /\ queue # <<>> /\ pc[Head(queue)] = "joined"
     => LastUser \in {msgOf[Head(queue)]} \cup extras]_vars

(* The messages of a request that hold the prompt of the turn end with it   *)
(* or with a step of its own, never with what another turn answered         *)
(* meanwhile (kilocode/session/prompt-queue.ts:83-91).                      *)
RequestEndsRight ==
  [][at = "top" /\ at' = "seen" /\ base \in ToSet(view') => Owned(Last(view'))]_vars

(* Once a newer prompt has its slot, the run begins at most one more step   *)
(* (session/prompt.ts:1644-1647).                                           *)
SupersededStops == late <= 1

Answers(p) ==
  {i \in Ids : /\ messages[i].kind = "step" /\ Finished(i) /\ ~messages[i].error
               /\ \/ messages[i].parent = msgOf[p]
                  \/ messages[i].parent > msgOf[p] /\ messages[messages[i].parent].kind = "followup"}

(* A prompt whose turn ended the ordinary way has been answered: the answer *)
(* to another message does not stand for it (session/prompt.ts:1410-1416).  *)
(* Compactions are left out: a summary that the turn finished may end it.   *)
AnsweredWhenDone ==
  (\A i \in Ids : messages[i].kind # "compaction") =>
    \A p \in Prompts : ended[p] = "exit" => Answers(p) # {}

(* The loop always finds a user message (session/prompt.ts:1398), unless    *)
(* somebody asks for a summary, which may cut the prompt off.               *)
UserFound == NoSummarize => \A c \in Callers : ended[c] # "nouser"

(* Who closes a turn says how its run ended, an error or an interruption    *)
(* (kilocode/session/prompt.ts:151-168); callers that share a run, as       *)
(* summarize makes them, share one reason.                                  *)
CloseTellsWhy ==
  NoSummarize => \A c \in Callers : closed[c] # "" =>
    /\ closed[c] = "error" <=> ended[c] \in {"error", "exhausted", "nouser"}
    /\ closed[c] = "interrupted" <=> ended[c] = "interrupted"

(* The loop's own books: a run stops when it is superseded, finds whom to   *)
(* answer, and is closed with the reason it ended for.                      *)
LoopInv == TypeOK /\ SupersededStops /\ UserFound /\ CloseTellsWhy
=============================================================================
