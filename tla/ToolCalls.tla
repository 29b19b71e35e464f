----------------------------- MODULE ToolCalls -----------------------------
(***************************************************************************)
(* The tool calls of one assistant message (session/processor.ts).  The    *)
(* stream of the model announces and makes calls, whose tools run beside   *)
(* it; what it says is handled in order, until it ends, breaks (and is     *)
(* perhaps tried again) or is interrupted.  Then cleanup waits for calls   *)
(* that are not settled, a quarter of a second, and marks them aborted.    *)
(* Tools are never interrupted; they see an abort signal.  The handling of *)
(* an event, and the writes of a tool, are steps: they do not wait.        *)
(***************************************************************************)
EXTENDS Naturals, Sequences

CONSTANTS
  Calls,        \* ids of tool calls
  MaxAttempts,  \* KILO_SESSION_RETRY_LIMIT and one: streams that are tried
  ShouldBreak   \* experimental.continue_loop_on_deny is not set

ASSUME AttemptsAssumption == MaxAttempts \in Nat \ {0}
ASSUME BreakAssumption == ShouldBreak \in BOOLEAN

VARIABLES
  phase,        \* streaming, retrying (the delay), waiting and sweeping (cleanup), ended
  attempt,      \* which stream this is
  events,       \* what the stream has said and is not handled
  table,        \* ctx.toolcalls
  todo,         \* calls that cleanup has still to look at
  part,         \* the stored part of each call
  tool,         \* where the tool of each call is
  of,           \* the attempt it belongs to
  errored,      \* ctx.assistantMessage.error is set
  blocked,      \* ctx.blocked
  interrupted,  \* the fiber of the turn was interrupted
  denied        \* history: the last stream that was read when a call of it was denied

vars == <<phase, attempt, events, table, todo, part, tool, of,
          errored, blocked, interrupted, denied>>

Open == {"pending", "running"}
Final == {"completed", "failed", "aborted"}
EventKinds == {"input", "call", "result", "failure", "rejection"}
Events == [kind : EventKinds, call : Calls] \cup [kind : {"break", "finish"}]

TypeOK ==
  /\ phase \in {"streaming", "retrying", "waiting", "sweeping", "ended"}
  /\ attempt \in 1..MaxAttempts
  /\ events \in Seq(Events)
  /\ table \subseteq Calls /\ todo \subseteq Calls
  /\ part \in [Calls -> {"none"} \cup Open \cup Final]
  /\ tool \in [Calls -> {"none", "announced", "working", "asking", "denied", "over"}]
  /\ of \in [Calls -> 0..MaxAttempts]
  /\ errored \in BOOLEAN /\ blocked \in BOOLEAN /\ interrupted \in BOOLEAN
  /\ denied \in 0..MaxAttempts
  /\ phase = "retrying" => attempt < MaxAttempts
  /\ \A c \in table : part[c] \in Open \/ (phase = "sweeping" /\ c \notin todo)

Init ==
  /\ phase = "streaming" /\ attempt = 1 /\ events = <<>>
  /\ table = {} /\ todo = {}
  /\ part = [c \in Calls |-> "none"]
  /\ tool = [c \in Calls |-> "none"] /\ of = [c \in Calls |-> 0]
  /\ errored = FALSE /\ blocked = FALSE /\ interrupted = FALSE
  /\ denied = 0

(* Mutant: settled whatever the part says. *)
SettleAny(c, outcome) ==
  IF c \in table
    THEN part' = [part EXCEPT ![c] = outcome] /\ table' = table \ {c}
    ELSE UNCHANGED <<part, table>>

(* completeToolCall and failToolCall: write the part, settle the call. *)
Settle(c, outcome) ==
  IF c \in table /\ part[c] = "running"
    THEN part' = [part EXCEPT ![c] = outcome] /\ table' = table \ {c}
    ELSE UNCHANGED <<part, table>>

----------------------------------------------------------------------------
(* The model and the tools *)

Said(kind) == \E i \in DOMAIN events : events[i].kind = kind
Speaking == phase = "streaming" /\ ~ Said("break") /\ ~ Said("finish")
(* Does somebody read what the tool's stream says? *)
Heard(c) == phase = "streaming" /\ of[c] = attempt

Announce(c) ==
  /\ Speaking /\ tool[c] = "none"
  /\ tool' = [tool EXCEPT ![c] = "announced"] /\ of' = [of EXCEPT ![c] = attempt]
  /\ events' = Append(events, [kind |-> "input", call |-> c])
  /\ UNCHANGED <<phase, attempt, table, todo, part, errored, blocked, interrupted, denied>>

(* A call comes with or without its announcement; the tool begins at once. *)
Call(c) ==
  /\ Speaking
  /\ tool[c] = "none" \/ (tool[c] = "announced" /\ of[c] = attempt)
  /\ tool' = [tool EXCEPT ![c] = "working"] /\ of' = [of EXCEPT ![c] = attempt]
  /\ events' = Append(events, [kind |-> "call", call |-> c])
  /\ UNCHANGED <<phase, attempt, table, todo, part, errored, blocked, interrupted, denied>>

(* The stream says that it is over when every tool of it is. *)
Finish ==
  /\ Speaking /\ \A c \in Calls : of[c] = attempt => tool[c] \in {"announced", "over"}
  /\ events' = Append(events, [kind |-> "finish"])
  /\ UNCHANGED <<phase, attempt, table, todo, part, tool, of, errored, blocked, interrupted, denied>>

Break ==
  /\ Speaking
  /\ events' = Append(events, [kind |-> "break"])
  /\ UNCHANGED <<phase, attempt, table, todo, part, tool, of, errored, blocked, interrupted, denied>>

(* ctx.metadata, by updateToolCall *)
Report(c) ==
  /\ tool[c] = "working" /\ c \in table /\ part[c] = "pending"
  /\ part' = [part EXCEPT ![c] = "running"]
  /\ UNCHANGED <<phase, attempt, events, table, todo, tool, of, errored, blocked, interrupted, denied>>

Ask(c) ==
  /\ tool[c] = "working"
  /\ tool' = [tool EXCEPT ![c] = "asking"]
  /\ UNCHANGED <<phase, attempt, events, table, todo, part, of, errored, blocked, interrupted, denied>>

Allow(c) ==
  /\ tool[c] = "asking"
  /\ tool' = [tool EXCEPT ![c] = "working"]
  /\ UNCHANGED <<phase, attempt, events, table, todo, part, of, errored, blocked, interrupted, denied>>

(* One rejection answers every ask of the session; the tools die of it. *)
Reject ==
  LET asking == {c \in Calls : tool[c] = "asking"} IN
  /\ asking # {}
  /\ tool' = [c \in Calls |-> IF c \in asking THEN "denied" ELSE tool[c]]
  /\ denied' = IF \E c \in asking : Heard(c) THEN attempt ELSE denied
  /\ UNCHANGED <<phase, attempt, events, table, todo, part, of, errored, blocked, interrupted>>

(* A tool whose signal is aborted writes its result itself. *)
Succeed(c) ==
  /\ tool[c] = "working"
  /\ tool' = [tool EXCEPT ![c] = "over"]
  /\ IF Heard(c)
       THEN /\ events' = Append(events, [kind |-> "result", call |-> c])
            /\ UNCHANGED <<part, table>>
       ELSE Settle(c, "completed") /\ UNCHANGED events
  /\ UNCHANGED <<phase, attempt, todo, of, errored, blocked, interrupted, denied>>

(* A tool fails, by itself or by the rejection. *)
FailTool(c) ==
  /\ tool[c] \in {"working", "denied"}
  /\ tool' = [tool EXCEPT ![c] = "over"]
  /\ LET kind == IF tool[c] = "denied" THEN "rejection" ELSE "failure" IN
     events' = IF Heard(c) THEN Append(events, [kind |-> kind, call |-> c]) ELSE events
  /\ UNCHANGED <<phase, attempt, table, todo, part, of, errored, blocked, interrupted, denied>>

----------------------------------------------------------------------------
(* handleEvent *)

Comes(kind) == phase = "streaming" /\ events # <<>> /\ Head(events).kind = kind

ToolInputStart ==
  /\ Comes("input") /\ events' = Tail(events)
  /\ LET c == Head(events).call IN
       part' = [part EXCEPT ![c] = "pending"] /\ table' = table \cup {c}
  /\ UNCHANGED <<phase, attempt, todo, tool, of, errored, blocked, interrupted, denied>>

ToolCall ==
  /\ Comes("call") /\ events' = Tail(events)
  /\ LET c == Head(events).call IN
       part' = [part EXCEPT ![c] = "running"] /\ table' = table \cup {c}
  /\ UNCHANGED <<phase, attempt, todo, tool, of, errored, blocked, interrupted, denied>>

ToolResult ==
  /\ Comes("result") /\ events' = Tail(events)
  /\ Settle(Head(events).call, "completed")
  /\ UNCHANGED <<phase, attempt, todo, tool, of, errored, blocked, interrupted, denied>>

(* Mutant: errors that are no rejections are not recorded. *)
ToolErrorUnrecorded ==
  /\ Comes("failure") \/ Comes("rejection")
  /\ events' = Tail(events)
  /\ IF Head(events).kind = "rejection"
       THEN Settle(Head(events).call, "failed") /\ blocked' = (blocked \/ (ShouldBreak /\ part' # part))
       ELSE UNCHANGED <<part, table, blocked>>
  /\ UNCHANGED <<phase, attempt, todo, tool, of, errored, interrupted, denied>>

(* Mutant: the last error decides whether the loop goes on. *)
ToolErrorOverwrites ==
  /\ Comes("failure") \/ Comes("rejection")
  /\ events' = Tail(events)
  /\ Settle(Head(events).call, "failed")
  /\ blocked' = (Head(events).kind = "rejection" /\ part' # part /\ ShouldBreak)
  /\ UNCHANGED <<phase, attempt, todo, tool, of, errored, interrupted, denied>>

ToolError ==
  /\ Comes("failure") \/ Comes("rejection")
  /\ events' = Tail(events)
  /\ Settle(Head(events).call, "failed")
  /\ blocked' = IF Head(events).kind = "rejection" /\ part' # part THEN ShouldBreak ELSE blocked
  /\ UNCHANGED <<phase, attempt, todo, tool, of, errored, interrupted, denied>>

----------------------------------------------------------------------------
(* The end of a stream *)

(* Leave the stream, whose scope aborts the tools' signal. *)
LeaveFor(next) == phase' = next /\ events' = <<>>

StreamEnds ==
  /\ Comes("finish") /\ LeaveFor("waiting")
  /\ UNCHANGED <<attempt, table, todo, part, tool, of, errored, blocked, interrupted, denied>>

(* The stream broke, and may be tried again. *)
StreamBreaks ==
  /\ Comes("break")
  /\ \/ attempt < MaxAttempts /\ LeaveFor("retrying") /\ UNCHANGED errored
     \/ errored' = TRUE /\ LeaveFor("waiting")
  /\ UNCHANGED <<attempt, table, todo, part, tool, of, blocked, interrupted, denied>>

(* Mutant: calls are forgotten when the stream is tried again, as texts are. *)
RetryForgets ==
  /\ phase = "retrying" /\ LeaveFor("streaming") /\ attempt' = attempt + 1
  /\ table' = {}
  /\ UNCHANGED <<todo, part, tool, of, errored, blocked, interrupted, denied>>

Retry ==
  /\ phase = "retrying" /\ LeaveFor("streaming") /\ attempt' = attempt + 1
  /\ UNCHANGED <<table, todo, part, tool, of, errored, blocked, interrupted, denied>>

Interrupt ==
  /\ phase \in {"streaming", "retrying"} /\ LeaveFor("waiting")
  /\ interrupted' = TRUE /\ errored' = TRUE
  /\ UNCHANGED <<attempt, table, todo, part, tool, of, blocked, denied>>

----------------------------------------------------------------------------
(* cleanup *)

(* Mutant: the wait has no limit. *)
WaitAll ==
  /\ phase = "waiting" /\ table = {}
  /\ phase' = "sweeping" /\ todo' = table
  /\ UNCHANGED <<attempt, events, table, part, tool, of, errored, blocked, interrupted, denied>>

(* Every call is settled, or 250 ms have passed. *)
Wait ==
  /\ phase = "waiting"
  /\ phase' = "sweeping" /\ todo' = table
  /\ UNCHANGED <<attempt, events, table, part, tool, of, errored, blocked, interrupted, denied>>

Sweep(c) ==
  /\ phase = "sweeping" /\ c \in todo
  /\ todo' = todo \ {c}
  /\ part' = IF c \in table THEN [part EXCEPT ![c] = "aborted"] ELSE part
  /\ UNCHANGED <<phase, attempt, events, table, tool, of, errored, blocked, interrupted, denied>>

End ==
  /\ phase = "sweeping" /\ todo = {}
  /\ phase' = "ended" /\ table' = {}
  /\ UNCHANGED <<attempt, events, todo, part, tool, of, errored, blocked, interrupted, denied>>

----------------------------------------------------------------------------
Processor ==
  \/ ToolInputStart \/ ToolCall \/ ToolResult \/ ToolError
  \/ StreamEnds \/ StreamBreaks \/ Retry
  \/ Wait \/ (\E c \in Calls : Sweep(c)) \/ End

Next ==
  \/ \E c \in Calls : \/ Announce(c) \/ Call(c) \/ Report(c)
                      \/ Ask(c) \/ Allow(c) \/ Succeed(c) \/ FailTool(c)
  \/ Reject \/ Finish \/ Break \/ Interrupt
  \/ Processor

Spec == Init /\ [][Next]_vars
(* The turn's fiber runs, and its timers fire; models and tools may never end. *)
FairSpec == Spec /\ WF_vars(Processor)

----------------------------------------------------------------------------
(* Properties *)

(* Whatever was announced or called has an outcome when the step is over,   *)
(* also after broken streams: the next request shows no open call.          *)
SettledAtEnd == phase = "ended" => \A c \in Calls : part[c] \notin Open

(* An outcome is never replaced: results that come late, while calls are    *)
(* swept or afterwards, change nothing.                                     *)
OutcomeStays ==
  [][\A c \in Calls : part[c] \in Final => part'[c] = part[c]]_vars

(* A tool that was called is marked aborted only if its stream broke or the *)
(* turn was interrupted; a stream that ends well loses no result.           *)
ResultsKept ==
  \A c \in Calls :
    part[c] = "aborted" /\ tool[c] # "announced" =>
      interrupted \/ errored \/ of[c] < attempt

(* An interrupted turn ends, whatever its tools do. *)
InterruptedEnds == interrupted ~> phase = "ended"

(* A step in which a call was denied does not continue, whatever fails      *)
(* besides ("Continue the agent loop when a tool call is denied", which is  *)
(* not set).  Only a denial in a stream that then breaks is not heard: the  *)
(* step is tried again.                                                     *)
DenialStops ==
  phase = "ended" /\ ShouldBreak /\ denied = attempt => blocked \/ errored
============================================================================
