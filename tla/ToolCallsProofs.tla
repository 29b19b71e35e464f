-------------------------- MODULE ToolCallsProofs --------------------------
(***************************************************************************)
(* For any calls and any number of attempts: whatever was announced or     *)
(* called has an outcome when the step is over, and no outcome is replaced.*)
(***************************************************************************)
EXTENDS ToolCalls, TLAPS

(* What is open can be found: in the table, and by the sweep. *)
OpenInv ==
  /\ \A c \in Calls : part[c] \in Open => phase # "ended" /\ c \in table
  /\ phase = "sweeping" => \A c \in Calls : part[c] \in Open => c \in todo

(* Tools and parts: a call that nobody has made has no part, and one that   *)
(* was only announced has no outcome while its stream is read.              *)
ToolInv ==
  /\ \A c \in Calls : of[c] <= attempt
  /\ \A c \in Calls : tool[c] = "none" => part[c] = "none"
  /\ phase = "streaming" =>
       \A c \in Calls : tool[c] = "announced" /\ of[c] = attempt => part[c] \in {"none", "pending"}

(* The event says something about a call. *)
About(e, c) == e.kind \in EventKinds /\ e.call = c

(* An announcement comes before anything else of its call, and a call after *)
(* its announcement and before its outcome.                                 *)
EventInv ==
  /\ phase # "streaming" => events = <<>>
  /\ \A i \in 1..Len(events) : \A c \in Calls : About(events[i], c) =>
       /\ of[c] = attempt /\ tool[c] # "none"
       /\ tool[c] = "announced" => events[i].kind = "input"
       /\ events[i].kind = "input" => part[c] = "none"
       /\ events[i].kind = "call" => part[c] \notin Final
  /\ \A i, j \in 1..Len(events) : \A c \in Calls :
       j < i /\ About(events[i], c) /\ About(events[j], c)
         /\ events[i].kind \in {"input", "call"} =>
           events[i].kind = "call" /\ events[j].kind = "input"

IInv == TypeOK /\ OpenInv /\ ToolInv /\ EventInv

----------------------------------------------------------------------------
(* The invariant holds at first. *)
LEMMA InitInv == Init => IInv
<1> SUFFICES ASSUME Init PROVE IInv  OBVIOUS
<1> USE DEF Init
<1>1. TypeOK
  <2>1. 1 \in 1..MaxAttempts /\ 0 \in 0..MaxAttempts  BY AttemptsAssumption
  <2>2. events \in Seq(Events)  OBVIOUS
  <2>. QED  BY <2>1, <2>2 DEF TypeOK, Open, Final
<1>2. OpenInv  BY DEF OpenInv, Open
<1>3. ToolInv  BY DEF ToolInv
<1>4. EventInv  BY DEF EventInv
<1>. QED  BY <1>1, <1>2, <1>3, <1>4 DEF IInv

(* A new event of one call keeps the order, if it fits behind what is there.*)
LEMMA AppendKeepsOrder ==
  ASSUME NEW s \in Seq(Events), NEW e \in Events
  PROVE  /\ Append(s, e) \in Seq(Events)
         /\ Len(Append(s, e)) = Len(s) + 1
         /\ \A i \in 1..Len(s) : Append(s, e)[i] = s[i]
         /\ Append(s, e)[Len(s) + 1] = e
OBVIOUS

(* Handling an event shifts the others. *)
LEMMA TailShifts ==
  ASSUME NEW s \in Seq(Events), s # <<>>
  PROVE  /\ Tail(s) \in Seq(Events) /\ Len(Tail(s)) = Len(s) - 1 /\ Len(s) \in Nat \ {0}
         /\ \A i \in 1..Len(Tail(s)) : Tail(s)[i] = s[i + 1] /\ i + 1 \in 1..Len(s)
         /\ Head(s) = s[1] /\ 1 \in 1..Len(s) /\ Head(s) \in Events
OBVIOUS

(* Every step keeps the types. *)
LEMMA TypeStep == TypeOK /\ [Next]_vars => TypeOK'
<1> SUFFICES ASSUME TypeOK, [Next]_vars PROVE TypeOK'  OBVIOUS
<1> USE AttemptsAssumption, BreakAssumption DEF TypeOK, Open, Final, Events, EventKinds
<1>1. ASSUME NEW c \in Calls, Announce(c) PROVE TypeOK'
  BY <1>1 DEF Announce, Speaking
<1>2. ASSUME NEW c \in Calls, Call(c) PROVE TypeOK'
  BY <1>2 DEF Call, Speaking
<1>3. ASSUME NEW c \in Calls, Report(c) PROVE TypeOK'
  BY <1>3 DEF Report
<1>4. ASSUME NEW c \in Calls, Ask(c) PROVE TypeOK'
  BY <1>4 DEF Ask
<1>5. ASSUME NEW c \in Calls, Allow(c) PROVE TypeOK'
  BY <1>5 DEF Allow
<1>6. ASSUME NEW c \in Calls, Succeed(c) PROVE TypeOK'
  <2>. USE <1>6 DEF Succeed, Heard
  <2>1. CASE Heard(c)
    <3>. DEFINE e == [kind |-> "result", call |-> c]
    <3>1. e \in Events /\ events' = Append(events, e)  BY <2>1
    <3>2. events' \in Seq(Events)  BY <3>1, AppendKeepsOrder
    <3>. QED  BY <2>1, <3>2
  <2>2. CASE ~ Heard(c)  BY <2>2 DEF Settle
  <2>. QED  BY <2>1, <2>2
<1>7. ASSUME NEW c \in Calls, FailTool(c) PROVE TypeOK'
  BY <1>7 DEF FailTool, Heard
<1>8. CASE Reject
  BY <1>8 DEF Reject
<1>9. CASE Finish
  BY <1>9 DEF Finish, Speaking
<1>10. CASE Break
  BY <1>10 DEF Break, Speaking
<1>11. CASE Interrupt
  BY <1>11 DEF Interrupt, LeaveFor
<1>12. CASE ToolInputStart
  BY <1>12 DEF ToolInputStart, Comes
<1>13. CASE ToolCall
  <2>1. events' \in Seq(Events) /\ Head(events).call \in Calls
    BY <1>13, TailShifts DEF ToolCall, Comes
  <2>. QED  BY <1>13, <2>1 DEF ToolCall, Comes
<1>14. CASE ToolResult
  <2>1. events' \in Seq(Events) /\ Head(events).call \in Calls
    BY <1>14, TailShifts DEF ToolResult, Comes
  <2>. QED  BY <1>14, <2>1 DEF ToolResult, Comes, Settle
<1>15. CASE ToolError
  <2>. USE <1>15 DEF ToolError, Comes, Settle
  <2>1. events' \in Seq(Events) /\ Head(events).call \in Calls  OBVIOUS
  <2>2. blocked' \in BOOLEAN  BY BreakAssumption
  <2>. QED  BY <2>1, <2>2
<1>16. CASE StreamEnds
  BY <1>16 DEF StreamEnds, Comes, LeaveFor
<1>17. CASE StreamBreaks
  <2>1. events' \in Seq(Events)
    <3>1. events' = <<>>  BY <1>17 DEF StreamBreaks, LeaveFor
    <3>. QED  BY <3>1
  <2>. QED  BY <1>17, <2>1 DEF StreamBreaks, Comes, LeaveFor
<1>18. CASE Retry
  <2>1. attempt + 1 \in 1..MaxAttempts /\ events' \in Seq(Events)
    BY <1>18, AttemptsAssumption DEF Retry, LeaveFor
  <2>. QED  BY <1>18, <2>1 DEF Retry, LeaveFor
<1>19. CASE Wait
  BY <1>19 DEF Wait
<1>20. ASSUME NEW c \in Calls, Sweep(c) PROVE TypeOK'
  BY <1>20 DEF Sweep
<1>21. CASE End
  BY <1>21 DEF End
<1>22. CASE UNCHANGED vars
  BY <1>22 DEF vars
<1>. QED  BY <1>1, <1>2, <1>3, <1>4, <1>5, <1>6, <1>7, <1>8, <1>9, <1>10, <1>11, <1>12, <1>13, <1>14, <1>15, <1>16, <1>17, <1>18, <1>19, <1>20, <1>21, <1>22 DEF Next, Processor

(* Every step keeps open calls in the table, and in what is left to sweep. *)
LEMMA OpenStep == TypeOK /\ OpenInv /\ [Next]_vars => OpenInv'
<1> SUFFICES ASSUME TypeOK, OpenInv, [Next]_vars PROVE OpenInv'  OBVIOUS
<1> USE DEF TypeOK, OpenInv, Open, Final
<1>1. ASSUME NEW c \in Calls, Announce(c) PROVE OpenInv'
  BY <1>1 DEF Announce, Speaking
<1>2. ASSUME NEW c \in Calls, Call(c) PROVE OpenInv'
  BY <1>2 DEF Call, Speaking
<1>3. ASSUME NEW c \in Calls, Report(c) PROVE OpenInv'
  BY <1>3 DEF Report
<1>4. ASSUME NEW c \in Calls, Ask(c) PROVE OpenInv'
  BY <1>4 DEF Ask
<1>5. ASSUME NEW c \in Calls, Allow(c) PROVE OpenInv'
  BY <1>5 DEF Allow
<1>6. ASSUME NEW c \in Calls, Succeed(c) PROVE OpenInv'
  BY <1>6 DEF Succeed, Settle, Heard
<1>7. ASSUME NEW c \in Calls, FailTool(c) PROVE OpenInv'
  BY <1>7 DEF FailTool, Heard
<1>8. CASE Reject
  BY <1>8 DEF Reject
<1>9. CASE Finish
  BY <1>9 DEF Finish, Speaking
<1>10. CASE Break
  BY <1>10 DEF Break, Speaking
<1>11. CASE Interrupt
  BY <1>11 DEF Interrupt, LeaveFor
<1>12. CASE ToolInputStart
  BY <1>12 DEF ToolInputStart, Comes
<1>13. CASE ToolCall
  BY <1>13 DEF ToolCall, Comes
<1>14. CASE ToolResult
  BY <1>14 DEF ToolResult, Comes, Settle
<1>15. CASE ToolError
  BY <1>15 DEF ToolError, Comes, Settle
<1>16. CASE StreamEnds
  BY <1>16 DEF StreamEnds, Comes, LeaveFor
<1>17. CASE StreamBreaks
  BY <1>17 DEF StreamBreaks, Comes, LeaveFor
<1>18. CASE Retry
  BY <1>18 DEF Retry, LeaveFor
<1>19. CASE Wait
  BY <1>19 DEF Wait
<1>20. ASSUME NEW c \in Calls, Sweep(c) PROVE OpenInv'
  BY <1>20 DEF Sweep
<1>21. CASE End
  BY <1>21 DEF End
<1>22. CASE UNCHANGED vars
  BY <1>22 DEF vars
<1>. QED  BY <1>1, <1>2, <1>3, <1>4, <1>5, <1>6, <1>7, <1>8, <1>9, <1>10, <1>11, <1>12, <1>13, <1>14, <1>15, <1>16, <1>17, <1>18, <1>19, <1>20, <1>21, <1>22 DEF Next, Processor

(* Every step keeps tools and parts together. *)
LEMMA ToolStep == IInv /\ [Next]_vars => ToolInv'
<1> SUFFICES ASSUME IInv, [Next]_vars PROVE ToolInv'  OBVIOUS
<1> USE DEF IInv, TypeOK, OpenInv, ToolInv, EventInv, About, Open, Final
<1>1. ASSUME NEW c \in Calls, Announce(c) PROVE ToolInv'
  BY <1>1 DEF Announce, Speaking
<1>2. ASSUME NEW c \in Calls, Call(c) PROVE ToolInv'
  BY <1>2 DEF Call, Speaking
<1>3. ASSUME NEW c \in Calls, Report(c) PROVE ToolInv'
  BY <1>3 DEF Report
<1>4. ASSUME NEW c \in Calls, Ask(c) PROVE ToolInv'
  BY <1>4 DEF Ask
<1>5. ASSUME NEW c \in Calls, Allow(c) PROVE ToolInv'
  BY <1>5 DEF Allow
<1>6. ASSUME NEW c \in Calls, Succeed(c) PROVE ToolInv'
  BY <1>6 DEF Succeed, Settle, Heard
<1>7. ASSUME NEW c \in Calls, FailTool(c) PROVE ToolInv'
  BY <1>7 DEF FailTool, Heard
<1>8. CASE Reject
  BY <1>8 DEF Reject
<1>9. CASE Finish
  BY <1>9 DEF Finish, Speaking
<1>10. CASE Break
  BY <1>10 DEF Break, Speaking
<1>11. CASE Interrupt
  BY <1>11 DEF Interrupt, LeaveFor
<1>12. CASE ToolInputStart
  <2>. DEFINE d == Head(events).call
  <2>1. d \in Calls /\ About(events[1], d) /\ 1 \in 1..Len(events)
    BY <1>12, TailShifts DEF ToolInputStart, Comes, Events, EventKinds
  <2>2. tool[d] # "none" /\ (tool[d] = "announced" => Head(events).kind = "input")
    BY <1>12, <2>1 DEF ToolInputStart, Comes
  <2>. QED  BY <1>12, <2>1, <2>2 DEF ToolInputStart, Comes
<1>13. CASE ToolCall
  <2>. DEFINE d == Head(events).call
  <2>1. d \in Calls /\ About(events[1], d) /\ 1 \in 1..Len(events)
    BY <1>13, TailShifts DEF ToolCall, Comes, Events, EventKinds
  <2>2. tool[d] # "none" /\ (tool[d] = "announced" => Head(events).kind = "input")
    BY <1>13, <2>1 DEF ToolCall, Comes
  <2>. QED  BY <1>13, <2>1, <2>2 DEF ToolCall, Comes
<1>14. CASE ToolResult
  BY <1>14 DEF ToolResult, Comes, Settle
<1>15. CASE ToolError
  BY <1>15 DEF ToolError, Comes, Settle
<1>16. CASE StreamEnds
  BY <1>16 DEF StreamEnds, Comes, LeaveFor
<1>17. CASE StreamBreaks
  BY <1>17 DEF StreamBreaks, Comes, LeaveFor
<1>18. CASE Retry
  BY <1>18 DEF Retry, LeaveFor
<1>19. CASE Wait
  BY <1>19 DEF Wait
<1>20. ASSUME NEW c \in Calls, Sweep(c) PROVE ToolInv'
  BY <1>20 DEF Sweep
<1>21. CASE End
  BY <1>21 DEF End
<1>22. CASE UNCHANGED vars
  BY <1>22 DEF vars
<1>. QED  BY <1>1, <1>2, <1>3, <1>4, <1>5, <1>6, <1>7, <1>8, <1>9, <1>10, <1>11, <1>12, <1>13, <1>14, <1>15, <1>16, <1>17, <1>18, <1>19, <1>20, <1>21, <1>22 DEF Next, Processor

(* Every step keeps the order of the events of a call. *)
LEMMA EventStep == IInv /\ [Next]_vars => EventInv'
<1> SUFFICES ASSUME IInv, [Next]_vars PROVE EventInv'  OBVIOUS
<1> USE DEF IInv, TypeOK, OpenInv, ToolInv, EventInv, About, Open, Final, EventKinds
<1>1. ASSUME NEW c \in Calls, Announce(c) PROVE EventInv'
  <2>. DEFINE e == [kind |-> "input", call |-> c]
  <2>1. e \in Events /\ e.kind = "input" /\ e.call = c  BY DEF Events
  <2>2. events' = Append(events, e)  BY <1>1 DEF Announce
  <2>3. /\ Len(events') = Len(events) + 1 /\ events'[Len(events) + 1] = e /\ Len(events) \in Nat
        /\ \A i \in 1..Len(events) : events'[i] = events[i]
    BY <2>1, <2>2, AppendKeepsOrder
  <2>. HIDE DEF e
  <2>4. phase' = "streaming"  BY <1>1 DEF Announce, Speaking
  <2>5. ASSUME NEW i \in 1..Len(events'), NEW d \in Calls, About(events'[i], d)
        PROVE  /\ of'[d] = attempt' /\ tool'[d] # "none"
               /\ tool'[d] = "announced" => events'[i].kind = "input"
               /\ events'[i].kind = "input" => part'[d] = "none"
               /\ events'[i].kind = "call" => part'[d] \notin Final
    <3>1. CASE i = Len(events) + 1  BY <1>1, <2>1, <2>3, <2>5, <3>1 DEF Announce, Speaking
    <3>2. CASE i \in 1..Len(events)  BY <1>1, <2>1, <2>3, <2>5, <3>2 DEF Announce, Speaking
    <3>. QED  BY <2>3, <3>1, <3>2
  <2>6. ASSUME NEW i \in 1..Len(events'), NEW j \in 1..Len(events'), NEW d \in Calls,
               j < i, About(events'[i], d), About(events'[j], d), events'[i].kind \in {"input", "call"}
        PROVE  events'[i].kind = "call" /\ events'[j].kind = "input"
    <3>1. CASE i = Len(events) + 1
      <4>1. j \in 1..Len(events) /\ d = c  BY <2>1, <2>3, <2>6, <3>1
      <4>2. tool[c] # "none" /\ (tool[c] = "announced" => events[j].kind = "input")
        BY <2>3, <2>6, <4>1
      <4>. QED  BY <1>1, <2>1, <2>3, <2>6, <3>1, <4>1, <4>2 DEF Announce, Speaking
    <3>2. CASE i \in 1..Len(events)
      <4>1. j \in 1..Len(events)  BY <2>3, <2>6, <3>2
      <4>2. events'[i] = events[i] /\ events'[j] = events[j]  BY <2>3, <3>2, <4>1
      <4>. QED  BY SMTT(60), <2>6, <3>2, <4>1, <4>2
    <3>. QED  BY <2>3, <3>1, <3>2
  <2>. QED  BY <2>4, <2>5, <2>6
<1>2. ASSUME NEW c \in Calls, Call(c) PROVE EventInv'
  <2>. DEFINE e == [kind |-> "call", call |-> c]
  <2>1. e \in Events /\ e.kind = "call" /\ e.call = c  BY DEF Events
  <2>2. events' = Append(events, e)  BY <1>2 DEF Call
  <2>3. /\ Len(events') = Len(events) + 1 /\ events'[Len(events) + 1] = e /\ Len(events) \in Nat
        /\ \A i \in 1..Len(events) : events'[i] = events[i]
    BY <2>1, <2>2, AppendKeepsOrder
  <2>. HIDE DEF e
  <2>4. phase' = "streaming"  BY <1>2 DEF Call, Speaking
  <2>5. ASSUME NEW i \in 1..Len(events'), NEW d \in Calls, About(events'[i], d)
        PROVE  /\ of'[d] = attempt' /\ tool'[d] # "none"
               /\ tool'[d] = "announced" => events'[i].kind = "input"
               /\ events'[i].kind = "input" => part'[d] = "none"
               /\ events'[i].kind = "call" => part'[d] \notin Final
    <3>1. CASE i = Len(events) + 1  BY <1>2, <2>1, <2>3, <2>5, <3>1 DEF Call, Speaking
    <3>2. CASE i \in 1..Len(events)  BY <1>2, <2>1, <2>3, <2>5, <3>2 DEF Call, Speaking
    <3>. QED  BY <2>3, <3>1, <3>2
  <2>6. ASSUME NEW i \in 1..Len(events'), NEW j \in 1..Len(events'), NEW d \in Calls,
               j < i, About(events'[i], d), About(events'[j], d), events'[i].kind \in {"input", "call"}
        PROVE  events'[i].kind = "call" /\ events'[j].kind = "input"
    <3>1. CASE i = Len(events) + 1
      <4>1. j \in 1..Len(events) /\ d = c  BY <2>1, <2>3, <2>6, <3>1
      <4>2. tool[c] # "none" /\ (tool[c] = "announced" => events[j].kind = "input")
        BY <2>3, <2>6, <4>1
      <4>. QED  BY <1>2, <2>1, <2>3, <2>6, <3>1, <4>1, <4>2 DEF Call, Speaking
    <3>2. CASE i \in 1..Len(events)
      <4>1. j \in 1..Len(events)  BY <2>3, <2>6, <3>2
      <4>2. events'[i] = events[i] /\ events'[j] = events[j]  BY <2>3, <3>2, <4>1
      <4>. QED  BY SMTT(60), <2>6, <3>2, <4>1, <4>2
    <3>. QED  BY <2>3, <3>1, <3>2
  <2>. QED  BY <2>4, <2>5, <2>6
<1>3. ASSUME NEW c \in Calls, Report(c) PROVE EventInv'
  BY <1>3 DEF Report
<1>4. ASSUME NEW c \in Calls, Ask(c) PROVE EventInv'
  <2>1. \A d \in Calls : (tool'[d] # "announced" /\ tool'[d] # "none") \/ tool'[d] = tool[d]  BY <1>4 DEF Ask
  <2>. QED  BY <1>4, <2>1 DEF Ask
<1>5. ASSUME NEW c \in Calls, Allow(c) PROVE EventInv'
  BY <1>5 DEF Allow
<1>6. ASSUME NEW c \in Calls, Succeed(c) PROVE EventInv'
  <2>1. \A d \in Calls : tool'[d] = "over" \/ tool'[d] = tool[d]  BY <1>6 DEF Succeed
  <2>2. CASE Heard(c)
    <3>. DEFINE e == [kind |-> "result", call |-> c]
    <3>1. e \in Events /\ e.kind = "result" /\ e.call = c  BY DEF Events
    <3>2. events' = Append(events, e) /\ UNCHANGED <<phase, attempt, part, of>>  BY <1>6, <2>2 DEF Succeed
    <3>3. /\ Len(events') = Len(events) + 1 /\ events'[Len(events) + 1] = e /\ Len(events) \in Nat
          /\ \A i \in 1..Len(events) : events'[i] = events[i]
      BY <3>1, <3>2, AppendKeepsOrder
    <3>4. tool'[c] = "over" /\ of[c] = attempt /\ phase = "streaming"  BY <1>6, <2>2 DEF Succeed, Heard
    <3>. HIDE DEF e
    <3>. QED  BY <2>1, <3>1, <3>2, <3>3, <3>4
  <2>3. CASE ~ Heard(c)
    <3>1. UNCHANGED <<phase, attempt, events, of>>  BY <1>6, <2>3 DEF Succeed
    <3>2. \A i \in 1..Len(events) : ~ About(events[i], c)
      BY <2>3 DEF Heard
    <3>3. \A d \in Calls \ {c} : part'[d] = part[d]  BY <1>6, <2>3 DEF Succeed, Settle
    <3>. QED  BY <2>1, <3>1, <3>2, <3>3
  <2>. QED  BY <2>2, <2>3
<1>7. ASSUME NEW c \in Calls, FailTool(c) PROVE EventInv'
  BY <1>7 DEF FailTool, Heard
<1>8. CASE Reject
  BY <1>8 DEF Reject
<1>9. CASE Finish
  BY <1>9 DEF Finish, Speaking
<1>10. CASE Break
  BY <1>10 DEF Break, Speaking
<1>11. CASE Interrupt
  BY <1>11 DEF Interrupt, LeaveFor
<1>12. CASE ToolInputStart
  BY <1>12 DEF ToolInputStart, Comes
<1>13. CASE ToolCall
  BY SMTT(60), <1>13 DEF ToolCall, Comes
<1>14. CASE ToolResult
  BY <1>14 DEF ToolResult, Comes, Settle
<1>15. CASE ToolError
  BY <1>15 DEF ToolError, Comes, Settle
<1>16. CASE StreamEnds
  BY <1>16 DEF StreamEnds, Comes, LeaveFor
<1>17. CASE StreamBreaks
  BY <1>17 DEF StreamBreaks, Comes, LeaveFor
<1>18. CASE Retry
  BY <1>18 DEF Retry, LeaveFor
<1>19. CASE Wait
  BY <1>19 DEF Wait
<1>20. ASSUME NEW c \in Calls, Sweep(c) PROVE EventInv'
  BY <1>20 DEF Sweep
<1>21. CASE End
  BY <1>21 DEF End
<1>22. CASE UNCHANGED vars
  BY <1>22 DEF vars
<1>. QED  BY <1>1, <1>2, <1>3, <1>4, <1>5, <1>6, <1>7, <1>8, <1>9, <1>10, <1>11, <1>12, <1>13, <1>14, <1>15, <1>16, <1>17, <1>18, <1>19, <1>20, <1>21, <1>22 DEF Next, Processor

----------------------------------------------------------------------------
(* The inductive invariant holds. *)
THEOREM Invariance == Spec => []IInv
<1>1. IInv /\ [Next]_vars => IInv'
  BY TypeStep, OpenStep, ToolStep, EventStep DEF IInv
<1>. QED  BY InitInv, <1>1, PTL DEF Spec

(* The types, and that the table names calls without an outcome. *)
THEOREM TypeCorrect == Spec => []TypeOK
<1>1. IInv => TypeOK  BY DEF IInv
<1>. QED  BY Invariance, <1>1, PTL

(* No call is left open when the step is over: what is open is in the table *)
(* of the processor, through every retry, and the sweep goes over it all.   *)
THEOREM CallsAreSettled == Spec => []SettledAtEnd
<1>1. IInv => SettledAtEnd  BY DEF IInv, OpenInv, SettledAtEnd
<1>. QED  BY Invariance, <1>1, PTL

(* No outcome is replaced: the table never names a call that has one while  *)
(* tools or events can settle it, and no event announces such a call again. *)
THEOREM OutcomesStay == Spec => OutcomeStays
<1>. DEFINE Kept == \A c \in Calls : part[c] \in Final => part'[c] = part[c]
<1>1. IInv /\ [Next]_vars => [Kept]_vars
  <2> SUFFICES ASSUME IInv, Next PROVE Kept  OBVIOUS
  <2> USE DEF IInv, TypeOK, Open, Final
  <2>1. ASSUME NEW c \in Calls, Report(c) \/ Sweep(c) \/ Succeed(c) PROVE Kept
    BY <2>1 DEF Report, Sweep, Succeed, Settle
  <2>2. CASE ToolInputStart \/ ToolCall
    <3>. DEFINE d == Head(events).call
    <3>1. d \in Calls /\ About(events[1], d) /\ 1 \in 1..Len(events) /\ Head(events) = events[1]
      BY <2>2, TailShifts DEF ToolInputStart, ToolCall, Comes, Events, EventKinds, About
    <3>2. part[d] \notin Final  BY <2>2, <3>1 DEF ToolInputStart, ToolCall, Comes, EventInv
    <3>. QED  BY <2>2, <3>2 DEF ToolInputStart, ToolCall
  <2>3. CASE ToolResult \/ ToolError
    BY <2>3 DEF ToolResult, ToolError, Settle
  <2>4. CASE UNCHANGED part  BY <2>4
  <2>. QED
    BY <2>1, <2>2, <2>3, <2>4
    DEF Next, Processor, Announce, Call, Ask, Allow, FailTool, Reject, Finish, Break, Interrupt,
        StreamEnds, StreamBreaks, Retry, Wait, End
<1>. QED  BY Invariance, <1>1, PTL DEF Spec, OutcomeStays

----------------------------------------------------------------------------
(* Denials and results. *)

Outcomes == {"result", "failure", "rejection"}
Begun(c) == part[c] = "running" /\ c \in table
CalledBefore(c, n) == \E j \in 1..n : About(events[j], c) /\ events[j].kind = "call"

AtWork(c) == tool[c] \in {"working", "asking", "denied"}
IsOutcome(e, c) == About(e, c) /\ e.kind \in Outcomes
Well(c) == part[c] \in {"completed", "failed"}

(* While a stream is read, a tool of it is at work on a call that has begun *)
(* or is about to; ... *)
WorkBegins ==
  \A c \in Calls : of[c] = attempt /\ AtWork(c) => Begun(c) \/ CalledBefore(c, Len(events))

(* ... a tool that is over has told its outcome, ... *)
OverIsTold ==
  \A c \in Calls : of[c] = attempt /\ tool[c] = "over" =>
    Well(c) \/ \E i \in 1..Len(events) : IsOutcome(events[i], c)

(* ... which comes after the call, ... *)
CallFirst ==
  \A i \in 1..Len(events) : \A c \in Calls : IsOutcome(events[i], c) =>
    tool[c] = "over" /\ (Begun(c) \/ CalledBefore(c, i - 1))

(* ... once, ... *)
OneOutcome ==
  \A i, j \in 1..Len(events) : \A c \in Calls :
    IsOutcome(events[i], c) /\ IsOutcome(events[j], c) => i = j

(* ... and the end of the stream comes after all outcomes. *)
FinishLast ==
  \A i \in 1..Len(events) : events[i].kind = "finish" =>
    i = Len(events) /\ \A c \in Calls : of[c] = attempt => tool[c] \in {"announced", "over"}

StreamInv ==
  phase = "streaming" => WorkBegins /\ OverIsTold /\ CallFirst /\ OneOutcome /\ FinishLast

(* A denial of the last stream is on its way until it is heard. *)
DenialInv ==
  /\ denied <= attempt
  /\ denied = attempt /\ ShouldBreak =>
       \/ blocked \/ errored \/ phase = "retrying"
       \/ /\ phase = "streaming"
          /\ \/ \E c \in Calls : tool[c] = "denied" /\ of[c] = attempt
             \/ \E i \in 1..Len(events) : events[i].kind = "rejection"

(* A stream that ended well has left no call of it open. *)
ResultInv ==
  /\ \A c \in Calls : part[c] = "aborted" => phase \in {"sweeping", "ended"}
  /\ phase \in {"waiting", "sweeping", "ended"} =>
       \/ interrupted \/ errored
       \/ \A c \in Calls : of[c] = attempt =>
            tool[c] = "announced" \/ (tool[c] = "over" /\ part[c] \in {"completed", "failed"})
  /\ ResultsKept

(* The stream says something new: what that may be. *)
LEMMA AppendStep ==
  ASSUME IInv, StreamInv, phase = "streaming", NEW e \in Events, events' = Append(events, e),
         UNCHANGED <<phase, attempt, part, table>>, ~ Said("finish"),
         \A d \in Calls :
           /\ of'[d] = attempt /\ AtWork(d)' =>
                (of[d] = attempt /\ AtWork(d)) \/ (About(e, d) /\ e.kind = "call")
           /\ of'[d] = attempt /\ tool'[d] = "over" =>
                (of[d] = attempt /\ tool[d] = "over") \/ IsOutcome(e, d)
           /\ tool[d] = "over" => tool'[d] = "over"
           /\ IsOutcome(e, d) => tool'[d] = "over" /\ of[d] = attempt /\ AtWork(d)
           /\ e.kind = "finish" /\ of'[d] = attempt => tool'[d] \in {"announced", "over"}
  PROVE  StreamInv'
<1>0. events \in Seq(Events) /\ Len(events) \in Nat
  BY DEF IInv, TypeOK
<1>1. /\ Len(events') = Len(events) + 1 /\ events'[Len(events) + 1] = e
      /\ \A i \in 1..Len(events) : events'[i] = events[i]
  BY <1>0, AppendKeepsOrder
<1>2. WorkBegins /\ OverIsTold /\ CallFirst /\ OneOutcome /\ FinishLast
  BY DEF StreamInv
<1>3. ASSUME NEW i \in 1..Len(events')
      PROVE  i \in 1..Len(events) \/ (i = Len(events) + 1 /\ events'[i] = e)
  BY <1>0, <1>1
<1>4. WorkBegins'
  <2> SUFFICES ASSUME NEW d \in Calls, of'[d] = attempt, AtWork(d)'
               PROVE  (Begun(d) \/ CalledBefore(d, Len(events)))'
    BY DEF WorkBegins
  <2>1. CASE of[d] = attempt /\ AtWork(d)
    <3>1. Begun(d) \/ CalledBefore(d, Len(events))  BY <1>2, <2>1 DEF WorkBegins
    <3>2. Begun(d)' \/ \E j \in 1..Len(events) : About(events'[j], d) /\ events'[j].kind = "call"
      BY <1>1, <3>1 DEF Begun, CalledBefore
    <3>. QED  BY <1>0, <1>1, <3>2 DEF CalledBefore
  <2>2. CASE About(e, d) /\ e.kind = "call"
    <3>1. Len(events) + 1 \in 1..Len(events')  BY <1>0, <1>1
    <3>. QED  BY <1>1, <2>2, <3>1 DEF CalledBefore
  <2>. QED  BY <2>1, <2>2
<1>5. OverIsTold'
  <2> SUFFICES ASSUME NEW d \in Calls, of'[d] = attempt, tool'[d] = "over"
               PROVE  Well(d)' \/ \E i \in 1..Len(events') : IsOutcome(events'[i], d)
    BY DEF OverIsTold, IsOutcome, About
  <2>1. CASE IsOutcome(e, d)
    <3>1. Len(events) + 1 \in 1..Len(events')  BY <1>0, <1>1
    <3>. QED  BY <1>1, <2>1, <3>1
  <2>2. CASE of[d] = attempt /\ tool[d] = "over"
    <3>1. Well(d) \/ \E i \in 1..Len(events) : IsOutcome(events[i], d)
      BY <1>2, <2>2 DEF OverIsTold
    <3>2. \A i \in 1..Len(events) : i \in 1..Len(events')  BY <1>0, <1>1
    <3>. QED  BY <1>1, <3>1, <3>2 DEF Well
  <2>. QED  BY <2>1, <2>2
<1>6. CallFirst'
  <2> SUFFICES ASSUME NEW i \in 1..Len(events'), NEW d \in Calls, IsOutcome(events'[i], d)
               PROVE  tool'[d] = "over" /\ (Begun(d)' \/ \E j \in 1..(i - 1) : About(events'[j], d) /\ events'[j].kind = "call")
    BY DEF CallFirst, IsOutcome, About, CalledBefore
  <2>1. CASE i \in 1..Len(events)
    <3>1. tool[d] = "over" /\ (Begun(d) \/ CalledBefore(d, i - 1))
      BY <1>1, <1>2, <2>1 DEF CallFirst
    <3>2. \A j \in 1..(i - 1) : events'[j] = events[j]  BY <1>0, <1>1, <2>1
    <3>. QED  BY <3>1, <3>2 DEF Begun, CalledBefore
  <2>2. CASE i = Len(events) + 1 /\ events'[i] = e
    <3>1. tool'[d] = "over" /\ of[d] = attempt /\ AtWork(d)  BY <2>2
    <3>2. Begun(d) \/ CalledBefore(d, Len(events))  BY <1>2, <3>1 DEF WorkBegins
    <3>3. i - 1 = Len(events)  BY <1>0, <2>2
    <3>. QED  BY <1>1, <3>1, <3>2, <3>3 DEF Begun, CalledBefore
  <2>. QED  BY <1>3, <2>1, <2>2
<1>7. OneOutcome'
  <2> SUFFICES ASSUME NEW i \in 1..Len(events'), NEW j \in 1..Len(events'), NEW d \in Calls,
                      IsOutcome(events'[i], d), IsOutcome(events'[j], d)
               PROVE  i = j
    BY DEF OneOutcome, IsOutcome, About
  <2>1. ASSUME NEW k \in 1..Len(events), IsOutcome(events'[k], d) PROVE tool[d] = "over"
    BY <1>1, <1>2, <2>1 DEF CallFirst
  <2>2. ~ (IsOutcome(e, d) /\ tool[d] = "over")  BY DEF AtWork
  <2>3. CASE i \in 1..Len(events) /\ j \in 1..Len(events)
    BY <1>1, <1>2, <2>3 DEF OneOutcome
  <2>. QED  BY <1>3, <2>1, <2>2, <2>3
<1>8. FinishLast'
  <2> SUFFICES ASSUME NEW i \in 1..Len(events'), events'[i].kind = "finish"
               PROVE  i = Len(events') /\ \A d \in Calls : of'[d] = attempt => tool'[d] \in {"announced", "over"}
    BY DEF FinishLast
  <2>1. i \notin 1..Len(events)
    BY <1>0, <1>1 DEF Said
  <2>. QED  BY <1>1, <1>3, <2>1
<1>. QED  BY <1>4, <1>5, <1>6, <1>7, <1>8 DEF StreamInv

(* An event of a call is handled: what that does. *)
LEMMA TailStep ==
  ASSUME IInv, StreamInv, phase = "streaming", events # <<>>, events' = Tail(events),
         UNCHANGED <<phase, attempt, tool, of>>,
         \A d \in Calls :
           /\ Begun(d) => Begun(d)' \/ IsOutcome(Head(events), d)
           /\ About(Head(events), d) /\ Head(events).kind = "call" => Begun(d)'
           /\ Well(d) => Well(d)'
           /\ IsOutcome(Head(events), d) => Well(d)'
  PROVE  StreamInv'
<1>0. events \in Seq(Events)
  BY DEF IInv, TypeOK
<1>1. /\ Len(events') = Len(events) - 1 /\ Len(events) \in Nat \ {0}
      /\ \A i \in 1..Len(events') : events'[i] = events[i + 1] /\ i + 1 \in 1..Len(events)
      /\ Head(events) = events[1] /\ 1 \in 1..Len(events)
  BY <1>0, TailShifts
<1>2. WorkBegins /\ OverIsTold /\ CallFirst /\ OneOutcome /\ FinishLast
  BY DEF StreamInv
<1>3. ASSUME NEW i \in 1..Len(events), i # 1
      PROVE  i - 1 \in 1..Len(events') /\ events'[i - 1] = events[i]
  <2>1. i - 1 \in 1..Len(events') /\ (i - 1) + 1 = i  BY <1>1, <1>3
  <2>. QED  BY <1>1, <2>1
<1>4. ASSUME NEW d \in Calls, NEW n \in 1..Len(events), Begun(d) \/ CalledBefore(d, n),
             ~ IsOutcome(Head(events), d)
      PROVE  Begun(d)' \/ \E j \in 1..(n - 1) : About(events'[j], d) /\ events'[j].kind = "call"
  <2>1. CASE Begun(d)  BY <1>4, <2>1
  <2>2. ASSUME NEW j \in 1..n, About(events[j], d), events[j].kind = "call", j # 1
        PROVE  \E k \in 1..(n - 1) : About(events'[k], d) /\ events'[k].kind = "call"
    <3>1. j \in 1..Len(events) /\ j - 1 \in 1..(n - 1)  BY <1>1, <2>2
    <3>. QED  BY <1>3, <2>2, <3>1
  <2>. QED  BY <1>1, <1>4, <2>1, <2>2 DEF CalledBefore
<1>5. WorkBegins'
  <2> SUFFICES ASSUME NEW d \in Calls, of[d] = attempt, AtWork(d)
               PROVE  Begun(d)' \/ \E j \in 1..Len(events') : About(events'[j], d) /\ events'[j].kind = "call"
    BY DEF WorkBegins, AtWork, CalledBefore, About
  <2>1. Begun(d) \/ CalledBefore(d, Len(events))  BY <1>2 DEF WorkBegins
  <2>2. ~ IsOutcome(Head(events), d)  BY <1>1, <1>2 DEF CallFirst, AtWork
  <2>3. Len(events) \in 1..Len(events)  BY <1>1
  <2>. QED  BY <1>1, <1>4, <2>1, <2>2, <2>3
<1>6. OverIsTold'
  <2> SUFFICES ASSUME NEW d \in Calls, of[d] = attempt, tool[d] = "over"
               PROVE  Well(d)' \/ \E i \in 1..Len(events') : IsOutcome(events'[i], d)
    BY DEF OverIsTold, IsOutcome, About
  <2>1. Well(d) \/ \E i \in 1..Len(events) : IsOutcome(events[i], d)  BY <1>2 DEF OverIsTold
  <2>. QED  BY <1>1, <1>3, <2>1
<1>7. CallFirst'
  <2> SUFFICES ASSUME NEW i \in 1..Len(events'), NEW d \in Calls, IsOutcome(events'[i], d)
               PROVE  tool[d] = "over" /\ (Begun(d)' \/ \E j \in 1..(i - 1) : About(events'[j], d) /\ events'[j].kind = "call")
    BY DEF CallFirst, IsOutcome, About, CalledBefore
  <2>1. i + 1 \in 1..Len(events) /\ IsOutcome(events[i + 1], d) /\ i + 1 # 1 /\ (i + 1) - 1 = i
    BY <1>1
  <2>2. tool[d] = "over" /\ (Begun(d) \/ CalledBefore(d, i))  BY <1>2, <2>1 DEF CallFirst
  <2>3. ~ IsOutcome(Head(events), d)  BY <1>1, <1>2, <2>1 DEF OneOutcome
  <2>4. i \in 1..Len(events)  BY <1>1
  <2>. QED  BY <1>4, <2>2, <2>3, <2>4
<1>8. OneOutcome'
  <2> SUFFICES ASSUME NEW i \in 1..Len(events'), NEW j \in 1..Len(events'), NEW d \in Calls,
                      IsOutcome(events'[i], d), IsOutcome(events'[j], d)
               PROVE  i = j
    BY DEF OneOutcome, IsOutcome, About
  <2>1. i + 1 = j + 1  BY <1>1, <1>2 DEF OneOutcome
  <2>. QED  BY <1>1, <2>1
<1>9. FinishLast'
  <2> SUFFICES ASSUME NEW i \in 1..Len(events'), events'[i].kind = "finish"
               PROVE  i = Len(events') /\ \A d \in Calls : of[d] = attempt => tool[d] \in {"announced", "over"}
    BY DEF FinishLast
  <2>1. i + 1 = Len(events) /\ \A d \in Calls : of[d] = attempt => tool[d] \in {"announced", "over"}
    BY <1>1, <1>2 DEF FinishLast
  <2>2. i \in Nat /\ Len(events') = Len(events) - 1 /\ Len(events) \in Nat  BY <1>1
  <2>3. i = Len(events')  BY <2>1, <2>2
  <2>. QED  BY <2>1, <2>3
<1>. QED  BY <1>5, <1>6, <1>7, <1>8, <1>9 DEF StreamInv

(* A step that leaves the events alone, and settles nothing of this stream. *)
LEMMA StillStep ==
  ASSUME IInv, StreamInv, UNCHANGED <<events, phase, attempt, of>>,
         \A d \in Calls : of[d] = attempt /\ phase = "streaming" =>
           /\ Begun(d) => Begun(d)'
           /\ Well(d) => Well(d)'
           /\ AtWork(d)' => AtWork(d)
           /\ tool'[d] = "over" <=> tool[d] = "over"
           /\ tool'[d] \in {"announced", "over"} <=> tool[d] \in {"announced", "over"}
  PROVE  StreamInv'
<1> SUFFICES ASSUME phase = "streaming" PROVE StreamInv'
  BY DEF StreamInv
<1>1. WorkBegins /\ OverIsTold /\ CallFirst /\ OneOutcome /\ FinishLast
  BY DEF StreamInv
<1>2. \A i \in 1..Len(events) : \A d \in Calls : IsOutcome(events[i], d) => of[d] = attempt
  BY DEF IInv, EventInv, IsOutcome
<1>3. WorkBegins'
  BY <1>1 DEF WorkBegins, CalledBefore, About
<1>4. OverIsTold'
  BY <1>1 DEF OverIsTold, IsOutcome, About
<1>5. CallFirst'
  BY <1>1, <1>2 DEF CallFirst, IsOutcome, About, CalledBefore
<1>6. OneOutcome' /\ FinishLast'
  BY <1>1 DEF OneOutcome, FinishLast, IsOutcome, About
<1>. QED  BY <1>3, <1>4, <1>5, <1>6 DEF StreamInv

(* Nothing has been said when a stream begins, and no tool belongs to it.   *)
LEMMA FirstStep ==
  ASSUME IInv, Retry PROVE StreamInv'
<1>1. events' = <<>> /\ \A d \in Calls : of'[d] # attempt'
  BY DEF IInv, TypeOK, ToolInv, Retry, LeaveFor
<1>2. 1..Len(events') = {}
  BY <1>1
<1>. QED
  BY <1>1, <1>2 DEF StreamInv, WorkBegins, OverIsTold, CallFirst, OneOutcome, FinishLast

LEMMA StreamStep == IInv /\ StreamInv /\ [Next]_vars => StreamInv'
<1> SUFFICES ASSUME IInv, StreamInv, [Next]_vars PROVE StreamInv'  OBVIOUS
<1>0. /\ events \in Seq(Events) /\ part \in [Calls -> {"none"} \cup Open \cup Final]
      /\ tool \in [Calls -> {"none", "announced", "working", "asking", "denied", "over"}]
      /\ of \in [Calls -> 0..MaxAttempts]
  BY DEF IInv, TypeOK
<1>1. ASSUME NEW c \in Calls, Announce(c) PROVE StreamInv'
  <2>. DEFINE e == [kind |-> "input", call |-> c]
  <2>1. e \in Events /\ e.kind = "input"  BY DEF Events, EventKinds
  <2>2. events' = Append(events, e)  BY <1>1 DEF Announce
  <2>. HIDE DEF e
  <2>. QED  BY <1>0, <1>1, <2>1, <2>2, AppendStep DEF Announce, Speaking, AtWork, IsOutcome, Outcomes
<1>2. ASSUME NEW c \in Calls, Call(c) PROVE StreamInv'
  <2>. DEFINE e == [kind |-> "call", call |-> c]
  <2>1. e \in Events /\ e.kind = "call" /\ About(e, c)  BY DEF Events, EventKinds, About
  <2>2. events' = Append(events, e)  BY <1>2 DEF Call
  <2>. HIDE DEF e
  <2>. QED  BY <1>0, <1>2, <2>1, <2>2, AppendStep DEF Call, Speaking, AtWork, IsOutcome, Outcomes
<1>3. ASSUME NEW c \in Calls, Report(c) PROVE StreamInv'
  BY <1>0, <1>3, StillStep DEF Report, Begun, Well, AtWork
<1>4. ASSUME NEW c \in Calls, Ask(c) \/ Allow(c) PROVE StreamInv'
  BY <1>0, <1>4, StillStep DEF Ask, Allow, Begun, Well, AtWork
<1>5. ASSUME NEW c \in Calls, Heard(c), AtWork(c) PROVE ~ Said("finish")
  <2>1. FinishLast  BY <1>5 DEF StreamInv, Heard
  <2>. QED  BY <1>0, <1>5, <2>1 DEF FinishLast, Said, Heard, AtWork
<1>6. ASSUME NEW c \in Calls, Succeed(c) PROVE StreamInv'
  <2>1. CASE Heard(c)
    <3>. DEFINE e == [kind |-> "result", call |-> c]
    <3>1. e \in Events /\ e.kind = "result" /\ \A d \in Calls : About(e, d) <=> d = c
      BY DEF Events, EventKinds, About
    <3>2. events' = Append(events, e)  BY <1>6, <2>1 DEF Succeed
    <3>3. ~ Said("finish")  BY <1>5, <1>6, <2>1 DEF Succeed, AtWork
    <3>. HIDE DEF e
    <3>. QED  BY <1>0, <1>6, <2>1, <3>1, <3>2, <3>3, AppendStep DEF Succeed, Heard, AtWork, IsOutcome, Outcomes
  <2>2. CASE ~ Heard(c)
    BY <1>0, <1>6, <2>2, StillStep DEF Succeed, Heard, Settle, Begun, Well, AtWork
  <2>. QED  BY <2>1, <2>2
<1>7. ASSUME NEW c \in Calls, FailTool(c) PROVE StreamInv'
  <2>1. CASE Heard(c)
    <3>. DEFINE e == [kind |-> IF tool[c] = "denied" THEN "rejection" ELSE "failure", call |-> c]
    <3>1. e \in Events /\ e.kind \in {"rejection", "failure"} /\ \A d \in Calls : About(e, d) <=> d = c
      BY DEF Events, EventKinds, About
    <3>2. events' = Append(events, e)  BY <1>7, <2>1 DEF FailTool
    <3>3. ~ Said("finish")  BY <1>5, <1>7, <2>1 DEF FailTool, AtWork
    <3>. HIDE DEF e
    <3>. QED  BY <1>0, <1>7, <2>1, <3>1, <3>2, <3>3, AppendStep DEF FailTool, Heard, AtWork, IsOutcome, Outcomes
  <2>2. CASE ~ Heard(c)
    BY <1>0, <1>7, <2>2, StillStep DEF FailTool, Heard, Begun, Well, AtWork
  <2>. QED  BY <2>1, <2>2
<1>8. CASE Reject
  BY <1>0, <1>8, StillStep DEF Reject, Begun, Well, AtWork
<1>9. CASE Finish
  <2>. DEFINE e == [kind |-> "finish"]
  <2>1. e \in Events /\ e.kind = "finish" /\ \A d \in Calls : ~ About(e, d)  BY DEF Events, EventKinds, About
  <2>2. events' = Append(events, e)  BY <1>9 DEF Finish
  <2>. HIDE DEF e
  <2>. QED  BY <1>0, <1>9, <2>1, <2>2, AppendStep DEF Finish, Speaking, AtWork, IsOutcome
<1>10. CASE Break
  <2>. DEFINE e == [kind |-> "break"]
  <2>1. e \in Events /\ e.kind = "break" /\ \A d \in Calls : ~ About(e, d)  BY DEF Events, EventKinds, About
  <2>2. events' = Append(events, e)  BY <1>10 DEF Break
  <2>. HIDE DEF e
  <2>. QED  BY <1>0, <1>10, <2>1, <2>2, AppendStep DEF Break, Speaking, AtWork, IsOutcome
<1>11. CASE Interrupt \/ StreamEnds \/ StreamBreaks \/ Wait
  <2>1. phase' # "streaming"
    BY <1>11 DEF Interrupt, StreamEnds, StreamBreaks, Wait, LeaveFor
  <2>. QED  BY <2>1 DEF StreamInv
<1>12. CASE ToolInputStart \/ ToolCall
  <2>. DEFINE h == Head(events)
  <2>1. h \in Events /\ h = events[1] /\ 1 \in 1..Len(events) /\ events # <<>> /\ phase = "streaming"
        /\ h.kind \in {"input", "call"}
    BY <1>0, <1>12, TailShifts DEF ToolInputStart, ToolCall, Comes
  <2>2. h.call \in Calls /\ About(h, h.call)
    BY <2>1 DEF Events, EventKinds, About
  <2>3. /\ h.kind = "input" => part[h.call] = "none"
        /\ h.kind = "call" => part[h.call] \notin Final
    BY <2>1, <2>2 DEF IInv, EventInv
  <2>4. \A d \in Calls : Well(d) => Well(d)'
    BY <1>0, <1>12, <2>1, <2>2, <2>3 DEF ToolInputStart, ToolCall, Comes, Well, Final
  <2>5. \A d \in Calls : Begun(d) => Begun(d)'
    BY <1>0, <1>12, <2>1, <2>2, <2>3 DEF ToolInputStart, ToolCall, Comes, Begun, Final
  <2>6. \A d \in Calls : About(h, d) /\ h.kind = "call" => Begun(d)'
    BY <1>0, <1>12, <2>1, <2>2 DEF ToolInputStart, ToolCall, Comes, Begun, About
  <2>7. \A d \in Calls : ~ IsOutcome(h, d)
    BY <2>1 DEF IsOutcome, Outcomes
  <2>8. events' = Tail(events) /\ UNCHANGED <<phase, attempt, tool, of>>
    BY <1>12 DEF ToolInputStart, ToolCall
  <2>. QED  BY <2>1, <2>4, <2>5, <2>6, <2>7, <2>8, TailStep
<1>13. CASE ToolResult \/ ToolError
  <2>. DEFINE h == Head(events)
  <2>1. h \in Events /\ h = events[1] /\ 1 \in 1..Len(events) /\ events # <<>> /\ phase = "streaming"
        /\ h.kind \in Outcomes
    BY <1>0, <1>13, TailShifts DEF ToolResult, ToolError, Comes, Outcomes
  <2>2. h.call \in Calls /\ \A d \in Calls : IsOutcome(h, d) <=> d = h.call
    BY <2>1 DEF Events, EventKinds, About, IsOutcome, Outcomes
  <2>3. Settle(h.call, "completed") \/ Settle(h.call, "failed")
    BY <1>13 DEF ToolResult, ToolError
  <2>4. Begun(h.call)
    <3>1. Begun(h.call) \/ CalledBefore(h.call, 1 - 1)
      BY <2>1, <2>2 DEF StreamInv, CallFirst
    <3>. QED  BY <3>1 DEF CalledBefore
  <2>. HIDE DEF h
  <2>5. \A d \in Calls : Well(d) => Well(d)'
    BY <1>0, <2>2, <2>3 DEF Settle, Well
  <2>6. \A d \in Calls : Begun(d) => Begun(d)' \/ d = h.call
    BY <1>0, <2>2, <2>3 DEF Settle, Begun
  <2>7. \A d \in Calls : d = h.call => Well(d)'
    BY <1>0, <2>2, <2>3, <2>4 DEF Settle, Begun, Well
  <2>8. h.kind # "call"
    BY <2>1 DEF Outcomes
  <2>9. events' = Tail(events) /\ UNCHANGED <<phase, attempt, tool, of>>
    BY <1>13 DEF ToolResult, ToolError
  <2>. QED  BY <2>1, <2>2, <2>5, <2>6, <2>7, <2>8, <2>9, TailStep DEF h
<1>14. CASE Retry
  BY <1>14, FirstStep
<1>15. ASSUME NEW c \in Calls, Sweep(c) PROVE StreamInv'
  BY <1>15 DEF Sweep, StreamInv
<1>16. CASE End \/ UNCHANGED vars
  BY <1>16, StillStep DEF End, vars, StreamInv, Begun, Well, AtWork
<1>. QED  BY <1>1, <1>2, <1>3, <1>4, <1>6, <1>7, <1>8, <1>9, <1>10, <1>11, <1>12, <1>13, <1>14, <1>15, <1>16 DEF Next, Processor

(* What was behind the first event is one place further in front. *)
LEMMA ShiftBack ==
  ASSUME NEW s \in Seq(Events), s # <<>>, NEW i \in 1..Len(s), i # 1
  PROVE  i - 1 \in 1..Len(Tail(s)) /\ Tail(s)[i - 1] = s[i]
<1>1. i - 1 \in 1..Len(Tail(s)) /\ (i - 1) + 1 = i
  BY TailShifts
<1>. QED  BY <1>1, TailShifts

LEMMA DenialStep == IInv /\ StreamInv /\ DenialInv /\ [Next]_vars => DenialInv'
<1> SUFFICES ASSUME IInv, StreamInv, DenialInv, [Next]_vars PROVE DenialInv'  OBVIOUS
<1> USE AttemptsAssumption, BreakAssumption DEF IInv, TypeOK, DenialInv
<1>1. ASSUME NEW c \in Calls, Announce(c) PROVE DenialInv'
  BY <1>1 DEF Announce, Speaking, Said
<1>2. ASSUME NEW c \in Calls, Call(c) PROVE DenialInv'
  BY <1>2 DEF Call, Speaking, Said
<1>3. ASSUME NEW c \in Calls, Report(c) PROVE DenialInv'
  BY <1>3 DEF Report
<1>4. ASSUME NEW c \in Calls, Ask(c) PROVE DenialInv'
  BY <1>4 DEF Ask
<1>5. ASSUME NEW c \in Calls, Allow(c) PROVE DenialInv'
  BY <1>5 DEF Allow
<1>6. ASSUME NEW c \in Calls, Succeed(c) PROVE DenialInv'
  <2>1. \A d \in Calls : tool[d] = "denied" => tool'[d] = "denied"  BY <1>6 DEF Succeed
  <2>2. CASE Heard(c)
    <3>1. [kind |-> "result", call |-> c] \in Events  BY DEF Events, EventKinds
    <3>2. \A i \in 1..Len(events) : events'[i] = events[i] /\ i \in 1..Len(events')
      BY <1>6, <2>2, <3>1, AppendKeepsOrder DEF Succeed
    <3>. QED  BY <1>6, <2>1, <3>2 DEF Succeed
  <2>3. CASE ~ Heard(c)  BY <1>6, <2>1, <2>3 DEF Succeed
  <2>. QED  BY <2>2, <2>3
<1>7. ASSUME NEW c \in Calls, FailTool(c) PROVE DenialInv'
  BY <1>7 DEF FailTool, Heard
<1>8. CASE Reject
  <2>1. \A d \in Calls : tool[d] \in {"denied", "asking"} => tool'[d] = "denied"  BY <1>8 DEF Reject
  <2>2. denied' = attempt \/ denied' = denied  BY <1>8 DEF Reject
  <2>3. CASE \E c \in Calls : tool[c] = "asking" /\ Heard(c)
    BY <1>8, <2>1, <2>2, <2>3 DEF Reject, Heard
  <2>4. CASE ~ \E c \in Calls : tool[c] = "asking" /\ Heard(c)
    BY <1>8, <2>1, <2>4 DEF Reject
  <2>. QED  BY <2>3, <2>4
<1>9. CASE Finish
  BY <1>9 DEF Finish, Speaking, Said
<1>10. CASE Break
  BY <1>10 DEF Break, Speaking, Said
<1>11. CASE Interrupt
  BY <1>11 DEF Interrupt, LeaveFor
<1>12. CASE ToolInputStart
  <2>1. Head(events) = events[1] /\ Head(events).kind # "rejection"  BY <1>12, TailShifts DEF ToolInputStart, Comes
  <2>2. \A i \in 1..Len(events) : events[i].kind = "rejection" =>
          i - 1 \in 1..Len(events') /\ events'[i - 1].kind = "rejection"
    BY <1>12, <2>1, ShiftBack DEF ToolInputStart, Comes
  <2>. QED  BY <1>12, <2>2 DEF ToolInputStart, Comes
<1>13. CASE ToolCall
  <2>1. Head(events) = events[1] /\ Head(events).kind # "rejection"  BY <1>13, TailShifts DEF ToolCall, Comes
  <2>2. \A i \in 1..Len(events) : events[i].kind = "rejection" =>
          i - 1 \in 1..Len(events') /\ events'[i - 1].kind = "rejection"
    BY <1>13, <2>1, ShiftBack DEF ToolCall, Comes
  <2>. QED  BY <1>13, <2>2 DEF ToolCall, Comes
<1>14. CASE ToolResult
  <2>1. Head(events) = events[1] /\ Head(events).kind # "rejection"  BY <1>14, TailShifts DEF ToolResult, Comes
  <2>2. \A i \in 1..Len(events) : events[i].kind = "rejection" =>
          i - 1 \in 1..Len(events') /\ events'[i - 1].kind = "rejection"
    BY <1>14, <2>1, ShiftBack DEF ToolResult, Comes
  <2>. QED  BY <1>14, <2>2 DEF ToolResult, Comes
<1>15. CASE ToolError
  <2>0. events # <<>> /\ events' = Tail(events) /\ phase = "streaming"  BY <1>15 DEF ToolError, Comes
  <2>1. Head(events) = events[1] /\ Head(events) \in Events /\ 1 \in 1..Len(events)
    BY <2>0, TailShifts
  <2>2. CASE Head(events).kind = "rejection"
    <3>. DEFINE c == Head(events).call
    <3>1. c \in Calls /\ IsOutcome(events[1], c)
      BY <2>1, <2>2 DEF IsOutcome, About, Outcomes, Events, EventKinds
    <3>2. Begun(c) \/ CalledBefore(c, 1 - 1)  BY <2>0, <2>1, <3>1 DEF StreamInv, CallFirst
    <3>3. Begun(c)  BY <3>2 DEF CalledBefore
    <3>4. part'[c] = "failed" /\ part[c] = "running"  BY <1>15, <3>1, <3>3 DEF ToolError, Settle, Begun
    <3>5. blocked' = ShouldBreak  BY <1>15, <2>2, <3>4 DEF ToolError
    <3>. QED  BY <1>15, <3>5 DEF ToolError
  <2>3. CASE Head(events).kind # "rejection"
    <3>1. \A i \in 1..Len(events) : events[i].kind = "rejection" =>
            i - 1 \in 1..Len(events') /\ events'[i - 1].kind = "rejection"
      BY <2>0, <2>1, <2>3, ShiftBack
    <3>. QED  BY <1>15, <2>0, <2>3, <3>1 DEF ToolError
  <2>. QED  BY <2>2, <2>3
<1>16. CASE StreamEnds
  <2>1. Head(events) = events[1] /\ 1 \in 1..Len(events) /\ phase = "streaming" /\ Head(events).kind = "finish"
    BY <1>16, TailShifts DEF StreamEnds, Comes
  <2>2. 1 = Len(events) /\ \A c \in Calls : of[c] = attempt => tool[c] \in {"announced", "over"}
    BY <2>1 DEF StreamInv, FinishLast
  <2>3. \A i \in 1..Len(events) : events[i].kind # "rejection"
    <3>1. \A n \in Nat : n = 1 => \A i \in 1..n : i = 1  OBVIOUS
    <3>2. \A i \in 1..Len(events) : i = 1
      <4>1. Len(events) \in Nat  OBVIOUS
      <4>. QED  BY <2>2, <3>1, <4>1
    <3>. QED  BY <2>1, <3>2
  <2>. QED  BY <1>16, <2>1, <2>2, <2>3 DEF StreamEnds, LeaveFor
<1>17. CASE StreamBreaks
  BY <1>17 DEF StreamBreaks, Comes, LeaveFor
<1>18. CASE Retry
  BY <1>18 DEF Retry, LeaveFor
<1>19. CASE Wait
  BY <1>19 DEF Wait
<1>20. ASSUME NEW c \in Calls, Sweep(c) PROVE DenialInv'
  BY <1>20 DEF Sweep
<1>21. CASE End
  BY <1>21 DEF End
<1>22. CASE UNCHANGED vars
  BY <1>22 DEF vars
<1>. QED  BY <1>1, <1>2, <1>3, <1>4, <1>5, <1>6, <1>7, <1>8, <1>9, <1>10, <1>11, <1>12, <1>13, <1>14, <1>15, <1>16, <1>17, <1>18, <1>19, <1>20, <1>21, <1>22 DEF Next, Processor

LEMMA ResultStep == IInv /\ StreamInv /\ ResultInv /\ [Next]_vars => ResultInv'
<1> SUFFICES ASSUME IInv, StreamInv, ResultInv, [Next]_vars PROVE ResultInv'  OBVIOUS
<1> USE AttemptsAssumption, BreakAssumption DEF IInv, TypeOK, OpenInv, ToolInv, EventInv, About, Open, Final, EventKinds, StreamInv, WorkBegins, OverIsTold, CallFirst, OneOutcome, FinishLast, AtWork, IsOutcome, Well, ResultInv, ResultsKept, Outcomes, Begun, CalledBefore
<1>1. ASSUME NEW c \in Calls, Announce(c) PROVE ResultInv'
  BY <1>1 DEF Announce, Speaking, Said
<1>2. ASSUME NEW c \in Calls, Call(c) PROVE ResultInv'
  BY <1>2 DEF Call, Speaking, Said
<1>3. ASSUME NEW c \in Calls, Report(c) PROVE ResultInv'
  BY <1>3 DEF Report
<1>4. ASSUME NEW c \in Calls, Ask(c) PROVE ResultInv'
  BY <1>4 DEF Ask
<1>5. ASSUME NEW c \in Calls, Allow(c) PROVE ResultInv'
  BY <1>5 DEF Allow
<1>6. ASSUME NEW c \in Calls, Succeed(c) PROVE ResultInv'
  BY <1>6 DEF Succeed, Heard, Settle
<1>7. ASSUME NEW c \in Calls, FailTool(c) PROVE ResultInv'
  BY <1>7 DEF FailTool, Heard
<1>8. CASE Reject
  BY <1>8 DEF Reject
<1>9. CASE Finish
  BY <1>9 DEF Finish, Speaking, Said
<1>10. CASE Break
  BY <1>10 DEF Break, Speaking, Said
<1>11. CASE Interrupt
  BY <1>11 DEF Interrupt, LeaveFor
<1>12. CASE ToolInputStart
  BY <1>12 DEF ToolInputStart, Comes
<1>13. CASE ToolCall
  BY <1>13 DEF ToolCall, Comes
<1>14. CASE ToolResult
  BY <1>14 DEF ToolResult, Comes, Settle
<1>15. CASE ToolError
  BY <1>15 DEF ToolError, Comes, Settle
<1>16. CASE StreamEnds
  BY <1>16 DEF StreamEnds, Comes, LeaveFor
<1>17. CASE StreamBreaks
  BY <1>17 DEF StreamBreaks, Comes, LeaveFor
<1>18. CASE Retry
  BY <1>18 DEF Retry, LeaveFor
<1>19. CASE Wait
  BY <1>19 DEF Wait
<1>20. ASSUME NEW c \in Calls, Sweep(c) PROVE ResultInv'
  BY <1>20 DEF Sweep
<1>21. CASE End
  BY <1>21 DEF End
<1>22. CASE UNCHANGED vars
  BY <1>22 DEF vars
<1>. QED  BY <1>1, <1>2, <1>3, <1>4, <1>5, <1>6, <1>7, <1>8, <1>9, <1>10, <1>11, <1>12, <1>13, <1>14, <1>15, <1>16, <1>17, <1>18, <1>19, <1>20, <1>21, <1>22 DEF Next, Processor

LEMMA InitMore == Init => StreamInv /\ DenialInv /\ ResultInv
  BY AttemptsAssumption DEF Init, StreamInv, WorkBegins, OverIsTold, CallFirst, OneOutcome, FinishLast, AtWork, DenialInv, ResultInv, ResultsKept, CalledBefore

LEMMA MoreInvariance == Spec => [](IInv /\ StreamInv /\ DenialInv /\ ResultInv)
<1>1. IInv /\ StreamInv /\ DenialInv /\ ResultInv /\ [Next]_vars => (IInv /\ StreamInv /\ DenialInv /\ ResultInv)'
  BY TypeStep, OpenStep, ToolStep, EventStep, StreamStep, DenialStep, ResultStep DEF IInv
<1>. QED  BY InitInv, InitMore, <1>1, PTL DEF Spec

(* A step whose stream reported a denial does not continue.                 *)
THEOREM DenialsStop == Spec => []DenialStops
<1>1. IInv /\ DenialInv => DenialStops
  BY DEF DenialInv, DenialStops
<1>. QED  BY MoreInvariance, <1>1, PTL

(* A stream that ends well loses no result: only calls of broken streams    *)
(* and of interrupted turns are aborted.                                    *)
THEOREM ResultsAreKept == Spec => []ResultsKept
<1>1. ResultInv => ResultsKept
  BY DEF ResultInv
<1>. QED  BY MoreInvariance, <1>1, PTL
=============================================================================
