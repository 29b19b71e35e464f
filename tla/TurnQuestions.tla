--------------------------- MODULE TurnQuestions ---------------------------
(***************************************************************************)
(* Questions and suggestions that the tools of a turn put to the user      *)
(* (question/index.ts, kilocode/question, kilocode/suggestion), and the    *)
(* prompts that supersede them: a prompt first dismisses what is pending   *)
(* (session/prompt.ts) and then takes a slot of the queue; from then on    *)
(* the brokers refuse what the superseded turn still asks.  One session.   *)
(***************************************************************************)
EXTENDS Naturals

CONSTANTS Prompts, Asks, None

ASSUME NoneAssumption == None \notin Prompts

VARIABLES slot, seq, seqOf, versionOf, previous, tail, version, latest,
          activeSince, scoped, doomed, newer     \* PromptQueue's
VARIABLES
  pc,        \* how far prompt() has come
  todo,      \* what is left of a dismissAll's copy of the pending questions
  ask,       \* state, kind and turn of each ask
  replying,  \* questions an answer has taken out of pending
  late       \* history: asks made between a prompt's dismissal and its slot

PQ == INSTANCE PromptQueue WITH target <- scoped

queueVars == <<slot, seq, seqOf, versionOf, previous, tail, version, latest,
               activeSince, scoped, doomed, newer>>
askVars == <<queueVars, pc, todo, ask, replying, late>>

Kinds == {"question", "suggestion"}
Ended == {"answered", "dismissed"}
Unused == [at |-> "unused", kind |-> "question", turn |-> None]

(* No question that is being answered is pending; a dismissal is over when  *)
(* the prompt goes on.                                                      *)
AskTypeOK ==
  /\ PQ!QueueTypeOK
  /\ pc \in [Prompts -> {"new", "suggestions", "questions", "rejecting", "sent", "quiet"}]
  /\ todo \in [Prompts -> SUBSET Asks]
  /\ ask \in [Asks -> [at : {"unused", "pending", "taken"} \cup Ended,
                       kind : Kinds, turn : Prompts \cup {None}]]
  /\ replying \subseteq Asks /\ late \subseteq Asks
  /\ \A a \in replying : ask[a].at \in {"taken"} \cup Ended
  /\ \A p \in Prompts : todo[p] # {} => pc[p] = "rejecting"

AskInit ==
  /\ PQ!QueueInit
  /\ pc = [p \in Prompts |-> "new"]
  /\ todo = [p \in Prompts |-> {}]
  /\ ask = [a \in Asks |-> Unused]
  /\ replying = {} /\ late = {}

Pending(kind) == {a \in Asks : ask[a].at = "pending" /\ ask[a].kind = kind}
End(set, how) ==
  ask' = [a \in Asks |-> IF a \in set THEN [ask[a] EXCEPT !.at = how] ELSE ask[a]]

----------------------------------------------------------------------------
(* SessionPrompt.prompt *)

(* The message is stored. *)
Arrive(p) ==
  /\ pc[p] = "new"
  /\ pc' = [pc EXCEPT ![p] = "suggestions"]
  /\ UNCHANGED <<queueVars, todo, ask, replying, late>>

(* Suggestion.dismissAll does not yield. *)
DismissSuggestions(p) ==
  /\ pc[p] = "suggestions"
  /\ pc' = [pc EXCEPT ![p] = "questions"]
  /\ End(Pending("suggestion"), "dismissed")
  /\ UNCHANGED <<queueVars, todo, replying, late>>

(* Question.dismissAll goes through a copy of the pending questions ...     *)
CopyPending(p) ==
  /\ pc[p] = "questions"
  /\ pc' = [pc EXCEPT ![p] = "rejecting"]
  /\ todo' = [todo EXCEPT ![p] = Pending("question")]
  /\ UNCHANGED <<queueVars, ask, replying, late>>

(* ... deletes each and publishes, whether it is still there or not, ...    *)
Take(p, a) ==
  /\ a \in todo[p] /\ ask[a].at = "pending"
  /\ End({a}, "taken")
  /\ UNCHANGED <<queueVars, pc, todo, replying, late>>

(* Mutant: an answered question is not the dismissal's business any more,   *)
(* and one that is being answered is left alone.                            *)
RejectLess(p, a) ==
  /\ a \in todo[p] /\ ask[a].at # "pending"
  /\ todo' = [todo EXCEPT ![p] = {}]
  /\ End({a} \ {b \in Asks : ask[b].at \in Ended}, "dismissed")
  /\ UNCHANGED <<queueVars, pc, replying, late>>

(* ... and fails it, unless an answer was quicker. *)
Reject(p, a) ==
  /\ a \in todo[p] /\ ask[a].at # "pending"
  /\ todo' = [todo EXCEPT ![p] = @ \ {a}]
  /\ End({a} \ {b \in Asks : ask[b].at \in Ended}, "dismissed")
  /\ UNCHANGED <<queueVars, pc, replying, late>>

(* noReply: the message is all there is. *)
Quiet(p) ==
  /\ pc[p] = "rejecting" /\ todo[p] = {}
  /\ pc' = [pc EXCEPT ![p] = "quiet"]
  /\ UNCHANGED <<queueVars, todo, ask, replying, late>>

EnqueuePrompt(p) ==
  /\ pc[p] = "rejecting" /\ todo[p] = {}
  /\ pc' = [pc EXCEPT ![p] = "sent"]
  /\ PQ!Enqueue(p)
  /\ UNCHANGED <<todo, ask, replying, late>>

----------------------------------------------------------------------------
(* A turn *)

StartTurn(p) == PQ!StartSlot(p) /\ UNCHANGED <<pc, todo, ask, replying, late>>

(* Has somebody dismissed this kind and not taken a slot yet? *)
Window(kind) == \E q \in Prompts :
  pc[q] \in (IF kind = "question" THEN {"rejecting"} ELSE {"questions", "rejecting"})

(* Mutant: only suggestions are refused. *)
AskUnguarded(p, a, kind) ==
  /\ slot[p] = "running" /\ ask[a].at = "unused"
  /\ ask' = [ask EXCEPT ![a] =
       [at |-> IF PQ!HasFollowup /\ kind = "suggestion" THEN "dismissed" ELSE "pending",
        kind |-> kind, turn |-> p]]
  /\ late' = IF Window(kind) THEN late \cup {a} ELSE late
  /\ UNCHANGED <<queueVars, pc, todo, replying>>

(* Question.ask and Suggestion.show: refused when a newer prompt is queued. *)
Ask(p, a, kind) ==
  /\ slot[p] = "running" /\ ask[a].at = "unused"
  /\ ask' = [ask EXCEPT ![a] =
       [at |-> IF PQ!HasFollowup THEN "dismissed" ELSE "pending", kind |-> kind, turn |-> p]]
  /\ late' = IF Window(kind) THEN late \cup {a} ELSE late
  /\ UNCHANGED <<queueVars, pc, todo, replying>>

(* A step of the turn ends when its tools have returned; the run loop ends  *)
(* the turn when there is nothing left to do or a newer prompt waits.       *)
EndTurn(p) ==
  /\ slot[p] = "running"
  /\ \A a \in Asks : ask[a].turn = p => ask[a].at \in Ended
  /\ PQ!Release(p)
  /\ UNCHANGED <<pc, todo, ask, replying, late>>

----------------------------------------------------------------------------
(* The user *)

(* reply and reject take the question and publish, then tell the tool. *)
Reply(a) ==
  /\ a \in Pending("question")
  /\ End({a}, "taken")
  /\ replying' = replying \cup {a}
  /\ UNCHANGED <<queueVars, pc, todo, late>>

ReplyEnds(a) ==
  /\ a \in replying
  /\ replying' = replying \ {a}
  /\ \E how \in Ended : End({a} \ {b \in Asks : ask[b].at \in Ended}, how)
  /\ UNCHANGED <<queueVars, pc, todo, late>>

(* accept and dismiss *)
Choose(a) ==
  /\ a \in Pending("suggestion")
  /\ \E how \in Ended : End({a}, how)
  /\ UNCHANGED <<queueVars, pc, todo, replying, late>>

Dismissing(p) ==
  \/ DismissSuggestions(p) \/ CopyPending(p)
  \/ \E a \in Asks : Take(p, a) \/ Reject(p, a)

AskNext ==
  \/ \E p \in Prompts :
       \/ Arrive(p) \/ Dismissing(p) \/ Quiet(p) \/ EnqueuePrompt(p) \/ StartTurn(p) \/ EndTurn(p)
       \/ \E a \in Asks, kind \in Kinds : Ask(p, a, kind)
  \/ \E a \in Asks : Reply(a) \/ ReplyEnds(a) \/ Choose(a)

AskSpec == AskInit /\ [][AskNext]_askVars

(* Fibers and promises go on; a superseded turn ends at the next check of   *)
(* the run loop.  Nothing is assumed of the user, of the prompts to come,   *)
(* or of a turn nobody has superseded.                                      *)
FairAskSpec ==
  /\ AskSpec
  /\ \A p \in Prompts :
       /\ WF_askVars(Dismissing(p)) /\ WF_askVars(Quiet(p) \/ EnqueuePrompt(p))
       /\ WF_askVars(StartTurn(p)) /\ WF_askVars(PQ!HasFollowup /\ EndTurn(p))
  /\ \A a \in Asks : WF_askVars(ReplyEnds(a))

----------------------------------------------------------------------------
(* Properties *)

BlocksFollowup(a) == ask[a].at = "pending" /\ PQ!HasFollowup

(* What is asked before a prompt's dismissal is dismissed by it, before the *)
(* prompt has its slot, and what is asked once it has its slot is refused:  *)
(* only asks made in between may keep it waiting.                           *)
OnlyLateAsksBlock == \A a \in Asks : BlocksFollowup(a) => a \in late

(* A superseded turn comes to an end without the user, unless one of those  *)
(* late asks holds it.                                                      *)
GivesWay == \A p \in Prompts :
  (slot[p] = "running" /\ PQ!HasFollowup)
    ~> (slot[p] = "released" \/ \E a \in late : ask[a].at = "pending" /\ ask[a].turn = p)
============================================================================
