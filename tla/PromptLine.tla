---------------------------- MODULE PromptLine -----------------------------
(***************************************************************************)
(* What a session promises about the prompts sent to it: they stand in a   *)
(* line; only the first of the line is worked on, at most once; it leaves  *)
(* when no work of it is left, worked on or not (a cancelled prompt is     *)
(* answered without work).                                                 *)
(***************************************************************************)
EXTENDS Naturals

CONSTANT Prompts

VARIABLES
  ticket,   \* the number a prompt drew, 0 before it drew one
  line,     \* the prompts that stand in the line
  work      \* "fresh", "working" (cleanup included) or "over"

lineVars == <<ticket, line, work>>

LineInit ==
  /\ ticket = [p \in Prompts |-> 0]
  /\ line = {}
  /\ work = [p \in Prompts |-> "fresh"]

First(p) == p \in line /\ \A q \in line : ticket[p] <= ticket[q]

Join(p) ==
  /\ ticket[p] = 0
  /\ \A q \in Prompts : ticket'[p] > ticket[q]
  /\ ticket' = [ticket EXCEPT ![p] = ticket'[p]]
  /\ line' = line \cup {p}
  /\ UNCHANGED work

Begin(p) ==
  /\ First(p)
  /\ work[p] = "fresh"
  /\ work' = [work EXCEPT ![p] = "working"]
  /\ UNCHANGED <<ticket, line>>

End(p) ==
  /\ work[p] = "working"
  /\ work' = [work EXCEPT ![p] = "over"]
  /\ UNCHANGED <<ticket, line>>

Leave(p) ==
  /\ First(p)
  /\ work[p] # "working"
  /\ line' = line \ {p}
  /\ UNCHANGED <<ticket, work>>

LineNext == \E p \in Prompts : Join(p) \/ Begin(p) \/ End(p) \/ Leave(p)

LineSpec == LineInit /\ [][LineNext]_lineVars
============================================================================
