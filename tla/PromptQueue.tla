---------------------------- MODULE PromptQueue ----------------------------
(***************************************************************************)
(* KiloSessionPromptQueue (kilocode/session/prompt-queue.ts) for ONE       *)
(* session: prompts wait in a chain of promises, a cancel makes the        *)
(* waiting ones return without running, and hasFollowup tells the running  *)
(* one that a newer prompt wants to take over.                             *)
(*                                                                         *)
(* The promise `tail` of a slot is settled when the slot and its           *)
(* predecessors have been released; a slot, its promises and its message   *)
(* carry the name of the prompt.  A map entry that is absent reads as 0 or *)
(* None, as `?? 0` and `?? Promise.resolve()` do in the code.              *)
(***************************************************************************)
EXTENDS Naturals

CONSTANTS
  Prompts,      \* the prompts sent to the session
  None          \* no prompt; not one of Prompts

VARIABLES
  slot,         \* where each prompt's slot is
  seq,          \* the arrival counter
  seqOf,        \* slot.seq
  versionOf,    \* slot.version
  previous,     \* slot.previous, as the prompt whose tail it is
  tail,         \* tails.get(sessionID)
  version,      \* versions.get(sessionID)
  latest,       \* latest.get(sessionID)
  activeSince,  \* activeSince.get(sessionID)
  target,       \* targets.get(sessionID).base
  doomed,       \* history: prompts that waited when a cancel was called
  newer         \* history: did a prompt arrive since the last one started?

queueVars == <<slot, seq, seqOf, versionOf, previous, tail, version, latest,
               activeSince, target, doomed, newer>>

SlotStates == {"new", "waiting", "running", "skipped", "released"}

QueueTypeOK ==
  /\ slot \in [Prompts -> SlotStates]
  /\ seq \in Nat
  /\ seqOf \in [Prompts -> Nat]
  /\ versionOf \in [Prompts -> Nat]
  /\ previous \in [Prompts -> Prompts \cup {None}]
  /\ tail \in Prompts \cup {None}
  /\ version \in Nat
  /\ latest \in Nat
  /\ activeSince \in Nat
  /\ target \in Prompts \cup {None}
  /\ doomed \subseteq Prompts
  /\ newer \in BOOLEAN

QueueInit ==
  /\ slot = [p \in Prompts |-> "new"]
  /\ seq = 0
  /\ seqOf = [p \in Prompts |-> 0]
  /\ versionOf = [p \in Prompts |-> 0]
  /\ previous = [p \in Prompts |-> None]
  /\ tail = None
  /\ version = 0
  /\ latest = 0
  /\ activeSince = 0
  /\ target = None
  /\ doomed = {}
  /\ newer = FALSE

----------------------------------------------------------------------------

(* True when a prompt was enqueued after the running one began. *)
HasFollowup == latest > activeSince

(* Mutant: a slot does not wait for its predecessor. *)
EnqueueUnchained(p) ==
  /\ slot[p] = "new"
  /\ slot' = [slot EXCEPT ![p] = "waiting"]
  /\ seq' = seq + 1
  /\ seqOf' = [seqOf EXCEPT ![p] = seq']
  /\ latest' = seq'
  /\ versionOf' = [versionOf EXCEPT ![p] = version]
  /\ tail' = p
  /\ newer' = TRUE
  /\ UNCHANGED <<previous, version, activeSince, target, doomed>>

(* The acquire step of enqueue. *)
Enqueue(p) ==
  /\ slot[p] = "new"
  /\ slot' = [slot EXCEPT ![p] = "waiting"]
  /\ seq' = seq + 1
  /\ seqOf' = [seqOf EXCEPT ![p] = seq']
  /\ latest' = seq'
  /\ versionOf' = [versionOf EXCEPT ![p] = version]
  /\ previous' = [previous EXCEPT ![p] = tail]
  /\ tail' = p
  /\ newer' = TRUE
  /\ UNCHANGED <<version, activeSince, target, doomed>>

TailSettled(p) == p # None => slot[p] = "released"

Ready(p) == slot[p] = "waiting" /\ TailSettled(previous[p])

(* Mutant: activeSince is the slot's own seq. *)
StartSlotSeq(p) ==
  /\ Ready(p) /\ versionOf[p] = version
  /\ slot' = [slot EXCEPT ![p] = "running"]
  /\ activeSince' = seqOf[p]
  /\ target' = p
  /\ newer' = FALSE
  /\ UNCHANGED <<seq, seqOf, versionOf, previous, tail, version, latest, doomed>>

(* The predecessor has settled and no cancel came since the slot was made:  *)
(* the slot becomes the session's target and its work begins.               *)
StartSlot(p) ==
  /\ Ready(p)
  /\ versionOf[p] = version
  /\ slot' = [slot EXCEPT ![p] = "running"]
  /\ activeSince' = latest
  /\ target' = p
  /\ newer' = FALSE
  /\ UNCHANGED <<seq, seqOf, versionOf, previous, tail, version, latest, doomed>>

(* A cancel came: answer with the session's last message, run nothing. *)
SkipSlot(p) ==
  /\ Ready(p)
  /\ versionOf[p] # version
  /\ slot' = [slot EXCEPT ![p] = "skipped"]
  /\ UNCHANGED <<seq, seqOf, versionOf, previous, tail, version, latest,
                 activeSince, target, doomed, newer>>

(* Mutants: versions is forgotten with every slot; only the last slot       *)
(* resolves its promise.                                                    *)
ReleaseAs(p, next, forgotten) ==
  /\ slot[p] \in {"running", "skipped"}
  /\ slot' = [slot EXCEPT ![p] = next]
  /\ tail' = IF tail = p THEN None ELSE tail
  /\ version' = IF forgotten THEN 0 ELSE version
  /\ target' = IF tail = p \/ target = p THEN None ELSE target
  /\ latest' = IF tail = p THEN 0 ELSE latest
  /\ activeSince' = IF tail = p THEN 0 ELSE activeSince
  /\ UNCHANGED <<seq, seqOf, versionOf, previous, doomed, newer>>

ReleaseForgetsVersion(p) == ReleaseAs(p, "released", TRUE)
ReleaseLastOnly(p) == ReleaseAs(p, IF tail = p THEN "released" ELSE slot[p], tail = p)

(* The work's own release, then the slot's: the last slot of the chain      *)
(* forgets the session.                                                     *)
Release(p) ==
  /\ slot[p] \in {"running", "skipped"}
  /\ slot' = [slot EXCEPT ![p] = "released"]
  /\ IF tail = p
       THEN /\ tail' = None
            /\ version' = 0
            /\ target' = None
            /\ latest' = 0
            /\ activeSince' = 0
       ELSE /\ target' = IF slot[p] = "running" /\ target = p THEN None ELSE target
            /\ UNCHANGED <<tail, version, latest, activeSince>>
  /\ UNCHANGED <<seq, seqOf, versionOf, previous, doomed, newer>>

(* Mutant: a cancel forgets the chain. *)
CancelForgetsTail ==
  /\ version' = version + 1
  /\ tail' = None
  /\ doomed' = doomed \cup {p \in Prompts : slot[p] = "waiting"}
  /\ UNCHANGED <<slot, seq, seqOf, versionOf, previous, latest, activeSince, target,
                 newer>>

(* cancel(sessionID) *)
CancelQueue ==
  /\ version' = version + 1
  /\ doomed' = doomed \cup {p \in Prompts : slot[p] = "waiting"}
  /\ UNCHANGED <<slot, seq, seqOf, versionOf, previous, tail, latest, activeSince,
                 target, newer>>

----------------------------------------------------------------------------
(* Properties *)

Open(p) == slot[p] \in {"waiting", "running", "skipped"}

(* A cancel drops exactly the prompts that waited when it came: those never *)
(* run, and a prompt enqueued after the cancel is not dropped by it, even   *)
(* though the version counter is forgotten and starts again.                *)
CancelDropsTheWaiting == \A p \in Prompts :
  /\ slot[p] = "running" => p \notin doomed
  /\ slot[p] = "skipped" => p \in doomed

(* While a slot runs, hasFollowup is true exactly when a prompt was         *)
(* enqueued after it started: not for those that were waiting with it, and  *)
(* never missed.                                                            *)
FollowupIsExact ==
  (\E p \in Prompts : slot[p] = "running") => (HasFollowup <=> newer)

(* With no slot left nothing of the session is remembered but the version.  *)
QueueForgets ==
  (\A p \in Prompts : ~ Open(p)) =>
    tail = None /\ latest = 0 /\ activeSince = 0 /\ target = None
============================================================================
