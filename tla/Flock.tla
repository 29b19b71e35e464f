------------------------------- MODULE Flock -------------------------------
(***************************************************************************)
(* The lock between processes: a directory that exists while somebody      *)
(* holds the lock (packages/shared/src/util/flock.ts), with a heartbeat    *)
(* file, the owner's token in meta.json, and a second directory, the       *)
(* breaker, for those who clean up after a crashed owner.  The variant of  *)
(* effect-flock.ts goes through the same file operations.                  *)
(*                                                                         *)
(* Every file operation is a step, and removing a directory takes one step *)
(* per entry.  Times are ages, counted in ticks and cut off above Stale;   *)
(* time passes only while nobody is in the middle of file operations (they *)
(* take milliseconds, Stale a minute), so an attempt sees one `now`.  A    *)
(* holder's timer fires at least once between two ticks.  A process may    *)
(* crash between any two operations.                                       *)
(***************************************************************************)
EXTENDS Naturals, FiniteSets

CONSTANTS
  Procs,       \* the callers of acquire, each with a token of its own
  Mortal,      \* those that may crash
  Reborn,      \* those that may be started again after a crash
  Stale,       \* staleMs, in ticks
  None

ASSUME StaleAssumption == Stale \in Nat \ {0}
ASSUME MortalAssumption == Mortal \subseteq Procs /\ Reborn \subseteq Mortal
ASSUME NoneAssumption == None \notin Procs /\ None \notin Nat

VARIABLES
  pc,      \* where each process is
  claim,   \* its breaker: "none", "held", or "made" (and it has remade the lock)
  disk,    \* the ages of the files, None where there is no file, and the token
  held,    \* for how long a process has held the lock
  beaten,  \* has its timer fired since the last tick?
  exposed  \* history: a breaker was left behind by a crash, or a lock released
           \* whose meta.json was older than Stale

vars == <<pc, claim, disk, held, beaten, exposed>>

Old == Stale + 1
Ages == 0..Old
Resting == {"idle", "wait", "held", "crashed"}
Removing == {"clear", "spoil", "release"}
PCs == Resting \cup Removing \cup
  {"mkdir", "checkBeat", "checkMeta", "checkDir", "claim", "statBreaker",
   "dropBreaker", "remake", "unclaim", "writeBeat", "writeMeta", "readMeta"}

TypeOK ==
  /\ pc \in [Procs -> PCs]
  /\ claim \in [Procs -> {"none", "held", "made"}]
  /\ disk \in [dir : Ages \cup {None}, beat : Ages \cup {None}, meta : Ages \cup {None},
               owner : Procs \cup {None}, breaker : Ages \cup {None}]
  /\ disk.dir = None => disk.beat = None /\ disk.meta = None
  /\ disk.meta = None <=> disk.owner = None
  /\ held \in [Procs -> Ages]
  /\ beaten \in [Procs -> BOOLEAN]
  /\ exposed \in BOOLEAN

Init ==
  /\ pc = [p \in Procs |-> "idle"]
  /\ claim = [p \in Procs |-> "none"]
  /\ disk = [dir |-> None, beat |-> None, meta |-> None, owner |-> None, breaker |-> None]
  /\ held = [p \in Procs |-> 0]
  /\ beaten = [p \in Procs |-> FALSE]
  /\ exposed = FALSE

Goto(p, next) == pc' = [pc EXCEPT ![p] = next]

----------------------------------------------------------------------------
(* An attempt: tryAcquireLockDir *)

(* acquire is called; or the delay of a waiting attempt is over. *)
Begin(p) ==
  /\ pc[p] \in {"idle", "wait"}
  /\ Goto(p, "mkdir")
  /\ UNCHANGED <<claim, disk, held, beaten, exposed>>

(* The time is up, or the caller's signal is aborted. *)
GiveUp(p) ==
  /\ pc[p] = "wait"
  /\ Goto(p, "idle")
  /\ UNCHANGED <<claim, disk, held, beaten, exposed>>

Mkdir(p) ==
  /\ pc[p] = "mkdir"
  /\ IF disk.dir = None
       THEN disk' = [disk EXCEPT !.dir = 0] /\ Goto(p, "writeBeat")
       ELSE Goto(p, "checkBeat") /\ UNCHANGED disk
  /\ UNCHANGED <<claim, held, beaten, exposed>>

(* stale: the heartbeat decides; without one, meta.json; without both, the  *)
(* directory.  The second check is made with the breaker held.              *)
Stat(p, file, here, next) ==
  /\ pc[p] = here
  /\ IF file # None
       THEN IF file > Stale THEN Goto(p, IF claim[p] = "held" THEN "clear" ELSE "claim")
                            ELSE Goto(p, IF claim[p] = "held" THEN "unclaim" ELSE "wait")
       ELSE Goto(p, next)
  /\ UNCHANGED <<claim, disk, held, beaten, exposed>>

CheckStale(p) ==
  \/ Stat(p, disk.beat, "checkBeat", "checkMeta")
  \/ Stat(p, disk.meta, "checkMeta", "checkDir")
  \/ Stat(p, disk.dir, "checkDir", IF claim[p] = "held" THEN "unclaim" ELSE "wait")

(* Mutant: staleness is not checked again once the breaker is held. *)
ClaimAndClear(p) ==
  /\ pc[p] = "claim"
  /\ IF disk.breaker = None
       THEN /\ disk' = [disk EXCEPT !.breaker = 0]
            /\ claim' = [claim EXCEPT ![p] = "held"]
            /\ Goto(p, "clear")
       ELSE Goto(p, "statBreaker") /\ UNCHANGED <<disk, claim>>
  /\ UNCHANGED <<held, beaten, exposed>>

(* Mutant: a breaker that exists is taken all the same. *)
ClaimAnyway(p) ==
  /\ pc[p] = "claim"
  /\ disk' = [disk EXCEPT !.breaker = 0]
  /\ claim' = [claim EXCEPT ![p] = "held"]
  /\ Goto(p, "checkBeat")
  /\ UNCHANGED <<held, beaten, exposed>>

Claim(p) ==
  /\ pc[p] = "claim"
  /\ IF disk.breaker = None
       THEN /\ disk' = [disk EXCEPT !.breaker = 0]
            /\ claim' = [claim EXCEPT ![p] = "held"]
            /\ Goto(p, "checkBeat")
       ELSE Goto(p, "statBreaker") /\ UNCHANGED <<disk, claim>>
  /\ UNCHANGED <<held, beaten, exposed>>

(* Mutant: a breaker that is left behind stays. *)
NeverDropBreaker(p) ==
  /\ pc[p] = "statBreaker"
  /\ Goto(p, "wait")
  /\ UNCHANGED <<claim, disk, held, beaten, exposed>>

(* The breaker of somebody else: removed when it is stale, for the next     *)
(* attempt.                                                                 *)
DropBreaker(p) ==
  \/ /\ pc[p] = "statBreaker"
     /\ Goto(p, IF disk.breaker # None /\ disk.breaker > Stale THEN "dropBreaker" ELSE "wait")
     /\ UNCHANGED <<claim, disk, held, beaten, exposed>>
  \/ /\ pc[p] = "dropBreaker"
     /\ disk' = [disk EXCEPT !.breaker = None]
     /\ Goto(p, "wait")
     /\ UNCHANGED <<claim, held, beaten, exposed>>

(* rm of the lock directory, by path: entry by entry, then the directory.   *)
(* Adding and removing entries sets the time of the directory.              *)
AfterRemoving == [clear |-> "remake", spoil |-> "idle", release |-> "idle"]

Remove(p) ==
  /\ pc[p] \in Removing
  /\ \/ /\ disk.beat # None
        /\ disk' = [disk EXCEPT !.beat = None, !.dir = 0]
        /\ UNCHANGED pc
     \/ /\ disk.meta # None
        /\ disk' = [disk EXCEPT !.meta = None, !.owner = None, !.dir = 0]
        /\ UNCHANGED pc
     \/ /\ disk.beat = None /\ disk.meta = None
        /\ disk' = [disk EXCEPT !.dir = None]
        /\ Goto(p, AfterRemoving[pc[p]])
  /\ UNCHANGED <<claim, held, beaten, exposed>>

Remake(p) ==
  /\ pc[p] = "remake"
  /\ IF disk.dir = None
       THEN disk' = [disk EXCEPT !.dir = 0] /\ claim' = [claim EXCEPT ![p] = "made"]
       ELSE UNCHANGED <<disk, claim>>
  /\ Goto(p, "unclaim")
  /\ UNCHANGED <<held, beaten, exposed>>

(* finally: the breaker is removed, whoever's it is by now. *)
Unclaim(p) ==
  /\ pc[p] = "unclaim"
  /\ disk' = [disk EXCEPT !.breaker = None]
  /\ claim' = [claim EXCEPT ![p] = "none"]
  /\ Goto(p, IF claim[p] = "made" THEN "writeBeat" ELSE "wait")
  /\ UNCHANGED <<held, beaten, exposed>>

(* Both files are created exclusively; the attempt that cannot create one   *)
(* removes the directory and fails.                                         *)
WriteBeat(p) ==
  /\ pc[p] = "writeBeat"
  /\ IF disk.dir # None /\ disk.beat = None
       THEN disk' = [disk EXCEPT !.beat = 0, !.dir = 0] /\ Goto(p, "writeMeta")
       ELSE Goto(p, "spoil") /\ UNCHANGED disk
  /\ UNCHANGED <<claim, held, beaten, exposed>>

WriteMeta(p) ==
  /\ pc[p] = "writeMeta"
  /\ IF disk.dir # None /\ disk.meta = None
       THEN disk' = [disk EXCEPT !.meta = 0, !.owner = p, !.dir = 0] /\ Goto(p, "held")
       ELSE Goto(p, "spoil") /\ UNCHANGED disk
  /\ held' = [held EXCEPT ![p] = 0]
  /\ beaten' = [beaten EXCEPT ![p] = FALSE]
  /\ UNCHANGED <<claim, exposed>>

----------------------------------------------------------------------------
(* Holding and releasing *)

(* The timer sets the time of the heartbeat file, by path. *)
Beat(p) ==
  /\ pc[p] = "held" /\ ~ beaten[p]
  /\ disk' = IF disk.beat = None THEN disk ELSE [disk EXCEPT !.beat = 0]
  /\ beaten' = [beaten EXCEPT ![p] = TRUE]
  /\ UNCHANGED <<pc, claim, held, exposed>>

(* The critical section ends; the timer is stopped. *)
Leave(p) ==
  /\ pc[p] = "held"
  /\ Goto(p, "readMeta")
  /\ exposed' = (exposed \/ held[p] > Stale)
  /\ held' = [held EXCEPT ![p] = 0]
  /\ beaten' = [beaten EXCEPT ![p] = FALSE]
  /\ UNCHANGED <<claim, disk>>

(* release refuses unless meta.json holds the token of this acquisition. *)
ReadMeta(p) ==
  /\ pc[p] = "readMeta"
  /\ Goto(p, IF disk.meta # None /\ disk.owner = p THEN "release" ELSE "idle")
  /\ UNCHANGED <<claim, disk, held, beaten, exposed>>

----------------------------------------------------------------------------
(* The environment *)

Crash(p) ==
  /\ p \in Mortal /\ pc[p] \notin {"idle", "wait", "crashed"}
  /\ Goto(p, "crashed")
  /\ exposed' = (exposed \/ claim[p] # "none")
  /\ claim' = [claim EXCEPT ![p] = "none"]
  /\ held' = [held EXCEPT ![p] = 0]
  /\ beaten' = [beaten EXCEPT ![p] = FALSE]
  /\ UNCHANGED disk

Restart(p) ==
  /\ p \in Reborn /\ pc[p] = "crashed"
  /\ Goto(p, "idle")
  /\ UNCHANGED <<claim, disk, held, beaten, exposed>>

Older(age) == IF age = None \/ age = Old THEN age ELSE age + 1

Tick ==
  /\ \A p \in Procs :
       /\ pc[p] \in Resting
       /\ pc[p] = "held" => beaten[p]
  /\ disk' = [disk EXCEPT !.dir = Older(@), !.beat = Older(@), !.meta = Older(@),
                          !.breaker = Older(@)]
  /\ held' = [p \in Procs |-> IF pc[p] = "held" THEN Older(held[p]) ELSE 0]
  /\ beaten' = [p \in Procs |-> FALSE]
  /\ UNCHANGED <<pc, claim, exposed>>

----------------------------------------------------------------------------

FileStep(p) ==
  \/ Mkdir(p) \/ CheckStale(p) \/ Claim(p) \/ DropBreaker(p) \/ Remove(p)
  \/ Remake(p) \/ Unclaim(p) \/ WriteBeat(p) \/ WriteMeta(p) \/ ReadMeta(p)

Next ==
  \/ Tick
  \/ \E p \in Procs :
       \/ FileStep(p) \/ Begin(p) \/ GiveUp(p) \/ Beat(p) \/ Leave(p)
       \/ Crash(p) \/ Restart(p)

Spec == Init /\ [][Next]_vars

(* Every age is cut off, so that a tick changes nothing. *)
Settled ==
  /\ {disk.dir, disk.beat, disk.meta, disk.breaker} \subseteq {None, Old}
  /\ \A p \in Procs : pc[p] # "held"

(* Live processes go on, sleeps and critical sections end, time passes, and *)
(* crashes come to an end.                                                  *)
FairSpec ==
  /\ Spec
  /\ <>[][\A p \in Procs : ~ Crash(p)]_vars
  /\ \A p \in Procs : /\ WF_vars(FileStep(p) \/ Beat(p))
                      /\ WF_vars(Leave(p))
                      /\ WF_vars(pc[p] = "wait" /\ Begin(p))
  /\ []<><<Tick>>_vars \/ <>[]Settled

----------------------------------------------------------------------------
(* Properties *)

Holders == {p \in Procs : pc[p] = "held"}
Owns(p) == disk.meta # None /\ disk.owner = p

(* The code has two races, after which nothing but Recovers is claimed.     *)
(* A process that crashes while it cleans up leaves its breaker behind, and *)
(* of two that remove it the slower one may remove the breaker of a third.  *)
(* And a release that removes the heartbeat before meta.json shows, after a *)
(* long critical section, a lock that looks stale.                          *)

(* No two live processes are in their critical sections ("enforces mutual   *)
(* exclusion under process contention", test/util/flock.test.ts).           *)
MutualExclusion == ~ exposed => Cardinality(Holders) <= 1

(* A live holder has the directory to itself, with its heartbeat and token, *)
(* however long its critical section, so that its release is not refused    *)
(* and nobody breaks its lock ("Heartbeat prevents long critical sections   *)
(* from being evicted as stale").                                           *)
HolderOwns == ~ exposed =>
  \A p \in Holders : Owns(p) /\ disk.beat # None /\ disk.beat <= Stale

(* Nobody but the breaker's owner is cleaning up a lock ("Breaker ownership *)
(* ensures only one contender performs stale cleanup").                     *)
OneBreaker == ~ exposed =>
  Cardinality({p \in Procs : pc[p] \in {"clear", "remake"}}) <= 1

(* Files and processes fit together, and a lock has one owner and at most   *)
(* one who cleans it up.                                                    *)
LockInv == TypeOK /\ HolderOwns /\ OneBreaker

(* Whatever a crashed process has left behind, those who wait are served:   *)
(* someone gets the lock (flock.ts, "Stale detection allows automatic       *)
(* recovery after crashed owners").                                         *)
Recovers == \A p \in Procs \ Mortal :
  pc[p] = "wait" ~> (pc[p] = "idle" \/ Holders # {})
============================================================================
