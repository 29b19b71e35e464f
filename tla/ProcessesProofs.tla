-------------------------- MODULE ProcessesProofs --------------------------
(***************************************************************************)
(* Proofs about what the processes of a device share: the lock between     *)
(* them (Flock) and the database that each of them replays a workspace's   *)
(* events into (WorkspaceSync), for any processes, crashes and failures.   *)
(***************************************************************************)
EXTENDS Flock, WorkspaceSync, FiniteSetTheorems, TLAPS

----------------------------------------------------------------------------
(* The lock *)

(* One process cleans up at a time: it owns the breaker, which exists only  *)
(* while it does and is too young for anybody to drop it.                   *)
BreakerInv ==
  /\ disk.breaker = None \/ disk.breaker = 0
  /\ disk.breaker = None <=> \A p \in Procs : claim[p] = "none"
  /\ \A p, q \in Procs : claim[p] # "none" /\ claim[q] # "none" => p = q
  /\ \A p \in Procs :
       /\ pc[p] # "dropBreaker"
       /\ claim[p] = "held" =>
            pc[p] \in {"checkBeat", "checkMeta", "checkDir", "clear", "remake", "unclaim"}
       /\ claim[p] = "made" => pc[p] = "unclaim"
       /\ pc[p] \in {"clear", "remake"} => claim[p] = "held"
       /\ pc[p] = "unclaim" => claim[p] # "none"

(* The processes whose directory it is. *)
Owner(p) ==
  \/ pc[p] \in {"writeBeat", "writeMeta", "held", "readMeta", "release"}
  \/ claim[p] = "made"

(* There is one of them, and nobody removes the directory under its feet.   *)
OwnerInv ==
  /\ \A p, q \in Procs : Owner(p) /\ Owner(q) => p = q
  /\ \A p, q \in Procs : Owner(p) => pc[q] # "clear"
  /\ \A p \in Procs : pc[p] # "spoil"
  /\ \A p \in Procs : pc[p] = "clear" => disk.dir # None

Young(age) == age # None => age <= Stale

(* What the directory looks like when p is its owner: at no point of its    *)
(* life does it look stale.                                                 *)
Looks(p) ==
  /\ disk.dir # None
  /\ pc[p] = "writeBeat" \/ claim[p] = "made" =>
       disk.beat = None /\ disk.meta = None /\ disk.dir = 0
  /\ pc[p] = "writeMeta" => disk.beat = 0 /\ disk.meta = None /\ disk.dir = 0
  /\ pc[p] = "held" =>
       /\ disk.owner = p /\ disk.meta = held[p]
       /\ disk.beat = 0 \/ (disk.beat = 1 /\ ~ beaten[p])
  /\ pc[p] = "readMeta" =>
       disk.owner = p /\ disk.meta # None /\ disk.beat # None /\ Young(disk.meta) /\ Young(disk.beat)
  /\ pc[p] = "release" =>
       /\ Young(disk.meta) /\ Young(disk.beat)
       /\ disk.meta = None \/ disk.beat = None => disk.dir = 0

(* Nor does it to those who have looked at one file and come to the next.   *)
LookInv == \A p \in Procs : Owner(p) =>
  /\ Looks(p)
  /\ \A q \in Procs :
       /\ pc[q] = "checkMeta" => Young(disk.meta)
       /\ pc[q] = "checkDir" => Young(disk.dir)

SafeInv == BreakerInv /\ OwnerInv /\ LookInv
IInv == TypeOK /\ (~ exposed => SafeInv)

----------------------------------------------------------------------------

(* What the file operations that touch several entries leave on the disk.   *)
LEMMA WriteBeatDisk ==
  ASSUME TypeOK, NEW p \in Procs, WriteBeat(p), disk.dir # None, disk.beat = None
  PROVE  /\ disk' = [dir |-> 0, beat |-> 0, meta |-> disk.meta, owner |-> disk.owner,
                     breaker |-> disk.breaker]
         /\ pc' = [pc EXCEPT ![p] = "writeMeta"]
  BY DEF WriteBeat, TypeOK, Goto

LEMMA WriteMetaDisk ==
  ASSUME TypeOK, NEW p \in Procs, WriteMeta(p), disk.dir # None, disk.meta = None
  PROVE  /\ disk' = [dir |-> 0, beat |-> disk.beat, meta |-> 0, owner |-> p,
                     breaker |-> disk.breaker]
         /\ pc' = [pc EXCEPT ![p] = "held"]
  BY DEF WriteMeta, TypeOK, Goto

LEMMA RemoveDisk ==
  ASSUME TypeOK, NEW p \in Procs, Remove(p)
  PROVE  \/ /\ disk.beat # None /\ pc' = pc
            /\ disk' = [dir |-> 0, beat |-> None, meta |-> disk.meta, owner |-> disk.owner,
                        breaker |-> disk.breaker]
         \/ /\ disk.meta # None /\ pc' = pc
            /\ disk' = [dir |-> 0, beat |-> disk.beat, meta |-> None, owner |-> None,
                        breaker |-> disk.breaker]
         \/ /\ disk.beat = None /\ disk.meta = None
            /\ disk' = [dir |-> None, beat |-> None, meta |-> None, owner |-> disk.owner,
                        breaker |-> disk.breaker]
            /\ pc' = [pc EXCEPT ![p] = IF pc[p] = "clear" THEN "remake" ELSE "idle"]
<1>1. pc[p] \in Removing /\ (AfterRemoving[pc[p]] = IF pc[p] = "clear" THEN "remake" ELSE "idle")
  BY DEF Remove, Removing, AfterRemoving
<1>2. CASE disk.beat # None /\ disk' = [disk EXCEPT !.beat = None, !.dir = 0] /\ UNCHANGED pc
  BY <1>2 DEF TypeOK
<1>3. CASE /\ disk.meta # None /\ disk' = [disk EXCEPT !.meta = None, !.owner = None, !.dir = 0]
           /\ UNCHANGED pc
  BY <1>3 DEF TypeOK
<1>4. CASE /\ disk.beat = None /\ disk.meta = None /\ disk' = [disk EXCEPT !.dir = None]
           /\ Goto(p, AfterRemoving[pc[p]])
  BY <1>1, <1>4 DEF TypeOK, Goto
<1> QED BY <1>2, <1>3, <1>4 DEF Remove

(* Every step of a process keeps the types. *)
LEMMA TypeStep ==
  ASSUME TypeOK, NEW p \in Procs,
         \/ FileStep(p) \/ Begin(p) \/ GiveUp(p) \/ Beat(p) \/ Leave(p)
         \/ Crash(p) \/ Restart(p)
  PROVE  TypeOK'
<1> USE StaleAssumption, NoneAssumption DEF TypeOK, Ages, Old, PCs, Resting, Removing, Goto
<1>1. CASE Begin(p)
  BY <1>1 DEF Begin
<1>2. CASE GiveUp(p)
  BY <1>2 DEF GiveUp
<1>3. CASE Mkdir(p)
  BY <1>3 DEF Mkdir
<1>4. CASE Claim(p)
  BY <1>4 DEF Claim
<1>5. CASE DropBreaker(p)
  BY <1>5 DEF DropBreaker
<1>6. CASE Remove(p)
  <2>1. UNCHANGED <<claim, held, beaten, exposed>>
    BY <1>6 DEF Remove
  <2> QED BY <1>6, <2>1, RemoveDisk
<1>7. CASE Remake(p)
  BY <1>7 DEF Remake
<1>8. CASE Unclaim(p)
  BY <1>8 DEF Unclaim
<1>9. CASE WriteBeat(p)
  <2>1. CASE disk.dir # None /\ disk.beat = None
    <3>1. UNCHANGED <<claim, held, beaten, exposed>>
      BY <1>9 DEF WriteBeat
    <3> QED BY <1>9, <2>1, <3>1, WriteBeatDisk
  <2>2. CASE ~ (disk.dir # None /\ disk.beat = None)
    BY <1>9, <2>2 DEF WriteBeat
  <2> QED BY <2>1, <2>2
<1>10. CASE WriteMeta(p)
  <2>0. /\ held' \in [Procs -> Ages] /\ beaten' \in [Procs -> BOOLEAN]
        /\ UNCHANGED <<claim, exposed>>
    BY <1>10 DEF WriteMeta
  <2>1. CASE disk.dir # None /\ disk.meta = None
    BY <1>10, <2>0, <2>1, WriteMetaDisk
  <2>2. CASE ~ (disk.dir # None /\ disk.meta = None)
    BY <1>10, <2>0, <2>2 DEF WriteMeta
  <2> QED BY <2>1, <2>2
<1>11. CASE ReadMeta(p)
  BY <1>11 DEF ReadMeta
<1>12. CASE Beat(p)
  BY <1>12 DEF Beat
<1>13. CASE Leave(p)
  BY <1>13 DEF Leave
<1>14. CASE Crash(p)
  BY <1>14 DEF Crash
<1>15. CASE Restart(p)
  BY <1>15 DEF Restart
<1>20. CASE CheckStale(p)
  BY <1>20 DEF CheckStale, Stat
<1> QED BY <1>1, <1>2, <1>3, <1>4, <1>5, <1>6, <1>7, <1>8, <1>9, <1>10, <1>11, <1>12, <1>13, <1>14, <1>15, <1>20 DEF FileStep

(* Ages grow up to Old and stay ages. *)
LEMMA TypeTick == TypeOK /\ Tick => TypeOK'
<1> USE StaleAssumption, NoneAssumption DEF TypeOK, Ages, Old
<1>1. \A age \in Ages \cup {None} : Older(age) \in Ages \cup {None} /\ (Older(age) = None <=> age = None)
  BY DEF Older
<1>2. \A age \in Ages : Older(age) \in Ages
  BY DEF Older
<1> SUFFICES ASSUME TypeOK, Tick PROVE TypeOK'
  OBVIOUS
<1>3. disk' = [dir |-> Older(disk.dir), beat |-> Older(disk.beat), meta |-> Older(disk.meta),
               owner |-> disk.owner, breaker |-> Older(disk.breaker)]
  BY DEF Tick
<1>4. /\ held' \in [Procs -> Ages] /\ beaten' \in [Procs -> BOOLEAN]
      /\ UNCHANGED <<pc, claim, exposed>>
  BY <1>2 DEF Tick
<1> QED BY <1>1, <1>3, <1>4

(* One lemma per action: as long as neither race has been run into, it     *)
(* keeps the lock safe.                                                     *)
LEMMA BeginSafe ==
  ASSUME TypeOK, TypeOK', SafeInv, ~ exposed, ~ exposed', NEW p \in Procs, Begin(p)
  PROVE  SafeInv'
<1> USE StaleAssumption, NoneAssumption DEF TypeOK, Ages, Old, Goto, SafeInv
<1>1. BreakerInv'
  BY DEF Begin, BreakerInv, OwnerInv, LookInv
<1>2. OwnerInv'
  BY DEF Begin, BreakerInv, OwnerInv, LookInv, Owner, Looks, Young
<1>3. LookInv'
  BY DEF Begin, BreakerInv, OwnerInv, LookInv, Owner, Looks, Young
<1> QED BY <1>1, <1>2, <1>3

LEMMA GiveUpSafe ==
  ASSUME TypeOK, TypeOK', SafeInv, ~ exposed, ~ exposed', NEW p \in Procs, GiveUp(p)
  PROVE  SafeInv'
<1> USE StaleAssumption, NoneAssumption DEF TypeOK, Ages, Old, Goto, SafeInv
<1>1. BreakerInv'
  BY DEF GiveUp, BreakerInv, OwnerInv, LookInv
<1>2. OwnerInv'
  BY DEF GiveUp, BreakerInv, OwnerInv, LookInv, Owner, Looks, Young
<1>3. LookInv'
  BY DEF GiveUp, BreakerInv, OwnerInv, LookInv, Owner, Looks, Young
<1> QED BY <1>1, <1>2, <1>3

LEMMA MkdirSafe ==
  ASSUME TypeOK, TypeOK', SafeInv, ~ exposed, ~ exposed', NEW p \in Procs, Mkdir(p)
  PROVE  SafeInv'
<1> USE StaleAssumption, NoneAssumption DEF TypeOK, Ages, Old, Goto, SafeInv
<1>1. BreakerInv'
  BY DEF Mkdir, BreakerInv, OwnerInv, LookInv
<1>2. OwnerInv'
  BY DEF Mkdir, BreakerInv, OwnerInv, LookInv, Owner, Looks, Young
<1>3. LookInv'
  BY DEF Mkdir, BreakerInv, OwnerInv, LookInv, Owner, Looks, Young
<1> QED BY <1>1, <1>2, <1>3

LEMMA ClaimSafe ==
  ASSUME TypeOK, TypeOK', SafeInv, ~ exposed, ~ exposed', NEW p \in Procs, Claim(p)
  PROVE  SafeInv'
<1> USE StaleAssumption, NoneAssumption DEF TypeOK, Ages, Old, Goto, SafeInv
<1>1. BreakerInv'
  BY DEF Claim, BreakerInv, OwnerInv, LookInv
<1>2. OwnerInv'
  BY DEF Claim, BreakerInv, OwnerInv, LookInv, Owner, Looks, Young
<1>3. LookInv'
  BY DEF Claim, BreakerInv, OwnerInv, LookInv, Owner, Looks, Young
<1> QED BY <1>1, <1>2, <1>3

LEMMA DropBreakerSafe ==
  ASSUME TypeOK, TypeOK', SafeInv, ~ exposed, ~ exposed', NEW p \in Procs, DropBreaker(p)
  PROVE  SafeInv'
<1> USE StaleAssumption, NoneAssumption DEF TypeOK, Ages, Old, Goto, SafeInv
<1>1. BreakerInv'
  BY DEF DropBreaker, BreakerInv, OwnerInv, LookInv
<1>2. OwnerInv'
  BY DEF DropBreaker, BreakerInv, OwnerInv, LookInv, Owner, Looks, Young
<1>3. LookInv'
  BY DEF DropBreaker, BreakerInv, OwnerInv, LookInv, Owner, Looks, Young
<1> QED BY <1>1, <1>2, <1>3

LEMMA RemoveSafe ==
  ASSUME TypeOK, TypeOK', SafeInv, ~ exposed, ~ exposed', NEW p \in Procs, Remove(p)
  PROVE  SafeInv'
<1> USE StaleAssumption, NoneAssumption DEF TypeOK, Ages, Old, SafeInv
<1>1. pc[p] \in {"clear", "release"} /\ UNCHANGED <<claim, held, beaten, exposed>>
  BY DEF Remove, Removing, OwnerInv
<1>2. BreakerInv'
  BY <1>1, RemoveDisk DEF BreakerInv
<1>3. OwnerInv'
  BY <1>1, RemoveDisk DEF BreakerInv, OwnerInv, Owner
<1>4. \A q \in Procs : Owner(q)' => Owner(q)
  BY <1>1, RemoveDisk DEF Owner
<1>5. ASSUME NEW q \in Procs, Owner(q)'
      PROVE  p = q /\ pc[p] = "release" /\ pc' = pc
  BY <1>1, <1>4, <1>5, RemoveDisk DEF OwnerInv, Owner, BreakerInv
<1>6. LookInv'
  BY <1>1, <1>4, <1>5, RemoveDisk DEF LookInv, Looks, Young, BreakerInv
<1> QED BY <1>2, <1>3, <1>6

LEMMA RemakeSafe ==
  ASSUME TypeOK, TypeOK', SafeInv, ~ exposed, ~ exposed', NEW p \in Procs, Remake(p)
  PROVE  SafeInv'
<1> USE StaleAssumption, NoneAssumption DEF TypeOK, Ages, Old, Goto, SafeInv
<1>1. BreakerInv'
  BY DEF Remake, BreakerInv, OwnerInv, LookInv
<1>2. OwnerInv'
  BY DEF Remake, BreakerInv, OwnerInv, LookInv, Owner, Looks, Young
<1>3. LookInv'
  BY DEF Remake, BreakerInv, OwnerInv, LookInv, Owner, Looks, Young
<1> QED BY <1>1, <1>2, <1>3

LEMMA UnclaimSafe ==
  ASSUME TypeOK, TypeOK', SafeInv, ~ exposed, ~ exposed', NEW p \in Procs, Unclaim(p)
  PROVE  SafeInv'
<1> USE StaleAssumption, NoneAssumption DEF TypeOK, Ages, Old, Goto, SafeInv
<1>1. BreakerInv'
  BY DEF Unclaim, BreakerInv, OwnerInv, LookInv
<1>2. OwnerInv'
  BY DEF Unclaim, BreakerInv, OwnerInv, LookInv, Owner, Looks, Young
<1>3. LookInv'
  BY DEF Unclaim, BreakerInv, OwnerInv, LookInv, Owner, Looks, Young
<1> QED BY <1>1, <1>2, <1>3

LEMMA WriteBeatSafe ==
  ASSUME TypeOK, TypeOK', SafeInv, ~ exposed, ~ exposed', NEW p \in Procs, WriteBeat(p)
  PROVE  SafeInv'
<1> USE StaleAssumption, NoneAssumption DEF TypeOK, Ages, Old, SafeInv
<1>1. pc[p] = "writeBeat" /\ Owner(p) /\ UNCHANGED <<claim, held, beaten, exposed>>
  BY DEF WriteBeat, Owner
<1>2. /\ disk' = [dir |-> 0, beat |-> 0, meta |-> disk.meta, owner |-> disk.owner,
                  breaker |-> disk.breaker]
      /\ pc' = [pc EXCEPT ![p] = "writeMeta"]
  BY <1>1, WriteBeatDisk DEF LookInv, Looks
<1>3. BreakerInv'
  BY <1>1, <1>2 DEF BreakerInv
<1>4. OwnerInv'
  BY <1>1, <1>2 DEF OwnerInv, Owner
<1>5. LookInv'
  BY <1>1, <1>2 DEF LookInv, Looks, OwnerInv, Owner, BreakerInv, Young
<1> QED BY <1>3, <1>4, <1>5

LEMMA WriteMetaSafe ==
  ASSUME TypeOK, TypeOK', SafeInv, ~ exposed, ~ exposed', NEW p \in Procs, WriteMeta(p)
  PROVE  SafeInv'
<1> USE StaleAssumption, NoneAssumption DEF TypeOK, Ages, Old, SafeInv
<1>1. /\ pc[p] = "writeMeta" /\ Owner(p) /\ UNCHANGED <<claim, exposed>>
      /\ held' = [held EXCEPT ![p] = 0] /\ beaten' = [beaten EXCEPT ![p] = FALSE]
  BY DEF WriteMeta, Owner
<1>2. /\ disk' = [dir |-> 0, beat |-> disk.beat, meta |-> 0, owner |-> p,
                  breaker |-> disk.breaker]
      /\ pc' = [pc EXCEPT ![p] = "held"]
  BY <1>1, WriteMetaDisk DEF LookInv, Looks
<1>3. BreakerInv'
  BY <1>1, <1>2 DEF BreakerInv
<1>4. OwnerInv'
  BY <1>1, <1>2 DEF OwnerInv, Owner
<1>5. LookInv'
  BY <1>1, <1>2 DEF LookInv, Looks, OwnerInv, Owner, BreakerInv, Young
<1> QED BY <1>3, <1>4, <1>5

LEMMA ReadMetaSafe ==
  ASSUME TypeOK, TypeOK', SafeInv, ~ exposed, ~ exposed', NEW p \in Procs, ReadMeta(p)
  PROVE  SafeInv'
<1> USE StaleAssumption, NoneAssumption DEF TypeOK, Ages, Old, Goto, SafeInv
<1>1. BreakerInv'
  BY DEF ReadMeta, BreakerInv, OwnerInv, LookInv
<1>2. OwnerInv'
  BY DEF ReadMeta, BreakerInv, OwnerInv, LookInv, Owner, Looks, Young
<1>3. LookInv'
  BY DEF ReadMeta, BreakerInv, OwnerInv, LookInv, Owner, Looks, Young
<1> QED BY <1>1, <1>2, <1>3

LEMMA BeatSafe ==
  ASSUME TypeOK, TypeOK', SafeInv, ~ exposed, ~ exposed', NEW p \in Procs, Beat(p)
  PROVE  SafeInv'
<1> USE StaleAssumption, NoneAssumption DEF TypeOK, Ages, Old, Goto, SafeInv
<1>1. BreakerInv'
  BY DEF Beat, BreakerInv, OwnerInv, LookInv
<1>2. OwnerInv'
  BY DEF Beat, BreakerInv, OwnerInv, LookInv, Owner, Looks, Young
<1>3. LookInv'
  BY DEF Beat, BreakerInv, OwnerInv, LookInv, Owner, Looks, Young
<1> QED BY <1>1, <1>2, <1>3

LEMMA LeaveSafe ==
  ASSUME TypeOK, TypeOK', SafeInv, ~ exposed, ~ exposed', NEW p \in Procs, Leave(p)
  PROVE  SafeInv'
<1> USE StaleAssumption, NoneAssumption DEF TypeOK, Ages, Old, SafeInv
<1>1. /\ pc[p] = "held" /\ Owner(p) /\ UNCHANGED <<claim, disk>>
      /\ held' = [held EXCEPT ![p] = 0] /\ beaten' = [beaten EXCEPT ![p] = FALSE]
      /\ pc' = [pc EXCEPT ![p] = "readMeta"]
      /\ ~ (held[p] > Stale)
  BY DEF Leave, Owner, Goto
<1>1a. held[p] <= Stale
  BY <1>1
<1>2. BreakerInv'
  BY <1>1 DEF BreakerInv
<1>3. OwnerInv'
  BY <1>1 DEF OwnerInv, Owner
<1>4. /\ disk.owner = p /\ disk.meta # None /\ disk.beat # None /\ disk.dir # None
      /\ Young(disk.meta) /\ Young(disk.beat)
  BY <1>1, <1>1a DEF LookInv, Looks, Young
<1>5. LookInv'
  BY <1>1, <1>4 DEF LookInv, Looks, OwnerInv, Owner, BreakerInv
<1> QED BY <1>2, <1>3, <1>5

LEMMA CrashSafe ==
  ASSUME TypeOK, TypeOK', SafeInv, ~ exposed, ~ exposed', NEW p \in Procs, Crash(p)
  PROVE  SafeInv'
<1> USE StaleAssumption, NoneAssumption DEF TypeOK, Ages, Old, Goto, SafeInv
<1>1. BreakerInv'
  <2>1. /\ claim[p] = "none" /\ claim' = claim /\ disk' = disk
        /\ pc' = [pc EXCEPT ![p] = "crashed"]
    BY DEF Crash
  <2> QED BY <2>1 DEF BreakerInv
<1>2. OwnerInv'
  BY DEF Crash, BreakerInv, OwnerInv, LookInv, Owner, Looks, Young
<1>3. LookInv'
  BY DEF Crash, BreakerInv, OwnerInv, LookInv, Owner, Looks, Young
<1> QED BY <1>1, <1>2, <1>3

LEMMA RestartSafe ==
  ASSUME TypeOK, TypeOK', SafeInv, ~ exposed, ~ exposed', NEW p \in Procs, Restart(p)
  PROVE  SafeInv'
<1> USE StaleAssumption, NoneAssumption DEF TypeOK, Ages, Old, Goto, SafeInv
<1>1. BreakerInv'
  BY DEF Restart, BreakerInv, OwnerInv, LookInv
<1>2. OwnerInv'
  BY DEF Restart, BreakerInv, OwnerInv, LookInv, Owner, Looks, Young
<1>3. LookInv'
  BY DEF Restart, BreakerInv, OwnerInv, LookInv, Owner, Looks, Young
<1> QED BY <1>1, <1>2, <1>3

LEMMA CheckStaleSafe ==
  ASSUME TypeOK, TypeOK', SafeInv, ~ exposed, ~ exposed', NEW p \in Procs, CheckStale(p)
  PROVE  SafeInv'
<1> USE StaleAssumption, NoneAssumption DEF TypeOK, Ages, Old, Goto, SafeInv
<1>1. BreakerInv'
  BY DEF CheckStale, Stat, BreakerInv, OwnerInv, LookInv
<1>2. OwnerInv'
  BY DEF CheckStale, Stat, BreakerInv, OwnerInv, LookInv, Owner, Looks, Young
<1>3. LookInv'
  BY DEF CheckStale, Stat, BreakerInv, OwnerInv, LookInv, Owner, Looks, Young
<1> QED BY <1>1, <1>2, <1>3

(* Time passes only while everybody rests: an owner then holds the lock,    *)
(* and its heartbeat is no older than the tick before.                      *)
LEMMA TickSafe ==
  ASSUME TypeOK, TypeOK', SafeInv, ~ exposed, ~ exposed', Tick
  PROVE  SafeInv'
<1> USE StaleAssumption, NoneAssumption DEF TypeOK, Ages, Old, SafeInv
<1>1. /\ disk' = [dir |-> Older(disk.dir), beat |-> Older(disk.beat), meta |-> Older(disk.meta),
                  owner |-> disk.owner, breaker |-> Older(disk.breaker)]
      /\ held' = [p \in Procs |-> IF pc[p] = "held" THEN Older(held[p]) ELSE 0]
      /\ beaten' = [p \in Procs |-> FALSE]
      /\ UNCHANGED <<pc, claim, exposed>>
      /\ \A p \in Procs : pc[p] \in Resting /\ (pc[p] = "held" => beaten[p])
  BY DEF Tick
<1>2. \A p \in Procs : claim[p] = "none"
  BY <1>1 DEF BreakerInv, Resting
<1>3. disk.breaker = None
  BY <1>2 DEF BreakerInv
<1>4. BreakerInv'
  BY <1>1, <1>2, <1>3 DEF BreakerInv, Older
<1>5. \A age \in Ages \cup {None} : Older(age) = None <=> age = None
  BY DEF Older
<1>6. OwnerInv'
  BY <1>1, <1>5 DEF OwnerInv, Owner
<1>7. ASSUME NEW p \in Procs, Owner(p)
      PROVE  pc[p] = "held" /\ disk.beat = 0
  BY <1>1, <1>2, <1>7 DEF Owner, Resting, LookInv, Looks
<1>8. Older(0) = 1
  BY DEF Older
<1>9. LookInv'
  BY <1>1, <1>2, <1>5, <1>7, <1>8 DEF LookInv, Looks, Owner, Resting
<1> QED BY <1>4, <1>6, <1>9

(* The invariant holds initially and is kept by every step. *)
LEMMA InitIInv == Init => IInv
<1> SUFFICES ASSUME Init PROVE IInv
  OBVIOUS
<1>1. TypeOK
  <2>1. disk \in [dir : Ages \cup {None}, beat : Ages \cup {None}, meta : Ages \cup {None},
                   owner : Procs \cup {None}, breaker : Ages \cup {None}]
    BY DEF Init
  <2>2. disk.dir = None /\ disk.beat = None /\ disk.meta = None /\ disk.owner = None
    BY DEF Init
  <2>3. 0 \in Ages
    BY StaleAssumption DEF Ages, Old
  <2> QED BY <2>1, <2>2, <2>3 DEF Init, TypeOK, PCs, Resting
<1>2. SafeInv
  BY <1>1 DEF Init, SafeInv, BreakerInv, OwnerInv, LookInv, Owner
<1> QED BY <1>1, <1>2 DEF IInv

LEMMA NextIInv == IInv /\ [Next]_vars => IInv'
<1> SUFFICES ASSUME IInv, [Next]_vars PROVE IInv'
  OBVIOUS
<1>1. TypeOK'
  <2>1. CASE UNCHANGED vars
    BY <2>1 DEF IInv, TypeOK, vars
  <2> QED BY <2>1, TypeStep, TypeTick DEF Next, IInv
<1>2. ASSUME ~ exposed'
      PROVE  ~ exposed
  <2>1. CASE UNCHANGED vars
    BY <1>2, <2>1 DEF vars
  <2>2. CASE Tick
    BY <1>2, <2>2 DEF Tick
  <2>3. ASSUME NEW p \in Procs,
               \/ FileStep(p) \/ Begin(p) \/ GiveUp(p) \/ Beat(p) \/ Leave(p)
               \/ Crash(p) \/ Restart(p)
        PROVE  ~ exposed
    BY <1>2, <2>3 DEF FileStep, Mkdir, CheckStale, Stat, Claim, DropBreaker, Remove, Remake,
       Unclaim, WriteBeat, WriteMeta, ReadMeta, Begin, GiveUp, Beat, Leave, Crash, Restart
  <2> QED BY <2>1, <2>2, <2>3 DEF Next
<1>3. ASSUME ~ exposed'
      PROVE  SafeInv'
  <2>1. TypeOK /\ SafeInv /\ ~ exposed
    BY <1>2, <1>3 DEF IInv
  <2>2. CASE UNCHANGED vars
    BY <2>1, <2>2 DEF vars, SafeInv, BreakerInv, OwnerInv, LookInv, Owner, Looks
  <2>3. ASSUME NEW p \in Procs, FileStep(p)
        PROVE  SafeInv'
    BY <1>1, <1>3, <2>1, <2>3, MkdirSafe, CheckStaleSafe, ClaimSafe, DropBreakerSafe, RemoveSafe,
       RemakeSafe, UnclaimSafe, WriteBeatSafe, WriteMetaSafe, ReadMetaSafe DEF FileStep
  <2> QED BY <1>1, <1>3, <2>1, <2>2, <2>3, TickSafe, BeginSafe, GiveUpSafe, BeatSafe, LeaveSafe,
             CrashSafe, RestartSafe DEF Next
<1> QED BY <1>1, <1>3 DEF IInv

LEMMA Invariance == Spec => []IInv
  BY InitIInv, NextIInv, PTL DEF Spec

(* A set whose elements are all the same has at most one. *)
LEMMA AtMostOne ==
  ASSUME NEW S, \A p, q \in S : p = q
  PROVE  Cardinality(S) <= 1
<1>1. CASE S = {}
  BY <1>1, FS_EmptySet
<1>2. CASE S # {}
  <2>1. PICK p : S = {p}
    BY <1>2
  <2>2. Cardinality({p}) = 1
    BY FS_Singleton
  <2> QED BY <2>1, <2>2
<1> QED BY <1>1, <1>2

(* However many processes contend, crash and come back, at most one is in   *)
(* its critical section, but for the two races (flock.ts acquire).          *)
THEOREM LockExcludes == Spec => []MutualExclusion
<1>1. IInv => MutualExclusion
  <2> SUFFICES ASSUME IInv, ~ exposed PROVE Cardinality(Holders) <= 1
    BY DEF MutualExclusion
  <2>1. \A p, q \in Holders : p = q
    BY DEF IInv, SafeInv, OwnerInv, Owner, Holders
  <2> QED BY <2>1, AtMostOne
<1> QED BY <1>1, Invariance, PTL

(* A holder keeps its directory, its token and a fresh heartbeat, however   *)
(* long it holds the lock, and one process cleans up at a time.             *)
THEOREM LockIsSound == Spec => []LockInv
<1>1. IInv => HolderOwns
  BY StaleAssumption, NoneAssumption
     DEF IInv, SafeInv, HolderOwns, Holders, Owns, OwnerInv, Owner, LookInv, Looks, TypeOK, Ages, Old
<1>2. IInv => OneBreaker
  <2> SUFFICES ASSUME IInv, ~ exposed
               PROVE  Cardinality({p \in Procs : pc[p] \in {"clear", "remake"}}) <= 1
    BY DEF OneBreaker
  <2>1. \A p, q \in {r \in Procs : pc[r] \in {"clear", "remake"}} : p = q
    BY DEF IInv, SafeInv, BreakerInv
  <2> QED BY <2>1, AtMostOne
<1>3. IInv => LockInv
  BY <1>1, <1>2 DEF LockInv, IInv
<1> QED BY <1>3, Invariance, PTL

----------------------------------------------------------------------------
(* The replayed log *)

(* The stored events are 0, 1, ..., next - 1. *)
RowsArePrefix == Len(rows) = next /\ \A i \in 1..next : rows[i] = i - 1

(* An event that was found to be the expected one was written, and others   *)
(* may have stored it and more since.                                       *)
HandIsKnown == \A p \in Followers :
  hand[p] # NoEvent => hand[p] \in Nat /\ hand[p] <= next /\ hand[p] < log

(* Whatever is on its way was written. *)
IncomingIsWritten == \A p \in Followers :
  /\ \A i \in 1..Len(stream[p]) : stream[p][i] < log
  /\ \A i \in 1..Len(batch[p]) : batch[p][i] < log

SyncInv == SyncTypeOK /\ RowsArePrefix /\ HandIsKnown /\ IncomingIsWritten

LEMMA SyncInitInv == ASSUME SyncInit PROVE SyncInv
<1>1. restored \in BOOLEAN
  BY DEF SyncInit
<1>2. SyncTypeOK
  BY <1>1, BoundsAssumption DEF SyncInit, SyncTypeOK, NoEvent, Event
<1>3. RowsArePrefix /\ HandIsKnown /\ IncomingIsWritten
  BY DEF SyncInit, RowsArePrefix, HandIsKnown, IncomingIsWritten, NoEvent
<1> QED BY <1>2, <1>3 DEF SyncInv

(* Taking the next event leaves the rest. *)
LEMMA ConsumeKeeps ==
  ASSUME SyncInv, NEW p \in Followers, Incoming(p) # <<>>, Consume(p)
  PROVE  /\ stream' \in [Followers -> Seq(Event)] /\ batch' \in [Followers -> Seq(Event)]
         /\ \A q \in Followers :
              /\ \A i \in 1..Len(stream'[q]) : stream'[q][i] < log
              /\ \A i \in 1..Len(batch'[q]) : batch'[q][i] < log
         /\ Head(Incoming(p)) \in Event /\ Head(Incoming(p)) < log
<1>1. /\ Incoming(p) \in Seq(Event)
      /\ \A i \in 1..Len(Incoming(p)) : Incoming(p)[i] < log
  BY DEF SyncInv, SyncTypeOK, IncomingIsWritten, Incoming
<1>2. /\ Tail(Incoming(p)) \in Seq(Event)
      /\ \A i \in 1..Len(Tail(Incoming(p))) : Tail(Incoming(p))[i] < log
  BY <1>1 DEF Event
<1>3. Head(Incoming(p)) \in Event /\ Head(Incoming(p)) < log
  BY <1>1
<1>4. CASE at[p] = "history"
  <2>1. batch' = [batch EXCEPT ![p] = Tail(Incoming(p))] /\ stream' = stream
    BY <1>4 DEF Consume, Incoming
  <2> QED BY <1>2, <1>3, <2>1 DEF SyncInv, SyncTypeOK, IncomingIsWritten
<1>5. CASE at[p] # "history"
  <2>1. stream' = [stream EXCEPT ![p] = Tail(Incoming(p))] /\ batch' = batch
    BY <1>5 DEF Consume, Incoming
  <2> QED BY <1>2, <1>3, <2>1 DEF SyncInv, SyncTypeOK, IncomingIsWritten
<1> QED BY <1>4, <1>5

LEMMA ThrowsTypes ==
  ASSUME SyncTypeOK, NEW p \in Followers, Throws(p)
  PROVE  at' \in [Followers -> {"off", "connected", "asked", "history", "live"}]
  BY DEF SyncTypeOK, Throws

(* What storing an event means: it was there, or it comes after the last.   *)
LEMMA StoreIsNext ==
  ASSUME SyncInv, NEW p \in Followers, hand[p] # NoEvent
  PROVE  /\ Stored(hand[p]) <=> hand[p] # next
         /\ hand[p] = next => next < log
<1>1. hand[p] \in Nat /\ hand[p] <= next /\ hand[p] < log /\ next \in Nat
  BY DEF SyncInv, SyncTypeOK, HandIsKnown
<1>2. ASSUME hand[p] # next PROVE Stored(hand[p])
  <2>1. hand[p] + 1 \in 1..next /\ rows[hand[p] + 1] = hand[p]
    BY <1>1, <1>2 DEF SyncInv, RowsArePrefix
  <2> QED BY <2>1 DEF Stored, SyncInv, RowsArePrefix
<1>3. ASSUME hand[p] = next PROVE ~ Stored(hand[p])
  BY <1>1, <1>3 DEF Stored, SyncInv, RowsArePrefix
<1> QED BY <1>1, <1>2, <1>3

LEMMA SyncNextInv == ASSUME SyncInv, [SyncNext]_syncVars PROVE SyncInv'
<1> USE BoundsAssumption
<1>t. SyncTypeOK /\ RowsArePrefix /\ HandIsKnown /\ IncomingIsWritten
  BY DEF SyncInv
<1>1. CASE UNCHANGED syncVars
  BY <1>1, <1>t DEF SyncInv, SyncTypeOK, RowsArePrefix, HandIsKnown, IncomingIsWritten, syncVars
<1>2. CASE Run
  <2>1. log \in Event /\ log' = log + 1 /\ log' \in 0..MaxEvents
    BY <1>2, <1>t DEF Run, SyncTypeOK, Event
  <2>2. \A p \in Followers : stream'[p] = stream[p] \/ stream'[p] = Append(stream[p], log)
    BY <1>2 DEF Run
  <2>3. stream' \in [Followers -> Seq(Event)]
    <3>1. \A p \in Followers : (IF at[p] = "off" THEN stream[p] ELSE Append(stream[p], log)) \in Seq(Event)
      BY <2>1, <1>t DEF SyncTypeOK
    <3> QED BY <3>1, <1>2 DEF Run
  <2>4. SyncTypeOK'
    BY <2>1, <2>3, <1>2, <1>t DEF Run, SyncTypeOK
  <2>5. \A p \in Followers : \A i \in 1..Len(stream'[p]) : stream'[p][i] < log'
    <3> SUFFICES ASSUME NEW p \in Followers, NEW i \in 1..Len(stream'[p])
                 PROVE  stream'[p][i] < log'
      OBVIOUS
    <3>1. stream[p] \in Seq(Event) /\ \A j \in 1..Len(stream[p]) : stream[p][j] < log /\ stream[p][j] \in Event
      BY <1>t DEF SyncTypeOK, IncomingIsWritten
    <3>2. CASE stream'[p] = stream[p]
      BY <2>1, <3>1, <3>2 DEF Event
    <3>3. CASE stream'[p] = Append(stream[p], log)
      <4>1. CASE i = Len(stream[p]) + 1
        BY <2>1, <3>1, <3>3, <4>1 DEF Event
      <4>2. CASE i # Len(stream[p]) + 1
        <5>1. i \in 1..Len(stream[p]) /\ stream'[p][i] = stream[p][i]
          BY <3>1, <3>3, <4>2, <2>1
        <5> QED BY <5>1, <3>1, <2>1 DEF Event
      <4> QED BY <4>1, <4>2
    <3> QED BY <2>2, <3>2, <3>3
  <2>6. \A p \in Followers : \A i \in 1..Len(batch[p]) : batch[p][i] < log'
    BY <2>1, <1>t DEF SyncTypeOK, IncomingIsWritten, Event
  <2> QED BY <2>1, <2>4, <2>5, <2>6, <1>2, <1>t
          DEF Run, SyncInv, SyncTypeOK, RowsArePrefix, HandIsKnown, IncomingIsWritten, Event
<1>3. CASE TakeReplay
  <2>1. log \in Nat /\ log' = log + 1 /\ log' \in 0..MaxEvents
    BY <1>3, <1>t DEF TakeReplay, SyncTypeOK
  <2>2. IncomingIsWritten'
    BY SMTT(60), <1>3, <2>1, <1>t DEF TakeReplay, SyncTypeOK, IncomingIsWritten, Event
  <2> QED BY <2>1, <2>2, <1>3, <1>t
          DEF TakeReplay, SyncInv, SyncTypeOK, RowsArePrefix, HandIsKnown, Event
<1>4. ASSUME NEW p \in Followers, Serve(p)
      PROVE SyncInv'
  <2> DEFINE history == [i \in 1..(log - known[p]) |-> known[p] + i - 1]
  <2>1. known[p] \in Nat /\ log \in Nat /\ log <= MaxEvents
    BY <1>t DEF SyncTypeOK
  <2>2. history \in Seq(Event) /\ \A i \in 1..Len(history) : history[i] < log
    <3>1. PICK n \in Nat : 1..(log - known[p]) = 1..n
      <4>1. CASE known[p] <= log
        BY <2>1, <4>1
      <4>2. CASE ~ (known[p] <= log)
        <5>1. 1..(log - known[p]) = 1..0
          BY <2>1, <4>2
        <5> QED BY <5>1
      <4> QED BY <4>1, <4>2
    <3>2. \A i \in 1..n : i \in 1..(log - known[p]) /\ known[p] + i - 1 \in Event /\ known[p] + i - 1 < log
      BY <2>1, <3>1 DEF Event
    <3>3. history \in [1..n -> Event] /\ \A i \in 1..n : history[i] < log
      BY <3>1, <3>2
    <3> HIDE DEF history
    <3>4. history \in Seq(Event) /\ Len(history) = n
      BY <3>3
    <3> QED BY <3>3, <3>4
  <2>3. batch' = [batch EXCEPT ![p] = history]
    BY <1>4 DEF Serve
  <2>4. batch' \in [Followers -> Seq(Event)] /\ \A q \in Followers : \A i \in 1..Len(batch'[q]) : batch'[q][i] < log
    <3> HIDE DEF history
    <3> QED BY <2>2, <2>3, <1>t DEF SyncTypeOK, IncomingIsWritten
  <2> QED BY <2>4, <1>4, <1>t DEF Serve, SyncInv, SyncTypeOK, RowsArePrefix, HandIsKnown, IncomingIsWritten
<1>5. ASSUME NEW p \in Followers, ConnectSSE(p)
      PROVE SyncInv'
  BY <1>5, <1>t DEF ConnectSSE, SyncInv, SyncTypeOK, RowsArePrefix, HandIsKnown, IncomingIsWritten
<1>6. ASSUME NEW p \in Followers, Ask(p) \/ GoLive(p)
      PROVE SyncInv'
  <2>1. CASE Ask(p)
    BY <2>1, <1>t DEF Ask, SyncInv, SyncTypeOK, RowsArePrefix, HandIsKnown, IncomingIsWritten
  <2>2. CASE GoLive(p)
    BY <2>2, <1>t DEF GoLive, SyncInv, SyncTypeOK, RowsArePrefix, HandIsKnown, IncomingIsWritten
  <2> QED BY <1>6, <2>1, <2>2
<1>7. ASSUME NEW p \in Followers, Ignore(p)
      PROVE SyncInv'
  <2>1. Incoming(p) # <<>> /\ Consume(p)
    BY <1>7 DEF Ignore, Due
  <2> QED BY <2>1, ConsumeKeeps, <1>7, <1>t
          DEF Ignore, SyncInv, SyncTypeOK, RowsArePrefix, HandIsKnown, IncomingIsWritten
<1>8. ASSUME NEW p \in Followers, Refuse(p)
      PROVE SyncInv'
  <2>1. Incoming(p) # <<>> /\ Consume(p) /\ Throws(p)
    BY <1>8 DEF Refuse, Due
  <2> QED BY <2>1, ConsumeKeeps, ThrowsTypes, <1>8, <1>t
          DEF Refuse, SyncInv, SyncTypeOK, RowsArePrefix, HandIsKnown, IncomingIsWritten
<1>9. ASSUME NEW p \in Followers, Accept(p)
      PROVE SyncInv'
  <2>1. Incoming(p) # <<>> /\ Consume(p) /\ Head(Incoming(p)) = next
    BY <1>9 DEF Accept, Due
  <2>2. next \in Event /\ next < log /\ next \in Nat
    BY <2>1, ConsumeKeeps, <1>t DEF SyncTypeOK
  <2>3. hand' = [hand EXCEPT ![p] = next]
    BY <1>9 DEF Accept
  <2>4. SyncTypeOK'
    BY <2>1, <2>2, <2>3, ConsumeKeeps, <1>9, <1>t DEF Accept, SyncTypeOK
  <2>5. HandIsKnown'
    BY <2>2, <2>3, <1>9, <1>t DEF Accept, SyncTypeOK, HandIsKnown
  <2> QED BY <2>1, <2>4, <2>5, ConsumeKeeps, <1>9, <1>t
          DEF Accept, SyncInv, RowsArePrefix, IncomingIsWritten
<1>10. ASSUME NEW p \in Followers, Store(p)
       PROVE SyncInv'
  <2>1. hand[p] # NoEvent /\ hand[p] \in Event /\ next \in Nat /\ log \in 0..MaxEvents
    BY <1>10, <1>t DEF Store, SyncTypeOK
  <2>2. /\ hand' = [hand EXCEPT ![p] = NoEvent]
        /\ UNCHANGED <<log, stream, batch, known, drops, restored>>
    BY <1>10 DEF Store
  <2>3. CASE hand[p] # next
    <3>1. Throws(p) /\ UNCHANGED <<rows, next>>
      BY <2>1, <2>3, <1>10, StoreIsNext DEF Store
    <3> QED BY <2>2, <3>1, ThrowsTypes, <1>t
            DEF SyncInv, SyncTypeOK, RowsArePrefix, HandIsKnown, IncomingIsWritten
  <2>4. CASE hand[p] = next
    <3>1. rows' = Append(rows, next) /\ next' = next + 1 /\ at' = at
      BY <2>1, <2>4, <1>10, StoreIsNext DEF Store
    <3>2. next < log
      BY <2>1, <2>4, StoreIsNext
    <3>3. rows' \in Seq(Event) /\ Len(rows') = next' /\ next' \in 0..MaxEvents
      BY <2>1, <2>4, <3>1, <3>2, <1>t DEF SyncTypeOK
    <3>4. RowsArePrefix'
      BY <2>1, <3>1, <3>3, <1>t DEF SyncTypeOK, RowsArePrefix
    <3>5. SyncTypeOK'
      BY <2>2, <3>1, <3>3, <1>t DEF SyncTypeOK
    <3>6. HandIsKnown'
      BY <2>1, <2>2, <3>1, <1>t DEF SyncTypeOK, HandIsKnown, NoEvent
    <3> QED BY <2>2, <3>4, <3>5, <3>6, <1>t DEF SyncInv, IncomingIsWritten
  <2> QED BY <2>3, <2>4
<1>11. ASSUME NEW p \in Followers, Drop(p)
       PROVE SyncInv'
  BY <1>11, <1>t DEF Drop, SyncInv, SyncTypeOK, RowsArePrefix, HandIsKnown, IncomingIsWritten, NoEvent
<1> QED
  BY <1>1, <1>2, <1>3, <1>4, <1>5, <1>6, <1>7, <1>8, <1>9, <1>10, <1>11 DEF SyncNext, LoopStep

LEMMA SyncInvariance == SyncSpec => []SyncInv
<1>1. SyncInit => SyncInv
  BY SyncInitInv
<1>2. SyncInv /\ [SyncNext]_syncVars => SyncInv'
  BY SyncNextInv
<1> QED BY <1>1, <1>2, PTL DEF SyncSpec

(* The types; the sequence number and the stored events agree. *)
THEOREM Types == SyncSpec => []SyncTypeOK
<1>1. SyncInv => SyncTypeOK
  BY DEF SyncInv
<1> QED BY <1>1, SyncInvariance, PTL

LEMMA InitRefines == SyncInit => Replicated!Init
  BY DEF SyncInit, Replicated!Init

LEMMA StepRefines ==
  SyncInv /\ [SyncNext]_syncVars => [Replicated!Write \/ Replicated!Replay]_<<log, rows>>
<1> SUFFICES ASSUME SyncInv, [SyncNext]_syncVars
             PROVE  [Replicated!Write \/ Replicated!Replay]_<<log, rows>>
  OBVIOUS
<1>1. CASE Run \/ TakeReplay
  BY <1>1 DEF Run, TakeReplay, Replicated!Write
<1>2. ASSUME NEW p \in Followers, Store(p)
      PROVE [Replicated!Replay]_<<log, rows>>
  <2>1. hand[p] # NoEvent /\ UNCHANGED log
    BY <1>2 DEF Store
  <2>2. CASE hand[p] # next
    BY <2>1, <2>2, <1>2, StoreIsNext DEF Store
  <2>3. CASE hand[p] = next
    BY <2>1, <2>3, <1>2, StoreIsNext DEF Store, Replicated!Replay, SyncInv, RowsArePrefix
  <2> QED BY <2>2, <2>3
<1>3. ASSUME NEW p \in Followers,
             \/ ConnectSSE(p) \/ Ask(p) \/ Serve(p) \/ GoLive(p)
             \/ Ignore(p) \/ Refuse(p) \/ Accept(p) \/ Drop(p)
      PROVE UNCHANGED <<log, rows>>
  BY <1>3 DEF ConnectSSE, Ask, Serve, GoLive, Ignore, Refuse, Accept, Drop
<1>4. CASE UNCHANGED syncVars
  BY <1>4 DEF syncVars
<1> QED BY <1>1, <1>2, <1>3, <1>4 DEF SyncNext, LoopStep

(* What the database has is a prefix of what the server has, every event    *)
(* once and in order: the loops of any number of processes, however they    *)
(* interleave, fail and reconnect, implement the replicated log.            *)
THEOREM Refinement == SyncSpec => Implements
<1>1. SyncSpec => []SyncInv
  BY SyncInvariance
<1> QED BY <1>1, InitRefines, StepRefines, PTL DEF SyncSpec, Implements, Replicated!ReplicatedSpec
============================================================================
