--------------------------- MODULE WorkspaceSync ---------------------------
(***************************************************************************)
(* Replaying a remote workspace's session (control-plane/workspace.ts and  *)
(* sync/index.ts).  A process connects to the stream of the server's sync  *)
(* events, asks for the history it lacks, replays it and then whatever the *)
(* stream has.  Processes of the device share its database and run the     *)
(* same loop; a replay reads the sequence number and then writes in a      *)
(* transaction.  One session; its events are their sequence numbers.       *)
(***************************************************************************)
EXTENDS Integers, Sequences

CONSTANTS
  Followers,     \* the processes of the device
  MaxEvents,     \* bound: events of the session
  MaxDrops       \* bound: connections lost and processes killed

ASSUME BoundsAssumption == MaxEvents \in Nat /\ MaxDrops \in Nat

VARIABLES
  log,       \* the server's events so far
  rows,      \* EventTable: the events, in the order of their insertion
  next,      \* EventSequenceTable: the session's seq + 1, or 0 without a row
  at,        \* where each process is in syncWorkspaceLoop
  stream,    \* what it has not read of the stream
  batch,     \* what it has not replayed of the history
  known,     \* the state it posted
  hand,      \* the event that replay has found to be the expected one
  drops,
  restored   \* history: the server was handed an event by /sync/replay

syncVars == <<log, rows, next, at, stream, batch, known, hand, drops, restored>>

NoEvent == -1
Event == 0..(MaxEvents - 1)

(* The two tables agree. *)
SyncTypeOK ==
  /\ log \in 0..MaxEvents /\ next \in 0..MaxEvents
  /\ rows \in Seq(Event) /\ Len(rows) = next
  /\ at \in [Followers -> {"off", "connected", "asked", "history", "live"}]
  /\ stream \in [Followers -> Seq(Event)] /\ batch \in [Followers -> Seq(Event)]
  /\ known \in [Followers -> 0..MaxEvents]
  /\ hand \in [Followers -> Event \cup {NoEvent}]
  /\ drops \in 0..MaxDrops
  /\ restored \in BOOLEAN

SyncInit ==
  /\ log = 0 /\ rows = <<>> /\ next = 0 /\ drops = 0 /\ restored = FALSE
  /\ at = [p \in Followers |-> "off"]
  /\ stream = [p \in Followers |-> <<>>] /\ batch = [p \in Followers |-> <<>>]
  /\ known = [p \in Followers |-> 0]
  /\ hand = [p \in Followers |-> NoEvent]

----------------------------------------------------------------------------
(* The server *)

(* SyncEvent.run: the event is stored and published in one go. *)
Run ==
  /\ log < MaxEvents
  /\ log' = log + 1
  /\ stream' = [p \in Followers |-> IF at[p] = "off" THEN stream[p] ELSE Append(stream[p], log)]
  /\ UNCHANGED <<rows, next, at, batch, known, hand, drops, restored>>

(* POST /sync/replay: another device hands the server events of the session *)
(* (a restore); they are stored and not published.                          *)
TakeReplay ==
  /\ log < MaxEvents
  /\ log' = log + 1
  /\ restored' = TRUE
  /\ UNCHANGED <<rows, next, at, stream, batch, known, hand, drops>>

(* POST /sync/history *)
Serve(p) ==
  /\ at[p] = "asked"
  /\ at' = [at EXCEPT ![p] = "history"]
  /\ batch' = [batch EXCEPT ![p] = [i \in 1..(log - known[p]) |-> known[p] + i - 1]]
  /\ UNCHANGED <<log, rows, next, stream, known, hand, drops, restored>>

----------------------------------------------------------------------------
(* syncWorkspaceLoop *)

(* Mutant: once lost, the connection is not made again. *)
ConnectOnce(p) ==
  /\ at[p] = "off" /\ drops = 0
  /\ at' = [at EXCEPT ![p] = "connected"]
  /\ stream' = [stream EXCEPT ![p] = <<>>]
  /\ UNCHANGED <<log, rows, next, batch, known, hand, drops, restored>>

ConnectSSE(p) ==
  /\ at[p] = "off"
  /\ at' = [at EXCEPT ![p] = "connected"]
  /\ stream' = [stream EXCEPT ![p] = <<>>]
  /\ UNCHANGED <<log, rows, next, batch, known, hand, drops, restored>>

(* syncHistory reads the sequence number and posts it. *)
Ask(p) ==
  /\ at[p] = "connected"
  /\ at' = [at EXCEPT ![p] = "asked"]
  /\ known' = [known EXCEPT ![p] = next]
  /\ UNCHANGED <<log, rows, next, stream, batch, hand, drops, restored>>

GoLive(p) ==
  /\ at[p] = "history" /\ batch[p] = <<>> /\ hand[p] = NoEvent
  /\ at' = [at EXCEPT ![p] = "live"]
  /\ UNCHANGED <<log, rows, next, stream, batch, known, hand, drops, restored>>

(* What replay gets next: the history first, then the stream. *)
Incoming(p) == IF at[p] = "history" THEN batch[p]
               ELSE IF at[p] = "live" THEN stream[p] ELSE <<>>

Consume(p) == IF at[p] = "history"
                THEN batch' = [batch EXCEPT ![p] = Tail(@)] /\ UNCHANGED stream
                ELSE stream' = [stream EXCEPT ![p] = Tail(@)] /\ UNCHANGED batch

(* replay throws: the history is given up and the loop starts over, an      *)
(* event of the stream is logged and lost.                                  *)
Throws(p) == at' = IF at[p] = "history" THEN [at EXCEPT ![p] = "off"] ELSE at

Due(p) == hand[p] = NoEvent /\ Incoming(p) # <<>>

(* replay, an event that is known already. *)
Ignore(p) ==
  /\ Due(p) /\ Head(Incoming(p)) < next
  /\ Consume(p)
  /\ UNCHANGED <<log, rows, next, at, known, hand, drops, restored>>

(* replay, "Sequence mismatch". *)
Refuse(p) ==
  /\ Due(p) /\ Head(Incoming(p)) > next
  /\ Consume(p) /\ Throws(p)
  /\ UNCHANGED <<log, rows, next, known, hand, drops, restored>>

(* replay, the event that is expected. *)
Accept(p) ==
  /\ Due(p) /\ Head(Incoming(p)) = next
  /\ hand' = [hand EXCEPT ![p] = next]
  /\ Consume(p)
  /\ UNCHANGED <<log, rows, next, at, known, drops, restored>>

Stored(e) == \E i \in 1..Len(rows) : rows[i] = e

(* Mutant: an event that is there already is stored again. *)
StoreTwice(p) ==
  /\ hand[p] # NoEvent
  /\ hand' = [hand EXCEPT ![p] = NoEvent]
  /\ rows' = Append(rows, hand[p]) /\ next' = next + 1 /\ UNCHANGED at
  /\ UNCHANGED <<log, stream, batch, known, drops, restored>>

(* process: a transaction with the projector, the sequence number and the   *)
(* event, whose id is the primary key: a duplicate rolls everything back.   *)
Store(p) ==
  /\ hand[p] # NoEvent
  /\ hand' = [hand EXCEPT ![p] = NoEvent]
  /\ IF Stored(hand[p])
       THEN Throws(p) /\ UNCHANGED <<rows, next>>
       ELSE rows' = Append(rows, hand[p]) /\ next' = hand[p] + 1 /\ UNCHANGED at
  /\ UNCHANGED <<log, stream, batch, known, drops, restored>>

(* The connection breaks, a request fails, or the process is killed and     *)
(* started again.                                                           *)
Drop(p) ==
  /\ at[p] # "off" /\ drops < MaxDrops
  /\ drops' = drops + 1
  /\ at' = [at EXCEPT ![p] = "off"]
  /\ hand' = [hand EXCEPT ![p] = NoEvent]
  /\ batch' = [batch EXCEPT ![p] = <<>>] /\ stream' = [stream EXCEPT ![p] = <<>>]
  /\ UNCHANGED <<log, rows, next, known, restored>>

LoopStep(p) ==
  \/ ConnectSSE(p) \/ Ask(p) \/ Serve(p) \/ GoLive(p)
  \/ Ignore(p) \/ Refuse(p) \/ Accept(p) \/ Store(p)

SyncNext == Run \/ TakeReplay \/ \E p \in Followers : LoopStep(p) \/ Drop(p)

SyncSpec == SyncInit /\ [][SyncNext]_syncVars

(* The loop goes on and requests are answered.  The server need not write,  *)
(* connections need not break.                                              *)
FairSyncSpec == SyncSpec /\ \A p \in Followers : WF_syncVars(LoopStep(p))

----------------------------------------------------------------------------
(* Properties *)

(* What the database has is what the server has written, in order and each  *)
(* event once, however many processes replay, crash and reconnect.          *)
Replicated == INSTANCE ReplicatedLog
Implements == Replicated!ReplicatedSpec

(* Every event the server has is replayed ("allow multiple other devices to *)
(* sync session data"), with the same exception: after an event that was    *)
(* not published, a connected device refuses whatever follows.              *)
CatchesUp == \A e \in Event : (log > e) ~> (Stored(e) \/ restored)
============================================================================
