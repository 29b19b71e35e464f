------------------------------ MODULE RemoteWS ------------------------------
(***************************************************************************)
(* The connection that relays a session (kilo-sessions/remote-ws.ts): a    *)
(* loop that gets a token, opens a socket and, when it breaks, waits and   *)
(* tries again; a heartbeat, a watchdog for a silent peer, and a buffer of *)
(* bounded length for what is sent while there is no socket.  Messages are *)
(* numbered in the order in which they are handed to send.                 *)
(***************************************************************************)
EXTENDS Integers, Sequences

CONSTANTS
  Relays,        \* the connections that are ever made
  BufferSize,    \* 200 in the code
  MaxSends,      \* bound: messages of a connection
  MaxBreaks      \* bound: failures, of all connections together

ASSUME SizeAssumption == BufferSize \in Nat \ {0} /\ MaxSends \in Nat /\ MaxBreaks \in Nat

VARIABLES
  st,         \* where the loop is, and the socket's readyState
  closed,
  beating,    \* the heartbeat's timer runs
  watching,   \* the watchdog's timer runs
  peer,       \* the other end of the open socket is there
  buffer,
  count,      \* messages that were handed to send
  got,        \* messages that the server has
  breaks

wsVars == <<st, closed, beating, watching, peer, buffer, count, got, breaks>>

Places == {"new", "token", "connecting", "open", "closing", "timer", "ended", "refused"}

(* Timers only run with their socket, and the buffer is bounded. *)
WsTypeOK ==
  /\ st \in [Relays -> Places] /\ closed \in [Relays -> BOOLEAN]
  /\ beating \in [Relays -> BOOLEAN] /\ watching \in [Relays -> BOOLEAN]
  /\ peer \in [Relays -> BOOLEAN] /\ breaks \in 0..MaxBreaks
  /\ count \in [Relays -> 0..MaxSends]
  /\ buffer \in [Relays -> Seq(1..MaxSends)] /\ got \in [Relays -> Seq(1..MaxSends)]
  /\ \A c \in Relays : /\ Len(buffer[c]) <= BufferSize
                       /\ st[c] = "open" => buffer[c] = <<>>
                       /\ beating[c] \/ watching[c] => st[c] \in {"open", "closing"}

WsInit ==
  /\ st = [c \in Relays |-> "new"] /\ breaks = 0
  /\ closed = [c \in Relays |-> FALSE] /\ peer = [c \in Relays |-> FALSE]
  /\ beating = [c \in Relays |-> FALSE] /\ watching = [c \in Relays |-> FALSE]
  /\ buffer = [c \in Relays |-> <<>>] /\ got = [c \in Relays |-> <<>>]
  /\ count = [c \in Relays |-> 0]

Failure == breaks < MaxBreaks /\ breaks' = breaks + 1

StopTimers(c) == /\ beating' = [beating EXCEPT ![c] = FALSE]
                 /\ watching' = [watching EXCEPT ![c] = FALSE]

----------------------------------------------------------------------------
(* connect, which runs open up to getToken; shut if it is closed at once. *)
Connect(c, shut) ==
  /\ st[c] = "new"
  /\ st' = [st EXCEPT ![c] = "token"] /\ closed' = [closed EXCEPT ![c] = shut]
  /\ UNCHANGED <<beating, watching, peer, buffer, count, got, breaks>>

(* open goes on without a token and schedules, unless closed. *)
NoToken(c) ==
  /\ st[c] = "token" /\ Failure
  /\ st' = [st EXCEPT ![c] = IF closed[c] THEN "ended" ELSE "timer"]
  /\ UNCHANGED <<closed, beating, watching, peer, buffer, count, got>>

(* open goes on with a token; closed is not looked at again. *)
GotToken(c) ==
  /\ st[c] = "token"
  /\ st' = [st EXCEPT ![c] = "connecting"]
  /\ UNCHANGED <<closed, beating, watching, peer, buffer, count, got, breaks>>

(* Mutants: the buffer goes out in the wrong order; is not sent at all. *)
OpenedReversed(c) ==
  /\ st[c] = "connecting"
  /\ st' = [st EXCEPT ![c] = "open"] /\ peer' = [peer EXCEPT ![c] = TRUE]
  /\ got' = [got EXCEPT ![c] = @ \o [i \in 1..Len(buffer[c]) |-> buffer[c][Len(buffer[c]) + 1 - i]]]
  /\ buffer' = [buffer EXCEPT ![c] = <<>>]
  /\ beating' = [beating EXCEPT ![c] = TRUE] /\ watching' = [watching EXCEPT ![c] = TRUE]
  /\ UNCHANGED <<closed, count, breaks>>

OpenedClears(c) ==
  /\ st[c] = "connecting"
  /\ st' = [st EXCEPT ![c] = "open"] /\ peer' = [peer EXCEPT ![c] = TRUE]
  /\ buffer' = [buffer EXCEPT ![c] = <<>>]
  /\ beating' = [beating EXCEPT ![c] = TRUE] /\ watching' = [watching EXCEPT ![c] = TRUE]
  /\ UNCHANGED <<closed, count, got, breaks>>

(* onopen *)
Opened(c) ==
  /\ st[c] = "connecting"
  /\ st' = [st EXCEPT ![c] = "open"] /\ peer' = [peer EXCEPT ![c] = TRUE]
  /\ got' = [got EXCEPT ![c] = @ \o buffer[c]]
  /\ buffer' = [buffer EXCEPT ![c] = <<>>]
  /\ beating' = [beating EXCEPT ![c] = TRUE] /\ watching' = [watching EXCEPT ![c] = TRUE]
  /\ UNCHANGED <<closed, count, breaks>>

(* The socket's end is noticed: it was closing, or it breaks. *)
SocketEnds(c) == \/ st[c] = "closing" /\ UNCHANGED breaks
                 \/ (st[c] = "connecting" \/ (st[c] = "open" /\ peer[c])) /\ Failure

(* onclose, with any code but the permanent ones *)
Disconnected(c) ==
  /\ SocketEnds(c) /\ StopTimers(c)
  /\ st' = [st EXCEPT ![c] = IF closed[c] THEN "ended" ELSE "timer"]
  /\ UNCHANGED <<closed, peer, buffer, count, got>>

(* onclose with 4401, 4403 or 4409, by the server: onClose is told, unless  *)
(* the connection is closed.                                                *)
Refused(c) ==
  /\ st[c] = "open" /\ peer[c] /\ Failure /\ StopTimers(c)
  /\ st' = [st EXCEPT ![c] = IF closed[c] THEN "ended" ELSE "refused"]
  /\ UNCHANGED <<closed, peer, buffer, count, got>>

(* The timer of schedule runs open again. *)
Timer(c) ==
  /\ st[c] = "timer"
  /\ st' = [st EXCEPT ![c] = "token"]
  /\ UNCHANGED <<closed, beating, watching, peer, buffer, count, got, breaks>>

(* The other end goes away without a word. *)
PeerLost(c) ==
  /\ st[c] = "open" /\ peer[c] /\ Failure
  /\ peer' = [peer EXCEPT ![c] = FALSE]
  /\ UNCHANGED <<st, closed, beating, watching, buffer, count, got>>

(* The watchdog: no message within the timeout. *)
Silence(c) ==
  /\ watching[c] /\ st[c] = "open"
  /\ IF peer[c] THEN Failure ELSE UNCHANGED breaks
  /\ watching' = [watching EXCEPT ![c] = FALSE]
  /\ st' = [st EXCEPT ![c] = "closing"]
  /\ UNCHANGED <<closed, beating, peer, buffer, count, got>>

(* send, of a heartbeat or an event: without an open socket it is buffered  *)
(* and the oldest gives way.                                                *)
SendMessage(c) ==
  /\ st[c] # "new" /\ count[c] < MaxSends
  /\ count' = [count EXCEPT ![c] = @ + 1]
  /\ IF st[c] = "open"
       THEN /\ got' = [got EXCEPT ![c] = IF peer[c] THEN Append(@, count[c] + 1) ELSE @]
            /\ UNCHANGED buffer
       ELSE /\ buffer' = [buffer EXCEPT ![c] =
                 Append(IF Len(@) = BufferSize THEN Tail(@) ELSE @, count[c] + 1)]
            /\ UNCHANGED got
  /\ UNCHANGED <<st, closed, beating, watching, peer, breaks>>

(* What close does to the loop: a timer is cleared, a socket is told.  A    *)
(* token that is under way still comes.                                     *)
Shut(places, c) ==
  [places EXCEPT ![c] = IF @ = "timer" THEN "ended"
                        ELSE IF @ \in {"connecting", "open"} THEN "closing" ELSE @]

Close(c) ==
  /\ st[c] # "new" /\ ~ closed[c]
  /\ closed' = [closed EXCEPT ![c] = TRUE]
  /\ st' = Shut(st, c) /\ StopTimers(c)
  /\ UNCHANGED <<peer, buffer, count, got, breaks>>

(* What the connection and its server do of their own accord. *)
SocketStep(c) ==
  \/ NoToken(c) \/ GotToken(c) \/ Opened(c) \/ Disconnected(c)
  \/ Timer(c) \/ PeerLost(c) \/ Silence(c)

----------------------------------------------------------------------------
(* Properties *)

(* The server has the messages in the order of send, none twice, whatever   *)
(* was buffered, dropped and lost in between.                               *)
InOrder ==
  \A c \in Relays : \A i, j \in 1..Len(got[c]) : i < j => got[c][i] < got[c][j]

(* Without a socket it is the newest messages that are kept, without gaps.  *)
NewestKept ==
  \A c \in Relays :
    st[c] # "open" => \A i \in 1..Len(buffer[c]) :
                        buffer[c][i] = count[c] - Len(buffer[c]) + i

(* No message overtakes another or comes twice, and only older ones are     *)
(* given up for newer ones.                                                 *)
OrderKept == InOrder /\ NewestKept

(* What is buffered reaches the server, unless newer messages push it out   *)
(* or the connection is over.                                               *)
InBuffer(c, n) == \E i \in 1..Len(buffer[c]) : buffer[c][i] = n
Arrived(c, n) == \E i \in 1..Len(got[c]) : got[c][i] = n

BufferedArrives ==
  \A c \in Relays : \A n \in 1..MaxSends :
    InBuffer(c, n) ~> \/ Arrived(c, n) \/ count[c] >= n + BufferSize
                      \/ closed[c] \/ st[c] = "refused"

============================================================================
