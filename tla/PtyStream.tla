------------------------------ MODULE PtyStream ------------------------------
(***************************************************************************)
(* The output of pseudo-terminals (pty/index.ts), the connections that     *)
(* carry it (server/routes/instance/pty.ts) and the terminals that show it *)
(* (packages/app/src/components/terminal.tsx), one terminal for each pty.  *)
(* A terminal connects again where it left off when its connection breaks. *)
(* Output is a sequence of positions.  The server's websocket objects are  *)
(* recycled: an object that belonged to a connection may belong to another *)
(* one before its first owner's close is heard of, as                      *)
(* test/pty/pty-output-isolation.test.ts has it.  Input, resizing and      *)
(* titles are left out.                                                    *)
(***************************************************************************)
EXTENDS Integers, Sequences

CONSTANTS
  Ptys,
  Objects,   \* websocket objects of the server
  None,
  Limit,     \* BUFFER_LIMIT
  Chunk,     \* BUFFER_CHUNK
  MaxOut,    \* bound on the output of each pty
  MaxConns   \* bound on the connections; the last one does not break

ASSUME LimitAssumption == Limit \in Nat \ {0}
ASSUME ChunkAssumption == Chunk \in Nat \ {0}
ASSUME NoneAssumption == None \notin Ptys /\ None \notin 1..MaxConns
ASSUME BoundsAssumption == MaxOut \in [Ptys -> Nat] /\ MaxConns \in Nat

Conns == 1..MaxConns

VARIABLES
  alive,         \* the ptys whose session exists
  cursor,        \* of each session: how much it has put out
  bufferCursor,  \* and how much of that its buffer has forgotten
  subscribers,   \* of each session: from a connection's data to its object
  data, ready,   \* of each object: the connection it belongs to, readyState = 1
  of, ask,       \* of each connection: its pty, and the cursor it asks for
  link,          \* "new", "dialing", "open", "broken" or "closed"
  wire,          \* what is on its way to the terminal
  client,        \* of each terminal
  conn, seek, shown

serverVars == <<alive, cursor, bufferCursor, subscribers, data, ready>>
linkVars   == <<of, ask, link, wire>>
clientVars == <<client, conn, seek, shown>>
vars == <<serverVars, linkVars, clientVars>>

TypeOK ==
  /\ alive \subseteq Ptys
  /\ \A p \in Ptys : /\ cursor[p] \in 0..MaxOut[p] /\ bufferCursor[p] \in 0..cursor[p]
                     /\ cursor[p] - bufferCursor[p] <= Limit
  /\ \A p \in Ptys : subscribers[p] \subseteq Conns \X Objects
  /\ data \in [Objects -> Conns \cup {None}] /\ ready \in [Objects -> BOOLEAN]
  /\ of \in [Conns -> Ptys \cup {None}] /\ ask \in [Conns -> Nat]
  /\ link \in [Conns -> {"new", "dialing", "open", "broken", "closed"}]
  /\ wire \in [Conns -> Seq([pty : Ptys, kind : {"data", "meta", "close"}, from : Nat, to : Nat])]
  /\ client \in [Ptys -> {"dialing", "connected", "retrying", "failed", "ended", "unmounted"}]
  /\ conn \in [Ptys -> Conns \cup {None}]
  /\ \A p \in Ptys : seek[p] \in 0..cursor[p] /\ shown[p] \in Seq(1..cursor[p])

Init ==
  /\ alive = Ptys
  /\ cursor = [p \in Ptys |-> 0] /\ bufferCursor = cursor
  /\ subscribers = [p \in Ptys |-> {}]
  /\ data = [w \in Objects |-> None] /\ ready = [w \in Objects |-> FALSE]
  /\ of = [k \in Conns |-> None] /\ ask = [k \in Conns |-> 0]
  /\ link = [k \in Conns |-> "new"] /\ wire = [k \in Conns |-> <<>>]
  /\ client = [p \in Ptys |-> "unmounted"] /\ conn = [p \in Ptys |-> None]
  /\ seek = [p \in Ptys |-> 0] /\ shown = [p \in Ptys |-> <<>>]

----------------------------------------------------------------------------
(* The server. *)

Frame(p, kind, from, to) == [pty |-> p, kind |-> kind, from |-> from, to |-> to]

(* A frame is sent on the connection its object belongs to, and lost if     *)
(* that connection is broken.                                               *)
Send(socks, frames) ==
  [k \in Conns |->
     IF link[k] = "open" /\ \E w \in socks : data[w] = k THEN wire[k] \o frames ELSE wire[k]]

(* Mutant: a subscriber is not asked whose object it holds. *)
HoldsOpen(s) == ready[s[2]]

Holds(s) == ready[s[2]] /\ data[s[2]] = s[1]

Forgets(p, end) == IF end - bufferCursor[p] > Limit THEN end - Limit ELSE bufferCursor[p]

(* onData: what is put out goes to the subscribers and into the buffer. *)
Output(p) ==
  /\ p \in alive
  /\ \E n \in 1..(MaxOut[p] - cursor[p]) :
       LET held == {s \in subscribers[p] : Holds(s)}
           end == cursor[p] + n
       IN /\ cursor' = [cursor EXCEPT ![p] = end]
          /\ wire' = Send({s[2] : s \in held}, <<Frame(p, "data", cursor[p], end)>>)
          /\ subscribers' = [subscribers EXCEPT ![p] = held]
          /\ bufferCursor' = [bufferCursor EXCEPT ![p] = Forgets(p, end)]
  /\ UNCHANGED <<alive, data, ready, of, ask, link, clientVars>>

(* What a connection that asks for `from` is sent, in pieces. *)
Replay(p, from) ==
  LET start == IF from > bufferCursor[p] THEN from ELSE bufferCursor[p]
      n == IF start < cursor[p] THEN (cursor[p] - start + Chunk - 1) \div Chunk ELSE 0
      upto(i) == IF start + i * Chunk < cursor[p] THEN start + i * Chunk ELSE cursor[p]
  IN [i \in 1..n |-> Frame(p, "data", start + (i - 1) * Chunk, upto(i))]

(* Mutant: the terminal is taken to have seen what it asks for. *)
ReplayPast(p, from) == Replay(p, from + 1)

ReplayFrom(p, from) == Replay(p, from)

(* connect: with an object that no open connection has. *)
Accept(k) ==
  LET p == of[k] IN
  /\ link[k] = "dialing" /\ p \in alive
  /\ \E w \in Objects :
       /\ ~ready[w]
       /\ data' = [data EXCEPT ![w] = k]
       /\ ready' = [ready EXCEPT ![w] = TRUE]
       /\ subscribers' = [subscribers EXCEPT ![p] = @ \cup {<<k, w>>}]
  /\ link' = [link EXCEPT ![k] = "open"]
  /\ wire' = [wire EXCEPT ![k] =
       ReplayFrom(p, ask[k]) \o <<Frame(p, "meta", cursor[p], cursor[p])>>]
  /\ UNCHANGED <<alive, cursor, bufferCursor, of, ask, clientVars>>

(* The session is gone. *)
Refuse(k) ==
  /\ link[k] = "dialing" /\ of[k] \notin alive
  /\ link' = [link EXCEPT ![k] = "broken"]
  /\ UNCHANGED <<serverVars, of, ask, wire, clientVars>>

(* The object's connection has ended, and later its handler is told. *)
ObjectCloses(w) ==
  /\ ready[w] /\ link[data[w]] \in {"broken", "closed"}
  /\ ready' = [ready EXCEPT ![w] = FALSE]
  /\ UNCHANGED <<alive, cursor, bufferCursor, subscribers, data, linkVars, clientVars>>

OnClose(p, s) ==
  /\ s \in subscribers[p]
  /\ link[s[1]] \in {"broken", "closed"} /\ ~Holds(s)
  /\ subscribers' = [subscribers EXCEPT ![p] = @ \ {s}]
  /\ UNCHANGED <<alive, cursor, bufferCursor, data, ready, linkVars, clientVars>>

(* remove, on request or after the exit, with teardown. *)
Remove(p) ==
  /\ p \in alive
  /\ alive' = alive \ {p}
  /\ LET held == {s \in subscribers[p] : data[s[2]] = s[1]} IN
     wire' = Send({s[2] : s \in held}, <<Frame(p, "close", 0, 0)>>)
  /\ subscribers' = [subscribers EXCEPT ![p] = {}]
  /\ UNCHANGED <<cursor, bufferCursor, data, ready, of, ask, link, clientVars>>

----------------------------------------------------------------------------
(* The terminals and the network. *)

Open(p) ==
  \E k \in Conns :
    /\ link[k] = "new" /\ \A j \in Conns : j < k => link[j] # "new"
    /\ link' = [link EXCEPT ![k] = "dialing"]
    /\ of' = [of EXCEPT ![k] = p]
    /\ ask' = [ask EXCEPT ![k] = seek[p]]
    /\ conn' = [conn EXCEPT ![p] = k]
    /\ client' = [client EXCEPT ![p] = "dialing"]
    /\ UNCHANGED <<serverVars, wire, seek, shown>>

Mount(p) == client[p] = "unmounted" /\ Open(p)

(* The delay is over: the session is asked for first. *)
Retry(p) ==
  /\ client[p] = "retrying"
  /\ \/ p \in alive /\ Open(p)
     \/ /\ p \notin alive
        /\ client' = [client EXCEPT ![p] = "failed"]
        /\ UNCHANGED <<serverVars, linkVars, conn, seek, shown>>

Seek(p, f) == IF f.kind = "meta" THEN f.to ELSE seek[p] + (f.to - f.from)

Receive(k) ==
  LET p == of[k]  f == Head(wire[k]) IN
  /\ link[k] = "open" /\ wire[k] # <<>> /\ conn[p] = k
  /\ f.kind # "close"
  /\ wire' = [wire EXCEPT ![k] = Tail(@)]
  /\ client' = [client EXCEPT ![p] = "connected"]
  /\ seek' = [seek EXCEPT ![p] = Seek(p, f)]
  /\ shown' = IF f.kind = "meta" THEN shown
              ELSE [shown EXCEPT ![p] = @ \o [i \in 1..(f.to - f.from) |-> f.from + i]]
  /\ UNCHANGED <<serverVars, of, ask, link, conn>>

(* Mutant: a connection that breaks is the last. *)
LostForGood(p) == client' = [client EXCEPT ![p] = "failed"] /\ conn' = [conn EXCEPT ![p] = None]

(* The close event of a connection that did not end normally. *)
Lost(p) == client' = [client EXCEPT ![p] = "retrying"] /\ conn' = [conn EXCEPT ![p] = None]

(* The code of a close() without one is the library's: 1000, which ends the *)
(* terminal quietly, or none, which makes it try again.                     *)
ReceiveClose(k) ==
  /\ link[k] = "open" /\ wire[k] # <<>> /\ Head(wire[k]).kind = "close"
  /\ link' = [link EXCEPT ![k] = "closed"]
  /\ wire' = [wire EXCEPT ![k] = <<>>]
  /\ \/ Lost(of[k])
     \/ /\ client' = [client EXCEPT ![of[k]] = "ended"]
        /\ conn' = [conn EXCEPT ![of[k]] = None]
  /\ UNCHANGED <<serverVars, of, ask, seek, shown>>

(* The connection breaks, with what is under way. *)
Break(k) ==
  /\ link[k] \in {"dialing", "open"} /\ k < MaxConns
  /\ link' = [link EXCEPT ![k] = "broken"]
  /\ wire' = [wire EXCEPT ![k] = <<>>]
  /\ UNCHANGED <<serverVars, of, ask, clientVars>>

NoticeBreak(p) ==
  /\ conn[p] # None /\ link[conn[p]] = "broken"
  /\ Lost(p)
  /\ UNCHANGED <<serverVars, linkVars, seek, shown>>

(* The component goes: the cursor and what is shown are kept for the next.  *)
Unmount(p) ==
  /\ client[p] \in {"dialing", "connected", "retrying"}
  /\ \E k \in Conns : link[k] = "new"   \* the bound: it may come back
  /\ client' = [client EXCEPT ![p] = "unmounted"]
  /\ conn' = [conn EXCEPT ![p] = None]
  /\ IF conn[p] = None THEN UNCHANGED <<link, wire>>
     ELSE /\ link' = [link EXCEPT ![conn[p]] = "closed"]
          /\ wire' = [wire EXCEPT ![conn[p]] = <<>>]
  /\ UNCHANGED <<serverVars, of, ask, seek, shown>>

Next ==
  \/ \E p \in Ptys :
       \/ Output(p) \/ Remove(p) \/ \E s \in subscribers[p] : OnClose(p, s)
       \/ Mount(p) \/ Retry(p) \/ NoticeBreak(p) \/ Unmount(p)
  \/ \E k \in Conns : Accept(k) \/ Refuse(k) \/ Receive(k) \/ ReceiveClose(k) \/ Break(k)
  \/ \E w \in Objects : ObjectCloses(w)

Spec == Init /\ [][Next]_vars

(* Timers fire, requests and frames arrive, and components are mounted.     *)
Fairness ==
  /\ \A p \in Ptys : WF_vars(Mount(p)) /\ WF_vars(Retry(p)) /\ WF_vars(NoticeBreak(p))
  /\ \A k \in Conns : /\ WF_vars(Accept(k)) /\ WF_vars(Refuse(k))
                      /\ WF_vars(Receive(k)) /\ WF_vars(ReceiveClose(k))
  /\ \A w \in Objects : WF_vars(ObjectCloses(w))

FairSpec == Spec /\ Fairness

----------------------------------------------------------------------------
(* Output of a pty, and the end of it, only travel on connections to that   *)
(* pty, whoever the websocket objects belonged to before                    *)
(* (test/pty/pty-output-isolation.test.ts:10, 60).                          *)
OutputIsolated == \A k \in Conns : \A i \in DOMAIN wire[k] : wire[k][i].pty = of[k]

(* However connections break, a terminal shows nothing twice and nothing    *)
(* out of order, as long as the buffer holds what it has missed             *)
(* (components/terminal.tsx:514, 544, 556).                                 *)
ShownInOrder ==
  \A p \in Ptys : bufferCursor[p] = 0 =>
    \A i, j \in DOMAIN shown[p] : i < j => shown[p][i] < shown[p][j]

(* What a terminal has passed over, the buffer had forgotten                *)
(* (pty/index.ts:258-262, 333).                                             *)
OnlyForgottenIsSkipped ==
  \A p \in Ptys : \A i \in DOMAIN shown[p] :
    \A n \in 1..shown[p][i] :
      n <= bufferCursor[p] \/ \E j \in DOMAIN shown[p] : shown[p][j] = n

(* A terminal shows what a single connection to an endless buffer would     *)
(* have shown, but for what the buffer has forgotten.                       *)
ShownFaithfully == ShownInOrder /\ OnlyForgottenIsSkipped

(* Once the connections hold, a terminal has shown the last of the output,  *)
(* or has found that its session is gone, unless the bound on connections   *)
(* leaves it none.                                                          *)
CatchesUp ==
  \A p \in Ptys :
    <>[](\/ conn[p] = None /\ \A k \in Conns : link[k] # "new"
         \/ IF p \in alive
            THEN cursor[p] # 0 => shown[p] # <<>> /\ shown[p][Len(shown[p])] = cursor[p]
            ELSE client[p] \in {"failed", "ended"})
=============================================================================
