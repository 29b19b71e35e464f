------------------------- MODULE ConnectionsProofs --------------------------
(***************************************************************************)
(* Proofs about the connections that break and come back: those that carry *)
(* the output of ptys (PtyStream), for any ptys, websocket objects and     *)
(* connections and any sizes of the buffer and of the pieces of a replay,  *)
(* and those that relay a session (RemoteControl), for any number of       *)
(* attempts, messages and failures.                                        *)
(***************************************************************************)
EXTENDS PtyStream, RemoteControl, TLAPS

Frames == [pty : Ptys, kind : {"data", "meta", "close"}, from : Int, to : Int]

(* Whatever is on its way has its type. *)
Types ==
  /\ alive \subseteq Ptys
  /\ cursor \in [Ptys -> Int] /\ bufferCursor \in [Ptys -> Int]
  /\ ask \in [Conns -> Int] /\ seek \in [Ptys -> Int]
  /\ subscribers \in [Ptys -> SUBSET (Conns \X Objects)]
  /\ data \in [Objects -> Conns \cup {None}]
  /\ of \in [Conns -> Ptys \cup {None}]
  /\ link \in [Conns -> {"new", "dialing", "open", "broken", "closed"}]
  /\ wire \in [Conns -> Seq(Frames)]
  /\ conn \in [Ptys -> Conns \cup {None}]

(* A connection has its pty from the first, and its subscription is one to  *)
(* that pty.                                                                *)
OfOne ==
  /\ \A k \in Conns : /\ link[k] = "new" <=> of[k] = None
                      /\ link[k] \in {"new", "dialing"} => wire[k] = <<>>
  /\ \A p \in Ptys : /\ conn[p] # None => link[conn[p]] # "new"
                     /\ \A s \in subscribers[p] : of[s[1]] = p

IInv == Types /\ OfOne /\ OutputIsolated

LEMMA InitInv == Init => IInv
  BY NoneAssumption, BoundsAssumption
  DEF Init, IInv, Types, OfOne, OutputIsolated, Conns

(* Frames of a pty after frames of the same. *)
LEMMA AppendKeeps ==
  ASSUME NEW p \in Ptys,
         NEW s \in Seq(Frames), \A i \in DOMAIN s : s[i].pty = p,
         NEW t \in Seq(Frames), \A i \in DOMAIN t : t[i].pty = p
  PROVE  s \o t \in Seq(Frames) /\ \A i \in DOMAIN (s \o t) : (s \o t)[i].pty = p
<1>1. s \o t \in Seq(Frames)
  OBVIOUS
<1>2. ASSUME NEW i \in DOMAIN (s \o t) PROVE (s \o t)[i].pty = p
  <2>1. i \in 1..(Len(s) + Len(t))
    BY <1>1
  <2>2. (s \o t)[i] = IF i <= Len(s) THEN s[i] ELSE t[i - Len(s)]
    BY <2>1
  <2>3. i <= Len(s) => i \in DOMAIN s
    BY <2>1
  <2>4. ~ (i <= Len(s)) => i - Len(s) \in DOMAIN t
    BY <2>1
  <2> QED BY <2>2, <2>3, <2>4
<1> QED BY <1>1, <1>2

(* A frame is put behind what is on its way to terminals of its pty.        *)
LEMMA SendReaches ==
  ASSUME IInv, NEW p \in Ptys, NEW f \in Frames,
         NEW held \in SUBSET subscribers[p], \A s \in held : data[s[2]] = s[1],
         wire' = Send({s[2] : s \in held}, <<f>>), NEW k \in Conns
  PROVE  \/ wire'[k] = wire[k]
         \/ link[k] = "open" /\ of[k] = p /\ wire'[k] = wire[k] \o <<f>>
<1>1. CASE link[k] = "open" /\ \E w \in {s[2] : s \in held} : data[w] = k
  <2>1. PICK s \in held : data[s[2]] = k
    BY <1>1
  <2>2. of[k] = p
    BY <2>1 DEF IInv, OfOne
  <2> QED BY <1>1, <2>2 DEF Send
<1>2. CASE ~ (link[k] = "open" /\ \E w \in {s[2] : s \in held} : data[w] = k)
  BY <1>2 DEF Send
<1> QED BY <1>1, <1>2

(* A frame reaches the connections of its pty alone. *)
LEMMA SendKeeps ==
  ASSUME IInv, NEW p \in Ptys, NEW f \in Frames, f.pty = p,
         NEW held \in SUBSET subscribers[p], \A s \in held : data[s[2]] = s[1],
         wire' = Send({s[2] : s \in held}, <<f>>), UNCHANGED of
  PROVE  wire' \in [Conns -> Seq(Frames)] /\ OutputIsolated'
         /\ \A k \in Conns : link[k] \in {"new", "dialing"} => wire'[k] = wire[k]
<1>1. ASSUME NEW k \in Conns
      PROVE  \/ wire'[k] = wire[k]
             \/ link[k] = "open" /\ of[k] = p /\ wire'[k] = wire[k] \o <<f>>
  BY SendReaches
<1>2. ASSUME NEW k \in Conns
      PROVE  wire'[k] \in Seq(Frames) /\ \A i \in DOMAIN wire'[k] : wire'[k][i].pty = of[k]
  <2>1. wire[k] \in Seq(Frames) /\ \A i \in DOMAIN wire[k] : wire[k][i].pty = of[k]
    BY DEF IInv, Types, OutputIsolated
  <2>2. <<f>> \in Seq(Frames) /\ \A i \in DOMAIN <<f>> : <<f>>[i].pty = p
    OBVIOUS
  <2>3. CASE of[k] = p /\ wire'[k] = wire[k] \o <<f>>
    <3>1. \A i \in DOMAIN wire[k] : wire[k][i].pty = p
      BY <2>1, <2>3
    <3>2. /\ wire[k] \o <<f>> \in Seq(Frames)
          /\ \A i \in DOMAIN (wire[k] \o <<f>>) : (wire[k] \o <<f>>)[i].pty = p
      BY <2>1, <2>2, <3>1, AppendKeeps
    <3> QED BY <2>3, <3>2
  <2> QED BY <1>1, <2>1, <2>3
<1>3. DOMAIN wire' = Conns /\ wire' = [k \in Conns |-> wire'[k]]
  BY DEF Send
<1>4. wire' \in [Conns -> Seq(Frames)]
  BY <1>2, <1>3
<1> QED BY <1>1, <1>2, <1>4 DEF OutputIsolated

(* A replay is a sequence of frames of its pty. *)
LEMMA ReplayFrames ==
  ASSUME NEW p \in Ptys, NEW from \in Int, cursor[p] \in Int, bufferCursor[p] \in Int
  PROVE  /\ ReplayFrom(p, from) \in Seq(Frames)
         /\ \A i \in DOMAIN ReplayFrom(p, from) : ReplayFrom(p, from)[i].pty = p
<1> DEFINE start == IF from > bufferCursor[p] THEN from ELSE bufferCursor[p]
           n == IF start < cursor[p] THEN (cursor[p] - start + Chunk - 1) \div Chunk ELSE 0
           upto(i) == IF start + i * Chunk < cursor[p] THEN start + i * Chunk ELSE cursor[p]
<1>1. start \in Int
  OBVIOUS
<1>2. n \in Nat
  BY <1>1, ChunkAssumption
<1>3. ASSUME NEW i \in 1..n PROVE Frame(p, "data", start + (i - 1) * Chunk, upto(i)) \in Frames
                                  /\ Frame(p, "data", start + (i - 1) * Chunk, upto(i)).pty = p
  <2>1. i \in Int /\ Chunk \in Int
    BY <1>2, ChunkAssumption
  <2>2. start + (i - 1) * Chunk \in Int /\ upto(i) \in Int
    BY <1>1, <2>1
  <2> HIDE DEF start, upto
  <2> QED BY <2>2 DEF Frame, Frames
<1>4. ReplayFrom(p, from) = [i \in 1..n |-> Frame(p, "data", start + (i - 1) * Chunk, upto(i))]
  BY DEF ReplayFrom, Replay
<1> HIDE DEF start, n, upto
<1> QED BY <1>2, <1>3, <1>4

(* A step that leaves what is on its way, or drops it with its connection.  *)
Quiet(drop) ==
  /\ wire' = [k \in Conns |-> IF k \in drop THEN <<>> ELSE wire[k]]
  /\ link' \in [Conns -> {"new", "dialing", "open", "broken", "closed"}]
  /\ \A k \in Conns : link'[k] # link[k] =>
       link[k] # "new" /\ link'[k] \in {"broken", "closed"}
  /\ subscribers' \in [Ptys -> SUBSET (Conns \X Objects)]
  /\ \A p \in Ptys : subscribers'[p] \subseteq subscribers[p]
  /\ conn' \in [Ptys -> Conns \cup {None}]
  /\ \A p \in Ptys : conn'[p] \in {conn[p], None}
  /\ UNCHANGED <<alive, cursor, bufferCursor, data, of, ask, seek>>

LEMMA QuietKeeps ==
  ASSUME IInv, NEW drop \in SUBSET Conns, Quiet(drop)
  PROVE  IInv'
<1>t. Types /\ OfOne /\ OutputIsolated
  BY DEF IInv
<1>1. wire' \in [Conns -> Seq(Frames)]
  BY <1>t DEF Quiet, Types
<1>2. Types'
  BY <1>t, <1>1 DEF Quiet, Types
<1>3. OfOne'
  <2>1. \A k \in Conns : /\ link'[k] = "new" <=> of'[k] = None
                         /\ link'[k] \in {"new", "dialing"} => wire'[k] = <<>>
    BY <1>t DEF Quiet, OfOne
  <2>2. ASSUME NEW p \in Ptys, conn'[p] # None PROVE link'[conn'[p]] # "new"
    <3>1. conn'[p] = conn[p] /\ conn[p] \in Conns
      BY <1>t, <2>2 DEF Quiet, Types
    <3> QED BY <1>t, <2>2, <3>1 DEF Quiet, OfOne
  <2>3. \A p \in Ptys : \A s \in subscribers'[p] : of'[s[1]] = p
    BY <1>t DEF Quiet, OfOne
  <2> QED BY <2>1, <2>2, <2>3 DEF OfOne
<1>4. OutputIsolated'
  <2>1. \A k \in Conns : wire'[k] = <<>> \/ wire'[k] = wire[k]
    BY DEF Quiet
  <2> QED BY <1>t, <2>1 DEF Quiet, OutputIsolated
<1> QED BY <1>2, <1>3, <1>4 DEF IInv

LEMMA NextInv == IInv /\ [Next]_vars => IInv'
<1> SUFFICES ASSUME IInv, [Next]_vars PROVE IInv'
  OBVIOUS
<1>t. Types /\ OfOne /\ OutputIsolated
  BY DEF IInv
<1> USE NoneAssumption, BoundsAssumption
<1>1. CASE UNCHANGED vars
  BY <1>1, <1>t DEF vars, serverVars, linkVars, clientVars, IInv, Types, OfOne, OutputIsolated
<1>2. ASSUME NEW p \in Ptys, Output(p) PROVE IInv'
  <2>1. PICK n \in 1..(MaxOut[p] - cursor[p]) :
          LET held == {s \in subscribers[p] : Holds(s)}
              end == cursor[p] + n
          IN /\ cursor' = [cursor EXCEPT ![p] = end]
             /\ wire' = Send({s[2] : s \in held}, <<Frame(p, "data", cursor[p], end)>>)
             /\ subscribers' = [subscribers EXCEPT ![p] = held]
             /\ bufferCursor' = [bufferCursor EXCEPT ![p] = Forgets(p, end)]
    BY <1>2 DEF Output
  <2> DEFINE held == {s \in subscribers[p] : Holds(s)}
             f == Frame(p, "data", cursor[p], cursor[p] + n)
  <2>2. UNCHANGED <<alive, data, ready, of, ask, link, client, conn, seek, shown>>
    BY <1>2 DEF Output, clientVars
  <2>3. cursor[p] \in Int /\ cursor[p] + n \in Int /\ bufferCursor[p] \in Int
    BY <1>t DEF Types
  <2>4. f \in Frames /\ f.pty = p
    BY <2>3 DEF Frame, Frames
  <2>5. held \in SUBSET subscribers[p] /\ \A s \in held : data[s[2]] = s[1]
    BY DEF Holds
  <2>6. /\ wire' \in [Conns -> Seq(Frames)] /\ OutputIsolated'
        /\ \A k \in Conns : link[k] \in {"new", "dialing"} => wire'[k] = wire[k]
    <3> HIDE DEF held, f
    <3>1. wire' = Send({s[2] : s \in held}, <<f>>)
      BY <2>1 DEF held, f
    <3> QED BY <2>2, <2>4, <2>5, <3>1, SendKeeps
  <2>7. bufferCursor' \in [Ptys -> Int] /\ cursor' \in [Ptys -> Int]
    BY <1>t, <2>1, <2>3, LimitAssumption DEF Types, Forgets
  <2>8. subscribers' \in [Ptys -> SUBSET (Conns \X Objects)]
        /\ \A q \in Ptys : subscribers'[q] \subseteq subscribers[q]
    BY <1>t, <2>1 DEF Types
  <2>9. Types'
    BY <1>t, <2>2, <2>6, <2>7, <2>8 DEF Types
  <2>10. OfOne'
    BY <1>t, <2>2, <2>6, <2>8 DEF OfOne
  <2> QED BY <2>6, <2>9, <2>10 DEF IInv
<1>3. ASSUME NEW p \in Ptys, Remove(p) PROVE IInv'
  <2> DEFINE held == {s \in subscribers[p] : data[s[2]] = s[1]}
             f == Frame(p, "close", 0, 0)
  <2>1. /\ wire' = Send({s[2] : s \in held}, <<f>>)
        /\ subscribers' = [subscribers EXCEPT ![p] = {}] /\ alive' = alive \ {p}
        /\ UNCHANGED <<cursor, bufferCursor, data, ready, of, ask, link, client, conn, seek, shown>>
    BY <1>3 DEF Remove, clientVars
  <2>2. f \in Frames /\ f.pty = p
    BY DEF Frame, Frames
  <2>3. held \in SUBSET subscribers[p] /\ \A s \in held : data[s[2]] = s[1]
    OBVIOUS
  <2>4. /\ wire' \in [Conns -> Seq(Frames)] /\ OutputIsolated'
        /\ \A k \in Conns : link[k] \in {"new", "dialing"} => wire'[k] = wire[k]
    <3> HIDE DEF held, f
    <3> QED BY <2>1, <2>2, <2>3, SendKeeps
  <2>5. Types'
    BY <1>t, <2>1, <2>4 DEF Types
  <2>6. OfOne'
    BY <1>t, <2>1, <2>4 DEF OfOne, Types
  <2> QED BY <2>4, <2>5, <2>6 DEF IInv
<1>4. ASSUME NEW k \in Conns, Accept(k) PROVE IInv'
  <2>1. PICK w \in Objects :
          /\ data' = [data EXCEPT ![w] = k]
          /\ subscribers' = [subscribers EXCEPT ![of[k]] = @ \cup {<<k, w>>}]
    BY <1>4 DEF Accept
  <2>2. /\ link[k] = "dialing" /\ of[k] \in alive
        /\ link' = [link EXCEPT ![k] = "open"]
        /\ wire' = [wire EXCEPT ![k] =
             ReplayFrom(of[k], ask[k]) \o <<Frame(of[k], "meta", cursor[of[k]], cursor[of[k]])>>]
        /\ UNCHANGED <<alive, cursor, bufferCursor, of, ask, client, conn, seek, shown>>
    BY <1>4 DEF Accept, clientVars
  <2>3. of[k] \in Ptys /\ cursor[of[k]] \in Int /\ bufferCursor[of[k]] \in Int /\ ask[k] \in Int
    BY <1>t, <2>2 DEF Types
  <2> DEFINE f == Frame(of[k], "meta", cursor[of[k]], cursor[of[k]])
  <2>4. <<f>> \in Seq(Frames) /\ \A i \in DOMAIN <<f>> : <<f>>[i].pty = of[k]
    <3>1. f \in Frames /\ f.pty = of[k]
      BY <2>3 DEF Frame, Frames
    <3> HIDE DEF f
    <3> QED BY <3>1
  <2>5. /\ wire'[k] \in Seq(Frames) /\ \A i \in DOMAIN wire'[k] : wire'[k][i].pty = of[k]
        /\ \A j \in Conns \ {k} : wire'[j] = wire[j]
        /\ DOMAIN wire' = Conns
    <3>1. wire'[k] = ReplayFrom(of[k], ask[k]) \o <<f>>
      BY <1>t, <2>2 DEF Types
    <3>2. \A j \in Conns \ {k} : wire'[j] = wire[j]
      BY <1>t, <2>2 DEF Types
    <3>3. DOMAIN wire' = Conns
      BY <1>t, <2>2 DEF Types
    <3>4. /\ ReplayFrom(of[k], ask[k]) \in Seq(Frames)
          /\ \A i \in DOMAIN ReplayFrom(of[k], ask[k]) : ReplayFrom(of[k], ask[k])[i].pty = of[k]
      BY <2>3, ReplayFrames
    <3> HIDE DEF f
    <3>5. /\ ReplayFrom(of[k], ask[k]) \o <<f>> \in Seq(Frames)
          /\ \A i \in DOMAIN (ReplayFrom(of[k], ask[k]) \o <<f>>) :
               (ReplayFrom(of[k], ask[k]) \o <<f>>)[i].pty = of[k]
      BY <2>3, <2>4, <3>4, AppendKeeps
    <3> QED BY <3>1, <3>2, <3>3, <3>5
  <2>6. wire' \in [Conns -> Seq(Frames)]
    <3>1. wire' = [j \in Conns |-> wire'[j]]
      BY <2>2, <2>5 DEF Types
    <3> QED BY <1>t, <2>5, <3>1 DEF Types
  <2>7. Types'
    <3>1. subscribers' \in [Ptys -> SUBSET (Conns \X Objects)]
      BY <1>t, <2>1, <2>3 DEF Types
    <3>2. data' \in [Objects -> Conns \cup {None}]
          /\ link' \in [Conns -> {"new", "dialing", "open", "broken", "closed"}]
      BY <1>t, <2>1, <2>2 DEF Types
    <3> QED BY <1>t, <2>2, <2>6, <3>1, <3>2 DEF Types
  <2>8. OfOne'
    <3>1. ASSUME NEW q \in Ptys, NEW s \in subscribers'[q] PROVE of'[s[1]] = q
      <4>1. s \in subscribers[q] \/ (q = of[k] /\ s = <<k, w>>)
        BY <1>t, <2>1, <2>3 DEF Types
      <4> QED BY <1>t, <2>2, <4>1 DEF OfOne
    <3>2. \A j \in Conns : /\ link'[j] = "new" <=> of'[j] = None
                           /\ link'[j] \in {"new", "dialing"} => wire'[j] = <<>>
      BY <1>t, <2>2, <2>3, <2>5 DEF OfOne, Types
    <3>3. \A q \in Ptys : conn'[q] # None => link'[conn'[q]] # "new"
      BY <1>t, <2>2 DEF OfOne, Types
    <3> QED BY <3>1, <3>2, <3>3 DEF OfOne
  <2>9. OutputIsolated'
    BY SMTT(60), <1>t, <2>2, <2>5 DEF OutputIsolated
  <2> QED BY <2>7, <2>8, <2>9 DEF IInv
<1>5. ASSUME NEW p \in Ptys, Open(p) PROVE IInv'
  <2>1. PICK k \in Conns :
          /\ link[k] = "new"
          /\ link' = [link EXCEPT ![k] = "dialing"]
          /\ of' = [of EXCEPT ![k] = p]
          /\ ask' = [ask EXCEPT ![k] = seek[p]]
          /\ conn' = [conn EXCEPT ![p] = k]
    BY <1>5 DEF Open
  <2>2. UNCHANGED <<alive, cursor, bufferCursor, subscribers, data, ready, wire, seek, shown>>
    BY <1>5 DEF Open, serverVars
  <2>3. of[k] = None /\ wire[k] = <<>>
    BY <1>t, <2>1 DEF OfOne
  <2>4. Types'
    BY <1>t, <2>1, <2>2 DEF Types
  <2>5. \A q \in Ptys : \A s \in subscribers[q] : s[1] # k
    BY <1>t, <2>3 DEF OfOne
  <2>6. OfOne'
    <3>1. \A q \in Ptys : \A s \in subscribers[q] : s[1] \in Conns
      BY <1>t DEF Types
    <3> QED BY <1>t, <2>1, <2>2, <2>3, <2>5, <3>1 DEF Types, OfOne
  <2>7. OutputIsolated'
    BY <1>t, <2>1, <2>2, <2>3 DEF Types, OutputIsolated
  <2> QED BY <2>4, <2>6, <2>7 DEF IInv
<1>6. ASSUME NEW k \in Conns, Receive(k) PROVE IInv'
  <2> DEFINE f == Head(wire[k])
  <2>1. /\ wire[k] # <<>> /\ link[k] = "open"
        /\ wire' = [wire EXCEPT ![k] = Tail(@)]
        /\ seek' = [seek EXCEPT ![of[k]] = Seek(of[k], f)]
        /\ UNCHANGED <<alive, cursor, bufferCursor, subscribers, data, ready, of, ask, link, conn>>
    BY <1>6 DEF Receive, serverVars
  <2>2. wire[k] \in Seq(Frames) /\ \A i \in DOMAIN wire[k] : wire[k][i].pty = of[k]
    BY <1>t DEF Types, OutputIsolated
  <2>3. Tail(wire[k]) \in Seq(Frames)
        /\ \A i \in DOMAIN Tail(wire[k]) : Tail(wire[k])[i].pty = of[k]
    BY <2>1, <2>2
  <2>4. f \in Frames
    BY <2>1, <2>2
  <2>5. of[k] \in Ptys
    BY <1>t, <2>1 DEF Types, OfOne
  <2>6. seek' \in [Ptys -> Int]
    <3>1. f.from \in Int /\ f.to \in Int
      BY <2>4 DEF Frames
    <3> HIDE DEF f
    <3> QED BY <1>t, <2>1, <2>5, <3>1 DEF Types, Seek
  <2>7. wire' \in [Conns -> Seq(Frames)]
    BY <1>t, <2>1, <2>3 DEF Types
  <2>8. Types'
    BY <1>t, <2>1, <2>6, <2>7 DEF Types
  <2>9. OfOne'
    BY <1>t, <2>1 DEF OfOne, Types
  <2>10. OutputIsolated'
    BY <1>t, <2>1, <2>3 DEF OutputIsolated, Types
  <2> QED BY <2>8, <2>9, <2>10 DEF IInv
<1>8. wire = [k \in Conns |-> IF k \in {} THEN <<>> ELSE wire[k]]
  BY <1>t DEF Types
<1>9. \A j \in Conns :
        [wire EXCEPT ![j] = <<>>] = [k \in Conns |-> IF k \in {j} THEN <<>> ELSE wire[k]]
  BY <1>t DEF Types
<1>10. ASSUME NEW k \in Conns, Refuse(k) PROVE IInv'
  <2>1. Quiet({})
    BY <1>t, <1>8, <1>10 DEF Refuse, serverVars, clientVars, Types, Quiet
  <2> QED BY <2>1, QuietKeeps
<1>11. ASSUME NEW w \in Objects, ObjectCloses(w) PROVE IInv'
  <2>1. Quiet({})
    BY <1>t, <1>8, <1>11 DEF ObjectCloses, linkVars, clientVars, Types, Quiet
  <2> QED BY <2>1, QuietKeeps
<1>12. ASSUME NEW p \in Ptys, NEW s \in subscribers[p], OnClose(p, s) PROVE IInv'
  <2>1. subscribers' \in [Ptys -> SUBSET (Conns \X Objects)]
        /\ \A q \in Ptys : subscribers'[q] \subseteq subscribers[q]
    BY <1>t, <1>12 DEF OnClose, Types
  <2>2. Quiet({})
    BY <1>t, <1>8, <1>12, <2>1 DEF OnClose, linkVars, clientVars, Types, Quiet
  <2> QED BY <2>2, QuietKeeps
<1>13. ASSUME NEW k \in Conns, ReceiveClose(k) PROVE IInv'
  <2>1. wire' = [j \in Conns |-> IF j \in {k} THEN <<>> ELSE wire[j]]
    BY <1>9, <1>13 DEF ReceiveClose
  <2>2. conn' \in [Ptys -> Conns \cup {None}] /\ \A q \in Ptys : conn'[q] \in {conn[q], None}
    BY <1>t, <1>13 DEF ReceiveClose, Lost, Types
  <2>3. /\ link[k] = "open" /\ link' = [link EXCEPT ![k] = "closed"]
        /\ UNCHANGED <<alive, cursor, bufferCursor, subscribers, data, of, ask, seek>>
    BY <1>13 DEF ReceiveClose, serverVars
  <2>4. Quiet({k})
    BY <1>t, <2>1, <2>2, <2>3 DEF Types, Quiet
  <2> QED BY <2>4, QuietKeeps
<1>14. ASSUME NEW k \in Conns, Break(k) PROVE IInv'
  <2>1. wire' = [j \in Conns |-> IF j \in {k} THEN <<>> ELSE wire[j]]
    BY <1>9, <1>14 DEF Break
  <2>2. Quiet({k})
    BY <1>t, <1>14, <2>1 DEF Break, serverVars, clientVars, Types, Quiet
  <2> QED BY <2>2, QuietKeeps
<1>15. ASSUME NEW p \in Ptys, NoticeBreak(p) PROVE IInv'
  <2>1. Quiet({})
    BY <1>t, <1>8, <1>15 DEF NoticeBreak, Lost, serverVars, linkVars, Types, Quiet
  <2> QED BY <2>1, QuietKeeps
<1>16. ASSUME NEW p \in Ptys, Unmount(p) PROVE IInv'
  <2>1. UNCHANGED <<alive, cursor, bufferCursor, subscribers, data, of, ask, seek>>
        /\ conn' = [conn EXCEPT ![p] = None]
    BY <1>16 DEF Unmount, serverVars
  <2>2. CASE conn[p] = None
    <3>1. Quiet({})
      BY <1>t, <1>8, <1>16, <2>1, <2>2 DEF Unmount, Types, Quiet
    <3> QED BY <3>1, QuietKeeps
  <2>3. CASE conn[p] # None
    <3>1. conn[p] \in Conns /\ link[conn[p]] # "new"
      BY <1>t, <2>3 DEF Types, OfOne
    <3>2. link' = [link EXCEPT ![conn[p]] = "closed"]
          /\ wire' = [wire EXCEPT ![conn[p]] = <<>>]
      BY <1>16, <2>3 DEF Unmount
    <3>3. Quiet({conn[p]})
      BY <1>t, <1>9, <2>1, <3>1, <3>2 DEF Types, Quiet
    <3> QED BY <3>1, <3>3, QuietKeeps
  <2> QED BY <2>2, <2>3
<1>17. ASSUME NEW p \in Ptys, Retry(p) PROVE IInv'
  <2>1. CASE p \in alive
    BY <1>5, <1>17, <2>1 DEF Retry
  <2>2. CASE p \notin alive
    <3>1. Quiet({})
      BY <1>t, <1>8, <1>17, <2>2 DEF Retry, serverVars, linkVars, Types, Quiet
    <3> QED BY <3>1, QuietKeeps
  <2> QED BY <2>1, <2>2
<1> QED
  BY <1>1, <1>2, <1>3, <1>4, <1>5, <1>6, <1>10, <1>11, <1>12, <1>13, <1>14, <1>15, <1>16, <1>17
  DEF Next, Mount

(* Output of a pty, and the end of it, only travel on connections to it:    *)
(* PtyStream.OutputIsolated.                                                *)
THEOREM Isolation == Spec => []OutputIsolated
<1>1. IInv => OutputIsolated
  BY DEF IInv
<1> QED BY InitInv, NextInv, <1>1, PTL DEF Spec

----------------------------------------------------------------------------
(* What a terminal shows. *)

(* What a frame says lies within what its pty has put out. *)
Whole(f) ==
  /\ 0 <= f.from /\ f.from <= f.to /\ f.to <= cursor[f.pty]
  /\ f.kind = "meta" => f.from = f.to

Sizes ==
  /\ ready \in [Objects -> BOOLEAN]
  /\ client \in [Ptys -> {"dialing", "connected", "retrying", "failed", "ended", "unmounted"}]
  /\ shown \in [Ptys -> Seq(Int)]
  /\ \A p \in Ptys : /\ cursor[p] \in 0..MaxOut[p] /\ bufferCursor[p] \in 0..cursor[p]
                     /\ cursor[p] - bufferCursor[p] <= Limit
                     /\ seek[p] \in 0..cursor[p]
                     /\ \A i \in 1..Len(shown[p]) : shown[p][i] \in 1..cursor[p]
  /\ \A k \in Conns : /\ ask[k] \in Nat
                      /\ of[k] # None => ask[k] <= cursor[of[k]]
                      /\ \A i \in 1..Len(wire[k]) : Whole(wire[k][i])

(* An open connection has a subscription of its own. *)
Served ==
  \A k \in Conns : link[k] = "open" /\ of[k] \in alive =>
    \E w \in Objects : <<k, w>> \in subscribers[of[k]] /\ ready[w] /\ data[w] = k

(* What putting numbers behind numbers gives. *)
LEMMA AppendedInts ==
  ASSUME NEW a \in Seq(Int), NEW b \in Seq(Int)
  PROVE  /\ a \o b \in Seq(Int) /\ Len(a) \in Nat
         /\ Len(a \o b) = Len(a) + Len(b)
         /\ \A i \in 1..Len(a) : (a \o b)[i] = a[i]
         /\ \A i \in 1..Len(b) : (a \o b)[Len(a) + i] = b[i]
  OBVIOUS

LEMMA Within ==
  ASSUME NEW l \in Nat, NEW from \in Nat, NEW to \in Nat, NEW n \in Nat, from < n, n <= to
  PROVE  l + (n - from) \in 1..(l + (to - from))
  OBVIOUS

(* Everything up to x is shown or forgotten. *)
Covered(p, x) ==
  \A n \in 1..x : n <= bufferCursor[p] \/ \E j \in 1..Len(shown[p]) : shown[p][j] = n

(* What is shown has no gap but what is forgotten, and while nothing is, it *)
(* is what the terminal counts.                                             *)
Screen(p) ==
  /\ Covered(p, seek[p])
  /\ \A i \in 1..Len(shown[p]) : Covered(p, shown[p][i])
  /\ bufferCursor[p] = 0 =>
       Len(shown[p]) = seek[p] /\ \A i \in 1..Len(shown[p]) : shown[p][i] = i

(* What is on its way goes on where the terminal's count is, or a control   *)
(* frame is on its way that corrects the count; each frame goes on where    *)
(* the one before it ends, and the last one ends where the output does.     *)
Chained(s) ==
  \A i, j \in 1..Len(s) : j = i + 1 /\ s[j].kind # "close" => s[j].from = s[i].to

GoesOn(p, f) ==
  f.kind # "close" =>
    seek[p] <= f.from /\ Covered(p, f.from) /\ (bufferCursor[p] = 0 => f.from = seek[p])

Synced(p, s) ==
  s # <<>> /\ (\A i \in 1..Len(s) : s[i].kind # "meta") /\ s[1].kind # "close" => s[1].from = seek[p]

Fits(p, s) ==
  /\ Chained(s)
  /\ s # <<>> => GoesOn(p, s[1])
  /\ Synced(p, s)
  /\ p \in alive => IF s = <<>> THEN seek[p] = cursor[p] ELSE s[Len(s)].to = cursor[p]

Feed(p) ==
  conn[p] # None =>
    /\ of[conn[p]] = p
    /\ link[conn[p]] = "dialing" => ask[conn[p]] = seek[p]
    /\ link[conn[p]] = "open" => Fits(p, wire[conn[p]])

ShowInv == Sizes /\ Served /\ \A p \in Ptys : Screen(p) /\ Feed(p)

LEMMA InitShow == Init => ShowInv
  BY LimitAssumption, BoundsAssumption
  DEF Init, ShowInv, Sizes, Served, Screen, Feed, Covered, Conns

(* A replay of d positions in pieces of c: every piece but the last is full.*)
LEMMA Pieces ==
  ASSUME NEW d \in Nat \ {0}, NEW c \in Nat \ {0}, NEW n, n = (d + c - 1) \div c
  PROVE  /\ n \in Nat \ {0} /\ (n - 1) * c < d /\ d <= n * c
         /\ \A i \in 1..(n - 1) : i * c < d
         /\ \A i \in 1..n : (i - 1) * c < d /\ 0 <= (i - 1) * c
<1>1. n \in Int /\ n * c <= d + c - 1 /\ d + c - 1 < n * c + c
  OBVIOUS
<1>2. d <= n * c /\ (n - 1) * c < d
  BY <1>1
<1>3. n > 0
  <2> SUFFICES ASSUME n <= 0 PROVE FALSE
    BY <1>1
  <2>1. n * c <= 0
    BY <1>1
  <2> QED BY <1>1, <1>2, <2>1
<1>4. ASSUME NEW i \in Int, i <= n - 1 PROVE i * c < d
  <2>1. i * c <= (n - 1) * c
    BY <1>1, <1>4
  <2>2. i * c \in Int /\ (n - 1) * c \in Int
    BY <1>1
  <2> QED BY <1>2, <2>1, <2>2
<1>5. ASSUME NEW i \in Nat PROVE 0 <= i * c
  OBVIOUS
<1>6. \A i \in 1..n : i - 1 \in Nat /\ i - 1 <= n - 1
  BY <1>1
<1> QED BY <1>1, <1>2, <1>3, <1>4, <1>5, <1>6

Sent(p, from) == ReplayFrom(p, from) \o <<Frame(p, "meta", cursor[p], cursor[p])>>

(* What a new connection is sent begins where its terminal's count is or    *)
(* where the buffer begins, has no gap, and ends with the control frame.    *)
LEMMA ReplayFits ==
  ASSUME NEW p \in Ptys, NEW from \in Nat, cursor[p] \in Nat, bufferCursor[p] \in 0..cursor[p],
         from <= cursor[p], NEW s,
         s = Sent(p, from)
  PROVE  /\ s \in Seq(Frames) /\ s # <<>> /\ Chained(s)
         /\ s[1].kind # "close"
         /\ s[1].from = IF from > bufferCursor[p] THEN from ELSE bufferCursor[p]
         /\ s[Len(s)].to = cursor[p] /\ Len(s) \in 1..Len(s) /\ s[Len(s)].kind = "meta"
         /\ \A i \in 1..Len(s) : Whole(s[i])
<1> DEFINE start == IF from > bufferCursor[p] THEN from ELSE bufferCursor[p]
           n == IF start < cursor[p] THEN (cursor[p] - start + Chunk - 1) \div Chunk ELSE 0
           upto(i) == IF start + i * Chunk < cursor[p] THEN start + i * Chunk ELSE cursor[p]
           f(i) == Frame(p, "data", start + (i - 1) * Chunk, upto(i))
           m == Frame(p, "meta", cursor[p], cursor[p])
           r == [i \in 1..n |-> f(i)]
<1>1. start \in Nat /\ start <= cursor[p]
  OBVIOUS
<1>2. /\ n \in Nat
      /\ \A i \in 1..(n - 1) : upto(i) = start + i * Chunk
      /\ n = 0 => start = cursor[p]
      /\ n # 0 => upto(n) = cursor[p]
      /\ \A i \in 1..n : /\ start <= start + (i - 1) * Chunk /\ start + (i - 1) * Chunk \in Int
                         /\ start + (i - 1) * Chunk <= upto(i) /\ upto(i) \in Int /\ upto(i) <= cursor[p]
  <2>1. CASE start < cursor[p]
    <3> DEFINE d == cursor[p] - start
    <3>1. d \in Nat \ {0} /\ n = (d + Chunk - 1) \div Chunk
      BY <1>1, <2>1
    <3> HIDE DEF n
    <3>2. /\ n \in Nat \ {0} /\ (n - 1) * Chunk < d /\ d <= n * Chunk
          /\ \A i \in 1..(n - 1) : i * Chunk < d
          /\ \A i \in 1..n : (i - 1) * Chunk < d /\ 0 <= (i - 1) * Chunk
      BY <3>1, Pieces, ChunkAssumption
    <3>3. \A i \in Int : i * Chunk \in Int
      BY ChunkAssumption
    <3> HIDE DEF start
    <3>4. ASSUME NEW i \in 1..(n - 1) PROVE upto(i) = start + i * Chunk
      <4>1. i * Chunk \in Int /\ i * Chunk < cursor[p] - start
        BY <3>2, <3>3
      <4>2. start + i * Chunk < cursor[p]
        BY <1>1, <4>1
      <4> QED BY <4>2
    <3>5. upto(n) = cursor[p]
      <4>1. n * Chunk \in Int /\ cursor[p] - start <= n * Chunk
        BY <3>2, <3>3
      <4>2. ~ (start + n * Chunk < cursor[p])
        BY <1>1, <4>1
      <4> QED BY <4>2
    <3>6. ASSUME NEW i \in 1..n
          PROVE  /\ start <= start + (i - 1) * Chunk /\ start + (i - 1) * Chunk \in Int
                 /\ start + (i - 1) * Chunk <= upto(i) /\ upto(i) \in Int /\ upto(i) <= cursor[p]
      <4>1. (i - 1) * Chunk \in Int /\ i * Chunk \in Int /\ i * Chunk = (i - 1) * Chunk + Chunk
        BY <3>2, ChunkAssumption
      <4>2. start + (i - 1) * Chunk < cursor[p]
        BY <1>1, <3>2, <4>1
      <4> QED BY <1>1, <3>2, <4>1, <4>2, ChunkAssumption
    <3> QED BY <3>2, <3>4, <3>5, <3>6
  <2>2. CASE ~ (start < cursor[p])
    <3>1. n = 0 /\ start = cursor[p]
      BY <1>1, <2>2
    <3> HIDE DEF n, start, upto
    <3> QED BY <3>1
  <2> QED BY <2>1, <2>2
<1>3. s = r \o <<m>>
  BY DEF Sent, ReplayFrom, Replay
<1> HIDE DEF n, start, upto
<1>4. \A i \in 1..n : f(i) \in Frames
  BY <1>1, <1>2 DEF Frame, Frames
<1>5. m \in Frames /\ m.kind = "meta" /\ m.from = cursor[p] /\ m.to = cursor[p] /\ m.pty = p
  BY DEF Frame, Frames
<1>6. \A i \in 1..n : f(i).kind = "data" /\ f(i).pty = p
                      /\ f(i).from = start + (i - 1) * Chunk /\ f(i).to = upto(i)
  BY DEF Frame
<1> HIDE DEF f, m
<1>7. r \in Seq(Frames) /\ Len(r) = n
  BY <1>2, <1>4
<1>8. /\ s \in Seq(Frames) /\ Len(s) = n + 1 /\ s # <<>> /\ s[n + 1] = m
      /\ \A i \in 1..n : s[i] = f(i)
  <2>1. \A i \in 1..n : r[i] = f(i)
    OBVIOUS
  <2> HIDE DEF r
  <2>2. <<m>> \in Seq(Frames) /\ Len(<<m>>) = 1 /\ <<m>>[1] = m
    BY <1>5
  <2>3. s \in Seq(Frames)
    <3>1. \A x, y \in Seq(Frames) : x \o y \in Seq(Frames)
      OBVIOUS
    <3> QED BY <1>3, <1>7, <2>2, <3>1
  <2>4. Len(s) = n + 1
    BY <1>2, <1>3, <1>7, <2>2
  <2>5. \A i \in 1..n : s[i] = r[i]
    BY <1>2, <1>3, <1>7, <2>2
  <2>6. s[n + 1] = m
    <3>1. \A x \in Seq(Frames) : \A y \in Frames : (x \o <<y>>)[Len(x) + 1] = y
      OBVIOUS
    <3> QED BY <1>3, <1>5, <1>7, <3>1
  <2>7. s # <<>>
    <3>1. Len(s) # 0
      BY <1>2, <2>4
    <3> QED BY <3>1
  <2> QED BY <2>1, <2>3, <2>4, <2>5, <2>6, <2>7
<1>9. \A i \in 1..Len(s) : i \in 1..n \/ i = n + 1
  BY <1>2, <1>8
<1>10. Chained(s)
  <2> SUFFICES ASSUME NEW i \in 1..Len(s), NEW j \in 1..Len(s), j = i + 1 PROVE s[j].from = s[i].to
    BY DEF Chained
  <2>1. i \in 1..n
    BY <1>2, <1>8
  <2>2. CASE j \in 1..n
    <3>1. i \in 1..(n - 1) /\ j - 1 = i
      BY <1>2, <2>2
    <3> QED BY <1>2, <1>6, <1>8, <2>1, <2>2, <3>1
  <2>3. CASE j = n + 1
    <3>1. i = n /\ n # 0
      BY <1>2, <2>1, <2>3
    <3> QED BY <1>2, <1>5, <1>6, <1>8, <2>1, <2>3, <3>1
  <2> QED BY <1>9, <2>2, <2>3
<1>11. s[1].kind # "close" /\ s[1].from = start
  <2>1. CASE n = 0
    BY <1>2, <1>5, <1>8, <2>1
  <2>2. CASE n # 0
    <3>1. 1 \in 1..n /\ (1 - 1) * Chunk = 0
      BY <1>2, <2>2, ChunkAssumption
    <3> QED BY <1>1, <1>6, <1>8, <3>1
  <2> QED BY <2>1, <2>2
<1>12. \A i \in 1..Len(s) : Whole(s[i])
  <2>1. Whole(m)
    BY <1>5 DEF Whole
  <2>2. ASSUME NEW i \in 1..n PROVE Whole(f(i))
    <3>1. 0 <= start + (i - 1) * Chunk
      BY <1>1, <1>2
    <3> QED BY <1>2, <1>6, <3>1 DEF Whole
  <2> QED BY <1>8, <1>9, <2>1, <2>2
<1>13. s[Len(s)] = m /\ Len(s) \in 1..Len(s)
  BY <1>2, <1>8
<1> QED BY <1>5, <1>8, <1>10, <1>11, <1>12, <1>13 DEF start

(* What fits goes on fitting while neither the pty nor the terminal moves.  *)
LEMMA FitsStays ==
  ASSUME NEW p \in Ptys, NEW s, Fits(p, s), p \in alive' => p \in alive,
         cursor'[p] = cursor[p], bufferCursor'[p] = bufferCursor[p],
         seek'[p] = seek[p], shown'[p] = shown[p]
  PROVE  Fits(p, s)'
<1>1. Chained(s)'
  BY DEF Fits, Chained
<1>2. s # <<>> => GoesOn(p, s[1])'
  BY DEF Fits, GoesOn, Covered
<1>3. Synced(p, s)'
  BY DEF Fits, Synced
<1> QED BY <1>1, <1>2, <1>3 DEF Fits

LEMMA FeedFits ==
  ASSUME NEW p \in Ptys, NEW k \in Conns, NEW s, conn'[p] = k, of'[k] = p, link'[k] = "open",
         wire'[k] = s, Fits(p, s)'
  PROVE  Feed(p)'
<1>1. (wire[conn[p]])' = s
  OBVIOUS
<1>2. Fits(p, wire[conn[p]])'
  BY <1>1 DEF Fits, Chained, GoesOn, Synced, Covered
<1> QED BY <1>2 DEF Feed

LEMMA FeedStays ==
  ASSUME NEW p \in Ptys, NEW k \in Conns, conn[p] = k, conn'[p] = k, k # None, Feed(p),
         of'[k] = of[k], ask'[k] = ask[k],
         link'[k] = "dialing" => link[k] = "dialing",
         link'[k] = "open" => link[k] = "open" /\ wire'[k] = wire[k],
         p \in alive' => p \in alive, cursor'[p] = cursor[p], bufferCursor'[p] = bufferCursor[p],
         seek'[p] = seek[p], shown'[p] = shown[p]
  PROVE  Feed(p)'
<1>1. CASE link'[k] = "open"
  <2>1. PICK s : s = wire[k]
    OBVIOUS
  <2>2. Fits(p, s)
    BY <1>1, <2>1 DEF Feed
  <2>3. Fits(p, s)'
    BY <2>2, FitsStays
  <2> QED BY <1>1, <2>1, <2>3, FeedFits DEF Feed
<1>2. CASE link'[k] # "open"
  BY <1>2 DEF Feed
<1> QED BY <1>1, <1>2

(* A step that sends nothing on an open connection.                         *)
LEMMA QuietShows ==
  ASSUME IInv, ShowInv, Types', Served',
         UNCHANGED <<cursor, bufferCursor, seek, shown, of, ask>>, alive' \subseteq alive,
         ready' \in [Objects -> BOOLEAN],
         client' \in [Ptys -> {"dialing", "connected", "retrying", "failed", "ended", "unmounted"}],
         \A k \in Conns : /\ wire'[k] = wire[k] \/ wire'[k] = <<>>
                          /\ link'[k] = "open" => link[k] = "open" /\ wire'[k] = wire[k]
                          /\ link'[k] = "dialing" => link[k] = "dialing",
         \A p \in Ptys : conn'[p] = conn[p] \/ conn'[p] = None
  PROVE  ShowInv'
<1>1. Sizes'
  <2>1. Sizes
    BY DEF ShowInv
  <2>2. ASSUME NEW k \in Conns, NEW i \in 1..Len(wire'[k]) PROVE Whole(wire[k][i])'
    <3>1. wire'[k] = wire[k]
      <4>1. CASE wire'[k] = <<>>
        <5>1. Len(wire'[k]) = 0
          BY <4>1
        <5> QED BY <2>2, <5>1
      <4> QED BY <4>1
    <3>2. Whole(wire[k][i])
      BY <2>1, <2>2, <3>1 DEF Sizes
    <3> QED BY <3>1, <3>2 DEF Whole
  <2> QED BY <2>1, <2>2 DEF Sizes
<1>2. ASSUME NEW p \in Ptys PROVE Screen(p)'
  BY DEF ShowInv, Screen, Covered
<1>3. ASSUME NEW p \in Ptys, conn'[p] # None PROVE Feed(p)'
  <2>1. conn'[p] = conn[p] /\ conn[p] \in Conns
    BY <1>3 DEF IInv, Types
  <2>2. Feed(p)
    BY DEF ShowInv
  <2> QED BY <1>3, <2>1, <2>2, FeedStays
<1>4. ASSUME NEW p \in Ptys PROVE Feed(p)'
  BY <1>3 DEF Feed
<1> QED BY <1>1, <1>2, <1>4 DEF ShowInv

LEMMA OpenShows ==
  ASSUME IInv, ShowInv, NEW p \in Ptys, Open(p) PROVE ShowInv'
<1>1. PICK k \in Conns :
        /\ link[k] = "new"
        /\ link' = [link EXCEPT ![k] = "dialing"]
        /\ of' = [of EXCEPT ![k] = p]
        /\ ask' = [ask EXCEPT ![k] = seek[p]]
        /\ conn' = [conn EXCEPT ![p] = k]
        /\ client' = [client EXCEPT ![p] = "dialing"]
  BY DEF Open
<1>2. UNCHANGED <<alive, cursor, bufferCursor, subscribers, data, ready, wire, seek, shown>>
  BY DEF Open, serverVars
<1>t. Types /\ OfOne /\ Sizes /\ Served
  BY DEF IInv, ShowInv
<1>3. Sizes'
  <2>1. seek[p] \in Nat
    BY <1>t DEF Sizes, Types
  <2>2. ask' \in [Conns -> Int] /\ \A j \in Conns : ask'[j] \in Nat
    BY <1>1, <1>t, <2>1 DEF Types, Sizes
  <2>3. client' \in [Ptys -> {"dialing", "connected", "retrying", "failed", "ended", "unmounted"}]
    BY <1>1, <1>t DEF Sizes
  <2>4. \A j \in Conns : of'[j] # None => ask'[j] <= cursor[of'[j]]
    BY <1>1, <1>t DEF Types, Sizes
  <2> QED BY <1>2, <1>t, <2>2, <2>3, <2>4 DEF Sizes, Whole
<1>4. Served'
  <2> SUFFICES ASSUME NEW j \in Conns, link'[j] = "open", of'[j] \in alive
               PROVE  \E w \in Objects : <<j, w>> \in subscribers[of'[j]] /\ ready[w] /\ data[w] = j
    BY <1>2 DEF Served
  <2>1. j # k /\ link[j] = "open" /\ of'[j] = of[j]
    BY <1>1, <1>t DEF Types
  <2> QED BY <1>t, <2>1 DEF Served
<1>5. \A q \in Ptys : Screen(q)'
  BY <1>2 DEF ShowInv, Screen, Covered
<1>6. ASSUME NEW q \in Ptys, conn'[q] # None PROVE Feed(q)'
  <2>1. CASE q = p
    <3>1. /\ conn'[p] = k /\ of'[k] = p /\ link'[k] = "dialing" /\ ask'[k] = seek[p]
      BY <1>1, <1>t DEF Types
    <3> QED BY <1>2, <2>1, <3>1 DEF Feed
  <2>2. CASE q # p
    <3>1. conn'[q] = conn[q] /\ conn[q] \in Conns /\ conn[q] # k /\ Feed(q)
      BY <1>1, <1>6, <1>t, <2>2 DEF Types, OfOne, ShowInv
    <3>2. /\ of'[conn[q]] = of[conn[q]] /\ ask'[conn[q]] = ask[conn[q]]
          /\ link'[conn[q]] = link[conn[q]]
      BY <1>1, <1>t, <3>1 DEF Types
    <3> QED BY <1>2, <1>6, <3>1, <3>2, FeedStays
  <2> QED BY <2>1, <2>2
<1>7. \A q \in Ptys : Feed(q)'
  BY <1>6 DEF Feed
<1> QED BY <1>3, <1>4, <1>5, <1>7 DEF ShowInv

LEMMA AcceptShows ==
  ASSUME IInv, ShowInv, NEW k \in Conns, Accept(k) PROVE ShowInv'
<1>t. Types /\ OfOne /\ Sizes /\ Served
  BY DEF IInv, ShowInv
<1>a. PICK p \in Ptys : p = of[k]
  BY <1>t DEF Accept, Types
<1>b. PICK s : s = Sent(p, ask[k])
  OBVIOUS
<1>1. PICK w \in Objects :
        /\ ~ ready[w]
        /\ data' = [data EXCEPT ![w] = k] /\ ready' = [ready EXCEPT ![w] = TRUE]
        /\ subscribers' = [subscribers EXCEPT ![p] = @ \cup {<<k, w>>}]
  BY <1>a DEF Accept
<1>2. /\ link[k] = "dialing" /\ p \in alive
      /\ link' = [link EXCEPT ![k] = "open"]
      /\ wire' = [wire EXCEPT ![k] = s]
      /\ UNCHANGED <<alive, cursor, bufferCursor, of, ask, client, conn, seek, shown>>
  BY <1>a, <1>b DEF Accept, clientVars, Sent
<1>3. link'[k] = "open" /\ wire'[k] = s
      /\ \A j \in Conns \ {k} : link'[j] = link[j] /\ wire'[j] = wire[j]
  BY <1>2, <1>t DEF Types
<1>4. Served'
  <2> SUFFICES ASSUME NEW j \in Conns, link'[j] = "open", of[j] \in alive
               PROVE  \E x \in Objects : <<j, x>> \in subscribers'[of[j]] /\ ready'[x] /\ data'[x] = j
    BY <1>2 DEF Served
  <2>1. CASE j = k
    <3>1. <<k, w>> \in subscribers'[p] /\ ready'[w] /\ data'[w] = k
      BY <1>1, <1>t DEF Types, Sizes
    <3> QED BY <1>a, <2>1, <3>1
  <2>2. CASE j # k
    <3>1. PICK x \in Objects : <<j, x>> \in subscribers[of[j]] /\ ready[x] /\ data[x] = j
      BY <1>3, <1>t, <2>2 DEF Served
    <3>2. x # w
      BY <1>1, <3>1
    <3>3. <<j, x>> \in subscribers'[of[j]]
      BY <1>1, <1>t, <3>1 DEF Types
    <3> QED BY <1>1, <1>t, <3>1, <3>2, <3>3 DEF Types, Sizes
  <2> QED BY <2>1, <2>2
<1>5. \A q \in Ptys : Screen(q)'
  BY <1>2 DEF ShowInv, Screen, Covered
<1>6. /\ s # <<>> /\ Chained(s) /\ s[1].kind # "close"
      /\ s[1].from = IF ask[k] > bufferCursor[p] THEN ask[k] ELSE bufferCursor[p]
      /\ s[Len(s)].to = cursor[p] /\ Len(s) \in 1..Len(s) /\ s[Len(s)].kind = "meta"
      /\ \A i \in 1..Len(s) : Whole(s[i])
  <2>1. /\ cursor[p] \in Nat /\ bufferCursor[p] \in 0..cursor[p] /\ ask[k] \in Nat
        /\ ask[k] <= cursor[p]
    BY <1>a, <1>t, NoneAssumption, BoundsAssumption DEF Sizes, Types
  <2> QED BY <1>b, <2>1, ReplayFits
<1>7. Sizes'
  <2>1. ready' \in [Objects -> BOOLEAN]
    BY <1>1, <1>t DEF Sizes
  <2>2. \A j \in Conns : \A i \in 1..Len(wire'[j]) : Whole(wire'[j][i])
    BY <1>3, <1>6, <1>t DEF Sizes
  <2> QED BY <1>2, <1>t, <2>1, <2>2 DEF Sizes, Whole
<1>8. ASSUME conn[p] = k, k # None PROVE Fits(p, s)
  <2>1. Screen(p) /\ ask[k] = seek[p]
    BY <1>2, <1>8 DEF ShowInv, Feed
  <2>2. seek[p] \in Nat /\ bufferCursor[p] \in Nat
    BY <1>t DEF Sizes, Types
  <2>3. GoesOn(p, s[1])
    BY <1>6, <2>1, <2>2 DEF GoesOn, Screen, Covered
  <2>4. Synced(p, s)
    BY <1>6 DEF Synced
  <2> QED BY <1>6, <2>3, <2>4 DEF Fits
<1>9. ASSUME NEW q \in Ptys, conn[q] # None PROVE Feed(q)'
  <2>1. Feed(q) /\ conn[q] \in Conns
    BY <1>9, <1>t DEF ShowInv, Types
  <2>2. CASE conn[q] = k
    <3>1. q = p
      BY <1>9, <1>a, <2>1, <2>2 DEF Feed
    <3>2. Fits(p, s)
      BY <1>8, <1>9, <2>2, <3>1
    <3>3. Fits(p, s)'
      BY <1>2, <3>2, FitsStays
    <3> QED BY <1>2, <1>3, <1>a, <2>2, <3>1, <3>3, FeedFits
  <2>3. CASE conn[q] # k
    <3>1. link'[conn[q]] = link[conn[q]] /\ wire'[conn[q]] = wire[conn[q]]
      BY <1>3, <2>1, <2>3
    <3> QED BY <1>2, <1>9, <2>1, <3>1, FeedStays
  <2> QED BY <2>2, <2>3
<1>10. \A q \in Ptys : Feed(q)'
  BY <1>2, <1>9 DEF Feed
<1> QED BY <1>4, <1>5, <1>7, <1>10 DEF ShowInv

(* One more frame. *)
LEMMA JoinOne ==
  ASSUME NEW s \in Seq(Frames), NEW f \in Frames, NEW t, t = s \o <<f>>
  PROVE  /\ t \in Seq(Frames) /\ t # <<>> /\ Len(s) \in Nat /\ Len(t) = Len(s) + 1
         /\ \A i \in 1..Len(s) : t[i] = s[i]
         /\ t[Len(s) + 1] = f
         /\ \A i \in 1..Len(t) : i \in 1..Len(s) \/ i = Len(s) + 1
OBVIOUS

(* Output goes on where what is on its way ends; the end of a pty is the    *)
(* last it sends.                                                           *)
LEMMA FitsAppend ==
  ASSUME NEW p \in Ptys, NEW s \in Seq(Frames), NEW f \in Frames, NEW t, t = s \o <<f>>,
         Fits(p, s), Covered(p, seek[p]), seek[p] \in Int,
         \/ f.kind = "data" /\ p \in alive /\ f.from = cursor[p] /\ f.to = cursor'[p]
         \/ f.kind = "close" /\ p \notin alive',
         seek'[p] = seek[p], bufferCursor'[p] = 0 => bufferCursor[p] = 0,
         \A x \in Int : Covered(p, x) => Covered(p, x)'
  PROVE  Fits(p, t)'
<1>1. /\ t \in Seq(Frames) /\ t # <<>> /\ Len(s) \in Nat /\ Len(t) = Len(s) + 1
      /\ \A i \in 1..Len(s) : t[i] = s[i]
      /\ t[Len(s) + 1] = f
      /\ \A i \in 1..Len(t) : i \in 1..Len(s) \/ i = Len(s) + 1
  BY JoinOne
<1>2. Chained(t)'
  <2> SUFFICES ASSUME NEW i \in 1..Len(t), NEW j \in 1..Len(t), j = i + 1, t[j].kind # "close"
               PROVE  t[j].from = t[i].to
    BY DEF Chained
  <2>1. i \in 1..Len(s)
    BY <1>1
  <2>2. CASE j \in 1..Len(s)
    BY <1>1, <2>1, <2>2 DEF Fits, Chained
  <2>3. CASE j = Len(s) + 1
    <3>1. i = Len(s) /\ s # <<>>
      BY <1>1, <2>1, <2>3
    <3>2. s[i].to = cursor[p] /\ f.from = cursor[p]
      BY <1>1, <2>3, <3>1 DEF Fits
    <3> QED BY <1>1, <2>1, <2>3, <3>2
  <2> QED BY <1>1, <2>2, <2>3
<1>3. CASE s = <<>>
  <2>1. t[1] = f /\ Len(t) = 1
    BY <1>1, <1>3
  <2>2. f.kind # "close" => f.from = seek[p]
    BY <1>3 DEF Fits
  <2>3. GoesOn(p, t[1])' /\ Synced(p, t)'
    BY <2>1, <2>2 DEF GoesOn, Synced
  <2>4. p \in alive' => t[Len(t)].to = cursor'[p]
    BY <2>1
  <2> QED BY <1>1, <1>2, <2>3, <2>4 DEF Fits
<1>4. CASE s # <<>>
  <2>1. 1 \in 1..Len(s) /\ t[1] = s[1]
    <3>1. Len(s) # 0
      BY <1>4
    <3> QED BY <1>1, <3>1
  <2>2. GoesOn(p, t[1])'
    <3>1. s[1] \in Frames
      BY <2>1
    <3>2. s[1].from \in Int
      BY <3>1 DEF Frames
    <3> QED BY <1>4, <2>1, <3>2 DEF Fits, GoesOn
  <2>3. Synced(p, t)'
    <3>1. (\A i \in 1..Len(t) : t[i].kind # "meta") => \A i \in 1..Len(s) : s[i].kind # "meta"
      BY <1>1
    <3> QED BY <1>4, <2>1, <3>1 DEF Fits, Synced
  <2>4. p \in alive' => t[Len(t)].to = cursor'[p]
    BY <1>1
  <2> QED BY <1>1, <1>2, <2>2, <2>3, <2>4 DEF Fits
<1> QED BY <1>3, <1>4

LEMMA OutputShows ==
  ASSUME IInv, ShowInv, NEW p \in Ptys, Output(p) PROVE ShowInv'
<1>t. Types /\ OfOne /\ Sizes /\ Served /\ \A q \in Ptys : Screen(q) /\ Feed(q)
  BY DEF IInv, ShowInv
<1> DEFINE held == {s \in subscribers[p] : Holds(s)}
<1>1. PICK n \in 1..(MaxOut[p] - cursor[p]) :
        /\ cursor' = [cursor EXCEPT ![p] = cursor[p] + n]
        /\ wire' = Send({s[2] : s \in held}, <<Frame(p, "data", cursor[p], cursor[p] + n)>>)
        /\ subscribers' = [subscribers EXCEPT ![p] = held]
        /\ bufferCursor' = [bufferCursor EXCEPT ![p] = Forgets(p, cursor[p] + n)]
  BY DEF Output
<1>2. p \in alive /\ UNCHANGED <<alive, data, ready, of, ask, link, client, conn, seek, shown>>
  BY DEF Output, clientVars
<1>3. PICK end : end = cursor[p] + n
  OBVIOUS
<1>4. /\ MaxOut[p] \in Nat /\ cursor[p] \in 0..MaxOut[p] /\ bufferCursor[p] \in 0..cursor[p]
      /\ cursor[p] - bufferCursor[p] <= Limit /\ seek[p] \in 0..cursor[p]
  BY <1>t, BoundsAssumption DEF Sizes
<1>5. /\ end \in 0..MaxOut[p] /\ cursor[p] <= end
      /\ cursor'[p] = end /\ \A q \in Ptys \ {p} : cursor'[q] = cursor[q]
  BY <1>1, <1>3, <1>4, <1>t DEF Types
<1>6. /\ bufferCursor[p] <= bufferCursor'[p] /\ bufferCursor'[p] \in 0..end
      /\ end - bufferCursor'[p] <= Limit
      /\ \A q \in Ptys \ {p} : bufferCursor'[q] = bufferCursor[q]
  <2>1. bufferCursor'[p] = IF end - bufferCursor[p] > Limit THEN end - Limit ELSE bufferCursor[p]
    BY <1>1, <1>3, <1>t DEF Types, Forgets
  <2>2. \A q \in Ptys \ {p} : bufferCursor'[q] = bufferCursor[q]
    BY <1>1, <1>t DEF Types
  <2> QED BY <1>4, <1>5, <2>1, <2>2, LimitAssumption
<1>7. PICK f \in Frames : f = Frame(p, "data", cursor[p], end)
                          /\ f.pty = p /\ f.kind = "data" /\ f.from = cursor[p] /\ f.to = end
  <2>1. cursor[p] \in Int /\ end \in Int
    BY <1>4, <1>5
  <2>2. Frame(p, "data", cursor[p], end) \in Frames
    BY <2>1 DEF Frame, Frames
  <2> QED BY <2>2 DEF Frame
<1>a. ASSUME NEW q \in Ptys
      PROVE  /\ cursor[q] \in Nat /\ cursor'[q] \in Nat /\ cursor[q] <= cursor'[q]
             /\ bufferCursor[q] \in Nat /\ bufferCursor'[q] \in Nat /\ bufferCursor[q] <= bufferCursor'[q]
             /\ seek[q] \in Nat /\ seek[q] <= cursor[q]
  <2>1. /\ MaxOut[q] \in Nat /\ cursor[q] \in 0..MaxOut[q] /\ bufferCursor[q] \in 0..cursor[q]
        /\ seek[q] \in 0..cursor[q]
    BY <1>t, BoundsAssumption DEF Sizes
  <2>2. CASE q = p
    BY <1>4, <1>5, <1>6, <2>1, <2>2
  <2>3. CASE q # p
    BY <1>5, <1>6, <2>1, <2>3
  <2> QED BY <2>2, <2>3
<1>8. ASSUME NEW k \in Conns
      PROVE  /\ wire'[k] = wire[k] \/ (link[k] = "open" /\ of[k] = p /\ wire'[k] = wire[k] \o <<f>>)
             /\ link[k] = "open" /\ of[k] = p => wire'[k] = wire[k] \o <<f>>
  <2>1. wire' = Send({s[2] : s \in held}, <<f>>)
    BY <1>1, <1>3, <1>7
  <2>2. held \in SUBSET subscribers[p] /\ \A s \in held : data[s[2]] = s[1]
    BY DEF Holds
  <2>3. ASSUME link[k] = "open", of[k] = p
        PROVE  \E w \in {s[2] : s \in held} : data[w] = k
    <3>1. PICK w \in Objects : <<k, w>> \in subscribers[p] /\ ready[w] /\ data[w] = k
      BY <1>2, <1>t, <2>3 DEF Served
    <3>2. <<k, w>> \in held /\ <<k, w>>[2] = w
      BY <3>1 DEF Holds
    <3> HIDE DEF held
    <3> QED BY <3>1, <3>2
  <2> HIDE DEF held
  <2>4. wire'[k] = wire[k] \/ (link[k] = "open" /\ of[k] = p /\ wire'[k] = wire[k] \o <<f>>)
    BY ZenonT(60), <2>1, <2>2, SendReaches
  <2>5. link[k] = "open" /\ of[k] = p => wire'[k] = wire[k] \o <<f>>
    BY <2>1, <2>3 DEF Send
  <2> QED BY <2>4, <2>5
<1>9. ASSUME NEW q \in Ptys, NEW x \in Int, Covered(q, x) PROVE Covered(q, x)'
  <2> SUFFICES ASSUME NEW n1 \in 1..x
               PROVE  n1 <= bufferCursor'[q] \/ \E j \in 1..Len(shown[q]) : shown[q][j] = n1
    BY <1>2 DEF Covered
  <2>1. n1 <= bufferCursor[q] \/ \E j \in 1..Len(shown[q]) : shown[q][j] = n1
    BY <1>9 DEF Covered
  <2> QED BY <1>a, <2>1
<1>10. Sizes'
  <2>2. ASSUME NEW g \in Frames, Whole(g) PROVE Whole(g)'
    <3>1. g.pty \in Ptys /\ g.to \in Int
      BY DEF Frames
    <3>2. cursor[g.pty] \in Int /\ cursor'[g.pty] \in Int /\ cursor[g.pty] <= cursor'[g.pty]
      BY <1>a, <3>1
    <3> QED BY <2>2, <3>1, <3>2 DEF Whole
  <2>3. Whole(f)'
    BY <1>4, <1>5, <1>7 DEF Whole
  <2>4. ASSUME NEW k \in Conns, NEW i \in 1..Len(wire'[k]) PROVE Whole(wire[k][i])'
    <3>1. wire[k] \in Seq(Frames) /\ \A j \in 1..Len(wire[k]) : wire[k][j] \in Frames /\ Whole(wire[k][j])
      BY <1>t DEF Types, Sizes
    <3>2. CASE wire'[k] = wire[k]
      <4>1. PICK g \in Frames : g = wire[k][i] /\ Whole(g)
        BY <2>4, <3>1, <3>2
      <4>2. Whole(g)'
        BY <2>2, <4>1
      <4> QED BY <3>2, <4>1, <4>2 DEF Whole
    <3>3. CASE wire'[k] = wire[k] \o <<f>>
      <4>1. PICK g \in Frames : g = wire'[k][i] /\ (g = f \/ Whole(g))
        BY <2>4, <3>1, <3>3, JoinOne
      <4>2. Whole(g)'
        BY <2>2, <2>3, <4>1
      <4> QED BY <4>1, <4>2 DEF Whole
    <3> QED BY <1>8, <3>2, <3>3
  <2>5. \A q \in Ptys : /\ cursor'[q] \in 0..MaxOut[q] /\ bufferCursor'[q] \in 0..cursor'[q]
                        /\ cursor'[q] - bufferCursor'[q] <= Limit
    BY <1>5, <1>6, <1>t DEF Sizes
  <2>6. ASSUME NEW q \in Ptys
        PROVE  /\ seek[q] \in 0..cursor'[q]
               /\ \A i \in 1..Len(shown[q]) : shown[q][i] \in 1..cursor'[q]
    <3>1. \A i \in 1..Len(shown[q]) : shown[q][i] \in 1..cursor[q]
      BY <1>t DEF Sizes
    <3> QED BY <1>a, <3>1
  <2>7. \A k \in Conns : of[k] # None => ask[k] <= cursor'[of[k]]
    <3> SUFFICES ASSUME NEW k \in Conns, of[k] # None PROVE ask[k] <= cursor'[of[k]]
      OBVIOUS
    <3>1. of[k] \in Ptys /\ ask[k] \in Int /\ ask[k] <= cursor[of[k]]
      BY <1>t DEF Types, Sizes
    <3> QED BY <1>a, <3>1
  <2> QED BY <1>2, <1>t, <2>4, <2>5, <2>6, <2>7 DEF Sizes
<1>11. Served'
  <2> SUFFICES ASSUME NEW k \in Conns, link[k] = "open", of[k] \in alive
               PROVE  \E w \in Objects : <<k, w>> \in subscribers'[of[k]] /\ ready[w] /\ data[w] = k
    BY <1>2 DEF Served
  <2>1. PICK w \in Objects : <<k, w>> \in subscribers[of[k]] /\ ready[w] /\ data[w] = k
    BY <1>t DEF Served
  <2>2. Holds(<<k, w>>)
    BY <2>1 DEF Holds
  <2> QED BY <1>1, <1>t, <2>1, <2>2 DEF Types
<1>12. ASSUME NEW q \in Ptys PROVE Screen(q)'
  <2>1. Screen(q) /\ seek[q] \in Int /\ \A i \in 1..Len(shown[q]) : shown[q][i] \in Int
    BY <1>t DEF Types, Sizes
  <2>2. bufferCursor'[q] = 0 => bufferCursor[q] = 0
    BY <1>a
  <2>3. Covered(q, seek[q])'
    <3>1. PICK x \in Int : x = seek[q]
      BY <2>1
    <3>2. Covered(q, x)'
      BY <1>9, <2>1, <3>1 DEF Screen
    <3> QED BY <1>2, <3>1, <3>2 DEF Covered
  <2>4. ASSUME NEW i \in 1..Len(shown[q]) PROVE Covered(q, shown[q][i])'
    <3>1. PICK x \in Int : x = shown[q][i]
      BY <2>1
    <3>2. Covered(q, x)'
      BY <1>9, <2>1, <3>1 DEF Screen
    <3> QED BY <1>2, <3>1, <3>2 DEF Covered
  <2> QED BY <1>2, <2>1, <2>2, <2>3, <2>4 DEF Screen
<1>13. ASSUME NEW q \in Ptys, conn[q] # None PROVE Feed(q)'
  <2>1. PICK k \in Conns : k = conn[q] /\ k # None /\ of[k] = q /\ Feed(q)
    BY <1>13, <1>t DEF Types, Feed
  <2>2. CASE q = p /\ link[k] = "open"
    <3>1. PICK s \in Seq(Frames) : s = wire[k]
      BY <1>t DEF Types
    <3>2. PICK t : t = s \o <<f>>
      OBVIOUS
    <3>3. Fits(p, s) /\ Covered(p, seek[p])
      BY <1>13, <1>t, <2>1, <2>2, <3>1 DEF Feed, Screen
    <3>4. /\ seek[p] \in Int /\ seek'[p] = seek[p] /\ (bufferCursor'[p] = 0 => bufferCursor[p] = 0)
          /\ \A x \in Int : Covered(p, x) => Covered(p, x)'
          /\ f.kind = "data" /\ f.from = cursor[p] /\ f.to = cursor'[p]
      BY <1>2, <1>4, <1>5, <1>6, <1>7, <1>9
    <3>5. Fits(p, t)'
      BY <1>2, <3>2, <3>3, <3>4, FitsAppend
    <3>6. wire'[k] = t
      BY <1>8, <2>1, <2>2, <3>1, <3>2
    <3> QED BY <1>2, <2>1, <2>2, <3>5, <3>6, FeedFits
  <2>3. CASE q = p /\ link[k] # "open"
    BY <1>2, <2>1, <2>3 DEF Feed
  <2>4. CASE q # p
    <3>1. wire'[k] = wire[k]
      BY <1>8, <2>1, <2>4
    <3> QED BY <1>2, <1>5, <1>6, <2>1, <2>4, <3>1, FeedStays
  <2> QED BY <2>2, <2>3, <2>4
<1>14. \A q \in Ptys : Feed(q)'
  BY <1>2, <1>13 DEF Feed
<1> QED BY <1>10, <1>11, <1>12, <1>14 DEF ShowInv

LEMMA RemoveShows ==
  ASSUME IInv, ShowInv, NEW p \in Ptys, Remove(p) PROVE ShowInv'
<1>t. Types /\ OfOne /\ Sizes /\ Served /\ \A q \in Ptys : Screen(q) /\ Feed(q)
  BY DEF IInv, ShowInv
<1> DEFINE held == {s \in subscribers[p] : data[s[2]] = s[1]}
<1>1. /\ wire' = Send({s[2] : s \in held}, <<Frame(p, "close", 0, 0)>>)
      /\ subscribers' = [subscribers EXCEPT ![p] = {}] /\ alive' = alive \ {p}
      /\ UNCHANGED <<cursor, bufferCursor, data, ready, of, ask, link, client, conn, seek, shown>>
  BY DEF Remove, clientVars
<1>2. PICK f \in Frames : f = Frame(p, "close", 0, 0)
                          /\ f.pty = p /\ f.kind = "close" /\ f.from = 0 /\ f.to = 0
  <2>1. Frame(p, "close", 0, 0) \in Frames
    BY DEF Frame, Frames
  <2> QED BY <2>1 DEF Frame
<1>3. ASSUME NEW k \in Conns
      PROVE  wire'[k] = wire[k] \/ (link[k] = "open" /\ of[k] = p /\ wire'[k] = wire[k] \o <<f>>)
  <2>1. wire' = Send({s[2] : s \in held}, <<f>>)
    BY <1>1, <1>2
  <2>2. held \in SUBSET subscribers[p] /\ \A s \in held : data[s[2]] = s[1]
    OBVIOUS
  <2> HIDE DEF held
  <2> QED BY ZenonT(60), <2>1, <2>2, SendReaches
<1>4. Sizes'
  <2>1. Whole(f)
    <3>1. 0 <= cursor[p]
      BY <1>t DEF Sizes, Types
    <3> QED BY <1>2, <3>1 DEF Whole
  <2>2. ASSUME NEW k \in Conns, NEW i \in 1..Len(wire'[k]) PROVE Whole(wire[k][i])'
    <3>1. wire[k] \in Seq(Frames) /\ \A j \in 1..Len(wire[k]) : Whole(wire[k][j])
      BY <1>t DEF Types, Sizes
    <3>2. Whole(wire'[k][i])
      <4>1. CASE wire'[k] = wire[k]
        BY <2>2, <3>1, <4>1
      <4>2. CASE wire'[k] = wire[k] \o <<f>>
        <5>1. wire'[k][i] = f \/ (i \in 1..Len(wire[k]) /\ wire'[k][i] = wire[k][i])
          BY <2>2, <3>1, <4>2, JoinOne
        <5> QED BY <2>1, <3>1, <5>1
      <4> QED BY <1>3, <4>1, <4>2
    <3> QED BY <1>1, <3>2 DEF Whole
  <2> QED BY <1>1, <1>t, <2>2 DEF Sizes
<1>5. Served'
  <2> SUFFICES ASSUME NEW k \in Conns, link[k] = "open", of[k] \in alive, of[k] # p
               PROVE  \E w \in Objects : <<k, w>> \in subscribers'[of[k]] /\ ready[w] /\ data[w] = k
    BY <1>1 DEF Served
  <2>1. of[k] \in Ptys /\ subscribers'[of[k]] = subscribers[of[k]]
    BY <1>1, <1>t DEF Types
  <2> QED BY <1>t, <2>1 DEF Served
<1>6. \A q \in Ptys : Screen(q)'
  BY <1>1, <1>t DEF Screen, Covered
<1>7. ASSUME NEW q \in Ptys, conn[q] # None PROVE Feed(q)'
  <2>1. PICK k \in Conns : k = conn[q] /\ k # None /\ of[k] = q /\ Feed(q)
    BY <1>7, <1>t DEF Types, Feed
  <2>2. CASE wire'[k] = wire[k]
    BY <1>1, <2>1, <2>2, FeedStays
  <2>3. CASE link[k] = "open" /\ of[k] = p /\ wire'[k] = wire[k] \o <<f>>
    <3>1. PICK s \in Seq(Frames) : s = wire[k]
      BY <1>t DEF Types
    <3>2. PICK t : t = s \o <<f>>
      OBVIOUS
    <3>3. Fits(p, s) /\ Covered(p, seek[p]) /\ seek[p] \in Int
      BY <1>7, <1>t, <2>1, <2>3, <3>1 DEF Feed, Screen, Types
    <3>4. \A x \in Int : Covered(p, x) => Covered(p, x)'
      BY <1>1 DEF Covered
    <3>5. Fits(p, t)'
      BY <1>1, <1>2, <3>2, <3>3, <3>4, FitsAppend
    <3> QED BY <1>1, <2>1, <2>3, <3>1, <3>2, <3>5, FeedFits
  <2> QED BY <1>3, <2>2, <2>3
<1>8. \A q \in Ptys : Feed(q)'
  BY <1>1, <1>7 DEF Feed
<1> QED BY <1>4, <1>5, <1>6, <1>8 DEF ShowInv

(* A terminal that takes a frame shows what the frame has, and no position  *)
(* between what it counted and what the frame has was there to be shown.    *)
LEMMA ReceiveShows ==
  ASSUME IInv, ShowInv, NEW k \in Conns, Receive(k) PROVE ShowInv'
<1>t. Types /\ OfOne /\ OutputIsolated /\ Sizes /\ Served /\ \A q \in Ptys : Screen(q) /\ Feed(q)
  BY DEF IInv, ShowInv
<1>0. link[k] = "open" /\ wire[k] # <<>> /\ conn[of[k]] = k
  BY DEF Receive
<1>1. PICK p \in Ptys : p = of[k]
  BY <1>0, <1>t DEF Types, OfOne
<1>2. PICK s \in Seq(Frames) : s = wire[k]
  BY <1>t DEF Types
<1>3. s # <<>> /\ Len(s) \in Nat /\ 1 \in 1..Len(s) /\ Head(s) = s[1] /\ s[1] \in Frames
      /\ Tail(s) \in Seq(Frames) /\ Len(Tail(s)) = Len(s) - 1
      /\ \A i \in 1..Len(Tail(s)) : Tail(s)[i] = s[i + 1] /\ i + 1 \in 1..Len(s)
  BY <1>0, <1>2
<1>4. PICK f \in Frames : f = s[1]
  BY <1>3
<1>5. PICK t \in Seq(Frames) : t = Tail(s)
  BY <1>3
<1>6. /\ conn[p] = k /\ f.kind # "close"
      /\ wire' = [wire EXCEPT ![k] = t]
      /\ client' = [client EXCEPT ![p] = "connected"]
      /\ seek' = [seek EXCEPT ![p] = Seek(p, f)]
      /\ shown' = IF f.kind = "meta" THEN shown
                  ELSE [shown EXCEPT ![p] = @ \o [i \in 1..(f.to - f.from) |-> f.from + i]]
      /\ UNCHANGED <<alive, cursor, bufferCursor, subscribers, data, ready, of, ask, link, conn>>
  BY <1>1, <1>2, <1>3, <1>4, <1>5 DEF Receive, serverVars
<1>7. Screen(p) /\ Fits(p, s)
  BY <1>0, <1>1, <1>2, <1>6, <1>t, NoneAssumption DEF Feed, Conns
<1>8. /\ f.from \in Nat /\ f.to \in Nat /\ f.from <= f.to /\ f.to <= cursor[p]
      /\ f.kind = "meta" => f.from = f.to
  <2>1. f.pty = p /\ Whole(f)
    BY <1>1, <1>2, <1>3, <1>4, <1>t DEF OutputIsolated, Sizes
  <2>2. f.from \in Int /\ f.to \in Int
    BY DEF Frames
  <2> QED BY <2>1, <2>2 DEF Whole
<1>9. /\ seek[p] <= f.from /\ Covered(p, f.from) /\ (bufferCursor[p] = 0 => f.from = seek[p])
      /\ cursor[p] \in Nat /\ seek[p] \in Nat /\ bufferCursor[p] \in Nat
  <2>1. /\ MaxOut[p] \in Nat /\ cursor[p] \in 0..MaxOut[p] /\ bufferCursor[p] \in 0..cursor[p]
        /\ seek[p] \in 0..cursor[p]
    BY <1>t, BoundsAssumption DEF Sizes
  <2> QED BY <1>3, <1>4, <1>6, <1>7, <2>1 DEF Fits, GoesOn
<1>10. /\ seek'[p] = (IF f.kind = "meta" THEN f.to ELSE seek[p] + (f.to - f.from))
       /\ \A q \in Ptys \ {p} : seek'[q] = seek[q]
  BY <1>6, <1>t DEF Types, Seek
<1>11. PICK a \in Seq(Int) : a = shown[p]
  BY <1>t DEF Sizes
<1>12. PICK b \in Seq(Int) :
         /\ shown' = [shown EXCEPT ![p] = b]
         /\ Len(a) \in Nat /\ Len(b) = Len(a) + (f.to - f.from)
         /\ \A i \in 1..Len(a) : b[i] = a[i]
         /\ \A i \in 1..(f.to - f.from) : b[Len(a) + i] = f.from + i
  <2>1. CASE f.kind = "meta"
    <3>1. f.to - f.from = 0
      BY <1>8, <2>1
    <3>2. shown' = [shown EXCEPT ![p] = a] /\ Len(a) \in Nat
      BY <1>6, <1>11, <1>t, <2>1 DEF Sizes
    <3>3. Len(a) = Len(a) + (f.to - f.from) /\ 1..(f.to - f.from) = {}
      BY <3>1, <3>2
    <3> QED BY <3>2, <3>3
  <2>2. CASE f.kind # "meta"
    <3> DEFINE add == [i \in 1..(f.to - f.from) |-> f.from + i]
    <3>1. add \in Seq(Int) /\ Len(add) = f.to - f.from
      <4>1. f.to - f.from \in Nat /\ \A i \in 1..(f.to - f.from) : f.from + i \in Int
        BY <1>8
      <4> HIDE DEF add
      <4>2. \A n \in Nat : \A g \in [1..n -> Int] : g \in Seq(Int) /\ Len(g) = n
        OBVIOUS
      <4>3. add \in [1..(f.to - f.from) -> Int]
        BY <4>1 DEF add
      <4> QED BY <4>1, <4>2, <4>3
    <3>2. \A i \in 1..(f.to - f.from) : add[i] = f.from + i
      OBVIOUS
    <3>3. shown' = [shown EXCEPT ![p] = a \o add]
      BY <1>6, <1>11, <1>t, <2>2 DEF Sizes
    <3> HIDE DEF add
    <3>4. /\ a \o add \in Seq(Int) /\ Len(a) \in Nat /\ Len(a \o add) = Len(a) + Len(add)
          /\ \A i \in 1..Len(a) : (a \o add)[i] = a[i]
          /\ \A i \in 1..Len(add) : (a \o add)[Len(a) + i] = add[i]
      BY <3>1, AppendedInts
    <3> QED BY <3>1, <3>2, <3>3, <3>4
  <2> QED BY <2>1, <2>2
<1>13. shown'[p] = b /\ \A q \in Ptys \ {p} : shown'[q] = shown[q]
  BY <1>12, <1>t DEF Sizes
<1>14. \A i \in 1..Len(b) :
         \/ i \in 1..Len(a) /\ b[i] = a[i]
         \/ i - Len(a) \in 1..(f.to - f.from) /\ b[i] = f.from + (i - Len(a))
  <2> SUFFICES ASSUME NEW i \in 1..Len(b), i \notin 1..Len(a)
               PROVE  i - Len(a) \in 1..(f.to - f.from) /\ b[i] = f.from + (i - Len(a))
    BY <1>12
  <2>1. i - Len(a) \in 1..(f.to - f.from) /\ Len(a) + (i - Len(a)) = i
    BY <1>8, <1>12
  <2> QED BY <1>12, <2>1
<1>15. Covered(p, f.to)'
  <2> SUFFICES ASSUME NEW n \in 1..f.to PROVE n <= bufferCursor[p] \/ \E j \in 1..Len(b) : b[j] = n
    BY <1>6, <1>13 DEF Covered
  <2>1. CASE n <= f.from
    <3>1. n <= bufferCursor[p] \/ \E j \in 1..Len(a) : a[j] = n
      <4>1. n \in 1..f.from
        BY <1>8, <2>1
      <4> QED BY <1>9, <1>11, <4>1 DEF Covered
    <3>2. \A j \in 1..Len(a) : j \in 1..Len(b) /\ b[j] = a[j]
      BY SMTT(60), <1>8, <1>12
    <3> QED BY <3>1, <3>2
  <2>2. CASE n > f.from
    <3>1. n - f.from \in 1..(f.to - f.from) /\ f.from + (n - f.from) = n
      BY <1>8, <2>2
    <3>2. Len(a) + (n - f.from) \in 1..Len(b)
      <4>1. /\ Len(a) \in Nat /\ Len(b) = Len(a) + (f.to - f.from)
            /\ n \in Nat /\ f.from < n /\ n <= f.to /\ f.from \in Nat /\ f.to \in Nat
        BY <1>8, <1>12, <2>2
      <4> QED BY <4>1, Within
    <3>3. b[Len(a) + (n - f.from)] = n
      <4> DEFINE m == n - f.from
      <4>1. m \in 1..(f.to - f.from) /\ f.from + m = n
        BY <3>1
      <4> HIDE DEF m
      <4>2. b[Len(a) + m] = n
        BY <1>12, <4>1
      <4> QED BY <4>2 DEF m
    <3> QED BY <3>2, <3>3
  <2> QED BY <1>8, <2>1, <2>2
<1>16. seek'[p] \in Nat /\ seek'[p] <= f.to
  BY <1>8, <1>9, <1>10
<1>17. bufferCursor[p] = 0 \/ f.kind = "meta" \/ f.from = seek[p] => seek'[p] = f.to
  BY <1>8, <1>9, <1>10
<1>18. ASSUME NEW x \in Int, Covered(p, x)' PROVE \A y \in Int : y <= x => Covered(p, y)'
  <2> SUFFICES ASSUME NEW y \in Int, y <= x, NEW n \in 1..y
               PROVE  n <= bufferCursor'[p] \/ \E j \in 1..Len(shown'[p]) : shown'[p][j] = n
    BY DEF Covered
  <2>1. n \in 1..x
    OBVIOUS
  <2> QED BY <1>18, <2>1 DEF Covered
<1>19. ASSUME NEW x \in Int, Covered(p, x) PROVE Covered(p, x)'
  <2> SUFFICES ASSUME NEW n \in 1..x PROVE n <= bufferCursor[p] \/ \E j \in 1..Len(b) : b[j] = n
    BY <1>6, <1>13 DEF Covered
  <2>1. n <= bufferCursor[p] \/ \E j \in 1..Len(a) : a[j] = n
    BY <1>11, <1>19 DEF Covered
  <2>2. \A j \in 1..Len(a) : j \in 1..Len(b) /\ b[j] = a[j]
    BY SMTT(60), <1>8, <1>12
  <2> QED BY <2>1, <2>2
<1>20. Screen(p)'
  <2>1. Covered(p, seek[p])'
    <3>1. PICK x \in Int : x = seek'[p]
      BY <1>16
    <3>2. Covered(p, x)'
      BY <1>8, <1>15, <1>16, <1>18, <3>1
    <3> QED BY <3>1, <3>2 DEF Covered
  <2>2. ASSUME NEW i \in 1..Len(b) PROVE Covered(p, b[i])'
    <3>1. CASE i \in 1..Len(a) /\ b[i] = a[i]
      <4>1. PICK x \in Int : x = a[i]
        BY <3>1
      <4>2. Covered(p, x)
        BY <1>7, <1>11, <3>1, <4>1 DEF Screen
      <4>3. Covered(p, x)'
        BY <1>19, <4>2
      <4> QED BY <3>1, <4>1, <4>3
    <3>2. CASE i - Len(a) \in 1..(f.to - f.from) /\ b[i] = f.from + (i - Len(a))
      <4>1. b[i] \in Int /\ b[i] <= f.to
        BY SMTT(60), <1>8, <1>12, <3>2
      <4> QED BY <1>8, <1>15, <1>18, <4>1
    <3> QED BY <1>14, <3>1, <3>2
  <2>3. ASSUME bufferCursor[p] = 0
        PROVE  Len(b) = seek'[p] /\ \A i \in 1..Len(b) : b[i] = i
    <3>1. Len(a) = f.from /\ \A i \in 1..Len(a) : a[i] = i
      BY <1>7, <1>9, <1>11, <2>3 DEF Screen
    <3>2. Len(b) = f.to /\ seek'[p] = f.to
      BY <1>8, <1>12, <1>17, <2>3, <3>1
    <3>3. ASSUME NEW i \in 1..Len(b) PROVE b[i] = i
      <4>1. CASE i \in 1..Len(a) /\ b[i] = a[i]
        BY <3>1, <4>1
      <4>2. CASE b[i] = f.from + (i - Len(a))
        <5>1. i \in Int
          OBVIOUS
        <5> QED BY <1>8, <3>1, <4>2, <5>1
      <4> QED BY <1>14, <4>1, <4>2
    <3> QED BY <3>2, <3>3
  <2>4. \A i \in 1..Len(shown'[p]) : Covered(p, shown[p][i])'
    BY <1>13, <2>2 DEF Covered
  <2> QED BY <1>6, <1>13, <2>1, <2>3, <2>4 DEF Screen
<1>21. ASSUME NEW q \in Ptys, q # p PROVE Screen(q)'
  BY <1>6, <1>10, <1>13, <1>21, <1>t DEF Screen, Covered
<1>22. Sizes'
  <2>1. client' \in [Ptys -> {"dialing", "connected", "retrying", "failed", "ended", "unmounted"}]
        /\ shown' \in [Ptys -> Seq(Int)]
    BY <1>6, <1>12, <1>t DEF Sizes
  <2>2. ASSUME NEW q \in Ptys
        PROVE  seek'[q] \in 0..cursor[q] /\ \A i \in 1..Len(shown'[q]) : shown'[q][i] \in 1..cursor[q]
    <3>1. CASE q = p
      <4>1. \A i \in 1..Len(a) : a[i] \in 1..cursor[p]
        BY <1>11, <1>t DEF Sizes
      <4>2. ASSUME NEW i \in 1..Len(b) PROVE b[i] \in 1..cursor[p]
        <5>1. CASE i - Len(a) \in 1..(f.to - f.from) /\ b[i] = f.from + (i - Len(a))
          <6>1. PICK m \in 1..(f.to - f.from) : b[i] = f.from + m
            BY <5>1
          <6>2. /\ f.from \in Nat /\ f.to \in Nat /\ cursor[p] \in Nat /\ f.to <= cursor[p]
                /\ m \in Nat /\ 1 <= m /\ m <= f.to - f.from
            BY <1>8, <1>9
          <6> QED BY SMTT(60), <6>1, <6>2
        <5> QED BY <1>14, <4>1, <5>1
      <4>3. seek'[p] \in 0..cursor[p]
        BY <1>8, <1>9, <1>16
      <4> QED BY <1>13, <3>1, <4>2, <4>3
    <3>2. CASE q # p
      BY <1>10, <1>13, <1>t, <3>2 DEF Sizes
    <3> QED BY <3>1, <3>2
  <2>3. ASSUME NEW j \in Conns, NEW i \in 1..Len(wire'[j]) PROVE Whole(wire'[j][i])
    <3>1. CASE j = k
      <4>1. wire'[k] = t /\ \A x \in 1..Len(s) : Whole(s[x])
        BY <1>2, <1>6, <1>t DEF Types, Sizes
      <4> QED BY <1>3, <1>5, <2>3, <3>1, <4>1
    <3>2. CASE j # k
      BY <1>6, <1>t, <2>3, <3>2 DEF Types, Sizes
    <3> QED BY <3>1, <3>2
  <2>4. \A j \in Conns : \A i \in 1..Len(wire'[j]) : Whole(wire[j][i])'
    BY <1>6, <2>3 DEF Whole
  <2> QED BY <1>6, <1>t, <2>1, <2>2, <2>4 DEF Sizes
<1>23. Served'
  BY <1>6, <1>t DEF Served
<1>24. Fits(p, t)'
  <2>1. Chained(t)'
    <3> SUFFICES ASSUME NEW i \in 1..Len(t), NEW j \in 1..Len(t), j = i + 1, t[j].kind # "close"
                 PROVE  t[j].from = t[i].to
      BY DEF Chained
    <3>1. /\ i + 1 \in 1..Len(s) /\ j + 1 \in 1..Len(s) /\ j + 1 = (i + 1) + 1
          /\ t[i] = s[i + 1] /\ t[j] = s[j + 1]
      BY <1>3, <1>5
    <3> QED BY <1>7, <3>1 DEF Fits, Chained
  <2>2. CASE t = <<>>
    <3>1. Len(s) = 1
      <4>1. Len(t) = 0
        BY <2>2
      <4> QED BY SMTT(60), <1>3, <1>5, <4>1
    <3>2. f.kind # "meta" => f.from = seek[p]
      <4>1. \A i \in 1..Len(s) : s[i] = f
        <5>1. \A n \in Nat : n = 1 => \A i \in 1..n : i = 1
          OBVIOUS
        <5> QED BY <1>3, <1>4, <3>1, <5>1
      <4> QED BY <1>3, <1>4, <1>6, <1>7, <4>1 DEF Fits, Synced
    <3>3. p \in alive => seek'[p] = cursor[p]
      BY <1>3, <1>4, <1>7, <1>17, <3>1, <3>2 DEF Fits
    <3>4. Synced(p, t)'
      BY <2>2 DEF Synced
    <3> QED BY <1>6, <2>1, <2>2, <3>3, <3>4 DEF Fits
  <2>3. CASE t # <<>>
    <3>1. Len(s) # 1 /\ Len(t) # 0
      BY <1>3, <1>5, <2>3
    <3>2. /\ 1 \in 1..Len(t) /\ 1 + 1 \in 1..Len(s) /\ t[1] = s[1 + 1]
          /\ Len(t) \in 1..Len(t) /\ t[Len(t)] = s[Len(s)]
      <4>1. Len(t) \in Nat /\ Len(t) + 1 = Len(s)
        BY <1>3, <1>5
      <4>2. 1 \in 1..Len(t) /\ Len(t) \in 1..Len(t)
        BY <3>1, <4>1
      <4> QED BY <1>3, <1>5, <4>1, <4>2
    <3>3. t[1].kind # "close" => t[1].from = f.to
      BY <1>3, <1>4, <1>7, <3>2 DEF Fits, Chained
    <3>4. GoesOn(p, t[1])'
      <4>1. ASSUME t[1].kind # "close"
            PROVE  seek'[p] <= t[1].from /\ Covered(p, t[1].from)'
                   /\ (bufferCursor[p] = 0 => t[1].from = seek'[p])
        <5>1. PICK x : x = f.to /\ x = t[1].from
          BY <3>3, <4>1
        <5> QED BY <1>15, <1>16, <1>17, <5>1
      <4> QED BY <1>6, <4>1 DEF GoesOn
    <3>5. Synced(p, t)'
      <4> SUFFICES ASSUME \A i \in 1..Len(t) : t[i].kind # "meta", t[1].kind # "close"
                   PROVE  t[1].from = seek'[p]
        BY DEF Synced
      <4>1. CASE f.kind = "meta"
        BY <1>17, <3>3, <4>1
      <4>2. CASE f.kind # "meta"
        <5>1. \A i \in 1..Len(s) : i = 1 \/ (i - 1 \in 1..Len(t) /\ (i - 1) + 1 = i)
          BY <1>3, <1>5
        <5>2. \A i \in 1..Len(s) : s[i].kind # "meta"
          BY <1>3, <1>4, <1>5, <4>2, <5>1
        <5>3. f.from = seek[p]
          BY <1>3, <1>4, <1>6, <1>7, <5>2 DEF Fits, Synced
        <5> QED BY <1>17, <3>3, <5>3
      <4> QED BY <4>1, <4>2
    <3>6. p \in alive => t[Len(t)].to = cursor[p]
      BY <1>3, <1>7, <3>2 DEF Fits
    <3> QED BY <1>6, <2>1, <2>3, <3>4, <3>5, <3>6 DEF Fits
  <2> QED BY <2>2, <2>3
<1>25. ASSUME NEW q \in Ptys, conn[q] # None PROVE Feed(q)'
  <2>1. PICK j \in Conns : j = conn[q] /\ j # None /\ of[j] = q /\ Feed(q)
    BY <1>25, <1>t DEF Types, Feed
  <2>2. CASE q = p
    <3>1. j = k /\ wire'[k] = t
      BY <1>6, <1>t, <2>1, <2>2 DEF Types
    <3> QED BY <1>0, <1>1, <1>6, <1>24, <2>1, <2>2, <3>1, FeedFits
  <2>3. CASE q # p
    <3>1. j # k /\ wire'[j] = wire[j]
      BY <1>1, <1>6, <1>t, <2>1, <2>3 DEF Types
    <3> QED BY <1>6, <1>10, <1>13, <2>1, <2>3, <3>1, FeedStays
  <2> QED BY <2>2, <2>3
<1>26. \A q \in Ptys : Feed(q)'
  BY <1>6, <1>25 DEF Feed
<1> QED BY <1>20, <1>21, <1>22, <1>23, <1>26 DEF ShowInv

(* A step after which nobody has another connection or object than before.  *)
LEMMA ServedStays ==
  ASSUME Served, UNCHANGED <<of, data, ready>>, alive' \subseteq alive,
         \A k \in Conns : link'[k] = "open" => link[k] = "open",
         \A p \in Ptys : subscribers'[p] = subscribers[p], Types
  PROVE  Served'
<1> SUFFICES ASSUME NEW k \in Conns, link'[k] = "open", of[k] \in alive
             PROVE  \E w \in Objects : <<k, w>> \in subscribers'[of[k]] /\ ready[w] /\ data[w] = k
  BY DEF Served
<1>1. of[k] \in Ptys
  BY DEF Types
<1> QED BY <1>1 DEF Served

LEMMA ShowStep == IInv /\ ShowInv /\ [Next]_vars => ShowInv'
<1> SUFFICES ASSUME IInv, ShowInv, [Next]_vars PROVE ShowInv'
  OBVIOUS
<1>t. Types /\ OfOne /\ Sizes /\ Served
  BY DEF IInv, ShowInv
<1>n. Types'
  BY NextInv DEF IInv
<1>1. CASE UNCHANGED vars
  BY <1>1 DEF vars, serverVars, linkVars, clientVars, ShowInv, Sizes, Whole, Served, Screen,
     Covered, Feed, Fits, Chained, GoesOn, Synced
<1>2. ASSUME NEW p \in Ptys, Retry(p) PROVE ShowInv'
  <2>1. CASE p \in alive
    BY <1>2, <2>1, OpenShows DEF Retry
  <2>2. CASE p \notin alive
    <3>1. client' = [client EXCEPT ![p] = "failed"]
          /\ UNCHANGED <<serverVars, linkVars, conn, seek, shown>>
      BY <1>2, <2>2 DEF Retry
    <3>2. client' \in [Ptys -> {"dialing", "connected", "retrying", "failed", "ended", "unmounted"}]
      BY <1>t, <3>1 DEF Sizes
    <3>3. Served'
      BY <1>t, <3>1, ServedStays DEF serverVars, linkVars
    <3> QED BY <1>n, <1>t, <3>1, <3>2, <3>3, QuietShows DEF serverVars, linkVars, Sizes
  <2> QED BY <2>1, <2>2
<1>3. ASSUME NEW k \in Conns, Refuse(k) PROVE ShowInv'
  <2>1. link[k] = "dialing" /\ link' = [link EXCEPT ![k] = "broken"]
        /\ UNCHANGED <<serverVars, of, ask, wire, clientVars>>
    BY <1>3 DEF Refuse
  <2>2. \A j \in Conns : /\ link'[j] = "open" => link[j] = "open"
                         /\ link'[j] = "dialing" => link[j] = "dialing"
    BY <1>t, <2>1 DEF Types
  <2>3. Served'
    BY <1>t, <2>1, <2>2, ServedStays DEF serverVars
  <2> QED BY <1>n, <1>t, <2>1, <2>2, <2>3, QuietShows DEF serverVars, clientVars, Sizes
<1>4. ASSUME NEW w \in Objects, ObjectCloses(w) PROVE ShowInv'
  <2>1. /\ link[data[w]] \in {"broken", "closed"} /\ ready' = [ready EXCEPT ![w] = FALSE]
        /\ UNCHANGED <<alive, cursor, bufferCursor, subscribers, data, linkVars, clientVars>>
    BY <1>4 DEF ObjectCloses
  <2>2. Served'
    <3> SUFFICES ASSUME NEW k \in Conns, link[k] = "open", of[k] \in alive
                 PROVE  \E x \in Objects : <<k, x>> \in subscribers[of[k]] /\ ready'[x] /\ data[x] = k
      BY <2>1 DEF Served, linkVars
    <3>1. PICK x \in Objects : <<k, x>> \in subscribers[of[k]] /\ ready[x] /\ data[x] = k
      BY <1>t DEF Served
    <3>2. x # w
      BY <2>1, <3>1
    <3> QED BY <1>t, <2>1, <3>1, <3>2 DEF Sizes
  <2>3. ready' \in [Objects -> BOOLEAN]
    BY <1>t, <2>1 DEF Sizes
  <2> QED BY <1>n, <1>t, <2>1, <2>2, <2>3, QuietShows DEF linkVars, clientVars, Sizes
<1>5. ASSUME NEW p \in Ptys, NEW s \in subscribers[p], OnClose(p, s) PROVE ShowInv'
  <2>1. /\ link[s[1]] \in {"broken", "closed"} /\ subscribers' = [subscribers EXCEPT ![p] = @ \ {s}]
        /\ UNCHANGED <<alive, cursor, bufferCursor, data, ready, linkVars, clientVars>>
    BY <1>5 DEF OnClose
  <2>2. Served'
    <3> SUFFICES ASSUME NEW k \in Conns, link[k] = "open", of[k] \in alive
                 PROVE  \E x \in Objects : <<k, x>> \in subscribers'[of[k]] /\ ready[x] /\ data[x] = k
      BY <2>1 DEF Served, linkVars
    <3>1. PICK x \in Objects : <<k, x>> \in subscribers[of[k]] /\ ready[x] /\ data[x] = k
      BY <1>t DEF Served
    <3>2. <<k, x>> # s /\ of[k] \in Ptys
      <4>1. <<k, x>>[1] = k
        OBVIOUS
      <4> QED BY <1>t, <2>1, <4>1 DEF Types
    <3> QED BY <1>t, <2>1, <3>1, <3>2 DEF Types
  <2> QED BY <1>n, <1>t, <2>1, <2>2, QuietShows DEF linkVars, clientVars, Sizes
<1>6. ASSUME NEW k \in Conns, ReceiveClose(k) PROVE ShowInv'
  <2>1. /\ link[k] = "open"
        /\ link' = [link EXCEPT ![k] = "closed"] /\ wire' = [wire EXCEPT ![k] = <<>>]
        /\ UNCHANGED <<serverVars, of, ask, seek, shown>>
        /\ conn' = [conn EXCEPT ![of[k]] = None]
        /\ \/ client' = [client EXCEPT ![of[k]] = "retrying"]
           \/ client' = [client EXCEPT ![of[k]] = "ended"]
    BY <1>6 DEF ReceiveClose, Lost
  <2>2. \A j \in Conns : /\ link'[j] = "open" => link[j] = "open" /\ wire'[j] = wire[j]
                         /\ link'[j] = "dialing" => link[j] = "dialing"
                         /\ wire'[j] = wire[j] \/ wire'[j] = <<>>
    BY <1>t, <2>1 DEF Types
  <2>3. Served'
    BY <1>t, <2>1, <2>2, ServedStays DEF serverVars
  <2>4. client' \in [Ptys -> {"dialing", "connected", "retrying", "failed", "ended", "unmounted"}]
        /\ \A q \in Ptys : conn'[q] = conn[q] \/ conn'[q] = None
    BY <1>t, <2>1 DEF Sizes, Types
  <2> QED BY <1>n, <1>t, <2>1, <2>2, <2>3, <2>4, QuietShows DEF serverVars, Sizes
<1>7. ASSUME NEW k \in Conns, Break(k) PROVE ShowInv'
  <2>1. /\ link' = [link EXCEPT ![k] = "broken"] /\ wire' = [wire EXCEPT ![k] = <<>>]
        /\ UNCHANGED <<serverVars, of, ask, clientVars>>
    BY <1>7 DEF Break
  <2>2. \A j \in Conns : /\ link'[j] = "open" => link[j] = "open" /\ wire'[j] = wire[j]
                         /\ link'[j] = "dialing" => link[j] = "dialing"
                         /\ wire'[j] = wire[j] \/ wire'[j] = <<>>
    BY <1>t, <2>1 DEF Types
  <2>3. Served'
    BY <1>t, <2>1, <2>2, ServedStays DEF serverVars
  <2> QED BY <1>n, <1>t, <2>1, <2>2, <2>3, QuietShows DEF serverVars, clientVars, Sizes
<1>8. ASSUME NEW p \in Ptys, NoticeBreak(p) PROVE ShowInv'
  <2>1. /\ client' = [client EXCEPT ![p] = "retrying"] /\ conn' = [conn EXCEPT ![p] = None]
        /\ UNCHANGED <<serverVars, linkVars, seek, shown>>
    BY <1>8 DEF NoticeBreak, Lost
  <2>2. client' \in [Ptys -> {"dialing", "connected", "retrying", "failed", "ended", "unmounted"}]
        /\ \A q \in Ptys : conn'[q] = conn[q] \/ conn'[q] = None
    BY <1>t, <2>1 DEF Sizes, Types
  <2>3. Served'
    BY <1>t, <2>1, ServedStays DEF serverVars, linkVars
  <2> QED BY <1>n, <1>t, <2>1, <2>2, <2>3, QuietShows DEF serverVars, linkVars, Sizes
<1>9. ASSUME NEW p \in Ptys, Unmount(p) PROVE ShowInv'
  <2>1. /\ client' = [client EXCEPT ![p] = "unmounted"] /\ conn' = [conn EXCEPT ![p] = None]
        /\ IF conn[p] = None THEN UNCHANGED <<link, wire>>
           ELSE /\ link' = [link EXCEPT ![conn[p]] = "closed"]
                /\ wire' = [wire EXCEPT ![conn[p]] = <<>>]
        /\ UNCHANGED <<serverVars, of, ask, seek, shown>>
    BY <1>9 DEF Unmount
  <2>2. client' \in [Ptys -> {"dialing", "connected", "retrying", "failed", "ended", "unmounted"}]
        /\ \A q \in Ptys : conn'[q] = conn[q] \/ conn'[q] = None
    BY <1>t, <2>1 DEF Sizes, Types
  <2>3. \A j \in Conns : /\ link'[j] = "open" => link[j] = "open" /\ wire'[j] = wire[j]
                         /\ link'[j] = "dialing" => link[j] = "dialing"
                         /\ wire'[j] = wire[j] \/ wire'[j] = <<>>
    BY <1>t, <2>1 DEF Types
  <2>4. Served'
    BY <1>t, <2>1, <2>3, ServedStays DEF serverVars
  <2> QED BY <1>n, <1>t, <2>1, <2>2, <2>3, <2>4, QuietShows DEF serverVars, Sizes
<1> QED
  BY <1>1, <1>2, <1>3, <1>4, <1>5, <1>6, <1>7, <1>8, <1>9,
     OutputShows, RemoveShows, OpenShows, AcceptShows, ReceiveShows
  DEF Next, Mount

LEMMA ShowInvariance == Spec => [](IInv /\ ShowInv)
<1>1. Init => IInv /\ ShowInv
  BY InitInv, InitShow
<1>2. (IInv /\ ShowInv) /\ [Next]_vars => (IInv /\ ShowInv)'
  BY NextInv, ShowStep
<1> QED BY <1>1, <1>2, PTL DEF Spec

(* Every variable keeps its type, no session's buffer grows past its limit, *)
(* and no terminal shows or counts what was not put out: PtyStream.TypeOK.  *)
THEOREM TypeCorrect == Spec => []TypeOK
<1>1. ASSUME IInv, ShowInv PROVE TypeOK
  <2> USE <1>1
  <2>t. Types /\ Sizes
    BY DEF IInv, ShowInv
  <2> DEFINE Sent1 == [pty : Ptys, kind : {"data", "meta", "close"}, from : Nat, to : Nat]
  <2>1. wire \in [Conns -> Seq(Sent1)]
    <3> SUFFICES ASSUME NEW k \in Conns PROVE wire[k] \in Seq(Sent1)
      BY <2>t DEF Types
    <3>1. wire[k] \in Seq(Frames)
      BY <2>t DEF Types
    <3>2. ASSUME NEW i \in 1..Len(wire[k]) PROVE wire[k][i] \in Sent1
      <4>1. PICK f \in Frames : f = wire[k][i] /\ Whole(f)
        BY <2>t, <3>1 DEF Sizes
      <4>2. cursor[f.pty] \in Int /\ f.from \in Int /\ f.to \in Int
        BY <2>t DEF Frames, Types
      <4>3. f.from \in Nat /\ f.to \in Nat
        BY <4>1, <4>2 DEF Whole
      <4> QED BY <4>1, <4>3 DEF Frames
    <3> HIDE DEF Sent1
    <3> QED BY <3>1, <3>2
  <2>2. \A p \in Ptys : shown[p] \in Seq(1..cursor[p])
    <3> SUFFICES ASSUME NEW p \in Ptys PROVE shown[p] \in Seq(1..cursor[p])
      OBVIOUS
    <3>1. PICK S : S = 1..cursor[p]
      OBVIOUS
    <3>2. shown[p] \in Seq(Int) /\ \A i \in 1..Len(shown[p]) : shown[p][i] \in S
      BY <2>t, <3>1 DEF Sizes
    <3>3. \A u \in Seq(Int) : (\A i \in 1..Len(u) : u[i] \in S) => u \in Seq(S)
      OBVIOUS
    <3> QED BY <3>1, <3>2, <3>3
  <2>3. ask \in [Conns -> Nat]
    BY <2>t DEF Types, Sizes
  <2> QED BY <2>t, <2>1, <2>2, <2>3 DEF Types, Sizes, TypeOK
<1> QED BY <1>1, ShowInvariance, PTL

(* However connections break, terminals come and go, buffers forget and     *)
(* websocket objects are used again, what a terminal shows is in order,     *)
(* without repetition, and only what a buffer has forgotten is missing from *)
(* it: PtyStream.ShownFaithfully.                                           *)
THEOREM ShownIsFaithful == Spec => []ShownFaithfully
<1>1. ASSUME IInv, ShowInv PROVE ShownFaithfully
  <2> USE <1>1
  <2>1. \A p \in Ptys : Screen(p) /\ shown[p] \in Seq(Int)
    <3>1. \A p \in Ptys : Screen(p)
      BY DEF ShowInv
    <3> QED BY <3>1 DEF ShowInv, Sizes
  <2>2. \A p \in Ptys : DOMAIN shown[p] = 1..Len(shown[p])
    <3>1. \A u \in Seq(Int) : DOMAIN u = 1..Len(u)
      OBVIOUS
    <3> QED BY <2>1, <3>1
  <2>3. ShownInOrder
    BY <2>1, <2>2 DEF ShownInOrder, Screen
  <2>4. OnlyForgottenIsSkipped
    <3> SUFFICES ASSUME NEW p \in Ptys, NEW i \in DOMAIN shown[p], NEW n \in 1..shown[p][i]
                 PROVE  n <= bufferCursor[p] \/ \E j \in DOMAIN shown[p] : shown[p][j] = n
      BY DEF OnlyForgottenIsSkipped
    <3>1. Covered(p, shown[p][i])
      BY <2>1, <2>2 DEF Screen
    <3> QED BY <2>2, <3>1 DEF Covered
  <2> QED BY <2>3, <2>4 DEF ShownFaithfully
<1> QED BY <1>1, ShowInvariance, PTL

----------------------------------------------------------------------------
(* The relay: it has one connection at most that wants to be open, and an   *)
(* attempt that others join is the one that counts.                         *)

RelayTypes ==
  /\ st \in [Relays -> Places] /\ closed \in [Relays -> BOOLEAN]
  /\ phase \in [Relays -> {"idle", "checking", "done"}]
  /\ remote \in Relays \cup {NoRelay}
  /\ enabling \in Relays \cup {NoRelay} /\ current \in Relays \cup {NoRelay}

(* A connection belongs to an attempt that is through, and the enabled one  *)
(* to the attempt that counts.                                              *)
RelayAttempts ==
  /\ \A c \in Relays : phase[c] # "done" => st[c] = "new"
  /\ \A c \in Relays : st[c] = "new" => ~ closed[c]
  /\ remote # NoRelay => current = remote /\ phase[remote] = "done"

RelayInv == RelayTypes /\ RelayAttempts /\ OneRemote /\ JoinsCurrent

LEMMA RelayInitInv == ASSUME ControlInit PROVE RelayInv
  BY SizeAssumption, NoRelayAssumption DEF ControlInit, WsInit, RelayInv, RelayTypes, RelayAttempts,
         OneRemote, JoinsCurrent, Places

(* A step of a connection neither ends one that wants to be open nor starts *)
(* one.                                                                     *)
LEMMA SocketStays ==
  ASSUME RelayTypes, NEW c \in Relays, SocketStep(c)
  PROVE  /\ st' \in [Relays -> Places] /\ UNCHANGED closed
         /\ \A d \in Relays : (st[d] = "new") <=> (st'[d] = "new")
         /\ \A d \in Relays : ~ closed[d] => (st[d] \in {"new", "ended", "refused"} <=>
                                             st'[d] \in {"new", "ended", "refused"})
<1> USE DEF RelayTypes, Places
<1>1. CASE NoToken(c)
  BY <1>1 DEF NoToken
<1>2. CASE GotToken(c)
  BY <1>2 DEF GotToken
<1>3. CASE Opened(c)
  BY <1>3 DEF Opened
<1>4. CASE Disconnected(c)
  BY <1>4 DEF Disconnected, SocketEnds
<1>5. CASE Timer(c)
  BY <1>5 DEF Timer
<1>6. CASE PeerLost(c)
  BY <1>6 DEF PeerLost
<1>7. CASE Silence(c)
  BY <1>7 DEF Silence
<1> QED BY <1>1, <1>2, <1>3, <1>4, <1>5, <1>6, <1>7 DEF SocketStep

LEMMA RelayNextInv == ASSUME RelayInv, [ControlNext]_allVars PROVE RelayInv'
<1> USE SizeAssumption, NoRelayAssumption
<1>t. RelayTypes /\ RelayAttempts /\ OneRemote /\ JoinsCurrent
  BY DEF RelayInv
<1>1. ASSUME NEW c \in Relays, EnableRemote(c)
      PROVE RelayInv'
  BY <1>1, <1>t DEF EnableRemote, wsVars, RelayInv, RelayTypes, RelayAttempts,
             OneRemote, JoinsCurrent
<1>2. ASSUME NEW c \in Relays, CheckFails(c)
      PROVE RelayInv'
  BY <1>2, <1>t DEF CheckFails, Settled, wsVars, RelayInv, RelayTypes,
             RelayAttempts, OneRemote, JoinsCurrent
<1>3. ASSUME NEW c \in Relays, ConnectRemote(c)
      PROVE RelayInv'
  <2>1. /\ st[c] = "new" /\ phase[c] = "checking"
        /\ st' = [st EXCEPT ![c] = "token"] /\ closed' = [closed EXCEPT ![c] = (current # c)]
        /\ phase' = [phase EXCEPT ![c] = "done"]
        /\ enabling' = IF current = c THEN NoRelay ELSE enabling
        /\ remote' = IF current = c THEN c ELSE remote
        /\ current' = current
    BY <1>3 DEF ConnectRemote, Connect, Settled
  <2>2. current = c => remote = NoRelay
    BY <2>1, <1>t DEF RelayAttempts, RelayTypes
  <2>3. RelayTypes'
    BY <2>1, <1>t DEF RelayTypes, Places
  <2>4. RelayAttempts'
    BY <2>1, <2>2, <1>t DEF RelayTypes, RelayAttempts
  <2>5. OneRemote'
    <3> SUFFICES ASSUME NEW d \in Relays
                 PROVE  (~ closed'[d] /\ st'[d] \notin {"new", "ended",
             "refused"}) <=> remote' = d
      BY DEF OneRemote
    <3>1. CASE d = c
      BY <3>1, <2>1, <2>2, <1>t DEF RelayTypes, OneRemote
    <3>2. CASE d # c
      BY <3>2, <2>1, <2>2, <1>t DEF RelayTypes, OneRemote
    <3> QED BY <3>1, <3>2
  <2>6. JoinsCurrent'
    BY <2>1, <1>t DEF RelayTypes, JoinsCurrent
  <2> QED BY <2>3, <2>4, <2>5, <2>6 DEF RelayInv
<1>4. ASSUME NEW c \in Relays, RefusedRemote(c)
      PROVE RelayInv'
  <2>1. /\ ~ closed[c] /\ st[c] = "open" /\ st' = [st EXCEPT ![c] = "refused"]
        /\ current' = NoRelay /\ enabling' = NoRelay /\ remote' = NoRelay
        /\ UNCHANGED <<closed, phase>>
    BY <1>4 DEF RefusedRemote, Refused
  <2>2. remote = c
    BY <2>1, <1>t DEF OneRemote
  <2> QED BY <2>1, <2>2, <1>t DEF RelayInv, RelayTypes, Places, RelayAttempts,
             OneRemote, JoinsCurrent
<1>5. ASSUME NEW c \in Relays, RefusedClosed(c)
      PROVE RelayInv'
  <2>1. /\ closed[c] /\ st[c] = "open" /\ st' = [st EXCEPT ![c] = "ended"]
        /\ UNCHANGED <<closed, control>>
    BY <1>5 DEF RefusedClosed, Refused
  <2> QED BY <2>1, <1>t DEF control, RelayInv, RelayTypes, Places, RelayAttempts,
             OneRemote, JoinsCurrent
<1>6. ASSUME NEW c \in Relays, SocketStep(c) \/ SendMessage(c), UNCHANGED control
      PROVE RelayInv'
  <2>1. CASE SocketStep(c)
    BY <2>1, <1>6, <1>t, SocketStays
       DEF control, RelayInv, RelayTypes, RelayAttempts, OneRemote, JoinsCurrent
  <2>2. CASE SendMessage(c)
    BY <2>2, <1>6, <1>t DEF SendMessage, control, RelayInv, RelayTypes, RelayAttempts,
             OneRemote, JoinsCurrent
  <2> QED BY <1>6, <2>1, <2>2
<1>7. CASE DisableRemote
  <2>1. /\ current' = NoRelay /\ enabling' = NoRelay /\ remote' = NoRelay /\ UNCHANGED phase
    BY <1>7 DEF DisableRemote
  <2>2. CASE remote = NoRelay
    BY <2>1, <2>2, <1>7, <1>t
       DEF DisableRemote, wsVars, RelayInv, RelayTypes, RelayAttempts,
           OneRemote, JoinsCurrent
  <2>3. CASE remote # NoRelay
    <3>1. /\ remote \in Relays /\ st[remote] # "new"
          /\ closed' = [closed EXCEPT ![remote] = TRUE] /\ st' = Shut(st, remote)
      BY <2>3, <1>7, <1>t DEF DisableRemote, Close, RelayTypes
    <3>2. /\ st' \in [Relays -> Places]
          /\ \A d \in Relays : st'[d] = "new" <=> st[d] = "new"
          /\ \A d \in Relays : d # remote => st'[d] = st[d]
      BY <3>1, <1>t DEF Shut, RelayTypes, Places
    <3> QED BY <2>1, <2>3, <3>1, <3>2, <1>t
            DEF RelayInv, RelayTypes, RelayAttempts, OneRemote, JoinsCurrent
  <2> QED BY <2>2, <2>3
<1>8. CASE UNCHANGED allVars
  BY <1>8, <1>t DEF allVars, wsVars, control, RelayInv, RelayTypes,
             RelayAttempts, OneRemote, JoinsCurrent
<1> QED BY <1>1, <1>2, <1>3, <1>4, <1>5, <1>6, <1>7, <1>8 DEF ControlNext

LEMMA RelayInvariance == ControlSpec => []RelayInv
<1>1. ControlInit => RelayInv
  BY RelayInitInv
<1>2. RelayInv /\ [ControlNext]_allVars => RelayInv'
  BY RelayNextInv
<1> QED BY <1>1, <1>2, PTL DEF ControlSpec

(* However often the relay is enabled, disabled and refused, no connection  *)
(* but the enabled one wants to be open.                                    *)
THEOREM OneConnection == ControlSpec => []OneRemote
<1>1. RelayInv => OneRemote
  BY DEF RelayInv
<1>2. ControlSpec => []RelayInv
  BY RelayInvariance
<1> QED BY <1>1, <1>2, PTL

(* Whoever joins an attempt gets the outcome of the one that counts. *)
THEOREM JoinedAttemptCounts == ControlSpec => []JoinsCurrent
<1>1. RelayInv => JoinsCurrent
  BY DEF RelayInv
<1>2. ControlSpec => []RelayInv
  BY RelayInvariance
<1> QED BY <1>1, <1>2, PTL

LEMMA EndIsKept ==
  ASSUME RelayTypes, ControlNext, NEW c \in Relays, closed[c], st[c] \in {"closing",
      "ended"}
  PROVE  st'[c] \in {"closing", "ended"}
<1> USE DEF RelayTypes, Places
<1>1. ASSUME NEW d \in Relays, SocketStep(d)
      PROVE st'[c] \in {"closing", "ended"}
  <2>1. CASE NoToken(d) \/ GotToken(d) \/ Opened(d) \/ Timer(d)
    BY <2>1 DEF NoToken, GotToken, Opened, Timer
  <2>2. CASE Disconnected(d)
    BY <2>2 DEF Disconnected, SocketEnds
  <2>3. CASE PeerLost(d) \/ Silence(d)
    BY <2>3 DEF PeerLost, Silence
  <2> QED BY <1>1, <2>1, <2>2, <2>3 DEF SocketStep
<1>2. ASSUME NEW d \in Relays, Refused(d)
      PROVE st'[c] \in {"closing", "ended"}
  BY <1>2 DEF Refused
<1>3. ASSUME NEW d \in Relays, EnableRemote(d) \/ CheckFails(d)
      PROVE st'[c] \in {"closing", "ended"}
  BY <1>3 DEF EnableRemote, CheckFails, wsVars
<1>4. ASSUME NEW d \in Relays, ConnectRemote(d)
      PROVE st'[c] \in {"closing", "ended"}
  BY <1>4 DEF ConnectRemote, Connect
<1>5. CASE DisableRemote
  BY <1>5 DEF DisableRemote, Close, Shut, wsVars
<1>6. ASSUME NEW d \in Relays, SendMessage(d)
      PROVE st'[c] \in {"closing", "ended"}
  BY <1>6 DEF SendMessage
<1> QED BY <1>1, <1>2, <1>3, <1>4, <1>5, <1>6 DEF ControlNext, RefusedRemote,
             RefusedClosed

(* A closed connection that is past its token and its socket does not come  *)
(* back: no timer, and no event of a socket, starts it again.               *)
THEOREM ClosedStaysClosed == ControlSpec => NoComeback
<1>1. RelayInv /\ [ControlNext]_allVars =>
        [\A c \in Relays :
           closed[c] /\ st[c] \in {"closing", "ended"} => st'[c] \in {"closing",
             "ended"}]_allVars
  BY EndIsKept DEF RelayInv
<1>2. ControlSpec => []RelayInv
  BY RelayInvariance
<1> QED BY <1>1, <1>2, PTL DEF ControlSpec, NoComeback

----------------------------------------------------------------------------
(* Types, timers and the length of the buffer. *)

RelayTyped ==
  /\ st \in [Relays -> Places] /\ closed \in [Relays -> BOOLEAN]
  /\ beating \in [Relays -> BOOLEAN] /\ watching \in [Relays -> BOOLEAN]
  /\ peer \in [Relays -> BOOLEAN] /\ breaks \in 0..MaxBreaks
  /\ count \in [Relays -> 0..MaxSends]
  /\ buffer \in [Relays -> Seq(1..MaxSends)] /\ got \in [Relays -> Seq(1..MaxSends)]

(* What one connection keeps true of itself. *)
Tidy(c) == /\ Len(buffer[c]) <= BufferSize
           /\ st[c] = "open" => buffer[c] = <<>>
           /\ beating[c] \/ watching[c] => st[c] \in {"open", "closing"}

(* b ends with message n and has no gap. *)
Newest(b, n) == Len(b) <= n /\ \A i \in 1..Len(b) : b[i] = n - Len(b) + i

(* g is in order and has nothing newer than n. *)
Ordered(g, n) == /\ \A i \in 1..Len(g) : g[i] <= n
                 /\ \A i, j \in 1..Len(g) : i < j => g[i] < g[j]

(* The buffer holds the newest messages; what the server has is older.      *)
Kept(c) == Newest(buffer[c], count[c]) /\ Ordered(got[c], count[c] - Len(buffer[c]))

BufferInv == RelayTyped /\ \A c \in Relays : Tidy(c) /\ Kept(c)

LEMMA NewestAppend ==
  ASSUME NEW M \in Nat, NEW n \in Nat, NEW b \in Seq(1..M), Newest(b, n)
  PROVE  Newest(Append(b, n + 1), n + 1)
<1> DEFINE a == Append(b, n + 1)
<1>1. Len(b) \in Nat /\ Len(a) = Len(b) + 1 /\ a[Len(b) + 1] = n + 1
  OBVIOUS
<1>2. \A i \in 1..Len(b) : a[i] = b[i]
  OBVIOUS
<1> HIDE DEF a
<1>3. ASSUME NEW i \in 1..Len(a) PROVE a[i] = (n + 1) - Len(a) + i
  <2>1. CASE i \in 1..Len(b)
    <3>1. a[i] = n - Len(b) + i
      BY <1>2, <2>1 DEF Newest
    <3> QED BY <1>1, <2>1, <3>1
  <2>2. CASE i = Len(b) + 1
    BY <1>1, <2>2
  <2> QED BY <1>1, <2>1, <2>2
<1>4. Len(a) <= n + 1
  BY <1>1 DEF Newest
<1>5. Newest(a, n + 1)
  BY <1>3, <1>4 DEF Newest
<1> QED BY <1>5 DEF a

LEMMA NewestTail ==
  ASSUME NEW M \in Nat, NEW n \in Nat, NEW b \in Seq(1..M), b # <<>>, Newest(b, n)
  PROVE  Newest(Tail(b), n) /\ Len(Tail(b)) = Len(b) - 1 /\ Tail(b) \in Seq(1..M)
<1> DEFINE a == Tail(b)
<1>1. Len(b) \in Nat \ {0} /\ Len(a) = Len(b) - 1 /\ a \in Seq(1..M)
  OBVIOUS
<1>2. \A i \in 1..Len(a) : a[i] = b[i + 1]
  OBVIOUS
<1> HIDE DEF a
<1>3. ASSUME NEW i \in 1..Len(a) PROVE a[i] = n - Len(a) + i
  <2>1. i + 1 \in 1..Len(b)
    BY <1>1
  <2>2. a[i] = n - Len(b) + (i + 1)
    BY <1>2, <2>1 DEF Newest
  <2> QED BY <1>1, <2>2
<1>4. Len(a) <= n
  BY <1>1 DEF Newest
<1>5. Newest(a, n)
  BY <1>3, <1>4 DEF Newest
<1> QED BY <1>1, <1>5 DEF a

LEMMA OrderedJoin ==
  ASSUME NEW M \in Nat, NEW n \in Nat, NEW b \in Seq(1..M), NEW g \in Seq(1..M),
         Newest(b, n), Ordered(g, n - Len(b))
  PROVE  Ordered(g \o b, n) /\ g \o b \in Seq(1..M)
<1> DEFINE a == g \o b
<1>1. Len(b) \in Nat /\ Len(g) \in Nat /\ Len(a) = Len(g) + Len(b) /\ a \in Seq(1..M)
  OBVIOUS
<1>2. \A i \in 1..Len(g) : a[i] = g[i] /\ a[i] \in Nat
  OBVIOUS
<1>3. \A i \in 1..Len(a) : i > Len(g) => a[i] = b[i - Len(g)]
  OBVIOUS
<1> HIDE DEF a
<1>4. \A i \in 1..Len(a) : i > Len(g) => a[i] = n - Len(b) + (i - Len(g))
  <2> SUFFICES ASSUME NEW i \in 1..Len(a), i > Len(g)
               PROVE  a[i] = n - Len(b) + (i - Len(g))
    OBVIOUS
  <2>1. i - Len(g) \in 1..Len(b)
    BY <1>1
  <2> QED BY <1>3, <2>1 DEF Newest
<1>5. \A i \in 1..Len(g) : a[i] <= n - Len(b)
  BY <1>2 DEF Ordered
<1>6. \A i \in 1..Len(a) : a[i] <= n
  <2> SUFFICES ASSUME NEW i \in 1..Len(a) PROVE a[i] <= n
    OBVIOUS
  <2>1. CASE i \in 1..Len(g)
    <3>1. a[i] <= n - Len(b) /\ a[i] \in Nat
      BY <1>2, <1>5, <2>1
    <3> QED BY <1>1, <3>1
  <2>2. CASE i > Len(g)
    <3>1. a[i] = n - Len(b) + (i - Len(g))
      BY <1>4, <2>2
    <3> QED BY <1>1, <2>2, <3>1
  <2> QED BY <1>1, <2>1, <2>2
<1>7. ASSUME NEW i \in 1..Len(a), NEW j \in 1..Len(a), i < j
      PROVE  a[i] < a[j]
  <2>1. CASE j <= Len(g)
    <3>1. i \in 1..Len(g) /\ j \in 1..Len(g)
      BY <1>1, <1>7, <2>1
    <3> QED BY <1>2, <1>7, <3>1 DEF Ordered
  <2>2. CASE i <= Len(g) /\ Len(g) < j
    <3>1. a[i] <= n - Len(b) /\ a[i] \in Nat
      BY <1>1, <1>2, <1>5, <2>2
    <3>2. a[j] = n - Len(b) + (j - Len(g))
      BY <1>4, <2>2
    <3> QED BY <1>1, <2>2, <3>1, <3>2
  <2>3. CASE Len(g) < i
    <3>1. a[i] = n - Len(b) + (i - Len(g)) /\ a[j] = n - Len(b) + (j - Len(g))
      BY <1>1, <1>4, <1>7, <2>3
    <3> QED BY <1>1, <1>7, <3>1
  <2> QED BY SMTT(60), <1>1, <1>7, <2>1, <2>2, <2>3
<1>8. Ordered(a, n)
  BY <1>6, <1>7 DEF Ordered
<1> QED BY <1>1, <1>8 DEF a

LEMMA OrderedAppend ==
  ASSUME NEW M \in Nat, NEW n \in Nat, NEW g \in Seq(1..M), Ordered(g, n)
  PROVE  Ordered(Append(g, n + 1), n + 1)
<1> DEFINE a == Append(g, n + 1)
<1>1. Len(g) \in Nat /\ Len(a) = Len(g) + 1 /\ a[Len(g) + 1] = n + 1
  OBVIOUS
<1>2. \A i \in 1..Len(g) : a[i] = g[i] /\ g[i] \in Nat
  OBVIOUS
<1> HIDE DEF a
<1>3. \A i \in 1..Len(g) : a[i] <= n /\ a[i] \in Nat
  BY <1>2 DEF Ordered
<1>4. \A i \in 1..Len(a) : i \in 1..Len(g) \/ (i = Len(g) + 1 /\ a[i] = n + 1)
  BY <1>1
<1>5. \A i \in 1..Len(a) : a[i] <= n + 1
  BY <1>3, <1>4
<1>6. ASSUME NEW i \in 1..Len(a), NEW j \in 1..Len(a), i < j
      PROVE  a[i] < a[j]
  <2>1. i \in 1..Len(g)
    BY <1>1, <1>6
  <2>2. CASE j \in 1..Len(g)
    BY <1>2, <1>6, <2>1, <2>2 DEF Ordered
  <2>3. CASE j = Len(g) + 1
    <3>1. a[i] <= n /\ a[i] \in Nat /\ a[j] = n + 1
      BY <1>1, <1>3, <2>1, <2>3
    <3> QED BY <3>1
  <2> QED BY <1>4, <2>2, <2>3
<1>7. Ordered(a, n + 1)
  BY <1>5, <1>6 DEF Ordered
<1> QED BY <1>7 DEF a

LEMMA OrderedRaise ==
  ASSUME NEW M \in Nat, NEW k \in Int, NEW n \in Int, k <= n, NEW g \in Seq(1..M), Ordered(g, k)
  PROVE  Ordered(g, n)
<1>1. \A i \in 1..Len(g) : g[i] \in Nat
  OBVIOUS
<1> QED BY <1>1 DEF Ordered

(* Connections other than c are as they were. *)
Others(c) ==
  \A d \in Relays \ {c} : UNCHANGED <<st[d], beating[d], watching[d], buffer[d], count[d],
      got[d]>>

LEMMA OthersStay ==
  ASSUME BufferInv, NEW c \in Relays, Others(c), RelayTyped', Tidy(c)', Kept(c)'
  PROVE  BufferInv'
<1>1. ASSUME NEW d \in Relays \ {c} PROVE Tidy(d)' /\ Kept(d)'
  <2>1. UNCHANGED <<st[d], beating[d], watching[d], buffer[d], count[d], got[d]>>
    BY DEF Others
  <2> QED BY <2>1 DEF BufferInv, Tidy, Kept
<1> QED BY <1>1 DEF BufferInv

(* A step of connection c that leaves its messages alone. *)
LEMMA QuietStep ==
  ASSUME BufferInv, NEW c \in Relays, UNCHANGED <<buffer, count, got>>, RelayTyped',
         \A d \in Relays \ {c} : UNCHANGED <<st[d], beating[d], watching[d]>>,
         st'[c] = "open" => st[c] = "open",
         beating'[c] \/ watching'[c] => st'[c] \in {"open", "closing"}
  PROVE  BufferInv'
<1>1. Tidy(c) /\ Kept(c)
  BY DEF BufferInv
<1>2. Kept(c)'
  BY <1>1 DEF Kept
<1>3. Tidy(c)'
  BY <1>1 DEF Tidy
<1> QED BY <1>2, <1>3, OthersStay DEF Others

LEMMA OpenedStep ==
  ASSUME BufferInv, NEW c \in Relays, Opened(c)
  PROVE  BufferInv'
<1> DEFINE g == got[c] \o buffer[c]
<1>1. /\ st' = [st EXCEPT ![c] = "open"] /\ peer' = [peer EXCEPT ![c] = TRUE]
      /\ got' = [got EXCEPT ![c] = g] /\ buffer' = [buffer EXCEPT ![c] = <<>>]
      /\ beating' = [beating EXCEPT ![c] = TRUE] /\ watching' = [watching EXCEPT ![c] = TRUE]
      /\ UNCHANGED <<closed, count, breaks>>
  BY DEF Opened
<1>2. RelayTyped /\ Kept(c)
  BY DEF BufferInv
<1>3. buffer[c] \in Seq(1..MaxSends) /\ got[c] \in Seq(1..MaxSends) /\ count[c] \in Nat
  BY <1>2, SizeAssumption, NoRelayAssumption DEF RelayTyped
<1>4. Ordered(g, count[c]) /\ g \in Seq(1..MaxSends)
  BY <1>2, <1>3, OrderedJoin, SizeAssumption, NoRelayAssumption DEF Kept
<1> HIDE DEF g
<1>5. /\ got'[c] = g /\ buffer'[c] = <<>> /\ count'[c] = count[c] /\ st'[c] = "open"
      /\ Others(c)
  BY <1>1, <1>2 DEF RelayTyped, Others
<1>6. got' \in [Relays -> Seq(1..MaxSends)] /\ buffer' \in [Relays -> Seq(1..MaxSends)]
  <2>1. <<>> \in Seq(1..MaxSends)
    OBVIOUS
  <2> QED BY <1>1, <1>2, <1>4, <2>1 DEF RelayTyped
<1>7. RelayTyped'
  BY <1>1, <1>2, <1>6 DEF RelayTyped, Places
<1>8. Tidy(c)'
  BY <1>5, SizeAssumption, NoRelayAssumption DEF Tidy
<1>9. Kept(c)'
  <2>1. Len(buffer'[c]) = 0 /\ count[c] - 0 = count[c]
    BY <1>3, <1>5
  <2> QED BY <1>3, <1>4, <1>5, <2>1 DEF Kept, Newest
<1> QED BY <1>5, <1>7, <1>8, <1>9, OthersStay

LEMMA SendStep ==
  ASSUME BufferInv, NEW c \in Relays, SendMessage(c)
  PROVE  BufferInv'
<1> DEFINE m == count[c] + 1
<1>1. RelayTyped /\ Tidy(c) /\ Kept(c)
  BY DEF BufferInv
<1>2. /\ count[c] < MaxSends /\ count' = [count EXCEPT ![c] = m]
      /\ UNCHANGED <<st, closed, beating, watching, peer, breaks>>
  BY DEF SendMessage
<1>3. buffer[c] \in Seq(1..MaxSends) /\ got[c] \in Seq(1..MaxSends) /\ count[c] \in Nat
  BY <1>1, SizeAssumption, NoRelayAssumption DEF RelayTyped
<1>4. m \in 1..MaxSends /\ count' \in [Relays -> 0..MaxSends] /\ count'[c] = m
  BY <1>1, <1>2, <1>3, SizeAssumption, NoRelayAssumption DEF RelayTyped
<1>5. CASE st[c] = "open" /\ peer[c]
  <2> DEFINE g == Append(got[c], m)
  <2>1. buffer' = buffer /\ buffer[c] = <<>> /\ got' = [got EXCEPT ![c] = g]
    BY <1>1, <1>5 DEF SendMessage, Tidy
  <2>2. Len(buffer[c]) = 0 /\ count[c] - 0 = count[c] /\ m - 0 = m
    BY <1>3, <2>1
  <2>3. Ordered(g, m) /\ g \in Seq(1..MaxSends)
    BY <1>1, <1>3, <1>4, <2>2, OrderedAppend, SizeAssumption, NoRelayAssumption DEF Kept
  <2> HIDE DEF g
  <2>4. got' \in [Relays -> Seq(1..MaxSends)] /\ got'[c] = g
    BY <1>1, <2>1, <2>3 DEF RelayTyped
  <2>5. RelayTyped' /\ Others(c)
    BY <1>1, <1>2, <1>4, <2>1, <2>4 DEF RelayTyped, Others
  <2>6. Tidy(c)'
    BY <1>1, <1>2, <2>1 DEF Tidy
  <2>7. Kept(c)'
    BY <1>3, <1>4, <2>1, <2>2, <2>3, <2>4 DEF Kept, Newest
  <2> QED BY <2>5, <2>6, <2>7, OthersStay
<1>6. CASE st[c] = "open" /\ ~ peer[c]
  <2>1. buffer' = buffer /\ buffer[c] = <<>> /\ got' = got
    BY <1>1, <1>6 DEF SendMessage, Tidy, RelayTyped
  <2>2. Len(buffer[c]) = 0 /\ count[c] - 0 = count[c] /\ m - 0 = m /\ count[c] <= m
    BY <1>3, <2>1
  <2>3. RelayTyped' /\ Others(c)
    BY <1>1, <1>2, <1>4, <2>1 DEF RelayTyped, Others
  <2>4. Tidy(c)'
    BY <1>1, <1>2, <2>1 DEF Tidy
  <2>5. Ordered(got[c], m)
    BY <1>1, <1>3, <2>2, OrderedRaise, SizeAssumption, NoRelayAssumption DEF Kept
  <2>6. Kept(c)'
    BY <1>3, <1>4, <2>1, <2>2, <2>5 DEF Kept, Newest
  <2> QED BY <2>3, <2>4, <2>6, OthersStay
<1>7. CASE st[c] # "open"
  <2> DEFINE old == IF Len(buffer[c]) = BufferSize THEN Tail(buffer[c]) ELSE buffer[c]
             b == Append(old, m)
  <2>1. got' = got /\ buffer' = [buffer EXCEPT ![c] = b]
    BY <1>7 DEF SendMessage
  <2>2. /\ old \in Seq(1..MaxSends) /\ Newest(old, count[c])
        /\ Len(old) < BufferSize /\ Len(old) <= Len(buffer[c])
    <3>1. Newest(buffer[c], count[c]) /\ Len(buffer[c]) \in Nat /\ Len(buffer[c]) <= BufferSize
      BY <1>1, <1>3 DEF Kept, Tidy
    <3>2. CASE Len(buffer[c]) = BufferSize
      <4>1. buffer[c] # <<>>
        BY <3>2, SizeAssumption, NoRelayAssumption
      <4>2. Newest(Tail(buffer[c]), count[c]) /\ Tail(buffer[c]) \in Seq(1..MaxSends)
            /\ Len(Tail(buffer[c])) = Len(buffer[c]) - 1
        BY <1>3, <3>1, <4>1, NewestTail, SizeAssumption, NoRelayAssumption
      <4> QED BY <3>1, <3>2, <4>2, SizeAssumption, NoRelayAssumption
    <3>3. CASE Len(buffer[c]) # BufferSize
      BY <1>3, <3>1, <3>3, SizeAssumption, NoRelayAssumption
    <3> QED BY <3>2, <3>3
  <2> HIDE DEF old
  <2>3. /\ Newest(b, m) /\ b \in Seq(1..MaxSends) /\ Len(b) = Len(old) + 1 /\ Len(old) \in Nat
    BY <1>3, <1>4, <2>2, NewestAppend, SizeAssumption, NoRelayAssumption
  <2> HIDE DEF b
  <2>4. buffer' \in [Relays -> Seq(1..MaxSends)] /\ buffer'[c] = b
    BY <1>1, <2>1, <2>3 DEF RelayTyped
  <2>5. RelayTyped' /\ Others(c)
    BY <1>1, <1>2, <1>4, <2>1, <2>4 DEF RelayTyped, Others
  <2>6. Tidy(c)'
    BY <1>1, <1>2, <1>7, <2>2, <2>3, <2>4, SizeAssumption, NoRelayAssumption DEF Tidy
  <2>7. Ordered(got[c], m - Len(b))
    <3>1. Ordered(got[c], count[c] - Len(buffer[c])) /\ Len(buffer[c]) \in Nat
      BY <1>1, <1>3 DEF Kept
    <3>2. count[c] - Len(buffer[c]) <= m - Len(b)
      BY <1>3, <2>2, <2>3, <3>1
    <3>3. count[c] - Len(buffer[c]) \in Int /\ m - Len(b) \in Int
      BY <1>3, <2>3, <3>1
    <3> HIDE DEF m
    <3> QED BY <1>3, <3>1, <3>2, <3>3, OrderedRaise, SizeAssumption, NoRelayAssumption
  <2>8. Kept(c)'
    BY <1>4, <2>1, <2>3, <2>4, <2>7 DEF Kept
  <2> QED BY <2>5, <2>6, <2>8, OthersStay
<1> QED BY <1>5, <1>6, <1>7

LEMMA BreakTyped ==
  ASSUME breaks \in 0..MaxBreaks, Failure \/ UNCHANGED breaks
  PROVE  breaks' \in 0..MaxBreaks
  BY SizeAssumption, NoRelayAssumption DEF Failure

LEMMA BufferStep ==
  ASSUME RelayInv, BufferInv, [ControlNext]_allVars
  PROVE  BufferInv'
<1>t. RelayTyped /\ \A c \in Relays : Tidy(c)
  BY DEF BufferInv
<1>1. ASSUME UNCHANGED wsVars PROVE BufferInv'
  BY <1>1 DEF wsVars, BufferInv, RelayTyped, Tidy, Kept
<1>2. ASSUME NEW c \in Relays, ConnectRemote(c) PROVE BufferInv'
  <2>1. /\ st[c] = "new" /\ st' = [st EXCEPT ![c] = "token"]
        /\ closed' = [closed EXCEPT ![c] = (current # c)]
        /\ UNCHANGED <<beating, watching, peer, buffer, count, got, breaks>>
    BY <1>2 DEF ConnectRemote, Connect
  <2> QED BY <2>1, <1>t, QuietStep DEF RelayTyped, Places, Tidy
<1>3. ASSUME NEW c \in Relays, Refused(c) PROVE BufferInv'
  <2>1. /\ st' = [st EXCEPT ![c] = IF closed[c] THEN "ended" ELSE "refused"]
        /\ Failure /\ StopTimers(c) /\ UNCHANGED <<closed, peer, buffer, count, got>>
    BY <1>3 DEF Refused
  <2> QED BY <2>1, <1>t, QuietStep, BreakTyped DEF RelayTyped, Places, StopTimers
<1>4. ASSUME NEW c \in Relays, SocketStep(c) PROVE BufferInv'
  <2>1. CASE NoToken(c)
    BY <2>1, <1>t, QuietStep, BreakTyped DEF NoToken, RelayTyped, Places, Tidy
  <2>2. CASE GotToken(c)
    BY <2>2, <1>t, QuietStep DEF GotToken, RelayTyped, Places, Tidy
  <2>3. CASE Opened(c)
    BY <2>3, OpenedStep
  <2>4. CASE Disconnected(c)
    <3>1. /\ st' = [st EXCEPT ![c] = IF closed[c] THEN "ended" ELSE "timer"]
          /\ StopTimers(c) /\ UNCHANGED <<closed, peer, buffer, count, got>>
          /\ UNCHANGED breaks \/ Failure
      BY <2>4 DEF Disconnected, SocketEnds
    <3> QED BY <3>1, <1>t, QuietStep, BreakTyped DEF RelayTyped, Places, StopTimers
  <2>5. CASE Timer(c)
    BY <2>5, <1>t, QuietStep DEF Timer, RelayTyped, Places, Tidy
  <2>6. CASE PeerLost(c)
    BY <2>6, <1>t, QuietStep, BreakTyped DEF PeerLost, RelayTyped, Places, Tidy
  <2>7. CASE Silence(c)
    <3>1. /\ st' = [st EXCEPT ![c] = "closing"] /\ watching' = [watching EXCEPT ![c] = FALSE]
          /\ UNCHANGED breaks \/ Failure
          /\ UNCHANGED <<closed, beating, peer, buffer, count, got>>
      BY <2>7 DEF Silence
    <3> QED BY <3>1, <1>t, QuietStep, BreakTyped DEF RelayTyped, Places
  <2> QED BY <1>4, <2>1, <2>2, <2>3, <2>4, <2>5, <2>6, <2>7 DEF SocketStep
<1>5. CASE DisableRemote /\ remote # NoRelay
  <2>1. remote \in Relays /\ Close(remote)
    BY <1>5 DEF DisableRemote, RelayInv, RelayTypes
  <2>2. /\ closed' = [closed EXCEPT ![remote] = TRUE] /\ st' = Shut(st, remote)
        /\ StopTimers(remote) /\ UNCHANGED <<peer, buffer, count, got, breaks>>
    BY <2>1 DEF Close
  <2>3. /\ st' \in [Relays -> Places] /\ st'[remote] # "open"
        /\ \A d \in Relays \ {remote} : st'[d] = st[d]
    BY <2>1, <2>2, <1>t DEF Shut, RelayTyped, Places
  <2> QED BY <2>1, <2>2, <2>3, <1>t, QuietStep DEF RelayTyped, StopTimers
<1> QED BY <1>1, <1>2, <1>3, <1>4, <1>5, SendStep
        DEF ControlNext, EnableRemote, CheckFails, RefusedRemote,
            RefusedClosed, DisableRemote, allVars

LEMMA InitBuffer == ASSUME ControlInit PROVE BufferInv
  BY SizeAssumption, NoRelayAssumption DEF ControlInit, WsInit, BufferInv, RelayTyped, Places, Tidy,
         Kept, Newest, Ordered

LEMMA BufferInvariance == ControlSpec => [](RelayInv /\ BufferInv)
<1>1. ControlInit => RelayInv /\ BufferInv
  BY RelayInitInv, InitBuffer
<1>2. RelayInv /\ BufferInv /\ [ControlNext]_allVars => (RelayInv /\ BufferInv)'
  BY RelayNextInv, BufferStep
<1> QED BY <1>1, <1>2, PTL DEF ControlSpec

(* Type correctness: timers only run with their socket, and the buffer      *)
(* never has more than BufferSize messages.                                 *)
THEOREM RelayTypeCorrect == ControlSpec => []ControlTypeOK
<1>1. RelayInv /\ BufferInv => ControlTypeOK
  BY DEF RelayInv, BufferInv, RelayTypes, RelayAttempts, RelayTyped, Tidy, ControlTypeOK,
         WsTypeOK
<1>2. ControlSpec => [](RelayInv /\ BufferInv)
  BY BufferInvariance
<1> QED BY <1>1, <1>2, PTL

(* Whatever breaks, the server has the messages in the order in which they  *)
(* were sent, and the buffer holds the newest ones without a gap.           *)
THEOREM OrderIsKept == ControlSpec => []OrderKept
<1>1. BufferInv => OrderKept
  BY DEF BufferInv, Kept, Newest, Ordered, OrderKept, InOrder, NewestKept
<1>2. ControlSpec => [](RelayInv /\ BufferInv)
  BY BufferInvariance
<1> QED BY <1>1, <1>2, PTL
=============================================================================
