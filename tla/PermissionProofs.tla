-------------------------- MODULE PermissionProofs --------------------------
(***************************************************************************)
(* Proofs about Permission, for any sets of asks, operations, requests and *)
(* kinds, and about the rules of PermissionRules, for any rules.           *)
(***************************************************************************)
EXTENDS Permission, WellFoundedInduction, TLAPS

(* The operations that go over the other entries of the map. *)
Loops == {"always", "reject", "save", "everything"}

(* What a claim means to the others: who is in the map waits and has no     *)
(* answer; whoever has not been stored has none either; only an operation   *)
(* that is settling holds a claim, of an ask that was stored.               *)
Bookkeeping ==
  /\ \A a \in pending : ask[a] = "waiting" /\ deferred[a] = "open"
  /\ \A a \in Asks : ask[a] \in {"new", "asking"} => deferred[a] = "open"
  /\ \A o \in Ops : claim[o] # None =>
       pc[o] \in {"settle", "loop"} /\ ask[claim[o]] \in {"waiting", "returned"}
  /\ \A o \in Ops : pc[o] = "settle" => claim[o] # None
  /\ \A o \in Ops : pc[o] = "loop" => op[o].kind \in Loops
  /\ \A o \in Ops : pc[o] = "persist" => op[o].kind \in {"always", "save"}

IInv == TypeOK /\ Bookkeeping /\ NoLostAsk /\ OneAnswer

LEMMA InitIInv == Init => IInv
  <1> SUFFICES ASSUME Init PROVE IInv
    OBVIOUS
  <1>1. TypeOK
    <2>1. (CHOOSE r \in Requests : TRUE) \in Requests
      BY RequestsAssumption
    <2>2. NoCall \in Call
      BY DEF NoCall, Call, OpKinds
    <2>3. QED
      BY <2>1, <2>2 DEF Init, TypeOK, Sources
  <1>2. Bookkeeping /\ NoLostAsk /\ OneAnswer
    BY DEF Init, Bookkeeping, NoLostAsk, OneAnswer
  <1>3. QED
    BY <1>1, <1>2 DEF IInv

LEMMA AskEvaluateIInv ==
  ASSUME IInv, NEW a \in Asks, NEW r \in Requests, AskEvaluate(a, r)
  PROVE  IInv'
  <1> DEFINE decided == LET v == Verdicts(r, r.ruleset \o approved \o LocalRules(r.session))
                        IN "deny" \in v \/ (v \subseteq {"allow"} /\ ~ r.protected)
  <1>1. /\ ask[a] = "new"
        /\ request' = [request EXCEPT ![a] = r]
        /\ \/ ask' = [ask EXCEPT ![a] = "returned"]
           \/ ask' = [ask EXCEPT ![a] = "asking"]
        /\ UNCHANGED <<deferred, pending, pc, op, claim, verdict, seen, by, swept, session>>
    BY DEF AskEvaluate, askVars
  <1> HIDE DEF decided
  <1>2. TypeOK'
    BY <1>1 DEF IInv, TypeOK
  <1>3. a \notin pending /\ \A o \in Ops : claim[o] # a
    BY <1>1, NoneAssumption DEF IInv, TypeOK, Bookkeeping
  <1>4. Bookkeeping' /\ NoLostAsk' /\ OneAnswer'
    BY <1>1, <1>3 DEF IInv, TypeOK, Bookkeeping, NoLostAsk, OneAnswer
  <1>5. QED
    BY <1>2, <1>4 DEF IInv

LEMMA AskStoreIInv ==
  ASSUME IInv, NEW a \in Asks, AskStore(a)
  PROVE  IInv'
  <1>1. TypeOK'
    BY DEF IInv, TypeOK, AskStore, askVars
  <1>2. \A o \in Ops : claim[o] # a
    BY NoneAssumption DEF IInv, TypeOK, Bookkeeping, AskStore
  <1>3. Bookkeeping' /\ NoLostAsk' /\ OneAnswer'
    BY <1>2 DEF IInv, TypeOK, Bookkeeping, NoLostAsk, OneAnswer, AskStore, askVars
  <1>4. QED
    BY <1>1, <1>3 DEF IInv

LEMMA AskEndsIInv ==
  ASSUME IInv, NEW a \in Asks, AskReturns(a) \/ AskInterrupted(a)
  PROVE  IInv'
  <1>1. /\ ask[a] \in {"asking", "waiting"}
        /\ ask' = [ask EXCEPT ![a] = "returned"]
        /\ pending' = pending \ {a}
        /\ UNCHANGED <<request, deferred, session, pc, op, claim, verdict, seen, by, swept>>
    BY DEF AskReturns, AskInterrupted, askVars
  <1>2. TypeOK'
    BY <1>1 DEF IInv, TypeOK
  <1>3. Bookkeeping' /\ NoLostAsk' /\ OneAnswer'
    BY <1>1 DEF IInv, TypeOK, Bookkeeping, NoLostAsk, OneAnswer
  <1>4. QED
    BY <1>2, <1>3 DEF IInv

(* Every call begins like this: it claims an entry of the map or nothing.   *)
LEMMA BeginIInv ==
  ASSUME IInv, NEW o \in Ops, NEW call \in Call,
         NEW next \in {"settle", "loop", "persist", "done"},
         NEW taken \in pending \cup {None},
         next = "settle" => taken # None,
         taken # None => next = "settle",
         next \in {"loop", "persist"} => call.kind \in {"save", "everything"},
         next = "persist" => call.kind = "save",
         Begin(o, call, next, taken),
         UNCHANGED <<ask, request, deferred, seen, by>>, session' \subseteq Sessions
  PROVE  IInv'
  <1>1. TypeOK'
    BY DEF IInv, TypeOK, Begin
  <1>2. claim[o] = None /\ None \notin Asks
    BY NoneAssumption DEF IInv, Bookkeeping, Begin, TypeOK
  <1>3. Bookkeeping'
    BY <1>2 DEF IInv, TypeOK, Bookkeeping, Begin, Loops
  <1>4. NoLostAsk'
    BY <1>2 DEF IInv, TypeOK, NoLostAsk, Begin
  <1>5. OneAnswer'
    BY <1>2 DEF IInv, TypeOK, OneAnswer, Bookkeeping, Begin
  <1>6. QED
    BY <1>1, <1>3, <1>4, <1>5 DEF IInv

LEMMA IneffectiveIInv ==
  ASSUME IInv, NEW o \in Ops, NEW kind, Ineffective(o, kind),
         UNCHANGED <<ask, request, deferred, seen, by>>, session' \subseteq Sessions
  PROVE  IInv'
  <1>1. TypeOK'
    BY DEF IInv, TypeOK, Ineffective
  <1>2. Bookkeeping' /\ NoLostAsk' /\ OneAnswer'
    BY DEF IInv, TypeOK, Bookkeeping, NoLostAsk, OneAnswer, Ineffective
  <1>3. QED
    BY <1>1, <1>2 DEF IInv

LEMMA CallIsCall ==
  ASSUME NEW k \in OpKinds, NEW a \in Asks \cup {None}, NEW s \in Sessions \cup {None}
  PROVE  [kind |-> k, ask |-> a, session |-> s] \in Call
  BY DEF Call

LEMMA StartIInv ==
  ASSUME IInv, NEW o \in Ops, Start(o)
  PROVE  IInv'
  <1>0. /\ pending \subseteq Asks /\ session \subseteq Sessions
        /\ None \notin Asks
        /\ \A a \in Asks : request[a].session \in Sessions
    BY NoneAssumption DEF IInv, TypeOK, Sessions
  <1>1. ASSUME NEW a \in Asks, NEW k \in {"once", "always", "reject"}, Reply(o, a, k)
        PROVE  IInv'
    <2>1. [kind |-> k, ask |-> a, session |-> request[a].session] \in Call
      BY <1>0, CallIsCall DEF OpKinds
    <2>2. CASE a \in pending
      BY <1>0, <1>1, <2>1, <2>2, BeginIInv DEF Reply
    <2>3. CASE a \notin pending
      BY <1>0, <1>1, <2>3, IneffectiveIInv DEF Reply
    <2>4. QED
      BY <2>2, <2>3
  <1>2. ASSUME NEW a \in Asks, NEW yes, NEW no, Save(o, a, yes, no)
        PROVE  IInv'
    <2>1. [kind |-> "save", ask |-> a, session |-> None] \in Call
      BY CallIsCall DEF OpKinds
    <2>2. CASE a \in pending /\ ~ request[a].protected
      BY <1>0, <1>2, <2>1, <2>2, BeginIInv DEF Save
    <2>3. CASE ~ (a \in pending /\ ~ request[a].protected)
      BY <1>0, <1>2, <2>3, IneffectiveIInv DEF Save
    <2>4. QED
      BY <2>2, <2>3
  <1>3. ASSUME NEW s \in Sessions \cup {None}, NEW a \in pending \cup {None},
               Everything(o, s, a)
        PROVE  IInv'
    <2>1. [kind |-> "everything", ask |-> a, session |-> s] \in Call
      BY <1>0, CallIsCall DEF OpKinds
    <2>2. session' \subseteq Sessions
      BY <1>0, <1>3 DEF Everything
    <2>3. CASE a \in pending /\ s \in {None, request[a].session}
      BY <1>0, <1>3, <2>1, <2>2, <2>3, BeginIInv DEF Everything
    <2>4. CASE ~ (a \in pending /\ s \in {None, request[a].session})
      BY <1>0, <1>3, <2>1, <2>2, <2>4, BeginIInv DEF Everything
    <2>5. QED
      BY <2>3, <2>4
  <1>4. ASSUME NEW s, Nothing(o, s)
        PROVE  IInv'
    BY <1>0, <1>4, IneffectiveIInv DEF Nothing
  <1>5. QED
    BY <1>1, <1>2, <1>3, <1>4 DEF Start

(* Settling the ask that is claimed, whatever is done with it afterwards.   *)
LEMMA CompleteIInv ==
  ASSUME IInv, NEW o \in Ops, NEW source \in Sources, claim[o] # None,
         CompleteClaim(o, source),
         NEW next \in {"loop", "done"}, next = "loop" => op[o].kind \in Loops,
         pc' = [pc EXCEPT ![o] = next],
         UNCHANGED <<ask, request, pending, session, op, verdict, seen, swept>>
  PROVE  IInv'
  <1>1. /\ claim[o] \in Asks /\ None \notin Asks
        /\ deferred[claim[o]] = "open" /\ claim[o] \notin pending
        /\ ask[claim[o]] \in {"waiting", "returned"}
    BY NoneAssumption DEF IInv, TypeOK, OneAnswer, Bookkeeping
  <1>2. /\ deferred' = [deferred EXCEPT ![claim[o]] = verdict[o]]
        /\ by' = [by EXCEPT ![claim[o]] = source]
        /\ claim' = [claim EXCEPT ![o] = None]
    BY <1>1 DEF CompleteClaim
  <1>3. TypeOK'
    BY <1>1, <1>2 DEF IInv, TypeOK
  <1>4. Bookkeeping'
    BY <1>1, <1>2 DEF IInv, TypeOK, Bookkeeping
  <1>5. NoLostAsk'
    BY <1>1, <1>2 DEF IInv, TypeOK, NoLostAsk
  <1>6. OneAnswer'
    BY <1>1, <1>2 DEF IInv, TypeOK, OneAnswer
  <1>7. QED
    BY <1>3, <1>4, <1>5, <1>6 DEF IInv

LEMMA OpStepIInv ==
  ASSUME IInv, NEW o \in Ops, OpStep(o)
  PROVE  IInv'
  <1>0. None \notin Asks
    BY NoneAssumption
  <1>1. CASE SettleNamed(o)
    <2>1. claim[o] # None
      BY <1>1 DEF SettleNamed, IInv, Bookkeeping
    <2>2. PICK source \in Sources : CompleteClaim(o, source)
      BY <1>1 DEF SettleNamed, Sources
    <2>3. PICK next \in {"loop", "done"} :
            /\ pc' = [pc EXCEPT ![o] = next]
            /\ next = "loop" => op[o].kind \in Loops
      BY <1>1 DEF SettleNamed, Loops
    <2>4. QED
      BY <1>1, <2>1, <2>2, <2>3, CompleteIInv DEF SettleNamed
  <1>2. CASE SettleVisited(o)
    <2>1. op[o].kind \in Loops
      BY <1>2 DEF SettleVisited, IInv, Bookkeeping
    <2>2. Source(o) \in Sources
      BY <2>1 DEF Source, Sources, Loops
    <2>3. pc' = [pc EXCEPT ![o] = "loop"]
      BY <1>2 DEF SettleVisited, IInv, TypeOK
    <2>4. QED
      BY <1>2, <2>1, <2>2, <2>3, CompleteIInv DEF SettleVisited
  <1>3. CASE LoopEnds(o)
    <2>1. TypeOK'
      BY <1>3 DEF LoopEnds, IInv, TypeOK
    <2>2. Bookkeeping' /\ NoLostAsk' /\ OneAnswer'
      BY <1>3 DEF LoopEnds, IInv, TypeOK, Bookkeeping, NoLostAsk, OneAnswer
    <2>3. QED
      BY <2>1, <2>2 DEF IInv
  <1>4. CASE Persisted(o)
    <2>1. TypeOK'
      BY <1>4 DEF Persisted, IInv, TypeOK
    <2>2. Bookkeeping' /\ NoLostAsk' /\ OneAnswer'
      BY <1>4 DEF Persisted, IInv, TypeOK, Bookkeeping, NoLostAsk, OneAnswer, Loops
    <2>3. QED
      BY <2>1, <2>2 DEF IInv
  <1>5. ASSUME NEW a \in Asks, Visit(o, a)
        PROVE  IInv'
    <2>1. Decision(o, a) \in {"allowed", "rejected"}
      BY DEF Decision
    <2>2. CASE Takes(o, a)
      <3>1. /\ pc[o] = "loop" /\ claim[o] = None /\ a \in pending
            /\ claim' = [claim EXCEPT ![o] = a]
            /\ verdict' = [verdict EXCEPT ![o] = Decision(o, a)]
            /\ pending' = pending \ {a}
            /\ seen' = [seen EXCEPT ![o] = @ \cup {a}]
            /\ UNCHANGED VisitVars
        BY <1>5, <2>2 DEF Visit
      <3>2. TypeOK'
        BY <2>1, <3>1 DEF IInv, TypeOK, VisitVars
      <3>3. Bookkeeping' /\ NoLostAsk'
        BY <1>0, <3>1 DEF IInv, TypeOK, Bookkeeping, NoLostAsk, VisitVars
      <3>4. OneAnswer'
        BY <1>0, <3>1 DEF IInv, TypeOK, Bookkeeping, OneAnswer, VisitVars
      <3>5. QED
        BY <3>2, <3>3, <3>4 DEF IInv
    <2>3. CASE ~ Takes(o, a)
      <3>1. /\ seen' = [seen EXCEPT ![o] = @ \cup {a}]
            /\ UNCHANGED <<claim, verdict, pending>> /\ UNCHANGED VisitVars
        BY <1>5, <2>3 DEF Visit
      <3>2. TypeOK'
        BY <3>1 DEF IInv, TypeOK, VisitVars
      <3>3. Bookkeeping' /\ NoLostAsk' /\ OneAnswer'
        BY <3>1 DEF IInv, TypeOK, Bookkeeping, NoLostAsk, OneAnswer, VisitVars
      <3>4. QED
        BY <3>2, <3>3 DEF IInv
    <2>4. QED
      BY <2>2, <2>3
  <1>6. QED
    BY <1>1, <1>2, <1>3, <1>4, <1>5 DEF OpStep

LEMMA NextIInv ==
  ASSUME IInv, [Next]_vars
  PROVE  IInv'
  <1>1. CASE Next
    BY <1>1, AskEvaluateIInv, AskStoreIInv, AskEndsIInv, StartIInv, OpStepIInv
       DEF Next, AskStep
  <1>2. CASE UNCHANGED vars
    BY <1>2 DEF vars, IInv, TypeOK, Bookkeeping, NoLostAsk, OneAnswer
  <1>3. QED
    BY <1>1, <1>2

(* The bookkeeping of asks and claims holds whatever operations interleave. *)
THEOREM Invariance == Spec => []IInv
  <1>1. QED
    BY InitIInv, NextIInv, PTL DEF Spec

(* Type correctness, for any asks, operations and requests. *)
THEOREM TypeCorrect == Spec => []TypeOK
  <1>1. IInv => TypeOK
    BY DEF IInv
  <1>2. QED
    BY <1>1, Invariance, PTL

(* A fiber that waits for its answer can still get it, with any number of   *)
(* replies, loops and interruptions (permission/index.ts ask, reply).       *)
THEOREM NoAskIsLost == Spec => []NoLostAsk
  <1>1. IInv => NoLostAsk
    BY DEF IInv
  <1>2. QED
    BY <1>1, Invariance, PTL

(* No ask is answered twice: replies, cascades and drains claim it before   *)
(* they settle it (permission/index.ts reply, kilocode/permission/drain.ts).*)
THEOREM AnsweredOnce == Spec => []OneAnswer
  <1>1. IInv => OneAnswer
    BY DEF IInv
  <1>2. QED
    BY <1>1, Invariance, PTL

----------------------------------------------------------------------------
(* Configuration files *)

(* A loop holds a configuration file to reject it, unless it is that of a   *)
(* reply of "always".                                                       *)
ConfigInv == \A o \in Ops :
  pc[o] = "loop" /\ claim[o] # None /\ request[claim[o]].protected =>
    verdict[o] = "rejected" \/ op[o].kind = "always"

LEMMA ConfigBegin ==
  ASSUME IInv, ConfigInv, NEW o \in Ops, NEW call, NEW next, NEW taken,
         Begin(o, call, next, taken), next = "loop" => taken = None,
         UNCHANGED request
  PROVE  ConfigInv'
  <1>1. \A p \in Ops \ {o} : /\ pc'[p] = pc[p] /\ op'[p] = op[p] /\ claim'[p] = claim[p]
                             /\ verdict'[p] = verdict[p]
    BY DEF Begin, IInv, TypeOK
  <1>2. pc'[o] = next /\ claim'[o] = taken
    BY DEF Begin, IInv, TypeOK
  <1>3. QED
    BY <1>1, <1>2 DEF ConfigInv

LEMMA ConfigStart ==
  ASSUME IInv, ConfigInv, NEW o \in Ops, Start(o)
  PROVE  ConfigInv' /\ UNCHANGED <<request, deferred, by>>
  <1>1. UNCHANGED <<request, deferred, by>>
    BY DEF Start, Reply, Save, Everything, Nothing
  <1>2. ASSUME NEW kind, Ineffective(o, kind)
        PROVE  ConfigInv'
    BY <1>1, <1>2 DEF Ineffective, ConfigInv, IInv, TypeOK
  <1>3. ASSUME NEW a, NEW k, Reply(o, a, k)
        PROVE  ConfigInv'
    BY <1>1, <1>2, <1>3, ConfigBegin DEF Reply
  <1>4. ASSUME NEW a, NEW yes, NEW no, Save(o, a, yes, no)
        PROVE  ConfigInv'
    BY <1>1, <1>2, <1>4, ConfigBegin DEF Save
  <1>5. ASSUME NEW s, NEW a, Everything(o, s, a)
        PROVE  ConfigInv'
    BY <1>1, <1>5, ConfigBegin DEF Everything
  <1>6. ASSUME NEW s, Nothing(o, s)
        PROVE  ConfigInv'
    BY <1>2, <1>6 DEF Nothing
  <1>7. QED
    BY <1>1, <1>3, <1>4, <1>5, <1>6 DEF Start

LEMMA ConfigComplete ==
  ASSUME IInv, ConfigInv, ConfigNeedsReply,
         NEW o \in Ops, SettleNamed(o) \/ SettleVisited(o)
  PROVE  ConfigInv' /\ ConfigNeedsReply'
  <1>1. claim[o] \in Asks /\ deferred[claim[o]] = "open"
    BY DEF IInv, TypeOK, Bookkeeping, OneAnswer, SettleNamed, SettleVisited
  <1>2. PICK source \in Sources :
          /\ CompleteClaim(o, source)
          /\ SettleNamed(o) => source \in {"reply", "named"}
          /\ SettleVisited(o) /\ op[o].kind = "always" => source = "always"
    <2>1. CASE SettleNamed(o)
      BY <2>1 DEF SettleNamed, SettleVisited, Sources
    <2>2. CASE SettleVisited(o) /\ ~ SettleNamed(o)
      <3>1. Source(o) \in Sources
        BY <2>2 DEF SettleVisited, IInv, Bookkeeping, Loops, Source, Sources
      <3>2. op[o].kind = "always" => Source(o) = "always"
        BY DEF Source
      <3>3. QED
        BY <2>2, <3>1, <3>2 DEF SettleVisited
    <2>3. QED
      BY <2>1, <2>2
  <1>3. /\ deferred' = [deferred EXCEPT ![claim[o]] = verdict[o]]
        /\ by' = [by EXCEPT ![claim[o]] = source]
        /\ claim' = [claim EXCEPT ![o] = None]
    BY <1>1, <1>2 DEF CompleteClaim
  <1>4. /\ UNCHANGED <<request, op, verdict>>
        /\ \E next : /\ pc' = [pc EXCEPT ![o] = next]
                     /\ next = "loop" => pc[o] \in {"settle", "loop"}
    BY DEF SettleNamed, SettleVisited, IInv, TypeOK
  <1>5. ConfigInv'
    BY <1>3, <1>4 DEF ConfigInv, IInv, TypeOK
  <1>6. request[claim[o]].protected /\ SettleVisited(o) =>
          verdict[o] = "rejected" \/ op[o].kind = "always"
    BY <1>1, NoneAssumption DEF ConfigInv, SettleVisited
  <1>7. ConfigNeedsReply'
    BY <1>1, <1>2, <1>3, <1>4, <1>6 DEF ConfigNeedsReply, IInv, TypeOK
  <1>8. QED
    BY <1>5, <1>7

LEMMA ConfigNext ==
  ASSUME IInv, ConfigInv, ConfigNeedsReply, [Next]_vars
  PROVE  ConfigInv' /\ ConfigNeedsReply'
  <1>1. ASSUME NEW a \in Asks, NEW r \in Requests, AskEvaluate(a, r)
        PROVE  ConfigInv' /\ ConfigNeedsReply'
    <2>1. /\ ask[a] = "new" /\ request' = [request EXCEPT ![a] = r]
          /\ UNCHANGED <<deferred, pc, op, claim, verdict, by>>
      BY <1>1 DEF AskEvaluate, askVars
    <2>2. deferred[a] = "open" /\ \A o \in Ops : claim[o] # a
      BY <2>1, NoneAssumption DEF IInv, TypeOK, Bookkeeping
    <2>3. QED
      BY <2>1, <2>2 DEF ConfigInv, ConfigNeedsReply, IInv, TypeOK
  <1>2. ASSUME NEW a \in Asks, AskStep(a) \/ AskInterrupted(a)
        PROVE  ConfigInv' /\ ConfigNeedsReply'
    BY <1>2 DEF AskStep, AskStore, AskReturns, AskInterrupted, askVars, ConfigInv, ConfigNeedsReply
  <1>3. ASSUME NEW o \in Ops, Start(o)
        PROVE  ConfigInv' /\ ConfigNeedsReply'
    BY <1>3, ConfigStart DEF ConfigNeedsReply
  <1>4. ASSUME NEW o \in Ops, LoopEnds(o) \/ Persisted(o)
        PROVE  ConfigInv' /\ ConfigNeedsReply'
    <2>1. /\ UNCHANGED <<request, deferred, by, op, claim>>
          /\ pc[o] \in {"loop", "persist"}
          /\ \E next : pc' = [pc EXCEPT ![o] = next]
          /\ claim[o] = None
          /\ \A p \in Ops \ {o} : verdict'[p] = verdict[p]
      BY <1>4 DEF LoopEnds, Persisted, IInv, TypeOK, Bookkeeping
    <2>2. QED
      BY <2>1 DEF ConfigInv, ConfigNeedsReply, IInv, TypeOK
  <1>5. ASSUME NEW o \in Ops, NEW a \in Asks, Visit(o, a)
        PROVE  ConfigInv' /\ ConfigNeedsReply'
    <2>1. CASE Takes(o, a)
      <3>1. op[o].kind \in Loops
        BY <1>5 DEF Visit, IInv, Bookkeeping
      <3>2. request[a].protected => Decision(o, a) = "rejected" \/ op[o].kind = "always"
        BY <2>1, <3>1 DEF Takes, Decision, Loops
      <3>3. QED
        BY <1>5, <2>1, <3>2 DEF Visit, VisitVars, ConfigInv, ConfigNeedsReply, IInv, TypeOK
    <2>2. CASE ~ Takes(o, a)
      BY <1>5, <2>2 DEF Visit, VisitVars, ConfigInv, ConfigNeedsReply
    <2>3. QED
      BY <2>1, <2>2
  <1>6. CASE UNCHANGED vars
    BY <1>6 DEF vars, ConfigInv, ConfigNeedsReply
  <1>7. QED
    BY <1>1, <1>2, <1>3, <1>4, <1>5, <1>6, ConfigComplete DEF Next, OpStep

(* A configuration file is edited only on a reply: the drain, "allow        *)
(* everything" and rejections never let one through                         *)
(* (kilocode/permission/drain.ts, permission/index.ts allowEverything).     *)
THEOREM ConfigsNeedReplies == Spec => []ConfigNeedsReply
  <1>1. Init => ConfigInv /\ ConfigNeedsReply
    BY DEF Init, ConfigInv, ConfigNeedsReply
  <1>2. IInv /\ ConfigInv /\ ConfigNeedsReply /\ [Next]_vars => ConfigInv' /\ ConfigNeedsReply'
    BY ConfigNext
  <1>3. QED
    BY <1>1, <1>2, Invariance, PTL DEF Spec

----------------------------------------------------------------------------
(* Rejections *)

(* What a rejection has visited is out of the map if it belongs to the      *)
(* session, and what it found there at first cannot come back into the map. *)
Remembered == \A o \in Ops :
  /\ \A a \in swept[o] \cup seen[o] : ask[a] \in {"waiting", "returned"}
  /\ pc[o] = "new" => op[o].kind # "reject"
  /\ pc[o] # "loop" => seen[o] = {}

Gone(o, as) == \A a \in as : request[a].session = op[o].session => a \notin pending

RejectInv ==
  /\ Remembered
  /\ \A o \in Ops : op[o].kind = "reject" =>
       /\ pc[o] = "loop" => Gone(o, seen[o])
       /\ pc[o] = "done" => Gone(o, swept[o])

(* An operation that begins, or is over at once, has visited nothing. *)
LEMMA RejectBegin ==
  ASSUME IInv, RejectInv, NEW o \in Ops, NEW call \in Call, NEW next \in {"settle", "loop", "persist"},
         NEW taken, Begin(o, call, next, taken), UNCHANGED <<ask, request, seen>>
  PROVE  RejectInv'
  <1>1. /\ pc[o] = "new" /\ seen[o] = {} /\ seen'[o] = {}
        /\ pc'[o] = next /\ op'[o] = call
        /\ swept'[o] = pending \/ swept'[o] = swept[o]
        /\ pending' \subseteq pending
    BY DEF Begin, RejectInv, Remembered, IInv, TypeOK
  <1>2. \A p \in Ops \ {o} : /\ pc'[p] = pc[p] /\ op'[p] = op[p]
                             /\ swept'[p] = swept[p] /\ seen'[p] = seen[p]
    BY DEF Begin, IInv, TypeOK
  <1>3. \A a \in pending : ask[a] = "waiting"
    BY DEF IInv, Bookkeeping
  <1>4. Remembered'
    BY <1>1, <1>2, <1>3 DEF Remembered, RejectInv
  <1>5. QED
    BY <1>1, <1>2, <1>4 DEF RejectInv, Gone

LEMMA RejectStart ==
  ASSUME IInv, RejectInv, NEW o \in Ops, Start(o)
  PROVE  RejectInv'
  <1>1. ASSUME NEW kind, Ineffective(o, kind), UNCHANGED <<ask, request, seen>>
        PROVE  RejectInv'
    BY <1>1 DEF Ineffective, RejectInv, Remembered, Gone, IInv, TypeOK
  <1>2. \A a \in Asks : request[a].session \in Sessions
    BY DEF IInv, TypeOK, Sessions
  <1>3. ASSUME NEW a \in Asks, NEW k \in {"once", "always", "reject"}, Reply(o, a, k)
        PROVE  RejectInv'
    <2>1. [kind |-> k, ask |-> a, session |-> request[a].session] \in Call
      BY <1>2 DEF Call, OpKinds
    <2>2. QED
      BY <1>1, <1>3, <2>1, RejectBegin DEF Reply
  <1>4. ASSUME NEW a \in Asks, NEW yes, NEW no, Save(o, a, yes, no)
        PROVE  RejectInv'
    <2>1. [kind |-> "save", ask |-> a, session |-> None] \in Call
      BY DEF Call, OpKinds
    <2>2. QED
      BY <1>1, <1>4, <2>1, RejectBegin DEF Save
  <1>5. ASSUME NEW s \in Sessions \cup {None}, NEW a \in pending \cup {None}, Everything(o, s, a)
        PROVE  RejectInv'
    <2>1. [kind |-> "everything", ask |-> a, session |-> s] \in Call
      BY DEF Call, OpKinds, IInv, TypeOK
    <2>2. QED
      BY <1>5, <2>1, RejectBegin DEF Everything
  <1>6. ASSUME NEW s, Nothing(o, s)
        PROVE  RejectInv'
    BY <1>1, <1>6 DEF Nothing
  <1>7. QED
    BY <1>3, <1>4, <1>5, <1>6 DEF Start

LEMMA RejectStep ==
  ASSUME IInv, RejectInv, NEW o \in Ops, OpStep(o)
  PROVE  RejectInv'
  <1> USE DEF IInv, TypeOK
  <1>1. CASE SettleNamed(o)
    <2>1. UNCHANGED <<ask, request, pending, op, seen, swept>>
      BY <1>1 DEF SettleNamed
    <2>2. /\ pc[o] = "settle"
          /\ \E next \in {"loop", "done"} :
               /\ pc' = [pc EXCEPT ![o] = next]
               /\ op[o].kind = "reject" => next = "loop"
      BY <1>1 DEF SettleNamed
    <2>3. QED
      BY <2>1, <2>2 DEF RejectInv, Remembered, Gone
  <1>2. CASE SettleVisited(o)
    BY <1>2 DEF SettleVisited, RejectInv, Remembered, Gone
  <1>3. CASE LoopEnds(o)
    <2>1. UNCHANGED <<ask, request, pending, op, swept>>
      BY <1>3 DEF LoopEnds
    <2>2. /\ pc[o] = "loop" /\ pending \subseteq seen[o]
          /\ seen' = [seen EXCEPT ![o] = {}]
          /\ \E next \in {"persist", "done"} : pc' = [pc EXCEPT ![o] = next]
      BY <1>3 DEF LoopEnds
    <2>3. Remembered'
      BY <2>1, <2>2 DEF RejectInv, Remembered
    <2>4. op[o].kind = "reject" => Gone(o, swept[o])
      BY <2>2 DEF RejectInv, Gone
    <2>5. QED
      BY <2>1, <2>2, <2>3, <2>4 DEF RejectInv, Gone
  <1>4. CASE Persisted(o)
    <2>1. op[o].kind # "reject"
      BY <1>4 DEF Persisted, Bookkeeping
    <2>2. QED
      BY <1>4, <2>1 DEF Persisted, RejectInv, Remembered, Gone
  <1>5. ASSUME NEW a \in Asks, Visit(o, a)
        PROVE  RejectInv'
    <2>1. /\ UNCHANGED <<ask, request, pc, op, swept>>
          /\ seen' = [seen EXCEPT ![o] = @ \cup {a}]
          /\ pending' \subseteq pending
          /\ pc[o] = "loop" /\ ask[a] = "waiting"
      BY <1>5 DEF Visit, VisitVars, Bookkeeping
    <2>2. op[o].kind = "reject" /\ request[a].session = op[o].session => a \notin pending'
      BY <1>5 DEF Visit, Takes
    <2>3. Remembered'
      BY <2>1 DEF RejectInv, Remembered
    <2>4. QED
      BY <2>1, <2>2, <2>3 DEF RejectInv, Gone
  <1>6. QED
    BY <1>1, <1>2, <1>3, <1>4, <1>5 DEF OpStep

LEMMA RejectNext ==
  ASSUME IInv, RejectInv, [Next]_vars
  PROVE  RejectInv'
  <1>1. ASSUME NEW a \in Asks, NEW r \in Requests, AskEvaluate(a, r)
        PROVE  RejectInv'
    <2>1. /\ ask[a] = "new" /\ request' = [request EXCEPT ![a] = r]
          /\ ask' \in [Asks -> {"new", "asking", "waiting", "returned"}]
          /\ \A b \in Asks \ {a} : ask'[b] = ask[b]
          /\ UNCHANGED <<pending, pc, op, seen, swept>>
      BY <1>1 DEF AskEvaluate, askVars, IInv, TypeOK
    <2>2. \A o \in Ops : a \notin swept[o] \cup seen[o]
      BY <2>1 DEF RejectInv, Remembered
    <2>3. QED
      BY <2>1, <2>2 DEF RejectInv, Remembered, Gone, IInv, TypeOK
  <1>2. ASSUME NEW a \in Asks, AskStep(a) \/ AskInterrupted(a)
        PROVE  RejectInv'
    <2>1. /\ UNCHANGED <<request, pc, op, seen, swept>>
          /\ ask' = [ask EXCEPT ![a] = ask'[a]] /\ ask'[a] \in {"waiting", "returned"}
          /\ pending' \subseteq pending \/ (ask[a] = "asking" /\ pending' = pending \cup {a})
      BY <1>2 DEF AskStep, AskStore, AskReturns, AskInterrupted, askVars, IInv, TypeOK
    <2>2. ask[a] = "asking" => \A o \in Ops : a \notin swept[o] \cup seen[o]
      BY DEF RejectInv, Remembered
    <2>3. QED
      BY <2>1, <2>2 DEF RejectInv, Remembered, Gone, IInv, TypeOK
  <1>3. CASE UNCHANGED vars
    BY <1>3 DEF vars, RejectInv, Remembered, Gone
  <1>4. QED
    BY <1>1, <1>2, <1>3, RejectStart, RejectStep DEF Next

(* When a rejection has returned, nothing of its session that was pending   *)
(* when it was called is pending any more, whatever other replies, drains   *)
(* and new asks came in between (permission/index.ts reply).                *)
THEOREM RejectionsStopTheSession == Spec => []RejectStopsSession
  <1>1. Init => RejectInv
    BY DEF Init, RejectInv, Remembered, NoCall
  <1>2. RejectInv => RejectStopsSession
    BY DEF RejectInv, Gone, RejectStopsSession
  <1>3. QED
    BY <1>1, <1>2, RejectNext, Invariance, PTL DEF Spec

----------------------------------------------------------------------------
(* Lists of rules *)

(* The least-number principle, from which what is said below of recursive   *)
(* functions follows by minimal counterexample.                             *)
LEMMA Least ==
  ASSUME NEW T, T \subseteq Nat, T # {}
  PROVE  \E m \in T : \A n \in T : m <= n
  <1>1. PICK R : R = OpToRel(<, Nat)
    OBVIOUS
  <1>2. IsWellFoundedOn(R, Nat)
    BY <1>1, NatLessThanWellFounded
  <1>3. PICK m \in T : \A n \in T : ~ (<<n, m>> \in R)
    BY <1>2, WFMin
  <1>4. \A n \in T : <<n, m>> \in R <=> n < m
    BY <1>1 DEF OpToRel
  <1>5. \A n \in T : m \in Nat /\ n \in Nat /\ ~ (n < m)
    BY <1>3, <1>4
  <1>6. QED
    BY <1>5

(* What holds of 0, and of n when it does of n - 1, holds up to N. *)
LEMMA Induct ==
  ASSUME NEW N \in Nat, NEW T, 0 \in T, \A n \in 1..N : n - 1 \in T => n \in T
  PROVE  0..N \subseteq T
  <1> DEFINE Bad == {n \in 0..N : n \notin T}
  <1> SUFFICES ASSUME Bad # {} PROVE FALSE
    OBVIOUS
  <1>1. Bad \in SUBSET Nat
    OBVIOUS
  <1> HIDE DEF Bad
  <1>2. PICK m \in Bad : \A n \in Bad : m <= n
    BY <1>1, Least
  <1> USE DEF Bad
  <1>3. m \in 1..N /\ m - 1 \in 0..N /\ ~ (m <= m - 1)
    BY <1>2
  <1>4. QED
    BY <1>2, <1>3

(* f goes on from z with G; there is such a function. *)
Iterates(f, N, z, G) == f[0] = z /\ \A n \in 1..N : f[n] = G[n][f[n - 1]]

LEMMA Recursion ==
  ASSUME NEW N \in Nat, NEW S, NEW z \in S, NEW G \in [1..N -> [S -> S]]
  PROVE  \E f \in [0..N -> S] : Iterates(f, N, z, G)
  <1> DEFINE Partial(n) ==
               \E f \in [0..n -> S] : f[0] = z /\ \A i \in 1..n : f[i] = G[i][f[i - 1]]
             T == {n \in 0..N : Partial(n)}
  <1>1. Partial(0)
    <2> DEFINE f == [n \in 0..0 |-> z]
    <2>1. f \in [0..0 -> S] /\ f[0] = z /\ 1..0 = {}
      OBVIOUS
    <2>2. QED
      BY <2>1
  <1>2. ASSUME NEW n \in 1..N, Partial(n - 1)
        PROVE  Partial(n)
    <2>1. PICK f \in [0..(n - 1) -> S] :
             f[0] = z /\ \A i \in 1..(n - 1) : f[i] = G[i][f[i - 1]]
      BY <1>2
    <2> DEFINE x == G[n][f[n - 1]]
               g == [i \in 0..n |-> IF i = n THEN x ELSE f[i]]
    <2>2. n - 1 \in 0..(n - 1) /\ n # 0 /\ n \in 0..n /\ 0 \in 0..n
      OBVIOUS
    <2>3. x \in S
      BY <2>1, <2>2
    <2>4. \A i \in 0..n : i = n \/ i \in 0..(n - 1)
      OBVIOUS
    <2>5. g \in [0..n -> S]
      BY <2>1, <2>3, <2>4
    <2>6. g[0] = z
      BY <2>1, <2>2
    <2>7. ASSUME NEW i \in 1..n PROVE g[i] = G[i][g[i - 1]]
      <3>1. i - 1 \in 0..n /\ i - 1 # n /\ i \in 0..n
        OBVIOUS
      <3>2. g[i - 1] = f[i - 1]
        BY <3>1
      <3>3. CASE i = n
        BY <3>1, <3>2, <3>3
      <3>4. CASE i # n
        <4>1. i \in 1..(n - 1)
          BY <3>4
        <4>2. QED
          BY <2>1, <3>1, <3>2, <3>4, <4>1
      <3>5. QED
        BY <3>3, <3>4
    <2>8. QED
      BY <2>5, <2>6, <2>7
  <1> HIDE DEF Partial
  <1>3. 0 \in T /\ \A n \in 1..N : n - 1 \in T => n \in T
    BY <1>1, <1>2
  <1> HIDE DEF T
  <1>4. 0..N \subseteq T
    BY <1>3, Induct
  <1>4a. N \in T
    BY <1>4
  <1>5. QED
    BY <1>4a DEF T, Partial, Iterates

LEMMA EmptyList ==
  ASSUME NEW S, NEW s \in Seq(S), Len(s) = 0
  PROVE  s = <<>>
  OBVIOUS

(* A list of lists is flattened by putting one behind the other. *)
LEMMA FlattenSteps ==
  ASSUME NEW S, NEW seqs \in Seq(Seq(S))
  PROVE  \E f \in [0..Len(seqs) -> Seq(S)] :
           /\ f[0] = <<>>
           /\ \A n \in 1..Len(seqs) : f[n] = f[n - 1] \o seqs[n]
           /\ FlattenSeq(seqs) = f[Len(seqs)]
  <1>0. PICK N \in Nat : N = Len(seqs) /\ \A i \in 1..N : seqs[i] \in Seq(S)
    OBVIOUS
  <1>1. PICK L : L = Seq(S)
    OBVIOUS
  <1>2. <<>> \in L /\ \A s \in L : <<>> \o s = s /\ \A n \in 1..N : s \o seqs[n] \in L
    BY <1>0, <1>1
  <1>3. PICK f \in [0..N -> L] : f[0] = <<>> /\ \A n \in 1..N : f[n] = f[n - 1] \o seqs[n]
    <2>1. PICK z \in L : z = <<>>
      BY <1>2
    <2>2. PICK G \in [1..N -> [L -> L]] : \A n \in 1..N, s \in L : G[n][s] = s \o seqs[n]
      <3>1. [n \in 1..N |-> [s \in L |-> s \o seqs[n]]] \in [1..N -> [L -> L]]
        BY <1>2
      <3>2. QED
        BY <3>1
    <2>3. PICK f \in [0..N -> L] : Iterates(f, N, z, G)
      BY Recursion
    <2>4. \A n \in 1..N : n - 1 \in 0..N
      OBVIOUS
    <2>5. \A n \in 1..N : f[n] = f[n - 1] \o seqs[n]
      BY <2>2, <2>3, <2>4 DEF Iterates
    <2>6. QED
      BY <2>1, <2>3, <2>5 DEF Iterates
  <1>5. CASE N = 0
    <2>1. seqs = <<>> /\ Len(seqs) = 0
      BY <1>0, <1>5, EmptyList
    <2>1a. FlattenSeq(seqs) = <<>>
      BY <2>1 DEF FlattenSeq
    <2>2. QED
      BY <1>0, <1>1, <1>3, <1>5, <2>1a
  <1>6. CASE N # 0
    <2> DEFINE Step(h, i) == IF i = 1 THEN seqs[i] ELSE h[i - 1] \o seqs[i]
               flatten == CHOOSE h : h = [i \in 1..N |-> Step(h, i)]
               h0 == [i \in 1..N |-> f[i]]
    <2>1. FlattenSeq(seqs) = flatten[N]
      BY <1>0, <1>6 DEF FlattenSeq
    <2>2. h0 = [i \in 1..N |-> Step(h0, i)]
      <3> SUFFICES ASSUME NEW i \in 1..N PROVE h0[i] = Step(h0, i)
        OBVIOUS
      <3>1. f[i] = f[i - 1] \o seqs[i]
        BY <1>3
      <3>2. CASE i = 1
        <4>1. seqs[i] \in L /\ f[i - 1] = <<>>
          BY <1>0, <1>1, <1>3, <3>2
        <4>2. QED
          BY <1>2, <3>1, <3>2, <4>1
      <3>3. CASE i # 1
        <4>1. i - 1 \in 1..N
          BY <1>0, <3>3
        <4>2. QED
          BY <3>1, <3>3, <4>1
      <3>4. QED
        BY <3>2, <3>3
    <2> HIDE DEF h0
    <2>3. flatten = [i \in 1..N |-> Step(flatten, i)]
      BY <2>2
    <2> HIDE DEF flatten
    <2>3a. \A n \in 1..N : /\ flatten[n] = Step(flatten, n)
                           /\ f[n] = f[n - 1] \o seqs[n] /\ n \in 0..N
      <3> SUFFICES ASSUME NEW n \in 1..N
                   PROVE  /\ flatten[n] = Step(flatten, n)
                          /\ f[n] = f[n - 1] \o seqs[n] /\ n \in 0..N
        OBVIOUS
      <3>1. n \in 0..N
        BY <1>0
      <3> HIDE DEF Step
      <3>2. flatten[n] = Step(flatten, n)
        BY <2>3, ZenonT(30)
      <3>3. QED
        BY <1>3, <3>1, <3>2
    <2> DEFINE T == {n \in 0..N : n = 0 \/ flatten[n] = f[n]}
    <2>4. ASSUME NEW n \in 1..N, n - 1 \in T
          PROVE  n \in T
      <3>1. flatten[n] = Step(flatten, n) /\ f[n] = f[n - 1] \o seqs[n] /\ n \in 0..N
        BY <2>3a
      <3>2. CASE n = 1
        <4>1. seqs[n] \in L /\ f[n - 1] = <<>>
          BY <1>0, <1>1, <1>3, <3>2
        <4>2. flatten[n] = f[n]
          BY <1>2, <3>1, <3>2, <4>1
        <4>3. QED
          BY <3>1, <4>2
      <3>3. CASE n # 1
        <4>1. n - 1 # 0
          BY <3>3
        <4>1a. flatten[n] = flatten[n - 1] \o seqs[n]
          BY <3>1, <3>3
        <4>2. flatten[n - 1] = f[n - 1]
          BY <2>4, <4>1
        <4>3. QED
          BY <3>1, <4>1a, <4>2
      <3>4. QED
        BY <3>2, <3>3
    <2>5. 0 \in T
      BY <1>0
    <2> HIDE DEF T
    <2>6. 0..N \subseteq T
      BY <1>0, <2>4, <2>5, Induct
    <2>7. flatten[N] = f[N]
      <3>1. N \in T
        BY <1>0, <2>6
      <3>2. QED
        BY <1>6, <3>1 DEF T
    <2>8. QED
      BY <1>0, <1>1, <1>3, <2>1, <2>7
  <1>7. QED
    BY <1>5, <1>6

(* A list of lists over S is flattened to a list over S. *)
LEMMA FlattenType ==
  ASSUME NEW S, NEW seqs \in Seq(Seq(S))
  PROVE  FlattenSeq(seqs) \in Seq(S)
  <1>1. PICK f \in [0..Len(seqs) -> Seq(S)] : FlattenSeq(seqs) = f[Len(seqs)]
    BY FlattenSteps
  <1>2. Len(seqs) \in 0..Len(seqs)
    OBVIOUS
  <1>3. QED
    BY <1>1, <1>2

(* Rulesets stay rulesets under what is done with them. *)
LEMMA RulesetIsSeq ==
  ASSUME NEW rules, NEW S, rules \in Seq(S), \A r \in S : r.action \in Actions
  PROVE  IsRuleset(rules)
  <1>1. rules \in Seq(ToSet(rules))
    BY DEF ToSet
  <1>2. \A i \in DOMAIN rules : rules[i] \in S
    OBVIOUS
  <1>3. QED
    BY <1>1, <1>2 DEF IsRuleset

LEMMA RulesetElements ==
  ASSUME NEW rules, IsRuleset(rules)
  PROVE  \A r \in ToSet(rules) : r.action \in Actions
  BY DEF IsRuleset, ToSet

LEMMA ConcatRulesets ==
  ASSUME NEW s, NEW t, IsRuleset(s), IsRuleset(t)
  PROVE  IsRuleset(s \o t)
  <1> DEFINE S == ToSet(s) \cup ToSet(t)
  <1>1. s \in Seq(S) /\ t \in Seq(S)
    BY DEF IsRuleset
  <1>2. \A r \in S : r.action \in Actions
    BY RulesetElements
  <1> HIDE DEF S
  <1>3. s \o t \in Seq(S)
    BY <1>1
  <1>4. QED
    BY <1>2, <1>3, RulesetIsSeq

LEMMA RulesForIsRuleset ==
  ASSUME NEW r, NEW pats, pats \in Seq(ToSet(pats)), NEW action \in Actions
  PROVE  IsRuleset(RulesFor(r, pats, action))
  <1> DEFINE S == {[permission |-> r.permission, pattern |-> p, action |-> action] : p \in ToSet(pats)}
  <1>1. RulesFor(r, pats, action) \in Seq(S)
    BY DEF RulesFor, ToSet
  <1>2. \A x \in S : x.action \in Actions
    OBVIOUS
  <1> HIDE DEF S
  <1>3. QED
    BY <1>1, <1>2, RulesetIsSeq

LEMMA NewRulesIsRuleset ==
  ASSUME NEW r \in Requests, NEW yes, NEW no
  PROVE  IsRuleset(NewRules(r, yes, no))
  <1> DEFINE Chosen(p, pats, action) == IF p \in pats THEN RulesFor(r, <<p>>, action) ELSE <<>>
             Rule(p, action) == [permission |-> r.permission, pattern |-> p, action |-> action]
             S == {Rule(p, action) : p \in ToSet(r.always), action \in Actions}
             parts == [i \in DOMAIN r.always |->
                         Chosen(r.always[i], yes, "allow") \o Chosen(r.always[i], no, "deny")]
  <1>1. r.always \in Seq(ToSet(r.always)) /\ \A i \in DOMAIN r.always : r.always[i] \in ToSet(r.always)
    BY RequestsAssumption DEF ToSet
  <1>2. ASSUME NEW p \in ToSet(r.always), NEW pats, NEW action \in Actions
        PROVE  Chosen(p, pats, action) \in Seq(S)
    <2>1. RulesFor(r, <<p>>, action) = <<Rule(p, action)>>
      BY DEF RulesFor
    <2>2. Rule(p, action) \in S
      OBVIOUS
    <2> HIDE DEF S, Rule
    <2>3. <<Rule(p, action)>> \in Seq(S) /\ <<>> \in Seq(S)
      BY <2>2
    <2>4. QED
      BY <2>1, <2>3
  <1>3. "allow" \in Actions /\ "deny" \in Actions
    BY DEF Actions
  <1> HIDE DEF Chosen, S
  <1>4. \A i \in DOMAIN r.always : parts[i] \in Seq(S)
    BY <1>1, <1>2, <1>3
  <1>5. parts \in Seq(Seq(S))
    <2>1. DOMAIN r.always = 1..Len(r.always) /\ Len(r.always) \in Nat
      BY <1>1
    <2>2. parts \in [1..Len(r.always) -> Seq(S)]
      BY <1>4, <2>1
    <2> HIDE DEF parts
    <2>3. QED
      BY <2>1, <2>2
  <1>6. NewRules(r, yes, no) = FlattenSeq(parts)
    BY DEF NewRules, Chosen
  <1> HIDE DEF parts
  <1>7. NewRules(r, yes, no) \in Seq(S)
    BY <1>5, <1>6, FlattenType
  <1>8. \A x \in S : x.action \in Actions
    BY DEF S
  <1>9. QED
    BY <1>7, <1>8, RulesetIsSeq

LEMMA AllowAllIsRuleset == IsRuleset(<<AllowAll>>) /\ IsRuleset(<<>>)
  <1>1. AllowAll.action \in Actions
    BY DEF AllowAll, Actions
  <1>2. PICK S : S = {AllowAll}
    OBVIOUS
  <1>3. \A r \in S : r.action \in Actions
    BY <1>1, <1>2
  <1>4. <<AllowAll>> \in Seq(S) /\ <<>> \in Seq(S)
    BY <1>2
  <1>5. QED
    BY <1>3, <1>4, RulesetIsSeq

LEMMA RemoveAtIsRuleset ==
  ASSUME NEW rules, IsRuleset(rules)
  PROVE  LET i == SelectLastInSeq(rules, LAMBDA r : r = AllowAll)
         IN  i # 0 => IsRuleset(RemoveAt(rules, i))
  <1> DEFINE I == {i \in 1..Len(rules) : rules[i] = AllowAll}
             last == SelectLastInSeq(rules, LAMBDA r : r = AllowAll)
             back == {Len(rules) - i : i \in I}
             S == ToSet(rules)
  <1>1. rules \in Seq(S) /\ \A r \in S : r.action \in Actions
    BY RulesetElements DEF IsRuleset
  <1> HIDE DEF S
  <1>2. Len(rules) \in Nat
    BY <1>1
  <1>3. ASSUME I # {}
        PROVE  Max(I) \in I
    <2>1. back \subseteq Nat /\ back # {}
      BY <1>2, <1>3
    <2> HIDE DEF back
    <2>2. PICK b \in back : \A c \in back : b <= c
      BY <2>1, Least
    <2> USE DEF back
    <2>3. PICK m \in I : b = Len(rules) - m
      BY <2>2
    <2>3a. \A i \in I : i \in Nat /\ Len(rules) - i \in back
      BY <1>2
    <2>4. \A i \in I : i \in Nat /\ m \in Nat /\ b <= Len(rules) - i
      BY <2>2, <2>3, <2>3a
    <2>4a. \A i \in I : m >= i
      BY <1>2, <2>3, <2>4
    <2>5. QED
      BY <2>3, <2>4a DEF Max
  <1>4. ASSUME NEW i \in 1..Len(rules)
        PROVE  RemoveAt(rules, i) \in Seq(S)
    <2>1. SubSeq(rules, 1, i - 1) \in Seq(S)
      BY <1>1, <1>2
    <2>2. SubSeq(rules, i + 1, Len(rules)) \in Seq(S)
      BY <1>1, <1>2
    <2>3. QED
      BY <2>1, <2>2 DEF RemoveAt
  <1>5. last = IF I # {} THEN Max(I) ELSE 0
    BY DEF SelectLastInSeq
  <1> HIDE DEF last
  <1>6. last # 0 => last \in 1..Len(rules)
    BY <1>3, <1>5
  <1>7. last # 0 => IsRuleset(RemoveAt(rules, last))
    BY <1>1, <1>4, <1>6, RulesetIsSeq
  <1>8. QED
    BY <1>7 DEF last

(* Whatever the rules are, they decide with one of the three actions. *)
LEMMA EvaluateActs ==
  ASSUME NEW perm, NEW pat, NEW rules, IsRuleset(rules)
  PROVE  Evaluate(perm, pat, rules) \in Actions
  <1> DEFINE Chosen(j) == /\ j \in DOMAIN rules
                          /\ Matches(perm, rules[j].permission) /\ Matches(pat, rules[j].pattern)
                          /\ \A k \in DOMAIN rules :
                               Matches(perm, rules[k].permission) /\ Matches(pat, rules[k].pattern) => k <= j
  <1>1. Evaluate(perm, pat, rules) =
          IF \E j \in DOMAIN rules : Chosen(j)
            THEN rules[CHOOSE j \in DOMAIN rules : Chosen(j)].action
            ELSE "ask"
    BY DEF Evaluate, IsLast
  <1> HIDE DEF Chosen
  <1>2. QED
    BY <1>1 DEF IsRuleset, Actions

----------------------------------------------------------------------------
(* Drains *)

(* The rules of a project are a ruleset; an ask that is being settled is    *)
(* named by the call.                                                       *)
RulesInv ==
  /\ IsRuleset(approved)
  /\ \A o \in Ops : pc[o] = "settle" => op[o].ask \in Asks

LEMMA RulesetNext ==
  ASSUME IInv, RulesInv, [Next]_vars
  PROVE  IsRuleset(approved)'
  <1>1. CASE UNCHANGED approved
    BY <1>1 DEF RulesInv
  <1>2. ASSUME NEW a \in Asks, NEW yes, NEW no, NEW o, Save(o, a, yes, no)
        PROVE  IsRuleset(approved)'
    <2>1. request[a] \in Requests
      BY DEF IInv, TypeOK
    <2>2. approved' = approved \/ approved' = approved \o NewRules(request[a], yes, no)
      BY <1>2 DEF Save
    <2>3. QED
      BY <2>1, <2>2, NewRulesIsRuleset, ConcatRulesets DEF RulesInv
  <1>3. ASSUME NEW s, NEW a, NEW o, Everything(o, s, a)
        PROVE  IsRuleset(approved)'
    <2>1. approved' = approved \/ approved' = Append(approved, AllowAll)
      BY <1>3 DEF Everything
    <2>2. Append(approved, AllowAll) = approved \o <<AllowAll>>
      BY DEF RulesInv, IsRuleset
    <2>3. QED
      BY <2>1, <2>2, AllowAllIsRuleset, ConcatRulesets DEF RulesInv
  <1>4. ASSUME NEW s, NEW o, Nothing(o, s)
        PROVE  IsRuleset(approved)'
    <2> DEFINE last == SelectLastInSeq(approved, LAMBDA r : r = AllowAll)
    <2>1. approved' = approved \/ (last # 0 /\ approved' = RemoveAt(approved, last))
      BY <1>4 DEF Nothing
    <2>2. last # 0 => IsRuleset(RemoveAt(approved, last))
      BY RemoveAtIsRuleset DEF RulesInv
    <2>3. QED
      BY <2>1, <2>2 DEF RulesInv
  <1>5. ASSUME NEW o \in Ops, SettleNamed(o)
        PROVE  IsRuleset(approved)'
    <2> DEFINE r == request[op[o].ask]
    <2>1. CASE approved' = approved
      BY <2>1 DEF RulesInv
    <2>2. CASE approved' # approved
      <3>1. op[o].kind = "always" /\ approved' = approved \o RulesFor(r, r.always, "allow")
        BY <1>5, <2>2 DEF SettleNamed
      <3>2. r \in Requests
        BY <1>5, <3>1 DEF SettleNamed, IInv, TypeOK, RulesInv
      <3>3. r.always \in Seq(ToSet(r.always)) /\ "allow" \in Actions
        BY <3>2, RequestsAssumption DEF Actions
      <3>4. QED
        BY <3>1, <3>3, RulesForIsRuleset, ConcatRulesets DEF RulesInv
    <2>3. QED
      BY <2>1, <2>2
  <1>6. ASSUME NEW o \in Ops, SettleVisited(o) \/ LoopEnds(o) \/ Persisted(o) \/ (\E a \in Asks : Visit(o, a))
        PROVE  UNCHANGED approved
    BY <1>6 DEF SettleVisited, LoopEnds, Persisted, Visit, VisitVars
  <1>7. ASSUME NEW o, NEW a, NEW k, Reply(o, a, k)
        PROVE  UNCHANGED approved
    BY <1>7 DEF Reply
  <1>8. ASSUME NEW a, NEW r, AskEvaluate(a, r) \/ AskStep(a) \/ AskInterrupted(a)
        PROVE  UNCHANGED approved
    BY <1>8 DEF AskEvaluate, AskStep, AskStore, AskReturns, AskInterrupted, askVars
  <1>9. QED
    BY <1>1, <1>2, <1>3, <1>4, <1>5, <1>6, <1>7, <1>8 DEF Next, Start, OpStep, vars

LEMMA NamedNext ==
  ASSUME IInv, RulesInv, [Next]_vars, NEW o \in Ops, pc'[o] = "settle"
  PROVE  op'[o].ask \in Asks
  <1>0. pending \subseteq Asks /\ (pc[o] = "settle" => op[o].ask \in Asks)
    BY DEF IInv, TypeOK, RulesInv
  <1>1. ASSUME NEW p \in Ops, NEW kind, Ineffective(p, kind)
        PROVE  op'[o].ask \in Asks
    BY <1>0, <1>1 DEF Ineffective, IInv, TypeOK
  <1>2. ASSUME NEW p \in Ops, NEW call, NEW next, NEW taken, Begin(p, call, next, taken),
               next = "settle" => call.ask \in Asks
        PROVE  op'[o].ask \in Asks
    BY <1>0, <1>2 DEF Begin, IInv, TypeOK
  <1>3. ASSUME NEW p \in Ops, Start(p)
        PROVE  op'[o].ask \in Asks
    <2>1. ASSUME NEW a \in Asks, NEW k, Reply(p, a, k)
          PROVE  op'[o].ask \in Asks
      BY <1>0, <1>1, <1>2, <2>1 DEF Reply
    <2>2. ASSUME NEW a \in Asks, NEW yes, NEW no, Save(p, a, yes, no)
          PROVE  op'[o].ask \in Asks
      BY <1>0, <1>1, <1>2, <2>2 DEF Save
    <2>3. ASSUME NEW s, NEW a, Everything(p, s, a)
          PROVE  op'[o].ask \in Asks
      BY <1>0, <1>2, <2>3 DEF Everything
    <2>4. ASSUME NEW s, Nothing(p, s)
          PROVE  op'[o].ask \in Asks
      BY <1>1, <2>4 DEF Nothing
    <2>5. QED
      BY <1>3, <2>1, <2>2, <2>3, <2>4 DEF Start
  <1>4. ASSUME NEW p \in Ops, OpStep(p)
        PROVE  op'[o].ask \in Asks
    <2>1. op' = op /\ \E next : next # "settle" /\ (pc' = [pc EXCEPT ![p] = next] \/ pc' = pc)
      BY <1>4 DEF OpStep, SettleNamed, SettleVisited, LoopEnds, Persisted, Visit, VisitVars
    <2>2. QED
      BY <1>0, <2>1 DEF IInv, TypeOK
  <1>5. CASE UNCHANGED <<pc, op>>
    BY <1>0, <1>5
  <1>6. ASSUME NEW a, NEW r, AskEvaluate(a, r) \/ AskStep(a) \/ AskInterrupted(a)
        PROVE  UNCHANGED <<pc, op>>
    BY <1>6 DEF AskEvaluate, AskStep, AskStore, AskReturns, AskInterrupted, askVars
  <1>7. QED
    BY <1>3, <1>4, <1>5, <1>6 DEF Next, vars

(* Nobody else is at work, nor has been. *)
Alone(o) == \A p \in Ops \ {o} : pc[p] = "new"

(* A drain that is alone leaves behind it what the rules do not decide. *)
DrainInv == \A o \in Ops : op[o].kind = "save" =>
  /\ pc[o] \in {"persist", "loop", "done"}
  /\ Alone(o) =>
       /\ pc[o] = "loop" => \A a \in seen[o] \cap pending : ~ Takes(o, a)
       /\ pc[o] = "done" => \A a \in swept[o] \cap pending : ~ Takes(o, a)

(* What an ask that is known to an operation gets from the rules does not   *)
(* change while they do not.                                                *)
LEMMA TakesSame ==
  ASSUME NEW o, NEW a, op'[o] = op[o], request'[a] = request[a], approved' = approved
  PROVE  Takes(o, a)' <=> Takes(o, a)
  BY DEF Takes, Covered, Verdicts

LEMMA AlonePast ==
  ASSUME IInv, [Next]_vars, NEW o \in Ops, Alone(o)'
  PROVE  /\ Alone(o)
         /\ \A p \in Ops \ {o} : ~ Start(p) /\ ~ OpStep(p)
  <1>1. ASSUME NEW p \in Ops, Start(p) \/ OpStep(p)
        PROVE  p = o /\ \A q \in Ops \ {p} : pc'[q] = pc[q]
    <2>1. ASSUME Start(p)
          PROVE  \E next : next # "new" /\ pc' = [pc EXCEPT ![p] = next]
      BY <2>1 DEF Start, Reply, Save, Everything, Nothing, Begin, Ineffective
    <2>2. ASSUME OpStep(p)
          PROVE  /\ pc[p] # "new"
                 /\ pc' = pc \/ \E next : next # "new" /\ pc' = [pc EXCEPT ![p] = next]
      BY <2>2 DEF OpStep, SettleNamed, SettleVisited, LoopEnds, Persisted, Visit, VisitVars
    <2>3. QED
      BY <1>1, <2>1, <2>2 DEF Alone, IInv, TypeOK
  <1>2. ASSUME NEW a, NEW r, AskEvaluate(a, r) \/ AskStep(a) \/ AskInterrupted(a)
        PROVE  UNCHANGED pc
    BY <1>2 DEF AskEvaluate, AskStep, AskStore, AskReturns, AskInterrupted, askVars
  <1>3. QED
    BY <1>1, <1>2 DEF Next, vars, Alone

LEMMA DrainNext ==
  ASSUME IInv, RejectInv, DrainInv, [Next]_vars
  PROVE  DrainInv'
  <1> USE DEF IInv, TypeOK
  <1>1. ASSUME NEW a \in Asks, NEW r \in Requests, AskEvaluate(a, r) \/ AskStep(a) \/ AskInterrupted(a)
        PROVE  DrainInv'
    <2>1. /\ UNCHANGED <<pc, op, approved, seen, swept>>
          /\ \A b \in Asks : ask[b] \in {"waiting", "returned"} =>
               request'[b] = request[b] /\ (b \in pending' => b \in pending)
      BY <1>1 DEF AskEvaluate, AskStep, AskStore, AskReturns, AskInterrupted, askVars
    <2>2. ASSUME NEW o \in Ops, NEW b \in swept[o] \cup seen[o], b \in pending'
          PROVE  b \in pending /\ (Takes(o, b)' <=> Takes(o, b))
      BY <2>1, <2>2, TakesSame DEF RejectInv, Remembered
    <2>3. QED
      BY <2>1, <2>2 DEF DrainInv, Alone
  <1>2. ASSUME NEW p \in Ops, Start(p)
        PROVE  DrainInv'
    <2>1. /\ pc[p] = "new" /\ seen' = seen /\ seen[p] = {}
          /\ \A q \in Ops \ {p} : pc'[q] = pc[q] /\ op'[q] = op[q]
          /\ op'[p].kind = "save" => pc'[p] \in {"persist", "loop"}
          /\ pc'[p] # "new"
      <3>1. pc[p] = "new" /\ seen' = seen
        BY <1>2 DEF Start, Reply, Save, Everything, Nothing, Begin, Ineffective
      <3>2. op[p].kind # "save"
        BY <3>1 DEF DrainInv
      <3>3. ASSUME NEW kind, Ineffective(p, kind)
            PROVE  op' = op /\ pc' = [pc EXCEPT ![p] = "done"]
        BY <3>3 DEF Ineffective
      <3>4. ASSUME NEW call, NEW next, NEW taken, Begin(p, call, next, taken)
            PROVE  op' = [op EXCEPT ![p] = call] /\ pc' = [pc EXCEPT ![p] = next]
        BY <3>4 DEF Begin
      <3> DEFINE Enters == \E call, next :
                   /\ op' = [op EXCEPT ![p] = call] /\ pc' = [pc EXCEPT ![p] = next]
                   /\ next # "new" /\ (call.kind = "save" => next \in {"persist", "loop"})
      <3>5. (op' = op /\ pc' = [pc EXCEPT ![p] = "done"]) \/ Enters
        <4>1. ASSUME NEW call, NEW next, NEW taken, Begin(p, call, next, taken), next # "new",
                     call.kind = "save" => next \in {"persist", "loop"}
              PROVE  Enters
          BY <3>4, <4>1
        <4> HIDE DEF Enters
        <4>2. ASSUME NEW a \in Asks, NEW k \in {"once", "always", "reject"}, Reply(p, a, k)
              PROVE  (op' = op /\ pc' = [pc EXCEPT ![p] = "done"]) \/ Enters
          <5>1. \A t : [kind |-> k, ask |-> a, session |-> t].kind # "save"
            BY <4>2
          <5>2. QED
            BY <3>3, <4>1, <4>2, <5>1 DEF Reply
        <4>3. ASSUME NEW a \in Asks, NEW yes, NEW no, Save(p, a, yes, no)
              PROVE  (op' = op /\ pc' = [pc EXCEPT ![p] = "done"]) \/ Enters
          BY <3>3, <4>1, <4>3 DEF Save
        <4>4. ASSUME NEW s, NEW a, Everything(p, s, a)
              PROVE  (op' = op /\ pc' = [pc EXCEPT ![p] = "done"]) \/ Enters
          BY <4>1, <4>4 DEF Everything
        <4>5. ASSUME NEW s, Nothing(p, s)
              PROVE  (op' = op /\ pc' = [pc EXCEPT ![p] = "done"]) \/ Enters
          BY <3>3, <4>5 DEF Nothing
        <4>6. QED
          BY <1>2, <4>2, <4>3, <4>4, <4>5 DEF Start
      <3>6. QED
        BY <3>1, <3>2, <3>5 DEF RejectInv, Remembered
    <2>2. ASSUME NEW o \in Ops, op'[o].kind = "save"
          PROVE  /\ pc'[o] \in {"persist", "loop", "done"}
                 /\ Alone(o)' => o = p
      BY <2>1, <2>2 DEF DrainInv, Alone
    <2>3. QED
      BY <2>1, <2>2 DEF DrainInv
  <1>3. ASSUME NEW p \in Ops, OpStep(p)
        PROVE  DrainInv'
    <2>1. /\ op' = op /\ UNCHANGED <<request, swept>>
          /\ \A q \in Ops \ {p} : pc'[q] = pc[q]
          /\ pc[p] \in {"settle", "loop", "persist"} /\ pc'[p] \in {"loop", "persist", "done"}
      BY <1>3 DEF OpStep, SettleNamed, SettleVisited, LoopEnds, Persisted, Visit, VisitVars
    <2>2. ASSUME NEW o \in Ops, op[o].kind = "save", o # p
          PROVE  pc'[o] \in {"persist", "loop", "done"} /\ ~ Alone(o)'
      BY <2>1, <2>2 DEF DrainInv, Alone
    <2>3. CASE op[p].kind = "save"
      <3>1. ~ SettleNamed(p)
        BY <2>3 DEF SettleNamed, DrainInv
      <3>2. approved' = approved /\ pending' \subseteq pending
        BY <1>3, <3>1 DEF OpStep, SettleVisited, LoopEnds, Persisted, Visit, VisitVars
      <3>3. \A a \in Asks : Takes(p, a)' <=> Takes(p, a)
        BY <2>1, <3>2, TakesSame
      <3>4. Alone(p)' <=> Alone(p)
        BY <2>1 DEF Alone
      <3>5. pc'[p] \in {"persist", "loop", "done"}
        BY <2>1
      <3>6. ASSUME Alone(p), pc'[p] = "loop", NEW a \in seen'[p] \cap pending'
            PROVE  ~ Takes(p, a)
        <4>1. CASE SettleVisited(p)
          BY <2>3, <3>2, <3>6, <4>1 DEF SettleVisited, DrainInv
        <4>2. CASE Persisted(p)
          BY <3>6, <4>2 DEF Persisted, RejectInv, Remembered
        <4>3. CASE \E b \in Asks : Visit(p, b)
          BY <2>3, <3>2, <3>6, <4>3 DEF Visit, VisitVars, DrainInv
        <4>4. CASE LoopEnds(p)
          BY <3>6, <4>4 DEF LoopEnds
        <4>5. QED
          BY <1>3, <3>1, <4>1, <4>2, <4>3, <4>4 DEF OpStep
      <3>7. ASSUME Alone(p), pc'[p] = "done", NEW a \in swept'[p] \cap pending'
            PROVE  ~ Takes(p, a)
        <4>1. LoopEnds(p)
          BY <1>3, <2>3, <3>1, <3>7 DEF OpStep, SettleVisited, Persisted, Visit, VisitVars
        <4>2. QED
          BY <2>3, <3>7, <4>1 DEF LoopEnds, DrainInv
      <3>8. seen'[p] \subseteq Asks /\ swept'[p] \subseteq Asks
        BY <1>3, <2>1 DEF OpStep, SettleNamed, SettleVisited, LoopEnds, Persisted, Visit, VisitVars
      <3>9. QED
        BY <2>1, <2>2, <3>3, <3>4, <3>5, <3>6, <3>7, <3>8 DEF DrainInv
    <2>4. CASE op[p].kind # "save"
      BY <2>1, <2>2, <2>4 DEF DrainInv
    <2>5. QED
      BY <2>3, <2>4
  <1>4. CASE UNCHANGED vars
    BY <1>4, TakesSame DEF vars, DrainInv, Alone
  <1>5. QED
    BY <1>1, <1>2, <1>3, <1>4 DEF Next

(* When saveAlwaysRules has returned and nobody else has touched the rules, *)
(* the asks that are left, of whatever session, are those the rules leave   *)
(* to the user (permission/index.ts saveAlwaysRules, kilocode/permission/   *)
(* drain.ts).                                                               *)
THEOREM DrainsAreComplete == Spec => []DrainIsComplete
  <1>1. Init => RejectInv /\ RulesInv /\ DrainInv
    BY AllowAllIsRuleset DEF Init, RejectInv, Remembered, RulesInv, DrainInv, NoCall
  <1>2. IInv /\ RulesInv /\ [Next]_vars => RulesInv'
    BY RulesetNext, NamedNext DEF RulesInv
  <1>3. IInv /\ RulesInv /\ DrainInv => DrainIsComplete
    <2> SUFFICES ASSUME IInv, RulesInv, DrainInv, NEW o \in Ops, pc[o] = "done",
                        op[o].kind = "save", Alone(o), NEW a \in swept[o] \cap pending,
                        a # op[o].ask, ~ request[a].protected
                 PROVE  "ask" \in Covered(a) /\ "deny" \notin Covered(a)
      BY DEF DrainIsComplete, Alone
    <2>1. ~ Takes(o, a)
      BY DEF DrainInv
    <2>2. "deny" \notin Covered(a) /\ ~ (Covered(a) \subseteq {"allow"})
      BY <2>1 DEF Takes
    <2>3. IsRuleset(request[a].ruleset \o approved)
      BY RequestsAssumption, ConcatRulesets DEF RulesInv, IInv, TypeOK
    <2>4. Covered(a) \subseteq Actions
      BY <2>3, EvaluateActs DEF Covered, Verdicts
    <2>5. QED
      BY <2>2, <2>4 DEF Actions
  <1>4. QED
    BY <1>1, <1>2, <1>3, RejectNext, DrainNext, Invariance, PTL DEF Spec

----------------------------------------------------------------------------
(* Objects *)

Keys(obj) == {obj[i].key : i \in 1..Len(obj)}
Distinct(obj) == \A i, j \in 1..Len(obj) : obj[i].key = obj[j].key => i = j

(* Where a field is. *)
LEMMA FieldAt ==
  ASSUME NEW S, NEW obj \in Seq(S), NEW key
  PROVE  LET i == SelectInSeq(obj, LAMBDA f : f.key = key)
         IN \/ i = 0 /\ key \notin Keys(obj)
            \/ i \in 1..Len(obj) /\ obj[i].key = key
  <1> DEFINE I == {i \in 1..Len(obj) : obj[i].key = key}
             at == SelectInSeq(obj, LAMBDA f : f.key = key)
  <1>1. at = IF I # {} THEN Min(I) ELSE 0
    BY DEF SelectInSeq
  <1>2. I \subseteq Nat /\ \A i \in I : i \in 1..Len(obj) /\ obj[i].key = key
    OBVIOUS
  <1>3. I = {} => key \notin Keys(obj)
    BY DEF Keys
  <1> HIDE DEF I, at
  <1>4. I # {} => Min(I) \in I
    <2> SUFFICES ASSUME I # {} PROVE Min(I) \in I
      OBVIOUS
    <2>1. \E m \in I : \A n \in I : m <= n
      BY <1>2, Least
    <2>2. QED
      BY <2>1 DEF Min
  <1>5. \/ at = 0 /\ key \notin Keys(obj)
        \/ at \in 1..Len(obj) /\ obj[at].key = key
    BY <1>1, <1>2, <1>3, <1>4
  <1>6. QED
    BY <1>5 DEF at

(* t is obj with the field in the place of the old one or behind the others.*)
PutIn(t, obj, key, field) ==
  \/ /\ key \notin Keys(obj) /\ Len(t) = Len(obj) + 1 /\ t[Len(obj) + 1] = field
     /\ \A j \in 1..Len(obj) : t[j] = obj[j]
  \/ \E i \in 1..Len(obj) :
       /\ obj[i].key = key /\ Len(t) = Len(obj) /\ t[i] = field
       /\ \A j \in 1..Len(obj) : j # i => t[j] = obj[j]

(* Setting a field replaces it or puts it behind the others. *)
LEMMA SetFieldIs ==
  ASSUME NEW S, NEW obj \in Seq(S), NEW key, NEW value, NEW field \in S,
         field = [key |-> key, value |-> value], NEW t, t = SetField(obj, key, value)
  PROVE  /\ t \in Seq(S)
         /\ PutIn(t, obj, key, field)
  <1> DEFINE at == SelectInSeq(obj, LAMBDA f : f.key = key)
  <1>1. t = IF at = 0 THEN Append(obj, field) ELSE [obj EXCEPT ![at] = field]
    BY DEF SetField, ReplaceAt
  <1>2. \/ at = 0 /\ key \notin Keys(obj)
        \/ at \in 1..Len(obj) /\ obj[at].key = key
    BY FieldAt
  <1> HIDE DEF at
  <1>3. CASE at = 0 /\ key \notin Keys(obj)
    <2>1. t = Append(obj, field)
      BY <1>1, <1>3
    <2>2. /\ t \in Seq(S) /\ Len(t) = Len(obj) + 1 /\ t[Len(obj) + 1] = field
          /\ \A j \in 1..Len(obj) : t[j] = obj[j]
      BY <2>1
    <2>3. QED
      BY <1>3, <2>2 DEF PutIn
  <1>4. CASE at \in 1..Len(obj) /\ obj[at].key = key
    <2>1. t = [obj EXCEPT ![at] = field]
      BY <1>1, <1>4
    <2>2. /\ t \in Seq(S) /\ Len(t) = Len(obj) /\ t[at] = field
          /\ \A j \in 1..Len(obj) : j # at => t[j] = obj[j]
      BY <1>4, <2>1
    <2>3. QED
      BY <1>4, <2>2 DEF PutIn
  <1>5. QED
    BY <1>2, <1>3, <1>4

(* What an object with distinct fields says of a key. *)
LEMMA GetFieldIs ==
  ASSUME NEW S, NEW obj \in Seq(S), Distinct(obj), NEW key
  PROVE  /\ key \notin Keys(obj) => GetField(obj, key) = <<>>
         /\ \A i \in 1..Len(obj) : obj[i].key = key => GetField(obj, key) = obj[i].value
  <1> DEFINE at == SelectInSeq(obj, LAMBDA f : f.key = key)
  <1>1. GetField(obj, key) = IF at = 0 THEN <<>> ELSE obj[at].value
    BY DEF GetField
  <1>2. \/ at = 0 /\ key \notin Keys(obj)
        \/ at \in 1..Len(obj) /\ obj[at].key = key
    BY FieldAt
  <1> HIDE DEF at
  <1>3. \A i \in 1..Len(obj) : obj[i].key = key => key \in Keys(obj)
    BY DEF Keys
  <1>4. at \in 1..Len(obj) => at # 0
    OBVIOUS
  <1>5. ASSUME NEW i \in 1..Len(obj), obj[i].key = key
        PROVE  GetField(obj, key) = obj[i].value
    <2>1. at \in 1..Len(obj) /\ obj[at].key = key
      BY <1>2, <1>3, <1>5
    <2>2. at = i
      BY <1>5, <2>1 DEF Distinct
    <2>3. QED
      BY <1>1, <1>4, <2>1, <2>2
  <1>6. key \notin Keys(obj) => at = 0
    BY <1>2 DEF Keys
  <1>7. QED
    BY <1>1, <1>5, <1>6

(* The fields stay distinct, the one is set, and the others are left alone. *)
Sets(t, obj, key, value) ==
  /\ Distinct(t) /\ Keys(t) = Keys(obj) \cup {key}
  /\ GetField(t, key) = value
  /\ \A k : k # key => GetField(t, k) = GetField(obj, k)

LEMMA SetKeeps ==
  ASSUME NEW S, NEW obj \in Seq(S), Distinct(obj), NEW key, NEW value, NEW field \in S,
         field = [key |-> key, value |-> value], NEW t, t = SetField(obj, key, value)
  PROVE  t \in Seq(S) /\ Sets(t, obj, key, value)
  <1> DEFINE Puts(i) ==
               /\ i \in 1..Len(t) /\ t[i] = field /\ 1..Len(obj) \subseteq 1..Len(t)
               /\ \A j \in 1..Len(t) : j # i => j \in 1..Len(obj) /\ t[j] = obj[j] /\ obj[j].key # key
               /\ \A j \in 1..Len(obj) : j # i => t[j] = obj[j]
               /\ i \in 1..Len(obj) => obj[i].key = key
  <1>2. /\ t \in Seq(S)
        /\ PutIn(t, obj, key, field)
    BY SetFieldIs
  <1>3. field.key = key /\ field.value = value
    OBVIOUS
  <1>4. Len(obj) \in Nat
    OBVIOUS
  <1>5. \E i : Puts(i)
    <2>1. CASE /\ key \notin Keys(obj) /\ Len(t) = Len(obj) + 1 /\ t[Len(obj) + 1] = field
               /\ \A j \in 1..Len(obj) : t[j] = obj[j]
      <3>1. \A j \in 1..Len(obj) : obj[j].key # key
        BY <2>1 DEF Keys
      <3>2. /\ Len(obj) + 1 \in 1..Len(t) /\ 1..Len(obj) \subseteq 1..Len(t)
            /\ \A j \in 1..Len(t) : j # Len(obj) + 1 => j \in 1..Len(obj)
            /\ Len(obj) + 1 \notin 1..Len(obj)
        BY <1>4, <2>1
      <3>3. Puts(Len(obj) + 1)
        BY <2>1, <3>1, <3>2
      <3>4. QED
        BY <3>3
    <2>2. ASSUME NEW i \in 1..Len(obj), obj[i].key = key, Len(t) = Len(obj), t[i] = field,
                 \A j \in 1..Len(obj) : j # i => t[j] = obj[j]
          PROVE  Puts(i)
      <3>1. \A j \in 1..Len(obj) : j # i => obj[j].key # key
        BY <2>2 DEF Distinct
      <3>2. QED
        BY <2>2, <3>1
    <2>3. QED
      BY <1>2, <2>1, <2>2 DEF PutIn
  <1>6. PICK i : Puts(i)
    BY <1>5
  <1>7. Distinct(t)
    BY <1>3, <1>6 DEF Distinct
  <1>8. Keys(t) = Keys(obj) \cup {key}
    <2>1. \A x \in Keys(t) : x \in Keys(obj) \cup {key}
      BY <1>3, <1>6 DEF Keys
    <2>2. key \in Keys(t)
      BY <1>3, <1>6 DEF Keys
    <2>3. ASSUME NEW j \in 1..Len(obj) PROVE obj[j].key \in Keys(t)
      <3>1. j \in 1..Len(t) /\ (j # i => t[j] = obj[j]) /\ (j = i => obj[j].key = key)
        BY <1>6
      <3>2. QED
        BY <2>2, <3>1 DEF Keys
    <2>4. QED
      BY <2>1, <2>2, <2>3 DEF Keys
  <1>9. GetField(t, key) = value
    BY <1>2, <1>3, <1>6, <1>7, GetFieldIs
  <1>10. ASSUME NEW k, k # key
         PROVE  GetField(t, k) = GetField(obj, k)
    <2>1. CASE k \notin Keys(obj)
      <3>1. k \notin Keys(t)
        BY <1>8, <1>10, <2>1
      <3>2. QED
        BY <1>2, <1>7, <2>1, <3>1, GetFieldIs
    <2>2. CASE k \in Keys(obj)
      <3>1. PICK j \in 1..Len(obj) : obj[j].key = k
        BY <2>2 DEF Keys
      <3>2. j # i /\ t[j] = obj[j] /\ j \in 1..Len(t)
        BY <1>6, <1>10, <3>1
      <3>3. GetField(obj, k) = obj[j].value
        BY <3>1, GetFieldIs
      <3>4. GetField(t, k) = t[j].value
        BY <1>2, <1>7, <3>1, <3>2, GetFieldIs
      <3>5. QED
        BY <3>2, <3>3, <3>4
    <2>3. QED
      BY <2>1, <2>2
  <1>11. QED
    BY <1>2, <1>7, <1>8, <1>9, <1>10 DEF Sets

----------------------------------------------------------------------------
(* What a list of rules and an object say of a request *)

(* The last of the first n fields of s that matches pat says w; "none" is   *)
(* for no such field.                                                       *)
Says(s, n, pat, w) ==
  \/ w = "none" /\ \A i \in 1..n : ~ Matches(pat, s[i].key)
  \/ /\ w # "none"
     /\ \E i \in 1..n : /\ Matches(pat, s[i].key) /\ s[i].value = w
                        /\ \A j \in 1..n : Matches(pat, s[j].key) => j <= i

(* The same for the first n rules and a permission. *)
Applies(rule, perm, pat) == rule.permission = perm /\ Matches(pat, rule.pattern)

Decides(rules, n, perm, pat, w) ==
  \/ w = "none" /\ \A i \in 1..n : ~ Applies(rules[i], perm, pat)
  \/ /\ w # "none"
     /\ \E i \in 1..n : /\ Applies(rules[i], perm, pat) /\ rules[i].action = w
                        /\ \A j \in 1..n : Applies(rules[j], perm, pat) => j <= i

LEMMA DecidesMore ==
  ASSUME NEW rules, NEW n \in Nat \ {0}, NEW perm, NEW pat
  PROVE  /\ Applies(rules[n], perm, pat) /\ rules[n].action # "none"
              => Decides(rules, n, perm, pat, rules[n].action)
         /\ ~ Applies(rules[n], perm, pat)
              => \A w : Decides(rules, n - 1, perm, pat, w) => Decides(rules, n, perm, pat, w)
  <1>1. \A i \in 1..n : i = n \/ i \in 1..(n - 1)
    OBVIOUS
  <1>2. n \in 1..n /\ \A i \in 1..n : i <= n
    OBVIOUS
  <1>3. \A i \in 1..(n - 1) : i \in 1..n
    OBVIOUS
  <1>4. Applies(rules[n], perm, pat) /\ rules[n].action # "none"
          => Decides(rules, n, perm, pat, rules[n].action)
    BY <1>2 DEF Decides
  <1>5. ASSUME NEW w, ~ Applies(rules[n], perm, pat), Decides(rules, n - 1, perm, pat, w)
        PROVE  Decides(rules, n, perm, pat, w)
    <2>1. CASE w = "none" /\ \A i \in 1..(n - 1) : ~ Applies(rules[i], perm, pat)
      BY <1>1, <1>5, <2>1 DEF Decides
    <2>2. CASE w # "none"
      <3>1. PICK i \in 1..(n - 1) :
               /\ Applies(rules[i], perm, pat) /\ rules[i].action = w
               /\ \A j \in 1..(n - 1) : Applies(rules[j], perm, pat) => j <= i
        BY <1>5, <2>2 DEF Decides
      <3>2. \A j \in 1..n : Applies(rules[j], perm, pat) => j <= i
        BY <1>1, <1>5, <3>1
      <3>3. QED
        BY <1>3, <2>2, <3>1, <3>2 DEF Decides
    <2>3. QED
      BY <1>5, <2>1, <2>2 DEF Decides
  <1>6. QED
    BY <1>4, <1>5

(* A field that is new, or the last one already, ends up last and decides.  *)
EndsWith(t, obj, key, value, pat) ==
  /\ Len(t) \in Nat \ {0} /\ t[Len(t)].key = key
  /\ t[1].key = IF Len(obj) = 0 THEN key ELSE obj[1].key
  /\ Matches(pat, key) => Says(t, Len(t), pat, value)
  /\ ~ Matches(pat, key) => \A w : Says(obj, Len(obj), pat, w) => Says(t, Len(t), pat, w)

LEMMA PutLast ==
  ASSUME NEW S, NEW obj \in Seq(S), Distinct(obj), NEW key, NEW value, value # "none",
         NEW field \in S, field = [key |-> key, value |-> value],
         key \in Keys(obj) => Len(obj) # 0 /\ obj[Len(obj)].key = key,
         NEW t, t = SetField(obj, key, value), NEW pat
  PROVE  EndsWith(t, obj, key, value, pat)
  <1>1. t \in Seq(S) /\ PutIn(t, obj, key, field)
    BY SetFieldIs
  <1>2. field.key = key /\ field.value = value
    OBVIOUS
  <1>3. PICK n \in Nat : n = Len(obj)
    OBVIOUS
  <1>4. PICK m \in Nat : m = Len(t)
    BY <1>1
  <1> DEFINE Behind == /\ m # 0 /\ t[m] = field
                       /\ \A j \in 1..(m - 1) : j \in 1..n /\ t[j] = obj[j]
                       /\ \A j \in 1..n : j \in 1..m
                       /\ m \in 1..n => obj[m].key = key
                       /\ m = n \/ m = n + 1
  <1>5. Behind
    <2>1. CASE /\ key \notin Keys(obj) /\ Len(t) = Len(obj) + 1 /\ t[Len(obj) + 1] = field
               /\ \A j \in 1..Len(obj) : t[j] = obj[j]
      BY <1>3, <1>4, <2>1
    <2>2. ASSUME NEW i \in 1..Len(obj), obj[i].key = key, Len(t) = Len(obj), t[i] = field,
                 \A j \in 1..Len(obj) : j # i => t[j] = obj[j]
          PROVE  Behind
      <3>1. key \in Keys(obj) /\ n \in 1..Len(obj)
        BY <1>3, <2>2 DEF Keys
      <3>2. obj[n].key = key
        BY <1>3, <3>1
      <3>3. i = n
        BY <2>2, <3>1, <3>2 DEF Distinct
      <3>4. m = n /\ n # 0 /\ t[n] = field
        BY <1>3, <1>4, <2>2, <3>1, <3>3
      <3>5. \A j \in 1..(m - 1) : j \in 1..n /\ t[j] = obj[j]
        BY <1>3, <2>2, <3>3, <3>4
      <3>6. QED
        BY <3>2, <3>4, <3>5
    <2>3. QED
      BY <1>1, <2>1, <2>2 DEF PutIn
  <1>6. m \in 1..m /\ \A j \in 1..m : j <= m /\ (j = m \/ j \in 1..(m - 1))
    BY <1>5
  <1>7. t[1].key = IF Len(obj) = 0 THEN key ELSE obj[1].key
    <2>1. CASE n = 0
      BY <1>2, <1>3, <1>5, <2>1
    <2>2. CASE n # 0
      <3>1. CASE m = 1
        <4>1. 1 \in 1..n
          BY <2>2
        <4>2. QED
          BY <1>2, <1>3, <1>5, <2>2, <3>1, <4>1
      <3>2. CASE m # 1
        <4>1. 1 \in 1..(m - 1)
          BY <1>5, <3>2
        <4>2. QED
          BY <1>3, <1>5, <2>2, <4>1
      <3>3. QED
        BY <3>1, <3>2
    <2>3. QED
      BY <2>1, <2>2
  <1>8. Matches(pat, key) => Says(t, m, pat, value)
    BY <1>2, <1>5, <1>6 DEF Says
  <1>9. ASSUME ~ Matches(pat, key), NEW w, Says(obj, n, pat, w)
        PROVE  Says(t, m, pat, w)
    <2>1. \A j \in 1..m : Matches(pat, t[j].key) => j \in 1..n /\ t[j] = obj[j]
      BY <1>2, <1>5, <1>6, <1>9
    <2>2. CASE w = "none" /\ \A i \in 1..n : ~ Matches(pat, obj[i].key)
      BY <2>1, <2>2 DEF Says
    <2>3. CASE w # "none"
      <3>1. PICK i \in 1..n : /\ Matches(pat, obj[i].key) /\ obj[i].value = w
                              /\ \A j \in 1..n : Matches(pat, obj[j].key) => j <= i
        BY <1>9, <2>3 DEF Says
      <3>2. i # m /\ i \in 1..m
        BY <1>5, <1>9, <3>1
      <3>3. i \in 1..(m - 1)
        BY <1>6, <3>2
      <3>4. t[i] = obj[i]
        BY <1>5, <3>3
      <3>5. \A j \in 1..m : Matches(pat, t[j].key) => j <= i
        BY <2>1, <3>1
      <3>6. QED
        BY <2>3, <3>1, <3>2, <3>4, <3>5 DEF Says
    <2>4. QED
      BY <1>9, <2>2, <2>3 DEF Says
  <1>10. QED
    BY <1>2, <1>3, <1>4, <1>5, <1>7, <1>8, <1>9 DEF EndsWith

----------------------------------------------------------------------------
(* toConfig *)

(* Rules of these permissions and patterns, and what they become. *)
RulesOver(S, Perms, Pats) ==
  \A r \in S : r.permission \in Perms /\ r.pattern \in Pats /\ r.action \in Actions

Fields(Pats) == [key : Pats, value : Actions]
Objects(Perms, Pats) == [key : Perms, value : Seq(Fields(Pats))]

(* What the object of a permission has to do with the first n rules. *)
About(rules, n, perm, pat, obj) ==
  /\ Distinct(obj)
  /\ \A x \in Keys(obj) : \E i \in 1..n : rules[i].permission = perm /\ rules[i].pattern = x
  /\ \A i \in 1..n :
       rules[i].permission = perm /\ (\A j \in 1..n : rules[j].permission = perm => j <= i) =>
         Len(obj) # 0 /\ obj[Len(obj)].key = rules[i].pattern
  /\ \A i \in 1..n :
       rules[i].permission = perm /\ (\A j \in 1..n : rules[j].permission = perm => i <= j) =>
         Len(obj) # 0 /\ obj[1].key = rules[i].pattern
  /\ \E w : Decides(rules, n, perm, pat, w) /\ Says(obj, Len(obj), pat, w)

(* There is a last one in what there is of the first n numbers. *)
LEMMA Greatest ==
  ASSUME NEW n \in Nat, NEW T, T \subseteq 1..n, T # {}
  PROVE  \E m \in T : \A i \in T : i <= m
  <1> DEFINE back == {n - i : i \in T}
  <1>1. back \subseteq Nat /\ back # {}
    <2>1. \A i \in T : n - i \in Nat
      OBVIOUS
    <2>2. QED
      BY <2>1
  <1> HIDE DEF back
  <1>2. PICK b \in back : \A c \in back : b <= c
    BY <1>1, Least
  <1>3. PICK m \in T : b = n - m
    BY <1>2 DEF back
  <1>4. \A i \in T : n - i \in back
    BY DEF back
  <1>5. \A i \in T : i \in Nat /\ m \in Nat /\ n - m <= n - i
    BY <1>2, <1>3, <1>4
  <1>6. QED
    BY <1>5

LEMMA AboutOther ==
  ASSUME NEW rules, NEW n \in Nat \ {0}, NEW perm, NEW pat, NEW obj,
         rules[n].permission # perm, About(rules, n - 1, perm, pat, obj)
  PROVE  About(rules, n, perm, pat, obj)
  <1>1. \A i \in 1..n : rules[i].permission = perm => i \in 1..(n - 1)
    OBVIOUS
  <1>2. \A i \in 1..(n - 1) : i \in 1..n
    OBVIOUS
  <1>3. ~ Applies(rules[n], perm, pat)
    BY DEF Applies
  <1>4. \A w : Decides(rules, n - 1, perm, pat, w) => Decides(rules, n, perm, pat, w)
    BY <1>3, DecidesMore
  <1>5. QED
    BY <1>1, <1>2, <1>4 DEF About

(* The n-th rule is of the permission, and makes t of its object.           *)
Saves(S, Perms, Pats, rules, n, perm, obj, from, t) ==
  /\ RulesOver(S, Perms, Pats) /\ rules \in Seq(S) /\ SavedShape(rules)
  /\ n \in 1..Len(rules) /\ rules[n].permission = perm
  /\ obj \in Seq(Fields(Pats))
  /\ from = IF perm \in ScalarOnly THEN <<>> ELSE obj
  /\ t = SetField(from, rules[n].pattern, rules[n].action)

LEMMA AboutThis ==
  ASSUME NEW S, NEW Perms, NEW Pats, NEW rules, NEW n, NEW perm, NEW obj, NEW from, NEW t,
         Saves(S, Perms, Pats, rules, n, perm, obj, from, t),
         NEW pat, About(rules, n - 1, perm, pat, obj)
  PROVE  About(rules, n, perm, pat, t)
  <1>0. /\ RulesOver(S, Perms, Pats) /\ rules \in Seq(S) /\ SavedShape(rules)
        /\ n \in 1..Len(rules) /\ rules[n].permission = perm
        /\ obj \in Seq(Fields(Pats))
        /\ from = IF perm \in ScalarOnly THEN <<>> ELSE obj
        /\ t = SetField(from, rules[n].pattern, rules[n].action)
    BY DEF Saves
  <1> USE <1>0
  <1>1. PICK key : key = rules[n].pattern
    OBVIOUS
  <1>2. PICK value : value = rules[n].action
    OBVIOUS
  <1>3. key \in Pats /\ value \in Actions /\ value # "none"
    <2>1. rules[n] \in S
      OBVIOUS
    <2>2. QED
      BY <1>1, <1>2, <2>1 DEF RulesOver, Actions
  <1>4. PICK field \in Fields(Pats) : field = [key |-> key, value |-> value]
    BY <1>3 DEF Fields
  <1>5. n \in Nat \ {0} /\ n \in 1..n /\ \A i \in 1..n : i \in Nat /\ i <= n /\ (i = n \/ i \in 1..(n - 1))
    OBVIOUS
  <1>6. \A i \in 1..(n - 1) : i \in 1..n /\ i \in 1..Len(rules) /\ i < n
    OBVIOUS
  <1>7. DOMAIN rules = 1..Len(rules)
    OBVIOUS
  (* The patterns of a scalar permission are one.                             *)
  <1>8. perm \in ScalarOnly => \A i \in 1..n : rules[i].permission = perm => rules[i].pattern = key
    <2> SUFFICES ASSUME perm \in ScalarOnly, NEW i \in 1..n, rules[i].permission = perm
                 PROVE  rules[i].pattern = key
      OBVIOUS
    <2>1. i \in DOMAIN rules /\ n \in DOMAIN rules
      BY <1>5, <1>6, <1>7
    <2>2. rules[i].pattern = Star /\ rules[n].pattern = Star
      BY <2>1 DEF SavedShape
    <2>3. QED
      BY <1>1, <2>2
  <1>9. from \in Seq(Fields(Pats)) /\ Distinct(from)
    <2>1. Distinct(<<>>) /\ <<>> \in Seq(Fields(Pats))
      BY DEF Distinct
    <2>2. QED
      BY <2>1 DEF About
  (* A pattern that comes again does so in a row.                             *)
  <1>10. key \in Keys(from) => Len(from) # 0 /\ from[Len(from)].key = key
    <2> SUFFICES ASSUME key \in Keys(from)
                 PROVE  Len(from) # 0 /\ from[Len(from)].key = key
      OBVIOUS
    <2>1. from = obj
      BY DEF Keys
    <2>2. PICK i \in 1..(n - 1) : rules[i].permission = perm /\ rules[i].pattern = key
      BY <2>1 DEF About
    <2> DEFINE T == {j \in 1..(n - 1) : rules[j].permission = perm}
    <2>3. T \subseteq 1..(n - 1) /\ i \in T /\ n - 1 \in Nat
      BY <1>5, <2>2
    <2> HIDE DEF T
    <2>4. PICK l \in T : \A j \in T : j <= l
      BY <2>3, Greatest
    <2>5. l \in 1..(n - 1) /\ rules[l].permission = perm /\ l \in i..n
      BY <1>5, <2>3, <2>4 DEF T
    <2>6. rules[l].pattern = key
      <3>1. i \in DOMAIN rules /\ n \in DOMAIN rules /\ i < n
        BY <1>6, <1>7
      <3>2. QED
        <4>1. \A k \in i..n : rules[k].permission = rules[i].permission
                               => rules[k].pattern = rules[i].pattern
          BY <1>1, <2>2, <3>1 DEF SavedShape
        <4>2. QED
          BY <2>2, <2>5, <4>1
    <2>7. Len(obj) # 0 /\ obj[Len(obj)].key = rules[l].pattern
      BY <2>4, <2>5 DEF About, T
    <2>8. QED
      BY <2>1, <2>6, <2>7
  <1>11. /\ t \in Seq(Fields(Pats)) /\ Distinct(t) /\ Keys(t) = Keys(from) \cup {key}
    <2>1. t \in Seq(Fields(Pats)) /\ Sets(t, from, key, value)
      BY <1>1, <1>2, <1>4, <1>9, SetKeeps
    <2>2. QED
      BY <2>1 DEF Sets
  <1>12. EndsWith(t, from, key, value, pat)
    BY <1>1, <1>2, <1>3, <1>4, <1>9, <1>10, PutLast
  <1>13. ASSUME NEW x \in Keys(t)
         PROVE  \E i \in 1..n : rules[i].permission = perm /\ rules[i].pattern = x
    <2>1. CASE x = key
      BY <1>1, <1>5, <2>1
    <2>2. CASE x \in Keys(obj)
      BY <1>6, <2>2 DEF About
    <2>3. Keys(<<>>) = {}
      BY DEF Keys
    <2>4. QED
      BY <1>11, <1>13, <2>1, <2>2, <2>3
  <1>14. ASSUME NEW i \in 1..n, rules[i].permission = perm,
                \A j \in 1..n : rules[j].permission = perm => j <= i
         PROVE  Len(t) # 0 /\ t[Len(t)].key = rules[i].pattern
    <2>1. i = n
      BY <1>5, <1>14
    <2>2. QED
      BY <1>1, <1>12, <2>1 DEF EndsWith
  <1>15. ASSUME NEW i \in 1..n, rules[i].permission = perm,
                \A j \in 1..n : rules[j].permission = perm => i <= j
         PROVE  Len(t) # 0 /\ t[1].key = rules[i].pattern
    <2>1. Len(t) # 0 /\ t[1].key = IF Len(from) = 0 THEN key ELSE from[1].key
      BY <1>12 DEF EndsWith
    <2>2. CASE perm \in ScalarOnly
      BY <1>8, <1>15, <2>1, <2>2
    <2>3. CASE perm \notin ScalarOnly /\ i = n
      <3>1. \A j \in 1..(n - 1) : rules[j].permission # perm
        BY <1>5, <1>6, <1>15, <2>3
      <3>2. Keys(obj) = {}
        BY <3>1 DEF About
      <3>3. Len(obj) = 0
        <4>1. Len(obj) \in Nat /\ (Len(obj) # 0 => 1 \in 1..Len(obj))
          OBVIOUS
        <4>2. QED
          BY <3>2, <4>1 DEF Keys
      <3>4. QED
        BY <1>1, <2>1, <2>3, <3>3
    <2>4. CASE perm \notin ScalarOnly /\ i # n
      <3>1. i \in 1..(n - 1) /\ \A j \in 1..(n - 1) : rules[j].permission = perm => i <= j
        BY <1>5, <1>6, <1>15, <2>4
      <3>2. Len(obj) # 0 /\ obj[1].key = rules[i].pattern
        BY <1>15, <3>1 DEF About
      <3>3. QED
        BY <2>1, <2>4, <3>2
    <2>5. QED
      BY <2>2, <2>3, <2>4
  <1>16. \E w : Decides(rules, n, perm, pat, w) /\ Says(t, Len(t), pat, w)
    <2>1. CASE Matches(pat, key)
      <3>1. Applies(rules[n], perm, pat)
        BY <1>1, <2>1 DEF Applies
      <3>2. Decides(rules, n, perm, pat, value)
        BY <1>2, <1>3, <1>5, <3>1, DecidesMore
      <3>3. Says(t, Len(t), pat, value)
        BY <1>12, <2>1 DEF EndsWith
      <3>4. QED
        BY <3>2, <3>3
    <2>2. CASE ~ Matches(pat, key)
      <3>1. from = obj
        <4>1. perm \in ScalarOnly => key = Star
          BY <1>1, <1>7 DEF SavedShape
        <4>2. QED
          BY <2>2, <4>1 DEF Matches
      <3>2. PICK w : Decides(rules, n - 1, perm, pat, w) /\ Says(obj, Len(obj), pat, w)
        BY DEF About
      <3>3. ~ Applies(rules[n], perm, pat)
        BY <1>1, <2>2 DEF Applies
      <3>4. Decides(rules, n, perm, pat, w)
        BY <1>5, <3>2, <3>3, DecidesMore
      <3>5. Says(t, Len(t), pat, w)
        BY <1>12, <2>2, <3>1, <3>2 DEF EndsWith
      <3>6. QED
        BY <3>4, <3>5
    <2>3. QED
      BY <2>1, <2>2
  <1>17. QED
    BY <1>11, <1>13, <1>14, <1>15, <1>16 DEF About

LEMMA GetFieldType ==
  ASSUME NEW Perms, NEW Pats, NEW c \in Seq(Objects(Perms, Pats)), NEW key
  PROVE  GetField(c, key) \in Seq(Fields(Pats))
  <1> DEFINE at == SelectInSeq(c, LAMBDA f : f.key = key)
  <1>1. GetField(c, key) = IF at = 0 THEN <<>> ELSE c[at].value
    BY DEF GetField
  <1>2. \/ at = 0 /\ key \notin Keys(c)
        \/ at \in 1..Len(c) /\ c[at].key = key
    BY FieldAt
  <1> HIDE DEF at
  <1>3. \A i \in 1..Len(c) : c[i].value \in Seq(Fields(Pats))
    <2> SUFFICES ASSUME NEW i \in 1..Len(c) PROVE c[i].value \in Seq(Fields(Pats))
      OBVIOUS
    <2>1. c[i] \in Objects(Perms, Pats)
      OBVIOUS
    <2>2. QED
      BY <2>1 DEF Objects
  <1>4. <<>> \in Seq(Fields(Pats))
    OBVIOUS
  <1>5. QED
    BY <1>1, <1>2, <1>3, <1>4

(* One round of the loop sets the object of the rule's permission.          *)
LEMMA AddRuleIs ==
  ASSUME NEW S, NEW Perms, NEW Pats, RulesOver(S, Perms, Pats),
         NEW rules \in Seq(S), SavedShape(rules), NEW n \in 1..Len(rules), NEW c,
         NEW from, from = IF rules[n].permission \in ScalarOnly THEN <<>>
                          ELSE GetField(c, rules[n].permission)
  PROVE  AddRule(c, rules[n]) = SetField(c, rules[n].permission,
                                  SetField(from, rules[n].pattern, rules[n].action))
  <1>1. n \in DOMAIN rules
    OBVIOUS
  <1>2. rules[n].permission \in ScalarOnly => rules[n].pattern = Star
    BY <1>1 DEF SavedShape
  <1>3. QED
    BY <1>2 DEF AddRule

LEMMA AddRuleType ==
  ASSUME NEW S, NEW Perms, NEW Pats, RulesOver(S, Perms, Pats),
         NEW rules \in Seq(S), SavedShape(rules), NEW n \in 1..Len(rules),
         NEW c \in Seq(Objects(Perms, Pats))
  PROVE  AddRule(c, rules[n]) \in Seq(Objects(Perms, Pats))
  <1>1. PICK r \in S : r = rules[n]
    OBVIOUS
  <1>2. r.permission \in Perms /\ r.pattern \in Pats /\ r.action \in Actions
    BY DEF RulesOver
  <1>3. PICK from : from = IF r.permission \in ScalarOnly THEN <<>> ELSE GetField(c, r.permission)
    OBVIOUS
  <1>4. from \in Seq(Fields(Pats))
    <2>1. <<>> \in Seq(Fields(Pats))
      OBVIOUS
    <2>2. QED
      BY <1>3, <2>1, GetFieldType
  <1>5. PICK field \in Fields(Pats) : field = [key |-> r.pattern, value |-> r.action]
    BY <1>2 DEF Fields
  <1>6. PICK t : t = SetField(from, r.pattern, r.action)
    OBVIOUS
  <1>7. t \in Seq(Fields(Pats))
    BY <1>4, <1>5, <1>6, SetFieldIs
  <1>8. PICK object \in Objects(Perms, Pats) : object = [key |-> r.permission, value |-> t]
    BY <1>2, <1>7 DEF Objects
  <1>9. PICK d : d = SetField(c, r.permission, t)
    OBVIOUS
  <1>10. d \in Seq(Objects(Perms, Pats))
    BY <1>8, <1>9, SetFieldIs
  <1>11. AddRule(c, r) = d
    BY <1>1, <1>3, <1>6, <1>9, AddRuleIs
  <1>12. QED
    BY <1>1, <1>10, <1>11

LEMMA ToConfigSteps ==
  ASSUME NEW S, NEW Perms, NEW Pats, RulesOver(S, Perms, Pats),
         NEW rules \in Seq(S), SavedShape(rules)
  PROVE  \E f \in [0..Len(rules) -> Seq(Objects(Perms, Pats))] :
           /\ f[0] = <<>>
           /\ \A n \in 1..Len(rules) : f[n] = AddRule(f[n - 1], rules[n])
           /\ ToConfig(rules) = f[Len(rules)]
  <1>1. PICK N \in Nat : N = Len(rules)
    OBVIOUS
  <1>2. PICK L : L = Seq(Objects(Perms, Pats))
    OBVIOUS
  <1>3. \A n \in 1..N, c \in L : AddRule(c, rules[n]) \in L
    BY <1>1, <1>2, AddRuleType
  <1>4. PICK z \in L : z = <<>>
    <2>1. <<>> \in Seq(Objects(Perms, Pats))
      OBVIOUS
    <2>2. QED
      BY <1>2, <2>1
  <1>5. PICK G \in [1..N -> [L -> L]] : \A n \in 1..N, c \in L : G[n][c] = AddRule(c, rules[n])
    <2>1. [n \in 1..N |-> [c \in L |-> AddRule(c, rules[n])]] \in [1..N -> [L -> L]]
      BY <1>3
    <2>2. QED
      BY <2>1
  <1>6. PICK f \in [0..N -> L] : Iterates(f, N, z, G)
    BY Recursion
  <1>7. \A n \in 1..N : n - 1 \in 0..N /\ n \in 0..N
    OBVIOUS
  <1>8. f[0] = <<>> /\ \A n \in 1..N : f[n] = AddRule(f[n - 1], rules[n])
    BY <1>4, <1>5, <1>6, <1>7 DEF Iterates
  <1> DEFINE Step(h, n) == IF n = 0 THEN <<>> ELSE AddRule(h[n - 1], rules[n])
             after == CHOOSE h : h = [n \in 0..N |-> Step(h, n)]
  <1>9. ToConfig(rules) = after[N]
    BY <1>1 DEF ToConfig
  <1>10. f = [n \in 0..N |-> Step(f, n)]
    <2>1. \A n \in 0..N : n = 0 \/ n \in 1..N
      OBVIOUS
    <2>2. QED
      BY <1>8, <2>1
  <1>11. after = [n \in 0..N |-> Step(after, n)]
    BY <1>10
  <1> HIDE DEF after
  <1>12. 0 \in 0..N /\ N \in 0..N /\ \A n \in 1..N : n # 0
    OBVIOUS
  <1>13. after[0] = <<>> /\ \A n \in 1..N : after[n] = AddRule(after[n - 1], rules[n])
    BY <1>7, <1>11, <1>12
  <1> DEFINE T == {n \in 0..N : after[n] = f[n]}
  <1>14. 0 \in T /\ \A n \in 1..N : n - 1 \in T => n \in T
    BY <1>7, <1>8, <1>12, <1>13
  <1> HIDE DEF T
  <1>15. 0..N \subseteq T
    BY <1>14, Induct
  <1>16. after[N] = f[N]
    BY <1>12, <1>15 DEF T
  <1>17. QED
    BY <1>1, <1>2, <1>8, <1>9, <1>16

(* One more rule keeps what the object of a permission has to do with them. *)
LEMMA AddRuleAbout ==
  ASSUME NEW S, NEW Perms, NEW Pats, RulesOver(S, Perms, Pats),
         NEW rules \in Seq(S), SavedShape(rules), NEW n \in 1..Len(rules),
         NEW perm, NEW pat, NEW b \in Seq(Objects(Perms, Pats)), Distinct(b),
         About(rules, n - 1, perm, pat, GetField(b, perm)),
         NEW d, d = AddRule(b, rules[n])
  PROVE  Distinct(d) /\ About(rules, n, perm, pat, GetField(d, perm))
  <1>1. PICK obj \in Seq(Fields(Pats)) : obj = GetField(b, rules[n].permission)
    BY GetFieldType
  <1>2. PICK from : from = IF rules[n].permission \in ScalarOnly THEN <<>> ELSE obj
    OBVIOUS
  <1>3. PICK t : t = SetField(from, rules[n].pattern, rules[n].action)
    OBVIOUS
  <1>3a. PICK r \in S : r = rules[n] /\ r.permission \in Perms /\ r.pattern \in Pats /\ r.action \in Actions
    <2>1. rules[n] \in S
      OBVIOUS
    <2>2. QED
      BY <2>1 DEF RulesOver
  <1>3b. t \in Seq(Fields(Pats))
    <2>1. <<>> \in Seq(Fields(Pats))
      OBVIOUS
    <2>2. from \in Seq(Fields(Pats))
      BY <1>2, <2>1
    <2>3. PICK field \in Fields(Pats) : field = [key |-> r.pattern, value |-> r.action]
      BY <1>3a DEF Fields
    <2>4. t = SetField(from, r.pattern, r.action)
      BY <1>3, <1>3a
    <2>5. QED
      BY <2>2, <2>3, <2>4, SetFieldIs
  <1>3c. PICK object \in Objects(Perms, Pats) : object = [key |-> r.permission, value |-> t]
    BY <1>3a, <1>3b DEF Objects
  <1>3d. d = SetField(b, r.permission, t)
    <2>1. from = IF rules[n].permission \in ScalarOnly THEN <<>>
                 ELSE GetField(b, rules[n].permission)
      BY <1>1, <1>2
    <2>2. AddRule(b, rules[n]) = SetField(b, rules[n].permission,
                                   SetField(from, rules[n].pattern, rules[n].action))
      BY <2>1, AddRuleIs
    <2>3. QED
      BY <1>3, <1>3a, <2>2
  <1>3e. Sets(d, b, rules[n].permission, t)
    <2>1. Sets(d, b, r.permission, t)
      BY <1>3c, <1>3d, SetKeeps
    <2>2. QED
      BY <1>3a, <2>1
  <1>4. CASE rules[n].permission = perm
    <2>1. from = IF perm \in ScalarOnly THEN <<>> ELSE obj
      BY <1>2, <1>4
    <2>2. About(rules, n - 1, perm, pat, obj)
      BY <1>1, <1>4
    <2>2a. Saves(S, Perms, Pats, rules, n, perm, obj, from, t)
      BY <1>3, <1>4, <2>1 DEF Saves
    <2>3. About(rules, n, perm, pat, t)
      BY <2>2, <2>2a, AboutThis
    <2>4. QED
      BY <1>3e, <1>4, <2>3 DEF Sets
  <1>5. CASE rules[n].permission # perm
    <2>1. n \in Nat \ {0}
      OBVIOUS
    <2>2. About(rules, n, perm, pat, GetField(b, perm))
      BY <1>5, <2>1, AboutOther
    <2>3. QED
      BY <1>3e, <1>5, <2>2 DEF Sets
  <1>6. QED
    BY <1>4, <1>5

(* The object a permission has in the configuration says what the rules do. *)
LEMMA ToConfigIs ==
  ASSUME NEW S, NEW Perms, NEW Pats, RulesOver(S, Perms, Pats),
         NEW rules \in Seq(S), SavedShape(rules), NEW perm, NEW pat,
         NEW c, c = ToConfig(rules)
  PROVE  /\ c \in Seq(Objects(Perms, Pats)) /\ Distinct(c)
         /\ GetField(c, perm) \in Seq(Fields(Pats))
         /\ About(rules, Len(rules), perm, pat, GetField(c, perm))
  <1>1. PICK N \in Nat : N = Len(rules)
    OBVIOUS
  <1>2. PICK f \in [0..N -> Seq(Objects(Perms, Pats))] :
          /\ f[0] = <<>>
          /\ \A n \in 1..N : f[n] = AddRule(f[n - 1], rules[n])
          /\ c = f[N]
    BY <1>1, ToConfigSteps
  <1> DEFINE Good(n) == Distinct(f[n]) /\ About(rules, n, perm, pat, GetField(f[n], perm))
             T == {n \in 0..N : Good(n)}
  <1>3. Good(0)
    <2>1. Keys(<<>>) = {} /\ Distinct(<<>>) /\ Len(<<>>) = 0 /\ 1..0 = {}
      BY DEF Keys, Distinct
    <2>2. GetField(<<>>, perm) = <<>>
      <3>1. <<>> \in Seq({0})
        OBVIOUS
      <3>2. QED
        BY <2>1, <3>1, GetFieldIs
    <2>3. Decides(rules, 0, perm, pat, "none") /\ Says(<<>>, 0, pat, "none")
      BY <2>1 DEF Decides, Says
    <2>4. About(rules, 0, perm, pat, <<>>)
      BY <2>1, <2>3 DEF About
    <2>5. QED
      BY <1>2, <2>1, <2>2, <2>4
  <1>4. ASSUME NEW n \in 1..N, Good(n - 1)
        PROVE  Good(n)
    <2>1. n - 1 \in 0..N /\ n \in 1..Len(rules) /\ n \in Nat \ {0}
      BY <1>1
    <2>2. PICK b \in Seq(Objects(Perms, Pats)) : b = f[n - 1]
      BY <1>2, <2>1
    <2>3. Distinct(b) /\ About(rules, n - 1, perm, pat, GetField(b, perm))
      BY <1>4, <2>2
    <2>4. PICK m \in 1..Len(rules) : m = n
      BY <2>1
    <2>5. PICK d : d = AddRule(b, rules[m])
      OBVIOUS
    <2>6. About(rules, m - 1, perm, pat, GetField(b, perm))
      BY <2>3, <2>4
    <2>7. Distinct(d) /\ About(rules, m, perm, pat, GetField(d, perm))
      BY <2>3, <2>5, <2>6, AddRuleAbout
    <2>8. f[n] = d
      BY <1>2, <2>2, <2>4, <2>5
    <2>9. QED
      BY <2>4, <2>7, <2>8
  <1> HIDE DEF Good
  <1>5. 0 \in T /\ \A n \in 1..N : n - 1 \in T => n \in T
    <2>1. \A n \in 1..N : n \in 0..N
      OBVIOUS
    <2>2. QED
      BY <1>3, <1>4, <2>1
  <1> HIDE DEF T
  <1>6. 0..N \subseteq T
    BY <1>5, Induct
  <1>7. N \in 0..N
    OBVIOUS
  <1>8. Good(N)
    BY <1>6, <1>7 DEF T
  <1>9. c \in Seq(Objects(Perms, Pats))
    BY <1>2, <1>7
  <1>10. QED
    BY <1>1, <1>2, <1>8, <1>9, GetFieldType DEF Good

----------------------------------------------------------------------------
(* Saving into a file that has rules already *)

LEMMA SetFieldsSteps ==
  ASSUME NEW Pats, NEW obj \in Seq(Fields(Pats)), NEW fields \in Seq(Fields(Pats))
  PROVE  \E f \in [0..Len(fields) -> Seq(Fields(Pats))] :
           /\ f[0] = obj
           /\ \A n \in 1..Len(fields) : f[n] = SetField(f[n - 1], fields[n].key, fields[n].value)
           /\ SetFields(obj, fields) = f[Len(fields)]
  <1>1. PICK N \in Nat : N = Len(fields)
    OBVIOUS
  <1>2. PICK L : L = Seq(Fields(Pats))
    OBVIOUS
  <1>3. \A n \in 1..N, c \in L : SetField(c, fields[n].key, fields[n].value) \in L
    <2> SUFFICES ASSUME NEW n \in 1..N, NEW c \in L
                 PROVE  SetField(c, fields[n].key, fields[n].value) \in L
      OBVIOUS
    <2>1. PICK field \in Fields(Pats) : field = fields[n]
      BY <1>1
    <2>2. field = [key |-> fields[n].key, value |-> fields[n].value]
      BY <2>1 DEF Fields
    <2>3. PICK t : t = SetField(c, fields[n].key, fields[n].value)
      OBVIOUS
    <2>4. c \in Seq(Fields(Pats))
      BY <1>2
    <2>5. t \in Seq(Fields(Pats))
      BY <2>2, <2>3, <2>4, SetFieldIs
    <2>6. QED
      BY <1>2, <2>3, <2>5
  <1>4. PICK z \in L : z = obj
    BY <1>2
  <1>5. PICK G \in [1..N -> [L -> L]] :
          \A n \in 1..N, c \in L : G[n][c] = SetField(c, fields[n].key, fields[n].value)
    <2>1. [n \in 1..N |-> [c \in L |-> SetField(c, fields[n].key, fields[n].value)]]
            \in [1..N -> [L -> L]]
      BY <1>3
    <2>2. QED
      BY <2>1
  <1>6. PICK f \in [0..N -> L] : Iterates(f, N, z, G)
    BY Recursion
  <1>7. \A n \in 1..N : n - 1 \in 0..N /\ n \in 0..N
    OBVIOUS
  <1>8. f[0] = obj /\ \A n \in 1..N : f[n] = SetField(f[n - 1], fields[n].key, fields[n].value)
    BY <1>4, <1>5, <1>6, <1>7 DEF Iterates
  <1> DEFINE Step(h, n) == IF n = 0 THEN obj
                           ELSE SetField(h[n - 1], fields[n].key, fields[n].value)
             after == CHOOSE h : h = [n \in 0..N |-> Step(h, n)]
  <1>9. SetFields(obj, fields) = after[N]
    BY <1>1 DEF SetFields
  <1>10. f = [n \in 0..N |-> Step(f, n)]
    <2>1. \A n \in 0..N : n = 0 \/ n \in 1..N
      OBVIOUS
    <2>2. QED
      BY <1>8, <2>1
  <1>11. after = [n \in 0..N |-> Step(after, n)]
    BY <1>10
  <1> HIDE DEF after
  <1>12. 0 \in 0..N /\ N \in 0..N /\ \A n \in 1..N : n # 0
    OBVIOUS
  <1>13. after[0] = obj
         /\ \A n \in 1..N : after[n] = SetField(after[n - 1], fields[n].key, fields[n].value)
    BY <1>7, <1>11, <1>12
  <1> DEFINE T == {n \in 0..N : after[n] = f[n]}
  <1>14. 0 \in T /\ \A n \in 1..N : n - 1 \in T => n \in T
    BY <1>7, <1>8, <1>12, <1>13
  <1> HIDE DEF T
  <1>15. 0..N \subseteq T
    BY <1>14, Induct
  <1>16. after[N] = f[N]
    BY <1>12, <1>15 DEF T
  <1>17. QED
    BY <1>1, <1>2, <1>8, <1>9, <1>16

LEMMA SaysLess ==
  ASSUME NEW s, NEW n \in Nat \ {0}, NEW pat, NEW w, Says(s, n, pat, w)
  PROVE  /\ Matches(pat, s[n].key) => w = s[n].value /\ w # "none"
         /\ ~ Matches(pat, s[n].key) => Says(s, n - 1, pat, w)
  <1>1. n \in 1..n /\ \A i \in 1..n : i <= n /\ (i = n \/ i \in 1..(n - 1))
    OBVIOUS
  <1>2. \A i \in 1..(n - 1) : i \in 1..n
    OBVIOUS
  <1>3. CASE w = "none" /\ \A i \in 1..n : ~ Matches(pat, s[i].key)
    BY <1>1, <1>2, <1>3 DEF Says
  <1>4. CASE w # "none"
    <2>1. PICK i \in 1..n : /\ Matches(pat, s[i].key) /\ s[i].value = w
                            /\ \A j \in 1..n : Matches(pat, s[j].key) => j <= i
      BY <1>4 DEF Says
    <2>2. Matches(pat, s[n].key) => i = n
      BY <1>1, <2>1
    <2>3. ASSUME ~ Matches(pat, s[n].key) PROVE Says(s, n - 1, pat, w)
      <3>1. i \in 1..(n - 1)
        BY <1>1, <2>1, <2>3
      <3>2. QED
        BY <1>2, <1>4, <2>1, <3>1 DEF Says
    <2>4. QED
      BY <1>4, <2>1, <2>2, <2>3
  <1>5. QED
    BY <1>3, <1>4 DEF Says

(* Of the fields that are set, only the first may be there already, as the  *)
(* last one.                                                                *)
Joins(o, u) ==
  \A j \in 1..Len(u) : u[j].key \in Keys(o) =>
    j = 1 /\ Len(o) # 0 /\ o[Len(o)].key = u[j].key

(* What was said last.                                                      *)
Later(w, v) == IF v = "none" THEN w ELSE v

(* One more field keeps that what is set speaks after what was there.       *)
SetSoFar(o, u, n, pat, w, c) ==
  /\ Distinct(c) /\ Keys(c) = Keys(o) \cup {u[i].key : i \in 1..n}
  /\ n = 0 => c = o
  /\ \A v : Says(u, n, pat, v) => Says(c, Len(c), pat, Later(w, v))

LEMMA SetNext ==
  ASSUME NEW Pats, NEW o, NEW u \in Seq(Fields(Pats)), Distinct(u), Joins(o, u),
         NEW n \in 1..Len(u), NEW pat, NEW w,
         NEW c \in Seq(Fields(Pats)), SetSoFar(o, u, n - 1, pat, w, c),
         NEW d, d = SetField(c, u[n].key, u[n].value)
  PROVE  SetSoFar(o, u, n, pat, w, d)
  <1>1. PICK key, value : key = u[n].key /\ value = u[n].value
    OBVIOUS
  <1>2. PICK field \in Fields(Pats) : field = [key |-> key, value |-> value]
    <2>1. u[n] \in Fields(Pats)
      OBVIOUS
    <2>2. QED
      BY <1>1, <2>1 DEF Fields
  <1>3. value # "none"
    BY <1>2 DEF Fields, Actions
  <1>4. n \in Nat \ {0} /\ n \in 1..n /\ \A i \in 1..n : i = n \/ i \in 1..(n - 1)
    OBVIOUS
  <1>5. \A i \in 1..(n - 1) : i \in 1..n /\ i \in 1..Len(u) /\ i # n
    OBVIOUS
  <1>6. Distinct(c) /\ Keys(c) = Keys(o) \cup {u[i].key : i \in 1..(n - 1)}
    BY DEF SetSoFar
  <1>7. key \in Keys(c) => Len(c) # 0 /\ c[Len(c)].key = key
    <2> SUFFICES ASSUME key \in Keys(c) PROVE Len(c) # 0 /\ c[Len(c)].key = key
      OBVIOUS
    <2>1. \A i \in 1..(n - 1) : u[i].key # key
      BY <1>1, <1>5 DEF Distinct
    <2>2. key \in Keys(o)
      BY <1>6, <2>1
    <2>3. n = 1 /\ Len(o) # 0 /\ o[Len(o)].key = key
      BY <1>1, <2>2 DEF Joins
    <2>4. c = o
      BY <2>3 DEF SetSoFar
    <2>5. QED
      BY <2>3, <2>4
  <1>8. d = SetField(c, key, value)
    BY <1>1
  <1>9. d \in Seq(Fields(Pats)) /\ Sets(d, c, key, value)
    BY <1>2, <1>6, <1>8, SetKeeps
  <1>10. EndsWith(d, c, key, value, pat)
    BY <1>2, <1>3, <1>6, <1>7, <1>8, PutLast
  <1>11. Distinct(d) /\ Keys(d) = Keys(o) \cup {u[i].key : i \in 1..n}
    <2>1. {u[i].key : i \in 1..n} = {u[i].key : i \in 1..(n - 1)} \cup {key}
      BY <1>1, <1>4, <1>5
    <2>2. QED
      BY <1>6, <1>9, <2>1 DEF Sets
  <1>12. ASSUME NEW v, Says(u, n, pat, v)
         PROVE  Says(d, Len(d), pat, Later(w, v))
    <2>1. CASE Matches(pat, key)
      <3>1. v = value /\ v # "none"
        BY <1>1, <1>4, <1>12, <2>1, SaysLess
      <3>2. Says(d, Len(d), pat, value)
        BY <1>10, <2>1 DEF EndsWith
      <3>3. QED
        BY <3>1, <3>2 DEF Later
    <2>2. CASE ~ Matches(pat, key)
      <3>1. Says(u, n - 1, pat, v)
        BY <1>1, <1>4, <1>12, <2>2, SaysLess
      <3>2. Says(c, Len(c), pat, Later(w, v))
        BY <3>1 DEF SetSoFar
      <3>3. QED
        BY <1>10, <2>2, <3>2 DEF EndsWith
    <2>3. QED
      BY <2>1, <2>2
  <1>13. QED
    BY <1>4, <1>11, <1>12 DEF SetSoFar

LEMMA SetFieldsSay ==
  ASSUME NEW Pats, NEW o \in Seq(Fields(Pats)), Distinct(o),
         NEW u \in Seq(Fields(Pats)), Distinct(u), Joins(o, u),
         NEW pat, NEW w, NEW v, Says(o, Len(o), pat, w), Says(u, Len(u), pat, v),
         NEW t, t = SetFields(o, u)
  PROVE  t \in Seq(Fields(Pats)) /\ Distinct(t) /\ Says(t, Len(t), pat, Later(w, v))
  <1>1. PICK N \in Nat : N = Len(u)
    OBVIOUS
  <1>2. PICK f \in [0..N -> Seq(Fields(Pats))] :
          /\ f[0] = o
          /\ \A n \in 1..N : f[n] = SetField(f[n - 1], u[n].key, u[n].value)
          /\ t = f[N]
    <2>1. PICK f \in [0..Len(u) -> Seq(Fields(Pats))] :
            /\ f[0] = o
            /\ \A n \in 1..Len(u) : f[n] = SetField(f[n - 1], u[n].key, u[n].value)
            /\ SetFields(o, u) = f[Len(u)]
      BY SetFieldsSteps
    <2>2. QED
      BY <1>1, <2>1
  <1> DEFINE T == {n \in 0..N : SetSoFar(o, u, n, pat, w, f[n])}
  <1>3. SetSoFar(o, u, 0, pat, w, o)
    <2>1. 1..0 = {}
      OBVIOUS
    <2>2. \A x : Says(u, 0, pat, x) => x = "none"
      BY <2>1 DEF Says
    <2>3. QED
      BY <2>1, <2>2 DEF SetSoFar, Later
  <1>4. ASSUME NEW n \in 1..N, n - 1 \in T
        PROVE  n \in T
    <2>1. n - 1 \in 0..N /\ n \in 0..N /\ n \in 1..Len(u)
      BY <1>1
    <2>2. PICK m \in 1..Len(u) : m = n
      BY <2>1
    <2>3. PICK c \in Seq(Fields(Pats)) : c = f[n - 1]
      BY <1>2, <2>1
    <2>4. PICK d : d = SetField(c, u[m].key, u[m].value)
      OBVIOUS
    <2>5. SetSoFar(o, u, m - 1, pat, w, c)
      BY <1>4, <2>2, <2>3
    <2>6. SetSoFar(o, u, m, pat, w, d)
      BY <2>4, <2>5, SetNext
    <2>7. f[n] = d
      BY <1>2, <2>2, <2>3, <2>4
    <2>8. QED
      BY <2>1, <2>2, <2>6, <2>7
  <1>5. 0 \in T
    BY <1>2, <1>3
  <1> HIDE DEF T
  <1>6. 0..N \subseteq T
    BY <1>4, <1>5, Induct
  <1>7. N \in 0..N
    OBVIOUS
  <1>8. SetSoFar(o, u, N, pat, w, f[N])
    BY <1>6, <1>7 DEF T
  <1>9. QED
    BY <1>1, <1>2, <1>7, <1>8 DEF SetSoFar

LEMMA SetFieldsType ==
  ASSUME NEW Pats, NEW obj \in Seq(Fields(Pats)), NEW fields \in Seq(Fields(Pats))
  PROVE  /\ SetFields(obj, fields) \in Seq(Fields(Pats))
         /\ Len(fields) = 0 => SetFields(obj, fields) = obj
  <1>1. PICK f \in [0..Len(fields) -> Seq(Fields(Pats))] :
          f[0] = obj /\ SetFields(obj, fields) = f[Len(fields)]
    BY SetFieldsSteps
  <1>2. Len(fields) \in 0..Len(fields)
    OBVIOUS
  <1>3. QED
    BY <1>1, <1>2

(* One permission of the patch.                                             *)
Patched(c, key, fields) == SetField(c, key, SetFields(GetField(c, key), fields))

LEMMA PatchedIs ==
  ASSUME NEW Perms, NEW Pats, NEW c \in Seq(Objects(Perms, Pats)),
         NEW p \in Objects(Perms, Pats), NEW d, d = Patched(c, p.key, p.value)
  PROVE  /\ d \in Seq(Objects(Perms, Pats))
         /\ Distinct(c) => Sets(d, c, p.key, SetFields(GetField(c, p.key), p.value))
  <1>1. p.key \in Perms /\ p.value \in Seq(Fields(Pats))
    BY DEF Objects
  <1>2. PICK obj \in Seq(Fields(Pats)) : obj = GetField(c, p.key)
    BY GetFieldType
  <1>3. PICK t \in Seq(Fields(Pats)) : t = SetFields(obj, p.value)
    BY <1>1, SetFieldsType
  <1>4. PICK object \in Objects(Perms, Pats) : object = [key |-> p.key, value |-> t]
    BY <1>1, <1>3 DEF Objects
  <1>5. d = SetField(c, p.key, t)
    BY <1>2, <1>3 DEF Patched
  <1>6. d \in Seq(Objects(Perms, Pats))
    BY <1>4, <1>5, SetFieldIs
  <1>7. Distinct(c) => Sets(d, c, p.key, t)
    BY <1>4, <1>5, SetKeeps
  <1>8. QED
    BY <1>2, <1>3, <1>6, <1>7

LEMMA PatchSteps ==
  ASSUME NEW Perms, NEW Pats, NEW file \in Seq(Objects(Perms, Pats)),
         NEW patch \in Seq(Objects(Perms, Pats))
  PROVE  \E f \in [0..Len(patch) -> Seq(Objects(Perms, Pats))] :
           /\ f[0] = file
           /\ \A n \in 1..Len(patch) : f[n] = Patched(f[n - 1], patch[n].key, patch[n].value)
           /\ PatchConfig(file, patch) = f[Len(patch)]
  <1>1. PICK N \in Nat : N = Len(patch)
    OBVIOUS
  <1>2. PICK L : L = Seq(Objects(Perms, Pats))
    OBVIOUS
  <1>3. \A n \in 1..N, c \in L : Patched(c, patch[n].key, patch[n].value) \in L
    <2> SUFFICES ASSUME NEW n \in 1..N, NEW c \in L
                 PROVE  Patched(c, patch[n].key, patch[n].value) \in L
      OBVIOUS
    <2>1. PICK p \in Objects(Perms, Pats) : p = patch[n]
      BY <1>1
    <2>2. PICK d : d = Patched(c, p.key, p.value)
      OBVIOUS
    <2>3. c \in Seq(Objects(Perms, Pats))
      BY <1>2
    <2>4. d \in Seq(Objects(Perms, Pats))
      BY <2>2, <2>3, PatchedIs
    <2>5. QED
      BY <1>2, <2>1, <2>2, <2>4
  <1>4. PICK z \in L : z = file
    BY <1>2
  <1>5. PICK G \in [1..N -> [L -> L]] :
          \A n \in 1..N, c \in L : G[n][c] = Patched(c, patch[n].key, patch[n].value)
    <2>1. [n \in 1..N |-> [c \in L |-> Patched(c, patch[n].key, patch[n].value)]]
            \in [1..N -> [L -> L]]
      BY <1>3
    <2>2. QED
      BY <2>1
  <1>6. PICK f \in [0..N -> L] : Iterates(f, N, z, G)
    BY Recursion
  <1>7. \A n \in 1..N : n - 1 \in 0..N /\ n \in 0..N
    OBVIOUS
  <1>8. f[0] = file /\ \A n \in 1..N : f[n] = Patched(f[n - 1], patch[n].key, patch[n].value)
    BY <1>4, <1>5, <1>6, <1>7 DEF Iterates
  <1> DEFINE Step(h, n) == IF n = 0 THEN file
                           ELSE Patched(h[n - 1], patch[n].key, patch[n].value)
             after == CHOOSE h : h = [n \in 0..N |-> Step(h, n)]
  <1>9. PatchConfig(file, patch) = after[N]
    BY <1>1 DEF PatchConfig, Patched
  <1>10. f = [n \in 0..N |-> Step(f, n)]
    <2>1. \A n \in 0..N : n = 0 \/ n \in 1..N
      OBVIOUS
    <2>2. QED
      BY <1>8, <2>1
  <1>11. after = [n \in 0..N |-> Step(after, n)]
    BY <1>10
  <1> HIDE DEF after
  <1>12. 0 \in 0..N /\ N \in 0..N /\ \A n \in 1..N : n # 0
    OBVIOUS
  <1>13. after[0] = file
         /\ \A n \in 1..N : after[n] = Patched(after[n - 1], patch[n].key, patch[n].value)
    BY <1>7, <1>11, <1>12
  <1> DEFINE T == {n \in 0..N : after[n] = f[n]}
  <1>14. 0 \in T /\ \A n \in 1..N : n - 1 \in T => n \in T
    BY <1>7, <1>8, <1>12, <1>13
  <1> HIDE DEF T
  <1>15. 0..N \subseteq T
    BY <1>14, Induct
  <1>16. after[N] = f[N]
    BY <1>12, <1>15 DEF T
  <1>17. QED
    BY <1>1, <1>2, <1>8, <1>9, <1>16

(* What has become of one permission after n fields of the patch.           *)
PatchedSoFar(file, patch, n, perm, c) ==
  /\ Distinct(c)
  /\ \A j \in 1..n : patch[j].key = perm =>
       GetField(c, perm) = SetFields(GetField(file, perm), patch[j].value)
  /\ (\A j \in 1..n : patch[j].key # perm) => GetField(c, perm) = GetField(file, perm)

LEMMA PatchNext ==
  ASSUME NEW Perms, NEW Pats, NEW file, NEW patch \in Seq(Objects(Perms, Pats)), Distinct(patch),
         NEW n \in 1..Len(patch), NEW perm, NEW c \in Seq(Objects(Perms, Pats)),
         PatchedSoFar(file, patch, n - 1, perm, c),
         NEW d, d = Patched(c, patch[n].key, patch[n].value)
  PROVE  PatchedSoFar(file, patch, n, perm, d)
  <1>1. PICK p \in Objects(Perms, Pats) : p = patch[n]
    OBVIOUS
  <1>2. n \in 1..n /\ \A i \in 1..n : i = n \/ i \in 1..(n - 1)
    OBVIOUS
  <1>3. \A i \in 1..(n - 1) : i \in 1..n /\ i \in 1..Len(patch) /\ i # n
    OBVIOUS
  <1>4. Distinct(c)
    BY DEF PatchedSoFar
  <1>5. Sets(d, c, p.key, SetFields(GetField(c, p.key), p.value))
    BY <1>1, <1>4, PatchedIs
  <1>6. CASE p.key = perm
    <2>1. \A j \in 1..(n - 1) : patch[j].key # perm
      BY <1>1, <1>3, <1>6 DEF Distinct
    <2>2. GetField(c, perm) = GetField(file, perm)
      BY <2>1 DEF PatchedSoFar
    <2>3. GetField(d, perm) = SetFields(GetField(file, perm), p.value)
      BY <1>5, <1>6, <2>2 DEF Sets
    <2>4. \A j \in 1..n : patch[j].key = perm => patch[j] = p
      BY <1>1, <1>2, <2>1
    <2>5. QED
      BY <1>1, <1>2, <1>5, <1>6, <2>3, <2>4 DEF PatchedSoFar, Sets
  <1>7. CASE p.key # perm
    <2>1. GetField(d, perm) = GetField(c, perm)
      BY <1>5, <1>7 DEF Sets
    <2>2. \A j \in 1..n : patch[j].key = perm => j \in 1..(n - 1)
      BY <1>1, <1>2, <1>7
    <2>3. QED
      BY <1>3, <1>5, <2>1, <2>2 DEF PatchedSoFar, Sets
  <1>8. QED
    BY <1>6, <1>7

(* Every permission has its fields set in the object the file has for it.   *)
LEMMA PatchIs ==
  ASSUME NEW Perms, NEW Pats, NEW file \in Seq(Objects(Perms, Pats)), Distinct(file),
         NEW patch \in Seq(Objects(Perms, Pats)), Distinct(patch), NEW perm,
         NEW c, c = PatchConfig(file, patch)
  PROVE  /\ c \in Seq(Objects(Perms, Pats)) /\ Distinct(c)
         /\ GetField(c, perm) = SetFields(GetField(file, perm), GetField(patch, perm))
  <1>1. PICK N \in Nat : N = Len(patch)
    OBVIOUS
  <1>2. PICK f \in [0..N -> Seq(Objects(Perms, Pats))] :
          /\ f[0] = file
          /\ \A n \in 1..N : f[n] = Patched(f[n - 1], patch[n].key, patch[n].value)
          /\ c = f[N]
    <2>1. PICK f \in [0..Len(patch) -> Seq(Objects(Perms, Pats))] :
            /\ f[0] = file
            /\ \A n \in 1..Len(patch) : f[n] = Patched(f[n - 1], patch[n].key, patch[n].value)
            /\ PatchConfig(file, patch) = f[Len(patch)]
      BY PatchSteps, SMTT(60)
    <2>2. QED
      BY <1>1, <2>1
  <1> DEFINE T == {n \in 0..N : PatchedSoFar(file, patch, n, perm, f[n])}
  <1>3. PatchedSoFar(file, patch, 0, perm, file)
    BY DEF PatchedSoFar
  <1>4. ASSUME NEW n \in 1..N, n - 1 \in T
        PROVE  n \in T
    <2>1. n - 1 \in 0..N /\ n \in 0..N /\ n \in 1..Len(patch)
      BY <1>1
    <2>2. PICK m \in 1..Len(patch) : m = n
      BY <2>1
    <2>3. PICK b \in Seq(Objects(Perms, Pats)) : b = f[n - 1]
      BY <1>2, <2>1
    <2>4. PICK d : d = Patched(b, patch[m].key, patch[m].value)
      OBVIOUS
    <2>5. PatchedSoFar(file, patch, m - 1, perm, b)
      BY <1>4, <2>2, <2>3
    <2>6. PatchedSoFar(file, patch, m, perm, d)
      BY <2>4, <2>5, PatchNext
    <2>7. f[n] = d
      BY <1>2, <2>2, <2>3, <2>4
    <2>8. QED
      BY <2>1, <2>2, <2>6, <2>7
  <1>5. 0 \in T
    BY <1>2, <1>3
  <1> HIDE DEF T
  <1>6. 0..N \subseteq T
    BY <1>4, <1>5, Induct
  <1>7. N \in 0..N
    OBVIOUS
  <1>8. PatchedSoFar(file, patch, N, perm, c)
    BY <1>2, <1>6, <1>7 DEF T
  <1>9. GetField(c, perm) = SetFields(GetField(file, perm), GetField(patch, perm))
    <2>1. CASE \E j \in 1..N : patch[j].key = perm
      <3>1. PICK j \in 1..N : patch[j].key = perm
        BY <2>1
      <3>2. GetField(patch, perm) = patch[j].value
        BY <1>1, <3>1, GetFieldIs
      <3>3. QED
        BY <1>8, <3>1, <3>2 DEF PatchedSoFar
    <2>2. CASE \A j \in 1..N : patch[j].key # perm
      <3>1. perm \notin Keys(patch)
        BY <1>1, <2>2 DEF Keys
      <3>2. GetField(patch, perm) = <<>>
        BY <3>1, GetFieldIs
      <3>3. SetFields(GetField(file, perm), <<>>) = GetField(file, perm)
        <4>1. PICK o \in Seq(Fields(Pats)) : o = GetField(file, perm)
          BY GetFieldType
        <4>2. <<>> \in Seq(Fields(Pats)) /\ Len(<<>>) = 0
          OBVIOUS
        <4>3. QED
          BY <4>1, <4>2, SetFieldsType
      <3>4. QED
        BY <1>8, <2>2, <3>2, <3>3 DEF PatchedSoFar
    <2>3. QED
      BY <2>1, <2>2
  <1>10. c \in Seq(Objects(Perms, Pats))
    BY <1>2, <1>7
  <1>11. QED
    BY <1>8, <1>9, <1>10 DEF PatchedSoFar

----------------------------------------------------------------------------
(* Two lists of rules, one behind the other *)

Follows(r, s, t) ==
  /\ Len(s) \in Nat /\ Len(t) \in Nat /\ Len(r) = Len(s) + Len(t)
  /\ \A i \in 1..Len(s) : r[i] = s[i]
  /\ \A i \in 1..Len(t) : r[Len(s) + i] = t[i]

LEMMA FollowsAt ==
  ASSUME NEW r, NEW s, NEW t, Follows(r, s, t), NEW i \in 1..Len(r)
  PROVE  \/ i \in 1..Len(s) /\ r[i] = s[i]
         \/ i - Len(s) \in 1..Len(t) /\ r[i] = t[i - Len(s)]
  <1>1. PICK m \in Nat, n \in Nat : m = Len(s) /\ n = Len(t) /\ Len(r) = m + n
    BY DEF Follows
  <1>2. CASE i <= m
    BY <1>1, <1>2 DEF Follows
  <1>3. CASE ~ (i <= m)
    <2>1. i - m \in 1..n /\ m + (i - m) = i
      BY <1>1, <1>3
    <2>2. QED
      BY <1>1, <2>1 DEF Follows
  <1>4. QED
    BY <1>2, <1>3

LEMMA DecidesInTurn ==
  ASSUME NEW r, NEW s, NEW t, Follows(r, s, t), NEW perm, NEW pat, NEW w, NEW v,
         Decides(s, Len(s), perm, pat, w), Decides(t, Len(t), perm, pat, v)
  PROVE  Decides(r, Len(r), perm, pat, Later(w, v))
  <1>1. PICK m \in Nat, n \in Nat : m = Len(s) /\ n = Len(t) /\ Len(r) = m + n
    BY DEF Follows
  <1>2. \A i \in 1..m : i \in 1..(m + n) /\ r[i] = s[i]
    BY <1>1 DEF Follows
  <1>3. \A i \in 1..n : m + i \in 1..(m + n) /\ r[m + i] = t[i] /\ \A j \in 1..m : j <= m + i
    BY <1>1 DEF Follows
  <1>4. \A i \in 1..(m + n) : \/ i \in 1..m /\ r[i] = s[i]
                              \/ i - m \in 1..n /\ r[i] = t[i - m]
    BY <1>1, FollowsAt
  <1>5. CASE v # "none"
    <2>1. PICK i \in 1..n : /\ Applies(t[i], perm, pat) /\ t[i].action = v
                            /\ \A j \in 1..n : Applies(t[j], perm, pat) => j <= i
      BY <1>1, <1>5 DEF Decides
    <2>2. ASSUME NEW j \in 1..(m + n), Applies(r[j], perm, pat) PROVE j <= m + i
      <3>1. CASE j \in 1..m
        BY <1>3, <3>1
      <3>2. CASE j - m \in 1..n /\ r[j] = t[j - m]
        BY <2>1, <2>2, <3>2
      <3>3. QED
        BY <1>4, <3>1, <3>2
    <2>3. Later(w, v) = v
      BY <1>5 DEF Later
    <2>4. QED
      BY <1>1, <1>3, <1>5, <2>1, <2>2, <2>3 DEF Decides
  <1>6. CASE v = "none"
    <2>1. \A i \in 1..n : ~ Applies(t[i], perm, pat)
      BY <1>1, <1>6 DEF Decides
    <2>2. Later(w, v) = w
      BY <1>6 DEF Later
    <2>3. \A j \in 1..(m + n) : Applies(r[j], perm, pat) => j \in 1..m /\ Applies(s[j], perm, pat)
      BY <1>4, <2>1
    <2>4. CASE w = "none" /\ \A i \in 1..m : ~ Applies(s[i], perm, pat)
      BY <1>1, <2>2, <2>3, <2>4 DEF Decides
    <2>5. CASE w # "none"
      <3>1. PICK i \in 1..m : /\ Applies(s[i], perm, pat) /\ s[i].action = w
                              /\ \A j \in 1..m : Applies(s[j], perm, pat) => j <= i
        BY <1>1, <2>5 DEF Decides
      <3>2. \A j \in 1..(m + n) : Applies(r[j], perm, pat) => j <= i
        BY <2>3, <3>1
      <3>3. QED
        BY <1>1, <1>2, <2>2, <2>5, <3>1, <3>2 DEF Decides
    <2>6. QED
      BY <1>1, <2>4, <2>5 DEF Decides
  <1>7. QED
    BY <1>5, <1>6

(* Between two rules with the same pattern there is no other pattern.       *)
Ends(rules, perm, key, i, j) ==
  /\ i \in DOMAIN rules /\ j \in DOMAIN rules /\ i < j
  /\ rules[i].permission = perm /\ rules[i].pattern = key
  /\ rules[j].permission = perm /\ rules[j].pattern = key

InARow(rules, perm, key, i, j) ==
  \A l \in i..j : rules[l].permission = perm => rules[l].pattern = key

LEMMA NoneBetween ==
  ASSUME NEW rules, SavedShape(rules), NEW perm, NEW key, NEW i, NEW j,
         Ends(rules, perm, key, i, j)
  PROVE  InARow(rules, perm, key, i, j)
  <1>1. \A l \in i..j : rules[l].permission = rules[i].permission
                          => rules[l].pattern = rules[i].pattern
    BY DEF SavedShape, Ends
  <1>2. QED
    BY <1>1 DEF InARow, Ends

(* A stretch of a list that can be saved can be saved.                      *)
LEMMA PartShape ==
  ASSUME NEW S, NEW rules \in Seq(S), SavedShape(rules), NEW p \in Seq(S), NEW d \in Nat,
         \A l \in 1..Len(p) : d + l \in 1..Len(rules) /\ p[l] = rules[d + l]
  PROVE  SavedShape(p)
  <1>1. DOMAIN rules = 1..Len(rules) /\ DOMAIN p = 1..Len(p)
    OBVIOUS
  <1> SUFFICES ASSUME NEW i \in 1..Len(p), NEW j \in 1..Len(p)
               PROVE  /\ p[i].permission # Star
                      /\ p[i].permission \in ScalarOnly => p[i].pattern = Star
                      /\ /\ i < j
                         /\ p[i].permission = p[j].permission
                         /\ p[i].pattern = p[j].pattern
                         => \A l \in i..j : p[l].permission = p[i].permission
                                              => p[l].pattern = p[i].pattern
    BY <1>1 DEF SavedShape
  <1>2. d + i \in DOMAIN rules /\ d + j \in DOMAIN rules /\ p[i] = rules[d + i] /\ p[j] = rules[d + j]
    BY <1>1
  <1>3. p[i].permission # Star /\ (p[i].permission \in ScalarOnly => p[i].pattern = Star)
    BY <1>2 DEF SavedShape
  <1>4. ASSUME i < j, p[i].permission = p[j].permission, p[i].pattern = p[j].pattern,
               NEW l \in i..j, p[l].permission = p[i].permission
        PROVE  p[l].pattern = p[i].pattern
    <2>1. d + i < d + j /\ l \in 1..Len(p) /\ d + l \in (d + i)..(d + j)
      <3>1. i \in Nat /\ j \in Nat /\ l \in Nat /\ i <= l /\ l <= j /\ i < j /\ 1 <= i /\ j <= Len(p)
        BY <1>4
      <3>2. QED
        BY <3>1
    <2>2. p[l] = rules[d + l]
      BY <2>1
    <2>3. \A x \in (d + i)..(d + j) : rules[x].permission = rules[d + i].permission
                                     => rules[x].pattern = rules[d + i].pattern
      <3>1. PICK perm, key : perm = rules[d + i].permission /\ key = rules[d + i].pattern
        OBVIOUS
      <3>2. Ends(rules, perm, key, d + i, d + j)
        BY <1>2, <1>4, <2>1, <3>1 DEF Ends
      <3>3. InARow(rules, perm, key, d + i, d + j)
        BY <3>2, NoneBetween
      <3>4. QED
        BY <3>1, <3>3 DEF InARow
    <2>4. QED
      BY <1>2, <1>4, <2>1, <2>2, <2>3
  <1>5. QED
    BY <1>3, <1>4

(* The two calls that save a list of rules.                                 *)
LEMMA Parts ==
  ASSUME NEW S, NEW rules \in Seq(S), SavedShape(rules), NEW k \in 0..Len(rules),
         NEW a, a = SubSeq(rules, 1, k), NEW b, b = SubSeq(rules, k + 1, Len(rules))
  PROVE  /\ a \in Seq(S) /\ b \in Seq(S) /\ Follows(rules, a, b)
         /\ SavedShape(a) /\ SavedShape(b)
  <1>1. PICK N \in Nat : N = Len(rules)
    OBVIOUS
  <1>2. a \in Seq(S) /\ Len(a) = k /\ \A i \in 1..k : a[i] = rules[i]
    BY <1>1
  <1>3. b \in Seq(S) /\ Len(b) = N - k /\ \A i \in 1..(N - k) : b[i] = rules[k + i]
    BY <1>1
  <1>4. DOMAIN rules = 1..N /\ DOMAIN a = 1..k /\ DOMAIN b = 1..(N - k)
    BY <1>1, <1>2, <1>3
  <1>5. Follows(rules, a, b)
    <2>1. Len(a) \in Nat /\ Len(b) \in Nat /\ Len(rules) = Len(a) + Len(b)
      <3>1. k \in Nat /\ N - k \in Nat /\ N = k + (N - k)
        BY <1>1
      <3>2. Len(a) = k /\ Len(b) = N - k
        BY <1>2, <1>3
      <3>3. QED
        BY <1>1, <3>1, <3>2
    <2>2. \A i \in 1..Len(a) : rules[i] = a[i]
      BY <1>2
    <2>3. \A i \in 1..Len(b) : rules[Len(a) + i] = b[i]
      BY <1>2, <1>3
    <2>4. QED
      BY <2>1, <2>2, <2>3 DEF Follows
  <1>7. SavedShape(a)
    <2>1. \A l \in 1..Len(a) : 0 + l \in 1..Len(rules) /\ a[l] = rules[0 + l]
      BY <1>1, <1>2
    <2>2. 0 \in Nat
      OBVIOUS
    <2>3. QED
      BY <1>2, <2>1, <2>2, PartShape
  <1>8. SavedShape(b)
    <2>1. \A l \in 1..Len(b) : k + l \in 1..Len(rules) /\ b[l] = rules[k + l]
      BY <1>1, <1>3
    <2>2. k \in Nat
      OBVIOUS
    <2>3. QED
      BY <1>3, <2>1, <2>2, PartShape
  <1>9. QED
    BY <1>2, <1>3, <1>5, <1>7, <1>8

(* What the second call sets is new to the file, or is the last there is.   *)
LEMMA PartsJoin ==
  ASSUME NEW S, NEW rules \in Seq(S), SavedShape(rules), NEW a \in Seq(S), NEW b \in Seq(S),
         Follows(rules, a, b), NEW perm, NEW pat, NEW o, NEW u,
         About(a, Len(a), perm, pat, o), About(b, Len(b), perm, pat, u)
  PROVE  Joins(o, u)
  <1>1. PICK m \in Nat, n \in Nat : m = Len(a) /\ n = Len(b) /\ Len(rules) = m + n
    BY DEF Follows
  <1>2. DOMAIN rules = 1..(m + n)
    BY <1>1
  <1>3. \A i \in 1..m : i \in 1..(m + n) /\ rules[i] = a[i]
    BY <1>1 DEF Follows
  <1>4. \A i \in 1..n : m + i \in 1..(m + n) /\ rules[m + i] = b[i]
    BY <1>1 DEF Follows
  <1> SUFFICES ASSUME NEW h \in 1..Len(u), u[h].key \in Keys(o)
               PROVE  h = 1 /\ Len(o) # 0 /\ o[Len(o)].key = u[h].key
    BY DEF Joins
  <1>5. PICK key : key = u[h].key
    OBVIOUS
  <1>6. PICK i \in 1..m : a[i].permission = perm /\ a[i].pattern = key
    BY <1>1, <1>5 DEF About
  <1>7. PICK j \in 1..n : b[j].permission = perm /\ b[j].pattern = key
    <2>1. key \in Keys(u)
      BY <1>5 DEF Keys
    <2>2. QED
      BY <1>1, <2>1 DEF About
  <1>8. \A l \in i..(m + j) : rules[l].permission = perm => rules[l].pattern = key
    <2>1. i < m + j /\ i \in DOMAIN rules /\ m + j \in DOMAIN rules
      BY <1>2, <1>3, <1>4
    <2>2. /\ rules[i].permission = perm /\ rules[i].pattern = key
          /\ rules[m + j].permission = perm /\ rules[m + j].pattern = key
      BY <1>3, <1>4, <1>6, <1>7
    <2>3. Ends(rules, perm, key, i, m + j)
      BY <2>1, <2>2 DEF Ends
    <2>4. InARow(rules, perm, key, i, m + j)
      BY <2>3, NoneBetween
    <2>5. QED
      BY <2>4 DEF InARow
  <1>9. Len(o) # 0 /\ o[Len(o)].key = key
    <2> DEFINE T == {l \in 1..m : a[l].permission = perm}
    <2>1. T \subseteq 1..m /\ i \in T
      BY <1>6
    <2> HIDE DEF T
    <2>2. PICK l \in T : \A x \in T : x <= l
      BY <2>1, Greatest
    <2>3. l \in 1..m /\ a[l].permission = perm /\ l \in i..(m + j)
      BY <2>1, <2>2 DEF T
    <2>4. a[l].pattern = key
      BY <1>3, <1>8, <2>3
    <2>5. \A x \in 1..m : a[x].permission = perm => x <= l
      BY <2>2 DEF T
    <2>6. QED
      BY <1>1, <2>3, <2>4, <2>5 DEF About
  <1>10. Len(u) # 0 /\ u[1].key = key
    <2> DEFINE T == {l \in 1..n : b[l].permission = perm}
    <2>1. T \subseteq Nat /\ j \in T
      BY <1>7
    <2> HIDE DEF T
    <2>2. PICK l \in T : \A x \in T : l <= x
      BY <2>1, Least
    <2>3. l \in 1..n /\ b[l].permission = perm /\ l <= j
      BY <2>1, <2>2 DEF T
    <2>4. m + l \in i..(m + j)
      BY <2>3
    <2>5. b[l].pattern = key
      BY <1>4, <1>8, <2>3, <2>4
    <2>6. \A x \in 1..n : b[x].permission = perm => l <= x
      BY <2>2 DEF T
    <2>7. QED
      BY <1>1, <2>3, <2>5, <2>6 DEF About
  <1>11. h = 1
    <2>1. Distinct(u)
      BY DEF About
    <2>2. 1 \in 1..Len(u)
      OBVIOUS
    <2>3. QED
      BY <1>5, <1>10, <2>1, <2>2 DEF Distinct
  <1>12. QED
    BY <1>5, <1>9, <1>11

----------------------------------------------------------------------------
(* fromConfig and evaluate *)

LEMMA RulesOfSay ==
  ASSUME NEW Perms, NEW Pats, NEW f \in Objects(Perms, Pats), NEW perm, NEW pat
  PROVE  /\ RulesOf(f) \in Seq(RuleSet(Perms, Pats))
         /\ f.key = perm => \A w : Says(f.value, Len(f.value), pat, w)
                                     => Decides(RulesOf(f), Len(RulesOf(f)), perm, pat, w)
         /\ f.key # perm => Decides(RulesOf(f), Len(RulesOf(f)), perm, pat, "none")
  <1>1. PICK v \in Seq(Fields(Pats)) : v = f.value /\ f.key \in Perms
    BY DEF Objects
  <1>2. PICK N \in Nat : N = Len(v) /\ DOMAIN v = 1..N
    OBVIOUS
  <1>3. PICK g : g = RulesOf(f)
    OBVIOUS
  <1>4. g = [j \in 1..N |-> [permission |-> f.key, pattern |-> v[j].key, action |-> v[j].value]]
    BY <1>1, <1>2, <1>3 DEF RulesOf
  <1>5. \A j \in 1..N : /\ g[j].permission = f.key
                        /\ g[j].pattern = v[j].key /\ g[j].action = v[j].value
    BY <1>4
  <1>6. \A j \in 1..N : g[j] \in RuleSet(Perms, Pats)
    <2> SUFFICES ASSUME NEW j \in 1..N PROVE g[j] \in RuleSet(Perms, Pats)
      OBVIOUS
    <2>1. v[j] \in Fields(Pats)
      BY <1>2
    <2>2. v[j].key \in Pats /\ v[j].value \in Actions
      BY <2>1 DEF Fields
    <2>3. QED
      BY <1>1, <1>4, <2>2 DEF RuleSet
  <1>7. g \in Seq(RuleSet(Perms, Pats)) /\ Len(g) = N
    <2>1. PICK R : R = RuleSet(Perms, Pats)
      OBVIOUS
    <2>2. g \in [1..N -> R]
      BY <1>4, <1>6, <2>1
    <2>3. g \in Seq(R) /\ Len(g) = N
      BY <1>2, <2>2
    <2>4. QED
      BY <2>1, <2>3
  <1>8. ASSUME f.key = perm, NEW w, Says(v, N, pat, w)
        PROVE  Decides(g, N, perm, pat, w)
    <2>1. \A j \in 1..N : Applies(g[j], perm, pat) <=> Matches(pat, v[j].key)
      BY <1>5, <1>8 DEF Applies
    <2>2. CASE w = "none" /\ \A i \in 1..N : ~ Matches(pat, v[i].key)
      BY <2>1, <2>2 DEF Decides
    <2>3. CASE w # "none"
      <3>1. PICK i \in 1..N : /\ Matches(pat, v[i].key) /\ v[i].value = w
                              /\ \A j \in 1..N : Matches(pat, v[j].key) => j <= i
        BY <1>8, <2>3 DEF Says
      <3>2. QED
        BY <1>5, <2>1, <2>3, <3>1 DEF Decides
    <2>4. QED
      BY <1>8, <2>2, <2>3 DEF Says
  <1>9. f.key # perm => Decides(g, N, perm, pat, "none")
    BY <1>5 DEF Decides, Applies
  <1>10. QED
    BY <1>1, <1>2, <1>3, <1>7, <1>8, <1>9

LEMMA ConcatFollows ==
  ASSUME NEW R, NEW s \in Seq(R), NEW t \in Seq(R), NEW r, r = s \o t
  PROVE  r \in Seq(R) /\ Follows(r, s, t)
  <1>1. r \in Seq(R) /\ Len(r) = Len(s) + Len(t)
    OBVIOUS
  <1>2. \A i \in 1..Len(s) : r[i] = s[i]
    OBVIOUS
  <1>3. \A i \in 1..Len(t) : r[Len(s) + i] = t[i]
    OBVIOUS
  <1>4. QED
    BY <1>1, <1>2, <1>3 DEF Follows

(* Lists that are all empty.                                                *)
LEMMA FlattenNothing ==
  ASSUME NEW R, NEW seqs \in Seq(Seq(R)), \A i \in 1..Len(seqs) : seqs[i] = <<>>
  PROVE  FlattenSeq(seqs) = <<>>
  <1>1. PICK N \in Nat : N = Len(seqs)
    OBVIOUS
  <1>2. PICK f \in [0..N -> Seq(R)] :
          /\ f[0] = <<>>
          /\ \A n \in 1..N : f[n] = f[n - 1] \o seqs[n]
          /\ FlattenSeq(seqs) = f[N]
    <2>1. PICK f \in [0..Len(seqs) -> Seq(R)] :
            /\ f[0] = <<>>
            /\ \A n \in 1..Len(seqs) : f[n] = f[n - 1] \o seqs[n]
            /\ FlattenSeq(seqs) = f[Len(seqs)]
      BY FlattenSteps
    <2>2. QED
      BY <1>1, <2>1
  <1> DEFINE T == {n \in 0..N : f[n] = <<>>}
  <1>3. ASSUME NEW n \in 1..N, n - 1 \in T PROVE n \in T
    <2>1. f[n] = <<>> \o <<>>
      BY <1>1, <1>2, <1>3
    <2>2. <<>> \o <<>> = <<>>
      OBVIOUS
    <2>3. n \in 0..N
      OBVIOUS
    <2>4. QED
      BY <2>1, <2>2, <2>3
  <1>4. 0 \in T
    BY <1>2
  <1> HIDE DEF T
  <1>5. 0..N \subseteq T
    BY <1>3, <1>4, Induct
  <1>6. N \in 0..N
    OBVIOUS
  <1>7. QED
    BY <1>2, <1>5, <1>6 DEF T

(* The rules that are read say of a permission what its object says.        *)
LEMMA FromConfigIs ==
  ASSUME NEW Perms, NEW Pats, Star \notin Perms, NEW c \in Seq(Objects(Perms, Pats)), Distinct(c),
         NEW perm, NEW pat, NEW o, o = GetField(c, perm), NEW w, Says(o, Len(o), pat, w),
         NEW read, read = FromConfig(c)
  PROVE  read \in Seq(RuleSet(Perms, Pats)) /\ Decides(read, Len(read), perm, pat, w)
  <1>1. PICK N \in Nat : N = Len(c) /\ DOMAIN c = 1..N
    OBVIOUS
  <1>2. PICK R : R = RuleSet(Perms, Pats)
    OBVIOUS
  <1> DEFINE Section(wild) == [i \in DOMAIN c |->
               IF (c[i].key = Star) = wild THEN RulesOf(c[i]) ELSE <<>>]
  <1>3. read = FlattenSeq(Section(TRUE)) \o FlattenSeq(Section(FALSE))
    BY DEF FromConfig
  <1>4. \A i \in 1..N : c[i] \in Objects(Perms, Pats) /\ c[i].key # Star
    <2> SUFFICES ASSUME NEW i \in 1..N
                 PROVE  c[i] \in Objects(Perms, Pats) /\ c[i].key # Star
      OBVIOUS
    <2>1. c[i] \in Objects(Perms, Pats)
      BY <1>1
    <2>2. QED
      BY <2>1 DEF Objects
  <1>5. Section(TRUE) = [i \in 1..N |-> <<>>]
    BY <1>1, <1>4
  <1>6. PICK seqs : seqs = [i \in 1..N |-> RulesOf(c[i])]
    OBVIOUS
  <1>7. Section(FALSE) = seqs
    BY <1>1, <1>4, <1>6
  <1> HIDE DEF Section
  <1>8. \A i \in 1..N : RulesOf(c[i]) \in Seq(R)
    BY <1>2, <1>4, RulesOfSay
  <1>9. seqs \in Seq(Seq(R)) /\ Len(seqs) = N
    <2>1. PICK L : L = Seq(R)
      OBVIOUS
    <2>2. seqs \in [1..N -> L]
      BY <1>6, <1>8, <2>1
    <2>3. seqs \in Seq(L) /\ Len(seqs) = N
      BY <2>2
    <2>4. QED
      BY <2>1, <2>3
  <1>10. FlattenSeq(Section(TRUE)) = <<>>
    <2>0. \A S : <<>> \in Seq(S)
      OBVIOUS
    <2>1. PICK L : L = Seq(R) /\ <<>> \in L
      BY <2>0
    <2>2. PICK none : none = [i \in 1..N |-> <<>>]
      OBVIOUS
    <2>3. none \in [1..N -> L] /\ \A i \in 1..N : none[i] = <<>>
      BY <2>1, <2>2
    <2>4. none \in Seq(L) /\ Len(none) = N
      BY <2>3
    <2>5. none \in Seq(Seq(R)) /\ \A i \in 1..Len(none) : none[i] = <<>>
      BY <2>1, <2>3, <2>4
    <2>6. FlattenSeq(none) = <<>>
      BY <2>5, FlattenNothing
    <2>7. QED
      BY <1>5, <2>2, <2>6
  <1>11. PICK f \in [0..N -> Seq(R)] :
          /\ f[0] = <<>>
          /\ \A n \in 1..N : f[n] = f[n - 1] \o seqs[n]
          /\ FlattenSeq(seqs) = f[N]
    <2>1. PICK f \in [0..Len(seqs) -> Seq(R)] :
            /\ f[0] = <<>>
            /\ \A n \in 1..Len(seqs) : f[n] = f[n - 1] \o seqs[n]
            /\ FlattenSeq(seqs) = f[Len(seqs)]
      BY <1>9, FlattenSteps
    <2>2. QED
      BY <1>9, <2>1
  <1>12. 0 \in 0..N /\ N \in 0..N /\ \A n \in 1..N : n \in 0..N /\ n - 1 \in 0..N
    OBVIOUS
  <1>13. read = f[N]
    <2>1. PICK s \in Seq(R) : s = f[N]
      BY <1>11, <1>12
    <2>2. <<>> \o s = s
      OBVIOUS
    <2>3. QED
      BY <1>3, <1>7, <1>10, <1>11, <2>1, <2>2
  <1> DEFINE Named(n) == \E j \in 1..n : c[j].key = perm
             Verdict(n) == IF Named(n) THEN w ELSE "none"
             T == {n \in 0..N : Decides(f[n], Len(f[n]), perm, pat, Verdict(n))}
  <1>14. 0 \in T
    <2>1. ~ Named(0)
      OBVIOUS
    <2>2. Len(<<>>) = 0 /\ 1..0 = {}
      OBVIOUS
    <2>3. Decides(<<>>, 0, perm, pat, "none")
      BY <2>2 DEF Decides
    <2>4. QED
      BY <1>11, <1>12, <2>1, <2>2, <2>3
  <1>15. ASSUME NEW n \in 1..N, n - 1 \in T PROVE n \in T
    <2>1. PICK s \in Seq(R) : s = f[n - 1]
      BY <1>11, <1>12
    <2>2. PICK t \in Seq(R) : t = RulesOf(c[n])
      BY <1>8
    <2>3. PICK r : r = s \o t
      OBVIOUS
    <2>4. f[n] = r
      BY <1>6, <1>11, <2>1, <2>2, <2>3
    <2>5. Follows(r, s, t)
      BY <2>3, ConcatFollows
    <2>6. Decides(s, Len(s), perm, pat, Verdict(n - 1))
      BY <1>15, <2>1
    <2>7. \A i \in 1..n : i = n \/ i \in 1..(n - 1)
      OBVIOUS
    <2>8. \A i \in 1..(n - 1) : i \in 1..n /\ i # n /\ i \in 1..N
      OBVIOUS
    <2>9. n \in 1..n
      OBVIOUS
    <2>10. CASE c[n].key = perm
      <3>1. o = c[n].value
        BY <1>1, <2>10, GetFieldIs
      <3>2. Decides(t, Len(t), perm, pat, w)
        BY <1>4, <2>2, <2>10, <3>1, RulesOfSay
      <3>3. ~ Named(n - 1)
        BY <1>1, <2>8, <2>10 DEF Distinct
      <3>4. Named(n)
        BY <2>9, <2>10
      <3>5. Later(Verdict(n - 1), w) = Verdict(n)
        BY <3>3, <3>4 DEF Later
      <3>6. Decides(r, Len(r), perm, pat, Verdict(n))
        BY <2>5, <2>6, <3>2, <3>5, DecidesInTurn
      <3>7. QED
        BY <1>12, <2>4, <3>6
    <2>11. CASE c[n].key # perm
      <3>1. Decides(t, Len(t), perm, pat, "none")
        BY <1>4, <2>2, <2>11, RulesOfSay
      <3>2. Named(n) <=> Named(n - 1)
        BY <2>7, <2>8, <2>11
      <3>3. Later(Verdict(n - 1), "none") = Verdict(n)
        BY <3>2 DEF Later
      <3>4. Decides(r, Len(r), perm, pat, Verdict(n))
        BY <2>5, <2>6, <3>1, <3>3, DecidesInTurn
      <3>5. QED
        BY <1>12, <2>4, <3>4
    <2>12. QED
      BY <2>10, <2>11
  <1> HIDE DEF T
  <1>16. 0..N \subseteq T
    BY <1>14, <1>15, Induct
  <1>17. Decides(f[N], Len(f[N]), perm, pat, Verdict(N))
    BY <1>12, <1>16 DEF T
  <1>18. Verdict(N) = w
    <2>1. CASE Named(N)
      BY <2>1
    <2>2. CASE ~ Named(N)
      <3>1. perm \notin Keys(c)
        BY <1>1, <2>2 DEF Keys
      <3>2. o = <<>>
        BY <3>1, GetFieldIs
      <3>3. Says(<<>>, 0, pat, w)
        <4>1. Len(<<>>) = 0
          OBVIOUS
        <4>2. QED
          BY <3>2, <4>1
      <3>4. 1..0 = {}
        OBVIOUS
      <3>5. w = "none"
        BY <3>3, <3>4 DEF Says
      <3>6. QED
        BY <2>2, <3>5
    <2>3. QED
      BY <2>1, <2>2
  <1>19. read \in Seq(R)
    BY <1>11, <1>12, <1>13
  <1>20. QED
    BY <1>2, <1>13, <1>17, <1>18, <1>19

LEMMA EvaluateIs ==
  ASSUME NEW R, NEW rules \in Seq(R), \A i \in 1..Len(rules) : rules[i].permission # Star,
         NEW perm, NEW pat, NEW w, Decides(rules, Len(rules), perm, pat, w)
  PROVE  Evaluate(perm, pat, rules) = IF w = "none" THEN "ask" ELSE w
  <1> DEFINE Hit(r) == Matches(perm, r.permission) /\ Matches(pat, r.pattern)
             Hits(i) == i \in DOMAIN rules /\ Hit(rules[i])
                        /\ \A j \in DOMAIN rules : Hit(rules[j]) => j <= i
  <1>1. DOMAIN rules = 1..Len(rules)
    OBVIOUS
  <1>2. Evaluate(perm, pat, rules) =
          IF \E i \in DOMAIN rules : Hits(i)
            THEN rules[CHOOSE i \in DOMAIN rules : Hits(i)].action
            ELSE "ask"
    BY DEF Evaluate, IsLast
  <1>3. \A i \in 1..Len(rules) : Hit(rules[i]) <=> Applies(rules[i], perm, pat)
    BY DEF Applies, Matches
  <1> HIDE DEF Hit
  <1>4. CASE w = "none" /\ \A i \in 1..Len(rules) : ~ Applies(rules[i], perm, pat)
    BY <1>1, <1>2, <1>3, <1>4
  <1>5. CASE w # "none"
    <2>1. PICK i \in 1..Len(rules) :
             /\ Applies(rules[i], perm, pat) /\ rules[i].action = w
             /\ \A j \in 1..Len(rules) : Applies(rules[j], perm, pat) => j <= i
      BY <1>5 DEF Decides
    <2>2. i \in DOMAIN rules /\ Hits(i)
      BY <1>1, <1>3, <2>1
    <2>3. \A j \in DOMAIN rules : Hits(j) => j = i
      <3> SUFFICES ASSUME NEW j \in DOMAIN rules, Hits(j) PROVE j = i
        OBVIOUS
      <3>1. i <= j /\ j <= i
        BY <2>2
      <3>2. i \in Nat /\ j \in Nat
        BY <1>1
      <3>3. QED
        BY <3>1, <3>2
    <2> HIDE DEF Hits
    <2>4. (CHOOSE j \in DOMAIN rules : Hits(j)) = i
      BY <2>2, <2>3
    <2>5. QED
      BY <1>2, <1>5, <2>1, <2>2, <2>4
  <1>6. QED
    BY <1>4, <1>5 DEF Decides

(* About for the rules of one call.                                         *)
LEMMA AboutDecides ==
  ASSUME NEW rules, NEW n, NEW perm, NEW pat, NEW obj, About(rules, n, perm, pat, obj)
  PROVE  Distinct(obj) /\ \E w : Decides(rules, n, perm, pat, w) /\ Says(obj, Len(obj), pat, w)
  BY DEF About

(* Rules by name that are saved in two calls decide every request, read     *)
(* back, as they did before.                                                *)
LEMMA SavedSurvive ==
  ASSUME NEW rules, IsRuleset(rules), SavedShape(rules), NEW k \in 0..Len(rules),
         NEW file, file = PatchConfig(ToConfig(SubSeq(rules, 1, k)),
                                      ToConfig(SubSeq(rules, k + 1, Len(rules)))),
         NEW perm, NEW pat
  PROVE  Evaluate(perm, pat, FromConfig(file)) = Evaluate(perm, pat, rules)
  <1>1. PICK S : S = ToSet(rules)
    OBVIOUS
  <1>2. rules \in Seq(S) /\ DOMAIN rules = 1..Len(rules)
    BY <1>1 DEF IsRuleset
  <1>3. PICK Perms : Perms = {r.permission : r \in S}
    OBVIOUS
  <1>4. PICK Pats : Pats = {r.pattern : r \in S}
    OBVIOUS
  <1>5. \A r \in S : r.permission # Star /\ r.action \in Actions
    BY <1>1 DEF IsRuleset, SavedShape, ToSet
  <1>6. RulesOver(S, Perms, Pats)
    BY <1>3, <1>4, <1>5 DEF RulesOver
  <1>7. Star \notin Perms
    BY <1>3, <1>5
  <1>8. PICK a : a = SubSeq(rules, 1, k)
    OBVIOUS
  <1>9. PICK b : b = SubSeq(rules, k + 1, Len(rules))
    OBVIOUS
  <1>10. /\ a \in Seq(S) /\ b \in Seq(S) /\ Follows(rules, a, b)
         /\ SavedShape(a) /\ SavedShape(b)
    BY <1>2, <1>8, <1>9, Parts
  <1>11. PICK first : first = ToConfig(a)
    OBVIOUS
  <1>12. PICK second : second = ToConfig(b)
    OBVIOUS
  <1>13. PICK o : o = GetField(first, perm)
    OBVIOUS
  <1>14. PICK u : u = GetField(second, perm)
    OBVIOUS
  <1>15. /\ first \in Seq(Objects(Perms, Pats)) /\ Distinct(first)
         /\ o \in Seq(Fields(Pats)) /\ About(a, Len(a), perm, pat, o)
    BY <1>6, <1>10, <1>11, <1>13, ToConfigIs
  <1>16. /\ second \in Seq(Objects(Perms, Pats)) /\ Distinct(second)
         /\ u \in Seq(Fields(Pats)) /\ About(b, Len(b), perm, pat, u)
    BY <1>6, <1>10, <1>12, <1>14, ToConfigIs
  <1>17. Joins(o, u)
    BY <1>2, <1>10, <1>15, <1>16, PartsJoin
  <1>18. PICK w : Decides(a, Len(a), perm, pat, w) /\ Says(o, Len(o), pat, w)
    BY <1>15, AboutDecides
  <1>19. PICK v : Decides(b, Len(b), perm, pat, v) /\ Says(u, Len(u), pat, v)
    BY <1>16, AboutDecides
  <1>20. Distinct(o) /\ Distinct(u)
    BY <1>15, <1>16, AboutDecides
  <1>21. PICK t : t = SetFields(o, u)
    OBVIOUS
  <1>22. Says(t, Len(t), pat, Later(w, v))
    BY <1>15, <1>16, <1>17, <1>18, <1>19, <1>20, <1>21, SetFieldsSay
  <1>23. file = PatchConfig(first, second)
    BY <1>8, <1>9, <1>11, <1>12
  <1>24. /\ file \in Seq(Objects(Perms, Pats)) /\ Distinct(file)
         /\ GetField(file, perm) = t
    BY <1>13, <1>14, <1>15, <1>16, <1>21, <1>23, PatchIs
  <1>25. PICK read : read = FromConfig(file)
    OBVIOUS
  <1>26. /\ read \in Seq(RuleSet(Perms, Pats))
         /\ Decides(read, Len(read), perm, pat, Later(w, v))
    BY <1>7, <1>22, <1>24, <1>25, FromConfigIs
  <1>27. Decides(rules, Len(rules), perm, pat, Later(w, v))
    BY <1>10, <1>18, <1>19, DecidesInTurn
  <1>28. PICK action : action = IF Later(w, v) = "none" THEN "ask" ELSE Later(w, v)
    OBVIOUS
  <1>29. Evaluate(perm, pat, rules) = action
    <2>1. \A i \in 1..Len(rules) : rules[i].permission # Star
      BY <1>2 DEF SavedShape
    <2>2. QED
      BY <1>2, <1>27, <1>28, <2>1, EvaluateIs
  <1>30. Evaluate(perm, pat, read) = action
    <2>1. ASSUME NEW i \in 1..Len(read) PROVE read[i].permission # Star
      <3>1. read[i] \in RuleSet(Perms, Pats)
        BY <1>26
      <3>2. QED
        BY <1>7, <3>1 DEF RuleSet
    <2>2. QED
      BY <1>26, <1>28, <2>1, EvaluateIs
  <1>31. QED
    BY <1>25, <1>29, <1>30

(* Whatever the rules and however they are spread over the two calls.       *)
THEOREM SavedRulesMeanTheSame ==
  ASSUME NEW rules, IsRuleset(rules), NEW Perms, NEW Pats
  PROVE  SavedRulesSurvive(Perms, Pats, rules)
  BY SavedSurvive DEF SavedRulesSurvive

(* What is saved of the rules of a project while it runs means the same to  *)
(* the next process, which reads it from the configuration file             *)
(* (permission/index.ts toConfig, fromConfig; config/config.ts patchJsonc). *)
THEOREM FilesMeanTheSame == Spec => []FileMeansTheSame
  <1>1. Init => RulesInv
    BY AllowAllIsRuleset DEF Init, RulesInv
  <1>2. IInv /\ RulesInv /\ [Next]_vars => RulesInv'
    BY RulesetNext, NamedNext DEF RulesInv
  <1>3. RulesInv => FileMeansTheSame
    BY SavedRulesMeanTheSame DEF RulesInv, FileMeansTheSame
  <1>4. QED
    BY <1>1, <1>2, <1>3, Invariance, PTL DEF Spec

----------------------------------------------------------------------------
(* Rules *)

(* For any list of rules: a tool that is hidden from the model is one whose *)
(* every request would be denied (permission/index.ts disabled, permission/ *)
(* evaluate.ts).                                                            *)
THEOREM HiddenIsDenied ==
  ASSUME NEW Perms, NEW Pats,
         NEW rules \in Seq(RuleSet(Perms \cup {Star}, Pats \cup {Star}))
  PROVE  DisabledIsDenied(Perms, Pats, rules)
  <1> SUFFICES ASSUME NEW perm \in Perms, NEW pat \in Pats, Disabled(perm, rules)
               PROVE  Evaluate(perm, pat, rules) = "deny"
    BY DEF DisabledIsDenied
  <1>1. PICK i \in DOMAIN rules :
          /\ Matches(perm, rules[i].permission)
          /\ \A j \in DOMAIN rules : Matches(perm, rules[j].permission) => j <= i
          /\ rules[i].pattern = Star /\ rules[i].action = "deny"
    BY DEF Disabled, IsLast
  <1>2. DOMAIN rules \subseteq Nat
    OBVIOUS
  <1>3. Matches(pat, rules[i].pattern)
    BY <1>1 DEF Matches
  <1> DEFINE Hit(r) == Matches(perm, r.permission) /\ Matches(pat, r.pattern)
             Chosen(j) == j \in DOMAIN rules /\ Hit(rules[j])
                          /\ \A k \in DOMAIN rules : Hit(rules[k]) => k <= j
  <1>4. \A j \in DOMAIN rules : Chosen(j) <=> j = i
    BY <1>1, <1>2, <1>3
  <1>5. Evaluate(perm, pat, rules) =
          IF \E j \in DOMAIN rules : Chosen(j)
            THEN rules[CHOOSE j \in DOMAIN rules : Chosen(j)].action
            ELSE "ask"
    BY DEF Evaluate, IsLast
  <1> HIDE DEF Chosen
  <1>6. (CHOOSE j \in DOMAIN rules : Chosen(j)) = i
    BY <1>4
  <1>7. QED
    BY <1>1, <1>4, <1>5, <1>6

=============================================================================
