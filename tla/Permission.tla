---------------------------- MODULE Permission -----------------------------
(***************************************************************************)
(* The permission broker (permission/index.ts, kilocode/permission/        *)
(* drain.ts).  A tool's fiber asks; when the rules do not decide, the ask  *)
(* is pending until it is replied to, or until an answer to ANOTHER ask, a *)
(* saved rule or "allow everything" settles it as well.                    *)
(*                                                                         *)
(* Every `yield*` is a point where another fiber may run, so an operation  *)
(* claims an ask (deletes it from the map), and settles its Deferred in a  *)
(* later step.  A loop over the map visits the entries that are there when *)
(* it comes to them, in an order that is left open.                        *)
(***************************************************************************)
EXTENDS PermissionRules

CONSTANTS
  Asks,       \* the calls of ask
  Ops,        \* the calls of reply, saveAlwaysRules and allowEverything
  Requests,   \* what may be asked: [session, permission, patterns, always,
              \* protected, ruleset]; `always` also stands for metadata.rules
  Kinds,      \* the operations that may be called
  None

OpKinds == {"once", "always", "reject", "save", "everything", "nothing"}

ASSUME KindsAssumption == Kinds \subseteq OpKinds
ASSUME NoneAssumption == None \notin Asks \cup {r.session : r \in Requests}
ASSUME RequestsAssumption ==
  /\ Requests # {}
  /\ \A r \in Requests : /\ r.protected \in BOOLEAN
                         /\ r.always \in Seq(ToSet(r.always))
                         /\ IsRuleset(r.ruleset)

VARIABLES
  ask,        \* where each call of ask is
  request,    \* its input
  deferred,   \* its Deferred
  pending,    \* the asks in state.pending
  approved,   \* state.approved, in order
  session,    \* the sessions for which everything is allowed (state.session)
  pc,         \* where each operation is
  op,         \* its kind and arguments
  claim,      \* the ask it has taken out of pending and not settled yet
  verdict,    \* what it will settle that ask with
  seen,       \* the entries its loop has visited
  by,         \* history: what settled an ask
  swept       \* history: the pending asks when the operation began

vars == <<ask, request, deferred, pending, approved, session, pc, op, claim,
          verdict, seen, by, swept>>

Sessions == {r.session : r \in Requests}
Sources == {"none", "reply", "cascade", "always", "drain", "named", "everything"}
NoCall == [kind |-> "once", ask |-> None, session |-> None]
Call == [kind : OpKinds, ask : Asks \cup {None}, session : Sessions \cup {None}]

TypeOK ==
  /\ ask \in [Asks -> {"new", "asking", "waiting", "returned"}]
  /\ request \in [Asks -> Requests]
  /\ deferred \in [Asks -> {"open", "allowed", "rejected"}]
  /\ pending \subseteq Asks
  /\ session \subseteq Sessions
  /\ pc \in [Ops -> {"new", "settle", "loop", "persist", "done"}]
  /\ op \in [Ops -> Call]
  /\ claim \in [Ops -> Asks \cup {None}]
  /\ verdict \in [Ops -> {"allowed", "rejected"}]
  /\ seen \in [Ops -> SUBSET Asks]
  /\ by \in [Asks -> Sources]
  /\ swept \in [Ops -> SUBSET Asks]

Init ==
  /\ ask = [a \in Asks |-> "new"]
  /\ request = [a \in Asks |-> CHOOSE r \in Requests : TRUE]
  /\ deferred = [a \in Asks |-> "open"]
  /\ pending = {}
  /\ approved = <<>>
  /\ session = {}
  /\ pc = [o \in Ops |-> "new"]
  /\ op = [o \in Ops |-> NoCall]
  /\ claim = [o \in Ops |-> None]
  /\ verdict = [o \in Ops |-> "allowed"]
  /\ seen = [o \in Ops |-> {}]
  /\ by = [a \in Asks |-> "none"]
  /\ swept = [o \in Ops |-> {}]

----------------------------------------------------------------------------
(* ask *)

askVars == <<approved, session, pc, op, claim, verdict, seen, by, swept>>

AllowAll == [permission |-> Star, pattern |-> Star, action |-> "allow"]

Verdicts(r, rules) == {Evaluate(r.permission, p, rules) : p \in r.patterns}

LocalRules(s) == IF s \in session THEN <<AllowAll>> ELSE <<>>

(* ask is called with r.  The rules decide, or it has to go to the user:    *)
(* configuration files are asked for even where a rule allows them.         *)
AskEvaluate(a, r) ==
  LET v == Verdicts(r, r.ruleset \o approved \o LocalRules(r.session))
  IN /\ ask[a] = "new"
     /\ request' = [request EXCEPT ![a] = r]
     /\ \/ /\ "deny" \in v \/ (v \subseteq {"allow"} /\ ~ r.protected)
           /\ ask' = [ask EXCEPT ![a] = "returned"]
        \/ /\ ~ ("deny" \in v \/ (v \subseteq {"allow"} /\ ~ r.protected))
           /\ ask' = [ask EXCEPT ![a] = "asking"]
     /\ UNCHANGED <<deferred, pending, askVars>>

AskStore(a) ==
  /\ ask[a] = "asking"
  /\ ask' = [ask EXCEPT ![a] = "waiting"]
  /\ pending' = pending \cup {a}
  /\ UNCHANGED <<request, deferred, askVars>>

(* The Deferred is settled; the ensuring clause takes the ask out of the    *)
(* map, where it no longer is.                                              *)
AskReturns(a) ==
  /\ ask[a] = "waiting"
  /\ deferred[a] # "open"
  /\ ask' = [ask EXCEPT ![a] = "returned"]
  /\ pending' = pending \ {a}
  /\ UNCHANGED <<request, deferred, askVars>>

(* The session is cancelled: the ensuring clause takes the ask out of the   *)
(* map unless an operation has claimed it already.                          *)
AskInterrupted(a) ==
  /\ ask[a] \in {"asking", "waiting"}
  /\ ask' = [ask EXCEPT ![a] = "returned"]
  /\ pending' = pending \ {a}
  /\ UNCHANGED <<request, deferred, askVars>>

----------------------------------------------------------------------------
(* reply, saveAlwaysRules, allowEverything *)

Begin(o, call, next, taken) ==
  /\ pc[o] = "new"
  /\ call.kind \in Kinds
  /\ op' = [op EXCEPT ![o] = call]
  /\ pc' = [pc EXCEPT ![o] = next]
  /\ claim' = [claim EXCEPT ![o] = taken]
  /\ verdict' = [verdict EXCEPT ![o] = IF call.kind = "reject" THEN "rejected"
                                                               ELSE "allowed"]
  /\ pending' = pending \ {taken}
  /\ swept' = [swept EXCEPT ![o] = IF call.kind \in {"reject", "save"} THEN pending ELSE @]

(* A call that has nothing to settle is over at once. *)
Ineffective(o, kind) ==
  /\ pc[o] = "new"
  /\ kind \in Kinds
  /\ pc' = [pc EXCEPT ![o] = "done"]
  /\ UNCHANGED <<op, claim, verdict, pending, swept>>

(* reply: the ask is claimed at once; the second reply finds nothing. *)
Reply(o, a, kind) ==
  /\ kind \in {"once", "always", "reject"}
  /\ LET call == [kind |-> kind, ask |-> a, session |-> request[a].session]
     IN IF a \in pending THEN Begin(o, call, "settle", a)
                         ELSE Ineffective(o, kind)
  /\ UNCHANGED <<ask, request, deferred, approved, session, seen, by>>

RulesFor(r, pats, action) ==
  [i \in DOMAIN pats |->
     [permission |-> r.permission, pattern |-> pats[i], action |-> action]]

(* Only patterns the request has offered become rules, in its order. *)
NewRules(r, yes, no) ==
  LET Chosen(p, pats, action) == IF p \in pats THEN RulesFor(r, <<p>>, action) ELSE <<>>
  IN FlattenSeq([i \in DOMAIN r.always |->
       Chosen(r.always[i], yes, "allow") \o Chosen(r.always[i], no, "deny")])

(* saveAlwaysRules: the ask itself stays pending. *)
Save(o, a, yes, no) ==
  LET r == request[a]
      new == NewRules(r, yes, no)
      call == [kind |-> "save", ask |-> a, session |-> None]
  IN /\ IF a \in pending /\ ~ r.protected
          THEN /\ Begin(o, call, IF new # <<>> THEN "persist" ELSE "loop", None)
               /\ approved' = approved \o new
          ELSE Ineffective(o, "save") /\ UNCHANGED approved
     /\ UNCHANGED <<ask, request, deferred, session, seen, by>>

(* allowEverything, enabled: for one session or for all; a request may be   *)
(* named to be answered first.                                              *)
Everything(o, s, a) ==
  LET call == [kind |-> "everything", ask |-> a, session |-> s]
      named == a \in pending /\ s \in {None, request[a].session}
  IN /\ IF named THEN Begin(o, call, "settle", a) ELSE Begin(o, call, "loop", None)
     /\ session' = IF s = None THEN session ELSE session \cup {s}
     /\ approved' = IF s = None THEN Append(approved, AllowAll) ELSE approved
     /\ UNCHANGED <<ask, request, deferred, seen, by>>

(* allowEverything, disabled: the last such rule is taken back. *)
Nothing(o, s) ==
  LET i == SelectLastInSeq(approved, LAMBDA r : r = AllowAll)
  IN /\ Ineffective(o, "nothing")
     /\ session' = session \ {s}
     /\ approved' = IF s = None /\ i # 0 THEN RemoveAt(approved, i) ELSE approved
     /\ UNCHANGED <<ask, request, deferred, seen, by>>

(* What a loop does with the entry a. *)
Covered(a) == Verdicts(request[a], request[a].ruleset \o approved)

(* Mutants: the loops spare no configuration file; the drain ignores what   *)
(* the user has denied.                                                     *)
TakesProtected(o, a) ==
  CASE op[o].kind = "reject" -> request[a].session = op[o].session
    [] op[o].kind = "always" -> /\ request[a].session = op[o].session
                                /\ Covered(a) \subseteq {"allow"}
    [] op[o].kind = "save" -> /\ a # op[o].ask
                              /\ "deny" \in Covered(a) \/ Covered(a) \subseteq {"allow"}
    [] OTHER -> op[o].session \in {None, request[a].session}

TakesAllowed(o, a) ==
  CASE op[o].kind = "reject" -> request[a].session = op[o].session
    [] op[o].kind = "always" -> /\ request[a].session = op[o].session
                                /\ Covered(a) \subseteq {"allow"}
    [] op[o].kind = "save" -> /\ a # op[o].ask /\ ~ request[a].protected
                              /\ Covered(a) \subseteq {"allow"}
    [] OTHER -> /\ op[o].session \in {None, request[a].session}
                /\ ~ request[a].protected

(* Which entries the loop of an operation settles: the session of a         *)
(* rejection, what an "always" or a saved rule now decides, everything.     *)
Takes(o, a) ==
  CASE op[o].kind = "reject" -> request[a].session = op[o].session
    [] op[o].kind = "always" -> /\ request[a].session = op[o].session
                                /\ Covered(a) \subseteq {"allow"}
    [] op[o].kind = "save" -> /\ a # op[o].ask /\ ~ request[a].protected
                              /\ "deny" \in Covered(a) \/ Covered(a) \subseteq {"allow"}
    [] OTHER -> /\ op[o].session \in {None, request[a].session}
                /\ ~ request[a].protected

Decision(o, a) ==
  IF op[o].kind = "reject" \/ (op[o].kind = "save" /\ "deny" \in Covered(a))
    THEN "rejected" ELSE "allowed"

Source(o) ==
  CASE op[o].kind = "reject" -> "cascade"
    [] op[o].kind = "save" -> "drain"
    [] OTHER -> op[o].kind

(* Deferred.succeed and Deferred.fail do nothing to a settled Deferred. *)
CompleteClaim(o, source) ==
  LET a == claim[o]
  IN /\ deferred' = [deferred EXCEPT ![a] = IF @ = "open" THEN verdict[o] ELSE @]
     /\ by' = [by EXCEPT ![a] = IF deferred[a] = "open" THEN source ELSE @]
     /\ claim' = [claim EXCEPT ![o] = None]

(* Mutant: a rejection does not go on to the others. *)
SettleNamedOnly(o) ==
  /\ pc[o] = "settle"
  /\ CompleteClaim(o, IF op[o].kind = "everything" THEN "named" ELSE "reply")
  /\ pc' = [pc EXCEPT ![o] = IF op[o].kind = "everything" THEN "loop" ELSE "done"]
  /\ UNCHANGED <<ask, request, pending, approved, session, op, verdict, seen, swept>>

(* The ask the operation was called for: "always" adds its rules, except    *)
(* for configuration files, and goes on to the others.                      *)
SettleNamed(o) ==
  LET r == request[op[o].ask]
      saves == op[o].kind = "always" /\ ~ r.protected
  IN /\ pc[o] = "settle"
     /\ CompleteClaim(o, IF op[o].kind = "everything" THEN "named" ELSE "reply")
     /\ approved' = IF saves THEN approved \o RulesFor(r, r.always, "allow")
                             ELSE approved
     /\ pc' = [pc EXCEPT ![o] = IF saves \/ op[o].kind \in {"reject", "everything"}
                                  THEN "loop" ELSE "done"]
     /\ UNCHANGED <<ask, request, pending, session, op, verdict, seen, swept>>

VisitVars == <<ask, request, deferred, approved, session, pc, op, by, swept>>

(* Mutant: an entry stays in the map until it is settled. *)
VisitKeeps(o, a) ==
  /\ pc[o] = "loop" /\ claim[o] = None
  /\ a \in pending \ seen[o]
  /\ seen' = [seen EXCEPT ![o] = @ \cup {a}]
  /\ claim' = [claim EXCEPT ![o] = IF Takes(o, a) THEN a ELSE None]
  /\ verdict' = [verdict EXCEPT ![o] = Decision(o, a)]
  /\ UNCHANGED <<pending, VisitVars>>

(* The loop comes to an entry, and claims it if it settles it. *)
Visit(o, a) ==
  /\ pc[o] = "loop" /\ claim[o] = None
  /\ a \in pending \ seen[o]
  /\ seen' = [seen EXCEPT ![o] = @ \cup {a}]
  /\ IF Takes(o, a)
       THEN /\ claim' = [claim EXCEPT ![o] = a]
            /\ verdict' = [verdict EXCEPT ![o] = Decision(o, a)]
            /\ pending' = pending \ {a}
       ELSE UNCHANGED <<claim, verdict, pending>>
  /\ UNCHANGED VisitVars

SettleVisited(o) ==
  /\ pc[o] = "loop" /\ claim[o] # None
  /\ CompleteClaim(o, Source(o))
  /\ UNCHANGED <<ask, request, pending, approved, session, pc, op, verdict, seen, swept>>

LoopEnds(o) ==
  /\ pc[o] = "loop" /\ claim[o] = None
  /\ pending \subseteq seen[o]
  /\ pc' = [pc EXCEPT ![o] = IF op[o].kind = "always" /\ request[op[o].ask].always # <<>>
                               THEN "persist" ELSE "done"]
  /\ seen' = [seen EXCEPT ![o] = {}]
  /\ verdict' = [verdict EXCEPT ![o] = "allowed"]
  /\ UNCHANGED <<ask, request, deferred, pending, approved, session, op, claim,
                 by, swept>>

(* The rules have been written to the configuration file: the last step of  *)
(* an "always", and what a save does before it drains.                      *)
Persisted(o) ==
  /\ pc[o] = "persist"
  /\ pc' = [pc EXCEPT ![o] = IF op[o].kind = "save" THEN "loop" ELSE "done"]
  /\ UNCHANGED <<ask, request, deferred, pending, approved, session, op, claim,
                 verdict, seen, by, swept>>

----------------------------------------------------------------------------

(* A client calls with the ids of asks it has seen. *)
Start(o) ==
  \/ \E a \in Asks, k \in {"once", "always", "reject"} :
       ask[a] \in {"waiting", "returned"} /\ Reply(o, a, k)
  \/ \E a \in Asks : \E yes, no \in SUBSET ToSet(request[a].always) :
       ask[a] \in {"waiting", "returned"} /\ yes \cap no = {} /\ Save(o, a, yes, no)
  \/ \E s \in Sessions \cup {None}, a \in pending \cup {None} : Everything(o, s, a)
  \/ \E s \in Sessions \cup {None} : Nothing(o, s)

OpStep(o) ==
  \/ SettleNamed(o) \/ SettleVisited(o) \/ LoopEnds(o) \/ Persisted(o)
  \/ \E a \in Asks : Visit(o, a)

AskStep(a) == AskStore(a) \/ AskReturns(a)

Next ==
  \/ \E a \in Asks, r \in Requests : AskEvaluate(a, r)
  \/ \E a \in Asks : AskStep(a) \/ AskInterrupted(a)
  \/ \E o \in Ops : Start(o) \/ OpStep(o)

Spec == Init /\ [][Next]_vars

----------------------------------------------------------------------------
(* Properties *)

(* A fiber that waits for its answer can still get it: its ask is pending,  *)
(* where clients and loops find it, or somebody is about to settle it.      *)
NoLostAsk == \A a \in Asks :
  ask[a] = "waiting" /\ deferred[a] = "open" =>
    a \in pending \/ \E o \in Ops : claim[o] = a

(* However replies, cascades and drains interleave, an ask is answered by   *)
(* one of them: no two claim it, and none claims an ask already answered.   *)
OneAnswer == \A o \in Ops : claim[o] # None =>
  /\ deferred[claim[o]] = "open"
  /\ claim[o] \notin pending
  /\ \A p \in Ops \ {o} : claim[p] # claim[o]

(* A rejection stops the session: when reply has returned, nothing that was *)
(* pending in the session when it was called is pending any more.           *)
RejectStopsSession == \A o \in Ops :
  pc[o] = "done" /\ op[o].kind = "reject" /\ op[o].ask \in swept[o] =>
    \A a \in swept[o] : request[a].session = op[o].session => a \notin pending

(* A saved rule reaches the asks of every session: when saveAlwaysRules has *)
(* returned, and nobody else has touched the rules, what was pending then   *)
(* and is pending still is the ask itself, a configuration file, or not     *)
(* decided by the rules.                                                    *)
DrainIsComplete == \A o \in Ops :
  /\ pc[o] = "done" /\ op[o].kind = "save" /\ op[o].ask \in swept[o]
  /\ ~ request[op[o].ask].protected
  /\ \A p \in Ops \ {o} : pc[p] = "new"
  => \A a \in swept[o] \cap pending :
       \/ a = op[o].ask \/ request[a].protected
       \/ "ask" \in Covered(a) /\ "deny" \notin Covered(a)

(* Configuration files are edited only on a reply to an ask: no saved rule  *)
(* and no "allow everything" lets an edit through that was pending ("Never  *)
(* auto-resolve config file edit permissions", kilocode/permission/         *)
(* drain.ts).  That a reply of "always" to ANOTHER ask of the session does, *)
(* is where the code falls short of that comment.                           *)
ConfigNeedsReply == \A a \in Asks :
  request[a].protected /\ deferred[a] = "allowed" => by[a] \in {"reply", "named", "always"}

(* The rules of the project mean the same to the next process, which reads  *)
(* them from the configuration file (toConfig, patchJsonc, fromConfig).     *)
FileMeansTheSame ==
  SavedRulesSurvive({r.permission : r \in Requests}, UNION {r.patterns : r \in Requests}, approved)

============================================================================
