----------------------- MODULE TaskAndQuestionProofs -----------------------
(***************************************************************************)
(* Proofs about the tools that make a turn wait.  Subtasks, for any finite *)
(* sets of tasks and sessions: what a session has been charged for its     *)
(* subtasks is what they have cost, and is never taken back.               *)
(* TurnQuestions, for any prompts and asks: which questions may keep a     *)
(* newer prompt waiting.                                                   *)
(***************************************************************************)
EXTENDS Subtasks, TurnQuestions, FiniteSetTheorems, WellFoundedInduction, TLAPS

----------------------------------------------------------------------------
(* Sums over finite sets *)

(* A set of subsets of a finite set has one that none of them is below.     *)
LEMMA Minimal ==
  ASSUME NEW S, IsFiniteSet(S), NEW B, B \subseteq SUBSET S, B # {}
  PROVE  \E T \in B : \A x \in T : T \ {x} \notin B
<1>1. FiniteSubsetsOf(S) = SUBSET S
  BY FS_FiniteSubsetsOfFinite
<1>2. IsWellFoundedOn(StrictSubsetOrdering(S), SUBSET S)
  BY <1>1, FS_StrictSubsetOrderingWellFounded
<1>3. PICK T \in B : \A U \in B : <<U, T>> \notin StrictSubsetOrdering(S)
  BY <1>2, WFMin
<1>4. ASSUME NEW x \in T, T \ {x} \in B
      PROVE FALSE
  BY <1>3, <1>4 DEF StrictSubsetOrdering
<1> QED BY <1>4

Any(T) == CHOOSE x \in T : TRUE

(* g computes the sum of w over a set as the community modules' fold does. *)
Sums(g, w, S) ==
  g = [T \in SUBSET S |-> IF T = {} THEN 0 ELSE w[Any(T)] + g[T \ {Any(T)}]]

LEMMA SumsExist ==
  ASSUME NEW S, IsFiniteSet(S), NEW w \in [S -> Int]
  PROVE  \E g : Sums(g, w, S)
<1> DEFINE Step(g, T) == IF T = {} THEN 0 ELSE w[Any(T)] + g[T \ {Any(T)}]
           UpTo(g, n) == \A T \in SUBSET S : Cardinality(T) <= n => g[T] = Step(g, T)
           Bad == {T \in SUBSET S : ~ \E g \in [SUBSET S -> Int] : UpTo(g, Cardinality(T))}
<1>1. \A T \in SUBSET S : IsFiniteSet(T) /\ Cardinality(T) \in Nat
  BY FS_Subset, FS_CardinalityType
<1>2. \A T \in SUBSET S : Cardinality(T) = 0 <=> T = {}
  BY <1>1, FS_EmptySet
<1>3. ASSUME NEW T \in SUBSET S, NEW x \in T
      PROVE  T \ {x} \in SUBSET S /\ Cardinality(T) = Cardinality(T \ {x}) + 1
  <2>1. T \ {x} \in SUBSET S /\ Cardinality(T \ {x}) = Cardinality(T) - 1
    BY <1>1, FS_RemoveElement
  <2> QED BY <1>1, <2>1
<1>4. \A T \in SUBSET S : T # {} => Any(T) \in T
  BY DEF Any
<1>5. Bad = {}
  <2> SUFFICES ASSUME Bad # {} PROVE FALSE
    OBVIOUS
  <2>1. PICK T \in Bad : \A x \in T : T \ {x} \notin Bad
    <3> HIDE DEF Bad
    <3>1. Bad \subseteq SUBSET S
      BY DEF Bad
    <3> QED BY <3>1, Minimal
  <2>2. CASE T = {}
    <3>1. [U \in SUBSET S |-> 0] \in [SUBSET S -> Int]
      OBVIOUS
    <3>2. UpTo([U \in SUBSET S |-> 0], Cardinality(T))
      BY <1>1, <1>2, <2>2
    <3> QED BY <3>1, <3>2
  <2>3. CASE T # {}
    <3>1. PICK x : x \in T
      BY <2>3
    <3>2. PICK n : n = Cardinality(T \ {x})
      OBVIOUS
    <3>3. n \in Nat /\ Cardinality(T) = n + 1 /\ T \ {x} \in SUBSET S
      BY <1>1, <1>3, <3>1, <3>2
    <3>4. PICK g \in [SUBSET S -> Int] : UpTo(g, n)
      BY ZenonT(60), <2>1, <3>1, <3>2, <3>3
    <3> DEFINE h == [U \in SUBSET S |-> IF Cardinality(U) <= n THEN g[U] ELSE Step(g, U)]
    <3>5. h \in [SUBSET S -> Int]
      <4>1. ASSUME NEW U \in SUBSET S
            PROVE  Step(g, U) \in Int
        <5>1. U # {} => U \ {Any(U)} \in SUBSET S /\ w[Any(U)] \in Int
          BY <1>4
        <5>2. U # {} => g[U \ {Any(U)}] \in Int
          BY <5>1
        <5> QED BY <5>1, <5>2
      <4> QED BY <4>1
    <3>6. UpTo(h, n + 1)
      <4> SUFFICES ASSUME NEW U \in SUBSET S, Cardinality(U) <= n + 1
                   PROVE  h[U] = Step(h, U)
        OBVIOUS
      <4>1. h[U] = Step(g, U)
        BY <3>4
      <4>2. CASE U = {}
        BY <4>1, <4>2
      <4>3. CASE U # {}
        <5>1. PICK V : V = U \ {Any(U)}
          OBVIOUS
        <5>2. V \in SUBSET S /\ Cardinality(U) = Cardinality(V) + 1 /\ Cardinality(V) \in Nat
          BY <1>1, <1>3, <1>4, <4>3, <5>1
        <5>3. Cardinality(V) <= n
          BY <3>3, <5>2
        <5>4. h[V] = g[V]
          BY <5>2, <5>3
        <5> QED BY <4>1, <4>3, <5>1, <5>4
      <4> QED BY <4>2, <4>3
    <3> HIDE DEF h, UpTo
    <3>7. ~ \E f \in [SUBSET S -> Int] : UpTo(f, n + 1)
      BY <2>1, <3>3
    <3> QED BY <3>5, <3>6, <3>7
  <2> QED BY <2>2, <2>3
<1>6. PICK g \in [SUBSET S -> Int] : UpTo(g, Cardinality(S))
  BY <1>5
<1>7. \A T \in SUBSET S : g[T] = Step(g, T)
  BY <1>6, FS_Subset
<1>8. g = [T \in SUBSET S |-> Step(g, T)]
  BY <1>7
<1> QED BY <1>8 DEF Sums

(* What is computed is the sum: any element may be taken out of it. *)
IsSum(g, w, S) ==
  /\ g \in [SUBSET S -> Int]
  /\ g[{}] = 0
  /\ \A T \in SUBSET S : \A x \in T : g[T] = w[x] + g[T \ {x}]

LEMMA SumsAreSums ==
  ASSUME NEW S, IsFiniteSet(S), NEW w \in [S -> Int], NEW g, Sums(g, w, S)
  PROVE  IsSum(g, w, S)
<1>1. \A T \in SUBSET S : T # {} =>
         Any(T) \in T /\ w[Any(T)] \in Int /\ g[T] = w[Any(T)] + g[T \ {Any(T)}]
  BY DEF Sums, Any
<1>2. g[{}] = 0 /\ g = [T \in SUBSET S |-> g[T]]
  <2> DEFINE Step(T) == IF T = {} THEN 0 ELSE w[Any(T)] + g[T \ {Any(T)}]
  <2>1. g = [T \in SUBSET S |-> Step(T)]
    BY DEF Sums
  <2>2. Step({}) = 0
    OBVIOUS
  <2> HIDE DEF Step
  <2>3. g[{}] = 0 /\ \A T \in SUBSET S : g[T] = Step(T)
    BY <2>1, <2>2
  <2> QED BY <2>1, <2>3
<1>3. \A T \in SUBSET S : g[T] \in Int
  <2> DEFINE Bad == {T \in SUBSET S : g[T] \notin Int}
  <2> SUFFICES ASSUME Bad # {} PROVE FALSE
    OBVIOUS
  <2>1. PICK T \in Bad : \A x \in T : T \ {x} \notin Bad
    <3> HIDE DEF Bad
    <3>1. Bad \subseteq SUBSET S
      BY DEF Bad
    <3> QED BY <3>1, Minimal
  <2>2. T # {}
    <3>1. g[{}] \in Int
      BY <1>2
    <3>2. g[T] \notin Int
      BY <2>1
    <3> QED BY <3>1, <3>2
  <2>3. T \ {Any(T)} \in SUBSET S /\ g[T \ {Any(T)}] \in Int
    BY <1>1, <2>1, <2>2
  <2> QED BY <1>1, <2>1, <2>2, <2>3
<1>4. \A T \in SUBSET S : \A x \in T : g[T] = w[x] + g[T \ {x}]
  <2> DEFINE Bad == {T \in SUBSET S : \E x \in T : g[T] # w[x] + g[T \ {x}]}
  <2> SUFFICES ASSUME Bad # {} PROVE FALSE
    OBVIOUS
  <2>1. PICK T \in Bad : \A x \in T : T \ {x} \notin Bad
    <3> HIDE DEF Bad
    <3>1. Bad \subseteq SUBSET S
      BY DEF Bad
    <3> QED BY <3>1, Minimal
  <2>2. PICK x \in T : g[T] # w[x] + g[T \ {x}]
    BY <2>1
  <2>3. PICK c : c = Any(T)
    OBVIOUS
  <2>4. c \in T /\ g[T] = w[c] + g[T \ {c}] /\ c # x
    BY <1>1, <2>2, <2>3
  <2>5. g[T \ {c}] = w[x] + g[(T \ {c}) \ {x}]
    BY <2>1, <2>4
  <2>6. g[T \ {x}] = w[c] + g[(T \ {x}) \ {c}]
    BY <2>1, <2>2, <2>4
  <2>7. (T \ {x}) \ {c} = (T \ {c}) \ {x}
    OBVIOUS
  <2>8. PICK U : U = (T \ {c}) \ {x}
    OBVIOUS
  <2>9. U \in SUBSET S /\ w[x] \in Int /\ w[c] \in Int /\ g[U] \in Int
    BY <1>3, <2>4, <2>8
  <2>10. g[T] = w[c] + (w[x] + g[U]) /\ g[T \ {x}] = w[c] + g[U]
    BY <2>4, <2>5, <2>6, <2>7, <2>8
  <2> QED BY <2>2, <2>9, <2>10
<1>5. g \in [SUBSET S -> Int]
  BY <1>2, <1>3
<1> QED BY <1>2, <1>4, <1>5 DEF IsSum

(* Larger terms, larger sums. *)
LEMMA SumsGrow ==
  ASSUME NEW S, IsFiniteSet(S), NEW v \in [S -> Int], NEW w \in [S -> Int],
         NEW f, NEW g, Sums(f, v, S), Sums(g, w, S),
         NEW R \in SUBSET S, \A x \in R : v[x] <= w[x]
  PROVE  f[R] <= g[R]
<1>1. IsSum(f, v, S) /\ IsSum(g, w, S)
  BY SumsAreSums
<1>2. /\ f \in [SUBSET S -> Int] /\ f[{}] = 0
      /\ g \in [SUBSET S -> Int] /\ g[{}] = 0
  BY <1>1 DEF IsSum
<1> DEFINE Bad == {T \in SUBSET R : ~ (f[T] <= g[T])}
<1> SUFFICES ASSUME Bad # {} PROVE FALSE
  OBVIOUS
<1>3. PICK T \in Bad : \A x \in T : T \ {x} \notin Bad
  <2> HIDE DEF Bad
  <2>1. Bad \subseteq SUBSET S
    BY DEF Bad
  <2> QED BY <2>1, Minimal
<1>4. PICK x : x \in T
  <2>1. f[{}] <= g[{}]
    BY <1>2
  <2> QED BY <1>3, <2>1
<1>5. PICK U : U = T \ {x}
  OBVIOUS
<1>6. T \in SUBSET S /\ U \in SUBSET S /\ f[U] <= g[U] /\ ~ (f[T] <= g[T])
  BY <1>3, <1>4, <1>5
<1>7. f[T] = v[x] + f[U] /\ g[T] = w[x] + g[U]
  BY <1>1, <1>4, <1>5, <1>6 DEF IsSum
<1>8. /\ v[x] \in Int /\ w[x] \in Int /\ v[x] <= w[x]
      /\ f[U] \in Int /\ g[U] \in Int
  BY <1>2, <1>3, <1>4, <1>6
<1> QED BY <1>6, <1>7, <1>8

(* The sum of w over S. *)
Total(w, S) == (CHOOSE g : Sums(g, w, S))[S]

LEMMA TotalType ==
  ASSUME NEW S, IsFiniteSet(S), NEW w \in [S -> Int]
  PROVE  Total(w, S) \in Int
<1> DEFINE g == CHOOSE g : Sums(g, w, S)
<1>1. Sums(g, w, S)
  BY SumsExist
<1> HIDE DEF g
<1>2. g \in [SUBSET S -> Int]
  BY <1>1, SumsAreSums DEF IsSum
<1>3. g[S] \in Int
  BY <1>2
<1> QED BY <1>3 DEF Total, g

LEMMA TotalGrows ==
  ASSUME NEW S, IsFiniteSet(S), NEW v \in [S -> Int], NEW w \in [S -> Int],
         \A x \in S : v[x] <= w[x]
  PROVE  Total(v, S) <= Total(w, S)
<1> DEFINE f == CHOOSE f : Sums(f, v, S)
           g == CHOOSE g : Sums(g, w, S)
<1>1. Sums(f, v, S) /\ Sums(g, w, S)
  BY SumsExist
<1> HIDE DEF f, g
<1>2. f[S] <= g[S]
  BY <1>1, SumsGrow
<1> QED BY <1>2 DEF Total, f, g

(* A sum changes by as much as one of its terms. *)
LEMMA TotalChange ==
  ASSUME NEW S, IsFiniteSet(S), NEW v \in [S -> Int], NEW w \in [S -> Int],
         NEW x \in S, \A y \in S \ {x} : w[y] = v[y]
  PROVE  Total(w, S) = Total(v, S) + (w[x] - v[x])
<1> DEFINE f == CHOOSE f : Sums(f, v, S)
           g == CHOOSE g : Sums(g, w, S)
<1>1. Sums(f, v, S) /\ Sums(g, w, S)
  BY SumsExist
<1> HIDE DEF f, g
<1>2. PICK T \in SUBSET S : T = S \ {x}
  OBVIOUS
<1>3. \A y \in T : v[y] \in Int /\ w[y] \in Int /\ w[y] = v[y]
  BY <1>2
<1>4. f[T] <= g[T] /\ g[T] <= f[T]
  <2>1. f[T] <= g[T]
    BY <1>1, <1>3, SumsGrow
  <2>2. g[T] <= f[T]
    BY <1>1, <1>3, SumsGrow
  <2> QED BY <2>1, <2>2
<1>5. IsSum(f, v, S) /\ IsSum(g, w, S)
  BY <1>1, SumsAreSums
<1>6. f[S] = v[x] + f[T] /\ g[S] = w[x] + g[T]
  BY <1>2, <1>5 DEF IsSum
<1>7. v[x] \in Int /\ w[x] \in Int /\ f[T] \in Int /\ g[T] \in Int
  BY <1>5 DEF IsSum
<1>8. g[S] = f[S] + (w[x] - v[x])
  BY <1>4, <1>6, <1>7
<1> QED BY <1>8 DEF Total, f, g

LEMMA TotalZero ==
  ASSUME NEW S, IsFiniteSet(S)
  PROVE  Total([x \in S |-> 0], S) = 0
<1> DEFINE z == [x \in S |-> 0]
           g == CHOOSE g : Sums(g, z, S)
<1>1. z \in [S -> Int]
  OBVIOUS
<1>2. \A x \in S : z[x] = 0
  OBVIOUS
<1> HIDE DEF z
<1>3. Sums(g, z, S)
  BY <1>1, SumsExist
<1> HIDE DEF g
<1>4. IsSum(g, z, S)
  BY <1>1, <1>3, SumsAreSums
<1> DEFINE Bad == {T \in SUBSET S : g[T] # 0}
<1>5. Bad = {}
  <2> SUFFICES ASSUME Bad # {} PROVE FALSE
    OBVIOUS
  <2>1. PICK T \in Bad : \A x \in T : T \ {x} \notin Bad
    <3> HIDE DEF Bad
    <3>1. Bad \subseteq SUBSET S
      BY DEF Bad
    <3> QED BY <3>1, Minimal
  <2>2. PICK x : x \in T
    BY <1>4, <2>1 DEF IsSum
  <2>3. g[T \ {x}] = 0
    BY <2>1, <2>2
  <2>4. z[x] = 0 /\ g[T] = z[x] + g[T \ {x}]
    BY <1>2, <1>4, <2>1, <2>2 DEF IsSum
  <2> QED BY <2>1, <2>3, <2>4
<1>6. g[S] = 0
  BY <1>5
<1> QED BY <1>6 DEF Total, z, g

(* What a child has cost. *)
Spending == [s \in Sessions |-> child[s] - base[s]]

LEMMA SpentIsTotal == TypeOK => Spent = own + Total(Spending, Sessions)
<1> SUFFICES ASSUME TypeOK PROVE Spent = own + Total(Spending, Sessions)
  OBVIOUS
<1> DEFINE h == CHOOSE iter : iter = [s \in SUBSET Sessions |->
                   IF s = {} THEN 0
                   ELSE (child[CHOOSE x \in s : TRUE] - base[CHOOSE x \in s : TRUE]) + iter[s \ {CHOOSE x \in s : TRUE}]]
           g == CHOOSE g : Sums(g, Spending, Sessions)
<1>1. Spent = own + h[Sessions] /\ own \in Nat
  BY DEF Spent, MapThenSumSet, MapThenFoldSet, TypeOK
<1>2. Spending \in [Sessions -> Int]
  <2>1. \A s \in Sessions : child[s] \in Int /\ base[s] \in Int
    BY BoundsAssumption DEF TypeOK
  <2> QED BY <2>1 DEF Spending
<1>3. Sums(g, Spending, Sessions)
  BY <1>2, FiniteAssumption, SumsExist
<1>4. \A T \in SUBSET Sessions : T # {} =>
         Spending[Any(T)] = child[CHOOSE x \in T : TRUE] - base[CHOOSE x \in T : TRUE]
  BY DEF Spending, Any
<1>5. Sums(h, Spending, Sessions)
  <2>1. g = [s \in SUBSET Sessions |->
                   IF s = {} THEN 0
                   ELSE (child[CHOOSE x \in s : TRUE] - base[CHOOSE x \in s : TRUE]) + g[s \ {CHOOSE x \in s : TRUE}]]
    <3> HIDE DEF g
    <3> QED BY <1>3, <1>4 DEF Sums, Any
  <2>2. h = [s \in SUBSET Sessions |->
                   IF s = {} THEN 0
                   ELSE (child[CHOOSE x \in s : TRUE] - base[CHOOSE x \in s : TRUE]) + h[s \ {CHOOSE x \in s : TRUE}]]
    <3> HIDE DEF g
    <3> QED BY <2>1
  <2> HIDE DEF h
  <2> QED BY <1>4, <2>2 DEF Sums, Any
<1> HIDE DEF g, h
<1>6. h[Sessions] <= g[Sessions] /\ g[Sessions] <= h[Sessions]
  <2>1. \A s \in Sessions : Spending[s] <= Spending[s]
    BY <1>2
  <2> QED BY <1>2, <1>3, <1>5, <2>1, FiniteAssumption, SumsGrow
<1>7. h[Sessions] \in Int /\ g[Sessions] \in Int
  <2>1. IsSum(h, Spending, Sessions) /\ IsSum(g, Spending, Sessions)
    BY <1>2, <1>3, <1>5, FiniteAssumption, SumsAreSums
  <2> QED BY <2>1 DEF IsSum
<1> QED BY <1>1, <1>6, <1>7 DEF Total, g

----------------------------------------------------------------------------
(* The inductive invariant *)

Leads(q, t) == q # <<>> /\ Head(q) = t
Distinct(q) == \A i, j \in DOMAIN q : q[i] = q[j] => i = j

(* Of calls and the sessions they prompt. *)
CallsInv ==
  /\ \A s \in Sessions : base[s] <= child[s]
  /\ \A t \in Listening : base[childOf[t]] <= before[t] /\ before[t] <= child[childOf[t]]
  /\ \A s \in Sessions : \A i \in DOMAIN prompts[s] :
       childOf[prompts[s][i]] = s /\ stage[prompts[s][i]] # "none"
  /\ mode = "step" \/ ~ interrupted =>
       \A s \in Sessions : /\ Distinct(prompts[s])
                           /\ \A i \in DOMAIN prompts[s] : stage[prompts[s][i]] = "prompting"
  /\ ~ shared => \A t, u \in Listening : childOf[t] = childOf[u] => t = u

(* The lock of the message: who writes holds it and knows what is stored.   *)
LineInv ==
  /\ Distinct(line)
  /\ \A t \in Tasks : stage[t] = "writing" =>
       Leads(line, t) /\ seen[t] = cost /\ phase # "saving"

(* A step's cost is in the copy until it is stored. *)
StepInv ==
  /\ phase \in {"tracking", "retrying", "saving"} => mode = "step"
  /\ phase = "retrying" => attempt < MaxAttempts
  /\ mode = "step" =>
       /\ interrupted => phase \in {"waiting", "saving", "ended"}
       /\ phase \in {"working", "retrying"} => own = 0
       /\ phase = "tracking" => own # 0 /\ (~ overtaken => copy >= cost)
       /\ phase = "saving" => copy >= cost

(* A command is one call of one fresh session. *)
CommandInv == mode = "command" =>
  /\ own = 0 /\ copy = 0 /\ ~ shared /\ ~ overtaken
  /\ \A t, u \in Tasks : stage[t] # "none" /\ stage[u] # "none" => t = u
  /\ \A s \in Sessions : base[s] = 0
  /\ \A s \in Sessions : child[s] # 0 => \E t \in Tasks : stage[t] # "none" /\ childOf[t] = s
  /\ (\A t \in Tasks : stage[t] # "over") => cost = 0
  /\ \A t \in Tasks : stage[t] = "over" => cost <= child[childOf[t]]
  /\ \A t \in Tasks : stage[t] \in {"locking", "writing"} => amount[t] <= child[childOf[t]]

(* What is claimed and not yet written. *)
Owed == [t \in Tasks |-> IF stage[t] \in {"locking", "writing"} THEN amount[t] ELSE 0]

(* Of each session at most h was claimed, and calls at work begin after it. *)
AtMost(h) ==
  /\ \A s \in Sessions : base[s] + h[s] <= child[s]
  /\ \A t \in Listening : base[childOf[t]] + h[childOf[t]] <= before[t]
  /\ cost + Total(Owed, Tasks) <= own + Total(h, Sessions)
  /\ copy + Total(Owed, Tasks) <= own + Total(h, Sessions)

(* What has been counted, stored or about to be. *)
Counted == IF Unstored THEN copy ELSE cost

(* Of each session at least h was claimed, and a call at work claims what   *)
(* it has cost since.                                                       *)
AtLeast(h) ==
  /\ \A s \in Sessions :
       \/ child[s] <= base[s] + h[s]
       \/ \E t \in Listening : childOf[t] = s /\ before[t] <= base[s] + h[s]
  /\ Counted + Total(Owed, Tasks) >= own + Total(h, Sessions)

CostInv ==
  /\ ~ shared => \E h \in [Sessions -> Nat] : AtMost(h)
  /\ ~ overtaken /\ (mode = "step" \/ ~ interrupted) => \E h \in [Sessions -> Nat] : AtLeast(h)

IInv == TypeOK /\ CallsInv /\ LineInv /\ StepInv /\ CommandInv /\ CostInv

----------------------------------------------------------------------------
(* The types *)

Actions(t) ==
  \/ Call(t) \/ Refuse(t) \/ Begin(t) \/ Enqueue(t) \/ Fail(t) \/ Release(t) \/ Read(t)
  \/ Write(t) \/ Cancel(t) \/ InterruptCommand(t) \/ Record(t)

StepActions == FinishStep \/ StoreStep \/ Break \/ Retry \/ Interrupt \/ Reconcile \/ Save

InLine == {"locking", "writing"}

(* What the line and the stages say of each other. *)
LineMatches == \A t \in Tasks : (\E i \in DOMAIN line : line[i] = t) <=> stage[t] \in InLine

LEMMA InitTypes == Init => TypeOK
<1> SUFFICES ASSUME Init PROVE TypeOK
  OBVIOUS
<1> USE BoundsAssumption
<1>1. /\ mode \in {"step", "command"} /\ phase \in Phases
      /\ copy \in Nat /\ cost \in Nat /\ own \in Nat /\ interrupted \in BOOLEAN
      /\ cancels \subseteq Tasks /\ childOf \in [Tasks -> Sessions]
      /\ shared \in BOOLEAN /\ overtaken \in BOOLEAN
  BY DEF Init, Phases
<1>0. attempt \in 1..MaxAttempts
  BY DEF Init
<1>2. /\ stage \in [Tasks -> Stages] /\ of \in [Tasks -> 0..MaxAttempts]
      /\ before \in [Tasks -> Nat] /\ amount \in [Tasks -> Nat] /\ seen \in [Tasks -> Nat]
  BY DEF Init, Stages
<1>3. line \in Seq(Tasks) /\ prompts \in [Sessions -> Seq(Tasks)]
  BY DEF Init
<1>4. base \in [Sessions -> 0..1]
  BY DEF Init
<1>5. child \in [Sessions -> 0..MaxCost]
  BY <1>4 DEF Init
<1>6. \A t \in Tasks : (\E i \in DOMAIN line : line[i] = t) <=> stage[t] \in {"locking", "writing"}
  BY DEF Init
<1> QED BY <1>0, <1>1, <1>2, <1>3, <1>4, <1>5, <1>6 DEF TypeOK

LEMMA NextTypes == TypeOK /\ CallsInv /\ LineInv /\ StepInv /\ [Next]_vars => TypeOK'
<1> SUFFICES ASSUME TypeOK, CallsInv, LineInv, StepInv, [Next]_vars PROVE TypeOK'
  OBVIOUS
<1> USE BoundsAssumption
<1>1. ASSUME NEW t \in Tasks, Call(t) PROVE TypeOK'
  <2>1. /\ stage' = [stage EXCEPT ![t] = "preparing"] /\ of' = [of EXCEPT ![t] = attempt]
        /\ stage[t] = "none"
        /\ UNCHANGED <<mode, phase, attempt, copy, own, interrupted, cost, before, amount, seen, line,
                       prompts, child, cancels, base, childOf, shared, overtaken>>
    BY <1>1 DEF Call, Move, books, children, history
  <2>2. attempt \in 0..MaxAttempts
    BY DEF TypeOK
  <2>3. of' \in [Tasks -> 0..MaxAttempts] /\ stage' \in [Tasks -> Stages]
    BY <2>1, <2>2 DEF TypeOK, Stages
  <2>4. \A u \in Tasks : stage'[u] \in InLine <=> stage[u] \in InLine
    BY <2>1 DEF TypeOK, InLine
  <2> QED BY <2>1, <2>3, <2>4 DEF TypeOK, InLine
<1>2. ASSUME NEW t \in Tasks, Refuse(t) PROVE TypeOK'
  BY <1>2 DEF Refuse, Move, TypeOK, Stages, books, children, history, parent
<1>3. ASSUME NEW t \in Tasks, Begin(t) PROVE TypeOK'
  <2>1. /\ stage' = [stage EXCEPT ![t] = "entering"] /\ stage[t] = "preparing"
        /\ before' = [before EXCEPT ![t] = child[childOf[t]]] /\ shared' \in BOOLEAN
        /\ UNCHANGED <<mode, phase, attempt, copy, own, interrupted, of, cost, amount, seen, line,
                       prompts, child, cancels, base, childOf, overtaken>>
    BY <1>3 DEF Begin, Move, parent, children, TypeOK
  <2>2. child[childOf[t]] \in Nat
    BY DEF TypeOK
  <2> QED BY <2>1, <2>2 DEF TypeOK, Stages
<1>4. ASSUME NEW t \in Tasks, Enqueue(t) PROVE TypeOK'
  <2>1. /\ stage' = [stage EXCEPT ![t] = "prompting"] /\ stage[t] = "entering"
        /\ prompts' = [prompts EXCEPT ![childOf[t]] = Append(@, t)]
        /\ UNCHANGED <<mode, phase, attempt, copy, own, interrupted, of, cost, before, amount, seen, line,
                       child, cancels, base, childOf, shared, overtaken>>
    BY <1>4 DEF Enqueue, Move, parent, books, history
  <2>2. childOf[t] \in Sessions /\ Append(prompts[childOf[t]], t) \in Seq(Tasks)
    BY DEF TypeOK
  <2>3. prompts' \in [Sessions -> Seq(Tasks)]
    BY <2>1, <2>2 DEF TypeOK
  <2> QED BY <2>1, <2>3 DEF TypeOK, Stages
<1>5. ASSUME NEW t \in Tasks, Fail(t) PROVE TypeOK'
  BY <1>5 DEF Fail, Move, TypeOK, Stages, books, children, history, parent
<1>6. ASSUME NEW t \in Tasks, Release(t) PROVE TypeOK'
  <2> DEFINE delta == child[childOf[t]] - before[t]
  <2>1. delta \in Nat
    <3>1. child[childOf[t]] \in Nat /\ before[t] \in Nat /\ before[t] <= child[childOf[t]]
      BY <1>6 DEF Release, Move, CallsInv, Listening, TypeOK
    <3> QED BY <3>1
  <2>2. /\ stage[t] = "returned" /\ amount' = [amount EXCEPT ![t] = delta]
        /\ stage' = [stage EXCEPT ![t] = IF delta > 0 THEN "locking" ELSE "over"]
        /\ line' = IF delta > 0 THEN Append(line, t) ELSE line
        /\ UNCHANGED <<mode, phase, attempt, copy, own, interrupted, of, cost, before, seen, prompts,
                       child, cancels, base, childOf, shared, overtaken>>
    BY <1>6 DEF Release, Move, parent, children, history
  <2> HIDE DEF delta
  <2>3. amount' \in [Tasks -> Nat] /\ stage' \in [Tasks -> Stages]
    BY <2>1, <2>2 DEF TypeOK, Stages
  <2>4. line' \in Seq(Tasks) /\ LineMatches'
    <3>1. CASE delta > 0
      <4>1. /\ line' = Append(line, t) /\ line \in Seq(Tasks)
            /\ stage' = [stage EXCEPT ![t] = "locking"]
        BY <3>1, <2>2 DEF TypeOK
      <4>2. /\ line' \in Seq(Tasks) /\ DOMAIN line' = 1..(Len(line) + 1) /\ DOMAIN line = 1..Len(line)
            /\ line'[Len(line) + 1] = t /\ Len(line) \in Nat
            /\ \A i \in DOMAIN line : i \in DOMAIN line' /\ line'[i] = line[i]
        BY <4>1
      <4>3. \A i \in DOMAIN line' : i \in DOMAIN line \/ i = Len(line) + 1
        BY <4>2
      <4>4. \A u \in Tasks : stage'[u] = IF u = t THEN "locking" ELSE stage[u]
        BY <4>1 DEF TypeOK
      <4>5. \A u \in Tasks : (\E i \in DOMAIN line' : line'[i] = u) <=> u = t \/ \E j \in DOMAIN line : line[j] = u
        <5>1. Len(line) + 1 \in DOMAIN line'
          BY <4>2
        <5> QED BY <4>2, <4>3, <5>1
      <4> QED BY <4>2, <4>4, <4>5 DEF TypeOK, LineMatches, InLine
    <3>2. CASE ~ (delta > 0)
      BY <3>2, <2>2 DEF TypeOK, LineMatches, InLine
    <3> QED BY <3>1, <3>2
  <2> QED BY <2>2, <2>3, <2>4 DEF TypeOK, LineMatches, InLine
<1>7. ASSUME NEW t \in Tasks, Read(t) PROVE TypeOK'
  BY <1>7 DEF Read, Move, TypeOK, Stages, books, children, history, parent
<1>8. ASSUME NEW t \in Tasks, Write(t) PROVE TypeOK'
  <2>1. /\ stage' = [stage EXCEPT ![t] = "over"] /\ stage[t] = "writing"
        /\ cost' = seen[t] + amount[t] /\ line' = Tail(line)
        /\ UNCHANGED <<mode, phase, attempt, copy, own, interrupted, of, before, amount, seen, prompts,
                       child, cancels, base, childOf, shared>>
    BY <1>8 DEF Write, Move, parent, books, children
  <2>2. cost' \in Nat /\ stage' \in [Tasks -> Stages] /\ overtaken' \in BOOLEAN
    <3>1. seen[t] \in Nat /\ amount[t] \in Nat
      BY DEF TypeOK
    <3>2. cost' \in Nat
      BY <2>1, <3>1
    <3>3. stage' \in [Tasks -> Stages]
      BY <2>1 DEF TypeOK, Stages
    <3>4. overtaken' \in BOOLEAN
      BY <1>8 DEF TypeOK, Write
    <3> QED BY <3>2, <3>3, <3>4
  <2>3. line' \in Seq(Tasks) /\ LineMatches'
    <3>1. line # <<>> /\ line \in Seq(Tasks) /\ line[1] = t /\ Distinct(line)
      BY <2>1 DEF LineInv, Leads, TypeOK
    <3>2. /\ line' \in Seq(Tasks) /\ DOMAIN line = 1..Len(line) /\ Len(line) \in Nat \ {0}
          /\ DOMAIN line' = 1..(Len(line) - 1)
          /\ \A i \in 1..(Len(line) - 1) : line'[i] = line[i + 1]
      BY <2>1, <3>1
    <3>3. \A i \in DOMAIN line' : i + 1 \in DOMAIN line /\ line'[i] = line[i + 1] /\ i + 1 # 1 /\ 1 \in DOMAIN line
      BY <3>2
    <3>4. \A j \in DOMAIN line : j = 1 \/ (j - 1 \in DOMAIN line' /\ line'[j - 1] = line[j])
      BY <3>2
    <3>5. \A u \in Tasks : (\E i \in DOMAIN line' : line'[i] = u) <=> u # t /\ \E j \in DOMAIN line : line[j] = u
      BY <3>1, <3>3, <3>4 DEF Distinct
    <3>6. \A u \in Tasks : stage'[u] = IF u = t THEN "over" ELSE stage[u]
      BY <2>1 DEF TypeOK
    <3> QED BY <3>2, <3>5, <3>6 DEF TypeOK, LineMatches, InLine
  <2> QED BY <2>1, <2>2, <2>3 DEF TypeOK, LineMatches, InLine
<1>9. ASSUME NEW t \in Tasks, Cancel(t) PROVE TypeOK'
  <2>1. /\ stage' \in [Tasks -> Stages]
        /\ \A u \in Tasks : stage'[u] \in InLine <=> stage[u] \in InLine
    BY <1>9 DEF Cancel, Back, TypeOK, Stages, InLine
  <2>2. prompts' \in [Sessions -> Seq(Tasks)]
    BY <1>9 DEF Cancel, TypeOK
  <2>3. /\ cancels' \subseteq Tasks
        /\ UNCHANGED <<mode, phase, attempt, copy, own, interrupted, of, cost, before, amount, seen, line,
                       child, base, childOf, shared, overtaken>>
    BY <1>9 DEF Cancel, parent, books, history, TypeOK
  <2> QED BY <2>1, <2>2, <2>3 DEF TypeOK, InLine
<1>10. ASSUME NEW t \in Tasks, InterruptCommand(t) PROVE TypeOK'
  BY <1>10 DEF InterruptCommand, TypeOK, Stages, Phases, books, children, history, parent
<1>11. ASSUME NEW t \in Tasks, Record(t) PROVE TypeOK'
  <2>1. child[childOf[t]] \in Nat
    BY DEF TypeOK
  <2>2. /\ cost' = child[childOf[t]] /\ phase' = "ended"
        /\ UNCHANGED <<mode, attempt, copy, own, interrupted, of, stage, before, amount, seen, line, prompts,
                       child, cancels, base, childOf, shared, overtaken>>
    BY <1>11 DEF Record, books, children, history
  <2> QED BY <2>1, <2>2 DEF TypeOK, Phases
<1>12. ASSUME NEW s \in Sessions, Spend(s) PROVE TypeOK'
  <2>1. child[s] + 1 \in 0..MaxCost
    <3>1. child[s] \in 0..MaxCost /\ child[s] < MaxCost
      BY <1>12 DEF Spend, TypeOK
    <3> QED BY <3>1
  <2>2. /\ child' = [child EXCEPT ![s] = child[s] + 1]
        /\ UNCHANGED <<parent, cost, stage, before, amount, seen, line, prompts, cancels, base,
                       childOf, shared, overtaken>>
    BY <1>12 DEF Spend, books, history
  <2>3. child' \in [Sessions -> 0..MaxCost]
    BY <2>1, <2>2 DEF TypeOK
  <2> QED BY <2>2, <2>3 DEF TypeOK, parent
<1>13. ASSUME NEW s \in Sessions, Answer(s) PROVE TypeOK'
  <2>1. /\ stage' \in [Tasks -> Stages]
        /\ \A u \in Tasks : stage'[u] \in InLine <=> stage[u] \in InLine
    BY <1>13 DEF Answer, Back, TypeOK, Stages, InLine
  <2>2. prompts' \in [Sessions -> Seq(Tasks)]
    BY <1>13 DEF Answer, TypeOK
  <2>3. /\ cancels' \subseteq Tasks
        /\ UNCHANGED <<mode, phase, attempt, copy, own, interrupted, of, cost, before, amount, seen, line,
                       child, base, childOf, shared, overtaken>>
    BY <1>13 DEF Answer, parent, books, history, TypeOK
  <2> QED BY <2>1, <2>2, <2>3 DEF TypeOK, InLine
<1>14. CASE FinishStep
  BY SMTT(60), <1>14 DEF FinishStep, ReconciledCopy, TypeOK, Phases, books, children, history, parent
<1>15. CASE StoreStep
  BY <1>15 DEF StoreStep, Signal, TypeOK, Phases, books, children, history, parent, Listening
<1>16. CASE Break
  BY <1>16 DEF Break, Signal, TypeOK, Phases, books, children, history, parent, Listening
<1>17. CASE Retry
  <2>1. attempt' \in 1..MaxAttempts
    <3>1. attempt' = attempt + 1 /\ attempt \in 1..MaxAttempts /\ attempt < MaxAttempts
      BY <1>17 DEF Retry, StepInv, TypeOK
    <3> QED BY <3>1
  <2> QED BY <1>17, <2>1 DEF Retry, TypeOK, Phases, books, children, history
<1>18. CASE Interrupt
  BY <1>18 DEF Interrupt, Signal, TypeOK, Phases, books, children, history, parent, Listening
<1>19. CASE Reconcile
  BY <1>19 DEF Reconcile, ReconciledCopy, TypeOK, Phases, books, children, history, parent
<1>20. CASE Save
  BY <1>20 DEF Save, TypeOK, Phases, books, children, history, parent
<1>21. CASE UNCHANGED vars
  BY <1>21 DEF vars, TypeOK, books, children, history, parent
<1> QED BY <1>1, <1>2, <1>3, <1>4, <1>5, <1>6, <1>7, <1>8, <1>9, <1>10, <1>11, <1>12, <1>13,
           <1>14, <1>15, <1>16, <1>17, <1>18, <1>19, <1>20, <1>21 DEF Next, Settling, Running

(* What moves and returns do to the stages. *)
LEMMA Moves ==
  ASSUME TypeOK, NEW t \in Tasks, NEW from, NEW to, Move(t, from, to)
  PROVE  stage[t] = from /\ \A u \in Tasks : stage'[u] = IF u = t THEN to ELSE stage[u]
  BY DEF TypeOK, Move

LEMMA Returns ==
  ASSUME TypeOK, NEW ts, Back(ts)
  PROVE  \A u \in Tasks : stage'[u] = IF u \in ts /\ stage[u] = "prompting" THEN "returned" ELSE stage[u]
  BY DEF Back

----------------------------------------------------------------------------
(* Each part of the invariant is kept *)

LEMMA PromptsAreTasks ==
  ASSUME TypeOK
  PROVE  \A s \in Sessions : \A i \in DOMAIN prompts[s] : prompts[s][i] \in Tasks
<1>1. \A s \in Sessions : prompts[s] \in Seq(Tasks)
  BY DEF TypeOK
<1> QED BY <1>1

(* Steps that nobody begins to listen or ceases to prompt in. *)
LEMMA CallsFrame ==
  ASSUME TypeOK, CallsInv,
         UNCHANGED <<mode, before, prompts, child, base, childOf, shared>>,
         mode = "step" \/ interrupted' = interrupted,
         \A u \in Tasks : /\ u \in Listening' => u \in Listening
                          /\ stage[u] # "none" => stage'[u] # "none"
                          /\ stage[u] = "prompting" => stage'[u] = "prompting"
  PROVE  CallsInv'
<1>0. \A s \in Sessions : \A i \in DOMAIN prompts[s] : prompts[s][i] \in Tasks
  BY PromptsAreTasks
<1>1. (\A s \in Sessions : base[s] <= child[s])'
  BY DEF CallsInv
<1>2. (\A t \in Listening : base[childOf[t]] <= before[t] /\ before[t] <= child[childOf[t]])'
  BY DEF CallsInv, Listening
<1>3. (\A s \in Sessions : \A i \in DOMAIN prompts[s] :
         childOf[prompts[s][i]] = s /\ stage[prompts[s][i]] # "none")'
  BY <1>0 DEF CallsInv
<1>4. (mode = "step" \/ ~ interrupted =>
         \A s \in Sessions : /\ Distinct(prompts[s])
                             /\ \A i \in DOMAIN prompts[s] : stage[prompts[s][i]] = "prompting")'
  BY <1>0 DEF CallsInv, Distinct
<1>5. (~ shared => \A t, u \in Listening : childOf[t] = childOf[u] => t = u)'
  BY DEF CallsInv, Listening
<1> QED BY <1>1, <1>2, <1>3, <1>4, <1>5 DEF CallsInv

(* A session whose prompts are over, or some of them. *)
LEMMA CallsBack ==
  ASSUME TypeOK, CallsInv, NEW s \in Sessions, NEW ts, Back(ts),
         ts \subseteq {prompts[s][i] : i \in DOMAIN prompts[s]},
         \A r \in Sessions \ {s} : prompts'[r] = prompts[r],
         DOMAIN prompts' = Sessions,
         \A i \in DOMAIN prompts'[s] : \E j \in DOMAIN prompts[s] : prompts'[s][i] = prompts[s][j],
         mode = "step" \/ ~ interrupted =>
           /\ Distinct(prompts'[s])
           /\ \A i \in DOMAIN prompts'[s] : prompts'[s][i] \notin ts,
         UNCHANGED <<mode, interrupted, before, child, base, childOf, shared>>
  PROVE  CallsInv'
<1>s. \A u \in Tasks : stage'[u] = IF u \in ts /\ stage[u] = "prompting" THEN "returned" ELSE stage[u]
  BY Returns
<1>l. Listening' = Listening
  BY <1>s DEF Listening
<1>0. \A r \in Sessions : \A i \in DOMAIN prompts[r] : prompts[r][i] \in Tasks
  BY PromptsAreTasks
<1>00. ASSUME NEW r \in Sessions, NEW i \in DOMAIN prompts'[r]
       PROVE  \E j \in DOMAIN prompts[r] : prompts'[r][i] = prompts[r][j]
  <2>1. CASE r = s
    BY <2>1
  <2>2. CASE r # s
    <3>1. prompts'[r] = prompts[r]
      BY <2>2
    <3> QED BY <3>1
  <2> QED BY <2>1, <2>2
<1>1. (\A r \in Sessions : base[r] <= child[r])'
  BY DEF CallsInv
<1>2. (\A t \in Listening : base[childOf[t]] <= before[t] /\ before[t] <= child[childOf[t]])'
  BY <1>l DEF CallsInv
<1>3. (\A r \in Sessions : \A i \in DOMAIN prompts[r] :
         childOf[prompts[r][i]] = r /\ stage[prompts[r][i]] # "none")'
  <2> SUFFICES ASSUME NEW r \in Sessions, NEW i \in DOMAIN prompts'[r]
               PROVE  childOf[prompts'[r][i]] = r /\ stage'[prompts'[r][i]] # "none"
    OBVIOUS
  <2>1. PICK j \in DOMAIN prompts[r] : prompts'[r][i] = prompts[r][j]
    BY <1>00
  <2>2. childOf[prompts[r][j]] = r /\ stage[prompts[r][j]] # "none" /\ prompts[r][j] \in Tasks
    BY <1>0 DEF CallsInv
  <2> QED BY <2>1, <2>2, <1>s
<1>4. (mode = "step" \/ ~ interrupted =>
         \A r \in Sessions : /\ Distinct(prompts[r])
                             /\ \A i \in DOMAIN prompts[r] : stage[prompts[r][i]] = "prompting")'
  <2> SUFFICES ASSUME mode = "step" \/ ~ interrupted, NEW r \in Sessions
               PROVE  /\ Distinct(prompts'[r])
                      /\ \A i \in DOMAIN prompts'[r] : stage'[prompts'[r][i]] = "prompting"
    OBVIOUS
  <2>1. \A i \in DOMAIN prompts[r] : stage[prompts[r][i]] = "prompting" /\ childOf[prompts[r][i]] = r
    BY DEF CallsInv
  <2>2. CASE r = s
    <3>1. ASSUME NEW i \in DOMAIN prompts'[s]
          PROVE  stage'[prompts'[s][i]] = "prompting"
      <4>1. PICK j \in DOMAIN prompts[s] : prompts'[s][i] = prompts[s][j]
        OBVIOUS
      <4>2. stage[prompts[s][j]] = "prompting" /\ prompts[s][j] \in Tasks /\ prompts'[s][i] \notin ts
        BY <1>0, <2>1, <2>2
      <4> QED BY <4>1, <4>2, <1>s
    <3> QED BY <2>2, <3>1
  <2>3. CASE r # s
    <3>1. prompts'[r] = prompts[r] /\ Distinct(prompts[r])
      BY <2>3 DEF CallsInv
    <3>2. \A i \in DOMAIN prompts[r] : prompts[r][i] \notin ts
      BY <2>1, <2>3 DEF CallsInv
    <3>3. \A i \in DOMAIN prompts[r] : stage'[prompts[r][i]] = "prompting"
      BY <3>2, <2>1, <1>0, <1>s
    <3> QED BY <3>1, <3>3
  <2> QED BY <2>2, <2>3
<1>5. (~ shared => \A t, u \in Listening : childOf[t] = childOf[u] => t = u)'
  BY <1>l DEF CallsInv
<1> QED BY <1>1, <1>2, <1>3, <1>4, <1>5 DEF CallsInv

LEMMA BeginCalls ==
  ASSUME TypeOK, CallsInv, NEW t \in Tasks, Begin(t)
  PROVE  CallsInv'
<1>s. stage[t] = "preparing" /\ \A u \in Tasks : stage'[u] = IF u = t THEN "entering" ELSE stage[u]
  BY Moves DEF Begin
<1>u. /\ UNCHANGED <<mode, interrupted, prompts, child, base, childOf>>
      /\ before' = [before EXCEPT ![t] = child[childOf[t]]]
      /\ shared' = (shared \/ \E u \in Listening : childOf[u] = childOf[t])
  BY DEF Begin, parent, children
<1>t. stage \in [Tasks -> Stages] /\ before \in [Tasks -> Nat] /\ shared \in BOOLEAN /\ t \in Tasks
  BY DEF TypeOK
<1>l. Listening' = Listening \cup {t} /\ t \notin Listening
  BY <1>s DEF Listening
<1>0. \A s \in Sessions : \A i \in DOMAIN prompts[s] : prompts[s][i] \in Tasks
  BY PromptsAreTasks
<1>1. (\A s \in Sessions : base[s] <= child[s])'
  BY <1>u DEF CallsInv
<1>2. (\A u \in Listening : base[childOf[u]] <= before[u] /\ before[u] <= child[childOf[u]])'
  <2> SUFFICES ASSUME NEW u \in Listening'
               PROVE  base[childOf[u]] <= before'[u] /\ before'[u] <= child[childOf[u]]
    BY <1>u
  <2>1. CASE u = t
    <3>1. before'[t] = child[childOf[t]] /\ childOf[t] \in Sessions
      BY <1>u, <1>t DEF TypeOK
    <3>2. child[childOf[t]] \in Nat
      BY <3>1 DEF TypeOK
    <3> QED BY <2>1, <3>1, <3>2 DEF CallsInv
  <2>2. CASE u # t
    BY <2>2, <1>t, <1>u, <1>l DEF CallsInv, Listening
  <2> QED BY <2>1, <2>2
<1>3. (\A s \in Sessions : \A i \in DOMAIN prompts[s] :
         childOf[prompts[s][i]] = s /\ stage[prompts[s][i]] # "none")'
  <2>1. \A u \in Tasks : stage[u] # "none" => stage'[u] # "none"
    BY <1>s
  <2> QED BY <1>0, <2>1, <1>u DEF CallsInv
<1>4. (mode = "step" \/ ~ interrupted =>
         \A s \in Sessions : /\ Distinct(prompts[s])
                             /\ \A i \in DOMAIN prompts[s] : stage[prompts[s][i]] = "prompting")'
  <2>1. \A u \in Tasks : stage[u] = "prompting" => stage'[u] = "prompting"
    BY <1>s
  <2> QED BY <1>0, <2>1, <1>u DEF CallsInv, Distinct
<1>5. (~ shared => \A v, u \in Listening : childOf[v] = childOf[u] => v = u)'
  <2> SUFFICES ASSUME ~ shared', NEW v \in Listening', NEW u \in Listening', childOf[v] = childOf[u]
               PROVE  v = u
    BY <1>u
  <2>1. ~ shared /\ ~ \E w \in Listening : childOf[w] = childOf[t]
    BY <1>u, <1>t
  <2> QED BY <2>1, <1>l DEF CallsInv
<1> QED BY <1>1, <1>2, <1>3, <1>4, <1>5 DEF CallsInv

LEMMA EnqueueCalls ==
  ASSUME TypeOK, CallsInv, NEW t \in Tasks, Enqueue(t)
  PROVE  CallsInv'
<1>s. stage[t] = "entering" /\ \A u \in Tasks : stage'[u] = IF u = t THEN "prompting" ELSE stage[u]
  BY Moves DEF Enqueue
<1>u. /\ UNCHANGED <<mode, interrupted, before, child, base, childOf, shared>>
      /\ prompts' = [prompts EXCEPT ![childOf[t]] = Append(@, t)]
  BY DEF Enqueue, parent, books, history
<1>t. /\ childOf[t] \in Sessions /\ prompts \in [Sessions -> Seq(Tasks)]
      /\ \A s \in Sessions : prompts[s] \in Seq(Tasks)
  BY DEF TypeOK
<1>l. Listening' = Listening
  BY <1>s DEF Listening
<1>0. \A s \in Sessions : \A i \in DOMAIN prompts[s] : prompts[s][i] \in Tasks
  BY PromptsAreTasks
<1>1. (\A s \in Sessions : base[s] <= child[s])'
  BY <1>u DEF CallsInv
<1>2. (\A u \in Listening : base[childOf[u]] <= before[u] /\ before[u] <= child[childOf[u]])'
  BY <1>u, <1>l DEF CallsInv
<1>p. ASSUME NEW s \in Sessions, NEW i \in DOMAIN prompts'[s]
      PROVE  \/ i \in DOMAIN prompts[s] /\ prompts'[s][i] = prompts[s][i]
             \/ s = childOf[t] /\ i = Len(prompts[s]) + 1 /\ prompts'[s][i] = t /\ i \notin DOMAIN prompts[s]
  <2>1. CASE s = childOf[t]
    <3>1. prompts'[s] = Append(prompts[s], t) /\ prompts[s] \in Seq(Tasks)
      BY <1>t, <1>u, <2>1
    <3>2. PICK q \in Seq(Tasks) : q = prompts[s]
      BY <3>1
    <3>3. i \in DOMAIN Append(q, t)
      BY <3>1, <3>2
    <3>4. /\ DOMAIN Append(q, t) = 1..(Len(q) + 1) /\ DOMAIN q = 1..Len(q) /\ Len(q) \in Nat
          /\ Append(q, t)[Len(q) + 1] = t
          /\ \A j \in 1..Len(q) : Append(q, t)[j] = q[j]
      OBVIOUS
    <3>5. i \in DOMAIN q \/ (i = Len(q) + 1 /\ i \notin DOMAIN q)
      BY <3>3, <3>4
    <3> QED BY <3>1, <3>2, <3>4, <3>5, <2>1
  <2>2. CASE s # childOf[t]
    <3>1. prompts'[s] = prompts[s]
      BY <1>t, <1>u, <2>2
    <3> QED BY <3>1
  <2> QED BY <2>1, <2>2
<1>3. (\A s \in Sessions : \A i \in DOMAIN prompts[s] :
         childOf[prompts[s][i]] = s /\ stage[prompts[s][i]] # "none")'
  <2> SUFFICES ASSUME NEW s \in Sessions, NEW i \in DOMAIN prompts'[s]
               PROVE  childOf[prompts'[s][i]] = s /\ stage'[prompts'[s][i]] # "none"
    BY <1>u
  <2>1. CASE i \in DOMAIN prompts[s] /\ prompts'[s][i] = prompts[s][i]
    BY <2>1, <1>0, <1>s DEF CallsInv
  <2>2. CASE s = childOf[t] /\ prompts'[s][i] = t
    BY <2>2, <1>s
  <2> QED BY <1>p, <2>1, <2>2
<1>4. (mode = "step" \/ ~ interrupted =>
         \A s \in Sessions : /\ Distinct(prompts[s])
                             /\ \A i \in DOMAIN prompts[s] : stage[prompts[s][i]] = "prompting")'
  <2> SUFFICES ASSUME mode = "step" \/ ~ interrupted, NEW s \in Sessions
               PROVE  /\ Distinct(prompts'[s])
                      /\ \A i \in DOMAIN prompts'[s] : stage'[prompts'[s][i]] = "prompting"
    BY <1>u
  <2>1. /\ Distinct(prompts[s])
        /\ \A i \in DOMAIN prompts[s] : stage[prompts[s][i]] = "prompting" /\ prompts[s][i] # t
    BY <1>s DEF CallsInv
  <2>2. ASSUME NEW i \in DOMAIN prompts'[s]
        PROVE  \/ /\ i \in DOMAIN prompts[s] /\ prompts'[s][i] = prompts[s][i]
                  /\ prompts'[s][i] # t /\ stage'[prompts'[s][i]] = "prompting"
               \/ i = Len(prompts[s]) + 1 /\ prompts'[s][i] = t /\ stage'[t] = "prompting"
    <3>1. CASE i \in DOMAIN prompts[s] /\ prompts'[s][i] = prompts[s][i]
      BY <3>1, <2>1, <1>0, <1>s
    <3>2. CASE i = Len(prompts[s]) + 1 /\ prompts'[s][i] = t
      BY <3>2, <1>s
    <3> QED BY <1>p, <3>1, <3>2
  <2>3. Distinct(prompts'[s])
    BY <2>1, <2>2 DEF Distinct
  <2>4. \A i \in DOMAIN prompts'[s] : stage'[prompts'[s][i]] = "prompting"
    BY <2>2
  <2> QED BY <2>3, <2>4
<1>5. (~ shared => \A v, u \in Listening : childOf[v] = childOf[u] => v = u)'
  BY <1>l, <1>u DEF CallsInv
<1> QED BY <1>1, <1>2, <1>3, <1>4, <1>5 DEF CallsInv

LEMMA SpendCalls ==
  ASSUME TypeOK, CallsInv, NEW s \in Sessions, Spend(s)
  PROVE  CallsInv'
<1>u. /\ UNCHANGED <<mode, interrupted, before, prompts, base, childOf, shared, stage>>
      /\ child' = [child EXCEPT ![s] = child[s] + 1]
  BY DEF Spend, parent, books, history
<1>0. /\ child \in [Sessions -> 0..MaxCost] /\ before \in [Tasks -> Nat] /\ childOf \in [Tasks -> Sessions]
      /\ \A r \in Sessions : child[r] \in Nat /\ base[r] \in Nat
  <2>1. child \in [Sessions -> 0..MaxCost] /\ before \in [Tasks -> Nat] /\ childOf \in [Tasks -> Sessions]
    BY DEF TypeOK
  <2>2. \A r \in Sessions : child[r] \in Nat
    BY <2>1, BoundsAssumption
  <2>3. \A r \in Sessions : base[r] \in Nat
    <3>1. base \in [Sessions -> 0..1]
      BY DEF TypeOK
    <3> QED BY <3>1
  <2> QED BY <2>1, <2>2, <2>3
<1>1. \A r \in Sessions : child[r] \in Nat /\ child'[r] \in Nat /\ child[r] <= child'[r] /\ base[r] \in Nat
  BY <1>0, <1>u
<1>2. \A r \in Sessions : base[r] <= child'[r]
  BY <1>1 DEF CallsInv
<1>3. \A t \in Listening : base[childOf[t]] <= before[t] /\ before[t] <= child'[childOf[t]]
  BY <1>0, <1>1 DEF CallsInv, Listening
<1>4. Listening' = Listening
  BY <1>u DEF Listening
<1>5. (\A r \in Sessions : base[r] <= child[r])'
  BY <1>u, <1>2
<1>6. (\A t \in Listening : base[childOf[t]] <= before[t] /\ before[t] <= child[childOf[t]])'
  BY <1>u, <1>3, <1>4
<1> QED BY <1>u, <1>4, <1>5, <1>6 DEF CallsInv, Distinct

LEMMA InterruptCalls ==
  ASSUME TypeOK, CallsInv, NEW t \in Tasks, InterruptCommand(t)
  PROVE  CallsInv'
<1>s. /\ \A u \in Tasks : u # t => stage'[u] = stage[u]
      /\ stage'[t] = CASE stage[t] = "preparing" -> "over"
                       [] stage[t] \in {"entering", "prompting"} -> "returned"
                       [] OTHER -> stage[t]
      /\ stage[t] # "none"
  <2>1. stage \in [Tasks -> Stages]
    BY DEF TypeOK
  <2> QED BY <2>1 DEF InterruptCommand
<1>u. /\ UNCHANGED <<mode, before, prompts, child, base, childOf, shared>>
      /\ mode = "command" /\ interrupted' = TRUE
  BY DEF InterruptCommand, books, children, history
<1>l. Listening' = Listening
  <2>1. \A u \in Tasks : stage'[u] \in {"entering", "prompting", "returned"}
                           <=> stage[u] \in {"entering", "prompting", "returned"}
    <3>1. CASE stage[t] \in {"entering", "prompting"}
      BY <3>1, <1>s
    <3>2. CASE stage[t] = "preparing"
      BY <3>2, <1>s
    <3>3. CASE stage[t] \notin {"preparing", "entering", "prompting"}
      BY <3>3, <1>s
    <3> QED BY <3>1, <3>2, <3>3
  <2> QED BY <2>1 DEF Listening
<1>0. \A s \in Sessions : \A i \in DOMAIN prompts[s] : prompts[s][i] \in Tasks
  BY PromptsAreTasks
<1>n. \A u \in Tasks : stage[u] # "none" => stage'[u] # "none"
  BY <1>s
<1>3. (\A s \in Sessions : \A i \in DOMAIN prompts[s] :
         childOf[prompts[s][i]] = s /\ stage[prompts[s][i]] # "none")'
  BY <1>0, <1>n, <1>u DEF CallsInv
<1> QED BY <1>u, <1>l, <1>3 DEF CallsInv

LEMMA NextCalls == TypeOK /\ CallsInv /\ [Next]_vars => CallsInv'
<1> SUFFICES ASSUME TypeOK, CallsInv, [Next]_vars PROVE CallsInv'
  OBVIOUS
<1>1. ASSUME NEW t \in Tasks, Call(t) PROVE CallsInv'
  <2>1. stage[t] = "none" /\ \A u \in Tasks : stage'[u] = IF u = t THEN "preparing" ELSE stage[u]
    BY <1>1, Moves DEF Call
  <2>2. UNCHANGED <<mode, interrupted, before, prompts, child, base, childOf, shared>>
    BY <1>1 DEF Call, books, children, history
  <2> QED BY <2>1, <2>2, CallsFrame DEF Listening
<1>2. ASSUME NEW t \in Tasks, Refuse(t) PROVE CallsInv'
  <2>1. stage[t] = "preparing" /\ \A u \in Tasks : stage'[u] = IF u = t THEN "over" ELSE stage[u]
    BY <1>2, Moves DEF Refuse
  <2>2. UNCHANGED <<mode, interrupted, before, prompts, child, base, childOf, shared>>
    BY <1>2 DEF Refuse, parent, books, children, history
  <2> QED BY <2>1, <2>2, CallsFrame DEF Listening
<1>3. ASSUME NEW t \in Tasks, Begin(t) PROVE CallsInv'
  BY <1>3, BeginCalls
<1>4. ASSUME NEW t \in Tasks, Enqueue(t) PROVE CallsInv'
  BY <1>4, EnqueueCalls
<1>5. ASSUME NEW t \in Tasks, Fail(t) PROVE CallsInv'
  <2>1. stage[t] = "entering" /\ \A u \in Tasks : stage'[u] = IF u = t THEN "returned" ELSE stage[u]
    BY <1>5, Moves DEF Fail
  <2>2. UNCHANGED <<mode, interrupted, before, prompts, child, base, childOf, shared>>
    BY <1>5 DEF Fail, parent, books, children, history
  <2> QED BY <2>1, <2>2, CallsFrame DEF Listening
<1>6. ASSUME NEW t \in Tasks, Release(t) PROVE CallsInv'
  <2>1. PICK to \in {"locking", "over"} : Move(t, "returned", to)
    BY <1>6 DEF Release, Move
  <2>2. stage[t] = "returned" /\ \A u \in Tasks : stage'[u] = IF u = t THEN to ELSE stage[u]
    BY <2>1, Moves
  <2>3. UNCHANGED <<mode, interrupted, before, prompts, child, base, childOf, shared>>
    BY <1>6 DEF Release, parent, children, history
  <2> QED BY <2>1, <2>2, <2>3, CallsFrame DEF Listening
<1>7. ASSUME NEW t \in Tasks, Read(t) PROVE CallsInv'
  <2>1. stage[t] = "locking" /\ \A u \in Tasks : stage'[u] = IF u = t THEN "writing" ELSE stage[u]
    BY <1>7, Moves DEF Read
  <2>2. UNCHANGED <<mode, interrupted, before, prompts, child, base, childOf, shared>>
    BY <1>7 DEF Read, parent, children, history
  <2> QED BY <2>1, <2>2, CallsFrame DEF Listening
<1>8. ASSUME NEW t \in Tasks, Write(t) PROVE CallsInv'
  <2>1. stage[t] = "writing" /\ \A u \in Tasks : stage'[u] = IF u = t THEN "over" ELSE stage[u]
    BY <1>8, Moves DEF Write
  <2>2. UNCHANGED <<mode, interrupted, before, prompts, child, base, childOf, shared>>
    BY <1>8 DEF Write, parent, books, children
  <2> QED BY <2>1, <2>2, CallsFrame DEF Listening
<1>9. ASSUME NEW t \in Tasks, Cancel(t) PROVE CallsInv'
  <2> DEFINE s == childOf[t]
             ts == {prompts[s][i] : i \in DOMAIN prompts[s]}
  <2>1. /\ Back(ts) /\ prompts' = [prompts EXCEPT ![s] = <<>>] /\ s \in Sessions
        /\ UNCHANGED <<mode, interrupted, before, child, base, childOf, shared>>
    BY <1>9 DEF Cancel, parent, books, history, TypeOK
  <2>2. DOMAIN prompts' = Sessions /\ prompts'[s] = <<>> /\ \A r \in Sessions \ {s} : prompts'[r] = prompts[r]
    BY <2>1 DEF TypeOK
  <2>3. DOMAIN prompts'[s] = {}
    BY <2>2
  <2> HIDE DEF s
  <2> QED BY <2>1, <2>2, <2>3, CallsBack DEF Distinct
<1>10. ASSUME NEW t \in Tasks, InterruptCommand(t) PROVE CallsInv'
  BY <1>10, InterruptCalls
<1>11. ASSUME NEW s \in Sessions, Spend(s) PROVE CallsInv'
  BY <1>11, SpendCalls
<1>12. ASSUME NEW s \in Sessions, Answer(s) PROVE CallsInv'
  <2> DEFINE ts == {Head(prompts[s])}
  <2>1. /\ Back(ts) /\ prompts' = [prompts EXCEPT ![s] = Tail(prompts[s])] /\ prompts[s] # <<>>
        /\ UNCHANGED <<mode, interrupted, before, child, base, childOf, shared>>
    BY <1>12 DEF Answer, parent, books, history
  <2>2. /\ DOMAIN prompts' = Sessions /\ prompts'[s] = Tail(prompts[s])
        /\ \A r \in Sessions \ {s} : prompts'[r] = prompts[r]
        /\ prompts[s] \in Seq(Tasks)
    BY <2>1 DEF TypeOK
  <2>3. /\ DOMAIN prompts[s] = 1..Len(prompts[s]) /\ Len(prompts[s]) \in Nat \ {0}
        /\ DOMAIN prompts'[s] = 1..(Len(prompts[s]) - 1)
        /\ \A i \in 1..(Len(prompts[s]) - 1) : prompts'[s][i] = prompts[s][i + 1]
        /\ Head(prompts[s]) = prompts[s][1]
    BY <2>1, <2>2
  <2>4. /\ 1 \in DOMAIN prompts[s]
        /\ \A i \in DOMAIN prompts'[s] : /\ i \in Nat /\ i + 1 \in DOMAIN prompts[s] /\ i + 1 # 1
                                         /\ prompts'[s][i] = prompts[s][i + 1]
    BY <2>3
  <2>5. /\ ts \subseteq {prompts[s][i] : i \in DOMAIN prompts[s]}
        /\ \A i \in DOMAIN prompts'[s] : \E j \in DOMAIN prompts[s] : prompts'[s][i] = prompts[s][j]
    BY <2>3, <2>4
  <2>6. ASSUME Distinct(prompts[s])
        PROVE  /\ Distinct(prompts'[s])
               /\ \A i \in DOMAIN prompts'[s] : prompts'[s][i] \notin ts
    <3>1. \A i, j \in DOMAIN prompts'[s] : i + 1 = j + 1 => i = j
      BY <2>4
    <3>2. Distinct(prompts'[s])
      BY <2>4, <2>6, <3>1 DEF Distinct
    <3>3. \A i \in DOMAIN prompts'[s] : prompts'[s][i] # prompts[s][1]
      BY <2>4, <2>6 DEF Distinct
    <3> QED BY <2>3, <3>2, <3>3
  <2>7. mode = "step" \/ ~ interrupted => Distinct(prompts[s])
    BY DEF CallsInv
  <2> HIDE DEF ts
  <2> QED BY <2>1, <2>2, <2>5, <2>6, <2>7, CallsBack
<1>13. ASSUME UNCHANGED <<stage, mode, before, prompts, child, base, childOf, shared>>,
              mode = "step" \/ interrupted' = interrupted
       PROVE  CallsInv'
  BY <1>13, CallsFrame DEF Listening
<1>14. CASE UNCHANGED vars
  BY <1>13, <1>14 DEF vars, parent, books, children, history
<1>15. ASSUME NEW t \in Tasks, Record(t) PROVE CallsInv'
  BY <1>13, <1>15 DEF Record, books, children, history
<1>16. CASE StepActions
  BY <1>13, <1>16 DEF StepActions, FinishStep, StoreStep, Break, Retry, Interrupt, Reconcile, Save,
     books, children, history
<1> QED BY <1>1, <1>2, <1>3, <1>4, <1>5, <1>6, <1>7, <1>8, <1>9, <1>10, <1>11, <1>12, <1>14,
           <1>15, <1>16
        DEF Next, Settling, Running, StepActions

(* Steps that leave the line alone. *)
LEMMA LineFrame ==
  ASSUME LineInv, UNCHANGED line,
         \A u \in Tasks : stage'[u] = "writing" =>
           stage[u] = "writing" /\ UNCHANGED <<cost, seen>> /\ phase' # "saving"
  PROVE  LineInv'
  BY DEF LineInv, Leads, Distinct

LEMMA NextLine ==
  TypeOK /\ LineInv /\ CommandInv /\ [Next]_vars => LineInv'
<1> SUFFICES ASSUME TypeOK, LineInv, CommandInv, [Next]_vars PROVE LineInv'
  OBVIOUS
<1>t. line \in Seq(Tasks) /\ LineMatches
  BY DEF TypeOK, LineMatches, InLine
<1>1. ASSUME NEW t \in Tasks, NEW from, NEW to, Move(t, from, to), to # "writing",
             UNCHANGED <<line, cost, seen, phase>>
      PROVE  LineInv'
  <2>1. \A u \in Tasks : stage'[u] = IF u = t THEN to ELSE stage[u]
    BY <1>1, Moves
  <2> QED BY <1>1, <2>1, LineFrame DEF LineInv
<1>2. ASSUME NEW t \in Tasks, Call(t) \/ Refuse(t) \/ Begin(t) \/ Enqueue(t) \/ Fail(t)
      PROVE  LineInv'
  BY <1>1, <1>2 DEF Call, Refuse, Begin, Enqueue, Fail, parent, books
<1>3. ASSUME NEW t \in Tasks, Release(t) PROVE LineInv'
  <2>1. PICK to \in {"locking", "over"} : /\ Move(t, "returned", to)
                                          /\ line' = IF to = "locking" THEN Append(line, t) ELSE line
    BY <1>3 DEF Release, Move
  <2>2. UNCHANGED <<cost, seen, phase>>
    BY <1>3 DEF Release, parent
  <2>3. CASE line' = line
    BY <1>1, <2>1, <2>2, <2>3
  <2>4. CASE line' = Append(line, t)
    <3>1. stage[t] = "returned" /\ \A u \in Tasks : stage'[u] = IF u = t THEN to ELSE stage[u]
      BY <2>1, Moves
    <3>2. \A i \in DOMAIN line : line[i] # t
      BY <1>t, <3>1 DEF LineMatches, InLine
    <3>3. /\ DOMAIN line' = 1..(Len(line) + 1) /\ DOMAIN line = 1..Len(line) /\ Len(line) \in Nat
          /\ line'[Len(line) + 1] = t
          /\ \A i \in DOMAIN line : line'[i] = line[i]
      BY <1>t, <2>4
    <3>4. \A i \in DOMAIN line' : i \in DOMAIN line \/ i = Len(line) + 1
      BY <3>3
    <3>5. Distinct(line')
      BY <3>2, <3>3, <3>4 DEF LineInv, Distinct
    <3>6. line # <<>> => line' # <<>> /\ Head(line') = Head(line)
      BY <1>t, <2>4
    <3>7. \A u \in Tasks : stage'[u] = "writing" => stage[u] = "writing"
      BY <2>1, <3>1
    <3> QED BY <2>2, <3>5, <3>6, <3>7 DEF LineInv, Leads
  <2> QED BY <2>1, <2>3, <2>4
<1>4. ASSUME NEW t \in Tasks, Read(t), Switch PROVE LineInv'
  <2>1. stage[t] = "locking" /\ \A u \in Tasks : stage'[u] = IF u = t THEN "writing" ELSE stage[u]
    BY <1>4, Moves DEF Read
  <2>2. Head(line) = t /\ seen' = [seen EXCEPT ![t] = cost] /\ UNCHANGED <<cost, phase, line>>
    BY <1>4 DEF Read, parent
  <2>3. line # <<>>
    <3>1. PICK i \in DOMAIN line : line[i] = t
      BY <1>t, <2>1 DEF LineMatches, InLine
    <3> QED BY <1>t, <3>1
  <2>4. phase # "saving"
    BY <1>4 DEF Switch, Follows
  <2>5. seen'[t] = cost
    BY <2>2 DEF TypeOK
  <2>6. \A u \in Tasks : u # t => stage[u] # "writing"
    BY <2>2 DEF LineInv, Leads
  <2> QED BY <2>1, <2>2, <2>3, <2>4, <2>5, <2>6 DEF LineInv, Leads, Distinct
<1>5. ASSUME NEW t \in Tasks, Write(t) PROVE LineInv'
  <2>1. stage[t] = "writing" /\ \A u \in Tasks : stage'[u] = IF u = t THEN "over" ELSE stage[u]
    BY <1>5, Moves DEF Write
  <2>2. line' = Tail(line) /\ line # <<>> /\ Head(line) = t /\ Distinct(line)
    BY <1>5, <2>1 DEF Write, LineInv, Leads
  <2>3. \A u \in Tasks : stage'[u] # "writing"
    BY <2>1, <2>2 DEF LineInv, Leads
  <2>4. Distinct(line')
    <3>1. /\ DOMAIN line = 1..Len(line) /\ Len(line) \in Nat \ {0}
          /\ DOMAIN line' = 1..(Len(line) - 1)
          /\ \A i \in 1..(Len(line) - 1) : line'[i] = line[i + 1]
      BY <1>t, <2>2
    <3>2. \A i \in DOMAIN line' : i \in Nat /\ i + 1 \in DOMAIN line /\ line'[i] = line[i + 1]
      BY <3>1
    <3>3. \A i, j \in DOMAIN line' : i + 1 = j + 1 => i = j
      BY <3>2
    <3> QED BY <2>2, <3>2, <3>3 DEF Distinct
  <2> QED BY <2>3, <2>4 DEF LineInv
<1>6. ASSUME NEW t \in Tasks, Cancel(t) PROVE LineInv'
  <2>1. \A u \in Tasks : stage'[u] = "writing" => stage[u] = "writing"
    BY <1>6, Returns DEF Cancel
  <2>2. UNCHANGED <<line, cost, seen, phase>>
    BY <1>6 DEF Cancel, parent, books
  <2> QED BY <2>1, <2>2, LineFrame DEF LineInv
<1>7. ASSUME NEW s \in Sessions, Answer(s) PROVE LineInv'
  <2>1. \A u \in Tasks : stage'[u] = "writing" => stage[u] = "writing"
    BY <1>7, Returns DEF Answer
  <2>2. UNCHANGED <<line, cost, seen, phase>>
    BY <1>7 DEF Answer, parent, books
  <2> QED BY <2>1, <2>2, LineFrame DEF LineInv
<1>8. ASSUME NEW t \in Tasks, InterruptCommand(t) PROVE LineInv'
  <2>1. /\ UNCHANGED <<line, cost, seen>> /\ phase' # "saving"
        /\ stage' = [stage EXCEPT ![t] = CASE @ = "preparing" -> "over"
                                           [] @ \in {"entering", "prompting"} -> "returned"
                                           [] OTHER -> @]
    BY <1>8 DEF InterruptCommand, books
  <2>2. stage \in [Tasks -> Stages]
    BY DEF TypeOK
  <2>3. \A u \in Tasks : stage'[u] = "writing" => stage[u] = "writing"
    BY <2>1, <2>2
  <2> QED BY <2>1, <2>3, LineFrame
<1>9. ASSUME NEW t \in Tasks, Record(t) PROVE LineInv'
  <2>1. stage[t] = "over" /\ mode = "command" /\ UNCHANGED <<line, stage>>
    BY <1>9 DEF Record
  <2>2. \A u \in Tasks : stage[u] # "writing"
    BY <2>1 DEF CommandInv
  <2> QED BY <2>1, <2>2, LineFrame
<1>10. ASSUME NEW s \in Sessions, Spend(s) PROVE LineInv'
  BY <1>10, LineFrame DEF Spend, parent, books, LineInv
<1>11. CASE FinishStep \/ Break \/ Retry \/ Interrupt
  <2>1. UNCHANGED <<line, stage, cost, seen>> /\ phase' # "saving"
    BY <1>11 DEF FinishStep, Break, Retry, Interrupt, books
  <2> QED BY <2>1, LineFrame
<1>12. CASE Switch /\ (StoreStep \/ Reconcile)
  <2>1. UNCHANGED <<line, stage>> /\ phase # "working"
    BY <1>12 DEF StoreStep, Reconcile
  <2>2. \A u \in Tasks : stage[u] # "writing"
    BY <1>12, <2>1 DEF Switch, Follows
  <2> QED BY <2>1, <2>2, LineFrame
<1>13. CASE Save
  <2>1. UNCHANGED <<line, stage>> /\ phase = "saving"
    BY <1>13 DEF Save
  <2>2. \A u \in Tasks : stage[u] # "writing"
    BY <2>1 DEF LineInv
  <2> QED BY <2>1, <2>2, LineFrame
<1>14. CASE UNCHANGED vars
  BY <1>14, LineFrame DEF vars, parent, books, LineInv
<1> QED BY <1>2, <1>3, <1>4, <1>5, <1>6, <1>7, <1>8, <1>9, <1>10, <1>11, <1>12, <1>13, <1>14
        DEF Next, Settling, Running

LEMMA NextStep ==
  TypeOK /\ TypeOK' /\ LineInv /\ StepInv /\ CommandInv /\ [Next]_vars => StepInv'
<1> SUFFICES ASSUME TypeOK, TypeOK', LineInv, StepInv, CommandInv, [Next]_vars PROVE StepInv'
  OBVIOUS
<1>t. attempt \in Nat /\ MaxAttempts \in Nat /\ own \in Nat /\ copy \in Nat /\ cost \in Nat /\ overtaken \in BOOLEAN
  BY BoundsAssumption DEF TypeOK
<1>1. ASSUME UNCHANGED <<mode, phase, attempt, interrupted, own, copy, cost, overtaken>>
      PROVE  StepInv'
  BY <1>1 DEF StepInv
<1>2. ASSUME NEW t \in Tasks, \/ Call(t) \/ Refuse(t) \/ Begin(t) \/ Enqueue(t) \/ Fail(t)
                              \/ Settling(t) \/ Cancel(t)
      PROVE  StepInv'
  BY <1>1, <1>2 DEF Call, Refuse, Begin, Enqueue, Fail, Settling, Release, Read, Cancel, parent, history
<1>3. ASSUME NEW s \in Sessions, Running(s) PROVE StepInv'
  BY <1>1, <1>3 DEF Running, Spend, Answer, parent, history
<1>4. ASSUME NEW t \in Tasks, Write(t) PROVE StepInv'
  <2>1. /\ UNCHANGED <<mode, phase, attempt, interrupted, own, copy>>
        /\ overtaken' = (overtaken \/ Unstored) /\ stage[t] = "writing"
    BY <1>4 DEF Write, parent, Move
  <2>2. phase # "saving"
    BY <2>1 DEF LineInv
  <2>3. phase = "tracking" => Unstored
    BY DEF StepInv, Unstored
  <2> QED BY <2>1, <2>2, <2>3, <1>t DEF StepInv
<1>5. ASSUME NEW t \in Tasks, InterruptCommand(t) \/ Record(t) PROVE StepInv'
  BY <1>5, <1>t DEF InterruptCommand, Record, StepInv
<1>6. CASE FinishStep
  <2>1. /\ mode = "step" /\ mode' = mode /\ phase = "working" /\ phase' = "tracking"
        /\ copy' = ReconciledCopy + 1 /\ own' = own + 1 /\ UNCHANGED <<interrupted, cost, overtaken>>
    BY <1>6 DEF FinishStep, history
  <2>2. copy' >= cost /\ own' # 0
    BY <2>1, <1>t DEF ReconciledCopy
  <2> QED BY <2>1, <2>2 DEF StepInv
<1>7. CASE StoreStep
  BY <1>7 DEF StoreStep, StepInv
<1>8. CASE Break
  <2>1. /\ mode = "step" /\ mode' = mode /\ phase = "working" /\ phase' \in {"waiting", "retrying"}
        /\ phase' = "retrying" => attempt < MaxAttempts
        /\ UNCHANGED <<interrupted, own, attempt>>
    BY <1>8 DEF Break
  <2> QED BY <2>1 DEF StepInv
<1>9. CASE Retry
  BY <1>9 DEF Retry, StepInv
<1>10. CASE Interrupt
  BY <1>10 DEF Interrupt, StepInv
<1>11. CASE Reconcile
  <2>1. copy' >= cost /\ UNCHANGED cost
    BY <1>11, <1>t DEF Reconcile, ReconciledCopy
  <2> QED BY <1>11, <2>1 DEF Reconcile, StepInv
<1>12. CASE Save
  BY <1>12 DEF Save, StepInv
<1>13. CASE UNCHANGED vars
  BY <1>1, <1>13 DEF vars, parent, history
<1> QED BY <1>2, <1>3, <1>4, <1>5, <1>6, <1>7, <1>8, <1>9, <1>10, <1>11, <1>12, <1>13 DEF Next

(* Steps of a command's call that cost nothing. *)
LEMMA CommandFrame ==
  ASSUME TypeOK, CommandInv, mode = "command",
         UNCHANGED <<mode, own, copy, shared, overtaken, base, child, childOf, cost, amount>>,
         \A u \in Tasks : /\ stage'[u] = "none" <=> stage[u] = "none"
                          /\ stage[u] = "over" => stage'[u] = "over"
                          /\ stage'[u] \in InLine => stage[u] \in InLine
  PROVE  CommandInv'
<1>0. /\ own = 0 /\ copy = 0 /\ ~ shared /\ ~ overtaken
      /\ \A t, u \in Tasks : stage[t] # "none" /\ stage[u] # "none" => t = u
      /\ \A s \in Sessions : base[s] = 0
      /\ \A s \in Sessions : child[s] # 0 => \E t \in Tasks : stage[t] # "none" /\ childOf[t] = s
      /\ (\A t \in Tasks : stage[t] # "over") => cost = 0
      /\ \A t \in Tasks : stage[t] = "over" => cost <= child[childOf[t]]
      /\ \A t \in Tasks : stage[t] \in InLine => amount[t] <= child[childOf[t]]
  BY DEF CommandInv, InLine
<1>1. \A t \in Tasks : child[childOf[t]] \in Nat
  BY BoundsAssumption DEF TypeOK
<1>2. \A t \in Tasks : stage'[t] = "over" => cost <= child[childOf[t]]
  <2> SUFFICES ASSUME NEW t \in Tasks, stage'[t] = "over", stage[t] # "over"
               PROVE  cost <= child[childOf[t]]
    BY <1>0
  <2>1. \A u \in Tasks : stage[u] # "over"
    BY <1>0
  <2>2. cost = 0 /\ 0 <= child[childOf[t]]
    BY <1>0, <1>1, <2>1
  <2> QED BY <2>2
<1>3. (\A t \in Tasks : stage'[t] # "over") => cost = 0
  BY <1>0
<1> QED BY <1>0, <1>2, <1>3 DEF CommandInv, InLine

LEMMA NextCommand ==
  TypeOK /\ TypeOK' /\ CallsInv /\ LineInv /\ StepInv /\ CommandInv /\ [Next]_vars => CommandInv'
<1> SUFFICES ASSUME TypeOK, TypeOK', CallsInv, LineInv, StepInv, CommandInv, [Next]_vars, mode' = "command"
             PROVE  CommandInv'
  BY DEF CommandInv
<1>m. mode = "command"
  BY DEF Next, vars, parent, Settling, Running, Call, Refuse, Begin, Enqueue, Fail, Release,
     Read, Write,
     Cancel, InterruptCommand, Record, Spend, Answer, FinishStep, StoreStep, Break, Retry, Interrupt,
     Reconcile, Save
<1>0. /\ own = 0 /\ copy = 0 /\ ~ shared /\ ~ overtaken
      /\ \A t, u \in Tasks : stage[t] # "none" /\ stage[u] # "none" => t = u
      /\ \A s \in Sessions : base[s] = 0
      /\ \A s \in Sessions : child[s] # 0 => \E t \in Tasks : stage[t] # "none" /\ childOf[t] = s
      /\ (\A t \in Tasks : stage[t] # "over") => cost = 0
      /\ \A t \in Tasks : stage[t] = "over" => cost <= child[childOf[t]]
      /\ \A t \in Tasks : stage[t] \in InLine => amount[t] <= child[childOf[t]]
  BY <1>m DEF CommandInv, InLine
<1>c. \A t \in Tasks : childOf[t] \in Sessions /\ child[childOf[t]] \in Nat /\ before[t] \in Nat /\ amount[t] \in Nat
  BY BoundsAssumption DEF TypeOK
<1>f. ASSUME NEW t \in Tasks, NEW from, NEW to, Move(t, from, to), from \notin {"none", "over"}, to # "none",
             to \in InLine => from \in InLine,
             UNCHANGED <<mode, own, copy, shared, overtaken, base, child, childOf, cost, amount>>
      PROVE  CommandInv'
  <2>1. stage[t] = from /\ \A u \in Tasks : stage'[u] = IF u = t THEN to ELSE stage[u]
    BY <1>f, Moves
  <2> QED BY <1>f, <1>m, <2>1, CommandFrame
<1>1. ASSUME NEW t \in Tasks, Call(t) PROVE CommandInv'
  <2>1. /\ \A u \in Tasks : stage[u] = "none"
        /\ UNCHANGED <<own, copy, shared, overtaken, base, child, childOf, cost>>
    BY <1>1, <1>m DEF Call, children, history
  <2>2. \A u \in Tasks : stage'[u] = IF u = t THEN "preparing" ELSE "none"
    BY <1>1, <2>1, Moves DEF Call
  <2>3. cost = 0 /\ \A s \in Sessions : child[s] = 0
    BY <1>0, <2>1
  <2> QED BY <1>0, <2>1, <2>2, <2>3 DEF CommandInv
<1>2. ASSUME NEW t \in Tasks, Refuse(t) \/ Enqueue(t) \/ Fail(t) \/ Read(t) PROVE CommandInv'
  BY <1>f, <1>2 DEF Refuse, Enqueue, Fail, Read, parent, books, children, history, InLine
<1>3. ASSUME NEW t \in Tasks, Begin(t) PROVE CommandInv'
  <2>1. /\ Move(t, "preparing", "entering")
        /\ shared' = (shared \/ \E u \in Listening : childOf[u] = childOf[t])
        /\ UNCHANGED <<mode, own, copy, overtaken, base, child, childOf, cost, amount>>
    BY <1>3 DEF Begin, parent, children
  <2>2. Listening = {}
    <3>1. stage[t] = "preparing"
      BY <2>1 DEF Move
    <3> QED BY <3>1, <1>0 DEF Listening
  <2>3. shared' = shared
    BY <2>1, <2>2 DEF TypeOK
  <2> QED BY <1>f, <2>1, <2>3 DEF InLine
<1>4. ASSUME NEW t \in Tasks, Release(t) PROVE CommandInv'
  <2>1. PICK to \in {"locking", "over"} : Move(t, "returned", to)
    BY <1>4 DEF Release, Move
  <2>2. stage[t] = "returned" /\ \A u \in Tasks : stage'[u] = IF u = t THEN to ELSE stage[u]
    BY <2>1, Moves
  <2>3. /\ amount' = [amount EXCEPT ![t] = child[childOf[t]] - before[t]]
        /\ UNCHANGED <<mode, own, copy, shared, overtaken, base, child, childOf, cost>>
    BY <1>4 DEF Release, parent, children, history
  <2>4. amount'[t] <= child[childOf[t]]
    <3>1. amount'[t] = child[childOf[t]] - before[t]
      BY <2>3 DEF TypeOK
    <3> QED BY <3>1, <1>c
  <2>5. \A u \in Tasks : u # t => stage[u] = "none"
    BY <1>0, <2>2
  <2>6. cost = 0 /\ \A u \in Tasks : cost <= child[childOf[u]]
    <3>1. cost = 0
      BY <1>0, <2>2, <2>5
    <3> QED BY <3>1, <1>c
  <2> QED BY <1>0, <2>2, <2>3, <2>4, <2>5, <2>6 DEF CommandInv
<1>5. ASSUME NEW t \in Tasks, Write(t) PROVE CommandInv'
  <2>1. stage[t] = "writing" /\ \A u \in Tasks : stage'[u] = IF u = t THEN "over" ELSE stage[u]
    BY <1>5, Moves DEF Write
  <2>2. /\ cost' = seen[t] + amount[t] /\ overtaken' = (overtaken \/ Unstored)
        /\ UNCHANGED <<mode, own, copy, shared, base, child, childOf, amount>>
    BY <1>5 DEF Write, parent, books, children
  <2>3. seen[t] = cost
    BY <2>1 DEF LineInv
  <2>4. \A u \in Tasks : u # t => stage[u] = "none"
    BY <1>0, <2>1
  <2>5. cost = 0
    BY <1>0, <2>1, <2>4
  <2>6. cost' <= child[childOf[t]]
    <3>1. cost' = amount[t]
      BY <1>c, <2>2, <2>3, <2>5
    <3> QED BY <3>1, <1>0, <2>1 DEF InLine
  <2>7. ~ overtaken'
    BY <1>0, <2>2 DEF Unstored
  <2> QED BY <1>0, <2>1, <2>2, <2>4, <2>6, <2>7 DEF CommandInv
<1>6. ASSUME NEW t \in Tasks, Cancel(t) PROVE CommandInv'
  <2>1. \A u \in Tasks : stage'[u] = stage[u] \/ (stage[u] = "prompting" /\ stage'[u] = "returned")
    BY <1>6, Returns DEF Cancel
  <2>2. UNCHANGED <<mode, own, copy, shared, overtaken, base, child, childOf, cost, amount>>
    BY <1>6 DEF Cancel, parent, books, history
  <2> QED BY <1>m, <2>1, <2>2, CommandFrame DEF InLine
<1>7. ASSUME NEW s \in Sessions, Answer(s) PROVE CommandInv'
  <2>1. \A u \in Tasks : stage'[u] = stage[u] \/ (stage[u] = "prompting" /\ stage'[u] = "returned")
    BY <1>7, Returns DEF Answer
  <2>2. UNCHANGED <<mode, own, copy, shared, overtaken, base, child, childOf, cost, amount>>
    BY <1>7 DEF Answer, parent, books, history
  <2> QED BY <1>m, <2>1, <2>2, CommandFrame DEF InLine
<1>8. ASSUME NEW t \in Tasks, InterruptCommand(t) PROVE CommandInv'
  <2>1. /\ stage' = [stage EXCEPT ![t] = CASE @ = "preparing" -> "over"
                                           [] @ \in {"entering", "prompting"} -> "returned"
                                           [] OTHER -> @]
        /\ UNCHANGED <<mode, own, copy, shared, overtaken, base, child, childOf, cost, amount>>
    BY <1>8 DEF InterruptCommand, books, children, history
  <2>2. stage \in [Tasks -> Stages]
    BY DEF TypeOK
  <2>3. \A u \in Tasks : \/ stage'[u] = stage[u]
                         \/ stage[u] = "preparing" /\ stage'[u] = "over"
                         \/ stage[u] \in {"entering", "prompting"} /\ stage'[u] = "returned"
    BY <2>1, <2>2
  <2> QED BY <1>m, <2>1, <2>3, CommandFrame DEF InLine
<1>9. ASSUME NEW t \in Tasks, Record(t) PROVE CommandInv'
  <2>1. /\ cost' = child[childOf[t]] /\ stage[t] = "over"
        /\ UNCHANGED <<mode, own, copy, shared, overtaken, base, child, childOf, amount, stage>>
    BY <1>9 DEF Record, books, children, history
  <2>2. \A u \in Tasks : stage[u] = "over" => u = t
    BY <1>0, <2>1
  <2>3. cost' <= child[childOf[t]]
    BY <1>c, <2>1
  <2> QED BY <1>0, <2>1, <2>2, <2>3 DEF CommandInv, InLine
<1>10. ASSUME NEW s \in Sessions, Spend(s) PROVE CommandInv'
  <2>1. /\ child' = [child EXCEPT ![s] = child[s] + 1] /\ prompts[s] # <<>>
        /\ UNCHANGED <<mode, own, copy, shared, overtaken, base, childOf, amount, stage, cost>>
    BY <1>10 DEF Spend, parent, books, history
  <2>2. \E t \in Tasks : stage[t] # "none" /\ childOf[t] = s
    <3>1. prompts[s] \in Seq(Tasks)
      BY DEF TypeOK
    <3>2. 1 \in DOMAIN prompts[s] /\ prompts[s][1] \in Tasks
      BY <2>1, <3>1
    <3> QED BY <3>2 DEF CallsInv
  <2>3. \A r \in Sessions : child'[r] = IF r = s THEN child[s] + 1 ELSE child[r]
    BY <2>1 DEF TypeOK
  <2>4. \A t \in Tasks : child'[childOf[t]] \in Nat /\ child[childOf[t]] <= child'[childOf[t]]
    BY <2>3, <1>c
  <2>5. cost \in Nat
    BY DEF TypeOK
  <2>6. \A t \in Tasks : stage[t] = "over" => cost <= child'[childOf[t]]
    BY <1>0, <1>c, <2>4, <2>5
  <2>7. \A t \in Tasks : stage[t] \in InLine => amount[t] <= child'[childOf[t]]
    BY <1>0, <1>c, <2>4
  <2>8. \A r \in Sessions : child'[r] # 0 => \E t \in Tasks : stage[t] # "none" /\ childOf[t] = r
    BY <1>0, <2>2, <2>3
  <2> QED BY <1>0, <2>1, <2>6, <2>7, <2>8 DEF CommandInv, InLine
<1>11. CASE StepActions
  BY <1>m, <1>11 DEF StepActions, FinishStep, StoreStep, Break, Retry, Interrupt, Reconcile,
     Save, StepInv
<1>12. CASE UNCHANGED vars
  BY <1>m, <1>12, CommandFrame DEF vars, parent, books, children, history
<1> QED BY <1>1, <1>2, <1>3, <1>4, <1>5, <1>6, <1>7, <1>8, <1>9, <1>10, <1>11, <1>12
        DEF Next, Settling, Running, StepActions

----------------------------------------------------------------------------
(* What is counted *)

LEMMA OwedType ==
  ASSUME TypeOK
  PROVE  Owed \in [Tasks -> Int] /\ Total(Owed, Tasks) \in Int
<1>1. Owed \in [Tasks -> Int]
  BY DEF TypeOK, Owed
<1> QED BY <1>1, FiniteAssumption, TotalType

LEMMA OwedSame ==
  ASSUME UNCHANGED amount, \A u \in Tasks : stage'[u] \in InLine <=> stage[u] \in InLine
  PROVE  Owed' = Owed
  BY DEF Owed, InLine

LEMMA OwedChange ==
  ASSUME TypeOK, TypeOK', NEW t \in Tasks, \A u \in Tasks \ {t} : Owed'[u] = Owed[u]
  PROVE  Total(Owed', Tasks) = Total(Owed, Tasks) + (Owed'[t] - Owed[t])
<1>1. Owed \in [Tasks -> Int] /\ Owed' \in [Tasks -> Int]
  <2>1. amount' \in [Tasks -> Nat]
    BY DEF TypeOK
  <2> QED BY <2>1, OwedType DEF Owed
<1>2. PICK v \in [Tasks -> Int] : v = Owed
  BY <1>1
<1>3. PICK w \in [Tasks -> Int] : w = Owed'
  BY <1>1
<1>4. Total(w, Tasks) = Total(v, Tasks) + (w[t] - v[t])
  BY <1>2, <1>3, FiniteAssumption, TotalChange
<1> QED BY <1>2, <1>3, <1>4

LEMMA ClaimType ==
  ASSUME NEW h \in [Sessions -> Nat]
  PROVE  h \in [Sessions -> Int] /\ Total(h, Sessions) \in Int
  BY FiniteAssumption, TotalType

LEMMA ClaimMore ==
  ASSUME NEW h \in [Sessions -> Nat], NEW s \in Sessions, NEW d \in Nat
  PROVE  /\ [h EXCEPT ![s] = h[s] + d] \in [Sessions -> Nat]
         /\ Total([h EXCEPT ![s] = h[s] + d], Sessions) = Total(h, Sessions) + d
<1> DEFINE w == [h EXCEPT ![s] = h[s] + d]
<1>1. w \in [Sessions -> Nat] /\ w[s] = h[s] + d /\ \A r \in Sessions \ {s} : w[r] = h[r]
  OBVIOUS
<1>2. h[s] \in Nat /\ h \in [Sessions -> Int] /\ w \in [Sessions -> Int]
  BY <1>1
<1> HIDE DEF w
<1>3. Total(w, Sessions) = Total(h, Sessions) + (w[s] - h[s])
  BY <1>1, <1>2, FiniteAssumption, TotalChange
<1>4. w[s] - h[s] = d
  BY <1>1, <1>2
<1> QED BY <1>1, <1>3, <1>4 DEF w

(* One session alone. *)
LEMMA ClaimOne ==
  ASSUME NEW s \in Sessions, NEW d \in Nat
  PROVE  /\ [r \in Sessions |-> IF r = s THEN d ELSE 0] \in [Sessions -> Nat]
         /\ Total([r \in Sessions |-> IF r = s THEN d ELSE 0], Sessions) = d
<1> DEFINE z == [r \in Sessions |-> 0]
           w == [r \in Sessions |-> IF r = s THEN d ELSE 0]
<1>1. z \in [Sessions -> Int] /\ w \in [Sessions -> Int] /\ w \in [Sessions -> Nat]
  OBVIOUS
<1>2. w[s] - z[s] = d /\ \A r \in Sessions \ {s} : w[r] = z[r]
  OBVIOUS
<1>3. Total(z, Sessions) = 0
  BY FiniteAssumption, TotalZero
<1> HIDE DEF z, w
<1>4. Total(w, Sessions) = Total(z, Sessions) + (w[s] - z[s])
  BY <1>1, <1>2, FiniteAssumption, TotalChange
<1>5. Total(w, Sessions) = d
  BY <1>2, <1>3, <1>4
<1> QED BY <1>1, <1>5 DEF w

(* Steps that no sum and no call at work sees. *)
LEMMA CostFrame ==
  ASSUME CostInv, Listening' = Listening, Owed' = Owed,
         UNCHANGED <<mode, before, child, base, childOf, shared, overtaken, cost, copy, own>>,
         \/ mode = "command" /\ interrupted'
         \/ (Unstored' <=> Unstored) /\ (mode = "step" \/ UNCHANGED interrupted)
  PROVE  CostInv'
<1>1. ASSUME NEW h \in [Sessions -> Nat], AtMost(h) PROVE AtMost(h)'
  BY <1>1 DEF AtMost
<1>2. ASSUME NEW h \in [Sessions -> Nat], AtLeast(h), Unstored' <=> Unstored PROVE AtLeast(h)'
  BY <1>2 DEF AtLeast, Counted
<1>3. (~ shared => \E h \in [Sessions -> Nat] : AtMost(h))'
  BY <1>1 DEF CostInv
<1>4. (~ overtaken /\ (mode = "step" \/ ~ interrupted) => \E h \in [Sessions -> Nat] : AtLeast(h))'
  BY <1>2 DEF CostInv
<1> QED BY <1>3, <1>4 DEF CostInv

LEMMA BeginCost ==
  ASSUME TypeOK, CostInv, NEW t \in Tasks, Begin(t)
  PROVE  CostInv'
<1>s. stage[t] = "preparing" /\ \A u \in Tasks : stage'[u] = IF u = t THEN "entering" ELSE stage[u]
  BY Moves DEF Begin
<1>u. /\ UNCHANGED <<mode, interrupted, phase, child, base, childOf, overtaken, cost, copy, own, amount>>
      /\ before' = [before EXCEPT ![t] = child[childOf[t]]]
      /\ shared' = (shared \/ \E u \in Listening : childOf[u] = childOf[t])
  BY DEF Begin, parent, children
<1>b. before'[t] = child[childOf[t]] /\ childOf[t] \in Sessions /\ \A u \in Tasks : u # t => before'[u] = before[u]
  BY <1>u DEF TypeOK
<1>l. Listening' = Listening \cup {t} /\ t \notin Listening
  BY <1>s DEF Listening
<1>p. Owed' = Owed /\ (Unstored' <=> Unstored)
  <2>1. \A u \in Tasks : stage'[u] \in InLine <=> stage[u] \in InLine
    BY <1>s DEF InLine
  <2> QED BY <2>1, <1>u, OwedSame DEF Unstored
<1>1. ASSUME NEW h \in [Sessions -> Nat], AtMost(h) PROVE AtMost(h)'
  <2>1. (\A u \in Listening : base[childOf[u]] + h[childOf[u]] <= before[u])'
    <3> SUFFICES ASSUME NEW u \in Listening'
                 PROVE  base[childOf[u]] + h[childOf[u]] <= before'[u]
      BY <1>u
    <3>1. CASE u = t
      BY <3>1, <1>1, <1>b DEF AtMost
    <3>2. CASE u # t
      BY <3>2, <1>1, <1>b, <1>l DEF AtMost, Listening
    <3> QED BY <3>1, <3>2
  <2> QED BY <1>1, <1>p, <1>u, <2>1 DEF AtMost
<1>2. ASSUME NEW h \in [Sessions -> Nat], AtLeast(h) PROVE AtLeast(h)'
  <2>1. \A u \in Listening : u \in Listening' /\ before'[u] = before[u]
    BY <1>b, <1>l DEF Listening
  <2> QED BY <1>2, <1>p, <1>u, <2>1 DEF AtLeast, Counted
<1>3. (~ shared => \E h \in [Sessions -> Nat] : AtMost(h))'
  <2>1. ~ shared' => ~ shared
    BY <1>u DEF TypeOK
  <2> QED BY <2>1, <1>1 DEF CostInv
<1>4. (~ overtaken /\ (mode = "step" \/ ~ interrupted) => \E h \in [Sessions -> Nat] : AtLeast(h))'
  BY <1>2, <1>u DEF CostInv
<1> QED BY <1>3, <1>4 DEF CostInv

LEMMA ReleaseCost ==
  ASSUME TypeOK, TypeOK', CallsInv, CostInv, NEW t \in Tasks, Release(t)
  PROVE  CostInv'
<1> DEFINE c == childOf[t]
           d == child[c] - before[t]
<1>s. PICK to \in {"locking", "over"} : /\ Move(t, "returned", to)
                                        /\ to = IF d > 0 THEN "locking" ELSE "over"
                                        /\ amount' = [amount EXCEPT ![t] = d]
  BY DEF Release, Move
<1>m. stage[t] = "returned" /\ \A u \in Tasks : stage'[u] = IF u = t THEN to ELSE stage[u]
  BY <1>s, Moves
<1>u. UNCHANGED <<mode, interrupted, phase, before, child, base, childOf, shared, overtaken, cost, copy, own>>
  BY DEF Release, parent, children, history
<1>l. Listening' = Listening \ {t} /\ t \in Listening
  BY <1>m, <1>s DEF Listening
<1>t. /\ c \in Sessions /\ child[c] \in Nat /\ before[t] \in Nat /\ base[c] \in Nat
      /\ base[c] <= before[t] /\ before[t] <= child[c]
  <2>1. base \in [Sessions -> 0..1] /\ child \in [Sessions -> 0..MaxCost] /\ c \in Sessions /\ before[t] \in Nat
    BY DEF TypeOK
  <2>2. base[c] \in Nat /\ child[c] \in Nat
    BY <2>1, BoundsAssumption
  <2> QED BY <2>1, <2>2, <1>l DEF CallsInv
<1>d. d \in Nat /\ child[c] = before[t] + d
  BY <1>t
<1>a. amount'[t] = d /\ \A u \in Tasks : u # t => amount'[u] = amount[u]
  BY <1>s DEF TypeOK
<1> HIDE DEF c, d
<1>p. Total(Owed', Tasks) = Total(Owed, Tasks) + d
  <2>1. \A u \in Tasks \ {t} : Owed'[u] = Owed[u]
    BY <1>a, <1>m DEF Owed
  <2>2. Owed[t] = 0
    BY <1>m DEF Owed
  <2>3. Owed'[t] = IF d > 0 THEN d ELSE 0
    BY <1>a, <1>m, <1>s DEF Owed
  <2>4. Owed'[t] - Owed[t] = d
    BY <2>2, <2>3, <1>d
  <2> QED BY <2>1, <2>4, OwedChange
<1>i. Total(Owed, Tasks) \in Int /\ cost \in Nat /\ copy \in Nat /\ own \in Nat
  BY OwedType DEF TypeOK
<1>c. (Unstored' <=> Unstored) /\ Counted' = Counted /\ Counted \in Nat
  BY <1>u, <1>i DEF Unstored, Counted
<1>b. \A s \in Sessions : child[s] \in Nat /\ base[s] \in Nat
  <2>1. base \in [Sessions -> 0..1] /\ child \in [Sessions -> 0..MaxCost]
    BY DEF TypeOK
  <2> QED BY <2>1, BoundsAssumption
<1>h. ASSUME NEW h \in [Sessions -> Nat]
      PROVE  \E w \in [Sessions -> Nat] :
               /\ w[c] = h[c] + d /\ \A r \in Sessions \ {c} : w[r] = h[r]
               /\ Total(w, Sessions) = Total(h, Sessions) + d
               /\ Total(h, Sessions) \in Int
  <2>1. [h EXCEPT ![c] = h[c] + d] \in [Sessions -> Nat]
        /\ Total([h EXCEPT ![c] = h[c] + d], Sessions) = Total(h, Sessions) + d
    BY ZenonT(60), <1>t, <1>d, ClaimMore
  <2> QED BY <2>1, <1>t, ClaimType
<1>1. ASSUME NEW h \in [Sessions -> Nat], AtMost(h), ~ shared
      PROVE  \E w \in [Sessions -> Nat] : AtMost(w)'
  <2>1. PICK w \in [Sessions -> Nat] :
               /\ w[c] = h[c] + d /\ \A r \in Sessions \ {c} : w[r] = h[r]
               /\ Total(w, Sessions) = Total(h, Sessions) + d
               /\ Total(h, Sessions) \in Int
    BY <1>h
  <2>2. \A s \in Sessions : base[s] + w[s] <= child[s]
    <3> SUFFICES ASSUME NEW s \in Sessions PROVE base[s] + w[s] <= child[s]
      OBVIOUS
    <3>1. CASE s = c
      <4>1. base[c] + h[c] <= before[t] /\ h[c] \in Nat
        BY <1>1, <1>l, <1>t DEF AtMost, c
      <4> QED BY <3>1, <4>1, <2>1, <1>d, <1>t
    <3>2. CASE s # c
      BY <3>2, <1>1, <2>1 DEF AtMost
    <3> QED BY <3>1, <3>2
  <2>3. \A u \in Listening' : base[childOf[u]] + w[childOf[u]] <= before[u]
    <3> SUFFICES ASSUME NEW u \in Listening' PROVE base[childOf[u]] + w[childOf[u]] <= before[u]
      OBVIOUS
    <3>1. u \in Listening /\ u # t /\ childOf[u] # c
      BY <1>1, <1>l DEF CallsInv, c
    <3>2. childOf[u] \in Sessions
      BY <3>1 DEF Listening, TypeOK
    <3> QED BY <3>1, <3>2, <1>1, <2>1 DEF AtMost
  <2>4. /\ cost + (Total(Owed, Tasks) + d) <= own + Total(w, Sessions)
        /\ copy + (Total(Owed, Tasks) + d) <= own + Total(w, Sessions)
    BY <1>1, <1>d, <1>i, <2>1 DEF AtMost
  <2>5. AtMost(w)'
    BY <1>u, <1>p, <2>2, <2>3, <2>4 DEF AtMost
  <2> QED BY <2>5
<1>2. ASSUME NEW h \in [Sessions -> Nat], AtLeast(h)
      PROVE  \E w \in [Sessions -> Nat] : AtLeast(w)'
  <2>1. PICK w \in [Sessions -> Nat] :
               /\ w[c] = h[c] + d /\ \A r \in Sessions \ {c} : w[r] = h[r]
               /\ Total(w, Sessions) = Total(h, Sessions) + d
               /\ Total(h, Sessions) \in Int
    BY <1>h
  <2>2. ASSUME NEW s \in Sessions
        PROVE  \/ child[s] <= base[s] + w[s]
               \/ \E u \in Listening' : childOf[u] = s /\ before[u] <= base[s] + w[s]
    <3>0. h[s] \in Nat /\ w[s] \in Nat /\ h[s] <= w[s]
      <4>1. h[s] \in Nat /\ w[s] \in Nat
        OBVIOUS
      <4> QED BY <2>1, <4>1, <1>d
    <3>1. CASE child[s] <= base[s] + h[s]
      BY <3>0, <3>1, <1>b
    <3>2. ASSUME NEW u \in Listening, childOf[u] = s, before[u] <= base[s] + h[s], u # t
          PROVE  \E v \in Listening' : childOf[v] = s /\ before[v] <= base[s] + w[s]
      <4>1. before[u] \in Nat /\ u \in Listening'
        BY <3>2, <1>l DEF TypeOK, Listening
      <4>2. before[u] <= base[s] + w[s]
        BY <3>0, <3>2, <4>1, <1>b
      <4> QED BY <3>2, <4>1, <4>2
    <3>3. CASE c = s /\ before[t] <= base[s] + h[s]
      <4>1. child[s] = before[t] + d /\ w[s] = h[s] + d
        BY <3>3, <2>1, <1>d
      <4> QED BY <3>0, <3>3, <4>1, <1>b, <1>d, <1>t
    <3> QED BY <1>2, <3>1, <3>2, <3>3 DEF AtLeast, c
  <2>3. Counted + (Total(Owed, Tasks) + d) >= own + Total(w, Sessions)
    BY <1>2, <1>c, <1>d, <1>i, <2>1 DEF AtLeast
  <2>4. AtLeast(w)'
    BY <1>u, <1>p, <1>c, <2>2, <2>3 DEF AtLeast
  <2> QED BY <2>4
<1>3. (~ shared => \E h \in [Sessions -> Nat] : AtMost(h))'
  BY <1>1, <1>u DEF CostInv
<1>4. (~ overtaken /\ (mode = "step" \/ ~ interrupted) => \E h \in [Sessions -> Nat] : AtLeast(h))'
  BY <1>2, <1>u DEF CostInv
<1> QED BY <1>3, <1>4 DEF CostInv

LEMMA WriteCost ==
  ASSUME TypeOK, TypeOK', LineInv, CostInv, NEW t \in Tasks, Write(t)
  PROVE  CostInv'
<1>s. stage[t] = "writing" /\ \A u \in Tasks : stage'[u] = IF u = t THEN "over" ELSE stage[u]
  BY Moves DEF Write
<1>u. /\ cost' = seen[t] + amount[t] /\ overtaken' = (overtaken \/ Unstored)
      /\ UNCHANGED <<mode, interrupted, phase, before, child, base, childOf, shared, copy, own, amount>>
  BY DEF Write, parent, books, children
<1>l. Listening' = Listening
  BY <1>s DEF Listening
<1>i. /\ Total(Owed, Tasks) \in Int /\ cost \in Nat /\ copy \in Nat /\ own \in Nat
      /\ amount[t] \in Nat /\ overtaken \in BOOLEAN
  BY OwedType DEF TypeOK
<1>c. cost' = cost + amount[t]
  BY <1>s, <1>u DEF LineInv
<1>p. Total(Owed', Tasks) = Total(Owed, Tasks) - amount[t]
  <2>1. \A u \in Tasks \ {t} : Owed'[u] = Owed[u]
    BY <1>s, <1>u DEF Owed
  <2>2. Owed[t] = amount[t] /\ Owed'[t] = 0
    BY <1>s DEF Owed
  <2> QED BY <2>1, <2>2, <1>i, OwedChange
<1>1. ASSUME NEW h \in [Sessions -> Nat], AtMost(h) PROVE AtMost(h)'
  <2>1. Total(h, Sessions) \in Int
    BY ClaimType
  <2>2. /\ cost' + (Total(Owed, Tasks) - amount[t]) <= own + Total(h, Sessions)
        /\ copy + (Total(Owed, Tasks) - amount[t]) <= own + Total(h, Sessions)
    BY <1>1, <1>c, <1>i, <2>1 DEF AtMost
  <2> QED BY <1>1, <1>u, <1>l, <1>p, <2>2 DEF AtMost
<1>2. ASSUME NEW h \in [Sessions -> Nat], AtLeast(h), ~ overtaken' PROVE AtLeast(h)'
  <2>1. Total(h, Sessions) \in Int
    BY ClaimType
  <2>2. ~ Unstored /\ ~ Unstored'
    BY <1>2, <1>u, <1>i DEF Unstored
  <2>3. cost' + (Total(Owed, Tasks) - amount[t]) >= own + Total(h, Sessions)
    BY <1>2, <1>c, <1>i, <2>1, <2>2 DEF AtLeast, Counted
  <2> QED BY <1>2, <1>u, <1>l, <1>p, <2>2, <2>3 DEF AtLeast, Counted
<1>3. (~ shared => \E h \in [Sessions -> Nat] : AtMost(h))'
  BY <1>1, <1>u DEF CostInv
<1>4. (~ overtaken /\ (mode = "step" \/ ~ interrupted) => \E h \in [Sessions -> Nat] : AtLeast(h))'
  BY <1>2, <1>u, <1>i DEF CostInv
<1> QED BY <1>3, <1>4 DEF CostInv

LEMMA SpendCost ==
  ASSUME TypeOK, TypeOK', CallsInv, CostInv, NEW s \in Sessions, Spend(s)
  PROVE  CostInv'
<1>u. /\ prompts[s] # <<>> /\ child' = [child EXCEPT ![s] = child[s] + 1]
      /\ UNCHANGED <<mode, interrupted, phase, before, base, childOf, shared, overtaken, cost, copy, own, amount, stage>>
  BY DEF Spend, parent, books, history
<1>p. Owed' = Owed /\ Listening' = Listening /\ (Unstored' <=> Unstored) /\ Counted' = Counted
  BY <1>u DEF Owed, Listening, Unstored, Counted
<1>b. \A r \in Sessions : child[r] \in Nat /\ child'[r] \in Nat /\ base[r] \in Nat
  <2>1. base \in [Sessions -> 0..1] /\ child \in [Sessions -> 0..MaxCost] /\ child' \in [Sessions -> 0..MaxCost]
    BY DEF TypeOK
  <2> QED BY <2>1, BoundsAssumption
<1>c. child'[s] = child[s] + 1 /\ \A r \in Sessions : r # s => child'[r] = child[r]
  BY <1>u DEF TypeOK
<1>1. ASSUME NEW h \in [Sessions -> Nat], AtMost(h) PROVE AtMost(h)'
  <2>1. ASSUME NEW r \in Sessions PROVE base[r] + h[r] <= child'[r]
    <3>1. base[r] + h[r] <= child[r] /\ h[r] \in Nat
      BY <1>1 DEF AtMost
    <3> QED BY <3>1, <1>b, <1>c
  <2> QED BY <1>1, <1>u, <1>p, <2>1 DEF AtMost
<1>2. ASSUME NEW h \in [Sessions -> Nat], AtLeast(h), mode = "step" \/ ~ interrupted PROVE AtLeast(h)'
  <2>1. PICK t \in Listening : childOf[t] = s /\ before[t] <= child[s]
    <3>1. prompts[s] \in Seq(Tasks)
      BY DEF TypeOK
    <3>2. 1 \in DOMAIN prompts[s] /\ prompts[s][1] \in Tasks
      BY <1>u, <3>1
    <3> QED BY <3>2, <1>2 DEF CallsInv, Listening
  <2>2. before[t] \in Nat /\ h[s] \in Nat
    BY <2>1 DEF Listening, TypeOK
  <2>3. ASSUME NEW r \in Sessions
        PROVE  \/ child'[r] <= base[r] + h[r]
               \/ \E u \in Listening : childOf[u] = r /\ before[u] <= base[r] + h[r]
    <3>1. CASE r # s
      BY <3>1, <1>2, <1>c DEF AtLeast
    <3>2. CASE r = s
      <4>1. CASE child[s] <= base[s] + h[s]
        <5>1. before[t] <= base[s] + h[s]
          BY <4>1, <2>1, <2>2, <1>b
        <5> QED BY <5>1, <2>1, <3>2
      <4>2. CASE \E u \in Listening : childOf[u] = s /\ before[u] <= base[s] + h[s]
        BY <4>2, <3>2
      <4> QED BY <1>2, <4>1, <4>2 DEF AtLeast
    <3> QED BY <3>1, <3>2
  <2> QED BY <1>2, <1>u, <1>p, <2>3 DEF AtLeast
<1>3. (~ shared => \E h \in [Sessions -> Nat] : AtMost(h))'
  BY <1>1, <1>u DEF CostInv
<1>4. (~ overtaken /\ (mode = "step" \/ ~ interrupted) => \E h \in [Sessions -> Nat] : AtLeast(h))'
  BY <1>2, <1>u DEF CostInv
<1> QED BY <1>3, <1>4 DEF CostInv

(* Steps of the parent that count something. *)
LEMMA StepCost ==
  ASSUME TypeOK, TypeOK', StepInv, CostInv, FinishStep \/ StoreStep \/ Reconcile \/ Save
  PROVE  CostInv'
<1>u. UNCHANGED <<mode, before, child, base, childOf, shared, overtaken, amount, stage, interrupted>> /\ mode = "step"
  BY DEF FinishStep, StoreStep, Reconcile, Save, StepInv, books, children, history
<1>p. Owed' = Owed /\ Listening' = Listening
  BY <1>u DEF Owed, Listening
<1>i. /\ Total(Owed, Tasks) \in Int /\ cost \in Nat /\ copy \in Nat /\ own \in Nat
      /\ interrupted \in BOOLEAN /\ overtaken \in BOOLEAN
  BY OwedType DEF TypeOK
<1>s. /\ interrupted => phase \in {"waiting", "saving", "ended"}
      /\ phase \in {"working", "retrying"} => own = 0
      /\ phase = "tracking" => own # 0
      /\ phase = "saving" => copy >= cost
  BY <1>u DEF StepInv
<1>1. ASSUME \A n \in Int : cost + n <= own /\ copy + n <= own => cost' + n <= own' /\ copy' + n <= own',
             \A n \in Int : ~ overtaken /\ Counted + n >= own => Counted' + n >= own'
      PROVE  CostInv'
  <2>1. ASSUME NEW h \in [Sessions -> Nat], AtMost(h) PROVE AtMost(h)'
    <3>1. Total(h, Sessions) \in Int
      BY ClaimType
    <3>2. PICK n \in Int : n = Total(Owed, Tasks) - Total(h, Sessions)
      BY <3>1, <1>i
    <3>3. cost + n <= own /\ copy + n <= own
      BY <2>1, <3>1, <3>2, <1>i DEF AtMost
    <3>4. cost' + n <= own' /\ copy' + n <= own' /\ cost' \in Nat /\ copy' \in Nat /\ own' \in Nat
      BY <1>1, <3>3 DEF TypeOK
    <3>5. cost' + Total(Owed, Tasks) <= own' + Total(h, Sessions) /\ copy' + Total(Owed, Tasks) <= own' + Total(h, Sessions)
      BY <3>1, <3>2, <3>4, <1>i
    <3> QED BY <2>1, <3>5, <1>u, <1>p DEF AtMost
  <2>2. ASSUME NEW h \in [Sessions -> Nat], AtLeast(h), ~ overtaken PROVE AtLeast(h)'
    <3>1. Total(h, Sessions) \in Int /\ Counted \in Nat
      BY ClaimType, <1>i DEF Counted
    <3>2. PICK n \in Int : n = Total(Owed, Tasks) - Total(h, Sessions)
      BY <3>1, <1>i
    <3>3. Counted + n >= own
      BY <2>2, <3>1, <3>2, <1>i DEF AtLeast
    <3>4. Counted' + n >= own' /\ Counted' \in Nat /\ own' \in Nat
      BY <1>1, <2>2, <3>3 DEF TypeOK, Counted
    <3>5. Counted' + Total(Owed, Tasks) >= own' + Total(h, Sessions)
      BY <3>1, <3>2, <3>4, <1>i
    <3> QED BY <2>2, <3>5, <1>u, <1>p DEF AtLeast
  <2>3. (~ shared => \E h \in [Sessions -> Nat] : AtMost(h))'
    BY <2>1, <1>u DEF CostInv
  <2>4. (~ overtaken /\ (mode = "step" \/ ~ interrupted) => \E h \in [Sessions -> Nat] : AtLeast(h))'
    BY <2>2, <1>u DEF CostInv
  <2> QED BY <2>3, <2>4 DEF CostInv
<1>2. CASE FinishStep
  <2>1. /\ phase = "working" /\ phase' = "tracking" /\ own' = own + 1 /\ cost' = cost /\ own = 0
        /\ copy' = (IF cost > copy THEN cost ELSE copy) + 1
    BY <1>2, <1>s DEF FinishStep, ReconciledCopy
  <2>2. Counted = cost /\ Counted' = copy'
    BY <2>1 DEF Counted, Unstored
  <2> QED BY <1>1, <1>i, <2>1, <2>2
<1>3. CASE StoreStep
  <2>1. phase = "tracking" /\ phase' = "waiting" /\ own' = own /\ copy' = copy /\ cost' = copy /\ own # 0 /\ ~ interrupted
    BY <1>3, <1>s DEF StoreStep
  <2>2. Counted = copy /\ Counted' = copy
    BY <2>1, <1>u DEF Counted, Unstored
  <2> QED BY <1>1, <1>i, <2>1, <2>2
<1>4. CASE Reconcile
  <2>1. /\ phase = "waiting" /\ phase' = "saving" /\ own' = own /\ cost' = cost
        /\ copy' = (IF cost > copy THEN cost ELSE copy)
    BY <1>4 DEF Reconcile, ReconciledCopy
  <2>2. Unstored' <=> Unstored
    BY <2>1, <1>u DEF Unstored
  <2>3. Counted' = Counted \/ (Counted = copy /\ Counted' = copy' /\ copy' >= copy)
    BY <2>1, <2>2, <1>i DEF Counted
  <2>4. Counted' >= Counted /\ Counted \in Nat /\ Counted' \in Nat
    BY <2>1, <2>3, <1>i DEF Counted
  <2>5. \A n \in Int : cost + n <= own /\ copy + n <= own => cost' + n <= own' /\ copy' + n <= own'
    BY <2>1
  <2>6. \A n \in Int : Counted + n >= own => Counted' + n >= own'
    <3> SUFFICES ASSUME NEW n \in Int, Counted + n >= own PROVE Counted' + n >= own
      BY <2>1
    <3>1. PICK a \in Nat, b \in Nat, c \in Nat : a = Counted /\ b = Counted' /\ c = own
      BY <2>4, <1>i
    <3>2. b >= a /\ a + n >= c
      BY <2>4, <3>1
    <3>3. b + n >= c
      BY <3>2
    <3> QED BY <3>1, <3>3
  <2> QED BY <1>1, <2>5, <2>6
<1>5. CASE Save
  <2>1. phase = "saving" /\ phase' = "ended" /\ own' = own /\ cost' = copy /\ copy' = copy /\ copy >= cost
    BY <1>5, <1>s DEF Save
  <2>2. Counted \in {cost, copy} /\ Counted' = copy
    BY <2>1 DEF Counted, Unstored
  <2> QED BY <1>1, <1>i, <2>1, <2>2
<1> QED BY <1>2, <1>3, <1>4, <1>5

(* A command's wrapper takes over what its child has cost. *)
LEMMA RecordCost ==
  ASSUME TypeOK, TypeOK', CommandInv, CallsInv, CostInv, NEW t \in Tasks, Record(t)
  PROVE  CostInv'
<1> DEFINE c == childOf[t]
           h == [r \in Sessions |-> IF r = c THEN child[c] ELSE 0]
<1>u. /\ UNCHANGED <<mode, before, child, base, childOf, shared, overtaken, amount, stage, copy, own>>
      /\ cost' = child[c] /\ stage[t] = "over" /\ mode = "command"
  BY DEF Record, books, children, history
<1>t. /\ c \in Sessions /\ child[c] \in Nat /\ \A r \in Sessions : child[r] \in Nat
      /\ own = 0 /\ copy = 0 /\ \A r \in Sessions : base[r] = 0
      /\ \A u \in Tasks : u # t => stage[u] = "none"
  <2>1. child \in [Sessions -> 0..MaxCost] /\ c \in Sessions
    BY DEF TypeOK
  <2>2. \A r \in Sessions : child[r] \in Nat
    BY <2>1, BoundsAssumption
  <2> QED BY <2>1, <2>2, <1>u DEF CommandInv
<1>l. Listening' = {}
  BY <1>t, <1>u DEF Listening
<1>p. Total(Owed', Tasks) = 0
  <2>1. Owed' = [u \in Tasks |-> 0]
    BY <1>t, <1>u DEF Owed
  <2> QED BY <2>1, FiniteAssumption, TotalZero
<1>c. \A r \in Sessions : child[r] # 0 => r = c
  BY <1>t, <1>u DEF CommandInv
<1> HIDE DEF c
<1>h. h \in [Sessions -> Nat] /\ Total(h, Sessions) = child[c]
  BY <1>t, ClaimOne
<1>v. \A r \in Sessions : h[r] = child[r]
  BY <1>c, <1>t
<1> HIDE DEF h
<1>w. PICK w \in [Sessions -> Nat] : w = h
  BY <1>h
<1>x. Total(w, Sessions) = child[c] /\ \A r \in Sessions : base[r] + w[r] = child[r]
  BY <1>h, <1>t, <1>v, <1>w
<1>1. AtMost(w)'
  <2>1. cost' + 0 <= 0 + child[c] /\ copy + 0 <= 0 + child[c]
    BY <1>t, <1>u
  <2>2. \A r \in Sessions : base[r] + w[r] <= child[r]
    BY <1>t, <1>x
  <2> QED BY <1>u, <1>t, <1>l, <1>p, <1>x, <2>1, <2>2 DEF AtMost
<1>2. AtLeast(w)'
  <2>1. ~ Unstored' /\ Counted' = child[c]
    BY <1>u, <1>t DEF Unstored, Counted
  <2>2. \A r \in Sessions : child[r] <= base[r] + w[r]
    BY <1>t, <1>x
  <2>3. child[c] + 0 >= 0 + child[c]
    BY <1>t
  <2> QED BY <1>u, <1>t, <1>p, <1>x, <2>1, <2>2, <2>3 DEF AtLeast
<1> QED BY <1>1, <1>2, <1>w DEF CostInv

LEMMA NextCost ==
  TypeOK /\ TypeOK' /\ CallsInv /\ LineInv /\ StepInv /\ CommandInv /\ CostInv /\ [Next]_vars => CostInv'
<1> SUFFICES ASSUME TypeOK, TypeOK', CallsInv, LineInv, StepInv, CommandInv, CostInv, [Next]_vars
             PROVE  CostInv'
  OBVIOUS
<1>f. ASSUME \A u \in Tasks : /\ stage'[u] \in InLine <=> stage[u] \in InLine
                              /\ u \in Listening' <=> u \in Listening,
             UNCHANGED <<mode, phase, interrupted, amount, before, child, base, childOf, shared,
             overtaken, cost, copy, own>>
      PROVE  CostInv'
  <2>1. Listening' = Listening
    BY <1>f DEF Listening
  <2>2. Owed' = Owed /\ (Unstored' <=> Unstored)
    BY <1>f, OwedSame DEF Unstored
  <2> QED BY <1>f, <2>1, <2>2, CostFrame
<1>m. ASSUME NEW t \in Tasks, NEW from, NEW to, Move(t, from, to),
             from \in InLine <=> to \in InLine,
             from \in {"entering", "prompting", "returned"} <=> to \in {"entering", "prompting", "returned"},
             UNCHANGED <<mode, phase, interrupted, amount, before, child, base, childOf, shared,
             overtaken, cost, copy, own>>
      PROVE  CostInv'
  <2>1. stage[t] = from /\ \A u \in Tasks : stage'[u] = IF u = t THEN to ELSE stage[u]
    BY <1>m, Moves
  <2> QED BY <1>f, <1>m, <2>1 DEF Listening
<1>1. ASSUME NEW t \in Tasks, Call(t) \/ Refuse(t) \/ Enqueue(t) \/ Fail(t) \/ Read(t) PROVE CostInv'
  BY <1>m, <1>1 DEF Call, Refuse, Enqueue, Fail, Read, parent, books, children, history, InLine
<1>2. ASSUME NEW t \in Tasks, Begin(t) \/ Release(t) \/ Write(t) \/ Record(t) PROVE CostInv'
  BY <1>2, BeginCost, ReleaseCost, WriteCost, RecordCost
<1>3. ASSUME NEW t \in Tasks, Cancel(t) PROVE CostInv'
  <2>1. \A u \in Tasks : stage'[u] = stage[u] \/ (stage[u] = "prompting" /\ stage'[u] = "returned")
    BY <1>3, Returns DEF Cancel
  <2> QED BY <1>f, <1>3, <2>1 DEF Cancel, parent, books, history, Listening, InLine
<1>4. ASSUME NEW s \in Sessions, Answer(s) PROVE CostInv'
  <2>1. \A u \in Tasks : stage'[u] = stage[u] \/ (stage[u] = "prompting" /\ stage'[u] = "returned")
    BY <1>4, Returns DEF Answer
  <2> QED BY <1>f, <1>4, <2>1 DEF Answer, parent, books, history, Listening, InLine
<1>5. ASSUME NEW s \in Sessions, Spend(s) PROVE CostInv'
  BY <1>5, SpendCost
<1>6. ASSUME NEW t \in Tasks, InterruptCommand(t) PROVE CostInv'
  <2>1. /\ stage' = [stage EXCEPT ![t] = CASE @ = "preparing" -> "over"
                                           [] @ \in {"entering", "prompting"} -> "returned"
                                           [] OTHER -> @]
        /\ mode = "command" /\ interrupted'
        /\ UNCHANGED <<mode, own, copy, shared, overtaken, before, base, child, childOf, cost, amount>>
    BY <1>6 DEF InterruptCommand, books, children, history
  <2>2. stage \in [Tasks -> Stages]
    BY DEF TypeOK
  <2>3. \A u \in Tasks : \/ stage'[u] = stage[u]
                         \/ stage[u] = "preparing" /\ stage'[u] = "over"
                         \/ stage[u] \in {"entering", "prompting"} /\ stage'[u] = "returned"
    BY <2>1, <2>2
  <2>4. Listening' = Listening
    BY <2>3 DEF Listening
  <2>5. Owed' = Owed
    BY <2>1, <2>3, OwedSame DEF InLine
  <2> QED BY <2>1, <2>4, <2>5, CostFrame
<1>7. CASE FinishStep \/ StoreStep \/ Reconcile \/ Save
  BY <1>7, StepCost
<1>8. CASE Break \/ Retry \/ Interrupt
  <2>1. UNCHANGED <<mode, own, copy, shared, overtaken, before, base, child, childOf, cost, amount, stage>> /\ mode = "step"
    BY <1>8 DEF Break, Retry, Interrupt, StepInv, books, children, history
  <2>2. Listening' = Listening /\ Owed' = Owed
    BY <2>1 DEF Listening, Owed
  <2>3. Unstored' <=> Unstored
    <3>1. CASE Break \/ Retry
      BY <3>1 DEF Break, Retry, Unstored, StepInv
    <3>2. CASE Interrupt
      BY <3>2 DEF Interrupt, Unstored, StepInv
    <3> QED BY <1>8, <3>1, <3>2
  <2> QED BY <2>1, <2>2, <2>3, CostFrame
<1>9. CASE UNCHANGED vars
  BY <1>f, <1>9 DEF vars, parent, books, children, history, Listening
<1> QED BY <1>1, <1>2, <1>3, <1>4, <1>5, <1>6, <1>7, <1>8, <1>9 DEF Next, Settling, Running

----------------------------------------------------------------------------
(* The invariant and the theorems *)

LEMMA InitIInv == Init => IInv
<1> SUFFICES ASSUME Init PROVE IInv
  OBVIOUS
<1>1. TypeOK
  BY InitTypes
<1>2. /\ \A t \in Tasks : stage[t] = "none" /\ \A s \in Sessions : prompts[s] = <<>>
      /\ line = <<>> /\ child = base /\ phase = "working" /\ own = 0 /\ copy = 0 /\ cost = 0
      /\ ~ interrupted /\ ~ shared /\ ~ overtaken
  BY DEF Init
<1>3. Listening = {}
  BY <1>2 DEF Listening
<1>4. \A s \in Sessions : child[s] \in Nat /\ base[s] \in Nat
  <2>1. base \in [Sessions -> 0..1] /\ child \in [Sessions -> 0..MaxCost]
    BY <1>1 DEF TypeOK
  <2> QED BY <2>1, BoundsAssumption
<1>5. CallsInv
  <2>1. \A s \in Sessions : DOMAIN prompts[s] = {}
    <3> SUFFICES ASSUME NEW s \in Sessions PROVE DOMAIN prompts[s] = {}
      OBVIOUS
    <3>1. prompts[s] = <<>> /\ prompts[s] \in Seq(Tasks)
      BY <1>1, <1>2 DEF TypeOK
    <3> QED BY <3>1
  <2>2. \A s \in Sessions : base[s] <= child[s]
    BY <1>2, <1>4
  <2> QED BY <1>3, <2>1, <2>2 DEF CallsInv, Distinct
<1>6. LineInv /\ StepInv
  BY <1>2 DEF LineInv, StepInv, Distinct
<1>7. CommandInv
  BY <1>2, <1>4 DEF CommandInv, Init
<1>8. CostInv
  <2> DEFINE h == [s \in Sessions |-> 0]
  <2>1. h \in [Sessions -> Nat] /\ Total(h, Sessions) = 0 /\ \A s \in Sessions : h[s] = 0
    BY FiniteAssumption, TotalZero
  <2>2. Total(Owed, Tasks) = 0
    <3>1. Owed = [t \in Tasks |-> 0]
      BY <1>2 DEF Owed
    <3> QED BY <3>1, FiniteAssumption, TotalZero
  <2> HIDE DEF h
  <2>3. AtMost(h)
    BY <1>2, <1>3, <1>4, <2>1, <2>2 DEF AtMost
  <2>4. AtLeast(h)
    BY <1>2, <1>4, <2>1, <2>2 DEF AtLeast, Counted, Unstored
  <2> QED BY <2>1, <2>3, <2>4 DEF CostInv
<1> QED BY <1>1, <1>5, <1>6, <1>7, <1>8 DEF IInv

LEMMA Invariance == Spec => []IInv
<1>1. IInv /\ [Next]_vars => IInv'
  BY NextTypes, NextCalls, NextLine, NextStep, NextCommand, NextCost DEF IInv
<1> QED BY InitIInv, <1>1, PTL DEF Spec

LEMMA NotTooMuch == IInv => CountedOnce
<1> SUFFICES ASSUME IInv, ~ shared PROVE cost <= Spent
  BY DEF CountedOnce
<1>1. PICK h \in [Sessions -> Nat] : AtMost(h)
  BY DEF IInv, CostInv
<1>2. TypeOK /\ Spent = own + Total(Spending, Sessions)
  BY SpentIsTotal DEF IInv
<1>3. /\ Spending \in [Sessions -> Int] /\ h \in [Sessions -> Int]
      /\ \A s \in Sessions : child[s] \in Nat /\ base[s] \in Nat /\ h[s] \in Nat
  <2>1. base \in [Sessions -> 0..1] /\ child \in [Sessions -> 0..MaxCost]
    BY <1>2 DEF TypeOK
  <2>2. \A s \in Sessions : child[s] \in Nat /\ base[s] \in Nat /\ h[s] \in Nat
    BY <2>1, BoundsAssumption
  <2> QED BY <2>2 DEF Spending
<1>4. \A s \in Sessions : h[s] <= Spending[s]
  BY <1>1, <1>3 DEF AtMost, Spending
<1>5. Total(h, Sessions) <= Total(Spending, Sessions)
  BY <1>3, <1>4, FiniteAssumption, TotalGrows
<1>6. Total(h, Sessions) \in Int /\ Total(Spending, Sessions) \in Int /\ cost \in Nat /\ own \in Nat
  BY <1>2, <1>3, FiniteAssumption, TotalType DEF TypeOK
<1>7. Total(Owed, Tasks) >= 0 /\ Total(Owed, Tasks) \in Int
  <2>1. Owed \in [Tasks -> Int] /\ Total(Owed, Tasks) \in Int
    BY <1>2, OwedType
  <2>2. \A t \in Tasks : [u \in Tasks |-> 0][t] <= Owed[t]
    BY <1>2 DEF TypeOK, Owed
  <2>3. Total([u \in Tasks |-> 0], Tasks) <= Total(Owed, Tasks)
    <3>1. PICK z : z = [u \in Tasks |-> 0]
      OBVIOUS
    <3>2. z \in [Tasks -> Int] /\ \A t \in Tasks : z[t] <= Owed[t]
      BY <2>2, <3>1
    <3> QED BY <2>1, <3>1, <3>2, FiniteAssumption, TotalGrows
  <2> QED BY <2>1, <2>3, FiniteAssumption, TotalZero
<1> QED BY <1>1, <1>2, <1>5, <1>6, <1>7 DEF AtMost

LEMMA NotTooLittle == IInv => NothingLost
<1> SUFFICES ASSUME IInv, phase = "ended", \A t \in Tasks : stage[t] \in {"none", "over"},
                    mode = "step" \/ ~ interrupted, ~ overtaken
             PROVE  cost >= Spent
  BY DEF NothingLost
<1>1. PICK h \in [Sessions -> Nat] : AtLeast(h)
  BY DEF IInv, CostInv
<1>2. TypeOK /\ Spent = own + Total(Spending, Sessions)
  BY SpentIsTotal DEF IInv
<1>3. /\ Spending \in [Sessions -> Int] /\ h \in [Sessions -> Int]
      /\ \A s \in Sessions : child[s] \in Nat /\ base[s] \in Nat /\ h[s] \in Nat
  <2>1. base \in [Sessions -> 0..1] /\ child \in [Sessions -> 0..MaxCost]
    BY <1>2 DEF TypeOK
  <2>2. \A s \in Sessions : child[s] \in Nat /\ base[s] \in Nat /\ h[s] \in Nat
    BY <2>1, BoundsAssumption
  <2> QED BY <2>2 DEF Spending
<1>4. \A s \in Sessions : Spending[s] <= h[s]
  <2>1. Listening = {}
    BY DEF Listening
  <2>2. \A s \in Sessions : child[s] <= base[s] + h[s]
    BY <1>1, <2>1 DEF AtLeast
  <2> QED BY <2>2, <1>3 DEF Spending
<1>5. Total(Spending, Sessions) <= Total(h, Sessions)
  BY <1>3, <1>4, FiniteAssumption, TotalGrows
<1>6. Total(h, Sessions) \in Int /\ Total(Spending, Sessions) \in Int /\ cost \in Nat /\ own \in Nat
  BY <1>2, <1>3, FiniteAssumption, TotalType DEF TypeOK
<1>7. Total(Owed, Tasks) = 0
  <2>1. Owed = [t \in Tasks |-> 0]
    BY DEF Owed
  <2> QED BY <2>1, FiniteAssumption, TotalZero
<1>8. Counted = cost
  BY DEF Counted, Unstored
<1> QED BY <1>1, <1>2, <1>5, <1>6, <1>7, <1>8 DEF AtLeast

(* For any calls, sessions, streams and costs: the parent's message counts  *)
(* every subagent once, and when everything is over nothing is missing,     *)
(* however calls, aborts, retries and reconciliations interleave.           *)
THEOREM CostsAreExact == Spec => []CostIsExact
<1>1. IInv => CostIsExact
  BY NotTooMuch, NotTooLittle DEF IInv, CostIsExact
<1> QED BY <1>1, Invariance, PTL

(* What the message says is never taken back: not by the step's copy in     *)
(* memory, and not by the wrapper of a command.                             *)
THEOREM CostsNeverFall == Spec => CostNeverFalls
<1>1. IInv /\ [Next]_vars => [~ overtaken => cost' >= cost]_vars
  <2> SUFFICES ASSUME IInv, Next, ~ overtaken PROVE cost' >= cost
    OBVIOUS
  <2>i. cost \in Nat /\ copy \in Nat /\ \A t \in Tasks : amount[t] \in Nat
    BY DEF IInv, TypeOK
  <2>1. CASE UNCHANGED cost
    BY <2>1, <2>i
  <2>2. ASSUME NEW t \in Tasks, Write(t) PROVE cost' >= cost
    <3>1. cost' = cost + amount[t]
      BY <2>2 DEF Write, Move, IInv, LineInv
    <3> QED BY <3>1, <2>i
  <2>3. CASE StoreStep \/ Save
    BY <2>3 DEF StoreStep, Save, IInv, StepInv
  <2>4. ASSUME NEW t \in Tasks, Record(t) PROVE cost' >= cost
    <3>1. cost' = child[childOf[t]] /\ cost <= child[childOf[t]] /\ child[childOf[t]] \in Nat
      BY <2>4, BoundsAssumption DEF Record, IInv, CommandInv, TypeOK
    <3> QED BY <3>1, <2>i
  <2> QED BY <2>1, <2>2, <2>3, <2>4
          DEF Next, Settling, Running, Call, Refuse, Begin, Enqueue, Fail, Release, Read, Cancel,
              InterruptCommand, Spend, Answer, FinishStep, Break, Retry, Interrupt, Reconcile
<1>2. [][Next]_vars /\ []IInv => CostNeverFalls
  BY <1>1, PTL DEF CostNeverFalls
<1> QED BY <1>2, Invariance, PTL DEF Spec

----------------------------------------------------------------------------
(* The questions of a turn (TurnQuestions): whichever prompts and asks      *)
(* there are, only an ask between a prompt's dismissal and its slot may     *)
(* keep it waiting.                                                         *)

(* A prompt that has dismissed a kind has left nothing of it pending but    *)
(* what is still in its copy, or was asked since.                           *)
DismissalIsComplete == \A p \in Prompts, a \in Asks :
  ask[a].at = "pending" /\ a \notin late =>
    /\ ask[a].kind = "suggestion" => pc[p] \notin {"questions", "rejecting"}
    /\ pc[p] = "rejecting" => a \in todo[p]

AskInv == AskTypeOK /\ DismissalIsComplete /\ OnlyLateAsksBlock

LEMMA AskInitInv == AskInit => AskInv
<1> SUFFICES ASSUME AskInit PROVE AskInv
  OBVIOUS
<1>1. PQ!QueueTypeOK
  BY DEF AskInit, PQ!QueueInit, PQ!QueueTypeOK, PQ!SlotStates
<1>2. Unused \in [at : {"unused", "pending", "taken"} \cup Ended, kind : Kinds,
                  turn : Prompts \cup {None}]
  BY DEF Unused, Kinds
<1>3. \A a \in Asks : ask[a].at = "unused"
  BY DEF AskInit, Unused
<1>4. AskTypeOK
  BY <1>1, <1>2 DEF AskInit, AskTypeOK
<1> QED BY <1>3, <1>4 DEF AskInv, DismissalIsComplete, OnlyLateAsksBlock, BlocksFollowup

(* The queue keeps its types whatever it does. *)
LEMMA QueueTypes ==
  ASSUME PQ!QueueTypeOK, NEW p \in Prompts,
         PQ!Enqueue(p) \/ PQ!StartSlot(p) \/ PQ!Release(p)
  PROVE  PQ!QueueTypeOK'
<1> USE DEF PQ!QueueTypeOK, PQ!SlotStates
<1>1. CASE PQ!Enqueue(p)
  BY <1>1 DEF PQ!Enqueue
<1>2. CASE PQ!StartSlot(p)
  BY <1>2 DEF PQ!StartSlot
<1>3. CASE PQ!Release(p)
  BY <1>3 DEF PQ!Release
<1> QED BY <1>1, <1>2, <1>3

LEMMA EndTypes ==
  ASSUME AskTypeOK, NEW set \in SUBSET Asks, NEW how \in {"taken"} \cup Ended, End(set, how)
  PROVE  /\ ask' \in [Asks -> [at : {"unused", "pending", "taken"} \cup Ended,
                               kind : Kinds, turn : Prompts \cup {None}]]
         /\ \A a \in Asks : /\ ask'[a].kind = ask[a].kind
                            /\ a \in set => ask'[a].at = how
                            /\ a \notin set => ask'[a] = ask[a]
  BY DEF AskTypeOK, End, Ended

LEMMA EndOne ==
  ASSUME AskTypeOK, NEW a \in Asks, End({a}, "taken")
  PROVE  /\ ask' \in [Asks -> [at : {"unused", "pending", "taken"} \cup Ended,
                               kind : Kinds, turn : Prompts \cup {None}]]
         /\ ask'[a].at = "taken"
         /\ \A b \in Asks : b # a => ask'[b] = ask[b]
         /\ \A b \in Asks : ask'[b].at = "pending" => ask'[b] = ask[b]
<1> DEFINE set == {a}
           how == "taken"
<1>1. set \in SUBSET Asks /\ how \in {"taken"} \cup Ended /\ End(set, how)
  OBVIOUS
<1>2. a \in set /\ \A b \in Asks : b # a => b \notin set
  OBVIOUS
<1>3. how # "pending"
  OBVIOUS
<1> HIDE DEF set
<1>4. /\ ask' \in [Asks -> [at : {"unused", "pending", "taken"} \cup Ended,
                            kind : Kinds, turn : Prompts \cup {None}]]
      /\ \A b \in Asks : /\ b \in set => ask'[b].at = how
                         /\ b \notin set => ask'[b] = ask[b]
  BY <1>1, EndTypes
<1>5. ask'[a].at = how /\ \A b \in Asks : b # a => ask'[b] = ask[b]
  BY <1>2, <1>4
<1> HIDE DEF how
<1>6. \A b \in Asks : ask'[b].at = "pending" => ask'[b] = ask[b]
  BY <1>3, <1>5
<1> USE DEF how
<1> QED BY <1>4, <1>5, <1>6

(* Ending asks and leaving the queue, the prompts' counters and the copies  *)
(* of others alone keeps what OnlyLateAsksBlock and DismissalIsComplete say. *)
LEMMA AskNextInv == AskInv /\ [AskNext]_askVars => AskInv'
<1> SUFFICES ASSUME AskInv, [AskNext]_askVars PROVE AskInv'
  OBVIOUS
<1>t. AskTypeOK
  BY DEF AskInv
<1>1. CASE UNCHANGED askVars
  BY <1>1 DEF AskInv, AskTypeOK, DismissalIsComplete, OnlyLateAsksBlock, BlocksFollowup,
     askVars, queueVars,
     PQ!QueueTypeOK, PQ!HasFollowup
<1>2. ASSUME NEW p \in Prompts, Arrive(p)
      PROVE AskInv'
  BY <1>2 DEF Arrive, AskInv, AskTypeOK, DismissalIsComplete, OnlyLateAsksBlock,
     BlocksFollowup, queueVars,
     PQ!QueueTypeOK, PQ!HasFollowup
<1>3. ASSUME NEW p \in Prompts, DismissSuggestions(p)
      PROVE AskInv'
  <2>1. Pending("suggestion") \in SUBSET Asks /\ End(Pending("suggestion"), "dismissed")
    BY <1>3 DEF DismissSuggestions, Pending
  <2>2. AskTypeOK'
    BY <1>t, <1>3, <2>1, EndTypes DEF DismissSuggestions, AskTypeOK, queueVars,
       PQ!QueueTypeOK, Ended
  <2>3. \A a \in Asks : ask'[a].at = "pending" => ask'[a] = ask[a] /\ ask[a].kind = "question"
    BY <1>t, <2>1, EndTypes DEF Ended, Pending, AskTypeOK, Kinds
  <2> QED BY <2>2, <2>3, <1>3 DEF DismissSuggestions, AskInv, AskTypeOK, DismissalIsComplete,
             OnlyLateAsksBlock, BlocksFollowup, queueVars, PQ!HasFollowup
<1>4. ASSUME NEW p \in Prompts, CopyPending(p)
      PROVE AskInv'
  <2>1. AskTypeOK'
    BY <1>t, <1>4 DEF CopyPending, AskTypeOK, queueVars, PQ!QueueTypeOK, Pending
  <2>2. DismissalIsComplete'
    BY <1>t, <1>4 DEF CopyPending, AskInv, DismissalIsComplete, AskTypeOK, Pending, Kinds
  <2> QED BY <2>1, <2>2, <1>4 DEF CopyPending, AskInv, OnlyLateAsksBlock,
             BlocksFollowup, queueVars,
             PQ!HasFollowup
<1>5. ASSUME NEW p \in Prompts, NEW a \in Asks, Take(p, a)
      PROVE AskInv'
  <2>1. End({a}, "taken")
    BY <1>5 DEF Take
  <2>2. \A b \in Asks : ask'[b].at = "pending" => ask'[b] = ask[b]
    BY <1>t, <2>1, EndOne
  <2>3. AskTypeOK'
    BY <1>t, <1>5, <2>1, EndOne DEF Take, AskTypeOK, queueVars, PQ!QueueTypeOK,
       Ended
  <2> QED BY <2>2, <2>3, <1>5 DEF Take, AskInv, DismissalIsComplete, OnlyLateAsksBlock,
             BlocksFollowup,
             queueVars, PQ!HasFollowup
<1>6. ASSUME NEW p \in Prompts, NEW a \in Asks, Reject(p, a)
      PROVE AskInv'
  <2> DEFINE set == {a} \ {b \in Asks : ask[b].at \in Ended}
  <2>1. set \in SUBSET Asks /\ End(set, "dismissed")
    BY <1>6 DEF Reject
  <2>2. \A b \in Asks : ask'[b].at = "pending" => ask'[b] = ask[b] /\ b # a
    BY <1>t, <1>6, <2>1, EndTypes DEF Reject, Ended
  <2>3. AskTypeOK'
    BY <1>t, <1>6, <2>1, EndTypes DEF Reject, AskTypeOK, queueVars, PQ!QueueTypeOK,
       Ended
  <2>4. DismissalIsComplete'
    BY <1>t, <1>6, <2>2 DEF Reject, AskInv, DismissalIsComplete, AskTypeOK
  <2> QED BY <2>2, <2>3, <2>4, <1>6 DEF Reject, AskInv, OnlyLateAsksBlock,
             BlocksFollowup,
             queueVars, PQ!HasFollowup
<1>7. ASSUME NEW p \in Prompts, Quiet(p)
      PROVE AskInv'
  BY <1>7 DEF Quiet, AskInv, AskTypeOK, DismissalIsComplete, OnlyLateAsksBlock,
     BlocksFollowup, queueVars,
     PQ!QueueTypeOK, PQ!HasFollowup
<1>8. ASSUME NEW p \in Prompts, EnqueuePrompt(p)
      PROVE AskInv'
  <2>1. \A a \in Asks : ask[a].at = "pending" => a \in late
    BY <1>8 DEF EnqueuePrompt, AskInv, DismissalIsComplete
  <2>2. PQ!QueueTypeOK'
    BY <1>t, <1>8, QueueTypes DEF EnqueuePrompt, AskTypeOK
  <2>3. AskTypeOK'
    BY <1>t, <1>8, <2>2 DEF EnqueuePrompt, AskTypeOK
  <2>4. ask' = ask /\ late' = late
    BY <1>8 DEF EnqueuePrompt
  <2>5. DismissalIsComplete' /\ OnlyLateAsksBlock'
    BY <2>1, <2>4 DEF DismissalIsComplete, OnlyLateAsksBlock, BlocksFollowup
  <2> QED BY <2>3, <2>5 DEF AskInv
<1>9. ASSUME NEW p \in Prompts, StartTurn(p)
      PROVE AskInv'
  <2>1. AskTypeOK'
    BY <1>t, <1>9, QueueTypes DEF StartTurn, AskTypeOK
  <2>2. ~ PQ!HasFollowup'
    BY <1>t, <1>9 DEF StartTurn, PQ!StartSlot, PQ!HasFollowup, AskTypeOK,
       PQ!QueueTypeOK
  <2>3. DismissalIsComplete'
    BY <1>9 DEF StartTurn, AskInv, DismissalIsComplete
  <2> QED BY <2>1, <2>2, <2>3 DEF AskInv, OnlyLateAsksBlock, BlocksFollowup
<1>10. ASSUME NEW p \in Prompts, EndTurn(p)
       PROVE AskInv'
  <2>1. AskTypeOK'
    BY <1>t, <1>10, QueueTypes DEF EndTurn, AskTypeOK
  <2>2. PQ!HasFollowup' => PQ!HasFollowup
    BY <1>t, <1>10 DEF EndTurn, PQ!Release, PQ!HasFollowup, AskTypeOK, PQ!QueueTypeOK
  <2>3. DismissalIsComplete'
    BY <1>10 DEF EndTurn, AskInv, DismissalIsComplete
  <2> QED BY <2>1, <2>2, <2>3, <1>10 DEF EndTurn, AskInv, OnlyLateAsksBlock,
             BlocksFollowup
<1>11. ASSUME NEW p \in Prompts, NEW a \in Asks, NEW kind \in Kinds, Ask(p, a, kind)
       PROVE AskInv'
  <2>1. /\ ask'[a] = [at |-> IF PQ!HasFollowup THEN "dismissed" ELSE "pending",
                      kind |-> kind, turn |-> p]
        /\ \A b \in Asks \ {a} : ask'[b] = ask[b]
    BY <1>t, <1>11 DEF Ask, AskTypeOK
  <2>2. AskTypeOK'
    BY <1>t, <1>11 DEF Ask, AskTypeOK, queueVars, PQ!QueueTypeOK, Ended
  <2>3. late \subseteq late' /\ (a \notin late' => ~ Window(kind))
    BY <1>11 DEF Ask
  <2>4. DismissalIsComplete'
    BY <1>11, <2>1, <2>3 DEF Ask, AskInv, DismissalIsComplete, Window, Kinds
  <2>5. OnlyLateAsksBlock'
    BY <1>11, <2>1, <2>3 DEF Ask, AskInv, OnlyLateAsksBlock, BlocksFollowup,
       queueVars, PQ!HasFollowup
  <2> QED BY <2>2, <2>4, <2>5 DEF AskInv
<1>12. ASSUME NEW a \in Asks, Reply(a)
       PROVE AskInv'
  <2>1. End({a}, "taken")
    BY <1>12 DEF Reply
  <2>t. /\ ask' \in [Asks -> [at : {"unused", "pending", "taken"} \cup Ended,
                            kind : Kinds, turn : Prompts \cup {None}]]
        /\ ask'[a].at = "taken"
        /\ \A b \in Asks : b # a => ask'[b] = ask[b]
    BY <1>t, <2>1, EndOne
  <2>2. \A b \in Asks : ask'[b].at = "pending" => ask'[b] = ask[b]
    BY <2>t
  <2>r. replying' = replying \cup {a} /\ replying \subseteq Asks
    BY <1>t, <1>12 DEF Reply, AskTypeOK
  <2>e. \A b \in replying' : ask'[b].at \in {"taken"} \cup Ended
    BY <1>t, <2>t, <2>r DEF AskTypeOK
  <2>3. AskTypeOK'
    BY <1>t, <1>12, <2>t, <2>r, <2>e DEF Reply, AskTypeOK, queueVars, PQ!QueueTypeOK
  <2> QED BY <2>2, <2>3, <1>12 DEF Reply, AskInv, DismissalIsComplete, OnlyLateAsksBlock,
             BlocksFollowup,
             queueVars, PQ!HasFollowup
<1>13. ASSUME NEW a \in Asks, ReplyEnds(a)
       PROVE AskInv'
  <2> DEFINE set == {a} \ {b \in Asks : ask[b].at \in Ended}
  <2>1. PICK how \in Ended : End(set, how)
    BY <1>13 DEF ReplyEnds
  <2>2. set \in SUBSET Asks
    OBVIOUS
  <2>3. \A b \in Asks : ask'[b].at = "pending" => ask'[b] = ask[b]
    BY <1>t, <2>1, <2>2, EndTypes DEF Ended
  <2>4. AskTypeOK'
    BY <1>t, <1>13, <2>1, <2>2, EndTypes DEF ReplyEnds, AskTypeOK, queueVars,
       PQ!QueueTypeOK, Ended
  <2> QED BY <2>3, <2>4, <1>13 DEF ReplyEnds, AskInv, DismissalIsComplete,
             OnlyLateAsksBlock, BlocksFollowup,
             queueVars, PQ!HasFollowup
<1>14. ASSUME NEW a \in Asks, Choose(a)
       PROVE AskInv'
  <2>1. PICK how \in Ended : End({a}, how)
    BY <1>14 DEF Choose
  <2>3. \A b \in Asks : ask'[b].at = "pending" => ask'[b] = ask[b]
    BY <1>t, <2>1, EndTypes DEF Ended
  <2>4. AskTypeOK'
    BY <1>t, <1>14, <2>1, EndTypes DEF Choose, AskTypeOK, queueVars, PQ!QueueTypeOK,
       Ended
  <2> QED BY <2>3, <2>4, <1>14 DEF Choose, AskInv, DismissalIsComplete,
             OnlyLateAsksBlock, BlocksFollowup,
             queueVars, PQ!HasFollowup
<1> QED
  BY <1>1, <1>2, <1>3, <1>4, <1>5, <1>6, <1>7, <1>8, <1>9, <1>10, <1>11, <1>12, <1>13, <1>14
  DEF AskNext, Dismissing

LEMMA AskInvariance == AskSpec => []AskInv
  BY AskInitInv, AskNextInv, PTL DEF AskSpec

(* The types; an answered question is not pending, and a dismissal has been *)
(* gone through when its prompt goes on.                                    *)
THEOREM AskTypes == AskSpec => []AskTypeOK
<1>1. AskInv => AskTypeOK
  BY DEF AskInv
<1> QED BY <1>1, AskInvariance, PTL

(* A prompt in the queue waits for no question but those that were asked    *)
(* between the dismissal and the slot of a prompt.                          *)
THEOREM OnlyLateAsksMayBlock == AskSpec => []OnlyLateAsksBlock
<1>1. AskInv => OnlyLateAsksBlock
  BY DEF AskInv
<1> QED BY <1>1, AskInvariance, PTL
=============================================================================
