-------------------------- MODULE AgentLoopProofs --------------------------
(***************************************************************************)
(* Proofs about AgentLoop, for any prompts, summarizing callers, limits    *)
(* and lengths: whom a step answers, what a request ends with, when a turn *)
(* is over and what its caller is told.                                    *)
(***************************************************************************)
EXTENDS AgentLoop, SequenceTheorems, WellFoundedInduction, TLAPS

----------------------------------------------------------------------------
(* Sequences and numbers *)

(* The least-number principle.                                              *)
LEMMA Least ==
  ASSUME NEW T, T \subseteq Nat, T # {}
  PROVE  \E m \in T : \A n \in T : m <= n
<1>1. PICK R : R = OpToRel(<, Nat)
  OBVIOUS
<1>2. IsWellFoundedOn(R, Nat)
  BY <1>1, NatLessThanWellFounded
<1>3. PICK m \in T : \A n \in T : ~ (<<n, m>> \in R)
  BY <1>2, WFMin
<1>4. \A n \in T : <<n, m>> \in R <=> n < m
  BY <1>1 DEF OpToRel
<1>5. \A n \in T : m \in Nat /\ n \in Nat /\ ~ (n < m)
  BY <1>3, <1>4
<1> QED BY <1>5

(* A set of numbers up to n that is not empty has a last and a first one.   *)
LEMMA LastOf ==
  ASSUME NEW n \in Nat, NEW I, I \subseteq 1..n, I # {}
  PROVE  Max(I) \in I /\ \A i \in I : i <= Max(I)
<1> DEFINE T == {n - i : i \in I}
<1>1. T \subseteq Nat /\ T # {}
  <2>1. \A i \in I : n - i \in Nat
    OBVIOUS
  <2> QED BY <2>1
<1> HIDE DEF T
<1>2. PICK m \in T : \A k \in T : m <= k
  BY <1>1, Least
<1> USE DEF T
<1>3. PICK i \in I : m = n - i
  OBVIOUS
<1>4. \A j \in I : m <= n - j /\ j \in Nat /\ i \in Nat
  BY <1>2
<1>5. \A j \in I : i >= j
  BY <1>3, <1>4
<1>6. \E x \in I : \A y \in I : x >= y
  BY <1>5
<1>7. Max(I) \in I /\ \A j \in I : Max(I) >= j
  BY <1>6 DEF Max
<1>8. \A j \in I : j \in Int
  OBVIOUS
<1> QED BY <1>7, <1>8

LEMMA FirstOf ==
  ASSUME NEW I, I \subseteq Nat, I # {}
  PROVE  Min(I) \in I /\ \A i \in I : Min(I) <= i
BY Least DEF Min

LEMMA ToSetAppend ==
  ASSUME NEW T, NEW q \in Seq(T), NEW x \in T
  PROVE  ToSet(Append(q, x)) = ToSet(q) \cup {x}
<1>1. /\ DOMAIN q = 1..Len(q) /\ Len(q) \in Nat
      /\ DOMAIN Append(q, x) = 1..(Len(q) + 1)
      /\ \A i \in 1..Len(q) : Append(q, x)[i] = q[i]
      /\ Append(q, x)[Len(q) + 1] = x
  OBVIOUS
<1>2. 1..(Len(q) + 1) = 1..Len(q) \cup {Len(q) + 1}
  BY <1>1
<1> QED BY <1>1, <1>2 DEF ToSet

LEMMA ToSetConcat ==
  ASSUME NEW T, NEW q \in Seq(T), NEW r \in Seq(T)
  PROVE  ToSet(q \o r) = ToSet(q) \cup ToSet(r)
<1>1. /\ DOMAIN q = 1..Len(q) /\ Len(q) \in Nat
      /\ DOMAIN r = 1..Len(r) /\ Len(r) \in Nat
      /\ DOMAIN (q \o r) = 1..(Len(q) + Len(r))
      /\ \A i \in 1..(Len(q) + Len(r)) : (q \o r)[i] = IF i <= Len(q) THEN q[i] ELSE r[i - Len(q)]
  OBVIOUS
<1>2. \A i \in 1..Len(q) : i \in 1..(Len(q) + Len(r)) /\ i <= Len(q)
  BY <1>1
<1>3. \A i \in 1..Len(r) : /\ i + Len(q) \in 1..(Len(q) + Len(r)) /\ ~ (i + Len(q) <= Len(q))
                           /\ (i + Len(q)) - Len(q) = i
  BY <1>1
<1>4. \A i \in 1..(Len(q) + Len(r)) : i \in 1..Len(q) \/ (~ (i <= Len(q)) /\ i - Len(q) \in 1..Len(r))
  BY <1>1
<1>5. \A x : x \in ToSet(q \o r) => x \in ToSet(q) \cup ToSet(r)
  BY <1>1, <1>4 DEF ToSet
<1>6. \A x : x \in ToSet(q) => x \in ToSet(q \o r)
  BY <1>1, <1>2 DEF ToSet
<1>7. \A x : x \in ToSet(r) => x \in ToSet(q \o r)
  <2> SUFFICES ASSUME NEW i \in 1..Len(r) PROVE r[i] \in ToSet(q \o r)
    BY <1>1 DEF ToSet
  <2>1. (q \o r)[i + Len(q)] = r[i]
    BY <1>1, <1>3
  <2> QED BY <1>1, <1>3, <2>1 DEF ToSet
<1> QED BY <1>5, <1>6, <1>7

(* Keep keeps what is in the set. *)
LEMMA Kept ==
  ASSUME NEW s \in Seq(Nat), NEW S
  PROVE  Keep(s, S) \in Seq(Nat) /\ ToSet(Keep(s, S)) = ToSet(s) \cap S
<1> DEFINE N == Len(s)
           Filtered(f, k) == IF k = 0 THEN <<>>
                         ELSE IF s[k] \in S THEN Append(f[k - 1], s[k]) ELSE f[k - 1]
           Partial(n) == \E f \in [0..n -> Seq(Nat)] : \A k \in 0..n : f[k] = Filtered(f, k)
           Bad == {n \in 0..N : ~ Partial(n)}
<1>0. N \in Nat /\ DOMAIN s = 1..N /\ \A k \in 1..N : s[k] \in Nat
  OBVIOUS
<1>1. Partial(0)
  <2> DEFINE f == [k \in 0..0 |-> <<>>]
  <2>1. f \in [0..0 -> Seq(Nat)]
    OBVIOUS
  <2>2. \A k \in 0..0 : k = 0 /\ f[k] = <<>>
    OBVIOUS
  <2> QED BY <2>1, <2>2
<1>2. ASSUME NEW n \in 1..N, Partial(n - 1)
      PROVE  Partial(n)
  <2>1. PICK f \in [0..(n - 1) -> Seq(Nat)] : \A k \in 0..(n - 1) : f[k] = Filtered(f, k)
    BY <1>2
  <2> DEFINE g == [k \in 0..n |-> IF k = n THEN Filtered(f, n) ELSE f[k]]
  <2>2. n - 1 \in 0..(n - 1) /\ n # 0 /\ n \in 0..n
    BY <1>0
  <2>3. Filtered(f, n) \in Seq(Nat)
    BY <1>0, <2>1, <2>2
  <2>4. \A k \in 0..n : k = n \/ k \in 0..(n - 1)
    BY <1>0
  <2>5. g \in [0..n -> Seq(Nat)]
    BY <2>1, <2>3, <2>4
  <2>6. \A k \in 0..n : g[k] = Filtered(g, k)
    <3> SUFFICES ASSUME NEW k \in 0..n PROVE g[k] = Filtered(g, k)
      OBVIOUS
    <3>1. k = 0 \/ (k - 1 \in 0..n /\ k - 1 # n /\ g[k - 1] = f[k - 1])
      BY <1>0
    <3> QED BY <2>1, <2>2, <2>4, <3>1
  <2> QED BY <2>5, <2>6
<1> HIDE DEF Partial
<1>3. Bad = {}
  <2> SUFFICES ASSUME Bad # {} PROVE FALSE
    OBVIOUS
  <2>1. Bad \in SUBSET Nat
    BY <1>0
  <2> HIDE DEF Bad
  <2>2. PICK m \in Bad : \A n \in Bad : m <= n
    BY <2>1, Least
  <2> USE DEF Bad
  <2>3. m \in 1..N /\ m - 1 \in 0..N /\ ~ (m <= m - 1)
    BY <1>0, <1>1, <2>2
  <2> QED BY <1>2, <2>2, <2>3
<1>4. \E f : f = [k \in 0..N |-> Filtered(f, k)]
  <2>1. Partial(N)
    BY <1>0, <1>3
  <2> QED BY <2>1 DEF Partial
<1> DEFINE kept == CHOOSE f : f = [k \in 0..N |-> Filtered(f, k)]
<1>5. kept = [k \in 0..N |-> Filtered(kept, k)]
  BY <1>4
<1>6. Keep(s, S) = kept[N]
  BY DEF Keep
<1> HIDE DEF kept
<1> DEFINE Good(k) == kept[k] \in Seq(Nat) /\ ToSet(kept[k]) = {s[j] : j \in 1..k} \cap S
           Wrong == {k \in 0..N : ~ Good(k)}
<1>7. Good(0)
  <2>1. kept[0] = <<>> /\ 1..0 = {}
    BY <1>0, <1>5
  <2> QED BY <2>1 DEF ToSet
<1>8. ASSUME NEW k \in 1..N, Good(k - 1)
      PROVE  Good(k)
  <2>1. k \in 0..N /\ k # 0 /\ s[k] \in Nat /\ 1..k = 1..(k - 1) \cup {k}
    BY <1>0
  <2>2. kept[k] = IF s[k] \in S THEN Append(kept[k - 1], s[k]) ELSE kept[k - 1]
    BY <1>5, <2>1
  <2>3. {s[j] : j \in 1..k} = {s[j] : j \in 1..(k - 1)} \cup {s[k]}
    BY <2>1
  <2>4. CASE s[k] \in S
    <3>1. kept[k] \in Seq(Nat) /\ ToSet(kept[k]) = ToSet(kept[k - 1]) \cup {s[k]}
      BY <1>8, <2>1, <2>2, <2>4, ToSetAppend
    <3> QED BY <1>8, <2>3, <2>4, <3>1
  <2>5. CASE s[k] \notin S
    BY <1>8, <2>2, <2>3, <2>5
  <2> QED BY <2>4, <2>5
<1> HIDE DEF Good
<1>9. Wrong = {}
  <2> SUFFICES ASSUME Wrong # {} PROVE FALSE
    OBVIOUS
  <2>1. Wrong \in SUBSET Nat
    BY <1>0
  <2> HIDE DEF Wrong
  <2>2. PICK m \in Wrong : \A n \in Wrong : m <= n
    BY <2>1, Least
  <2> USE DEF Wrong
  <2>3. m \in 1..N /\ m - 1 \in 0..N /\ ~ (m <= m - 1)
    BY <1>0, <1>7, <2>2
  <2> QED BY <1>8, <2>2, <2>3
<1>10. Good(N)
  BY <1>0, <1>9
<1> QED BY <1>0, <1>6, <1>10 DEF Good, ToSet

----------------------------------------------------------------------------
(* The inductive invariant *)

UserKinds == {"prompt", "compaction", "continue", "replay", "followup"}

Message == [role : {"user", "assistant"}, kind : UserKinds \cup {"step", "summary"},
            parent : Nat, finish : {"none", "stop", "tools", "error"}, error : BOOLEAN,
            full : BOOLEAN, tail : Nat, auto : BOOLEAN, overflow : BOOLEAN]

Typed ==
  /\ TypeOK
  /\ messages \in Seq(Message) /\ queue \in Seq(Prompts) /\ view \in Seq(Nat)
  /\ late \in Nat /\ extras \subseteq Nat

(* Users' and assistants' messages are told apart by their kind, and what   *)
(* an assistant says answers a user's message.                              *)
Shape == \A i \in Ids :
  /\ IsUser(i) <=> messages[i].kind \in UserKinds
  /\ ~ IsUser(i) => messages[i].parent \in Ids /\ IsUser(messages[i].parent)

(* The prompts that hold a slot, each once; the target is that of the first *)
(* when it has started.                                                     *)
Line ==
  /\ \A p \in Prompts : p \in ToSet(queue) <=> pc[p] \in {"waiting", "joined", "closing"}
  /\ \A j, k \in DOMAIN queue : queue[j] = queue[k] => j = k
  /\ \A p \in Prompts : pc[p] \in {"joined", "closing"} => Head(queue) = p /\ base = msgOf[p]
  /\ \A s \in Summaries : pc[s] # "waiting"

Targets ==
  /\ \A c \in Callers : pc[c] # "start" => msgOf[c] \in Ids /\ IsUser(msgOf[c])
  /\ \A s \in Summaries : pc[s] # "start" => messages[msgOf[s]].kind = "compaction"
  /\ \A p \in Prompts : pc[p] # "start" => messages[msgOf[p]].kind = "prompt"
  /\ base # 0 => base \in Ids /\ IsUser(base) /\ messages[base].kind = "prompt"
  /\ \A i \in extras : messages[i].kind = "followup" /\ i > base /\ base # 0

(* A run has somebody who waits for it, and a superseded one ends with the  *)
(* step that it is in.                                                      *)
Running ==
  /\ \A c \in Callers : c \in joined <=> pc[c] = "joined"
  /\ \A c \in Callers : pc[c] = "closing" => at = "none"
  /\ at = "streaming" => /\ current \in Ids /\ messages[current].kind = "step"
                         /\ messages[current].finish = "none" /\ ~ messages[current].error
  /\ at = "summarising" => /\ current \in Ids /\ messages[current].kind = "summary"
                           /\ messages[current].finish = "none" /\ LastUser \in Ids
  /\ at # "none" => late = 0 \/ (late = 1 /\ newer /\ at = "streaming")
  /\ late <= 1

NoCompaction == \A i \in Ids : messages[i].kind # "compaction"

(* Without compactions, only a step that answered ends a run the ordinary   *)
(* way, and nothing that has been answered is undone.                       *)
Plain ==
  NoCompaction =>
    /\ attempts = 0
    /\ \A i \in Ids : messages[i].kind # "summary"
    /\ \A i \in Ids : messages[i].error => messages[i].finish = "none"
    /\ at = "asking" => \A p \in Prompts : pc[p] = "joined" => Answers(p) # {}
    /\ \A p \in Prompts : ended[p] = "exit" => Answers(p) # {}

(* As long as nobody asks for a summary, a run sees the prompt of its turn  *)
(* and answers it, for no summary cuts the history before it.               *)
Prompted ==
  NoSummarize =>
    /\ \A i \in Ids : messages[i].kind = "summary" =>
         messages[messages[i].parent].kind # "compaction"
    /\ at \in {"seen", "asking", "streaming", "summarising"} =>
         LastUser \in {base} \cup extras /\ LastUser # 0
    /\ \A c \in Callers : ended[c] # "nouser"

(* The reason is that of the caller that closes. *)
Closes ==
  /\ \A c \in Callers : pc[c] # "done" => closed[c] = ""
  /\ \A c \in Callers : pc[c] = "closing" => ended[c] # ""
  /\ \A c \in Callers : ended[c] # "" => pc[c] \in {"closing", "done"}
  /\ NoSummarize =>
     /\ at # "none" => reason = ""
     /\ \A c \in Callers : pc[c] = "closing" =>
          reason = IF ended[c] \in {"error", "exhausted"} THEN "error"
                   ELSE IF ended[c] = "interrupted" THEN "interrupted" ELSE ""
  /\ CloseTellsWhy

IInv == Typed /\ Shape /\ Line /\ Targets /\ Running /\ Plain /\ Prompted /\ Closes

----------------------------------------------------------------------------
(* What the loop sees *)

LEMMA CompactedIs ==
  ASSUME Typed
  PROVE  Compacted \in Nat \ {0} /\ Compacted <= Len(messages) + 1
<1> DEFINE C == {i \in Ids : /\ messages[i].kind = "compaction"
                             /\ \E s \in Ids : Summarised(s) /\ messages[s].parent = i}
           c == MaxOr0(C)
<1>1. messages \in Seq(Message) /\ Ids = 1..Len(messages) /\ Len(messages) \in Nat
  BY DEF Typed, Ids
<1>2. \A i \in Ids : messages[i].tail \in Nat
  <2>1. \A i \in Ids : messages[i] \in Message
    BY <1>1
  <2> QED BY <2>1 DEF Message
<1>3. c = 0 \/ c \in Ids
  <2>1. CASE C = {}
    BY <2>1 DEF MaxOr0
  <2>2. CASE C # {}
    <3>1. C \subseteq 1..Len(messages)
      BY <1>1
    <3> HIDE DEF C
    <3>2. Max(C) \in C /\ \A j \in C : j <= Max(C)
      BY <1>1, <2>2, <3>1, LastOf
    <3>3. c \in C
      BY <2>2, <3>2 DEF MaxOr0
    <3> QED BY <1>1, <3>1, <3>3
  <2> QED BY <2>1, <2>2
<1>4. Compacted = IF c = 0 \/ messages[c].tail > c THEN 1
                  ELSE IF messages[c].tail = 0 THEN c ELSE messages[c].tail
  BY DEF Compacted
<1> HIDE DEF c
<1> QED BY <1>1, <1>2, <1>3, <1>4

(* Nobody's summary has been made for a compaction: nothing is cut off. *)
LEMMA CompactedIsAll ==
  ASSUME \A i \in Ids : messages[i].kind = "summary" =>
           messages[messages[i].parent].kind # "compaction"
  PROVE  Compacted = 1
<1>1. {i \in Ids : /\ messages[i].kind = "compaction"
                   /\ \E s \in Ids : Summarised(s) /\ messages[s].parent = i} = {}
  BY DEF Summarised
<1> QED BY <1>1 DEF Compacted, MaxOr0

UserOf(i) == IF IsUser(i) THEN i ELSE messages[i].parent

LEMMA VisibleIs ==
  ASSUME Typed, NEW from \in Nat \ {0}, from <= Len(messages) + 1
  PROVE  /\ Visible(from) \in Seq(Nat)
         /\ ToSet(Visible(from)) =
              {i \in Ids : i >= from /\ ~ (UserOf(i) >= from /\ Hidden(UserOf(i)))}
<1> DEFINE L == Len(messages)
           recent == [k \in 1..(L + 1 - from) |-> from + k - 1]
           S == {i \in Ids : ~ (UserOf(i) >= from /\ Hidden(UserOf(i)))}
<1>1. L \in Nat /\ Ids = 1..L
  BY DEF Typed, Ids
<1>2. L + 1 - from \in Nat
  BY <1>1
<1>3. recent \in Seq(Nat)
  BY <1>2
<1>4. ToSet(recent) = {i \in Ids : i >= from}
  <2>1. \A k \in 1..(L + 1 - from) : from + k - 1 \in 1..L /\ from + k - 1 >= from
    BY <1>1
  <2>2. \A i \in 1..L : i >= from => i - from + 1 \in 1..(L + 1 - from) /\ from + (i - from + 1) - 1 = i
    BY <1>1
  <2>3. \A i \in 1..L : i >= from => \E k \in 1..(L + 1 - from) : from + k - 1 = i
    BY <2>2
  <2>4. ToSet(recent) = {from + k - 1 : k \in 1..(L + 1 - from)}
    BY DEF ToSet
  <2> QED BY <1>1, <2>1, <2>3, <2>4
<1>5. Visible(from) = Keep(recent, S)
  BY DEF Visible, UserOf
<1> HIDE DEF recent
<1>6. Visible(from) \in Seq(Nat) /\ ToSet(Visible(from)) = ToSet(recent) \cap S
  BY <1>3, <1>5, Kept
<1> QED BY <1>4, <1>6

(* First what belongs to others, then what belongs to the turn. *)
LEMMA ScopedIs ==
  ASSUME Typed
  PROVE  \E q, r \in Seq(Nat) :
           /\ Scoped = q \o r
           /\ ToSet(q) \subseteq Ids \ Own /\ ToSet(r) \subseteq Own
           /\ ToSet(q) \cup ToSet(r) = ToSet(Visible(Compacted))
<1> DEFINE seen == Visible(Compacted)
<1>1. seen \in Seq(Nat) /\ ToSet(seen) \subseteq Ids
  BY CompactedIs, VisibleIs
<1>2. Scoped = Keep(seen, Ids \ Own) \o Keep(seen, Own)
  BY DEF Scoped
<1>3. Own \subseteq Ids
  BY DEF Own
<1> HIDE DEF seen
<1>4. /\ Keep(seen, Ids \ Own) \in Seq(Nat) /\ Keep(seen, Own) \in Seq(Nat)
      /\ ToSet(Keep(seen, Ids \ Own)) = ToSet(seen) \cap (Ids \ Own)
      /\ ToSet(Keep(seen, Own)) = ToSet(seen) \cap Own
  BY <1>1, Kept
<1>5. (ToSet(seen) \cap (Ids \ Own)) \cup (ToSet(seen) \cap Own) = ToSet(seen)
  BY <1>1, <1>3
<1> QED BY <1>2, <1>4, <1>5 DEF seen

(* The loop is shown that, or a rest of it that begins with the message     *)
(* that the last summary answers.                                           *)
LEMMA ShownIs ==
  ASSUME Typed, Shape, NEW q \in Seq(Nat), NEW r \in Seq(Nat), Scoped = q \o r
  PROVE  \E p \in 1..(Len(Scoped) + 1) :
           /\ Shown = SubSeq(Scoped, p, Len(Scoped)) /\ Shown \in Seq(Nat)
           /\ Len(Shown) = Len(Scoped) + 1 - p
           /\ \A k \in 1..Len(Shown) : Shown[k] = Scoped[p + k - 1]
           /\ \/ p = 1
              \/ /\ p \in DOMAIN Scoped
                 /\ \E s \in DOMAIN Scoped : /\ Summarised(Scoped[s])
                                             /\ Scoped[p] = messages[Scoped[s]].parent
<1> DEFINE n == Len(Scoped)
           I == {i \in 1..n : Summarised(Scoped[i])}
           s == SelectLastInSeq(Scoped, Summarised)
           J == {i \in 1..n : Scoped[i] = messages[Scoped[s]].parent}
           p == IF s = 0 THEN 0 ELSE SelectInSeq(Scoped, LAMBDA i : i = messages[Scoped[s]].parent)
<1>1. Scoped \in Seq(Nat) /\ n \in Nat /\ DOMAIN Scoped = 1..n
  OBVIOUS
<1>2. s = 0 \/ s \in I
  <2>1. s = IF I # {} THEN Max(I) ELSE 0
    BY DEF SelectLastInSeq
  <2>2. I \subseteq 1..n
    OBVIOUS
  <2> HIDE DEF I
  <2>3. I # {} => Max(I) \in I
    BY <1>1, <2>2, LastOf
  <2> QED BY <2>1, <2>3
<1>3. Shown = IF p = 0 THEN Scoped ELSE SubSeq(Scoped, p, n)
  BY DEF Shown
<1>4. p = 0 \/ (s \in I /\ p \in J)
  <2>1. CASE s = 0
    BY <2>1
  <2>2. CASE s # 0
    <3>1. p = IF J # {} THEN Min(J) ELSE 0
      BY <2>2 DEF SelectInSeq
    <3>2. J \subseteq Nat
      BY <1>1
    <3> HIDE DEF J
    <3>3. J # {} => Min(J) \in J
      BY <3>2, FirstOf
    <3> QED BY <1>2, <2>2, <3>1, <3>3
  <2> QED BY <2>1, <2>2
<1>5. Scoped = SubSeq(Scoped, 1, n)
  BY <1>1, SubSeqFull
<1> DEFINE m == IF p = 0 THEN 1 ELSE p
<1>6. m \in 1..(n + 1) /\ Shown = SubSeq(Scoped, m, n)
  <2>1. CASE p = 0
    <3>1. m = 1 /\ Shown = Scoped
      BY <1>3, <2>1
    <3>2. 1 \in 1..(n + 1)
      BY <1>1
    <3> HIDE DEF m, p, n
    <3> QED BY <1>5, <3>1, <3>2
  <2>2. CASE p # 0
    <3>1. m = p /\ p \in 1..n /\ Shown = SubSeq(Scoped, p, n)
      BY <1>3, <1>4, <2>2
    <3> HIDE DEF p
    <3> QED BY SMTT(60), <1>1, <3>1
  <2> QED BY <2>1, <2>2
<1>7. m = 1 \/ (m \in 1..n /\ \E t \in 1..n : Summarised(Scoped[t]) /\ Scoped[m] = messages[Scoped[t]].parent)
  BY <1>4
<1> HIDE DEF m
<1> DEFINE sc == Scoped
<1>9. sc \in Seq(Nat) /\ n = Len(sc) /\ n \in Nat
  BY <1>1
<1> HIDE DEF sc, n
<1>10. /\ SubSeq(sc, m, n) \in Seq(Nat) /\ Len(SubSeq(sc, m, n)) = n + 1 - m
       /\ \A k \in 1..(n + 1 - m) : SubSeq(sc, m, n)[k] = sc[m + k - 1]
  <2>1. m \in Nat /\ 1 <= m /\ m <= n + 1
    BY <1>6, <1>9
  <2>2. Len(SubSeq(sc, m, n)) = n + 1 - m
    BY <1>9, <2>1
  <2>3. \A k \in 1..(n + 1 - m) : SubSeq(sc, m, n)[k] = sc[m + k - 1]
    BY <1>9, <2>1
  <2>4. \A k \in m..n : k \in 1..Len(sc)
    BY <1>9, <2>1
  <2>5. SubSeq(sc, m, n) \in Seq(Nat)
    BY <1>9, <2>1, <2>4
  <2> QED BY <2>2, <2>3, <2>5
<1> QED BY <1>1, <1>6, <1>7, <1>10 DEF sc, n

(* Which of the messages in v is the last of a user. *)
LastOwner(ms, v) ==
  LET I == {k \in 1..Len(v) : ms[v[k]].role = "user"}
  IN IF I = {} THEN 0 ELSE v[Max(I)]

LEMMA LastOwnerFacts ==
  ASSUME NEW v \in Seq(Nat), NEW ms
  PROVE  \/ LastOwner(ms, v) = 0 /\ \A k \in 1..Len(v) : ms[v[k]].role # "user"
         \/ \E l \in 1..Len(v) : /\ LastOwner(ms, v) = v[l] /\ ms[v[l]].role = "user"
                                 /\ \A k \in 1..Len(v) : ms[v[k]].role = "user" => k <= l
<1> DEFINE I == {k \in 1..Len(v) : ms[v[k]].role = "user"}
<1>1. LastOwner(ms, v) = IF I = {} THEN 0 ELSE v[Max(I)]
  BY DEF LastOwner
<1>2. CASE I = {}
  BY <1>1, <1>2
<1>3. CASE I # {}
  <2>1. I \subseteq 1..Len(v) /\ Len(v) \in Nat
    OBVIOUS
  <2> HIDE DEF I
  <2>2. Max(I) \in I /\ \A k \in I : k <= Max(I)
    BY <1>3, <2>1, LastOf
  <2>3. PICK l \in I : l = Max(I)
    BY <2>2
  <2>4. LastOwner(ms, v) = v[l] /\ \A k \in I : k <= l
    BY <1>1, <1>3, <2>2, <2>3
  <2> QED BY <2>1, <2>3, <2>4 DEF I
<1> QED BY <1>2, <1>3

LEMMA LastOwnerIs ==
  ASSUME NEW v \in Seq(Nat), NEW ms
  PROVE  LET I == {k \in 1..Len(v) : ms[v[k]].role = "user"}
             k == IF I # {} THEN Max(I) ELSE 0
         IN (IF k = 0 THEN 0 ELSE v[k]) = LastOwner(ms, v)
<1> DEFINE I == {k \in 1..Len(v) : ms[v[k]].role = "user"}
<1>1. I \subseteq 1..Len(v) /\ Len(v) \in Nat
  OBVIOUS
<1>2. LastOwner(ms, v) = IF I = {} THEN 0 ELSE v[Max(I)]
  BY DEF LastOwner
<1> HIDE DEF I
<1>3. I # {} => Max(I) \in 1..Len(v)
  BY <1>1, LastOf
<1>4. I # {} => Max(I) # 0
  BY <1>1, <1>3
<1> QED BY <1>2, <1>4 DEF I

LEMMA LastUserIs == view \in Seq(Nat) => LastUser = LastOwner(messages, view)
BY LastOwnerIs DEF LastUser, LastSeen, SelectLastInSeq, IsUser

LEMMA LastUserNext == view' \in Seq(Nat) => LastUser' = LastOwner(messages', view')
BY LastOwnerIs DEF LastUser, LastSeen, SelectLastInSeq, IsUser

LEMMA InToSet == ASSUME NEW T, NEW s \in Seq(T)
                 PROVE  \A x : x \in ToSet(s) <=> \E k \in 1..Len(s) : s[k] = x
BY DEF ToSet

LEMMA ShownTyped ==
  ASSUME Typed, Shape
  PROVE  Shown \in Seq(Nat) /\ ToSet(Shown) \subseteq Ids
<1>1. PICK q, r \in Seq(Nat) :
        /\ Scoped = q \o r
        /\ ToSet(q) \subseteq Ids \ Own /\ ToSet(r) \subseteq Own
        /\ ToSet(q) \cup ToSet(r) = ToSet(Visible(Compacted))
  BY ScopedIs
<1>2. PICK p \in 1..(Len(Scoped) + 1) :
        /\ Shown \in Seq(Nat)
        /\ Len(Shown) = Len(Scoped) + 1 - p
        /\ \A k \in 1..Len(Shown) : Shown[k] = Scoped[p + k - 1]
  BY <1>1, ShownIs
<1>3. ToSet(Scoped) \subseteq Ids
  BY <1>1, ToSetConcat DEF Own
<1>4. Scoped \in Seq(Nat) /\ Len(Scoped) \in Nat
  BY <1>1
<1>5. \A k \in 1..Len(Shown) : p + k - 1 \in 1..Len(Scoped)
  BY <1>2, <1>4
<1>6. \A k \in 1..Len(Shown) : Shown[k] \in ToSet(Scoped)
  BY <1>2, <1>4, <1>5, InToSet
<1>7. \A x : x \in ToSet(Shown) => x \in ToSet(Scoped)
  <2>1. \A x : x \in ToSet(Shown) <=> \E k \in 1..Len(Shown) : Shown[k] = x
    BY <1>2, InToSet
  <2> QED BY <1>6, <2>1
<1> QED BY <1>2, <1>3, <1>7

(* A request that holds the prompt of the turn ends with what is the turn's.*)
LEMMA ShownEnds ==
  ASSUME Typed, Shape, Targets, base \in ToSet(Shown)
  PROVE  Owned(Last(Shown))
<1>1. PICK q, r \in Seq(Nat) :
        /\ Scoped = q \o r
        /\ ToSet(q) \subseteq Ids \ Own /\ ToSet(r) \subseteq Own
        /\ ToSet(q) \cup ToSet(r) = ToSet(Visible(Compacted))
  BY ScopedIs
<1>2. PICK p \in 1..(Len(Scoped) + 1) :
        /\ Shown \in Seq(Nat)
        /\ Len(Shown) = Len(Scoped) + 1 - p
        /\ \A k \in 1..Len(Shown) : Shown[k] = Scoped[p + k - 1]
  BY <1>1, ShownIs
<1>3. /\ Scoped \in Seq(Nat) /\ Len(q) \in Nat /\ Len(r) \in Nat
      /\ Len(Scoped) = Len(q) + Len(r)
      /\ \A i \in 1..Len(Scoped) : Scoped[i] = IF i <= Len(q) THEN q[i] ELSE r[i - Len(q)]
  BY <1>1
<1>n. /\ p \in Nat /\ 1 <= p /\ p <= Len(q) + Len(r) + 1
      /\ Len(q) \in Nat /\ Len(r) \in Nat /\ Len(Scoped) = Len(q) + Len(r)
      /\ Len(Shown) = Len(q) + Len(r) + 1 - p /\ Len(Shown) \in Nat
  BY <1>2, <1>3
<1>4. PICK k \in 1..Len(Shown) : Shown[k] = base
  BY <1>2, InToSet
<1>5. p + k - 1 \in 1..Len(Scoped) /\ Scoped[p + k - 1] = base /\ p + Len(Shown) - 1 = Len(Scoped)
  <2>1. k \in Nat /\ 1 <= k /\ k <= Len(Shown)
    BY <1>n, <1>4
  <2>2. p + k - 1 \in 1..Len(Scoped) /\ p + Len(Shown) - 1 = Len(Scoped)
    BY <1>n, <2>1
  <2> QED BY <1>2, <1>4, <2>2
<1>6. base \in Ids /\ base # 0
  <2>1. base \in Ids
    BY ShownTyped
  <2>2. Ids = 1..Len(messages) /\ messages \in Seq(Message)
    BY DEF Typed, Ids
  <2> QED BY <2>1, <2>2
<1>7. base \in Own
  BY <1>6 DEF Targets, Own, Owned
<1>8. p + k - 1 > Len(q)
  <2>1. SUFFICES ASSUME p + k - 1 <= Len(q) PROVE FALSE
    BY <1>n, <1>4
  <2>0. p + k - 1 \in 1..Len(q)
    BY <1>n, <1>4, <2>1
  <2>2. q[p + k - 1] = base
    BY <1>3, <1>5, <2>1
  <2>3. base \in ToSet(q)
    BY <2>0, <2>2, InToSet
  <2> QED BY <1>1, <1>7, <2>3
<1>9. Len(r) \in 1..Len(r) /\ Len(Shown) \in 1..Len(Shown) /\ Len(Scoped) \in 1..Len(Scoped)
      /\ ~ (Len(Scoped) <= Len(q)) /\ Len(Scoped) - Len(q) = Len(r)
  BY <1>n, <1>4, <1>8
<1>10. Last(Shown) = r[Len(r)]
  <2>1. Last(Shown) = Scoped[Len(Scoped)]
    BY <1>2, <1>5, <1>9 DEF Last
  <2> QED BY <1>3, <1>9, <2>1
<1>11. r[Len(r)] \in ToSet(r)
  BY <1>9, InToSet
<1> QED BY <1>1, <1>10, <1>11 DEF Own

(* Of a history that nothing has cut off, it shows the prompt of the turn,  *)
(* or what was injected after it, as the last that a user said.             *)
LEMMA ShownUser ==
  ASSUME Typed, Shape, Targets, base # 0,
         \A i \in Ids : messages[i].kind = "summary" =>
           messages[messages[i].parent].kind # "compaction"
  PROVE  LastOwner(messages, Shown) \in {base} \cup extras /\ LastOwner(messages, Shown) # 0
<1>1. PICK q, r \in Seq(Nat) :
        /\ Scoped = q \o r
        /\ ToSet(q) \subseteq Ids \ Own /\ ToSet(r) \subseteq Own
        /\ ToSet(q) \cup ToSet(r) = ToSet(Visible(Compacted))
  BY ScopedIs
<1>2. PICK p \in 1..(Len(Scoped) + 1) :
        /\ Shown \in Seq(Nat)
        /\ Len(Shown) = Len(Scoped) + 1 - p
        /\ \A k \in 1..Len(Shown) : Shown[k] = Scoped[p + k - 1]
        /\ \/ p = 1
           \/ /\ p \in DOMAIN Scoped
              /\ \E s \in DOMAIN Scoped : /\ Summarised(Scoped[s])
                                          /\ Scoped[p] = messages[Scoped[s]].parent
  BY <1>1, ShownIs
<1>3. /\ Scoped \in Seq(Nat) /\ Len(q) \in Nat /\ Len(r) \in Nat
      /\ DOMAIN Scoped = 1..Len(Scoped)
      /\ Len(Scoped) = Len(q) + Len(r)
      /\ \A i \in 1..Len(Scoped) : Scoped[i] = IF i <= Len(q) THEN q[i] ELSE r[i - Len(q)]
  BY <1>1
<1>n. /\ p \in Nat /\ 1 <= p /\ p <= Len(q) + Len(r) + 1
      /\ Len(q) \in Nat /\ Len(r) \in Nat /\ Len(Scoped) = Len(q) + Len(r)
      /\ Len(Shown) = Len(q) + Len(r) + 1 - p /\ Len(Shown) \in Nat
  BY <1>2, <1>3
<1>4. base \in Ids /\ IsUser(base) /\ base \in Own
  BY DEF Targets, Own, Owned
<1>5. base \in ToSet(r)
  <2>1. Compacted = 1
    BY CompactedIsAll
  <2>2. Len(messages) \in Nat /\ Ids = 1..Len(messages)
    BY DEF Typed, Ids
  <2>3. ToSet(Visible(1)) = {i \in Ids : i >= 1 /\ ~ (UserOf(i) >= 1 /\ Hidden(UserOf(i)))}
    BY <2>2, VisibleIs
  <2>4. UserOf(base) = base /\ ~ Hidden(base)
    BY <1>4, <2>2 DEF UserOf, Hidden
  <2>5. base \in ToSet(Visible(Compacted))
    BY SMTT(60), <1>4, <2>1, <2>2, <2>3, <2>4
  <2> QED BY <1>1, <1>4, <2>5
<1>6. PICK j \in 1..Len(r) : r[j] = base
  BY <1>5, InToSet
<1>7. \E k \in 1..Len(Shown) : IsUser(Shown[k]) /\ p + k - 1 > Len(q)
  <2>1. CASE p <= Len(q) + 1
    <3> DEFINE k == Len(q) + j + 1 - p
    <3>1. k \in 1..Len(Shown) /\ p + k - 1 = Len(q) + j /\ Len(q) + j > Len(q)
          /\ Len(q) + j \in 1..Len(Scoped) /\ ~ (Len(q) + j <= Len(q)) /\ (Len(q) + j) - Len(q) = j
      BY <1>n, <1>6, <2>1
    <3> HIDE DEF k
    <3>2. Shown[k] = base
      BY <1>2, <1>3, <1>6, <3>1
    <3> QED BY <1>4, <3>1, <3>2
  <2>2. CASE ~ (p <= Len(q) + 1)
    <3>1. p # 1 /\ p > Len(q)
      BY <1>3, <2>2
    <3>2. PICK s \in 1..Len(Scoped) : Summarised(Scoped[s]) /\ Scoped[p] = messages[Scoped[s]].parent
      BY <1>2, <1>3, <3>1
    <3>3. Scoped[s] \in Ids
      BY SMTT(60), <1>1, <1>3, ToSetConcat, InToSet DEF Own
    <3>4. IsUser(Scoped[p])
      BY <3>2, <3>3 DEF Shape, Summarised, UserKinds
    <3>5. 1 \in 1..Len(Shown) /\ p + 1 - 1 = p
      BY <1>2, <1>3, <3>1
    <3> QED BY <1>2, <3>1, <3>4, <3>5
  <2> QED BY <2>1, <2>2
<1>8. PICK k \in 1..Len(Shown) : IsUser(Shown[k]) /\ p + k - 1 > Len(q)
  BY <1>7
<1>9. PICK l \in 1..Len(Shown) :
        /\ LastOwner(messages, Shown) = Shown[l] /\ IsUser(Shown[l]) /\ k <= l
  BY <1>2, <1>8, LastOwnerFacts DEF IsUser
<1>10. /\ p + l - 1 \in 1..Len(Scoped) /\ ~ (p + l - 1 <= Len(q))
       /\ (p + l - 1) - Len(q) \in 1..Len(r)
  <2>1. k \in Nat /\ l \in Nat /\ k <= l /\ l <= Len(Shown) /\ p + k - 1 > Len(q)
    BY <1>n, <1>8, <1>9
  <2>2. p + l - 1 > Len(q) /\ p + l - 1 <= Len(q) + Len(r) /\ p + l - 1 \in Nat
    BY <1>n, <2>1
  <2> QED BY <1>n, <2>2
<1>11. Shown[l] \in Own
  <2>1. Shown[l] = r[(p + l - 1) - Len(q)]
    BY <1>2, <1>3, <1>9, <1>10
  <2>2. Shown[l] \in ToSet(r)
    BY <1>10, <2>1, InToSet
  <2> QED BY <1>1, <2>2
<1>12. Shown[l] # 0
  BY <1>11 DEF Own, Typed, Ids
<1> QED BY <1>9, <1>11, <1>12 DEF Own, Owned

----------------------------------------------------------------------------
(* What becomes of the messages *)

(* ms2 is ms, but for how the messages of E have ended, and for tails.      *)
Edit(ms, ms2, E) ==
  /\ ms2 \in Seq(Message) /\ Len(ms2) = Len(ms)
  /\ \A i \in 1..Len(ms) :
       /\ ms2[i].role = ms[i].role /\ ms2[i].kind = ms[i].kind /\ ms2[i].parent = ms[i].parent
       /\ i \notin E => ms2[i].finish = ms[i].finish /\ ms2[i].error = ms[i].error
       /\ ms2[i].tail # 0 => ms[i].tail # 0 \/ ms[i].kind = "compaction"

LEMMA EditNone == ASSUME NEW ms \in Seq(Message), NEW E PROVE Edit(ms, ms, E)
BY DEF Edit

LEMMA EditTwice ==
  ASSUME NEW a, NEW b, NEW c, NEW E, Edit(a, b, E), Edit(b, c, E)
  PROVE  Edit(a, c, E)
BY DEF Edit

LEMMA EditOne ==
  ASSUME NEW ms \in Seq(Message), NEW c \in 1..Len(ms), NEW m \in Message, NEW ms2,
         ms2 = [ms EXCEPT ![c] = m],
         m.role = ms[c].role, m.kind = ms[c].kind, m.parent = ms[c].parent,
         m.tail # 0 => ms[c].tail # 0 \/ ms[c].kind = "compaction"
  PROVE  Edit(ms, ms2, {c}) /\ ms2[c] = m
<1>1. /\ ms2 \in Seq(Message) /\ Len(ms2) = Len(ms) /\ ms2[c] = m
      /\ \A i \in 1..Len(ms) : i # c => ms2[i] = ms[i]
  OBVIOUS
<1> QED BY <1>1 DEF Edit

LEMMA EditFinish ==
  ASSUME NEW ms \in Seq(Message), NEW c \in 1..Len(ms),
         NEW f \in {"none", "stop", "tools", "error"}, NEW b \in BOOLEAN
  PROVE  LET ms2 == [ms EXCEPT ![c].finish = f, ![c].full = b] IN
         Edit(ms, ms2, {c}) /\ ms2[c].finish = f /\ ms2[c].error = ms[c].error
<1> DEFINE ms2 == [ms EXCEPT ![c].finish = f, ![c].full = b]
           m == [ms[c] EXCEPT !.finish = f, !.full = b]
<1>1. ms[c] \in Message
  OBVIOUS
<1>2. /\ m \in Message /\ m.role = ms[c].role /\ m.kind = ms[c].kind /\ m.parent = ms[c].parent
      /\ m.tail = ms[c].tail /\ m.finish = f /\ m.error = ms[c].error
  BY <1>1 DEF Message
<1>3. ms2 = [ms EXCEPT ![c] = m]
  OBVIOUS
<1> HIDE DEF m, ms2
<1>4. Edit(ms, ms2, {c})
  BY <1>2, <1>3, EditOne
<1>5. ms2[c] = m
  BY <1>2, <1>3
<1> QED BY <1>2, <1>4, <1>5 DEF ms2

LEMMA EditError ==
  ASSUME NEW ms \in Seq(Message), NEW c \in 1..Len(ms)
  PROVE  LET ms2 == [ms EXCEPT ![c].error = TRUE] IN
         Edit(ms, ms2, {c}) /\ ms2[c].finish = ms[c].finish
<1> DEFINE ms2 == [ms EXCEPT ![c].error = TRUE]
           m == [ms[c] EXCEPT !.error = TRUE]
<1>1. ms[c] \in Message
  OBVIOUS
<1>2. /\ m \in Message /\ m.role = ms[c].role /\ m.kind = ms[c].kind /\ m.parent = ms[c].parent
      /\ m.tail = ms[c].tail /\ m.finish = ms[c].finish
  BY <1>1 DEF Message
<1>3. ms2 = [ms EXCEPT ![c] = m]
  OBVIOUS
<1> HIDE DEF m, ms2
<1>4. Edit(ms, ms2, {c})
  BY <1>2, <1>3, EditOne
<1>5. ms2[c] = m
  BY <1>2, <1>3
<1> QED BY <1>2, <1>4, <1>5 DEF ms2

LEMMA EditExhaust ==
  ASSUME NEW ms \in Seq(Message), NEW c \in 1..Len(ms)
  PROVE  Edit(ms, Exhaust(ms, c), {c})
<1> DEFINE f == IF ms[c].finish = "none" THEN "error" ELSE ms[c].finish
           m == [ms[c] EXCEPT !.error = TRUE, !.finish = f]
<1>1. ms[c] \in Message
  OBVIOUS
<1>2. /\ m \in Message /\ m.role = ms[c].role /\ m.kind = ms[c].kind /\ m.parent = ms[c].parent
      /\ m.tail = ms[c].tail
  BY <1>1 DEF Message
<1>3. Exhaust(ms, c) = [ms EXCEPT ![c] = m]
  BY DEF Exhaust
<1> HIDE DEF m
<1> QED BY <1>2, <1>3, EditOne

LEMMA EditFailed ==
  ASSUME NEW ms \in Seq(Message), NEW c \in 1..Len(ms)
  PROVE  LET ms2 == [ms EXCEPT ![c].error = TRUE, ![c].finish = "error"] IN
         Edit(ms, ms2, {c})
<1> DEFINE ms2 == [ms EXCEPT ![c].error = TRUE, ![c].finish = "error"]
           m == [ms[c] EXCEPT !.error = TRUE, !.finish = "error"]
<1>1. ms[c] \in Message
  OBVIOUS
<1>2. /\ m \in Message /\ m.role = ms[c].role /\ m.kind = ms[c].kind /\ m.parent = ms[c].parent
      /\ m.tail = ms[c].tail
  BY <1>1 DEF Message
<1>3. ms2 = [ms EXCEPT ![c] = m]
  OBVIOUS
<1> HIDE DEF m, ms2
<1>4. Edit(ms, ms2, {c})
  BY <1>2, <1>3, EditOne
<1> QED BY <1>4 DEF ms2

LEMMA EditTail ==
  ASSUME NEW ms \in Seq(Message), NEW u \in 1..Len(ms), NEW t \in Nat, NEW E,
         t # 0 => ms[u].kind = "compaction"
  PROVE  Edit(ms, IF t = 0 THEN ms ELSE [ms EXCEPT ![u].tail = t], E)
<1> DEFINE m == [ms[u] EXCEPT !.tail = t]
           ms2 == [ms EXCEPT ![u].tail = t]
<1>1. ms[u] \in Message
  OBVIOUS
<1>2. /\ m \in Message /\ m.role = ms[u].role /\ m.kind = ms[u].kind /\ m.parent = ms[u].parent
      /\ m.finish = ms[u].finish /\ m.error = ms[u].error
  BY <1>1 DEF Message
<1>3. ms2 = [ms EXCEPT ![u] = m]
  OBVIOUS
<1> HIDE DEF m, ms2
<1>4. /\ ms2 \in Seq(Message) /\ Len(ms2) = Len(ms) /\ ms2[u] = m
      /\ \A i \in 1..Len(ms) : i # u => ms2[i] = ms[i]
  BY <1>2, <1>3
<1>5. t # 0 => Edit(ms, ms2, E)
  BY <1>2, <1>4 DEF Edit
<1> QED BY <1>5, EditNone DEF ms2

(* A message that may come next. *)
Fits(m) ==
  /\ m \in Message /\ m.finish = "none" /\ ~ m.error /\ m.tail = 0
  /\ m.role = "user" <=> m.kind \in UserKinds
  /\ m.role = "user" => m.parent = 0
  /\ m.role # "user" => m.parent \in Ids /\ IsUser(m.parent)
  /\ m.kind = "summary" => at = "seen" /\ Task # 0 /\ m.parent = LastUser

LEMMA UserFits == ASSUME NEW k \in UserKinds
                  PROVE  Fits(User(k)) /\ User(k).kind = k /\ User(k).role = "user"
BY DEF Fits, User, Blank, Message, UserKinds

LEMMA CompactionFits ==
  ASSUME NEW a \in BOOLEAN, NEW o \in BOOLEAN
  PROVE  Fits(Compaction(a, o)) /\ Compaction(a, o).kind = "compaction" /\ Compaction(a, o).role = "user"
BY DEF Fits, Compaction, Blank, Message, UserKinds

LEMMA AssistantFits ==
  ASSUME Typed, NEW k \in {"step", "summary"}, NEW u \in Ids, IsUser(u),
         k = "summary" => at = "seen" /\ Task # 0 /\ u = LastUser
  PROVE  /\ Fits(Assistant(k, u)) /\ Assistant(k, u).kind = k /\ Assistant(k, u).parent = u
         /\ Assistant(k, u).role = "assistant"
<1>1. u \in Nat
  BY DEF Typed, Ids
<1> QED BY <1>1 DEF Fits, Assistant, Blank, Message, UserKinds

Evolves(E) == \E ms \in Seq(Message) :
  /\ Edit(messages, ms, E)
  /\ \/ messages' = ms
     \/ /\ Len(messages) < MaxMessages
        /\ \E m \in Message : Fits(m) /\ messages' = Append(ms, m)

(* What was there is still there, and what is new begins. *)
Grows(E) ==
  /\ messages' \in Seq(Message) /\ Ids = 1..Len(messages) /\ Ids' = 1..Len(messages')
  /\ Len(messages) \in Nat /\ Len(messages') \in Nat
  /\ Len(messages') = Len(messages) \/ Len(messages') = Len(messages) + 1
  /\ Len(messages') <= MaxMessages
  /\ Ids \subseteq Ids'
  /\ \A i \in Ids :
       /\ messages'[i].role = messages[i].role /\ messages'[i].kind = messages[i].kind
       /\ messages'[i].parent = messages[i].parent
       /\ i \notin E => messages'[i].finish = messages[i].finish /\ messages'[i].error = messages[i].error
       /\ messages'[i].tail # 0 => messages[i].kind = "compaction"
  /\ \A i \in Ids' : i \notin Ids => i = Len(messages) + 1 /\ Fits(messages'[i])

LEMMA EvolvesGrows ==
  ASSUME Typed, NEW E, Evolves(E)
  PROVE  Grows(E)
<1>1. PICK ms \in Seq(Message) :
        /\ Edit(messages, ms, E)
        /\ \/ messages' = ms
           \/ /\ Len(messages) < MaxMessages
              /\ \E m \in Message : Fits(m) /\ messages' = Append(ms, m)
  BY DEF Evolves
<1>2. /\ messages \in Seq(Message) /\ Len(messages) \in Nat /\ Ids = 1..Len(messages)
      /\ Len(messages) <= MaxMessages /\ Len(ms) = Len(messages)
      /\ \A i \in Ids : messages[i].tail # 0 => messages[i].kind = "compaction"
  <2>1. messages \in Seq(Message) /\ Len(messages) <= MaxMessages
    BY DEF Typed, TypeOK
  <2>2. \A i \in Ids : messages[i].tail # 0 => messages[i].kind = "compaction"
    BY DEF Typed, TypeOK
  <2>3. Len(ms) = Len(messages)
    BY <1>1 DEF Edit
  <2> QED BY <2>1, <2>2, <2>3 DEF Ids
<1>3. CASE messages' = ms
  BY <1>1, <1>2, <1>3 DEF Edit, Grows, Ids
<1>4. CASE /\ Len(messages) < MaxMessages
           /\ \E m \in Message : Fits(m) /\ messages' = Append(ms, m)
  <2>1. PICK m \in Message : Fits(m) /\ messages' = Append(ms, m)
    BY <1>4
  <2>2. /\ messages' \in Seq(Message) /\ Len(messages') = Len(messages) + 1
        /\ Ids' = 1..(Len(messages) + 1)
        /\ \A i \in 1..Len(messages) : messages'[i] = ms[i]
        /\ messages'[Len(messages) + 1] = m
    BY <1>2, <2>1 DEF Ids
  <2>3. \A i \in Ids' : i \notin Ids => i = Len(messages) + 1
    BY <1>2, <2>2
  <2>4. Len(messages) + 1 <= MaxMessages /\ Ids \subseteq Ids'
    BY <1>2, <1>4, <2>2, MaxMessagesAssumption
  <2> QED BY <1>1, <1>2, <2>1, <2>2, <2>3, <2>4 DEF Edit, Grows
<1> QED BY <1>1, <1>3, <1>4

LEMMA LastIndex ==
  ASSUME NEW T, NEW v \in Seq(T), NEW I, I \subseteq 1..Len(v)
  PROVE  LET k == IF I # {} THEN Max(I) ELSE 0 IN k = 0 \/ k \in I
<1>1. Len(v) \in Nat
  OBVIOUS
<1> QED BY <1>1, LastOf

(* What the loop makes of what it has read. *)
LEMMA ViewFacts ==
  ASSUME Typed
  PROVE  /\ LastUser = 0 \/ (LastUser \in Ids /\ IsUser(LastUser))
         /\ LastAssistant = 0 \/ (LastAssistant \in Ids /\ ~ IsUser(LastAssistant))
         /\ LastFinished = 0 \/ LastFinished \in Ids
         /\ Task = 0 \/ (Task \in Ids /\ messages[Task].kind = "compaction")
<1>1. view \in Seq(Nat) /\ \A k \in 1..Len(view) : view[k] \in Ids
  <2>1. view \in Seq(Nat) /\ ToSet(view) \subseteq Ids
    BY DEF Typed, TypeOK
  <2> QED BY <2>1, InToSet
<1>2. LastUser = 0 \/ (LastUser \in Ids /\ IsUser(LastUser))
  BY <1>1, LastUserIs, LastOwnerFacts DEF IsUser
<1>3. LastAssistant = 0 \/ (LastAssistant \in Ids /\ ~ IsUser(LastAssistant))
  <2> DEFINE I == {k \in 1..Len(view) : ~ IsUser(view[k])}
             k == IF I # {} THEN Max(I) ELSE 0
  <2>1. LastAssistant = IF k = 0 THEN 0 ELSE view[k]
    BY DEF LastAssistant, LastSeen, SelectLastInSeq
  <2>2. I \subseteq 1..Len(view)
    OBVIOUS
  <2> HIDE DEF I
  <2>3. k = 0 \/ k \in I
    BY <1>1, <2>2, LastIndex
  <2> HIDE DEF k
  <2> QED BY <1>1, <2>1, <2>2, <2>3 DEF I
<1>4. LastFinished = 0 \/ LastFinished \in Ids
  <2> DEFINE I == {k \in 1..Len(view) : Finished(view[k])}
             k == IF I # {} THEN Max(I) ELSE 0
  <2>1. LastFinished = IF k = 0 THEN 0 ELSE view[k]
    BY DEF LastFinished, LastSeen, SelectLastInSeq
  <2>2. I \subseteq 1..Len(view)
    OBVIOUS
  <2> HIDE DEF I
  <2>3. k = 0 \/ k \in I
    BY <1>1, <2>2, LastIndex
  <2> HIDE DEF k
  <2> QED BY <1>1, <2>1, <2>2, <2>3
<1>5. Task = 0 \/ (Task \in Ids /\ messages[Task].kind = "compaction")
  <2> DEFINE f == SelectLastInSeq(view, Finished)
             after == SubSeq(view, f + 1, Len(view))
             J == {k \in 1..Len(after) : messages[after[k]].kind = "compaction"}
             k == IF J # {} THEN Min(J) ELSE 0
             I == {l \in 1..Len(view) : Finished(view[l])}
  <2>1. f \in 0..Len(view)
    <3>1. f = IF I # {} THEN Max(I) ELSE 0
      BY DEF SelectLastInSeq
    <3>2. I \subseteq 1..Len(view) /\ Len(view) \in Nat
      BY <1>1
    <3> HIDE DEF I, f
    <3>3. f = 0 \/ f \in I
      BY <1>1, <3>1, <3>2, LastIndex
    <3>4. f = 0 \/ f \in 1..Len(view)
      BY <3>2, <3>3
    <3> QED BY <3>2, <3>4
  <2> HIDE DEF f
  <2>2. \A l \in 1..Len(after) : after[l] \in Ids
    <3>1. f \in Nat /\ f <= Len(view) /\ Len(view) \in Nat /\ view \in Seq(Nat)
      BY <1>1, <2>1
    <3>2. PICK m \in Nat : m = f + 1
      BY <3>1
    <3>3. 1 <= m /\ m <= Len(view) + 1 /\ after = SubSeq(view, m, Len(view))
      BY <3>1, <3>2
    <3> HIDE DEF after
    <3>4. Len(after) = Len(view) + 1 - m
      BY <3>1, <3>3
    <3>5. \A l \in 1..(Len(view) + 1 - m) : after[l] = view[m + l - 1]
      BY <3>1, <3>3
    <3>6. \A l \in 1..(Len(view) + 1 - m) : m + l - 1 \in 1..Len(view)
      BY <3>1, <3>3
    <3> QED BY <1>1, <3>4, <3>5, <3>6
  <2>3. Task = IF k = 0 THEN 0 ELSE after[k]
    BY DEF Task, SelectInSeq, f
  <2> HIDE DEF after
  <2>4. J \subseteq 1..Len(after) /\ J \subseteq Nat
    OBVIOUS
  <2>5. J # {} => Min(J) \in J
    <3> HIDE DEF J
    <3> QED BY <2>4, FirstOf
  <2> QED BY <2>2, <2>3, <2>5
<1> QED BY <1>2, <1>3, <1>4, <1>5

(* What a step may have ended. *)
Touched(E) ==
  \/ E = {}
  \/ E = {current} /\ at \in {"streaming", "summarising"}
  \/ attempts = MaxAttempts

LEMMA AppendEvolves ==
  ASSUME Typed, NEW m \in Message, Fits(m), Append1(m)
  PROVE  Evolves({})
BY EditNone DEF Evolves, Append1, Typed

LEMMA NextGrows ==
  ASSUME IInv, Next
  PROVE  \E E : Touched(E) /\ Grows(E)
<1>t. Typed /\ messages \in Seq(Message) /\ Ids = 1..Len(messages)
  BY DEF IInv, Typed, Ids
<1>v. /\ LastUser = 0 \/ (LastUser \in Ids /\ IsUser(LastUser))
      /\ LastFinished = 0 \/ LastFinished \in Ids
      /\ Task = 0 \/ (Task \in Ids /\ messages[Task].kind = "compaction")
  BY <1>t, ViewFacts
<1>c. at \in {"streaming", "summarising"} => current \in 1..Len(messages)
  BY <1>t DEF IInv, Running
<1> SUFFICES \E E : Touched(E) /\ Evolves(E)
  BY <1>t, EvolvesGrows
<1>1. CASE messages' = messages
  <2>1. Evolves({})
    BY <1>t, <1>1, EditNone DEF Evolves
  <2> QED BY <2>1 DEF Touched
<1>2. ASSUME NEW m, Fits(m), Append1(m)
      PROVE  \E E : Touched(E) /\ Evolves(E)
  <2>1. Evolves({})
    BY <1>t, <1>2, AppendEvolves DEF Fits
  <2> QED BY <2>1 DEF Touched
<1>3. ASSUME NEW p \in Prompts, Store(p)
      PROVE  \E E : Touched(E) /\ Evolves(E)
  BY <1>2, <1>3, UserFits DEF Store, UserKinds
<1>4. ASSUME NEW s \in Summaries, CreateSummary(s)
      PROVE  \E E : Touched(E) /\ Evolves(E)
  BY <1>2, <1>4, CompactionFits DEF CreateSummary
<1>5. CASE Inject
  BY <1>2, <1>5, UserFits DEF Inject, UserKinds
<1>6. CASE Create
  <2>1. CASE attempts = MaxAttempts
    <3>1. LastFinished \in 1..Len(messages) /\ messages' = Exhaust(messages, LastFinished)
      BY <1>t, <1>v, <1>6, <2>1 DEF Create, Full
    <3>2. Edit(messages, messages', {LastFinished})
      BY <1>t, <3>1, EditExhaust
    <3>3. Evolves({LastFinished})
      BY <3>2 DEF Evolves, Edit
    <3> QED BY <2>1, <3>3 DEF Touched
  <2>2. CASE attempts # MaxAttempts
    BY <1>2, <1>6, <2>2, CompactionFits DEF Create
  <2> QED BY <2>1, <2>2
<1>7. CASE Step
  BY <1>t, <1>v, <1>2, <1>7, AssistantFits DEF Step, GoesOn
<1>8. CASE Summarise
  BY <1>t, <1>v, <1>2, <1>8, AssistantFits DEF Summarise, GoesOn
<1>9. ASSUME NEW ms, Edit(messages, ms, {current}), at \in {"streaming", "summarising"},
             \/ messages' = ms
             \/ /\ Len(messages) < MaxMessages
                /\ \E m : Fits(m) /\ messages' = Append(ms, m)
      PROVE  \E E : Touched(E) /\ Evolves(E)
  <2>1. Evolves({current})
    BY <1>9 DEF Evolves, Edit, Fits
  <2> QED BY <1>9, <2>1 DEF Touched
<1>f. ASSUME NEW f \in {"none", "stop", "tools"}, NEW b \in BOOLEAN, at \in {"streaming", "summarising"}
      PROVE  Edit(messages, Finish(f, b), {current}) /\ Finish(f, b) \in Seq(Message)
             /\ Len(Finish(f, b)) = Len(messages)
  <2>1. f \in {"none", "stop", "tools", "error"} /\ current \in 1..Len(messages)
    BY <1>c, <1>f
  <2>2. Edit(messages, Finish(f, b), {current})
    BY ZenonT(60), <1>t, <2>1, EditFinish DEF Finish
  <2> QED BY <2>2 DEF Edit
<1>10. CASE StepEnds
  BY <1>9, <1>10, <1>f DEF StepEnds
<1>11. CASE StepFails
  BY <1>t, <1>c, <1>9, <1>11, EditError DEF StepFails
<1>12. CASE StepBlocked
  BY <1>9, <1>12, <1>f DEF StepBlocked
<1>13. CASE StepOverflows
  <2>1. PICK f \in {"none", "stop", "tools"} :
          \/ messages' = Exhaust(Finish(f, f # "none"), current)
          \/ /\ Len(messages) < MaxMessages
             /\ messages' = Append(Finish(f, f # "none"), Compaction(TRUE, f = "none"))
    <3>1. CASE attempts = MaxAttempts
      BY <1>13, <3>1 DEF StepOverflows
    <3>2. CASE attempts # MaxAttempts
      BY <1>13, <3>2 DEF StepOverflows
    <3> QED BY <3>1, <3>2
  <2> DEFINE ms == Finish(f, f # "none")
  <2>2. at \in {"streaming", "summarising"} /\ (f # "none") \in BOOLEAN
    BY <1>13 DEF StepOverflows
  <2>3. Edit(messages, ms, {current}) /\ ms \in Seq(Message) /\ Len(ms) = Len(messages)
    BY <1>f, <2>2
  <2>4. Edit(ms, Exhaust(ms, current), {current})
    BY <1>c, <2>2, <2>3, EditExhaust
  <2> HIDE DEF ms
  <2>5. Edit(messages, Exhaust(ms, current), {current})
    BY <2>3, <2>4, EditTwice
  <2>6. Fits(Compaction(TRUE, f = "none"))
    BY CompactionFits
  <2> QED BY <1>9, <2>1, <2>2, <2>3, <2>5, <2>6 DEF ms
<1>w. ASSUME NEW tail \in Tails, NEW ms \in Seq(Message), Edit(messages, ms, {current}), at = "summarising"
      PROVE  Edit(messages, WithTail(ms, tail), {current})
  <2>1. LastUser \in 1..Len(ms)
    BY <1>t, <1>w DEF IInv, Running, Edit
  <2>2. tail \in Nat /\ (tail # 0 => messages[LastUser].kind = "compaction")
    <3>1. ToSet(view) \subseteq Nat
      <4>1. ToSet(view) \subseteq Ids
        BY <1>t DEF Typed, TypeOK
      <4> QED BY <1>t, <4>1
    <3> QED BY <3>1 DEF Tails
  <2>3. ms[LastUser].kind = messages[LastUser].kind
    BY <2>1, <1>w DEF Edit
  <2>4. Edit(ms, WithTail(ms, tail), {current})
    BY <2>1, <2>2, <2>3, EditTail DEF WithTail
  <2> QED BY <1>w, <2>4, EditTwice
<1>14. CASE SummaryEnds
  <2>1. PICK tail \in Tails :
          LET ms == WithTail(Finish("stop", FALSE), tail) IN
          \/ messages' = ms
          \/ /\ Len(messages) < MaxMessages
             /\ messages' = Append(ms, User(IF Replays(Task) THEN "replay" ELSE "continue"))
    BY <1>14 DEF SummaryEnds
  <2>2. at = "summarising"
    BY <1>14 DEF SummaryEnds
  <2>3. Edit(messages, WithTail(Finish("stop", FALSE), tail), {current})
    BY <1>f, <1>w, <2>2
  <2>4. Fits(User(IF Replays(Task) THEN "replay" ELSE "continue"))
    BY UserFits DEF UserKinds
  <2> QED BY <1>9, <2>1, <2>2, <2>3, <2>4
<1>15. CASE SummaryFails
  <2>1. at = "summarising"
    BY <1>15 DEF SummaryFails
  <2>2. ASSUME NEW tail \in Tails, messages' = [WithTail(messages, tail) EXCEPT ![current].error = TRUE]
        PROVE  \E E : Touched(E) /\ Evolves(E)
    <3> DEFINE ms == WithTail(messages, tail)
    <3>1. Edit(messages, ms, {current})
      BY <1>t, <1>w, <2>1, EditNone
    <3>2. ms \in Seq(Message) /\ current \in 1..Len(ms)
      BY <1>c, <2>1, <3>1 DEF Edit
    <3> HIDE DEF ms
    <3>3. Edit(ms, [ms EXCEPT ![current].error = TRUE], {current})
      BY <3>2, EditError
    <3>4. Edit(messages, messages', {current})
      BY <2>2, <3>1, <3>3, EditTwice DEF ms
    <3> QED BY <1>9, <2>1, <3>4
  <2>3. CASE messages' = [messages EXCEPT ![current].error = TRUE, ![current].finish = "error"]
    <3>1. Edit(messages, [messages EXCEPT ![current].error = TRUE, ![current].finish = "error"], {current})
      BY <1>t, <1>c, <2>1, EditFailed
    <3> QED BY <1>9, <2>1, <2>3, <3>1
  <2> QED BY <1>15, <2>2, <2>3 DEF SummaryFails
<1> QED
  BY <1>1, <1>3, <1>4, <1>5, <1>6, <1>7, <1>8, <1>10, <1>11, <1>12, <1>13, <1>14, <1>15
  DEF Next, Enqueue, StartTurn, LoopDirect, Return, Look, NoUser, Exit, AskFollowup, Dismissed, Proceed

----------------------------------------------------------------------------
(* What the run does *)

Run ==
  \/ Look \/ NoUser \/ Exit \/ AskFollowup \/ Dismissed \/ Inject
  \/ Create \/ Step
  \/ StepEnds \/ StepFails \/ StepBlocked \/ StepOverflows
  \/ Summarise \/ SummaryEnds \/ SummaryFails

Outcomes == {"exit", "nouser", "exhausted", "error", "blocked", "interrupted"}

Moves ==
  \/ at' \in {"top", "seen", "asking", "streaming", "summarising"}
     /\ UNCHANGED <<callerVars, joined, reason>>
  \/ \E how \in Outcomes :
       /\ EndRun(how)
       /\ how = "nouser" => at = "seen" /\ LastUser = 0
       /\ how = "exit" => Exit \/ Dismissed

LEMMA OnwardMoves == ASSUME Onward PROVE Moves
BY DEF Onward, Moves, Proceed, Outcomes

LEMMA RunMoves == ASSUME Run PROVE Moves /\ at # "none"
<1> USE DEF Moves, Outcomes, Proceed
<1>1. CASE Look BY <1>1 DEF Look
<1>2. CASE NoUser BY <1>2 DEF NoUser
<1>3. CASE Exit BY <1>3 DEF Exit
<1>4. CASE AskFollowup BY <1>4 DEF AskFollowup
<1>5. CASE Dismissed BY <1>5 DEF Dismissed
<1>6. CASE Inject BY <1>6 DEF Inject
<1>7. CASE Create
  <2>1. CASE attempts = MaxAttempts BY <1>7, <2>1 DEF Create, GoesOn
  <2>2. CASE attempts # MaxAttempts BY <1>7, <2>2 DEF Create, GoesOn
  <2> QED BY <2>1, <2>2
<1>8. CASE Step BY <1>8 DEF Step, GoesOn
<1>9. CASE StepEnds BY <1>9, OnwardMoves DEF StepEnds
<1>10. CASE StepFails BY <1>10 DEF StepFails
<1>11. CASE StepBlocked BY <1>11 DEF StepBlocked
<1>12. CASE StepOverflows
  <2>1. CASE attempts = MaxAttempts BY <1>12, <2>1 DEF StepOverflows
  <2>2. CASE attempts # MaxAttempts BY <1>12, <2>2, OnwardMoves DEF StepOverflows
  <2> QED BY <2>1, <2>2
<1>13. CASE Summarise BY <1>13 DEF Summarise, GoesOn
<1>14. CASE SummaryEnds BY <1>14 DEF SummaryEnds
<1>15. CASE SummaryFails BY <1>15 DEF SummaryFails
<1> QED
  BY <1>1, <1>2, <1>3, <1>4, <1>5, <1>6, <1>7, <1>8, <1>9, <1>10, <1>11, <1>12, <1>13, <1>14, <1>15
  DEF Run

Appended(kind) ==
  /\ Len(messages) < MaxMessages /\ Len(messages') = Len(messages) + 1
  /\ messages'[Len(messages) + 1].kind = kind
  /\ messages'[Len(messages) + 1].parent = IF kind \in UserKinds THEN 0 ELSE LastUser

LEMMA AppendedUser ==
  ASSUME Typed, NEW k \in UserKinds, Append1(User(k))
  PROVE  Appended(k)
BY UserFits DEF Append1, Appended, Typed, Fits

LEMMA AppendedCompaction ==
  ASSUME messages \in Seq(Message), NEW ms \in Seq(Message), Len(ms) = Len(messages), Len(messages) < MaxMessages,
         NEW o \in BOOLEAN, messages' = Append(ms, Compaction(TRUE, o))
  PROVE  Appended("compaction")
<1>1. /\ Compaction(TRUE, o).kind = "compaction" /\ Compaction(TRUE, o).parent = 0
      /\ Compaction(TRUE, o) \in Message
  BY CompactionFits DEF Fits
<1>2. PICK m \in Message : m = Compaction(TRUE, o)
  BY <1>1
<1>3. messages' = Append(ms, m)
  BY <1>2
<1>4. /\ Append(ms, m)[Len(ms) + 1] = m /\ Len(Append(ms, m)) = Len(ms) + 1
  OBVIOUS
<1>5. messages'[Len(messages) + 1] = m /\ Len(messages') = Len(messages) + 1
  BY <1>3, <1>4
<1> QED BY <1>1, <1>2, <1>5 DEF Appended, UserKinds

LEMMA AppendedAssistant ==
  ASSUME Typed, NEW k \in {"step", "summary"}, NEW u \in Ids, u = LastUser, Append1(Assistant(k, u))
  PROVE  Appended(k)
BY DEF Append1, Appended, Typed, Assistant, Blank, UserKinds

(* What the run keeps for itself. *)
Keeps ==
  /\ \/ view' = view /\ at' # "none"
     \/ view' = <<>> /\ at' \in {"none", "top"}
     \/ view' = Shown /\ messages' = messages /\ at = "top" /\ at' = "seen"
  /\ extras' = extras \/ (extras' = extras \cup {Len(messages) + 1} /\ base # 0 /\ Appended("followup"))
  /\ \/ late' = late
     \/ late' = (IF newer THEN late + 1 ELSE late) /\ at = "seen" /\ at' = "streaming"
  /\ attempts' = attempts \/ (attempts # MaxAttempts /\ attempts' = attempts + 1 /\ Appended("compaction"))

Currents ==
  \/ /\ current' = current /\ at' \notin {"streaming", "summarising"}
     /\ ~ (at = "seen" /\ at' \in {"streaming", "summarising"})
  \/ current' = 0 /\ at' \in {"none", "top"}
  \/ current' = Len(messages) + 1 /\ at' = "streaming" /\ Appended("step")
  \/ current' = Len(messages) + 1 /\ at' = "summarising" /\ Appended("summary")
     /\ at = "seen" /\ LastUser # 0 /\ Task # 0 /\ view' = view

LEMMA EndRunKeeps ==
  ASSUME NEW how, EndRun(how), UNCHANGED <<extras, attempts>>
  PROVE  Keeps /\ Currents
BY DEF EndRun, Keeps, Currents

LEMMA OnwardKeeps ==
  ASSUME Onward, late' = late, extras' = extras,
         attempts' = attempts \/ (attempts # MaxAttempts /\ attempts' = attempts + 1 /\ Appended("compaction"))
  PROVE  Keeps /\ Currents
BY DEF Onward, Proceed, EndRun, Keeps, Currents

LEMMA RunKeeps == ASSUME IInv, Run PROVE Keeps /\ Currents
<1>t. Typed /\ messages \in Seq(Message) /\ Ids = 1..Len(messages)
  BY DEF IInv, Typed, Ids
<1>v. LastUser = 0 \/ LastUser \in Ids
  BY <1>t, ViewFacts
<1>1. CASE Look BY <1>1 DEF Look, Proceed, Keeps, Currents
<1>2. CASE NoUser BY <1>2, EndRunKeeps DEF NoUser
<1>3. CASE Exit BY <1>3, EndRunKeeps DEF Exit
<1>4. CASE AskFollowup BY <1>4 DEF AskFollowup, Proceed, Keeps, Currents
<1>5. CASE Dismissed BY <1>5, EndRunKeeps DEF Dismissed
<1>6. CASE Inject
  <2>1. Appended("followup")
    BY <1>t, <1>6, AppendedUser DEF Inject, UserKinds
  <2> QED BY <1>6, <2>1 DEF Inject, Next1, Proceed, Keeps, Currents
<1>7. CASE Create
  <2>1. CASE attempts = MaxAttempts
    BY <1>7, <2>1, EndRunKeeps DEF Create, GoesOn
  <2>2. CASE attempts # MaxAttempts
    <3>1. Appended("compaction")
      BY <1>t, <1>7, <2>2, AppendedCompaction DEF Create, Append1
    <3> QED BY <1>7, <2>2, <3>1 DEF Create, GoesOn, Proceed, Keeps, Currents
  <2> QED BY <2>1, <2>2
<1>8. CASE Step
  <2>1. Appended("step")
    BY <1>t, <1>v, <1>8, AppendedAssistant DEF Step, GoesOn
  <2> QED BY <1>8, <2>1 DEF Step, Next1, GoesOn, Proceed, Keeps, Currents
<1>9. CASE StepEnds BY <1>9, OnwardKeeps DEF StepEnds
<1>10. CASE StepFails BY <1>10, EndRunKeeps DEF StepFails
<1>11. CASE StepBlocked BY <1>11, EndRunKeeps DEF StepBlocked
<1>12. CASE StepOverflows
  <2>1. CASE attempts = MaxAttempts BY <1>12, <2>1, EndRunKeeps DEF StepOverflows
  <2>2. CASE attempts # MaxAttempts
    <3>1. PICK f \in {"none", "stop", "tools"} :
            /\ Len(messages) < MaxMessages
            /\ messages' = Append(Finish(f, f # "none"), Compaction(TRUE, f = "none"))
      BY <1>12, <2>2 DEF StepOverflows
    <3> DEFINE ms == Finish(f, f # "none")
    <3>2. Len(ms) = Len(messages) /\ ms \in Seq(Message)
      <4>1. current \in 1..Len(messages)
        BY <1>12, <1>t DEF IInv, Running, StepOverflows
      <4>2. f \in {"none", "stop", "tools", "error"} /\ (f # "none") \in BOOLEAN
        OBVIOUS
      <4>3. Edit(messages, Finish(f, f # "none"), {current})
        BY <1>t, <4>1, <4>2, EditFinish DEF Finish
      <4> QED BY <4>3 DEF Edit
    <3> HIDE DEF ms
    <3>3. Appended("compaction")
      <4>1. (f = "none") \in BOOLEAN
        OBVIOUS
      <4>2. messages' = Append(ms, Compaction(TRUE, f = "none"))
        BY <3>1 DEF ms
      <4> QED BY <1>t, <3>1, <3>2, <4>1, <4>2, AppendedCompaction
    <3> QED BY <1>12, <2>2, <3>3, OnwardKeeps DEF StepOverflows
  <2> QED BY <2>1, <2>2
<1>13. CASE Summarise
  <2>1. Appended("summary")
    BY <1>t, <1>v, <1>13, AppendedAssistant DEF Summarise, GoesOn
  <2> QED BY <1>13, <2>1 DEF Summarise, Next1, GoesOn, Proceed, Keeps, Currents
<1>14. CASE SummaryEnds BY <1>14 DEF SummaryEnds, Proceed, Keeps, Currents
<1>15. CASE SummaryFails BY <1>15, EndRunKeeps DEF SummaryFails
<1> QED
  BY <1>1, <1>2, <1>3, <1>4, <1>5, <1>6, <1>7, <1>8, <1>9, <1>10, <1>11, <1>12, <1>13, <1>14, <1>15
  DEF Run

----------------------------------------------------------------------------
(* The run keeps the invariant *)

LEMMA GrowsShape ==
  ASSUME Typed, Shape, NEW E, Grows(E)
  PROVE  Shape'
<1>1. \A i \in Ids : messages'[i].role = messages[i].role /\ messages'[i].kind = messages[i].kind
                     /\ messages'[i].parent = messages[i].parent
  BY DEF Grows
<1>2. Ids \subseteq Ids' /\ \A i \in Ids' : i \notin Ids => Fits(messages'[i])
  BY DEF Grows
<1>3. ASSUME NEW i \in Ids'
      PROVE  /\ messages'[i].role = "user" <=> messages'[i].kind \in UserKinds
             /\ messages'[i].role # "user" =>
                  messages'[i].parent \in Ids' /\ messages'[messages'[i].parent].role = "user"
  <2>1. CASE i \in Ids
    BY <1>1, <1>2, <2>1 DEF Shape, IsUser
  <2>2. CASE i \notin Ids
    BY <1>1, <1>2, <1>3, <2>2 DEF Fits, IsUser
  <2> QED BY <2>1, <2>2
<1> QED BY <1>3 DEF Shape, IsUser

LEMMA GrowsMessages ==
  ASSUME Typed, Shape, NEW E, Grows(E)
  PROVE  /\ messages' \in Seq(Message) /\ Len(messages') <= MaxMessages
         /\ \A i \in Ids' :
              /\ messages'[i].role \in {"user", "assistant"}
              /\ messages'[i].kind \in {"prompt", "compaction", "continue", "replay",
                                        "followup", "step", "summary"}
              /\ messages'[i].parent < i
              /\ messages'[i].tail # 0 => messages'[i].kind = "compaction"
<1>1. messages' \in Seq(Message) /\ Len(messages') <= MaxMessages /\ Ids' = 1..Len(messages')
  BY DEF Grows
<1>2. \A i \in Ids' : messages'[i] \in Message
  BY <1>1
<1>3. ASSUME NEW i \in Ids'
      PROVE  messages'[i].parent < i /\ (messages'[i].tail # 0 => messages'[i].kind = "compaction")
  <2>1. CASE i \in Ids
    <3>1. messages[i].parent < i
      BY <2>1 DEF Typed, TypeOK
    <3> QED BY <2>1, <3>1 DEF Grows
  <2>2. CASE i \notin Ids
    <3>1. i = Len(messages) + 1 /\ Fits(messages'[i]) /\ Len(messages) \in Nat /\ Ids = 1..Len(messages)
      BY <1>3, <2>2 DEF Grows
    <3>2. messages'[i].parent = 0 \/ messages'[i].parent \in 1..Len(messages)
      BY <3>1 DEF Fits, Message
    <3> QED BY <3>1, <3>2 DEF Fits
  <2> QED BY <2>1, <2>2
<1> QED BY <1>1, <1>2, <1>3 DEF Message, UserKinds

LEMMA SameOwner ==
  ASSUME Typed, NEW E, Grows(E), view' = view
  PROVE  LastUser' = LastUser
<1>1. view \in Seq(Nat) /\ \A k \in 1..Len(view) : view[k] \in Ids
  <2>1. view \in Seq(Nat) /\ ToSet(view) \subseteq Ids
    BY DEF Typed, TypeOK
  <2> QED BY <2>1, InToSet
<1>2. \A k \in 1..Len(view) : messages'[view[k]].role = messages[view[k]].role
  BY <1>1 DEF Grows
<1>3. LastOwner(messages', view) = LastOwner(messages, view)
  <2>1. {k \in 1..Len(view) : messages'[view[k]].role = "user"}
          = {k \in 1..Len(view) : messages[view[k]].role = "user"}
    BY <1>2
  <2> QED BY <2>1 DEF LastOwner
<1> QED BY <1>1, <1>3, LastUserIs, LastUserNext

LEMMA EmptyView == ToSet(<<>>) = {} /\ <<>> \in Seq(Nat)
BY DEF ToSet

LEMMA RunTyped ==
  ASSUME IInv, Run, NEW E, Grows(E)
  PROVE  Typed'
<1>i. Typed /\ Shape /\ TypeOK /\ Running
  BY DEF IInv, Typed
<1>m. Moves /\ at # "none" /\ Keeps /\ Currents
  BY RunMoves, RunKeeps
<1>g. Ids \subseteq Ids' /\ Ids' = 1..Len(messages') /\ Len(messages') \in Nat /\ Ids = 1..Len(messages)
      /\ Len(messages') <= MaxMessages
  BY DEF Grows
<1>1. /\ UNCHANGED <<msgOf, queue, newer, base, closed>>
      /\ \/ /\ at' \in {"top", "seen", "asking", "streaming", "summarising"}
            /\ pc' = pc /\ ended' = ended /\ joined' = joined /\ reason' = reason
         \/ /\ at' = "none" /\ joined' = {}
            /\ \E how \in Outcomes :
                 ended' = [c \in Callers |-> IF c \in joined THEN how ELSE ended[c]]
            /\ pc' = [c \in Callers |-> IF c \in joined THEN "closing" ELSE pc[c]]
            /\ reason' \in {"error", "interrupted", reason}
  BY <1>m DEF Moves, EndRun, callerVars
<1>2. /\ pc' \in [Callers -> {"start", "stored", "waiting", "joined", "closing", "done"}]
      /\ ended' \in [Callers -> {"", "exit", "nouser", "exhausted", "error", "blocked", "interrupted"}]
      /\ joined' \subseteq Callers /\ (at' = "none" <=> joined' = {})
      /\ reason' \in {"", "error", "interrupted"}
      /\ at' \in {"none", "top", "seen", "asking", "streaming", "summarising"}
  <2>1. /\ pc \in [Callers -> {"start", "stored", "waiting", "joined", "closing", "done"}]
        /\ ended \in [Callers -> {"", "exit", "nouser", "exhausted", "error", "blocked", "interrupted"}]
        /\ joined \subseteq Callers /\ joined # {} /\ reason \in {"", "error", "interrupted"}
    BY <1>i, <1>m DEF TypeOK
  <2>2. pc' \in [Callers -> {"start", "stored", "waiting", "joined", "closing", "done"}]
    BY <1>1, <2>1
  <2>3. ended' \in [Callers -> {"", "exit", "nouser", "exhausted", "error", "blocked", "interrupted"}]
    BY <1>1, <2>1 DEF Outcomes
  <2>4. joined' \subseteq Callers /\ (at' = "none" <=> joined' = {})
    BY <1>1, <2>1
  <2> QED BY <1>1, <2>1, <2>2, <2>3, <2>4
<1>3. /\ msgOf' \in [Callers -> 0..MaxMessages] /\ queue' \in Seq(Prompts) /\ ToSet(queue') \subseteq Prompts
      /\ newer' \in BOOLEAN /\ base' \in 0..MaxMessages
      /\ closed' \in [Callers -> {"", "completed", "error", "interrupted"}]
  BY ZenonT(60), <1>i, <1>1 DEF TypeOK, Typed, ToSet
<1>4. extras' \subseteq Ids' /\ extras' \subseteq Nat
  <2>1. extras \subseteq Ids
    BY <1>i DEF TypeOK
  <2>2. extras' = extras \/ (extras' = extras \cup {Len(messages) + 1} /\ Len(messages') = Len(messages) + 1)
    BY <1>m DEF Keeps, Appended
  <2>3. Len(messages') = Len(messages) + 1 => Len(messages) + 1 \in Ids'
    BY <1>g
  <2>4. extras' \subseteq Ids'
    BY <1>g, <2>1, <2>2, <2>3
  <2> QED BY <1>g, <2>4
<1>5. view' \in Seq(Nat) /\ ToSet(view') \subseteq Ids'
  <2>1. view \in Seq(Nat) /\ ToSet(view) \subseteq Ids
    BY <1>i DEF TypeOK, Typed
  <2>2. Shown \in Seq(Nat) /\ ToSet(Shown) \subseteq Ids
    BY <1>i, ShownTyped
  <2>3. view' = view \/ view' = <<>> \/ view' = Shown
    BY <1>m DEF Keeps
  <2> QED BY <1>g, <2>1, <2>2, <2>3, EmptyView
<1>6. current' \in 0..MaxMessages
  <2>1. current' = current \/ current' = 0 \/ (current' = Len(messages) + 1 /\ Len(messages) < MaxMessages)
    BY <1>m DEF Currents, Appended
  <2>2. current \in 0..MaxMessages /\ Len(messages) \in Nat
    <3>1. messages \in Seq(Message)
      BY <1>i DEF Typed
    <3>2. current \in 0..MaxMessages
      BY <1>i DEF TypeOK
    <3> QED BY <3>1, <3>2
  <2> QED BY <2>1, <2>2, MaxMessagesAssumption
<1>7. attempts' \in 0..MaxAttempts
  <2>1. attempts' = attempts \/ (attempts # MaxAttempts /\ attempts' = attempts + 1)
    BY <1>m DEF Keeps
  <2>2. attempts \in 0..MaxAttempts
    BY <1>i DEF TypeOK
  <2> QED BY <2>1, <2>2, MaxAttemptsAssumption
<1>8. late' \in Nat
  <2>1. late' = late \/ late' = late + 1
    BY <1>m DEF Keeps
  <2> QED BY <1>i, <2>1 DEF Typed
<1>9. TypeOK'
  BY <1>i, <1>2, <1>3, <1>4, <1>5, <1>6, <1>7, GrowsMessages DEF TypeOK
<1> QED BY <1>i, <1>3, <1>4, <1>5, <1>8, <1>9, GrowsMessages DEF Typed

(* Who waits for the run and who is in the line is all the same to it. *)
LEMMA RunLine ==
  ASSUME IInv, Run
  PROVE  Line'
<1>i. Typed /\ Line
  BY DEF IInv
<1>1. /\ queue' = queue /\ base' = base /\ msgOf' = msgOf
      /\ \/ pc' = pc
         \/ pc' = [c \in Callers |-> IF c \in joined THEN "closing" ELSE pc[c]]
  BY RunMoves DEF Moves, EndRun, callerVars
<1>2. \A c \in Callers : c \in joined => pc[c] = "joined"
  BY DEF IInv, Running
<1>3. \A c \in Callers : \/ pc'[c] = pc[c]
                         \/ pc[c] = "joined" /\ pc'[c] = "closing"
  BY <1>1, <1>2
<1>4. Prompts \subseteq Callers /\ Summaries \subseteq Callers
  BY DEF Callers
<1> QED BY <1>i, <1>1, <1>3, <1>4 DEF Line

LEMMA RunTargets ==
  ASSUME IInv, Run, NEW E, Grows(E)
  PROVE  Targets'
<1>i. Typed /\ Targets /\ base \in Nat
  <2>1. base \in 0..MaxMessages
    BY DEF IInv, Typed, TypeOK
  <2> QED BY <2>1 DEF IInv
<1>1. /\ base' = base /\ msgOf' = msgOf
      /\ \/ pc' = pc
         \/ pc' = [c \in Callers |-> IF c \in joined THEN "closing" ELSE pc[c]]
  BY RunMoves DEF Moves, EndRun, callerVars
<1>2. \A c \in Callers : c \in joined => pc[c] = "joined"
  BY DEF IInv, Running
<1>3. \A c \in Callers : pc'[c] # "start" => pc[c] # "start"
  BY <1>1, <1>2
<1>4. Prompts \subseteq Callers /\ Summaries \subseteq Callers
  BY DEF Callers
<1>5. /\ Ids \subseteq Ids' /\ Ids = 1..Len(messages)
      /\ \A i \in Ids : messages'[i].role = messages[i].role /\ messages'[i].kind = messages[i].kind
  BY DEF Grows
<1>6. \A i \in extras : i \in Ids /\ messages[i].kind = "followup" /\ i > base /\ base # 0
  BY <1>i DEF Targets, Typed, TypeOK
<1>7. \A i \in extras' : messages'[i].kind = "followup" /\ i > base /\ base # 0
  <2>1. CASE extras' = extras
    BY <1>5, <1>6, <2>1
  <2>2. CASE extras' = extras \cup {Len(messages) + 1} /\ base # 0 /\ Appended("followup")
    <3>1. base \in 1..Len(messages) /\ Len(messages) \in Nat
      BY <1>i, <1>5, <2>2 DEF Targets, Typed
    <3>2. Len(messages) + 1 > base
      BY <3>1
    <3> QED BY <1>5, <1>6, <2>2, <3>2 DEF Appended
  <2> QED BY <2>1, <2>2, RunKeeps DEF Keeps
<1>8. base' # 0 => base' \in Ids' /\ messages'[base'].role = "user" /\ messages'[base'].kind = "prompt"
  BY <1>i, <1>1, <1>5 DEF Targets, IsUser
<1>9. /\ \A c \in Callers : pc'[c] # "start" => msgOf'[c] \in Ids' /\ messages'[msgOf'[c]].role = "user"
      /\ \A s \in Summaries : pc'[s] # "start" => messages'[msgOf'[s]].kind = "compaction"
      /\ \A p \in Prompts : pc'[p] # "start" => messages'[msgOf'[p]].kind = "prompt"
  <2>1. \A c \in Callers : pc'[c] # "start" => msgOf[c] \in Ids /\ messages[msgOf[c]].role = "user"
    BY <1>i, <1>3 DEF Targets, IsUser
  <2>2. \A s \in Summaries : pc'[s] # "start" => messages[msgOf[s]].kind = "compaction"
    BY <1>i, <1>3, <1>4 DEF Targets
  <2>3. \A p \in Prompts : pc'[p] # "start" => messages[msgOf[p]].kind = "prompt"
    BY <1>i, <1>3, <1>4 DEF Targets
  <2> QED BY <1>1, <1>4, <1>5, <2>1, <2>2, <2>3
<1> QED BY <1>1, <1>7, <1>8, <1>9 DEF Targets, IsUser

LEMMA RunRunning ==
  ASSUME IInv, Run, NEW E, Grows(E)
  PROVE  Running'
<1>i. Typed /\ Running /\ late \in Nat /\ newer \in BOOLEAN
  BY DEF IInv, Typed, TypeOK
<1>m. Moves /\ Keeps /\ Currents /\ at # "none"
  BY RunMoves, RunKeeps
<1>1. /\ newer' = newer
      /\ \/ pc' = pc /\ joined' = joined /\ at' # "none"
         \/ /\ pc' = [c \in Callers |-> IF c \in joined THEN "closing" ELSE pc[c]]
            /\ joined' = {} /\ at' = "none"
  BY <1>m DEF Moves, EndRun, callerVars
<1>2. (\A c \in Callers : c \in joined' <=> pc'[c] = "joined")
      /\ (\A c \in Callers : pc'[c] = "closing" => at' = "none")
  BY <1>i, <1>m, <1>1 DEF Running
<1>3. (at' # "none" => late' = 0 \/ (late' = 1 /\ newer' /\ at' = "streaming")) /\ late' <= 1
  <2>1. CASE late' = late
    <3>1. at' # "none" /\ at = "streaming" /\ newer => at' = "streaming"
      BY <1>m DEF Run, Look, NoUser, Exit, AskFollowup, Dismissed, Inject, Create, Step, StepEnds,
         StepFails, StepBlocked, StepOverflows, Summarise, SummaryEnds, SummaryFails, GoesOn, Onward, EndRun
    <3> QED BY <1>i, <1>m, <1>1, <2>1, <3>1 DEF Running
  <2>2. CASE late' = (IF newer THEN late + 1 ELSE late) /\ at = "seen" /\ at' = "streaming"
    <3>1. late = 0
      BY <1>i, <2>2 DEF Running
    <3> QED BY <1>i, <1>1, <2>2, <3>1
  <2> QED BY <1>m, <2>1, <2>2 DEF Keeps
<1>4. /\ at' = "streaming" => /\ current' \in Ids' /\ messages'[current'].kind = "step"
                              /\ messages'[current'].finish = "none" /\ ~ messages'[current'].error
      /\ at' = "summarising" => /\ current' \in Ids' /\ messages'[current'].kind = "summary"
                                /\ messages'[current'].finish = "none" /\ LastUser' \in Ids'
  <2>1. Len(messages) \in Nat /\ Ids = 1..Len(messages) /\ Ids' = 1..Len(messages') /\ Ids \subseteq Ids'
        /\ \A i \in Ids' : i \notin Ids => Fits(messages'[i])
    BY DEF Grows
  <2>2. ASSUME NEW k, Appended(k)
        PROVE  Len(messages) + 1 \in Ids' /\ Fits(messages'[Len(messages) + 1])
               /\ messages'[Len(messages) + 1].kind = k
    BY <2>1, <2>2 DEF Appended
  <2>3. LastUser # 0 /\ view' = view => LastUser' \in Ids'
    BY <1>i, <2>1, ViewFacts, SameOwner
  <2> QED BY <1>m, <2>2, <2>3 DEF Currents, Fits
<1> QED BY <1>2, <1>3, <1>4 DEF Running

(* The messages that were answered stay answered, unless a summary is made. *)
LEMMA AnswersStand ==
  ASSUME IInv, NEW E, Grows(E), Touched(E), attempts # MaxAttempts, at # "summarising",
         NEW p \in Prompts, pc[p] # "start", msgOf'[p] = msgOf[p], Answers(p) # {}
  PROVE  Answers(p)' # {}
<1>1. PICK i \in Ids : /\ messages[i].kind = "step" /\ Finished(i) /\ ~ messages[i].error
                       /\ \/ messages[i].parent = msgOf[p]
                          \/ /\ messages[i].parent > msgOf[p]
                             /\ messages[messages[i].parent].kind = "followup"
  BY DEF Answers
<1>2. i \notin E
  BY <1>1 DEF Touched, IInv, Running, Finished
<1>3. messages[i].parent \in Ids
  BY <1>1 DEF Finished, IInv, Shape, IsUser
<1>4. i \in Ids' /\ messages'[i].kind = "step" /\ messages'[i].finish = messages[i].finish
      /\ messages'[i].error = messages[i].error /\ messages'[i].parent = messages[i].parent
      /\ messages'[i].role = messages[i].role
      /\ messages'[messages[i].parent].kind = messages[messages[i].parent].kind
  BY <1>1, <1>2, <1>3 DEF Grows
<1>5. i \in Answers(p)'
  BY <1>1, <1>4 DEF Answers, Finished
<1> QED BY <1>5

(* Without compactions nobody has asked for a summary. *)
LEMMA PlainIsPrompted ==
  ASSUME IInv, NoCompaction
  PROVE  NoSummarize /\ attempts # MaxAttempts /\ at # "summarising"
<1>1. NoSummarize
  <2>1. Summaries \subseteq Callers
    BY DEF Callers
  <2> QED BY <2>1 DEF IInv, Targets, NoCompaction, NoSummarize
<1>2. attempts # MaxAttempts
  BY MaxAttemptsAssumption DEF IInv, Plain
<1>3. at # "summarising"
  BY DEF IInv, Plain, Running
<1> QED BY <1>1, <1>2, <1>3

(* What answered lets the run end is an answer to the prompt of the turn. *)
LEMMA AnsweredIsAnswer ==
  ASSUME IInv, NoCompaction, at = "seen", Answered, NEW p \in Prompts, pc[p] = "joined"
  PROVE  Answers(p) # {}
<1> DEFINE a == LastAssistant
<1>1. /\ a \in Ids /\ ~ IsUser(a) /\ messages[a].finish \in {"stop", "error"}
      /\ messages[a].parent = LastUser
  BY ViewFacts DEF Answered, IInv
<1> HIDE DEF a
<1>2. LastUser \in {base} \cup extras
  BY PlainIsPrompted DEF IInv, Prompted
<1>3. base = msgOf[p]
  BY DEF IInv, Line
<1>4. messages[a].kind = "step"
  <2>1. messages[a] \in Message
    BY <1>1 DEF IInv, Typed, Ids
  <2>2. messages[a].kind \notin UserKinds /\ messages[a].kind # "summary"
    BY <1>1 DEF IInv, Shape, Plain
  <2> QED BY <2>1, <2>2 DEF Message
<1>5. Finished(a)
  <2>1. messages[a] \in Message
    BY <1>1 DEF IInv, Typed, Ids
  <2> QED BY <1>1, <2>1 DEF Finished, IsUser, Message
<1>6. ~ messages[a].error
  BY <1>1 DEF IInv, Plain
<1>7. messages[a].parent = msgOf[p]
      \/ (messages[a].parent > msgOf[p] /\ messages[messages[a].parent].kind = "followup")
  BY <1>1, <1>2, <1>3 DEF IInv, Targets
<1>8. a \in Answers(p)
  BY <1>1, <1>4, <1>5, <1>6, <1>7 DEF Answers
<1> QED BY <1>8

LEMMA RunPlain ==
  ASSUME IInv, Run, NEW E, Grows(E), Touched(E)
  PROVE  Plain'
<1> SUFFICES ASSUME NoCompaction' PROVE
      /\ attempts' = 0
      /\ \A i \in Ids' : messages'[i].kind # "summary"
      /\ \A i \in Ids' : messages'[i].error => messages'[i].finish = "none"
      /\ at' = "asking" => \A p \in Prompts : pc'[p] = "joined" => Answers(p)' # {}
      /\ \A p \in Prompts : ended'[p] = "exit" => Answers(p)' # {}
  BY DEF Plain
<1>g. /\ Ids \subseteq Ids' /\ \A i \in Ids' : i \notin Ids => i = Len(messages) + 1 /\ Fits(messages'[i])
      /\ Ids' = 1..Len(messages') /\ Ids = 1..Len(messages) /\ Len(messages) \in Nat
      /\ \A i \in Ids :
           /\ messages'[i].kind = messages[i].kind
           /\ i \notin E => messages'[i].finish = messages[i].finish /\ messages'[i].error = messages[i].error
  BY DEF Grows
<1>c. NoCompaction
  BY <1>g DEF NoCompaction
<1>p. NoSummarize /\ attempts # MaxAttempts /\ at # "summarising" /\ attempts = 0
  BY <1>c, PlainIsPrompted DEF IInv, Plain
<1>m. Moves /\ Keeps /\ Currents /\ at # "none"
  BY RunMoves, RunKeeps
<1>n. \A k : Appended(k) => Len(messages) + 1 \in Ids' /\ messages'[Len(messages) + 1].kind = k
  BY <1>g DEF Appended
<1>1. attempts' = 0
  BY <1>p, <1>m, <1>n DEF Keeps, NoCompaction
<1>2. Task = 0
  BY <1>c, ViewFacts DEF IInv, NoCompaction
<1>3. \A i \in Ids' : messages'[i].kind # "summary"
  BY <1>c, <1>g, <1>2 DEF IInv, Plain, Fits
<1>4. \A i \in Ids' : messages'[i].error => messages'[i].finish = "none"
  <2>0. SUFFICES ASSUME NEW i \in Ids', messages'[i].error PROVE messages'[i].finish = "none"
    OBVIOUS
  <2>1. CASE i \notin Ids
    BY <2>0, <1>g, <2>1 DEF Fits
  <2>2. CASE i \in Ids /\ i \notin E
    BY <2>0, <1>c, <1>g, <2>2 DEF IInv, Plain
  <2>3. CASE i \in Ids /\ i \in E
    <3>1. i = current /\ at = "streaming"
      BY <1>p, <2>3 DEF Touched
    <3>2. messages \in Seq(Message) /\ current \in 1..Len(messages) /\ messages[current].finish = "none"
          /\ ~ messages[current].error
      BY <1>g, <2>3, <3>1 DEF IInv, Typed, Running
    <3>3. CASE StepFails
      <4>1. [messages EXCEPT ![current].error = TRUE][current].finish = messages[current].finish
        BY <3>2, EditError
      <4> QED BY <3>1, <3>2, <3>3, <4>1 DEF StepFails
    <3>4. ASSUME NEW f \in {"none", "stop", "tools"}, NEW b \in BOOLEAN
          PROVE  Finish(f, b)[current].error = messages[current].error
                 /\ Len(Finish(f, b)) = Len(messages) /\ Finish(f, b) \in Seq(Message)
      <4>1. f \in {"none", "stop", "tools", "error"}
        OBVIOUS
      <4>2. Edit(messages, Finish(f, b), {current})
        BY ZenonT(60), <3>2, <4>1, EditFinish DEF Finish
      <4>3. Finish(f, b)[current].error = messages[current].error
        BY <3>2, <4>1, EditFinish DEF Finish
      <4> QED BY <4>2, <4>3 DEF Edit
    <3>5. CASE StepEnds \/ StepBlocked
      BY <2>0, <3>1, <3>2, <3>4, <3>5 DEF StepEnds, StepBlocked
    <3>6. CASE StepOverflows
      <4>1. PICK f \in {"none", "stop", "tools"} :
              messages' = Append(Finish(f, f # "none"), Compaction(TRUE, f = "none"))
        BY <1>p, <3>6 DEF StepOverflows
      <4>2. (f # "none") \in BOOLEAN
        OBVIOUS
      <4> DEFINE ms == Finish(f, f # "none")
      <4>3. ms[current].error = messages[current].error /\ Len(ms) = Len(messages) /\ ms \in Seq(Message)
        BY <3>4, <4>2
      <4> HIDE DEF ms
      <4>4. PICK x : messages' = Append(ms, x)
        BY <4>1 DEF ms
      <4>5. messages'[current] = ms[current]
        BY <3>2, <4>3, <4>4
      <4> QED BY <2>0, <3>1, <3>2, <4>3, <4>5
    <3>7. StepFails \/ StepEnds \/ StepBlocked \/ StepOverflows
      BY <3>1 DEF Run, Look, NoUser, Exit, AskFollowup, Dismissed, Inject, Create, Step, GoesOn,
         Summarise, SummaryEnds, SummaryFails
    <3> QED BY <3>3, <3>5, <3>6, <3>7
  <2> QED BY <2>1, <2>2, <2>3
<1>5. /\ msgOf' = msgOf
      /\ \/ pc' = pc /\ ended' = ended /\ at' # "none"
         \/ \E how \in Outcomes :
              /\ how = "exit" => Exit \/ Dismissed
              /\ pc' = [c \in Callers |-> IF c \in joined THEN "closing" ELSE pc[c]]
              /\ ended' = [c \in Callers |-> IF c \in joined THEN how ELSE ended[c]]
  BY <1>m DEF Moves, EndRun, callerVars
<1>6. \A p \in Prompts : p \in Callers /\ (p \in joined <=> pc[p] = "joined")
  BY DEF IInv, Running, Callers
<1>7. at' = "asking" => \A p \in Prompts : pc'[p] = "joined" => Answers(p)' # {}
  <2> SUFFICES ASSUME at' = "asking", NEW p \in Prompts, pc'[p] = "joined" PROVE Answers(p)' # {}
    OBVIOUS
  <2>1. AskFollowup
    BY DEF Run, Look, NoUser, Exit, AskFollowup, Dismissed, Inject, Create, Step, StepEnds,
       StepFails, StepBlocked, StepOverflows, Summarise, SummaryEnds, SummaryFails, Onward, EndRun, Proceed
  <2>2. pc[p] = "joined" /\ at = "seen" /\ Answered
    BY <2>1 DEF AskFollowup, Proceed, callerVars
  <2>3. Answers(p) # {}
    BY <1>c, <2>2, AnsweredIsAnswer
  <2> QED BY <1>5, <1>p, <2>2, <2>3, AnswersStand
<1>8. \A p \in Prompts : ended'[p] = "exit" => Answers(p)' # {}
  <2> SUFFICES ASSUME NEW p \in Prompts, ended'[p] = "exit" PROVE Answers(p)' # {}
    OBVIOUS
  <2>1. CASE ended'[p] = ended[p]
    <3>1. pc[p] # "start" /\ Answers(p) # {}
      BY <1>c, <1>6, <2>1 DEF IInv, Plain, Closes
    <3> QED BY <1>5, <1>p, <3>1, AnswersStand
  <2>2. CASE ended'[p] # ended[p]
    <3>1. p \in joined /\ (Exit \/ Dismissed)
      BY <1>5, <1>6, <2>2
    <3>2. pc[p] = "joined"
      BY <1>6, <3>1
    <3>4. Answers(p) # {}
      BY <1>c, <3>1, <3>2, AnsweredIsAnswer DEF Exit, Dismissed, IInv, Plain
    <3> QED BY <1>5, <1>p, <3>2, <3>4, AnswersStand
  <2> QED BY <2>1, <2>2
<1> QED BY <1>1, <1>3, <1>4, <1>7, <1>8


(* In a turn of its own the run sees the prompt of the turn. *)
LEMMA RunPrompted ==
  ASSUME IInv, Run, NEW E, Grows(E), Typed'
  PROVE  Prompted'
<1> SUFFICES ASSUME NoSummarize' PROVE
      /\ \A i \in Ids' : messages'[i].kind = "summary" =>
           messages'[messages'[i].parent].kind # "compaction"
      /\ at' \in {"seen", "asking", "streaming", "summarising"} =>
           LastUser' \in {base'} \cup extras' /\ LastUser' # 0
      /\ \A c \in Callers : ended'[c] # "nouser"
  BY DEF Prompted
<1>m. Moves /\ Keeps /\ at # "none"
  BY RunMoves, RunKeeps
<1>1. /\ msgOf' = msgOf /\ base' = base
      /\ \/ pc' = pc /\ ended' = ended /\ at' # "none"
         \/ \E how \in Outcomes :
              /\ at' = "none"
              /\ how = "nouser" => at = "seen" /\ LastUser = 0
              /\ pc' = [c \in Callers |-> IF c \in joined THEN "closing" ELSE pc[c]]
              /\ ended' = [c \in Callers |-> IF c \in joined THEN how ELSE ended[c]]
  BY <1>m DEF Moves, EndRun, callerVars
<1>2. NoSummarize
  BY <1>1 DEF NoSummarize, Callers
<1>i. /\ Typed /\ Shape /\ Targets
      /\ \A i \in Ids : messages[i].kind = "summary" => messages[messages[i].parent].kind # "compaction"
      /\ at \in {"seen", "asking", "streaming", "summarising"} =>
           LastUser \in {base} \cup extras /\ LastUser # 0
      /\ \A c \in Callers : ended[c] # "nouser"
  BY <1>2 DEF IInv, Prompted
<1>g. /\ Ids \subseteq Ids' /\ \A i \in Ids' : i \notin Ids => Fits(messages'[i])
      /\ \A i \in Ids : messages'[i].kind = messages[i].kind /\ messages'[i].parent = messages[i].parent
                        /\ messages'[i].role = messages[i].role
  BY DEF Grows
<1>3. ASSUME NEW i \in Ids', messages'[i].kind = "summary"
      PROVE  messages'[messages'[i].parent].kind # "compaction"
  <2>1. CASE i \in Ids
    <3>1. messages[i].kind = "summary" /\ ~ IsUser(i)
      BY <1>g, <1>i, <1>3, <2>1 DEF Shape, UserKinds
    <3>2. messages[i].parent \in Ids
      BY <1>i, <2>1, <3>1 DEF Shape
    <3> QED BY <1>g, <1>i, <2>1, <3>1, <3>2
  <2>2. CASE i \notin Ids
    <3>1. at = "seen" /\ messages'[i].parent = LastUser
      BY <1>g, <1>3, <2>2 DEF Fits
    <3>2. LastUser \in {base} \cup extras /\ LastUser # 0 /\ LastUser \in Ids
      BY <1>i, <3>1, ViewFacts
    <3>3. messages[LastUser].kind \in {"prompt", "followup"}
      BY <1>i, <3>2 DEF Targets
    <3> QED BY <1>g, <3>1, <3>2, <3>3
  <2> QED BY <2>1, <2>2
<1>4. ASSUME at' \in {"seen", "asking", "streaming", "summarising"}
      PROVE  LastUser' \in {base'} \cup extras' /\ LastUser' # 0
  <2>1. CASE view' = view /\ at # "top"
    <3>1. at \in {"seen", "asking", "streaming", "summarising"}
      BY <1>i, <1>m, <2>1 DEF Typed, TypeOK
    <3>2. extras \subseteq extras'
      BY <1>m DEF Keeps
    <3> QED BY <1>1, <1>i, <2>1, <3>1, <3>2, SameOwner
  <2>2. CASE at = "top"
    <3>1. Look
      BY <2>2 DEF Run, NoUser, Exit, AskFollowup, Dismissed, Inject, Create, Step, GoesOn, StepEnds,
         StepFails, StepBlocked, StepOverflows, Summarise, SummaryEnds, SummaryFails
    <3>2. view' = Shown /\ messages' = messages /\ extras' = extras
      BY <3>1 DEF Look
    <3>3. PICK p \in Prompts : pc[p] = "joined"
      <4>1. PICK c \in Callers : c \in joined
        BY <1>i, <2>2 DEF Typed, TypeOK
      <4>2. pc[c] = "joined"
        BY <4>1 DEF IInv, Running
      <4> QED BY <1>2, <4>2 DEF Callers, NoSummarize
    <3>4. base # 0
      <4>1. base = msgOf[p] /\ p \in Callers
        BY <3>3 DEF IInv, Line, Callers
      <4>2. base \in Ids
        BY <1>i, <3>3, <4>1 DEF Targets
      <4> QED BY <1>i, <4>2 DEF Typed, Ids
    <3>5. LastOwner(messages, Shown) \in {base} \cup extras /\ LastOwner(messages, Shown) # 0
      BY <1>i, <3>4, ShownUser
    <3>6. LastUser' = LastOwner(messages', view')
      BY LastUserNext DEF Typed
    <3> QED BY <1>1, <3>2, <3>5, <3>6
  <2> QED BY <1>4, <1>m, <2>1, <2>2 DEF Keeps
<1>5. \A c \in Callers : ended'[c] # "nouser"
  BY <1>1, <1>i
<1> QED BY <1>3, <1>4, <1>5

LEMMA RunCloses ==
  ASSUME IInv, Run
  PROVE  Closes'
<1>m. Moves /\ at # "none"
  BY RunMoves
<1>i. /\ \A c \in Callers : (c \in joined <=> pc[c] = "joined") /\ pc[c] # "closing"
      /\ \A c \in Callers : pc[c] # "done" => closed[c] = ""
      /\ \A c \in Callers : ended[c] # "" => pc[c] \in {"closing", "done"}
      /\ NoSummarize => reason = ""
      /\ CloseTellsWhy
  BY <1>m DEF IInv, Running, Closes
<1>1. /\ closed' = closed
      /\ \/ pc' = pc /\ ended' = ended /\ reason' = reason
         \/ \E how \in Outcomes :
              /\ at' = "none"
              /\ pc' = [c \in Callers |-> IF c \in joined THEN "closing" ELSE pc[c]]
              /\ ended' = [c \in Callers |-> IF c \in joined THEN how ELSE ended[c]]
              /\ reason' = IF how \in {"error", "exhausted"} THEN "error"
                           ELSE IF how = "interrupted" THEN "interrupted" ELSE reason
  BY <1>m DEF Moves, EndRun, callerVars
<1>2. NoSummarize' => NoSummarize
  BY <1>1 DEF NoSummarize, Callers
<1>3. \A c \in Callers : pc'[c] # "done" => closed'[c] = ""
  BY <1>i, <1>1
<1>4. \A c \in Callers : pc'[c] = "closing" => ended'[c] # ""
  BY <1>i, <1>1 DEF Outcomes
<1>5. \A c \in Callers : ended'[c] # "" => pc'[c] \in {"closing", "done"}
  BY <1>i, <1>1
<1>6. NoSummarize' =>
      /\ at' # "none" => reason' = ""
      /\ \A c \in Callers : pc'[c] = "closing" =>
           reason' = IF ended'[c] \in {"error", "exhausted"} THEN "error"
                     ELSE IF ended'[c] = "interrupted" THEN "interrupted" ELSE ""
  <2>1. CASE pc' = pc /\ ended' = ended /\ reason' = reason
    BY <1>i, <1>2, <2>1
  <2>2. CASE ~ (pc' = pc /\ ended' = ended /\ reason' = reason)
    BY <1>i, <1>1, <1>2, <2>2
  <2> QED BY <2>1, <2>2
<1>7. \A c \in Callers : closed'[c] # "" => closed'[c] = closed[c] /\ ended'[c] = ended[c]
  BY <1>i, <1>1
<1>8. CloseTellsWhy'
  BY <1>i, <1>1, <1>2, <1>7 DEF CloseTellsWhy
<1> QED BY <1>3, <1>4, <1>5, <1>6, <1>8 DEF Closes

----------------------------------------------------------------------------
(* The callers keep the invariant *)

Calls ==
  \/ \E p \in Prompts : Store(p) \/ Enqueue(p) \/ StartTurn(p)
  \/ \E s \in Summaries : CreateSummary(s) \/ LoopDirect(s)
  \/ \E c \in Callers : Return(c)

(* Callers only add messages of users, or a compaction that was asked for.  *)
LEMMA CallsGrow ==
  ASSUME Typed, Calls
  PROVE  Grows({}) /\ \A i \in Ids' : i \notin Ids => messages'[i].kind \in {"prompt", "compaction"}
<1>t. messages \in Seq(Message)
  BY DEF Typed
<1>1. CASE messages' = messages
  <2>1. Evolves({})
    BY <1>t, <1>1, EditNone DEF Evolves
  <2> QED BY <1>1, <2>1, EvolvesGrows DEF Ids
<1>2. ASSUME NEW m, Fits(m), m.kind \in {"prompt", "compaction"}, Append1(m)
      PROVE  Grows({}) /\ \A i \in Ids' : i \notin Ids => messages'[i].kind \in {"prompt", "compaction"}
  <2>1. Evolves({})
    BY <1>2, AppendEvolves DEF Fits
  <2>2. Grows({})
    BY <2>1, EvolvesGrows
  <2>3. m \in Message /\ messages' = Append(messages, m)
    BY <1>2 DEF Fits, Append1
  <2>4. messages'[Len(messages) + 1] = m
    BY <1>t, <2>3
  <2>5. \A i \in Ids' : i \notin Ids => i = Len(messages) + 1
    BY <2>2 DEF Grows
  <2> QED BY <1>2, <2>2, <2>4, <2>5
<1>3. ASSUME NEW p \in Prompts, Store(p)
      PROVE  Grows({}) /\ \A i \in Ids' : i \notin Ids => messages'[i].kind \in {"prompt", "compaction"}
  BY <1>2, <1>3, UserFits DEF Store, UserKinds
<1>4. ASSUME NEW s \in Summaries, CreateSummary(s)
      PROVE  Grows({}) /\ \A i \in Ids' : i \notin Ids => messages'[i].kind \in {"prompt", "compaction"}
  BY <1>2, <1>4, CompactionFits DEF CreateSummary
<1> QED BY <1>1, <1>3, <1>4 DEF Calls, Enqueue, StartTurn, LoopDirect, Return

(* They leave the run alone, or begin one. *)
LEMMA CallsKeep ==
  ASSUME Typed, Calls
  PROVE  /\ view' = view /\ current' = current /\ ended' = ended
         /\ at' = at \/ (at = "none" /\ at' = "top")
         /\ attempts' = attempts \/ attempts' = 0
         /\ \A c \in Callers : pc'[c] = "start" => pc[c] = "start"
         /\ \A c \in Callers : pc[c] # "start" => msgOf'[c] = msgOf[c]
<1>t. /\ DOMAIN pc = Callers /\ DOMAIN msgOf = Callers /\ Prompts \subseteq Callers /\ Summaries \subseteq Callers
  BY DEF Typed, TypeOK, Callers
<1> QED BY <1>t DEF Calls, Store, Enqueue, StartTurn, CreateSummary, LoopDirect, Return, Close, Join, runVars

(* A run that no summarizing caller has part in is that of one prompt. *)
LEMMA OneTurn ==
  ASSUME IInv, NoSummarize, at # "none"
  PROVE  \E p \in Prompts : pc[p] = "joined" /\ Head(queue) = p /\ base = msgOf[p]
<1>1. PICK c \in Callers : c \in joined
  BY DEF IInv, Typed, TypeOK
<1>2. pc[c] = "joined"
  BY <1>1 DEF IInv, Running
<1>3. c \in Prompts
  BY <1>2 DEF Callers, NoSummarize
<1> QED BY <1>2, <1>3 DEF IInv, Line

LEMMA CallsPlain ==
  ASSUME IInv, Calls
  PROVE  Plain'
<1>g. Grows({}) /\ \A i \in Ids' : i \notin Ids => messages'[i].kind \in {"prompt", "compaction"}
  BY CallsGrow DEF IInv
<1>k. /\ view' = view /\ current' = current /\ ended' = ended
      /\ at' = at \/ (at = "none" /\ at' = "top")
      /\ attempts' = attempts \/ attempts' = 0
      /\ \A c \in Callers : pc'[c] = "start" => pc[c] = "start"
      /\ \A c \in Callers : pc[c] # "start" => msgOf'[c] = msgOf[c]
  BY CallsKeep DEF IInv
<1> SUFFICES ASSUME NoCompaction' PROVE
      /\ attempts' = 0
      /\ \A i \in Ids' : messages'[i].kind # "summary"
      /\ \A i \in Ids' : messages'[i].error => messages'[i].finish = "none"
      /\ at' = "asking" => \A p \in Prompts : pc'[p] = "joined" => Answers(p)' # {}
      /\ \A p \in Prompts : ended'[p] = "exit" => Answers(p)' # {}
  BY DEF Plain
<1>1. /\ Ids \subseteq Ids' /\ \A i \in Ids' : i \notin Ids => Fits(messages'[i])
      /\ \A i \in Ids : /\ messages'[i].kind = messages[i].kind
                        /\ messages'[i].finish = messages[i].finish /\ messages'[i].error = messages[i].error
  BY <1>g DEF Grows
<1>2. NoCompaction
  BY <1>1 DEF NoCompaction
<1>3. NoSummarize /\ attempts # MaxAttempts /\ at # "summarising"
  BY <1>2, PlainIsPrompted
<1>4. /\ attempts = 0
      /\ \A i \in Ids : messages[i].kind # "summary" /\ (messages[i].error => messages[i].finish = "none")
      /\ at = "asking" => \A p \in Prompts : pc[p] = "joined" => Answers(p) # {}
      /\ \A p \in Prompts : ended[p] = "exit" => Answers(p) # {}
  BY <1>2 DEF IInv, Plain
<1>5. \A i \in Ids' : messages'[i].kind # "summary"
  BY <1>1, <1>4, <1>g
<1>6. \A i \in Ids' : messages'[i].error => messages'[i].finish = "none"
  BY <1>1, <1>4 DEF Fits
<1>7. ASSUME NEW p \in Prompts, pc[p] # "start", Answers(p) # {}
      PROVE  Answers(p)' # {}
  <2>1. msgOf'[p] = msgOf[p]
    BY <1>7, <1>k DEF Callers
  <2> QED BY <1>g, <1>3, <1>7, <2>1, AnswersStand DEF Touched
<1>8. ASSUME at' = "asking", NEW p \in Prompts, pc'[p] = "joined"
      PROVE  Answers(p)' # {}
  <2>1. at = "asking"
    BY <1>8, <1>k
  <2>2. PICK q \in Prompts : pc[q] = "joined" /\ Head(queue) = q
    BY <1>3, <2>1, OneTurn
  <2>3. pc[p] = "joined"
    <3>1. DOMAIN pc = Callers /\ p \in Callers
      BY DEF IInv, Typed, TypeOK, Callers
    <3> QED BY <1>3, <1>8, <2>2, <3>1
      DEF Calls, Store, Enqueue, StartTurn, CreateSummary, LoopDirect, Return, Close, Join, NoSummarize
  <2> QED BY <1>4, <1>7, <2>1, <2>3
<1>9. ASSUME NEW p \in Prompts, ended'[p] = "exit"
      PROVE  Answers(p)' # {}
  <2>1. pc[p] # "start"
    BY <1>9, <1>k DEF IInv, Closes, Callers
  <2> QED BY <1>4, <1>7, <1>9, <1>k, <2>1
<1> QED BY <1>4, <1>5, <1>6, <1>8, <1>9, <1>k

LEMMA CallsPrompted ==
  ASSUME IInv, Calls
  PROVE  Prompted'
<1>g. Grows({}) /\ \A i \in Ids' : i \notin Ids => messages'[i].kind \in {"prompt", "compaction"}
  BY CallsGrow DEF IInv
<1>k. /\ view' = view /\ current' = current /\ ended' = ended
      /\ at' = at \/ (at = "none" /\ at' = "top")
      /\ \A c \in Callers : pc'[c] = "start" => pc[c] = "start"
  BY CallsKeep DEF IInv
<1> SUFFICES ASSUME NoSummarize' PROVE
      /\ \A i \in Ids' : messages'[i].kind = "summary" =>
           messages'[messages'[i].parent].kind # "compaction"
      /\ at' \in {"seen", "asking", "streaming", "summarising"} =>
           LastUser' \in {base'} \cup extras' /\ LastUser' # 0
      /\ \A c \in Callers : ended'[c] # "nouser"
  BY DEF Prompted
<1>2. NoSummarize
  BY <1>k DEF NoSummarize, Callers
<1>i. /\ Typed /\ Shape
      /\ \A i \in Ids : messages[i].kind = "summary" => messages[messages[i].parent].kind # "compaction"
      /\ at \in {"seen", "asking", "streaming", "summarising"} =>
           LastUser \in {base} \cup extras /\ LastUser # 0
      /\ \A c \in Callers : ended[c] # "nouser"
  BY <1>2 DEF IInv, Prompted
<1>3. ASSUME NEW i \in Ids', messages'[i].kind = "summary"
      PROVE  messages'[messages'[i].parent].kind # "compaction"
  <2>1. /\ i \in Ids /\ messages[i].kind = "summary"
        /\ \A j \in Ids : messages'[j].kind = messages[j].kind /\ messages'[j].parent = messages[j].parent
    BY <1>g, <1>3 DEF Grows
  <2>2. messages[i].parent \in Ids
    BY <1>i, <2>1 DEF Shape, UserKinds
  <2> QED BY <1>i, <2>1, <2>2
<1>4. ASSUME at' \in {"seen", "asking", "streaming", "summarising"}
      PROVE  LastUser' \in {base'} \cup extras' /\ LastUser' # 0
  <2>1. at \in {"seen", "asking", "streaming", "summarising"}
    BY <1>4, <1>k
  <2>2. PICK q \in Prompts : pc[q] = "joined" /\ Head(queue) = q
    BY <1>2, <2>1, OneTurn
  <2>3. \A c \in Callers : pc[c] # "closing"
    BY <2>1 DEF IInv, Running
  <2>4. base' = base /\ extras' = extras
    BY <1>2, <2>2, <2>3
    DEF Calls, Store, Enqueue, StartTurn, CreateSummary, LoopDirect, Return, Close, NoSummarize
  <2>5. LastUser' = LastUser
    BY <1>g, <1>i, <1>k, SameOwner
  <2> QED BY <1>i, <2>1, <2>4, <2>5
<1>5. \A c \in Callers : ended'[c] # "nouser"
  BY <1>i, <1>k
<1> QED BY <1>3, <1>4, <1>5

LEMMA QueueAppend ==
  ASSUME NEW q \in Seq(Prompts), NEW p \in Prompts, p \notin ToSet(q),
         \A j, k \in DOMAIN q : q[j] = q[k] => j = k
  PROVE  LET r == Append(q, p) IN
         /\ r \in Seq(Prompts) /\ ToSet(r) = ToSet(q) \cup {p}
         /\ \A j, k \in DOMAIN r : r[j] = r[k] => j = k
         /\ \A x \in ToSet(q) : Head(r) = Head(q)
<1> DEFINE r == Append(q, p)
<1>1. /\ DOMAIN q = 1..Len(q) /\ Len(q) \in Nat
      /\ DOMAIN r = 1..(Len(q) + 1)
      /\ \A i \in 1..Len(q) : r[i] = q[i]
      /\ r[Len(q) + 1] = p /\ r \in Seq(Prompts)
  OBVIOUS
<1>2. \A i \in 1..Len(q) : q[i] # p
  BY InToSet
<1>3. \A k \in 1..(Len(q) + 1) : k \in 1..Len(q) \/ k = Len(q) + 1
  BY <1>1
<1>4. \A j, k \in DOMAIN r : r[j] = r[k] => j = k
  BY <1>1, <1>2, <1>3
<1>5. \A x \in ToSet(q) : Head(r) = Head(q)
  <2> SUFFICES ASSUME NEW x \in ToSet(q) PROVE Head(r) = Head(q)
    OBVIOUS
  <2>1. Len(q) # 0
    BY InToSet
  <2>2. 1 \in 1..Len(q) /\ Head(r) = r[1] /\ Head(q) = q[1]
    BY <1>1, <2>1
  <2> QED BY <1>1, <2>2
<1> QED BY <1>1, <1>4, <1>5, ToSetAppend

LEMMA QueueTail ==
  ASSUME NEW q \in Seq(Prompts), NEW p \in ToSet(q), Head(q) = p,
         \A j, k \in DOMAIN q : q[j] = q[k] => j = k
  PROVE  /\ Tail(q) \in Seq(Prompts) /\ ToSet(Tail(q)) = ToSet(q) \ {p}
         /\ \A j, k \in DOMAIN Tail(q) : Tail(q)[j] = Tail(q)[k] => j = k
<1>0. Len(q) # 0
  BY InToSet
<1>1. /\ DOMAIN q = 1..Len(q) /\ Len(q) \in Nat \ {0} /\ q[1] = p
      /\ DOMAIN Tail(q) = 1..(Len(q) - 1) /\ Tail(q) \in Seq(Prompts) /\ Len(Tail(q)) = Len(q) - 1
      /\ \A i \in 1..(Len(q) - 1) : Tail(q)[i] = q[i + 1]
  BY <1>0
<1>2. \A i \in 1..(Len(q) - 1) : i + 1 \in 1..Len(q) /\ i + 1 # 1
  BY <1>1
<1>3. \A k \in 1..Len(q) : k = 1 \/ (k - 1 \in 1..(Len(q) - 1) /\ (k - 1) + 1 = k)
  BY <1>1
<1>4. \A j, k \in DOMAIN Tail(q) : Tail(q)[j] = Tail(q)[k] => j = k
  <2> SUFFICES ASSUME NEW j \in 1..(Len(q) - 1), NEW k \in 1..(Len(q) - 1), Tail(q)[j] = Tail(q)[k]
               PROVE  j = k
    BY <1>1
  <2>1. j + 1 = k + 1
    BY <1>1, <1>2
  <2> QED BY <2>1
<1>5. \A x : x \in ToSet(Tail(q)) => x \in ToSet(q) \ {p}
  BY <1>1, <1>2 DEF ToSet
<1>6. \A x : x \in ToSet(q) \ {p} => x \in ToSet(Tail(q))
  <2> SUFFICES ASSUME NEW x \in ToSet(q), x # p PROVE x \in ToSet(Tail(q))
    OBVIOUS
  <2>1. PICK k \in 1..Len(q) : q[k] = x
    BY <1>1 DEF ToSet
  <2>2. k - 1 \in 1..(Len(q) - 1) /\ Tail(q)[k - 1] = x
    BY <1>1, <1>3, <2>1
  <2> QED BY <1>1, <2>2 DEF ToSet
<1> QED BY <1>1, <1>4, <1>5, <1>6

LEMMA CallsLine ==
  ASSUME IInv, Calls
  PROVE  Line' /\ queue' \in Seq(Prompts)
<1>i. /\ queue \in Seq(Prompts) /\ DOMAIN pc = Callers /\ DOMAIN msgOf = Callers
      /\ Prompts \subseteq Callers /\ Summaries \subseteq Callers /\ Prompts \cap Summaries = {}
      /\ \A p \in Prompts : p \in ToSet(queue) <=> pc[p] \in {"waiting", "joined", "closing"}
      /\ \A j, k \in DOMAIN queue : queue[j] = queue[k] => j = k
      /\ \A p \in Prompts : pc[p] \in {"joined", "closing"} => Head(queue) = p /\ base = msgOf[p]
      /\ \A s \in Summaries : pc[s] # "waiting"
  BY CallersAssumption DEF IInv, Typed, TypeOK, Line, Callers
<1>1. ASSUME NEW p \in Prompts, Store(p)
      PROVE  Line' /\ queue' \in Seq(Prompts)
  BY <1>i, <1>1 DEF Store, Line
<1>2. ASSUME NEW p \in Prompts, Enqueue(p)
      PROVE  Line' /\ queue' \in Seq(Prompts)
  <2>1. pc[p] = "stored" /\ queue' = Append(queue, p) /\ pc' = [pc EXCEPT ![p] = "waiting"]
        /\ msgOf' = msgOf /\ base' = base
    BY <1>2 DEF Enqueue
  <2>2. /\ queue' \in Seq(Prompts) /\ ToSet(queue') = ToSet(queue) \cup {p}
        /\ \A j, k \in DOMAIN queue' : queue'[j] = queue'[k] => j = k
        /\ \A x \in ToSet(queue) : Head(queue') = Head(queue)
    <3>1. p \notin ToSet(queue)
      BY <1>i, <2>1
    <3> QED BY <1>i, <2>1, <3>1, QueueAppend
  <2>3. \A x \in Prompts : x # p => pc'[x] = pc[x]
    BY <1>i, <2>1
  <2>4. pc'[p] = "waiting" /\ \A s \in Summaries : pc'[s] = pc[s]
    BY <1>i, <2>1
  <2> QED BY <1>i, <2>1, <2>2, <2>3, <2>4 DEF Line
<1>3. ASSUME NEW p \in Prompts, StartTurn(p)
      PROVE  Line' /\ queue' \in Seq(Prompts)
  <2>1. pc[p] = "waiting" /\ Head(queue) = p /\ queue' = queue /\ pc' = [pc EXCEPT ![p] = "joined"]
        /\ msgOf' = msgOf /\ base' = msgOf[p]
    BY <1>3 DEF StartTurn, Target, Join
  <2> QED BY <1>i, <2>1 DEF Line
<1>4. ASSUME NEW s \in Summaries, CreateSummary(s)
      PROVE  Line' /\ queue' \in Seq(Prompts)
  BY <1>i, <1>4 DEF CreateSummary, Line
<1>5. ASSUME NEW s \in Summaries, LoopDirect(s)
      PROVE  Line' /\ queue' \in Seq(Prompts)
  BY <1>i, <1>5 DEF LoopDirect, Join, Line
<1>6. ASSUME NEW c \in Callers, Return(c)
      PROVE  Line' /\ queue' \in Seq(Prompts)
  <2>1. pc[c] = "closing" /\ pc' = [pc EXCEPT ![c] = "done"] /\ msgOf' = msgOf
    BY <1>6 DEF Return, Close
  <2>2. CASE c \in Prompts
    <3>1. queue' = Tail(queue) /\ Head(queue) = c /\ c \in ToSet(queue)
      BY <1>i, <1>6, <2>1, <2>2 DEF Return
    <3>2. /\ queue' \in Seq(Prompts) /\ ToSet(queue') = ToSet(queue) \ {c}
          /\ \A j, k \in DOMAIN queue' : queue'[j] = queue'[k] => j = k
      BY <1>i, <3>1, QueueTail
    <3>3. \A x \in Prompts : x # c => pc'[x] = pc[x] /\ pc[x] \notin {"joined", "closing"}
      BY <1>i, <2>1, <3>1
    <3>4. pc'[c] = "done" /\ \A s \in Summaries : pc'[s] = pc[s]
      BY <1>i, <2>1, <2>2
    <3> QED BY <1>i, <2>2, <3>2, <3>3, <3>4 DEF Line
  <2>3. CASE c \notin Prompts
    BY <1>i, <1>6, <2>1, <2>3 DEF Return, Line
  <2> QED BY <2>2, <2>3
<1> QED BY <1>1, <1>2, <1>3, <1>4, <1>5, <1>6 DEF Calls

LEMMA CallsTargets ==
  ASSUME IInv, Calls
  PROVE  Targets'
<1>i. /\ DOMAIN pc = Callers /\ DOMAIN msgOf = Callers /\ messages \in Seq(Message)
      /\ Prompts \subseteq Callers /\ Summaries \subseteq Callers /\ Prompts \cap Summaries = {}
      /\ \A c \in Callers : pc[c] # "start" => msgOf[c] \in Ids /\ messages[msgOf[c]].role = "user"
      /\ \A s \in Summaries : pc[s] # "start" => messages[msgOf[s]].kind = "compaction"
      /\ \A p \in Prompts : pc[p] # "start" => messages[msgOf[p]].kind = "prompt"
      /\ base # 0 => base \in Ids /\ messages[base].role = "user" /\ messages[base].kind = "prompt"
      /\ \A i \in extras : i \in Ids /\ messages[i].kind = "followup" /\ i > base /\ base # 0
  BY CallersAssumption DEF IInv, Typed, TypeOK, Targets, Callers, IsUser
<1>g. /\ Ids \subseteq Ids' /\ Ids' = 1..Len(messages') /\ Len(messages') \in Nat
      /\ \A i \in Ids : messages'[i].role = messages[i].role /\ messages'[i].kind = messages[i].kind
  BY CallsGrow DEF IInv, Grows
<1>1. ASSUME NEW c \in Callers, pc[c] = "start", pc' = [pc EXCEPT ![c] = "stored"],
             msgOf' = [msgOf EXCEPT ![c] = Next1], base' = base, extras' = extras,
             NEW m \in Message, messages' = Append(messages, m), m.role = "user",
             c \in Prompts => m.kind = "prompt", c \in Summaries => m.kind = "compaction"
      PROVE  Targets'
  <2>1. Next1 \in Ids' /\ messages'[Next1] = m
    BY <1>i, <1>g, <1>1 DEF Next1
  <2>2. \A d \in Callers : d # c => pc'[d] = pc[d] /\ msgOf'[d] = msgOf[d]
    BY <1>i, <1>1
  <2>3. /\ msgOf'[c] = Next1 /\ messages'[Next1].role = "user"
        /\ c \in Prompts => messages'[Next1].kind = "prompt"
        /\ c \in Summaries => messages'[Next1].kind = "compaction"
    BY <1>i, <1>1, <2>1
  <2>a. ASSUME NEW d \in Callers, pc'[d] # "start"
        PROVE  /\ msgOf'[d] \in Ids' /\ messages'[msgOf'[d]].role = "user"
               /\ d \in Prompts => messages'[msgOf'[d]].kind = "prompt"
               /\ d \in Summaries => messages'[msgOf'[d]].kind = "compaction"
    <3>1. CASE d = c
      BY <2>1, <2>3, <3>1
    <3>2. CASE d # c
      <4>1. /\ msgOf[d] \in Ids /\ messages[msgOf[d]].role = "user" /\ msgOf'[d] = msgOf[d]
            /\ d \in Prompts => messages[msgOf[d]].kind = "prompt"
            /\ d \in Summaries => messages[msgOf[d]].kind = "compaction"
        BY <1>i, <2>2, <2>a, <3>2
      <4> QED BY <1>g, <4>1
    <3> QED BY <3>1, <3>2
  <2>4. \A d \in Callers : pc'[d] # "start" => msgOf'[d] \in Ids' /\ messages'[msgOf'[d]].role = "user"
    BY <2>a
  <2>5. \A s \in Summaries : pc'[s] # "start" => messages'[msgOf'[s]].kind = "compaction"
    BY <1>i, <2>a
  <2>6. \A p \in Prompts : pc'[p] # "start" => messages'[msgOf'[p]].kind = "prompt"
    BY <1>i, <2>a
  <2>7. base' # 0 => base' \in Ids' /\ messages'[base'].role = "user" /\ messages'[base'].kind = "prompt"
    BY <1>i, <1>g, <1>1
  <2>8. \A i \in extras' : messages'[i].kind = "followup" /\ i > base' /\ base' # 0
    BY <1>i, <1>g, <1>1
  <2> QED BY <2>4, <2>5, <2>6, <2>7, <2>8 DEF Targets, IsUser
<1>2. ASSUME msgOf' = msgOf, \A c \in Callers : pc'[c] # "start" => pc[c] # "start",
             base' # 0 => base' \in Ids /\ messages[base'].role = "user" /\ messages[base'].kind = "prompt",
             extras' = {} \/ (extras' = extras /\ base' = base)
      PROVE  Targets'
  <2>1. \A c \in Callers : pc'[c] # "start" => msgOf[c] \in Ids /\ messages[msgOf[c]].role = "user"
    BY <1>i, <1>2
  <2>2. \A s \in Summaries : pc'[s] # "start" => msgOf[s] \in Ids /\ messages[msgOf[s]].kind = "compaction"
    BY <1>i, <1>2
  <2>3. \A p \in Prompts : pc'[p] # "start" => msgOf[p] \in Ids /\ messages[msgOf[p]].kind = "prompt"
    BY <1>i, <1>2
  <2>4. \A d \in Callers : pc'[d] # "start" => msgOf'[d] \in Ids' /\ messages'[msgOf'[d]].role = "user"
    BY <1>g, <1>2, <2>1
  <2>5. \A s \in Summaries : pc'[s] # "start" => messages'[msgOf'[s]].kind = "compaction"
    BY <1>g, <1>2, <2>2
  <2>6. \A p \in Prompts : pc'[p] # "start" => messages'[msgOf'[p]].kind = "prompt"
    BY <1>g, <1>2, <2>3
  <2>7. base' # 0 => base' \in Ids' /\ messages'[base'].role = "user" /\ messages'[base'].kind = "prompt"
    BY <1>g, <1>2
  <2>8. \A i \in extras' : messages'[i].kind = "followup" /\ i > base' /\ base' # 0
    BY <1>i, <1>g, <1>2
  <2> QED BY <2>4, <2>5, <2>6, <2>7, <2>8 DEF Targets, IsUser
<1>3. ASSUME NEW p \in Prompts, Store(p)
      PROVE  Targets'
  <2>1. PICK m : m = User("prompt")
    OBVIOUS
  <2>2. m \in Message /\ m.role = "user" /\ m.kind = "prompt"
    BY <2>1, UserFits DEF Fits, UserKinds
  <2> QED BY <1>i, <1>1, <1>3, <2>1, <2>2 DEF Store, Append1
<1>4. ASSUME NEW s \in Summaries, CreateSummary(s)
      PROVE  Targets'
  <2>1. PICK auto \in BOOLEAN : messages' = Append(messages, Compaction(auto, FALSE))
    BY <1>4 DEF CreateSummary, Append1
  <2>2. PICK m : m = Compaction(auto, FALSE)
    OBVIOUS
  <2>3. m \in Message /\ m.role = "user" /\ m.kind = "compaction"
    BY <2>2, CompactionFits DEF Fits
  <2> QED BY <1>i, <1>1, <1>4, <2>1, <2>2, <2>3 DEF CreateSummary
<1>5. ASSUME NEW p \in Prompts, Enqueue(p)
      PROVE  Targets'
  BY <1>2, <1>5, <1>i DEF Enqueue
<1>6. ASSUME NEW p \in Prompts, StartTurn(p)
      PROVE  Targets'
  BY <1>2, <1>6, <1>i DEF StartTurn, Target, Join
<1>7. ASSUME NEW s \in Summaries, LoopDirect(s)
      PROVE  Targets'
  BY <1>2, <1>7, <1>i DEF LoopDirect, Join
<1>8. ASSUME NEW c \in Callers, Return(c)
      PROVE  Targets'
  BY <1>2, <1>8, <1>i DEF Return, Close
<1> QED BY <1>3, <1>4, <1>5, <1>6, <1>7, <1>8 DEF Calls

LEMMA CallsTyped ==
  ASSUME IInv, Calls
  PROVE  Typed'
<1>i. Typed /\ Shape /\ TypeOK /\ Running
  BY DEF IInv, Typed
<1>g. Grows({}) /\ Ids \subseteq Ids' /\ Len(messages) \in Nat
  BY <1>i, CallsGrow DEF Grows
<1>k. /\ view' = view /\ current' = current /\ ended' = ended
      /\ at' = at \/ (at = "none" /\ at' = "top")
      /\ attempts' = attempts \/ attempts' = 0
  BY <1>i, CallsKeep
<1>c. Prompts \subseteq Callers /\ Summaries \subseteq Callers
  BY DEF Callers
<1>1. pc' \in [Callers -> {"start", "stored", "waiting", "joined", "closing", "done"}]
  <2>1. pc \in [Callers -> {"start", "stored", "waiting", "joined", "closing", "done"}]
    BY <1>i DEF TypeOK
  <2> QED BY <1>c, <2>1 DEF Calls, Store, Enqueue, StartTurn, CreateSummary, LoopDirect, Return, Close, Join
<1>2. msgOf' \in [Callers -> 0..MaxMessages]
  <2>1. msgOf \in [Callers -> 0..MaxMessages]
    BY <1>i DEF TypeOK
  <2>2. msgOf' = msgOf \/ (Len(messages) < MaxMessages /\ \E c \in Callers : msgOf' = [msgOf EXCEPT ![c] = Next1])
    BY <1>c DEF Calls, Store, Enqueue, StartTurn, CreateSummary, LoopDirect, Return, Append1
  <2>3. Len(messages) < MaxMessages => Next1 \in 0..MaxMessages
    BY <1>g, MaxMessagesAssumption DEF Next1
  <2> QED BY <2>1, <2>2, <2>3
<1>3. queue' \in Seq(Prompts) /\ ToSet(queue') \subseteq Prompts
  <2>1. queue' \in Seq(Prompts)
    BY CallsLine
  <2> QED BY <2>1 DEF ToSet
<1>4. newer' \in BOOLEAN
  <2>1. newer \in BOOLEAN
    BY <1>i DEF TypeOK
  <2>2. (newer /\ Tail(queue) # <<>>) \in BOOLEAN
    OBVIOUS
  <2>3. \/ newer' \in {newer, TRUE, FALSE}
        \/ newer' = (newer /\ Tail(queue) # <<>>)
    BY DEF Calls, Store, Enqueue, StartTurn, CreateSummary, LoopDirect, Return
  <2> QED BY <2>1, <2>2, <2>3
<1>5. base' \in 0..MaxMessages
  <2>1. base \in 0..MaxMessages /\ msgOf \in [Callers -> 0..MaxMessages]
    BY <1>i DEF TypeOK
  <2>2. base' = base \/ base' = 0 \/ \E p \in Prompts : base' = msgOf[p]
    BY DEF Calls, Store, Enqueue, StartTurn, CreateSummary, LoopDirect, Return, Target
  <2> QED BY <1>c, <2>1, <2>2, MaxMessagesAssumption
<1>6. extras' \subseteq Ids' /\ extras' \subseteq Nat
  <2>1. extras \subseteq Ids /\ extras \subseteq Nat
    BY <1>i DEF TypeOK, Typed
  <2>2. extras' = extras \/ extras' = {}
    BY DEF Calls, Store, Enqueue, StartTurn, CreateSummary, LoopDirect, Return
  <2> QED BY <1>g, <2>1, <2>2
<1>7. /\ at' \in {"none", "top", "seen", "asking", "streaming", "summarising"}
      /\ view' \in Seq(Nat) /\ ToSet(view') \subseteq Ids'
      /\ current' \in 0..MaxMessages /\ attempts' \in 0..MaxAttempts
      /\ ended' \in [Callers -> {"", "exit", "nouser", "exhausted", "error", "blocked", "interrupted"}]
  <2>1. /\ at \in {"none", "top", "seen", "asking", "streaming", "summarising"}
        /\ view \in Seq(Nat) /\ ToSet(view) \subseteq Ids
        /\ current \in 0..MaxMessages /\ attempts \in 0..MaxAttempts
        /\ ended \in [Callers -> {"", "exit", "nouser", "exhausted", "error", "blocked", "interrupted"}]
    BY <1>i DEF TypeOK, Typed
  <2>2. attempts' \in 0..MaxAttempts
    <3>1. attempts' = attempts \/ attempts' = 0
      BY <1>k
    <3>2. attempts \in 0..MaxAttempts
      BY <1>i DEF TypeOK
    <3> QED BY <3>1, <3>2, MaxAttemptsAssumption
  <2>3. at' \in {"none", "top", "seen", "asking", "streaming", "summarising"}
    BY <1>k, <2>1
  <2>4. ToSet(view') \subseteq Ids'
    BY <1>g, <1>k, <2>1
  <2> QED BY <1>k, <2>1, <2>2, <2>3, <2>4
<1>8. joined' \subseteq Callers /\ (at' = "none" <=> joined' = {})
  <2>1. joined \subseteq Callers /\ (at = "none" <=> joined = {})
    BY <1>i DEF TypeOK
  <2> QED BY <1>c, <2>1
      DEF Calls, Store, Enqueue, StartTurn, CreateSummary, LoopDirect, Return, Join, runVars
<1>9. reason' \in {"", "error", "interrupted"}
  <2>1. reason \in {"", "error", "interrupted"}
    BY <1>i DEF TypeOK
  <2> QED BY <2>1 DEF Calls, Store, Enqueue, StartTurn, CreateSummary, LoopDirect, Return, Close, Join, runVars
<1>10. closed' \in [Callers -> {"", "completed", "error", "interrupted"}]
  <2>1. closed \in [Callers -> {"", "completed", "error", "interrupted"}] /\ reason \in {"", "error", "interrupted"}
    BY <1>i DEF TypeOK
  <2> QED BY <2>1 DEF Calls, Store, Enqueue, StartTurn, CreateSummary, LoopDirect, Return, Close
<1>11. late' \in Nat
  <2>1. late' = late \/ late' = 0
    BY DEF Calls, Store, Enqueue, StartTurn, CreateSummary, LoopDirect, Return, runVars
  <2> QED BY <1>i, <2>1 DEF Typed
<1>12. TypeOK'
  BY <1>i, <1>g, <1>1, <1>2, <1>3, <1>4, <1>5, <1>6, <1>7, <1>8, <1>9, <1>10, GrowsMessages DEF TypeOK
<1> QED BY <1>i, <1>g, <1>3, <1>6, <1>7, <1>11, <1>12, GrowsMessages DEF Typed

LEMMA CallsRunning ==
  ASSUME IInv, Calls
  PROVE  Running'
<1>i. Typed /\ DOMAIN pc = Callers /\ Prompts \subseteq Callers /\ Summaries \subseteq Callers
  BY DEF IInv, Typed, TypeOK, Callers
<1>g. /\ Grows({}) /\ Ids \subseteq Ids'
      /\ \A i \in Ids : /\ messages'[i].kind = messages[i].kind /\ messages'[i].finish = messages[i].finish
                        /\ messages'[i].error = messages[i].error
  BY <1>i, CallsGrow DEF Grows
<1>k. /\ view' = view /\ current' = current
      /\ at' = at \/ (at = "none" /\ at' = "top")
  BY <1>i, CallsKeep
<1>r. /\ \A c \in Callers : c \in joined <=> pc[c] = "joined"
      /\ \A c \in Callers : pc[c] = "closing" => at = "none"
      /\ at = "streaming" => /\ current \in Ids /\ messages[current].kind = "step"
                             /\ messages[current].finish = "none" /\ ~ messages[current].error
      /\ at = "summarising" => /\ current \in Ids /\ messages[current].kind = "summary"
                               /\ messages[current].finish = "none" /\ LastUser \in Ids
      /\ at # "none" => late = 0 \/ (late = 1 /\ newer /\ at = "streaming")
      /\ late <= 1
  BY DEF IInv, Running
<1>1. \A c \in Callers : c \in joined' <=> pc'[c] = "joined"
  BY ZenonT(60), <1>i, <1>r DEF Calls, Store, Enqueue, StartTurn, CreateSummary, LoopDirect, Return, Close, Join, runVars
<1>2. \A c \in Callers : pc'[c] = "closing" => at' = "none"
  <2>1. \A c \in Callers : pc'[c] = "closing" => pc[c] = "closing"
    BY <1>i DEF Calls, Store, Enqueue, StartTurn, CreateSummary, LoopDirect, Return, Close, Join
  <2>2. at' # at => \A c \in Callers : pc[c] # "closing"
    BY <1>k DEF Calls, Store, Enqueue, StartTurn, CreateSummary, LoopDirect, Return, Join, runVars
  <2> QED BY <1>r, <1>k, <2>1, <2>2
<1>3. (at' # "none" => late' = 0 \/ (late' = 1 /\ newer' /\ at' = "streaming")) /\ late' <= 1
  <2>1. \/ late' = 0
        \/ late' = late /\ at' = at /\ (newer' = newer \/ newer' = TRUE)
        \/ late' = late /\ at' = "none"
    <3>1. ASSUME NEW p \in Prompts, Store(p) \/ Enqueue(p)
          PROVE  late' = late /\ at' = at /\ (newer' = newer \/ newer' = TRUE)
      BY <3>1 DEF Store, Enqueue, runVars
    <3>2. ASSUME NEW p \in Prompts, StartTurn(p)
          PROVE  late' = 0
      BY <3>2 DEF StartTurn
    <3>3. ASSUME NEW s \in Summaries, CreateSummary(s)
          PROVE  late' = late /\ at' = at /\ newer' = newer
      BY <3>3 DEF CreateSummary, runVars
    <3>4. ASSUME NEW s \in Summaries, LoopDirect(s)
          PROVE  late' = 0 \/ (late' = late /\ at' = at /\ newer' = newer)
      BY <3>4 DEF LoopDirect, Join
    <3>5. ASSUME NEW c \in Callers, Return(c)
          PROVE  late' = late /\ at' = "none"
      BY <1>r, <3>5 DEF Return, Close
    <3> QED BY <3>1, <3>2, <3>3, <3>4, <3>5 DEF Calls
  <2> QED BY <1>r, <2>1
<1>4. LastUser' = LastUser
  BY <1>i, <1>g, <1>k, SameOwner
<1>5. /\ at' = "streaming" => /\ current' \in Ids' /\ messages'[current'].kind = "step"
                              /\ messages'[current'].finish = "none" /\ ~ messages'[current'].error
      /\ at' = "summarising" => /\ current' \in Ids' /\ messages'[current'].kind = "summary"
                                /\ messages'[current'].finish = "none" /\ LastUser' \in Ids'
  BY <1>g, <1>k, <1>r, <1>4
<1> QED BY <1>1, <1>2, <1>3, <1>5 DEF Running

LEMMA CallsCloses ==
  ASSUME IInv, Calls
  PROVE  Closes'
<1>i. /\ Typed /\ DOMAIN pc = Callers /\ DOMAIN closed = Callers
      /\ Prompts \subseteq Callers /\ Summaries \subseteq Callers
      /\ ended \in [Callers -> {"", "exit", "nouser", "exhausted", "error", "blocked", "interrupted"}]
      /\ reason \in {"", "error", "interrupted"}
  BY DEF IInv, Typed, TypeOK, Callers
<1>k. /\ ended' = ended
      /\ at' = at \/ (at = "none" /\ at' = "top")
      /\ \A c \in Callers : pc'[c] = "start" => pc[c] = "start"
  BY <1>i, CallsKeep
<1>r. /\ \A c \in Callers : pc[c] = "closing" => at = "none"
      /\ \A c \in Callers : pc[c] # "done" => closed[c] = ""
      /\ \A c \in Callers : pc[c] = "closing" => ended[c] # ""
      /\ \A c \in Callers : ended[c] # "" => pc[c] \in {"closing", "done"}
      /\ NoSummarize =>
         /\ at # "none" => reason = ""
         /\ \A c \in Callers : pc[c] = "closing" =>
              reason = IF ended[c] \in {"error", "exhausted"} THEN "error"
                       ELSE IF ended[c] = "interrupted" THEN "interrupted" ELSE ""
      /\ CloseTellsWhy
  BY DEF IInv, Running, Closes
<1>n. NoSummarize' => NoSummarize
  BY <1>k DEF NoSummarize, Callers
<1>1. CASE \E c \in Callers : Return(c)
  <2>1. PICK c \in Callers : Return(c)
    BY <1>1
  <2>2. /\ pc[c] = "closing" /\ reason' = "" /\ pc' = [pc EXCEPT ![c] = "done"] /\ at' = at
        /\ closed' = [closed EXCEPT ![c] =
             IF reason # "" THEN reason
             ELSE IF ended[c] = "nouser" THEN "error" ELSE "completed"]
    BY <2>1 DEF Return, Close
  <2>3. /\ \A d \in Callers : d # c => pc'[d] = pc[d] /\ closed'[d] = closed[d]
        /\ pc'[c] = "done"
        /\ closed'[c] = IF reason # "" THEN reason
                        ELSE IF ended[c] = "nouser" THEN "error" ELSE "completed"
    BY <1>i, <2>2
  <2>4. NoSummarize' => \A d \in Callers : d # c => pc[d] # "closing"
    <3>1. SUFFICES ASSUME NoSummarize, NEW d \in Callers, d # c, pc[d] = "closing" PROVE FALSE
      BY <1>n
    <3>2. c \in Prompts /\ d \in Prompts
      BY <2>2, <3>1 DEF NoSummarize, Callers
    <3>3. Head(queue) = c /\ Head(queue) = d
      BY <2>2, <3>1, <3>2 DEF IInv, Line
    <3> QED BY <3>1, <3>3
  <2>5. \A d \in Callers : pc'[d] # "done" => closed'[d] = ""
    BY <1>r, <2>3
  <2>6. \A d \in Callers : pc'[d] = "closing" => ended'[d] # ""
    BY <1>k, <1>r, <2>3
  <2>7. \A d \in Callers : ended'[d] # "" => pc'[d] \in {"closing", "done"}
    BY <1>k, <1>r, <2>3
  <2>8. at' = "none"
    BY <1>r, <2>2
  <2>9. CloseTellsWhy'
    <3> SUFFICES ASSUME NoSummarize', NEW d \in Callers, closed'[d] # ""
                 PROVE  /\ closed'[d] = "error" <=> ended'[d] \in {"error", "exhausted", "nouser"}
                        /\ closed'[d] = "interrupted" <=> ended'[d] = "interrupted"
      BY DEF CloseTellsWhy
    <3>1. CASE d = c
      <4>1. reason = IF ended[c] \in {"error", "exhausted"} THEN "error"
                     ELSE IF ended[c] = "interrupted" THEN "interrupted" ELSE ""
        BY <1>n, <1>r, <2>2
      <4> QED BY <1>i, <1>k, <2>3, <3>1, <4>1
    <3>2. CASE d # c
      BY <1>k, <1>n, <1>r, <2>3, <3>2 DEF CloseTellsWhy
    <3> QED BY <3>1, <3>2
  <2> QED BY <2>3, <2>4, <2>5, <2>6, <2>7, <2>8, <2>9 DEF Closes
<1>2. CASE ~ (\E c \in Callers : Return(c))
  <2>1. /\ closed' = closed
        /\ \A c \in Callers : \/ pc'[c] = pc[c]
                              \/ pc[c] \notin {"closing", "done"} /\ pc'[c] \notin {"closing", "done"}
    BY <1>i, <1>2 DEF Calls, Store, Enqueue, StartTurn, CreateSummary, LoopDirect, Join
  <2>2. \/ reason' = reason /\ at' = at
        \/ at' = "top" /\ reason' = "" /\ \A c \in Callers : pc[c] # "closing"
    BY <1>2 DEF Calls, Store, Enqueue, StartTurn, CreateSummary, LoopDirect, Join, runVars
  <2>3. \A c \in Callers : /\ pc'[c] # "done" => closed'[c] = ""
                           /\ pc'[c] = "closing" => ended'[c] # "" /\ pc[c] = "closing"
                           /\ ended'[c] # "" => pc'[c] \in {"closing", "done"}
    BY <1>k, <1>r, <2>1
  <2>4. NoSummarize' =>
         /\ at' # "none" => reason' = ""
         /\ \A c \in Callers : pc'[c] = "closing" =>
              reason' = IF ended'[c] \in {"error", "exhausted"} THEN "error"
                        ELSE IF ended'[c] = "interrupted" THEN "interrupted" ELSE ""
    BY <1>k, <1>n, <1>r, <2>2, <2>3
  <2>5. CloseTellsWhy'
    BY <1>k, <1>n, <1>r, <2>1 DEF CloseTellsWhy
  <2> QED BY <2>3, <2>4, <2>5 DEF Closes
<1> QED BY <1>1, <1>2

----------------------------------------------------------------------------
(* The invariant *)

LEMMA InitKeeps == Init => IInv
<1> SUFFICES ASSUME Init PROVE IInv
  OBVIOUS
<1>c. Callers = Prompts \cup Summaries /\ Prompts \subseteq Callers /\ Summaries \subseteq Callers
  BY DEF Callers
<1>1. /\ messages = <<>> /\ queue = <<>> /\ view = <<>> /\ Len(messages) = 0 /\ Ids = {}
      /\ messages \in Seq(Message) /\ queue \in Seq(Prompts) /\ view \in Seq(Nat)
      /\ ToSet(queue) = {} /\ ToSet(view) = {} /\ DOMAIN queue = {}
  <2>1. messages = <<>> /\ queue = <<>> /\ view = <<>>
    BY DEF Init
  <2>2. Len(<<>>) = 0 /\ DOMAIN <<>> = {} /\ <<>> \in Seq(Message) /\ <<>> \in Seq(Prompts)
    OBVIOUS
  <2> QED BY <2>1, <2>2, EmptyView DEF Ids
<1>2. /\ pc = [c \in Callers |-> "start"] /\ msgOf = [c \in Callers |-> 0] /\ newer = FALSE
      /\ base = 0 /\ extras = {} /\ at = "none" /\ current = 0 /\ attempts = 0
      /\ joined = {} /\ reason = "" /\ late = 0
      /\ ended = [c \in Callers |-> ""] /\ closed = [c \in Callers |-> ""]
  BY DEF Init
<1>3. 0 \in 0..MaxMessages /\ 0 \in 0..MaxAttempts /\ 0 <= MaxMessages
  BY MaxMessagesAssumption, MaxAttemptsAssumption
<1>4. Typed
  BY <1>1, <1>2, <1>3 DEF Typed, TypeOK
<1>5. Shape /\ Line /\ Targets
  BY <1>c, <1>1, <1>2 DEF Shape, Line, Targets
<1>6. Running
  <2>1. \A c \in Callers : pc[c] = "start" /\ c \notin joined
    BY <1>2
  <2>2. late <= 1
    <3>1. late = 0
      BY <1>2
    <3> QED BY <3>1
  <2> QED BY <1>2, <2>1, <2>2 DEF Running
<1>7. Plain /\ Prompted
  BY <1>c, <1>1, <1>2 DEF Plain, Prompted
<1>8. Closes
  BY <1>2 DEF Closes, CloseTellsWhy
<1> QED BY <1>4, <1>5, <1>6, <1>7, <1>8 DEF IInv

LEMMA StepKeeps == ASSUME IInv, [Next]_vars PROVE IInv'
<1>1. CASE Run
  <2>1. PICK E : Touched(E) /\ Grows(E)
    BY <1>1, NextGrows DEF Run, Next
  <2>2. Typed'
    BY <1>1, <2>1, RunTyped
  <2>3. Shape'
    BY <2>1, GrowsShape DEF IInv
  <2> QED BY <1>1, <2>1, <2>2, <2>3, RunLine, RunTargets, RunRunning, RunPlain, RunPrompted, RunCloses DEF IInv
<1>2. CASE Calls
  <2>1. Shape'
    BY <1>2, CallsGrow, GrowsShape DEF IInv
  <2> QED BY <1>2, <2>1, CallsTyped, CallsLine, CallsTargets, CallsRunning, CallsPlain, CallsPrompted, CallsCloses
          DEF IInv
<1>3. CASE UNCHANGED vars
  <2>1. /\ messages' = messages /\ pc' = pc /\ msgOf' = msgOf /\ queue' = queue /\ newer' = newer
        /\ base' = base /\ ended' = ended /\ closed' = closed /\ extras' = extras /\ at' = at
        /\ view' = view /\ current' = current /\ attempts' = attempts /\ joined' = joined
        /\ reason' = reason /\ late' = late
    BY <1>3 DEF vars, callerVars, runVars
  <2>2. Ids' = Ids /\ \A i : IsUser(i)' = IsUser(i) /\ Finished(i)' = Finished(i)
    BY <2>1 DEF Ids, IsUser, Finished
  <2>3. LastUser' = LastUser
    <3>1. view \in Seq(Nat)
      BY DEF IInv, Typed
    <3> QED BY <2>1, <3>1, LastUserIs, LastUserNext
  <2>4. \A p : Answers(p)' = Answers(p)
    BY <2>1, <2>2 DEF Answers, Finished
  <2>5. NoCompaction' = NoCompaction /\ NoSummarize' = NoSummarize /\ CloseTellsWhy' = CloseTellsWhy
    BY <2>1, <2>2 DEF NoCompaction, NoSummarize, CloseTellsWhy
  <2>6. Typed'
    BY <2>1, <2>2 DEF IInv, Typed, TypeOK
  <2>7. Shape' /\ Line' /\ Targets'
    BY <2>1, <2>2 DEF IInv, Shape, Line, Targets, IsUser
  <2>8. Running'
    BY <2>1, <2>2, <2>3 DEF IInv, Running
  <2>9. Plain' /\ Prompted'
    BY <2>1, <2>2, <2>3, <2>4, <2>5 DEF IInv, Plain, Prompted
  <2>10. Closes'
    BY <2>1, <2>5 DEF IInv, Closes
  <2> QED BY <2>6, <2>7, <2>8, <2>9, <2>10 DEF IInv
<1> QED BY <1>1, <1>2, <1>3 DEF Next, Run, Calls

LEMMA AlwaysIInv == Spec => []IInv
BY InitKeeps, StepKeeps, PTL DEF Spec

----------------------------------------------------------------------------
(* Theorems *)

(* The loop's own books: a superseded run begins at most one more step, a   *)
(* run finds whom to answer, and who closes a turn says how its run ended.  *)
THEOREM LoopIsSound == Spec => []LoopInv
<1>1. IInv => LoopInv
  BY DEF IInv, Typed, Running, Prompted, Closes, LoopInv, SupersededStops, UserFound
<1> QED BY <1>1, AlwaysIInv, PTL

(* A prompt whose turn ended the ordinary way has an answer of its own, as  *)
(* long as nothing was summarised.                                          *)
THEOREM DoneIsAnswered == Spec => []AnsweredWhenDone
<1>1. IInv => AnsweredWhenDone
  BY DEF IInv, Plain, NoCompaction, AnsweredWhenDone
<1> QED BY <1>1, AlwaysIInv, PTL

(* A request that holds the prompt of the turn ends with what is the turn's.*)
THEOREM RequestsEndRight == Spec => RequestEndsRight
<1>1. ASSUME IInv, [Next]_vars
      PROVE  [at = "top" /\ at' = "seen" /\ base \in ToSet(view') => Owned(Last(view'))]_vars
  <2> SUFFICES ASSUME at = "top", at' = "seen", base \in ToSet(view'), ~ UNCHANGED vars
               PROVE  Owned(Last(view'))
    OBVIOUS
  <2>1. Run
    <3>1. ~ Calls
      BY <1>1, CallsKeep DEF IInv
    <3> QED BY <1>1, <3>1 DEF Next, Run, Calls
  <2>2. Look
    BY <2>1 DEF Run, NoUser, Exit, AskFollowup, Dismissed, Inject, Create, Step, GoesOn, StepEnds,
       StepFails, StepBlocked, StepOverflows, Summarise, SummaryEnds, SummaryFails
  <2>3. view' = Shown
    BY <2>2 DEF Look
  <2> QED BY <1>1, <2>3, ShownEnds DEF IInv
<1> QED BY <1>1, AlwaysIInv, PTL DEF Spec, RequestEndsRight

(* A step that begins in a prompt's turn answers that prompt, or what was   *)
(* injected for it, as long as nobody summarizes.                           *)
THEOREM TurnsAreOwn == Spec => OwnTurn
<1>1. ASSUME IInv, [Next]_vars
      PROVE  [/\ at = "seen" /\ at' = "streaming" /\ NoSummarize
              /\ queue # <<>> /\ pc[Head(queue)] = "joined"
              => LastUser \in {msgOf[Head(queue)]} \cup extras]_vars
  <2> SUFFICES ASSUME at = "seen", NoSummarize PROVE LastUser \in {msgOf[Head(queue)]} \cup extras
    OBVIOUS
  <2>1. PICK p \in Prompts : Head(queue) = p /\ base = msgOf[p]
    BY <1>1, OneTurn
  <2>2. LastUser \in {base} \cup extras
    BY <1>1 DEF IInv, Prompted
  <2> QED BY <2>1, <2>2
<1> QED BY <1>1, AlwaysIInv, PTL DEF Spec, OwnTurn
=============================================================================
