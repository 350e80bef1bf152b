--------------------------- MODULE AgentTools_proofs ---------------------------
(***************************************************************************)
(* Proofs about AgentTools, for every finite set of sessions, every set of *)
(* rooms and any number of calls at a time.                                *)
(*                                                                         *)
(* A call is a script.  What its steps may rely on are facts about a       *)
(* session: that the page at hand is the registered one ("found"), that    *)
(* none is registered ("vacant"), that a window was just opened or closed  *)
(* for it ("opened", "shut"), that the method at hand runs in its page     *)
(* ("inside"), that the store has no result ("cleared"), or none but that  *)
(* of this call ("asked").  A script is Sound when its steps can be given  *)
(* facts such that each step finds what it needs, and what it leaves known *)
(* -- also when it throws, and wherever it jumps -- is enough for the next *)
(* (Fits).  Sound scripts make sound scripts (SoundAfterSound,             *)
(* SoundWithRescue), and so every tool is one (ToolsAreSound).             *)
(*                                                                         *)
(* AInv.  Every running call's rest is sound for what it Knows, which      *)
(* nobody takes from it: two stretches without an await never interleave   *)
(* (Solo), and a careful agent's calls are about different sessions        *)
(* (Apart).  So a window is registered or about to be by the call that     *)
(* opened it (Registered), for its own player only (Owners).  Of what a    *)
(* page has sent and heard, at most one hub call or answer is the one that *)
(* a call in that page waits for (Out), and news of a fight that somebody  *)
(* has started is followed by the answer to that (News): so the result     *)
(* that the tool reads is the one that it has asked for (Reported).        *)
(***************************************************************************)
EXTENDS AgentTools, FiniteSetTheorems, SequenceTheorems, WellFoundedInduction, TLAPS

(***************************************************************************)
(* Sequences and sets of numbers                                           *)
(***************************************************************************)

LEMMA LeastNat ==
  ASSUME NEW S \in SUBSET Nat, S # {}
  PROVE  \E x \in S : \A y \in S : x <= y
<1> DEFINE R == OpToRel(<, Nat)
<1>1. IsWellFoundedOn(R, Nat)
  BY NatLessThanWellFounded
<1>2. \A x, y \in Nat : y < x => <<y, x>> \in R
  BY DEF OpToRel
<1> HIDE DEF R
<1>3. PICK x \in S : \A y \in S : ~ (<<y, x>> \in R)
  BY <1>1, WFMin
<1>4. \A y \in S : x \in Nat /\ y \in Nat /\ ~ (y < x)
  BY <1>2, <1>3
<1>. QED  BY <1>4

LEMMA FlattenStaysIn ==
  ASSUME NEW T, <<>> \in T, \A a, b \in T : a \o b \in T,
         NEW ss \in Seq(T)
  PROVE  FlattenSeq(ss) \in T
<1> DEFINE n == Len(ss)
           Body(g, i) == IF i = 1 THEN ss[i] ELSE g[i-1] \o ss[i]
           Upto(g, m) == g = [i \in 1..m |-> Body(g, i)]
<1>1. n \in Nat /\ \A i \in 1..n : ss[i] \in T
  OBVIOUS
<1>2. \A m \in 0..n : \E g : Upto(g, m)
  <2> DEFINE Can(m) == \E g : Upto(g, m)
             Bad == {m \in 0..n : ~ Can(m)}
  <2>1. Bad = {}
    <3>1. SUFFICES ASSUME Bad # {} PROVE FALSE
      OBVIOUS
    <3>2. Bad \in SUBSET Nat
      <4> HIDE DEF Can
      <4>. QED  BY <1>1
    <3>3. PICK m \in Bad : \A k \in Bad : m <= k
      <4> HIDE DEF Bad
      <4>. QED  BY <3>1, <3>2, LeastNat
    <3>4. m # 0
      <4>1. Upto([i \in 1..0 |-> {}], 0)
        OBVIOUS
      <4>. QED  BY <4>1
    <3>5. m \in 1..n /\ m - 1 \in 0..n /\ m - 1 \notin Bad
      <4>1. m \in 0..n
        OBVIOUS
      <4> HIDE DEF Bad
      <4>. QED  BY <3>3, <3>4, <4>1, <1>1
    <3>6. PICK g : Upto(g, m - 1)
      <4>1. \E g : Upto(g, m - 1)
        <5> HIDE DEF Upto
        <5>. QED  BY <3>5
      <4>. QED  BY <4>1
    <3> DEFINE h == [i \in 1..m |-> IF i < m THEN g[i] ELSE Body(g, m)]
    <3>7. \A i \in 1..m : h[i] = Body(h, i)
      <4>1. TAKE i \in 1..m
      <4>2. CASE i < m
        <5>1. i \in 1..(m - 1)
          BY <3>5, <1>1, <4>2
        <5>3. h[i] = g[i] /\ g[i] = Body(g, i)
          BY <3>6, <4>2, <5>1
        <5>2. i # 1 => h[i - 1] = g[i - 1]
          BY <4>2
        <5>. QED  BY <5>3, <5>2
      <4>3. CASE i = m
        <5>1. h[i] = Body(g, m)
          BY <4>3
        <5>2. m # 1 => h[m - 1] = g[m - 1]
          BY <3>5
        <5>. QED  BY <5>1, <5>2, <4>3
      <4>4. m \in Nat /\ i \in Nat /\ (i < m \/ i = m)
        BY <3>5, <1>1
      <4>. QED  BY <4>2, <4>3, <4>4
    <3>8. Upto(h, m)
      BY <3>7
    <3>. QED  BY <3>8
  <2> HIDE DEF Can
  <2>2. \A m \in 0..n : Can(m)
    BY <2>1
  <2>. QED  BY <2>2 DEF Can
<1>3. CASE n = 0
  BY <1>3 DEF FlattenSeq
<1>4. CASE n # 0
  <2> DEFINE f == CHOOSE g : Upto(g, n)
  <2>1. Upto(f, n)
    <3>1. \E g : Upto(g, n)
      <4> HIDE DEF Upto
      <4>. QED  BY <1>1, <1>2
    <3>. QED  BY <3>1
  <2>2. FlattenSeq(ss) = f[n]
    BY <1>4 DEF FlattenSeq
  <2> HIDE DEF f
  <2>3. \A i \in 1..n : f[i] = Body(f, i)
    BY <2>1
  <2> DEFINE Bad == {m \in 1..n : f[m] \notin T}
  <2>4. Bad = {}
    <3>1. SUFFICES ASSUME Bad # {} PROVE FALSE
      OBVIOUS
    <3>2. PICK m \in Bad : \A k \in Bad : m <= k
      <4>1. Bad \in SUBSET Nat
        BY <1>1
      <4> HIDE DEF Bad
      <4>. QED  BY <3>1, <4>1, LeastNat
    <3>3. CASE m = 1
      BY <2>3, <3>2, <3>3, <1>1
    <3>4. CASE m # 1
      <4>1. m - 1 \in 1..n /\ m - 1 \notin Bad
        BY <3>2, <3>4, <1>1
      <4>2. f[m] = f[m - 1] \o ss[m]
        BY <2>3, <3>4, <3>2
      <4>. QED  BY <4>1, <4>2, <1>1, <3>2
    <3>. QED  BY <3>3, <3>4
  <2>. QED  BY <2>2, <2>4, <1>1, <1>4
<1>. QED  BY <1>3, <1>4

LEMMA OrderOfSet ==
  ASSUME NEW S, IsFiniteSet(S)
  PROVE  /\ Cardinality(S) \in Nat
         /\ SetToSeq(S) \in [1..Cardinality(S) -> S]
         /\ \A a, b \in 1..Cardinality(S) : SetToSeq(S)[a] = SetToSeq(S)[b] => a = b
         /\ \A x \in S : \E a \in 1..Cardinality(S) : SetToSeq(S)[a] = x
<1>1. Cardinality(S) \in Nat /\ ExistsBijection(1..Cardinality(S), S)
  BY FS_CardinalityType
<1>2. PICK g : g \in Bijection(1..Cardinality(S), S)
  BY <1>1 DEF ExistsBijection
<1>3. g \in [1..Cardinality(S) -> S] /\ IsInjective(g)
  BY <1>2 DEF Bijection, Injection, IsInjective
<1>4. SetToSeq(S) \in [1..Cardinality(S) -> S] /\ IsInjective(SetToSeq(S))
  BY <1>3 DEF SetToSeq
<1>5. IsFiniteSet(1..Cardinality(S)) /\ Cardinality(1..Cardinality(S)) = Cardinality(S)
  BY <1>1, FS_Interval
<1>6. SetToSeq(S) \in Surjection(1..Cardinality(S), S)
  BY <1>4, <1>5, FS_Injection DEF Injection
<1>. QED  BY <1>1, <1>4, <1>6 DEF IsInjective, Surjection

(***************************************************************************)
(* What a script takes for granted                                         *)
(***************************************************************************)

Names == {"found", "vacant", "opened", "shut", "inside", "cleared", "asked"}

\* A fact about one session that a step of a call may rely on.
Facts == Names \X Ids

Criteria == [phase : {"Lobby", "Playing"}] \cup [players : Nat] \cup [inRoom : BOOLEAN]
            \cup [inLobby : BOOLEAN] \cup [connected : BOOLEAN]
Buttons == {"create", "join", "move", "start"}
Sends == {"locate", "configure", "distribute", "choose", "rules"}
Invokes == {"step", "move", "preview", "place", "pickup"}
Args == Nat \cup Buttons \cup Sends \cup Invokes \cup Criteria

Operations ==
  {"find", "fresh", "open", "keep", "close", "drop", "quit", "goto", "bridge", "api", "form",
   "authed", "needsAuth", "diagnose", "canStart", "until", "event", "code", "recent", "element",
   "click", "evaluate", "send", "invoke", "answer", "clear", "result", "inject", "populate",
   "navigate", "ready", "resume", "skip"}

\* What a step may ask for.
Proper(op, par) ==
  /\ op = "click" => par \in Buttons
  /\ op = "send" => par \in Sends
  /\ op = "invoke" => par \in Invokes
  /\ op \in {"skip", "authed"} => par \in Nat

Steps == {x \in [do : Operations, id : Ids, arg : Args, or : Nat] : Proper(x.do, x.arg)}

\* The facts that must be known before a step.
Needed(op) ==
  CASE op = "open" -> {"vacant"}
    [] op = "keep" -> {"opened"}
    [] op \in {"close", "evaluate", "api", "form"} -> {"found"}
    [] op = "drop" -> {"shut"}
    [] op \in {"send", "invoke", "clear", "answer"} -> {"found", "inside"}
    [] op = "result" -> {"found", "inside", "asked"}
    [] OTHER -> {}

\* The facts that a step brings about.
Brought(op) ==
  CASE op \in {"find", "keep"} -> {"found"}
    [] op = "fresh" -> {"vacant"}
    [] op = "open" -> {"opened"}
    [] op = "close" -> {"shut"}
    [] op \in {"evaluate", "send", "invoke", "answer"} -> {"inside"}
    [] op = "clear" -> {"inside", "cleared"}
    [] OTHER -> {}

\* Steps that change what their session's name stands for, and steps that throw.
Renaming == {"open", "keep", "drop"}
Throwing ==
  {"find", "fresh", "needsAuth", "invoke", "navigate", "ready", "goto", "bridge", "api", "form",
   "until", "event", "code", "click", "element", "canStart", "recent", "evaluate", "inject", "populate"}

\* Steps that another one comes right after, about the same session.
Paired == {"open", "invoke"}
Second(op) == IF op = "open" THEN "keep" ELSE "answer"

\* Knowing B after step x is justified by A before it; the same when x throws.
Leads(x, A, B) ==
  \A f \in Names, j \in Ids :
    <<f, j>> \in B =>
      \/ f = "found" /\ <<f, j>> \in A /\ ~ (j = x.id /\ x.do \in Renaming)
      \/ j = x.id /\ f \in Brought(x.do)
      \/ j = x.id /\ f = "asked" /\ x.do = "answer" /\ <<"asked", j>> \in A
      \/ j = x.id /\ f = "asked" /\ x.do = "invoke" /\ x.arg = "place" /\ <<"cleared", j>> \in A

Rescues(x, A, B) ==
  \A f \in Names, j \in Ids :
    <<f, j>> \in B =>
      /\ <<f, j>> \in A
      /\ f = "found" \/ (f = "inside" /\ j = x.id /\ x.do = "invoke")

\* Step k of script t, with a the facts at every place of it, for a call about
\* session o; C is known whenever the script as a whole throws.
Fits(t, a, k, o, C) ==
  /\ t[k].do # "skip" => /\ \A f \in Needed(t[k].do) : <<f, t[k].id>> \in a[k]
                         /\ Leads(t[k], a[k], a[k + 1])
  /\ t[k].do = "skip" => /\ t[k].arg \in Nat /\ k + t[k].arg + 1 <= Len(t) + 1
                         /\ a[k + t[k].arg + 1] \subseteq a[k]
  /\ t[k].do = "authed" => /\ t[k].arg \in Nat /\ k + t[k].arg <= Len(t) + 1
                           /\ Rescues(t[k], a[k], a[k + t[k].arg])
  /\ t[k].or # 0 => /\ k + t[k].or <= Len(t) + 1
                    /\ t[k].do \in Throwing => Rescues(t[k], a[k], a[k + t[k].or])
  /\ t[k].or = 0 /\ t[k].do \in Throwing => Rescues(t[k], a[k], C)
  /\ t[k].do \in Paired => k < Len(t) /\ t[k + 1].do = Second(t[k].do) /\ t[k + 1].id = t[k].id
  /\ t[k].do = "result" => t[k].id = o

Annotation(t, a, o, A, B, C) ==
  /\ a \in [1..(Len(t) + 1) -> SUBSET Facts]
  /\ a[1] \subseteq A /\ B \subseteq a[Len(t) + 1]
  /\ \A k \in 1..Len(t) : Fits(t, a, k, o, C)

\* The scripts that may start when A is known, and know B when they are through.
Sound(o, A, B, C) == {t \in Seq(Steps) : \E a : Annotation(t, a, o, A, B, C)}

LEMMA Weaker ==
  ASSUME NEW o, NEW A, NEW B, NEW C, NEW D, NEW E, NEW F,
         A \subseteq D, E \subseteq B, F \subseteq C
  PROVE  Sound(o, A, B, C) \subseteq Sound(o, D, E, F)
<1>1. SUFFICES ASSUME NEW t \in Seq(Steps), NEW a, Annotation(t, a, o, A, B, C)
      PROVE  Annotation(t, a, o, D, E, F)
  BY DEF Sound
<1>2. \A x, K : Rescues(x, K, C) => Rescues(x, K, F)
  BY DEF Rescues
<1>3. \A k \in 1..Len(t) : Fits(t, a, k, o, F)
  BY <1>1, <1>2 DEF Annotation, Fits
<1>. QED  BY <1>1, <1>3 DEF Annotation

LEMMA EmptyIsSound ==
  ASSUME NEW o, NEW A \in SUBSET Facts, NEW B, NEW C, B \subseteq A
  PROVE  <<>> \in Sound(o, A, B, C)
<1>1. Annotation(<<>>, [k \in 1..1 |-> A], o, A, B, C)
  BY DEF Annotation
<1>. QED  BY <1>1 DEF Sound

LEMMA SoundAfterSound ==
  ASSUME NEW o, NEW A, NEW B, NEW D, NEW C,
         NEW t \in Sound(o, A, B, C), NEW u \in Sound(o, B, D, C)
  PROVE  t \o u \in Sound(o, A, D, C)
<1>1. PICK a : Annotation(t, a, o, A, B, C)
  BY DEF Sound
<1>2. PICK b : Annotation(u, b, o, B, D, C)
  BY DEF Sound
<1>3. /\ t \in Seq(Steps) /\ u \in Seq(Steps) /\ t \o u \in Seq(Steps)
      /\ Len(t) \in Nat /\ Len(u) \in Nat /\ Len(t \o u) = Len(t) + Len(u)
      /\ \A k \in 1..Len(t) : (t \o u)[k] = t[k]
      /\ \A k \in 1..Len(u) : (t \o u)[Len(t) + k] = u[k]
  BY DEF Sound
<1> DEFINE n == Len(t)
           v == t \o u
           c == [k \in 1..(Len(v) + 1) |-> IF k <= n THEN a[k] ELSE b[k - n]]
<1>4. c \in [1..(Len(v) + 1) -> SUBSET Facts]
  BY <1>1, <1>2, <1>3 DEF Annotation
<1>5. \A k \in 1..(n + 1) : c[k] \subseteq a[k]
  BY <1>1, <1>2, <1>3 DEF Annotation
<1>6. \A k \in 1..n : c[k] = a[k]
  BY <1>1, <1>3
<1>7. \A k \in 1..(Len(u) + 1) : c[n + k] = b[k]
  BY <1>2, <1>3
<1> HIDE DEF c
<1>8. ASSUME NEW k \in 1..n PROVE Fits(v, c, k, o, C)
  <2>1. Fits(t, a, k, o, C)
    BY <1>1 DEF Annotation
  <2>2. \A x, K, L, M : M \subseteq L => /\ Leads(x, K, L) => Leads(x, K, M)
                                         /\ Rescues(x, K, L) => Rescues(x, K, M)
    BY DEF Leads, Rescues
  <2>3. v[k] = t[k] /\ c[k] = a[k] /\ k \in Nat /\ (k < n => v[k + 1] = t[k + 1]) /\ v[k] \in Steps
    BY <1>3, <1>6
  <2>4. c[k + 1] \subseteq a[k + 1]
    BY <1>5, <1>3
  <2>5. \A m \in Nat : 0 < k + m /\ k + m <= n + 1 => c[k + m] \subseteq a[k + m] /\ k + m <= Len(v) + 1
    BY <1>5, <1>3
  <2>6. v[k].or \in Nat /\ v[k].do = t[k].do
    BY <2>3 DEF Steps
  <2>7. ASSUME v[k].do = "skip"
        PROVE  /\ v[k].arg \in Nat /\ c[k + v[k].arg + 1] \subseteq c[k]
               /\ k + v[k].arg + 1 <= Len(v) + 1
    <3> DEFINE m == k + v[k].arg + 1
    <3>1. v[k].arg \in Nat /\ m <= n + 1 /\ a[m] \subseteq a[k]
      BY <2>1, <2>3, <2>7 DEF Fits
    <3>2. m \in 1..(n + 1) /\ m <= Len(v) + 1
      BY <3>1, <1>3
    <3>3. c[m] \subseteq a[m]
      <4> HIDE DEF m
      <4>. QED  BY <3>2, <1>5
    <3>. QED  BY <3>1, <3>2, <3>3, <2>3
  <2>8. ASSUME v[k].do = "authed"
        PROVE  /\ v[k].arg \in Nat /\ k + v[k].arg <= Len(v) + 1
               /\ Rescues(v[k], c[k], c[k + v[k].arg])
    <3>1. /\ v[k].arg \in Nat /\ k + v[k].arg <= n + 1
          /\ Rescues(v[k], c[k], a[k + v[k].arg])
      BY <2>1, <2>3, <2>8 DEF Fits
    <3>2. 0 < k + v[k].arg
      BY <3>1
    <3>. QED  BY <3>1, <3>2, <2>5, <2>2
  <2>9. ASSUME v[k].or # 0
        PROVE  /\ k + v[k].or <= Len(v) + 1
               /\ v[k].do \in Throwing => Rescues(v[k], c[k], c[k + v[k].or])
    <3>1. /\ k + v[k].or <= n + 1
          /\ v[k].do \in Throwing => Rescues(v[k], c[k], a[k + v[k].or])
      BY <2>1, <2>3, <2>9 DEF Fits
    <3>2. 0 < k + v[k].or /\ v[k].or \in Nat
      BY <2>3, <2>6
    <3>. QED  BY <3>1, <3>2, <2>5, <2>2
  <2>10. /\ v[k].do # "skip" => /\ \A f \in Needed(v[k].do) : <<f, v[k].id>> \in c[k]
                                /\ Leads(v[k], c[k], c[k + 1])
         /\ v[k].or = 0 /\ v[k].do \in Throwing => Rescues(v[k], c[k], C)
         /\ v[k].do = "result" => v[k].id = o
    BY <2>1, <2>2, <2>3, <2>4 DEF Fits
  <2>11. v[k].do \in Paired => k < Len(v) /\ v[k + 1].do = Second(v[k].do) /\ v[k + 1].id = v[k].id
    BY <2>1, <2>3, <1>3 DEF Fits
  <2>. QED
    <3> HIDE DEF v
    <3>. QED  BY <2>7, <2>8, <2>9, <2>10, <2>11 DEF Fits
<1>9. ASSUME NEW k \in 1..Len(u) PROVE Fits(v, c, n + k, o, C)
  <2>1. Fits(u, b, k, o, C)
    BY <1>2 DEF Annotation
  <2>2. v[n + k] = u[k] /\ c[n + k] = b[k] /\ (k < Len(u) => v[n + k + 1] = u[k + 1]) /\ v[n + k] \in Steps
    BY <1>3, <1>7
  <2>3. \A m \in Nat : k + m <= Len(u) + 1 => c[n + k + m] = b[k + m] /\ n + k + m <= Len(v) + 1
    BY <1>7, <1>3
  <2>4. c[n + k + 1] = b[k + 1]
    BY <1>3, <1>7
  <2>5. v[n + k].or \in Nat /\ v[n + k].do = u[k].do
    BY <2>2 DEF Steps
  <2>6. ASSUME v[n + k].do = "skip"
        PROVE  /\ v[n + k].arg \in Nat /\ c[n + k + v[n + k].arg + 1] \subseteq c[n + k]
               /\ n + k + v[n + k].arg + 1 <= Len(v) + 1
    <3> DEFINE m == k + u[k].arg + 1
    <3>1. u[k].arg \in Nat /\ m <= Len(u) + 1 /\ b[m] \subseteq b[k]
      BY <2>1, <2>2, <2>6 DEF Fits
    <3>2. m \in 1..(Len(u) + 1) /\ n + m <= Len(v) + 1 /\ n + m = n + k + u[k].arg + 1
      BY <3>1, <1>3
    <3>3. c[n + m] = b[m]
      <4> HIDE DEF m
      <4>. QED  BY <3>2, <1>7
    <3>. QED  BY <3>1, <3>2, <3>3, <2>2, <1>3
  <2>7. k < Len(u) => n + k < Len(v)
    BY <1>3
  <2>8. ASSUME v[n + k].do = "authed"
        PROVE  /\ v[n + k].arg \in Nat /\ n + k + v[n + k].arg <= Len(v) + 1
               /\ Rescues(v[n + k], c[n + k], c[n + k + v[n + k].arg])
    <3>1. /\ u[k].arg \in Nat /\ k + u[k].arg <= Len(u) + 1
          /\ Rescues(u[k], b[k], b[k + u[k].arg])
      BY <2>1, <2>2, <2>8 DEF Fits
    <3>. QED  BY <3>1, <2>2, <2>3
  <2>9. ASSUME v[n + k].or # 0
        PROVE  /\ n + k + v[n + k].or <= Len(v) + 1
               /\ v[n + k].do \in Throwing => Rescues(v[n + k], c[n + k], c[n + k + v[n + k].or])
    <3>1. /\ k + u[k].or <= Len(u) + 1 /\ u[k].or \in Nat
          /\ u[k].do \in Throwing => Rescues(u[k], b[k], b[k + u[k].or])
      BY <2>1, <2>2, <2>5, <2>9 DEF Fits
    <3>. QED  BY <3>1, <2>2, <2>3
  <2>10. /\ v[n + k].do # "skip" => /\ \A f \in Needed(v[n + k].do) : <<f, v[n + k].id>> \in c[n + k]
                                    /\ Leads(v[n + k], c[n + k], c[n + k + 1])
         /\ v[n + k].or = 0 /\ v[n + k].do \in Throwing => Rescues(v[n + k], c[n + k], C)
         /\ v[n + k].do = "result" => v[n + k].id = o
    BY <2>1, <2>2, <2>4 DEF Fits
  <2>11. v[n + k].do \in Paired =>
           n + k < Len(v) /\ v[n + k + 1].do = Second(v[n + k].do) /\ v[n + k + 1].id = v[n + k].id
    BY <2>1, <2>2, <2>7, <1>3 DEF Fits
  <2>. QED
    <3> HIDE DEF v
    <3>. QED  BY <2>6, <2>8, <2>9, <2>10, <2>11 DEF Fits
<1>10. ASSUME NEW k \in 1..Len(v) PROVE Fits(v, c, k, o, C)
  <2>1. CASE k <= n
    BY <2>1, <1>3, <1>8
  <2>2. CASE k > n
    <3>1. k - n \in 1..Len(u) /\ n + (k - n) = k
      BY <2>2, <1>3
    <3>. QED  BY <3>1, <1>9
  <2>. QED  BY <2>1, <2>2, <1>3
<1>11. c[1] \subseteq A /\ D \subseteq c[Len(v) + 1]
  BY <1>1, <1>2, <1>3, <1>5, <1>7 DEF Annotation
<1>12. Annotation(v, c, o, A, D, C)
  BY <1>4, <1>10, <1>11 DEF Annotation
<1>. QED  BY <1>3, <1>12 DEF Sound

LEMMA RestIsSound ==
  ASSUME NEW o, NEW A, NEW B, NEW C, NEW t \in Seq(Steps), NEW a, Annotation(t, a, o, A, B, C),
         NEW m \in 1..(Len(t) + 1), NEW K, a[m] \subseteq K
  PROVE  /\ SubSeq(t, m, Len(t)) \in Sound(o, K, B, C)
         /\ Len(SubSeq(t, m, Len(t))) = Len(t) + 1 - m
         /\ \A k \in 1..(Len(t) + 1 - m) : SubSeq(t, m, Len(t))[k] = t[m + k - 1]
<1> DEFINE u == SubSeq(t, m, Len(t))
           d == m - 1
           b == [k \in 1..(Len(u) + 1) |-> a[d + k]]
<1>1. /\ Len(t) \in Nat /\ d \in Nat /\ m = d + 1
      /\ u \in Seq(Steps) /\ Len(u) = Len(t) - d
      /\ \A k \in 1..Len(u) : u[k] = t[d + k] /\ d + k \in 1..Len(t)
  OBVIOUS
<1>2. b \in [1..(Len(u) + 1) -> SUBSET Facts]
  <2>1. \A k \in 1..(Len(u) + 1) : d + k \in 1..(Len(t) + 1)
    BY <1>1
  <2>. QED  BY <2>1 DEF Annotation
<1>3. \A k \in 1..(Len(u) + 1) : b[k] = a[d + k]
  OBVIOUS
<1>4. Len(u) \in Nat /\ d + Len(u) = Len(t)
  BY <1>1
<1> HIDE DEF u, d, b
<1>5. ASSUME NEW k \in 1..Len(u) PROVE Fits(u, b, k, o, C)
  <2>1. Fits(t, a, d + k, o, C)
    BY <1>1 DEF Annotation
  <2>2. u[k] = t[d + k] /\ b[k] = a[d + k] /\ u[k] \in Steps
    BY <1>1, <1>3, <1>4
  <2>3. b[k + 1] = a[d + k + 1] /\ (k < Len(u) => u[k + 1] = t[d + k + 1])
    BY <1>1, <1>3, <1>4
  <2>4. \A n \in Nat : d + k + n <= Len(t) + 1 => b[k + n] = a[d + k + n] /\ k + n <= Len(u) + 1
    <3>1. SUFFICES ASSUME NEW n \in Nat, d + k + n <= Len(t) + 1
          PROVE  b[k + n] = a[d + k + n] /\ k + n <= Len(u) + 1
      OBVIOUS
    <3>2. k + n \in 1..(Len(u) + 1) /\ d + (k + n) = d + k + n
      BY <3>1, <1>1, <1>4
    <3>. QED  BY <3>2, <1>3
  <2>5. ASSUME u[k].do = "skip"
        PROVE  /\ u[k].arg \in Nat /\ b[k + u[k].arg + 1] \subseteq b[k]
               /\ k + u[k].arg + 1 <= Len(u) + 1
    <3> DEFINE n == u[k].arg + 1
    <3>1. /\ u[k].arg \in Nat /\ d + k + n <= Len(t) + 1 /\ a[d + k + n] \subseteq a[d + k]
      BY <2>1, <2>2, <2>5, <1>1 DEF Fits
    <3>2. n \in Nat /\ k + n = k + u[k].arg + 1
      <4>1. k \in Nat
        OBVIOUS
      <4>2. \A r \in Nat : r + 1 \in Nat /\ k + (r + 1) = k + r + 1
        BY <4>1
      <4>. QED  BY <3>1, <4>2
    <3>3. b[k + n] = a[d + k + n] /\ k + n <= Len(u) + 1
      <4> HIDE DEF n
      <4>. QED  BY <2>4, <3>1, <3>2
    <3>. QED  BY <3>1, <3>2, <3>3, <2>2
  <2>6. ASSUME u[k].do = "authed"
        PROVE  /\ u[k].arg \in Nat /\ k + u[k].arg <= Len(u) + 1
               /\ Rescues(u[k], b[k], b[k + u[k].arg])
    BY <2>1, <2>2, <2>4, <2>6 DEF Fits
  <2>7. ASSUME u[k].or # 0
        PROVE  /\ k + u[k].or <= Len(u) + 1
               /\ u[k].do \in Throwing => Rescues(u[k], b[k], b[k + u[k].or])
    <3>1. u[k].or \in Nat
      BY <2>2 DEF Steps
    <3>. QED  BY <3>1, <2>1, <2>2, <2>4, <2>7 DEF Fits
  <2>8. /\ u[k].do # "skip" => /\ \A f \in Needed(u[k].do) : <<f, u[k].id>> \in b[k]
                               /\ Leads(u[k], b[k], b[k + 1])
        /\ u[k].or = 0 /\ u[k].do \in Throwing => Rescues(u[k], b[k], C)
        /\ u[k].do = "result" => u[k].id = o
    BY <2>1, <2>2, <2>3 DEF Fits
  <2>9. u[k].do \in Paired => k < Len(u) /\ u[k + 1].do = Second(u[k].do) /\ u[k + 1].id = u[k].id
    BY <2>1, <2>2, <2>3, <1>1, <1>4 DEF Fits
  <2>. QED  BY <2>5, <2>6, <2>7, <2>8, <2>9 DEF Fits
<1>6. b[1] \subseteq K /\ B \subseteq b[Len(u) + 1]
  <2>1. b[1] = a[m] /\ b[Len(u) + 1] = a[Len(t) + 1]
    BY <1>1, <1>3, <1>4
  <2>. QED  BY <2>1 DEF Annotation
<1>7. Annotation(u, b, o, K, B, C)
  BY <1>2, <1>5, <1>6 DEF Annotation
<1>. QED  BY <1>1, <1>7 DEF Sound, u, d

\* What holds of a script whose first step x is about to be taken when A is known.
LEMMA FirstStep ==
  ASSUME NEW o, NEW A, NEW B, NEW C, NEW t \in Sound(o, A, B, C), t # <<>>,
         NEW x, x = Head(t)
  PROVE  /\ x \in Steps
         /\ x.do # "skip" => /\ \A f \in Needed(x.do) : <<f, x.id>> \in A
                             /\ \E K \in SUBSET Facts : Leads(x, A, K) /\ SubSeq(t, 2, Len(t)) \in Sound(o, K, B, C)
         /\ x.do = "skip" => x.arg \in Nat /\ SubSeq(t, x.arg + 2, Len(t)) \in Sound(o, A, B, C)
         /\ x.do = "authed" => /\ x.arg \in Nat
                               /\ \E K \in SUBSET Facts : Rescues(x, A, K) /\ SubSeq(t, x.arg + 1, Len(t)) \in Sound(o, K, B, C)
         /\ x.or # 0 /\ x.do \in Throwing =>
              \E K \in SUBSET Facts : Rescues(x, A, K) /\ SubSeq(t, x.or + 1, Len(t)) \in Sound(o, K, B, C)
         /\ x.do \in Paired => Len(t) > 1 /\ t[2].do = Second(x.do) /\ t[2].id = x.id
         /\ x.do = "result" => x.id = o
<1>1. PICK a : Annotation(t, a, o, A, B, C)
  BY DEF Sound
<1>2. t \in Seq(Steps) /\ Len(t) \in Nat /\ 1 \in 1..Len(t) /\ x = t[1] /\ x \in Steps
  BY DEF Sound
<1>3. Fits(t, a, 1, o, C) /\ a[1] \subseteq A
  BY <1>1, <1>2 DEF Annotation
<1>4. ASSUME NEW K, NEW L
      PROVE  /\ Leads(x, a[1], K) => Leads(x, A, K)
             /\ Rescues(x, a[1], K) => Rescues(x, A, K)
  BY <1>3 DEF Leads, Rescues
<1>11. \A m \in 1..(Len(t) + 1) : a[m] \in SUBSET Facts
  BY <1>1 DEF Annotation
<1>5. ASSUME NEW m \in 1..(Len(t) + 1), NEW K, a[m] \subseteq K
      PROVE  SubSeq(t, m, Len(t)) \in Sound(o, K, B, C)
  BY <1>1, <1>2, <1>5, RestIsSound
<1>6. ASSUME x.do # "skip"
      PROVE  /\ \A f \in Needed(x.do) : <<f, x.id>> \in A
             /\ \E K \in SUBSET Facts : Leads(x, A, K) /\ SubSeq(t, 2, Len(t)) \in Sound(o, K, B, C)
  <2>1. (\A f \in Needed(x.do) : <<f, x.id>> \in a[1]) /\ Leads(x, a[1], a[2])
    BY <1>2, <1>3, <1>6 DEF Fits
  <2>2. SubSeq(t, 2, Len(t)) \in Sound(o, a[2], B, C)
    BY <1>2, <1>5
  <2>3. a[2] \in SUBSET Facts
    BY <1>2, <1>11
  <2>. QED  BY <2>1, <2>2, <2>3, <1>3, <1>4
<1>7. ASSUME x.do = "skip"
      PROVE  x.arg \in Nat /\ SubSeq(t, x.arg + 2, Len(t)) \in Sound(o, A, B, C)
  <2>1. x.arg \in Nat /\ 1 + x.arg + 1 <= Len(t) + 1 /\ a[1 + x.arg + 1] \subseteq a[1]
    BY <1>2, <1>3, <1>7 DEF Fits
  <2>2. 1 + x.arg + 1 = x.arg + 2 /\ x.arg + 2 \in 1..(Len(t) + 1)
    BY <2>1, <1>2
  <2>3. a[x.arg + 2] \subseteq A
    BY <2>1, <2>2, <1>3
  <2>. QED  BY <2>1, <2>2, <2>3, <1>5
<1>8. ASSUME x.do = "authed"
      PROVE  /\ x.arg \in Nat
             /\ \E K \in SUBSET Facts : Rescues(x, A, K) /\ SubSeq(t, x.arg + 1, Len(t)) \in Sound(o, K, B, C)
  <2>1. x.arg \in Nat /\ 1 + x.arg <= Len(t) + 1 /\ Rescues(x, a[1], a[1 + x.arg])
    BY <1>2, <1>3, <1>8 DEF Fits
  <2>2. 1 + x.arg = x.arg + 1 /\ x.arg + 1 \in 1..(Len(t) + 1)
    BY <2>1, <1>2
  <2>3. SubSeq(t, x.arg + 1, Len(t)) \in Sound(o, a[x.arg + 1], B, C)
    BY <2>2, <1>5
  <2>. QED  BY <2>1, <2>2, <2>3, <1>4, <1>11
<1>9. ASSUME x.or # 0, x.do \in Throwing
      PROVE  \E K \in SUBSET Facts : Rescues(x, A, K) /\ SubSeq(t, x.or + 1, Len(t)) \in Sound(o, K, B, C)
  <2>1. x.or \in Nat /\ 1 + x.or <= Len(t) + 1 /\ Rescues(x, a[1], a[1 + x.or])
    BY <1>2, <1>3, <1>9 DEF Fits, Steps
  <2>2. 1 + x.or = x.or + 1 /\ x.or + 1 \in 1..(Len(t) + 1)
    BY <2>1, <1>2
  <2>3. SubSeq(t, x.or + 1, Len(t)) \in Sound(o, a[x.or + 1], B, C)
    BY <2>2, <1>5
  <2>. QED  BY <2>1, <2>2, <2>3, <1>4, <1>11
<1>10. /\ x.do \in Paired => Len(t) > 1 /\ t[2].do = Second(x.do) /\ t[2].id = x.id
       /\ x.do = "result" => x.id = o
  BY <1>2, <1>3 DEF Fits
<1>. QED  BY <1>2, <1>6, <1>7, <1>8, <1>9, <1>10

\* Steps that need nothing and bring nothing about: of what is known, who is found is all they rely on.
LEMMA FoundIsEnough ==
  ASSUME NEW o, NEW A, NEW B, NEW C, NEW t \in Sound(o, A, B, C), t # <<>>,
         Head(t).do \in {"navigate", "ready", "resume"}
  PROVE  t \in Sound(o, {y \in A : y[1] = "found"}, B, C)
<1>1. PICK a : Annotation(t, a, o, A, B, C)
  BY DEF Sound
<1>2. t \in Seq(Steps) /\ Len(t) \in Nat /\ 1 \in 1..Len(t) /\ Head(t) = t[1] /\ t[1] \in Steps
  BY DEF Sound
<1> DEFINE F == {y \in a[1] : y[1] = "found"}
           b == [k \in 1..(Len(t) + 1) |-> IF k = 1 THEN F ELSE a[k]]
<1>3. a \in [1..(Len(t) + 1) -> SUBSET Facts] /\ a[1] \subseteq A /\ B \subseteq a[Len(t) + 1] /\ a[1] \in SUBSET Facts
      /\ \A k \in 1..Len(t) : Fits(t, a, k, o, C)
  BY <1>1, <1>2 DEF Annotation
<1>4. /\ b \in [1..(Len(t) + 1) -> SUBSET Facts] /\ b[1] = F /\ b[Len(t) + 1] = a[Len(t) + 1]
      /\ \A k \in 2..(Len(t) + 1) : b[k] = a[k]
  BY <1>2, <1>3
<1>5. \A f \in Names, j \in Ids : f = "found" /\ <<f, j>> \in a[1] => <<f, j>> \in F
  OBVIOUS
<1> HIDE DEF b, F
<1>6. \A K : Leads(t[1], a[1], K) => Leads(t[1], F, K)
  BY <1>2, <1>5 DEF Leads, Brought
<1>7. \A K : Rescues(t[1], a[1], K) => Rescues(t[1], F, K)
  BY <1>2, <1>5 DEF Rescues
<1>8. ASSUME NEW k \in 1..Len(t) PROVE Fits(t, b, k, o, C)
  <2>1. Fits(t, a, k, o, C) /\ t[k] \in Steps /\ k \in Nat
    BY <1>2, <1>3
  <2>2. t[k].or \in Nat
    BY <2>1 DEF Steps
  <2>3. b[k + 1] = a[k + 1]
    BY <1>2, <1>4
  <2>4. \A m \in Nat : m > 0 /\ k + m <= Len(t) + 1 => b[k + m] = a[k + m]
    BY <1>2, <1>4
  <2>5. CASE k = 1
    <3>1. t[k].do \notin {"skip", "authed", "result"} \cup Paired /\ Needed(t[k].do) = {}
      BY <1>2, <2>5 DEF Paired, Needed
    <3>2. Leads(t[k], b[k], b[k + 1])
      BY <1>4, <1>6, <2>1, <2>3, <2>5, <3>1 DEF Fits
    <3>3. t[k].or # 0 => k + t[k].or <= Len(t) + 1 /\ (t[k].do \in Throwing => Rescues(t[k], b[k], b[k + t[k].or]))
      BY <1>4, <1>7, <2>1, <2>2, <2>4, <2>5 DEF Fits
    <3>4. t[k].or = 0 /\ t[k].do \in Throwing => Rescues(t[k], b[k], C)
      BY <1>4, <1>7, <2>1, <2>5 DEF Fits
    <3>. QED  BY <3>1, <3>2, <3>3, <3>4 DEF Fits
  <2>6. CASE k # 1
    <3>1. b[k] = a[k]
      BY <1>4, <2>6
    <3>2. t[k].do = "skip" => /\ t[k].arg \in Nat /\ k + t[k].arg + 1 <= Len(t) + 1
                              /\ b[k + t[k].arg + 1] \subseteq b[k]
      <4>1. SUFFICES ASSUME t[k].do = "skip"
            PROVE  /\ t[k].arg \in Nat /\ k + t[k].arg + 1 <= Len(t) + 1
                   /\ b[k + t[k].arg + 1] \subseteq b[k]
        OBVIOUS
      <4>2. t[k].arg \in Nat /\ k + t[k].arg + 1 <= Len(t) + 1 /\ a[k + t[k].arg + 1] \subseteq a[k]
        BY <2>1, <4>1 DEF Fits
      <4>3. k + t[k].arg + 1 \in 2..(Len(t) + 1)
        BY <4>2, <1>2
      <4>. QED  BY <4>2, <4>3, <3>1, <1>4
    <3>3. t[k].do = "authed" => /\ t[k].arg \in Nat /\ k + t[k].arg <= Len(t) + 1
                                /\ Rescues(t[k], b[k], b[k + t[k].arg])
      <4>1. SUFFICES ASSUME t[k].do = "authed"
            PROVE  /\ t[k].arg \in Nat /\ k + t[k].arg <= Len(t) + 1
                   /\ Rescues(t[k], b[k], b[k + t[k].arg])
        OBVIOUS
      <4>2. t[k].arg \in Nat /\ k + t[k].arg <= Len(t) + 1 /\ Rescues(t[k], a[k], a[k + t[k].arg])
        BY <2>1, <4>1 DEF Fits
      <4>3. b[k + t[k].arg] = a[k + t[k].arg]
        BY <2>6, <4>2, <1>2, <1>4
      <4>. QED  BY <4>2, <4>3, <3>1
    <3>4. t[k].or # 0 => k + t[k].or <= Len(t) + 1 /\ (t[k].do \in Throwing => Rescues(t[k], b[k], b[k + t[k].or]))
      BY <2>1, <2>2, <2>4, <3>1 DEF Fits
    <3>. QED  BY <2>1, <2>3, <3>1, <3>2, <3>3, <3>4 DEF Fits
  <2>. QED  BY <2>5, <2>6
<1>9. F \subseteq {y \in A : y[1] = "found"}
  BY <1>3 DEF F
<1>. QED  BY <1>2, <1>3, <1>4, <1>8, <1>9 DEF Annotation, Sound

(***************************************************************************)
(* How scripts are put together                                            *)
(***************************************************************************)

LEMMA Joined ==
  ASSUME NEW T, NEW s \in Seq(T), NEW u \in Seq(T)
  PROVE  /\ s \o u \in Seq(T) /\ Len(s \o u) = Len(s) + Len(u) /\ Len(s) \in Nat /\ Len(u) \in Nat
         /\ \A k \in 1..Len(s) : (s \o u)[k] = s[k]
         /\ \A k \in 1..Len(u) : (s \o u)[Len(s) + k] = u[k]
OBVIOUS

LEMMA DoIsStep ==
  ASSUME NEW op \in Operations, NEW i \in Ids, NEW par \in Args, Proper(op, par)
  PROVE  /\ Do(op, i, par) \in Steps
         /\ Do(op, i, par).do = op /\ Do(op, i, par).id = i
         /\ Do(op, i, par).arg = par /\ Do(op, i, par).or = 0
BY DEF Do, Steps

LEMMA OneStep ==
  ASSUME NEW o, NEW A \in SUBSET Facts, NEW B \in SUBSET Facts, NEW C,
         NEW op \in Operations, NEW i \in Ids, NEW par \in Args, Proper(op, par),
         op \notin Paired \cup {"skip", "authed"},
         op = "result" => i = o,
         \A f \in Needed(op) : <<f, i>> \in A,
         Leads(Do(op, i, par), A, B), op \in Throwing => Rescues(Do(op, i, par), A, C)
  PROVE  <<Do(op, i, par)>> \in Sound(o, A, B, C)
<1> DEFINE t == <<Do(op, i, par)>>
           a == <<A, B>>
<1>1. t \in Seq(Steps) /\ Len(t) = 1 /\ t[1] = Do(op, i, par)
  BY DoIsStep
<1>2. t[1].do = op /\ t[1].id = i /\ t[1].arg = par /\ t[1].or = 0
  BY DEF Do
<1>3. a \in [1..2 -> SUBSET Facts] /\ a[1] = A /\ a[2] = B
  OBVIOUS
<1> HIDE DEF t, a
<1>4. Fits(t, a, 1, o, C)
  BY <1>1, <1>2, <1>3 DEF Fits
<1>5. Annotation(t, a, o, A, B, C)
  BY <1>1, <1>3, <1>4 DEF Annotation
<1>6. t \in Sound(o, A, B, C)
  BY <1>1, <1>5 DEF Sound
<1>. QED  BY <1>6 DEF t

LEMMA TwoSteps ==
  ASSUME NEW o, NEW A \in SUBSET Facts, NEW B \in SUBSET Facts, NEW D \in SUBSET Facts, NEW C,
         NEW op \in Paired, NEW i \in Ids, NEW par \in Args, Proper(op, par),
         \A f \in Needed(op) : <<f, i>> \in A,
         \A f \in Needed(Second(op)) : <<f, i>> \in B,
         Leads(Do(op, i, par), A, B), op \in Throwing => Rescues(Do(op, i, par), A, C),
         Leads(Do(Second(op), i, 0), B, D)
  PROVE  <<Do(op, i, par), Do(Second(op), i, 0)>> \in Sound(o, A, D, C)
<1> DEFINE t == <<Do(op, i, par), Do(Second(op), i, 0)>>
           a == <<A, B, D>>
<1>1. /\ op \in Operations /\ op \notin {"skip", "authed", "result"}
      /\ Second(op) \in Operations /\ Second(op) \notin {"skip", "authed", "result", "click", "send", "invoke", "open"}
      /\ Second(op) \notin Throwing /\ Second(op) \notin Paired
  <2>1. CASE op = "open"
    BY <2>1 DEF Paired, Second, Throwing, Operations
  <2>2. CASE op = "invoke"
    BY <2>2 DEF Paired, Second, Throwing, Operations
  <2>. QED  BY <2>1, <2>2 DEF Paired
<1>2. Do(op, i, par) \in Steps /\ Do(Second(op), i, 0) \in Steps
  <2>1. 0 \in Args /\ Proper(Second(op), 0)
    BY <1>1 DEF Args, Proper
  <2>. QED  BY <1>1, <2>1, DoIsStep
<1>3. t \in Seq(Steps) /\ Len(t) = 2 /\ t[1] = Do(op, i, par) /\ t[2] = Do(Second(op), i, 0)
  <2> HIDE DEF Do
  <2>. QED  BY <1>2
<1>4. /\ t[1].do = op /\ t[1].id = i /\ t[1].or = 0
      /\ t[2].do = Second(op) /\ t[2].id = i /\ t[2].or = 0
  <2> HIDE DEF t
  <2>. QED  BY <1>3 DEF Do
<1>5. a \in [1..3 -> SUBSET Facts] /\ a[1] = A /\ a[2] = B /\ a[3] = D
  OBVIOUS
<1> HIDE DEF t, a
<1>6. Fits(t, a, 1, o, C)
  BY <1>1, <1>3, <1>4, <1>5 DEF Fits
<1>7. Fits(t, a, 2, o, C)
  BY <1>1, <1>3, <1>4, <1>5 DEF Fits
<1>8. Annotation(t, a, o, A, D, C)
  BY <1>3, <1>5, <1>6, <1>7 DEF Annotation
<1>9. t \in Sound(o, A, D, C)
  BY <1>3, <1>8 DEF Sound
<1>. QED  BY <1>9 DEF t

LEMMA SoundWithRescue ==
  ASSUME NEW o, NEW A, NEW B \in SUBSET Facts, NEW C, NEW D,
         NEW try \in Sound(o, A, B, C), NEW rescue \in Sound(o, C, B, D)
  PROVE  Else(try, rescue) \in Sound(o, A, B, D)
<1>1. PICK a : Annotation(try, a, o, A, B, C)
  BY DEF Sound
<1>2. PICK b : Annotation(rescue, b, o, C, B, D)
  BY DEF Sound
<1> DEFINE n == Len(try)
           m == Len(rescue)
           w == [k \in DOMAIN try |-> IF try[k].or = 0 THEN [try[k] EXCEPT !.or = n + 2 - k] ELSE try[k]]
           skip == Do("skip", Host, m)
           v == Else(try, rescue)
           c == [k \in 1..(n + m + 2) |-> IF k <= n + 1 THEN a[k] ELSE IF k = n + m + 2 THEN B ELSE b[k - n - 1]]
<1>3. n \in Nat /\ m \in Nat /\ try \in Seq(Steps) /\ rescue \in Seq(Steps)
  BY DEF Sound
<1>4. w \in Seq(Steps) /\ Len(w) = n /\ DOMAIN w = 1..n
  <2>1. \A k \in 1..n : w[k] \in Steps
    <3>1. TAKE k \in 1..n
    <3>2. try[k] \in Steps /\ n + 2 - k \in Nat /\ k \in DOMAIN try
      BY <1>3
    <3>3. [try[k] EXCEPT !.or = n + 2 - k] \in Steps
      BY <3>2 DEF Steps
    <3>4. w[k] = IF try[k].or = 0 THEN [try[k] EXCEPT !.or = n + 2 - k] ELSE try[k]
      BY <3>2
    <3> HIDE DEF w, n
    <3>. QED  BY <3>2, <3>3, <3>4
  <2>2. DOMAIN w = 1..n
    BY <1>3
  <2>3. w \in [1..n -> Steps]
    <3>1. w = [k \in 1..n |-> w[k]]
      BY <2>2
    <3> HIDE DEF w, n
    <3>. QED  BY <2>1, <3>1
  <2> HIDE DEF w, n
  <2>. QED  BY <2>2, <2>3, <1>3
<1>5. skip \in Steps /\ skip.do = "skip" /\ skip.arg = m /\ skip.or = 0
  <2>1. m \in Args
    BY <1>3 DEF Args
  <2>2. Host \in Ids
    BY IdsAndRooms
  <2>3. "skip" \in Operations
    BY DEF Operations
  <2>4. Proper("skip", m)
    BY <1>3 DEF Proper
  <2> HIDE DEF m
  <2>. QED  BY <2>1, <2>2, <2>3, <2>4, DoIsStep
<1>6. v = (w \o <<skip>>) \o rescue
  BY DEF Else
<1>7. /\ v \in Seq(Steps) /\ Len(v) = n + m + 1
      /\ \A k \in 1..n : v[k] = w[k]
      /\ v[n + 1] = skip
      /\ \A k \in 1..m : v[n + 1 + k] = rescue[k]
  <2> HIDE DEF w, skip, v
  <2> DEFINE x == w \o <<skip>>
  <2>1. /\ x \in Seq(Steps) /\ Len(x) = n + 1 /\ x[n + 1] = skip
        /\ \A k \in 1..n : x[k] = w[k]
    <3>1. <<skip>> \in Seq(Steps) /\ Len(<<skip>>) = 1 /\ <<skip>>[1] = skip /\ 1 \in 1..1
      BY <1>5
    <3> DEFINE u == <<skip>>
    <3> HIDE DEF u
    <3>2. u \in Seq(Steps) /\ Len(u) = 1 /\ u[1] = skip /\ x = w \o u
      BY <3>1 DEF u
    <3> HIDE DEF x
    <3>. QED  BY <3>2, <1>4, Joined
  <2>2. v = x \o rescue
    BY <1>6
  <2> HIDE DEF x
  <2>3. /\ v \in Seq(Steps) /\ Len(v) = n + 1 + m
        /\ \A k \in 1..(n + 1) : v[k] = x[k]
        /\ \A k \in 1..m : v[n + 1 + k] = rescue[k]
    <3>1. /\ x \o rescue \in Seq(Steps) /\ Len(x \o rescue) = Len(x) + m
          /\ \A k \in 1..Len(x) : (x \o rescue)[k] = x[k]
          /\ \A k \in 1..m : (x \o rescue)[Len(x) + k] = rescue[k]
      <4>1. ASSUME NEW y \in Seq(Steps)
            PROVE  /\ y \o rescue \in Seq(Steps) /\ Len(y \o rescue) = Len(y) + Len(rescue)
                   /\ \A k \in 1..Len(y) : (y \o rescue)[k] = y[k]
                   /\ \A k \in 1..Len(rescue) : (y \o rescue)[Len(y) + k] = rescue[k]
        BY <1>3, Joined
      <4>. QED  BY <2>1, <4>1 DEF m
    <3>. QED  BY <3>1, <2>1, <2>2
  <2>. QED  BY <2>1, <2>3, <1>3
<1>8. \A k \in 1..n : /\ v[k].do = try[k].do /\ v[k].id = try[k].id /\ v[k].arg = try[k].arg
                      /\ v[k].or = IF try[k].or = 0 THEN n + 2 - k ELSE try[k].or
                      /\ try[k] \in Steps
  <2>1. TAKE k \in 1..n
  <2>2. try[k] \in Steps /\ v[k] = IF try[k].or = 0 THEN [try[k] EXCEPT !.or = n + 2 - k] ELSE try[k]
    <3>1. k \in DOMAIN try /\ v[k] = w[k] /\ try[k] \in Steps
      <4> HIDE DEF v, w
      <4>. QED  BY <1>3, <1>7
    <3> HIDE DEF v
    <3>. QED  BY <3>1
  <2> HIDE DEF v, n
  <2>. QED  BY <2>2 DEF Steps
<1>9. /\ a \in [1..(n + 1) -> SUBSET Facts] /\ a[1] \subseteq A /\ B \subseteq a[n + 1]
      /\ b \in [1..(m + 1) -> SUBSET Facts] /\ b[1] \subseteq C /\ B \subseteq b[m + 1]
  BY <1>1, <1>2 DEF Annotation
<1>10. c \in [1..(n + m + 2) -> SUBSET Facts]
  BY <1>3, <1>9
<1>11. /\ \A k \in 1..(n + 1) : c[k] = a[k]
       /\ \A k \in 1..(m + 1) : c[n + 1 + k] \subseteq b[k]
       /\ \A k \in 1..m : c[n + 1 + k] = b[k]
       /\ c[n + m + 2] = B
  BY <1>3, <1>9
<1>12. c[n + 2] \subseteq C
  BY <1>11, <1>9, <1>3
<1>13. ASSUME NEW x, NEW y, NEW K, NEW L, NEW M, M \subseteq L, y.do = x.do, y.id = x.id, y.arg = x.arg
       PROVE  /\ Leads(x, K, L) => Leads(y, K, M)
              /\ Rescues(x, K, L) => Rescues(y, K, M)
  BY <1>13 DEF Leads, Rescues
<1> HIDE DEF n, m, w, skip, v, c
<1>14. ASSUME NEW k \in 1..n PROVE Fits(v, c, k, o, D)
  <2>1. Fits(try, a, k, o, C)
    BY <1>1 DEF Annotation, n
  <2>2. /\ v[k].do = try[k].do /\ v[k].id = try[k].id /\ v[k].arg = try[k].arg
        /\ v[k].or = IF try[k].or = 0 THEN n + 2 - k ELSE try[k].or
        /\ try[k].or \in Nat /\ k \in Nat
    BY <1>8, <1>3 DEF Steps
  <2>3. c[k] = a[k] /\ c[k + 1] = a[k + 1]
    BY <1>3, <1>11
  <2>4. \A j \in Nat : 0 < k + j /\ k + j <= n + 1 => c[k + j] = a[k + j] /\ k + j <= Len(v) + 1
    BY <1>3, <1>7, <1>11
  <2>5. ASSUME v[k].do = "skip"
        PROVE  /\ v[k].arg \in Nat /\ c[k + v[k].arg + 1] \subseteq c[k]
               /\ k + v[k].arg + 1 <= Len(v) + 1
    <3> DEFINE j == try[k].arg + 1
    <3>1. try[k].arg \in Nat /\ k + j <= n + 1 /\ a[k + j] \subseteq a[k]
      BY <2>1, <2>2, <2>5 DEF Fits, n
    <3>2. j \in Nat /\ 0 < k + j /\ k + j = k + try[k].arg + 1
      BY <3>1
    <3>3. c[k + j] = a[k + j] /\ k + j <= Len(v) + 1
      <4> HIDE DEF j
      <4>. QED  BY <3>1, <3>2, <2>4
    <3>. QED  BY <3>1, <3>2, <3>3, <2>2, <2>3
  <2>6. ASSUME v[k].do = "authed"
        PROVE  /\ v[k].arg \in Nat /\ k + v[k].arg <= Len(v) + 1
               /\ Rescues(v[k], c[k], c[k + v[k].arg])
    <3>1. /\ try[k].arg \in Nat /\ k + try[k].arg <= n + 1
          /\ Rescues(try[k], a[k], a[k + try[k].arg])
      BY <2>1, <2>2, <2>6 DEF Fits, n
    <3>2. 0 < k + try[k].arg
      BY <3>1
    <3>3. c[k + try[k].arg] = a[k + try[k].arg] /\ k + try[k].arg <= Len(v) + 1
      BY <3>1, <3>2, <2>4
    <3>4. Rescues(v[k], a[k], a[k + try[k].arg])
      BY <3>1, <2>2, <1>13
    <3>. QED  BY <3>1, <3>3, <3>4, <2>2, <2>3
  <2>7. ASSUME v[k].or # 0
        PROVE  /\ k + v[k].or <= Len(v) + 1
               /\ v[k].do \in Throwing => Rescues(v[k], c[k], c[k + v[k].or])
    <3>1. CASE try[k].or = 0
      <4>1. k + v[k].or = n + 2
        BY <2>2, <3>1, <1>3
      <4>2. v[k].do \in Throwing => Rescues(try[k], a[k], C)
        BY <2>1, <2>2, <3>1 DEF Fits
      <4>3. v[k].do \in Throwing => Rescues(v[k], a[k], c[n + 2])
        BY <4>2, <2>2, <1>12, <1>13
      <4>. QED  BY <4>1, <4>3, <2>3, <1>7, <1>3
    <3>2. CASE try[k].or # 0
      <4>1. /\ k + v[k].or <= n + 1 /\ v[k].or = try[k].or /\ v[k].or \in Nat
            /\ v[k].do \in Throwing => Rescues(try[k], a[k], a[k + v[k].or])
        BY <2>1, <2>2, <3>2 DEF Fits, n
      <4>2. 0 < k + v[k].or
        BY <4>1, <2>2
      <4>3. c[k + v[k].or] = a[k + v[k].or] /\ k + v[k].or <= Len(v) + 1
        BY <4>1, <4>2, <2>4
      <4>4. v[k].do \in Throwing => Rescues(v[k], a[k], a[k + v[k].or])
        BY <4>1, <2>2, <1>13
      <4>. QED  BY <4>3, <4>4, <2>3
    <3>. QED  BY <3>1, <3>2
  <2>8. v[k].or # 0
    BY <2>2, <1>3
  <2>9. v[k].do # "skip" => /\ \A f \in Needed(v[k].do) : <<f, v[k].id>> \in c[k]
                            /\ Leads(v[k], c[k], c[k + 1])
    BY <2>1, <2>2, <2>3, <1>13 DEF Fits
  <2>10. v[k].do = "result" => v[k].id = o
    BY <2>1, <2>2 DEF Fits
  <2>11. v[k].do \in Paired => k < Len(v) /\ v[k + 1].do = Second(v[k].do) /\ v[k + 1].id = v[k].id
    <3>1. v[k].do \in Paired => k < n /\ try[k + 1].do = Second(v[k].do) /\ try[k + 1].id = v[k].id
      BY <2>1, <2>2 DEF Fits, n
    <3>2. k < n => v[k + 1].do = try[k + 1].do /\ v[k + 1].id = try[k + 1].id
      BY <1>3, <1>8
    <3>. QED  BY <3>1, <3>2, <1>3, <1>7
  <2>. QED  BY <2>5, <2>6, <2>7, <2>8, <2>9, <2>10, <2>11 DEF Fits
<1>15. Fits(v, c, n + 1, o, D)
  <2>1. v[n + 1].do = "skip" /\ v[n + 1].arg = m /\ v[n + 1].or = 0 /\ "skip" \notin Throwing \cup Paired
    BY <1>5, <1>7 DEF Throwing, Paired
  <2>2. n + 1 + m + 1 = n + m + 2 /\ n + m + 2 = Len(v) + 1
    BY <1>3, <1>7
  <2>3. c[n + m + 2] \subseteq c[n + 1]
    BY <1>3, <1>9, <1>11
  <2>. QED  BY <2>1, <2>2, <2>3, <1>3 DEF Fits
<1>16. ASSUME NEW k \in 1..m PROVE Fits(v, c, n + 1 + k, o, D)
  <2> DEFINE d == n + 1
  <2>1. Fits(rescue, b, k, o, D)
    BY <1>2 DEF Annotation, m
  <2>2. v[d + k] = rescue[k] /\ c[d + k] = b[k] /\ (k < m => v[d + k + 1] = rescue[k + 1]) /\ rescue[k] \in Steps
    <3>1. k < m => k + 1 \in 1..m /\ d + k + 1 = n + 1 + (k + 1)
      BY <1>3
    <3>2. v[d + k] = rescue[k] /\ c[d + k] = b[k]
      BY <1>7, <1>11
    <3>3. k < m => v[d + k + 1] = rescue[k + 1]
      BY <3>1, <1>7
    <3>4. rescue[k] \in Steps
      BY <1>3 DEF m
    <3>. QED  BY <3>2, <3>3, <3>4
  <2>3. \A j \in Nat : 0 < k + j /\ k + j <= m + 1 => c[d + k + j] \subseteq b[k + j] /\ d + k + j <= Len(v) + 1
    <3>1. TAKE j \in Nat
    <3>2. 0 < k + j /\ k + j <= m + 1 => k + j \in 1..(m + 1) /\ d + k + j = n + 1 + (k + j)
      BY <1>3
    <3>. QED  BY <3>2, <1>3, <1>7, <1>11
  <2>4. c[d + k + 1] \subseteq b[k + 1]
    BY <2>3, <1>3
  <2>5. d + k <= Len(v) /\ (k < m => d + k < Len(v)) /\ d \in Nat
    BY <1>3, <1>7
  <2> HIDE DEF d
  <2>6. ASSUME v[d + k].do = "skip"
        PROVE  /\ v[d + k].arg \in Nat /\ c[d + k + v[d + k].arg + 1] \subseteq c[d + k]
               /\ d + k + v[d + k].arg + 1 <= Len(v) + 1
    <3> DEFINE j == rescue[k].arg + 1
    <3>1. rescue[k].arg \in Nat /\ k + j <= m + 1 /\ b[k + j] \subseteq b[k]
      BY <2>1, <2>2, <2>6 DEF Fits, m
    <3>2. j \in Nat /\ 0 < k + j /\ d + k + j = d + k + rescue[k].arg + 1
      <4>1. k \in Nat
        OBVIOUS
      <4>2. \A r \in Nat : /\ r + 1 \in Nat /\ 0 < k + (r + 1)
                           /\ d + k + (r + 1) = d + k + r + 1
        BY <4>1, <2>5
      <4>. QED  BY <3>1, <4>2
    <3>3. c[d + k + j] \subseteq b[k + j] /\ d + k + j <= Len(v) + 1
      <4> HIDE DEF j
      <4>. QED  BY <3>1, <3>2, <2>3
    <3>. QED  BY <3>1, <3>2, <3>3, <2>2
  <2>7. ASSUME v[d + k].do = "authed"
        PROVE  /\ v[d + k].arg \in Nat /\ d + k + v[d + k].arg <= Len(v) + 1
               /\ Rescues(v[d + k], c[d + k], c[d + k + v[d + k].arg])
    <3>1. /\ rescue[k].arg \in Nat /\ k + rescue[k].arg <= m + 1
          /\ Rescues(rescue[k], b[k], b[k + rescue[k].arg])
      BY <2>1, <2>2, <2>7 DEF Fits, m
    <3>2. 0 < k + rescue[k].arg
      BY <3>1
    <3>3. c[d + k + rescue[k].arg] \subseteq b[k + rescue[k].arg] /\ d + k + rescue[k].arg <= Len(v) + 1
      BY <3>1, <3>2, <2>3
    <3>4. Rescues(rescue[k], b[k], c[d + k + rescue[k].arg])
      BY <3>1, <3>3 DEF Rescues
    <3>. QED  BY <3>1, <3>3, <3>4, <2>2
  <2>8. ASSUME v[d + k].or # 0
        PROVE  /\ d + k + v[d + k].or <= Len(v) + 1
               /\ v[d + k].do \in Throwing => Rescues(v[d + k], c[d + k], c[d + k + v[d + k].or])
    <3>1. /\ k + rescue[k].or <= m + 1 /\ rescue[k].or \in Nat
          /\ rescue[k].do \in Throwing => Rescues(rescue[k], b[k], b[k + rescue[k].or])
      BY <2>1, <2>2, <2>8 DEF Fits, Steps, m
    <3>2. 0 < k + rescue[k].or
      BY <3>1
    <3>3. c[d + k + rescue[k].or] \subseteq b[k + rescue[k].or] /\ d + k + rescue[k].or <= Len(v) + 1
      BY <3>1, <3>2, <2>3
    <3>4. rescue[k].do \in Throwing => Rescues(rescue[k], b[k], c[d + k + rescue[k].or])
      BY <3>1, <3>3 DEF Rescues
    <3>. QED  BY <3>1, <3>3, <3>4, <2>2
  <2>9. v[d + k].do # "skip" => /\ \A f \in Needed(v[d + k].do) : <<f, v[d + k].id>> \in c[d + k]
                                /\ Leads(v[d + k], c[d + k], c[d + k + 1])
    BY <2>1, <2>2, <2>4, <1>13 DEF Fits
  <2>10. /\ v[d + k].or = 0 /\ v[d + k].do \in Throwing => Rescues(v[d + k], c[d + k], D)
         /\ v[d + k].do = "result" => v[d + k].id = o
    BY <2>1, <2>2 DEF Fits
  <2>11. v[d + k].do \in Paired =>
           d + k < Len(v) /\ v[d + k + 1].do = Second(v[d + k].do) /\ v[d + k + 1].id = v[d + k].id
    BY <2>1, <2>2, <2>5 DEF Fits, m
  <2>12. Fits(v, c, d + k, o, D)
    BY <2>6, <2>7, <2>8, <2>9, <2>10, <2>11 DEF Fits
  <2>. QED  BY <2>12 DEF d
<1>17. ASSUME NEW k \in 1..Len(v) PROVE Fits(v, c, k, o, D)
  <2>1. CASE k <= n
    BY <2>1, <1>3, <1>14
  <2>2. CASE k = n + 1
    BY <2>2, <1>15
  <2>3. CASE k > n + 1
    <3>1. k - (n + 1) \in 1..m /\ n + 1 + (k - (n + 1)) = k
      BY <2>3, <1>3, <1>7
    <3>. QED  BY <3>1, <1>16
  <2>. QED  BY <2>1, <2>2, <2>3, <1>3
<1>18. Annotation(v, c, o, A, B, D)
  <2>1. Len(v) + 1 = n + m + 2 /\ c[1] = a[1]
    BY <1>3, <1>7, <1>11
  <2>. QED  BY <2>1, <1>9, <1>10, <1>11, <1>17 DEF Annotation
<1>. QED  BY <1>7, <1>18 DEF Sound, v
(***************************************************************************)
(* The scripts of the tools                                                *)
(***************************************************************************)

Found(i) == {<<"found", i>>}
Inside(i) == {<<"found", i>>, <<"inside", i>>}
Whole(o) == Sound(o, {}, {}, {})

\* Steps that need no more than the session's page, and leave what was found alone.
Plain ==
  Operations \ ({"skip", "authed", "result", "drop", "send", "answer", "clear"} \cup Paired \cup Renaming)
NeedsPage == {"close", "evaluate", "api", "form"}

LEMMA PlainNeeds ==
  ASSUME NEW op \in Plain
  PROVE  /\ \A f \in Needed(op) : f = "found" /\ op \in NeedsPage
         /\ op \notin Paired \cup Renaming \cup {"skip", "authed", "result"} /\ op \in Operations
BY DEF Plain, Operations, Needed, NeedsPage, Paired, Renaming

LEMMA PlainIsSound ==
  ASSUME NEW o, NEW F \in SUBSET ({"found"} \X Ids), NEW C \in SUBSET F, NEW t \in Seq(Steps),
         \A k \in 1..Len(t) : /\ t[k].do \in Plain /\ t[k].or = 0
                              /\ t[k].do \in NeedsPage => <<"found", t[k].id>> \in F
  PROVE  t \in Sound(o, F, F, C)
<1> DEFINE a == [k \in 1..(Len(t) + 1) |-> F]
<1>1. F \in SUBSET Facts
  BY DEF Facts, Names
<1>2. a \in [1..(Len(t) + 1) -> SUBSET Facts] /\ a[1] = F /\ a[Len(t) + 1] = F
  BY <1>1
<1>3. ASSUME NEW k \in 1..Len(t) PROVE Fits(t, a, k, o, C)
  <2>1. a[k] = F /\ a[k + 1] = F
    OBVIOUS
  <2>2. /\ t[k].do \in Plain /\ t[k].or = 0 /\ \A f \in Needed(t[k].do) : <<f, t[k].id>> \in F
        /\ t[k].do \notin Paired \cup Renaming \cup {"skip", "authed", "result"}
    BY PlainNeeds
  <2>3. ASSUME NEW x, x.do \notin Renaming PROVE Leads(x, F, F) /\ Rescues(x, F, C)
    BY <2>3 DEF Leads, Rescues
  <2> HIDE DEF a
  <2>. QED  BY <2>1, <2>2, <2>3 DEF Fits
<1>4. Annotation(t, a, o, F, F, C)
  BY <1>2, <1>3 DEF Annotation
<1>. QED  BY <1>4 DEF Sound

LEMMA PlainStep ==
  ASSUME NEW o, NEW F \in SUBSET ({"found"} \X Ids), NEW C \in SUBSET F,
         NEW op \in Plain, NEW i \in Ids, NEW par \in Args, op = "click" => par \in Buttons,
         op \in NeedsPage => <<"found", i>> \in F
  PROVE  <<Do(op, i, par)>> \in Sound(o, F, F, C)
<1> DEFINE t == <<Do(op, i, par)>>
<1>1. op \in Operations /\ Proper(op, par)
  BY PlainNeeds DEF Proper, Plain, Paired
<1>2. Do(op, i, par) \in Steps /\ Do(op, i, par).do = op /\ Do(op, i, par).id = i /\ Do(op, i, par).or = 0
  BY <1>1, DoIsStep
<1>3. t \in Seq(Steps) /\ Len(t) = 1 /\ t[1] = Do(op, i, par)
  <2> HIDE DEF Do
  <2>. QED  BY <1>2
<1> HIDE DEF t
<1>4. t \in Sound(o, F, F, C)
  BY <1>2, <1>3, PlainIsSound
<1>. QED  BY <1>4 DEF t

LEMMA Both ==
  ASSUME NEW o, NEW t \in Whole(o), NEW u \in Whole(o)
  PROVE  t \o u \in Whole(o)
BY SoundAfterSound DEF Whole

LEMMA Forgets ==
  ASSUME NEW o, NEW B, NEW t \in Sound(o, {}, B, {})
  PROVE  t \in Whole(o)
BY Weaker DEF Whole

\* A part for a session whose page was found, after the part that found it.
LEMMA FindSound ==
  ASSUME NEW o, NEW i \in Ids
  PROVE  Find(i) \in Sound(o, {}, Found(i), {})
<1>1. Leads(Do("find", i, 0), {}, Found(i)) /\ Rescues(Do("find", i, 0), {}, {})
  BY DEF Leads, Rescues, Found, Brought, Do
<1>2. /\ "find" \in Operations /\ 0 \in Args /\ Proper("find", 0)
      /\ "find" \notin Paired \cup {"skip", "authed", "result"}
  BY DEF Operations, Args, Proper, Paired
<1>3. \A f \in Needed("find") : <<f, i>> \in {}
  BY DEF Needed
<1>4. {} \in SUBSET Facts /\ Found(i) \in SUBSET Facts
  BY DEF Found, Facts, Names
<1>. QED  BY <1>1, <1>2, <1>3, <1>4, OneStep DEF Find

LEMMA AfterFind ==
  ASSUME NEW o, NEW i \in Ids, NEW B, NEW u \in Sound(o, Found(i), B, {})
  PROVE  Find(i) \o u \in Sound(o, {}, B, {})
BY FindSound, SoundAfterSound

LEMMA StepForPage ==
  ASSUME NEW o, NEW i \in Ids, NEW op \in Plain, NEW par \in Args, op = "click" => par \in Buttons
  PROVE  /\ <<Do(op, i, par)>> \in Sound(o, Found(i), Found(i), {})
         /\ op \notin NeedsPage => <<Do(op, i, par)>> \in Whole(o)
<1>1. Found(i) \in SUBSET ({"found"} \X Ids) /\ {} \in SUBSET ({"found"} \X Ids) /\ <<"found", i>> \in Found(i)
  BY DEF Found
<1>. QED  BY <1>1, PlainStep DEF Whole

LEMMA Args0 ==
  /\ 0 \in Args /\ \A b \in Buttons : b \in Args
  /\ \A n \in Nat : [players |-> n] \in Args
  /\ \A c \in {[phase |-> "Playing"], [inRoom |-> TRUE], [inLobby |-> TRUE], [connected |-> TRUE]} : c \in Args
BY DEF Args, Criteria

LEMMA BridgeSound ==
  ASSUME NEW o, NEW i \in Ids
  PROVE  /\ WaitForAgentBridge(i) \in Sound(o, Found(i), Found(i), {}) /\ WaitForAgentBridge(i) \in Whole(o)
         /\ Visit(i) \in Sound(o, Found(i), Found(i), {}) /\ Visit(i) \in Whole(o)
<1>1. "bridge" \in Plain /\ "goto" \in Plain /\ "bridge" \notin NeedsPage /\ "goto" \notin NeedsPage
  BY DEF Plain, Operations, NeedsPage, Paired, Renaming
<1>2. /\ WaitForAgentBridge(i) \in Sound(o, Found(i), Found(i), {}) /\ WaitForAgentBridge(i) \in Whole(o)
      /\ <<Do("goto", i, 0)>> \in Sound(o, Found(i), Found(i), {}) /\ <<Do("goto", i, 0)>> \in Whole(o)
  BY <1>1, Args0, StepForPage DEF WaitForAgentBridge
<1>. QED  BY <1>2, Both, SoundAfterSound DEF Visit

LEMMA PollSound ==
  ASSUME NEW o, NEW i \in Ids, NEW criteria \in Args
  PROVE  /\ PollAgentBridge(i, criteria) \in Sound(o, Found(i), Found(i), {})
         /\ PollAgentBridge(i, criteria) \in Whole(o)
<1>1. "until" \in Plain /\ "until" \notin NeedsPage /\ "until" # "click"
  BY DEF Plain, Operations, NeedsPage, Paired, Renaming
<1>. QED  BY <1>1, StepForPage DEF PollAgentBridge

LEMMA CreateSound ==
  ASSUME NEW o, NEW i \in Ids
  PROVE  CreateSession(i) \in Sound(o, {}, Found(i), {})
<1> DEFINE V == {<<"vacant", i>>}
           P == {<<"opened", i>>}
<1>1. {} \in SUBSET Facts /\ V \in SUBSET Facts /\ P \in SUBSET Facts /\ Found(i) \in SUBSET Facts
  BY DEF Found, Facts, Names
<1>2. <<Do("fresh", i, 0)>> \in Sound(o, {}, V, {})
  <2>1. Leads(Do("fresh", i, 0), {}, V) /\ Rescues(Do("fresh", i, 0), {}, {})
    BY DEF Leads, Rescues, Brought, Do
  <2>2. /\ "fresh" \in Operations /\ 0 \in Args /\ Proper("fresh", 0)
        /\ "fresh" \notin Paired \cup {"skip", "authed", "result"}
    BY DEF Operations, Args, Proper, Paired
  <2>3. \A f \in Needed("fresh") : <<f, i>> \in {}
    BY DEF Needed
  <2> HIDE DEF V
  <2>. QED  BY <1>1, <2>1, <2>2, <2>3, OneStep
<1>3. <<Do("open", i, 0), Do("keep", i, 0)>> \in Sound(o, V, Found(i), {})
  <2>1. Leads(Do("open", i, 0), V, P) /\ Leads(Do("keep", i, 0), P, Found(i))
    BY DEF Leads, Brought, Do, Found
  <2>2. /\ "open" \in Paired /\ Second("open") = "keep" /\ Proper("open", 0) /\ 0 \in Args
        /\ "open" \notin Throwing
    BY DEF Paired, Second, Proper, Args, Throwing
  <2>3. (\A f \in Needed("open") : <<f, i>> \in V) /\ (\A f \in Needed("keep") : <<f, i>> \in P)
    BY DEF Needed
  <2> HIDE DEF V, P, Do
  <2>4. <<Do("open", i, 0), Do(Second("open"), i, 0)>> \in Sound(o, V, Found(i), {})
    BY <1>1, <2>1, <2>2, <2>3, TwoSteps
  <2>. QED  BY <2>2, <2>4
<1>4. CreateSession(i) = <<Do("fresh", i, 0)>> \o <<Do("open", i, 0), Do("keep", i, 0)>>
  <2> HIDE DEF Do
  <2>. QED  BY DEF CreateSession
<1> HIDE DEF V, P
<1>. QED  BY <1>2, <1>3, <1>4, SoundAfterSound

LEMMA NothingIsSound ==
  ASSUME NEW o
  PROVE  <<>> \in Whole(o) /\ \A i \in Ids : <<>> \in Sound(o, Inside(i), Inside(i), {})
<1>1. {} \in SUBSET Facts /\ \A i \in Ids : Inside(i) \in SUBSET Facts
  BY DEF Inside, Facts, Names
<1>. QED  BY <1>1, EmptyIsSound DEF Whole

LEMMA DestroySound ==
  ASSUME NEW o, NEW i \in Ids
  PROVE  DestroySession(i) \in Whole(o)
<1> DEFINE H == {<<"shut", i>>}
<1>1. {} \in SUBSET Facts /\ H \in SUBSET Facts /\ Found(i) \in SUBSET Facts
  BY DEF Found, Facts, Names
<1>2. <<Do("close", i, 0)>> \in Sound(o, Found(i), H, {})
  <2>1. Leads(Do("close", i, 0), Found(i), H)
    BY DEF Leads, Brought, Do
  <2>2. /\ "close" \in Operations /\ 0 \in Args /\ Proper("close", 0)
        /\ "close" \notin Paired \cup {"skip", "authed", "result"} \cup Throwing
    BY DEF Operations, Args, Proper, Paired, Throwing
  <2>3. \A f \in Needed("close") : <<f, i>> \in Found(i)
    BY DEF Needed, Found
  <2> HIDE DEF H
  <2>. QED  BY <1>1, <2>1, <2>2, <2>3, OneStep
<1>3. <<Do("drop", i, 0)>> \in Sound(o, H, {}, {})
  <2>1. Leads(Do("drop", i, 0), H, {})
    BY DEF Leads
  <2>2. /\ "drop" \in Operations /\ 0 \in Args /\ Proper("drop", 0)
        /\ "drop" \notin Paired \cup {"skip", "authed", "result"} \cup Throwing
    BY DEF Operations, Args, Proper, Paired, Throwing
  <2>3. \A f \in Needed("drop") : <<f, i>> \in H
    BY DEF Needed
  <2> HIDE DEF H
  <2>. QED  BY <1>1, <2>1, <2>2, <2>3, OneStep
<1> HIDE DEF H
<1>4. <<Do("close", i, 0), Do("drop", i, 0)>> \in Sound(o, Found(i), {}, {})
  <2>1. <<Do("close", i, 0), Do("drop", i, 0)>> = <<Do("close", i, 0)>> \o <<Do("drop", i, 0)>>
    <3> HIDE DEF Do
    <3>. QED  OBVIOUS
  <2>. QED  BY <1>2, <1>3, <2>1, SoundAfterSound
<1>5. Find(i) \o <<Do("close", i, 0), Do("drop", i, 0)>> \in Whole(o)
  BY <1>4, AfterFind DEF Whole
<1>. QED  BY <1>1, <1>5, NothingIsSound, SoundWithRescue DEF DestroySession, Whole

LEMMA AllSound ==
  ASSUME NEW o, NEW ids \in SUBSET Ids, NEW f \in [Ids -> Whole(o)]
  PROVE  FlattenSeq([k \in 1..Cardinality(ids) |-> f[SetToSeq(ids)[k]]]) \in Whole(o)
<1>1. IsFiniteSet(ids)
  BY IdsAndRooms, FS_Subset
<1>2. Cardinality(ids) \in Nat /\ SetToSeq(ids) \in [1..Cardinality(ids) -> ids]
  BY <1>1, OrderOfSet
<1> DEFINE ss == [k \in 1..Cardinality(ids) |-> f[SetToSeq(ids)[k]]]
<1>3. \A k \in 1..Cardinality(ids) : f[SetToSeq(ids)[k]] \in Whole(o)
  <2>1. TAKE k \in 1..Cardinality(ids)
  <2>2. SetToSeq(ids)[k] \in Ids
    BY <1>2
  <2>. QED  BY <2>2
<1>4. ss \in Seq(Whole(o))
  <2>1. ss \in [1..Cardinality(ids) -> Whole(o)]
    BY <1>3
  <2> HIDE DEF ss
  <2>. QED  BY <2>1, <1>2
<1> HIDE DEF ss
<1>5. FlattenSeq(ss) \in Whole(o)
  BY <1>4, NothingIsSound, Both, FlattenStaysIn
<1>. QED  BY <1>5 DEF ss

LEMMA LastTwo ==
  ASSUME NEW T, NEW s \in Seq(T), NEW u \in Seq(T), Len(u) = 2
  PROVE  SubSeq(s \o u, Len(s) + 1, Len(s) + 2) = u
<1>1. PICK m \in (Len(s) + 1)..(Len(s) + Len(u)) : m = Len(s) + 1
  OBVIOUS
<1>2. PICK n \in (Len(s) + 1)..(Len(s) + Len(u)) : n = Len(s) + 2
  OBVIOUS
<1>3. SubSeq(s \o u, m, n) = SubSeq(u, m - Len(s), n - Len(s))
  BY SubSeqOfConcat2
<1>4. m - Len(s) = 1 /\ n - Len(s) = Len(u)
  BY <1>1, <1>2
<1>5. SubSeq(u, 1, Len(u)) = u
  BY SubSeqFull
<1>. QED  BY <1>1, <1>2, <1>3, <1>4, <1>5

LEMMA OneThenTwo ==
  ASSUME NEW T, NEW x \in T, NEW y \in T, NEW z \in T
  PROVE  <<x>> \o <<y, z>> = <<x, y, z>>
<1> DEFINE s == <<x>>
           u == <<y, z>>
           t == <<x, y, z>>
<1>1. s \in Seq(T) /\ u \in Seq(T) /\ Len(s) = 1 /\ Len(u) = 2 /\ s[1] = x /\ u[1] = y /\ u[2] = z
  OBVIOUS
<1>2. t \in Seq(T) /\ Len(t) = 3 /\ t[1] = x /\ t[2] = y /\ t[3] = z
  OBVIOUS
<1> HIDE DEF s, u, t
<1>3. s \o u \in Seq(T) /\ Len(s \o u) = 3 /\ (s \o u)[1] = x /\ (s \o u)[2] = y /\ (s \o u)[3] = z
  <2>1. /\ s \o u \in Seq(T) /\ Len(s \o u) = 3
        /\ \A i \in 1..3 : (s \o u)[i] = IF i <= 1 THEN s[i] ELSE u[i - 1]
    <3>1. Len(s) + Len(u) = 3
      BY <1>1
    <3>2. /\ s \o u \in Seq(T) /\ Len(s \o u) = Len(s) + Len(u)
          /\ \A i \in 1..(Len(s) + Len(u)) :
               (s \o u)[i] = IF i <= Len(s) THEN s[i] ELSE u[i - Len(s)]
      BY <1>1, ConcatProperties, Zenon
    <3>. QED  BY <1>1, <3>1, <3>2, Zenon
  <2>2. 1 \in 1..3 /\ 2 \in 1..3 /\ 3 \in 1..3 /\ 2 - 1 = 1 /\ 3 - 1 = 2 /\ ~ (2 <= 1) /\ ~ (3 <= 1)
    OBVIOUS
  <2>3. (s \o u)[1] = s[1]
    BY <2>1, <2>2
  <2>4. (s \o u)[2] = u[1]
    BY <2>1, <2>2, Zenon
  <2>5. (s \o u)[3] = u[2]
    BY <2>1, <2>2, Zenon
  <2>. QED  BY <1>1, <2>1, <2>3, <2>4, <2>5
<1>4. s \o u = t
  <2> DEFINE w == s \o u
  <2>1. w \in Seq(T) /\ Len(w) = 3 /\ w[1] = x /\ w[2] = y /\ w[3] = z
    BY <1>3
  <2> HIDE DEF w
  <2>2. Len(w) = Len(t) /\ \A i \in 1..Len(w) : w[i] = t[i]
    BY <1>2, <2>1
  <2>3. w = t
    BY <1>2, <2>1, <2>2, SeqEqual
  <2>. QED  BY <2>3 DEF w
<1>. QED  BY <1>4 DEF s, u, t

LEMMA EnsureSound ==
  ASSUME NEW o, NEW i \in Ids
  PROVE  EnsureSessionReady(i) \in Sound(o, {}, Found(i), {}) /\ SessionCreate(i) \in Sound(o, {}, Found(i), {})
<1>1. Find(i) \o Visit(i) \in Sound(o, {}, Found(i), {})
  BY BridgeSound, AfterFind
<1>2. SessionCreate(i) \in Sound(o, {}, Found(i), {})
  BY CreateSound, BridgeSound, SoundAfterSound DEF SessionCreate
<1>3. Found(i) \in SUBSET Facts
  BY DEF Found, Facts, Names
<1>. QED  BY <1>1, <1>2, <1>3, SoundWithRescue DEF EnsureSessionReady

LEMMA AuthSound ==
  ASSUME NEW o, NEW i \in Ids
  PROVE  AuthByApi(i) \in Sound(o, Found(i), Found(i), {})
<1>1. {"api", "goto"} \subseteq Plain /\ "api" # "click" /\ "goto" # "click"
  BY DEF Plain, Operations, Paired, Renaming
<1>2. <<Do("api", i, 0)>> \o <<Do("goto", i, 0)>> \in Sound(o, Found(i), Found(i), {})
  BY <1>1, Args0, StepForPage, SoundAfterSound
<1>3. AuthByApi(i) = <<Do("api", i, 0)>> \o <<Do("goto", i, 0)>>
  <2> HIDE DEF Do
  <2>. QED  BY DEF AuthByApi
<1>. QED  BY <1>2, <1>3

\* Logging in is skipped for a session that has a token.
LEMMA LoginSound ==
  ASSUME NEW o, NEW i \in Ids
  PROVE  <<Do("authed", i, 3)>> \o AuthByApi(i) \in Sound(o, Found(i), Found(i), {})
<1> DEFINE F == Found(i)
           t == <<Do("authed", i, 3), Do("api", i, 0), Do("goto", i, 0)>>
           a == <<F, F, F, F>>
<1>1. F \in SUBSET Facts /\ <<"found", i>> \in F
  BY DEF Found, Facts, Names
<1>2. /\ {"authed", "api", "goto"} \subseteq Operations /\ {0, 3} \subseteq Args
      /\ Proper("authed", 3) /\ Proper("api", 0) /\ Proper("goto", 0)
  BY DEF Operations, Args, Proper
<1>3. Do("authed", i, 3) \in Steps /\ Do("api", i, 0) \in Steps /\ Do("goto", i, 0) \in Steps
  BY <1>2, DoIsStep
<1>4. /\ t \in Seq(Steps) /\ Len(t) = 3
      /\ t[1] = Do("authed", i, 3) /\ t[2] = Do("api", i, 0) /\ t[3] = Do("goto", i, 0)
      /\ <<Do("authed", i, 3)>> \o AuthByApi(i) = t
  <2> DEFINE x == Do("authed", i, 3)
             y == Do("api", i, 0)
             z == Do("goto", i, 0)
  <2>1. x \in Steps /\ y \in Steps /\ z \in Steps /\ t = <<x, y, z>> /\ AuthByApi(i) = <<y, z>>
    BY <1>3 DEF AuthByApi
  <2> HIDE DEF x, y, z, t
  <2>2. t \in Seq(Steps) /\ Len(t) = 3 /\ t[1] = x /\ t[2] = y /\ t[3] = z
    BY <2>1
  <2>3. <<x>> \o <<y, z>> = <<x, y, z>>
    BY <2>1, OneThenTwo
  <2>4. <<x>> \o AuthByApi(i) = t
    BY <2>1, <2>3
  <2>. QED  BY <2>2, <2>4 DEF x, y, z
<1> HIDE DEF t
<1>5. /\ t[1].do = "authed" /\ t[1].or = 0 /\ t[1].arg = 3
      /\ t[2].do = "api" /\ t[2].or = 0 /\ t[2].id = i
      /\ t[3].do = "goto" /\ t[3].or = 0
  <2>1. t[1] = Do("authed", i, 3) /\ t[2] = Do("api", i, 0) /\ t[3] = Do("goto", i, 0)
    BY <1>4
  <2> HIDE DEF F, a
  <2>2. t[1].do = "authed" /\ t[1].or = 0 /\ t[1].arg = 3
    BY <2>1 DEF Do
  <2>3. t[2].do = "api" /\ t[2].or = 0 /\ t[2].id = i
    BY <2>1 DEF Do
  <2>4. t[3].do = "goto" /\ t[3].or = 0
    BY <2>1 DEF Do
  <2>. QED  BY <2>2, <2>3, <2>4
<1> HIDE DEF F
<1>6. a \in [1..4 -> SUBSET Facts] /\ a[1] = F /\ a[2] = F /\ a[3] = F /\ a[4] = F
  BY <1>1
<1> HIDE DEF a
<1>7. \A k \in 1..3 : /\ Leads(t[k], F, F) /\ Rescues(t[k], F, {}) /\ Rescues(t[k], F, F)
                      /\ \A f \in Needed(t[k].do) : <<f, t[k].id>> \in F
                      /\ t[k].do \notin Paired \cup {"skip", "result"}
  <2>1. ASSUME NEW x, x.do \notin Renaming PROVE Leads(x, F, F) /\ Rescues(x, F, F) /\ Rescues(x, F, {})
    BY <2>1 DEF Leads, Rescues, F, Found
  <2>2. \A k \in 1..3 : t[k].do \notin Renaming \cup Paired \cup {"skip", "result"}
    BY <1>5 DEF Renaming, Paired
  <2>3. \A k \in 1..3 : \A f \in Needed(t[k].do) : <<f, t[k].id>> \in F
    BY <1>1, <1>5 DEF Needed
  <2>. QED  BY <2>1, <2>2, <2>3
<1>8. \A k \in 1..3 : Fits(t, a, k, o, {})
  BY <1>4, <1>5, <1>6, <1>7 DEF Fits
<1>9. Annotation(t, a, o, F, F, {})
  BY <1>4, <1>6, <1>8 DEF Annotation
<1>. QED  BY <1>4, <1>9 DEF Sound, F

LEMMA StepsBeforeSteps ==
  ASSUME NEW s \in Seq(Steps), NEW t \in Seq(Steps), NEW u \in Seq(Steps)
  PROVE  (s \o t) \o u = s \o (t \o u)
OBVIOUS

LEMMA AuthenticateSound ==
  ASSUME NEW o, NEW i \in Ids
  PROVE  AuthenticatePlayer(i) \in Whole(o)
<1>1. EnsureSessionReady(i) \in Seq(Steps) /\ AuthByApi(i) \in Seq(Steps) /\ <<Do("authed", i, 3)>> \in Seq(Steps)
  <2>1. "authed" \in Operations /\ 3 \in Args /\ Proper("authed", 3)
    BY DEF Operations, Args, Proper
  <2>2. Do("authed", i, 3) \in Steps
    BY <2>1, DoIsStep
  <2>. QED  BY <2>2, EnsureSound, AuthSound DEF Sound
<1>2. (EnsureSessionReady(i) \o <<Do("authed", i, 3)>>) \o AuthByApi(i)
        = EnsureSessionReady(i) \o (<<Do("authed", i, 3)>> \o AuthByApi(i))
  BY <1>1, StepsBeforeSteps
<1>3. EnsureSessionReady(i) \o (<<Do("authed", i, 3)>> \o AuthByApi(i)) \in Sound(o, {}, Found(i), {})
  BY EnsureSound, LoginSound, SoundAfterSound
<1>4. AuthenticatePlayer(i) = ((EnsureSessionReady(i) \o <<Do("authed", i, 3)>>) \o AuthByApi(i)) \o WaitForAgentBridge(i)
  BY DEF AuthenticatePlayer
<1>5. AuthenticatePlayer(i) \in Sound(o, {}, Found(i), {})
  BY <1>2, <1>3, <1>4, BridgeSound, SoundAfterSound
<1>. QED  BY <1>5, Forgets

\* A hub call that is awaited by a method in the page.
LEMMA InvokeSound ==
  ASSUME NEW o, NEW i \in Ids, NEW what \in Invokes, NEW C \in SUBSET Inside(i)
  PROVE  <<Do("invoke", i, what), Do("answer", i, 0)>> \in Sound(o, Inside(i), Inside(i), C)
<1> DEFINE I == Inside(i)
<1>1. I \in SUBSET Facts /\ <<"found", i>> \in I /\ <<"inside", i>> \in I
  BY DEF Inside, Facts, Names
<1>2. Leads(Do("invoke", i, what), I, I) /\ Leads(Do("answer", i, 0), I, I) /\ Rescues(Do("invoke", i, what), I, C)
  BY DEF Leads, Rescues, Inside, Brought, Renaming, Do
<1>3. /\ "invoke" \in Paired /\ Second("invoke") = "answer" /\ what \in Args /\ Proper("invoke", what)
  BY DEF Paired, Second, Args, Proper
<1>4. (\A f \in Needed("invoke") : <<f, i>> \in I) /\ (\A f \in Needed("answer") : <<f, i>> \in I)
  BY <1>1 DEF Needed
<1> HIDE DEF I
<1>5. <<Do("invoke", i, what), Do(Second("invoke"), i, 0)>> \in Sound(o, I, I, C)
  <2> HIDE DEF Do
  <2>. QED  BY <1>1, <1>2, <1>3, <1>4, TwoSteps
<1>. QED  BY <1>3, <1>5 DEF I

LEMMA EnterSound ==
  ASSUME NEW o, NEW i \in Ids
  PROVE  WaitForAgentBridge(i) \o <<Do("evaluate", i, 0)>> \in Sound(o, Found(i), Inside(i), {})
<1>1. Leads(Do("evaluate", i, 0), Found(i), Inside(i)) /\ Rescues(Do("evaluate", i, 0), Found(i), {})
  BY DEF Leads, Rescues, Inside, Found, Brought, Renaming, Do
<1>2. /\ "evaluate" \in Operations /\ 0 \in Args /\ Proper("evaluate", 0)
      /\ "evaluate" \notin Paired \cup {"skip", "authed", "result"}
  BY DEF Operations, Args, Proper, Paired
<1>3. (\A f \in Needed("evaluate") : <<f, i>> \in Found(i)) /\ Found(i) \in SUBSET Facts /\ Inside(i) \in SUBSET Facts
  BY DEF Needed, Found, Inside, Facts, Names
<1>4. <<Do("evaluate", i, 0)>> \in Sound(o, Found(i), Inside(i), {})
  BY <1>1, <1>2, <1>3, OneStep
<1>. QED  BY <1>4, BridgeSound, SoundAfterSound

LEMMA SendsSound ==
  ASSUME NEW o, NEW i \in Ids, NEW sends \in Seq(Sends)
  PROVE  [k \in DOMAIN sends |-> Do("send", i, sends[k])] \in Sound(o, Inside(i), Inside(i), {})
<1> DEFINE t == [k \in DOMAIN sends |-> Do("send", i, sends[k])]
           n == Len(sends)
           a == [k \in 1..(n + 1) |-> Inside(i)]
<1>1. n \in Nat /\ DOMAIN sends = 1..n
  OBVIOUS
<1>2. \A k \in 1..n : t[k] \in Steps /\ t[k].do = "send" /\ t[k].id = i /\ t[k].or = 0
  <2>1. TAKE k \in 1..n
  <2>2. /\ "send" \in Operations /\ sends[k] \in Args /\ Proper("send", sends[k]) /\ t[k] = Do("send", i, sends[k])
    BY <1>1 DEF Operations, Args, Proper
  <2> HIDE DEF t
  <2>. QED  BY <2>2, DoIsStep
<1>3. t \in Seq(Steps) /\ Len(t) = n
  <2>1. t \in [1..n -> Steps]
    BY <1>1, <1>2
  <2> HIDE DEF t, n
  <2>. QED  BY <2>1, <1>1
<1>4. Inside(i) \in SUBSET Facts /\ <<"found", i>> \in Inside(i) /\ <<"inside", i>> \in Inside(i)
  BY DEF Inside, Facts, Names
<1>5. a \in [1..(n + 1) -> SUBSET Facts] /\ \A k \in 1..(n + 1) : a[k] = Inside(i)
  BY <1>4
<1> HIDE DEF t, a, n
<1>6. \A k \in 1..n : Fits(t, a, k, o, {})
  <2>1. TAKE k \in 1..n
  <2>2. a[k] = Inside(i) /\ a[k + 1] = Inside(i)
    BY <1>1, <1>5
  <2>3. Leads(t[k], Inside(i), Inside(i))
    BY <1>2 DEF Leads, Inside, Brought, Renaming
  <2>4. (\A f \in Needed("send") : <<f, i>> \in Inside(i)) /\ "send" \notin Paired \cup Throwing
    BY <1>4 DEF Needed, Paired, Throwing
  <2>. QED  BY <1>2, <2>2, <2>3, <2>4 DEF Fits
<1>7. Annotation(t, a, o, Inside(i), Inside(i), {})
  BY <1>1, <1>3, <1>5, <1>6 DEF Annotation
<1>. QED  BY <1>3, <1>7 DEF Sound, t

LEMMA InvokesSound ==
  ASSUME NEW o, NEW i \in Ids, NEW awaited \in Seq(Invokes)
  PROVE  FlattenSeq([k \in DOMAIN awaited |-> <<Do("invoke", i, awaited[k]), Do("answer", i, 0)>>])
           \in Sound(o, Inside(i), Inside(i), {})
<1> DEFINE T == Sound(o, Inside(i), Inside(i), {})
           ss == [k \in DOMAIN awaited |-> <<Do("invoke", i, awaited[k]), Do("answer", i, 0)>>]
<1>1. \A k \in DOMAIN awaited : <<Do("invoke", i, awaited[k]), Do("answer", i, 0)>> \in T
  <2>1. {} \in SUBSET Inside(i)
    OBVIOUS
  <2>. QED  BY <2>1, InvokeSound
<1>2. ss \in [1..Len(awaited) -> T] /\ Len(awaited) \in Nat
  <2> HIDE DEF Do, T
  <2>. QED  BY <1>1
<1>3. ss \in Seq(T)
  <2> HIDE DEF ss, T
  <2>. QED  BY <1>2
<1>4. <<>> \in T /\ \A b, c \in T : b \o c \in T
  BY NothingIsSound, SoundAfterSound
<1> HIDE DEF ss, T
<1>5. FlattenSeq(ss) \in T
  BY <1>3, <1>4, FlattenStaysIn
<1>. QED  BY <1>5 DEF ss, T

LEMMA CallSound ==
  ASSUME NEW o, NEW i \in Ids, NEW sends \in Seq(Sends), NEW awaited \in Seq(Invokes)
  PROVE  CallAgentBridge(i, sends, awaited) \in Sound(o, Found(i), Inside(i), {})
BY EnterSound, SendsSound, InvokesSound, SoundAfterSound DEF CallAgentBridge

LEMMA TwoThenTwo ==
  ASSUME NEW T, NEW x \in T, NEW y \in T, NEW z \in T, NEW w \in T
  PROVE  <<x, y>> \o <<z, w>> = <<x, y, z, w>>
<1> DEFINE s == <<x, y>>
           u == <<z, w>>
           t == <<x, y, z, w>>
<1>1. s \in Seq(T) /\ u \in Seq(T) /\ Len(s) = 2 /\ Len(u) = 2 /\ s[1] = x /\ s[2] = y /\ u[1] = z /\ u[2] = w
  OBVIOUS
<1>2. t \in Seq(T) /\ Len(t) = 4 /\ t[1] = x /\ t[2] = y /\ t[3] = z /\ t[4] = w
  OBVIOUS
<1> HIDE DEF s, u, t
<1>3. /\ s \o u \in Seq(T) /\ Len(s \o u) = Len(s) + Len(u)
      /\ \A i \in 1..(Len(s) + Len(u)) : (s \o u)[i] = IF i <= Len(s) THEN s[i] ELSE u[i - Len(s)]
  BY <1>1, ConcatProperties
<1> DEFINE v == s \o u
<1>4. v \in Seq(T) /\ Len(v) = 4 /\ \A i \in 1..4 : v[i] = IF i <= 2 THEN s[i] ELSE u[i - 2]
  <2>1. Len(s) + Len(u) = 4 /\ 1..(Len(s) + Len(u)) = 1..4
    BY <1>1
  <2>. QED  BY <1>1, <1>3, <2>1
<1> HIDE DEF v
<1>5. v[1] = x /\ v[2] = y /\ v[3] = z /\ v[4] = w
  <2>1. /\ {1, 2, 3, 4} \subseteq 1..4 /\ 3 - 2 = 1 /\ 4 - 2 = 2 /\ 1 <= 2 /\ ~ (3 <= 2) /\ ~ (4 <= 2)
    OBVIOUS
  <2>. QED  BY <1>1, <1>4, <2>1
<1>6. Len(v) = Len(t) /\ \A i \in 1..Len(v) : v[i] = t[i]
  BY <1>2, <1>4, <1>5
<1>7. v = t
  BY <1>2, <1>4, <1>6, SeqEqual
<1>. QED  BY <1>7 DEF v, s, u, t

LEMMA ThreeThenOne ==
  ASSUME NEW T, NEW x \in T, NEW y \in T, NEW z \in T, NEW w \in T
  PROVE  <<x, y, z>> \o <<w>> = <<x, y, z, w>>
<1> DEFINE s == <<x, y, z>>
           u == <<w>>
           t == <<x, y, z, w>>
<1>1. s \in Seq(T) /\ u \in Seq(T) /\ Len(s) = 3 /\ Len(u) = 1 /\ s[1] = x /\ s[2] = y /\ s[3] = z /\ u[1] = w
  OBVIOUS
<1>2. t \in Seq(T) /\ Len(t) = 4 /\ t[1] = x /\ t[2] = y /\ t[3] = z /\ t[4] = w
  OBVIOUS
<1> HIDE DEF s, u, t
<1>3. /\ s \o u \in Seq(T) /\ Len(s \o u) = Len(s) + Len(u)
      /\ \A i \in 1..(Len(s) + Len(u)) : (s \o u)[i] = IF i <= Len(s) THEN s[i] ELSE u[i - Len(s)]
  BY <1>1, ConcatProperties
<1> DEFINE v == s \o u
<1>4. v \in Seq(T) /\ Len(v) = 4 /\ \A i \in 1..4 : v[i] = IF i <= 3 THEN s[i] ELSE u[i - 3]
  <2>1. Len(s) + Len(u) = 4 /\ 1..(Len(s) + Len(u)) = 1..4
    BY <1>1
  <2>. QED  BY <1>1, <1>3, <2>1
<1> HIDE DEF v
<1>5. v[1] = x /\ v[2] = y /\ v[3] = z /\ v[4] = w
  <2>1. /\ {1, 2, 3, 4} \subseteq 1..4 /\ 4 - 3 = 1 /\ 2 <= 3 /\ 3 <= 3 /\ ~ (4 <= 3)
    OBVIOUS
  <2>. QED  BY <1>1, <1>4, <2>1
<1>6. Len(v) = Len(t) /\ \A i \in 1..Len(v) : v[i] = t[i]
  BY <1>2, <1>4, <1>5
<1>7. v = t
  BY <1>2, <1>4, <1>6, SeqEqual
<1>. QED  BY <1>7 DEF v, s, u, t

LEMMA OnlyOne ==
  ASSUME NEW x
  PROVE  FlattenSeq(<<x>>) = x
<1> DEFINE ss == <<x>>
           f == CHOOSE g : g = [i \in 1..1 |-> IF i = 1 THEN ss[i] ELSE g[i - 1] \o ss[i]]
           h == [i \in 1..1 |-> x]
<1>1. Len(ss) = 1 /\ ss[1] = x
  OBVIOUS
<1> HIDE DEF ss
<1>2. FlattenSeq(ss) = f[1]
  BY <1>1 DEF FlattenSeq
<1>3. h = [i \in 1..1 |-> IF i = 1 THEN ss[i] ELSE h[i - 1] \o ss[i]]
  BY <1>1
<1>4. f = [i \in 1..1 |-> IF i = 1 THEN ss[i] ELSE f[i - 1] \o ss[i]]
  <2> HIDE DEF h
  <2>. QED  BY <1>3
<1> HIDE DEF f
<1>5. f[1] = ss[1]
  BY <1>4
<1>. QED  BY <1>1, <1>2, <1>5 DEF ss

\* The wizard's step may fail, what is sent before it cannot.
LEMMA ConfigureSound ==
  ASSUME NEW o, NEW i \in Ids
  PROVE  ConfigureDefaults(i) \in Sound(o, Found(i), {}, {})
<1> DEFINE sends == <<"locate", "configure", "distribute">>
           enter == WaitForAgentBridge(i) \o <<Do("evaluate", i, 0)>>
           sent == [k \in DOMAIN sends |-> Do("send", i, sends[k])]
           p == enter \o sent
           q == <<Do("invoke", i, "step"), Do("answer", i, 0)>>
           script == CallAgentBridge(i, sends, <<"step">>)
<1>1. sends \in Seq(Sends) /\ "step" \in Invokes
  BY DEF Sends, Invokes
<1>2. p \in Sound(o, Found(i), Inside(i), {})
  <2> HIDE DEF sends
  <2>. QED  BY <1>1, EnterSound, SendsSound, SoundAfterSound
<1>3. q \in Sound(o, Inside(i), Inside(i), {})
  <2>1. {} \in SUBSET Inside(i)
    OBVIOUS
  <2> HIDE DEF Do
  <2>. QED  BY <1>1, <2>1, InvokeSound
<1>4. script = p \o q
  <2> DEFINE flat == [k \in DOMAIN <<"step">> |-> <<Do("invoke", i, <<"step">>[k]), Do("answer", i, 0)>>]
  <2>1. flat = <<q>>
    <3> HIDE DEF Do
    <3>. QED  OBVIOUS
  <2>2. FlattenSeq(flat) = q
    <3> HIDE DEF q, flat
    <3>. QED  BY <2>1, OnlyOne
  <2>3. script = (enter \o sent) \o FlattenSeq(flat)
    BY DEF CallAgentBridge
  <2>. QED  BY <2>2, <2>3
<1>5. /\ p \in Seq(Steps) /\ q \in Seq(Steps) /\ Len(q) = 2 /\ Len(p) \in Nat /\ Len(p) >= 1
  <2>1. p \in Seq(Steps) /\ q \in Seq(Steps) /\ enter \in Seq(Steps) /\ sent \in Seq(Steps)
    <3>1. enter \in Seq(Steps)
      BY EnterSound DEF Sound
    <3>2. sent \in Seq(Steps)
      <4> HIDE DEF sends
      <4>. QED  BY <1>1, SendsSound DEF Sound
    <3>. QED  BY <1>2, <1>3, <3>1, <3>2 DEF Sound
  <2>2. Len(q) = 2
    <3> HIDE DEF Do
    <3>. QED  OBVIOUS
  <2>3. Len(sent) = 3
    <3> HIDE DEF Do
    <3>. QED  OBVIOUS
  <2> HIDE DEF enter, sent
  <2>4. Len(p) = Len(enter) + Len(sent) /\ Len(enter) \in Nat
    BY <2>1, ConcatProperties
  <2> HIDE DEF p, q
  <2>. QED  BY <2>1, <2>2, <2>3, <2>4
<1>6. ConfigureDefaults(i) = SubSeq(script, 1, Len(script) - 2) \o Else(SubSeq(script, Len(script) - 1, Len(script)), <<>>)
  BY DEF ConfigureDefaults
<1> HIDE DEF p, q, script
<1>7. /\ Len(script) = Len(p) + 2
      /\ SubSeq(script, 1, Len(script) - 2) = p
      /\ SubSeq(script, Len(script) - 1, Len(script)) = q
  <2>1. Len(script) = Len(p) + 2
    BY <1>4, <1>5, ConcatProperties
  <2>2. 1 \in 1..Len(p) /\ Len(p) \in 1..Len(p) /\ Len(p) + 2 - 2 = Len(p)
    BY <1>5
  <2>3. SubSeq(p \o q, 1, Len(p)) = SubSeq(p, 1, Len(p))
    BY <1>5, <2>2, SubSeqOfConcat1
  <2>4. SubSeq(p, 1, Len(p)) = p
    BY <1>5, SubSeqFull
  <2>5. SubSeq(script, 1, Len(script) - 2) = p
    BY <1>4, <2>1, <2>2, <2>3, <2>4
  <2>6. SubSeq(script, Len(p) + 1, Len(p) + 2) = q
    BY <1>4, <1>5, LastTwo
  <2>7. Len(script) - 1 = Len(p) + 1
    BY <1>5, <2>1
  <2>. QED  BY <2>1, <2>5, <2>6, <2>7
<1>8. q \in Sound(o, Inside(i), {}, {})
  BY <1>3, Weaker
<1>9. Else(q, <<>>) \in Sound(o, Inside(i), {}, {})
  <2>1. {} \in SUBSET Facts
    OBVIOUS
  <2>. QED  BY <1>8, <2>1, NothingIsSound, SoundWithRescue DEF Whole
<1>. QED  BY <1>2, <1>6, <1>7, <1>9, SoundAfterSound

\* An attack starts from a store without a result.
LEMMA AttackSound ==
  ASSUME NEW i \in Ids
  PROVE  Attack(i) \in Sound(i, Inside(i), {}, {})
<1> DEFINE I == Inside(i)
           J == I \cup {<<"cleared", i>>}
           K == I \cup {<<"asked", i>>}
<1>1. /\ I \in SUBSET Facts /\ J \in SUBSET Facts /\ K \in SUBSET Facts /\ {} \in SUBSET Facts
      /\ <<"found", i>> \in I /\ <<"inside", i>> \in I
  BY DEF Inside, Facts, Names
<1>2. /\ Leads(Do("clear", i, 0), I, J) /\ Leads(Do("invoke", i, "place"), J, K) /\ Leads(Do("answer", i, 0), K, K)
      /\ Leads(Do("result", i, 0), K, {}) /\ Rescues(Do("invoke", i, "place"), J, {})
  BY DEF Leads, Rescues, Inside, Brought, Renaming, Do
<1>3. \A op \in {"clear", "invoke", "answer"} : \A f \in Needed(op) : f \in {"found", "inside"}
  BY DEF Needed
<1>4. \A f \in Needed("result") : f \in {"found", "inside", "asked"}
  BY DEF Needed
<1>5. <<Do("clear", i, 0)>> \in Sound(i, I, J, {})
  <2>1. /\ "clear" \in Operations /\ 0 \in Args /\ Proper("clear", 0)
        /\ "clear" \notin Paired \cup {"skip", "authed", "result"} \cup Throwing
    BY DEF Operations, Args, Proper, Paired, Throwing
  <2>2. \A f \in Needed("clear") : <<f, i>> \in I
    BY <1>1, <1>3
  <2> HIDE DEF I, J, Do
  <2>. QED  BY <1>1, <1>2, <2>1, <2>2, OneStep
<1>6. <<Do("invoke", i, "place"), Do("answer", i, 0)>> \in Sound(i, J, K, {})
  <2>1. /\ "invoke" \in Paired /\ Second("invoke") = "answer" /\ "place" \in Args /\ Proper("invoke", "place")
    BY DEF Paired, Second, Args, Invokes, Proper
  <2>2. (\A f \in Needed("invoke") : <<f, i>> \in J) /\ (\A f \in Needed("answer") : <<f, i>> \in K)
    BY <1>1, <1>3
  <2> HIDE DEF J, K, Do
  <2>3. <<Do("invoke", i, "place"), Do(Second("invoke"), i, 0)>> \in Sound(i, J, K, {})
    BY <1>1, <1>2, <2>1, <2>2, TwoSteps
  <2>. QED  BY <2>1, <2>3
<1>7. <<Do("result", i, 0)>> \in Sound(i, K, {}, {})
  <2>1. /\ "result" \in Operations /\ 0 \in Args /\ Proper("result", 0)
        /\ "result" \notin Paired \cup {"skip", "authed"} \cup Throwing
    BY DEF Operations, Args, Proper, Paired, Throwing
  <2>2. \A f \in Needed("result") : <<f, i>> \in K
    BY <1>1, <1>4
  <2> HIDE DEF K, Do
  <2>. QED  BY <1>1, <1>2, <2>1, <2>2, OneStep
<1>8. Attack(i) = (<<Do("clear", i, 0)>> \o <<Do("invoke", i, "place"), Do("answer", i, 0)>>) \o <<Do("result", i, 0)>>
  <2> DEFINE x == Do("clear", i, 0)
             y == Do("invoke", i, "place")
             z == Do("answer", i, 0)
             w == Do("result", i, 0)
  <2>1. <<x>> \in Seq(Steps) /\ <<y, z>> \in Seq(Steps) /\ <<w>> \in Seq(Steps)
    <3> HIDE DEF x, y, z, w
    <3>. QED  BY <1>5, <1>6, <1>7 DEF Sound, x, y, z, w
  <2>2. Attack(i) = <<x, y, z, w>>
    BY DEF Attack
  <2> HIDE DEF x, y, z, w
  <2>3. x \in Steps /\ y \in Steps /\ z \in Steps /\ w \in Steps
    <3>1. <<x>>[1] \in Steps /\ <<y, z>>[1] \in Steps /\ <<y, z>>[2] \in Steps /\ <<w>>[1] \in Steps
      <4>1. \A s \in Seq(Steps) : \A k \in 1..Len(s) : s[k] \in Steps
        OBVIOUS
      <4>2. 1 \in 1..Len(<<x>>) /\ 1 \in 1..Len(<<y, z>>) /\ 2 \in 1..Len(<<y, z>>) /\ 1 \in 1..Len(<<w>>)
        OBVIOUS
      <4>. QED  BY <2>1, <4>1, <4>2
    <3>. QED  BY <3>1
  <2>4. <<x>> \o <<y, z>> = <<x, y, z>>
    BY <2>3, OneThenTwo
  <2>5. <<x, y, z>> \o <<w>> = <<x, y, z, w>>
    BY <2>3, ThreeThenOne
  <2>. QED  BY <2>2, <2>4, <2>5 DEF x, y, z, w
<1> HIDE DEF I, J, K
<1>9. (<<Do("clear", i, 0)>> \o <<Do("invoke", i, "place"), Do("answer", i, 0)>>) \o <<Do("result", i, 0)>>
        \in Sound(i, I, {}, {})
  BY <1>5, <1>6, <1>7, SoundAfterSound
<1>. QED  BY <1>8, <1>9 DEF I

LEMMA AttackHexSound ==
  ASSUME NEW i \in Ids
  PROVE  AttackHex(i) \in Sound(i, Found(i), {}, {})
<1>1. CallAgentBridge(i, <<>>, <<"move">>) \in Sound(i, Found(i), Inside(i), {})
  <2>1. <<>> \in Seq(Sends) /\ <<"move">> \in Seq(Invokes)
    BY DEF Invokes
  <2>. QED  BY <2>1, CallSound
<1>2. Else(<<Do("invoke", i, "preview"), Do("answer", i, 0)>>, <<>>) \in Sound(i, Inside(i), Inside(i), {})
  <2>1. "preview" \in Invokes /\ Inside(i) \in SUBSET Inside(i) /\ Inside(i) \in SUBSET Facts
    BY DEF Invokes, Inside, Facts, Names
  <2>2. <<Do("invoke", i, "preview"), Do("answer", i, 0)>> \in Sound(i, Inside(i), Inside(i), Inside(i))
    BY <2>1, InvokeSound
  <2>. QED  BY <2>1, <2>2, NothingIsSound, SoundWithRescue
<1>. QED  BY <1>1, <1>2, AttackSound, SoundAfterSound DEF AttackHex

LEMMA BatchSound ==
  ASSUME NEW i \in Ids
  PROVE  GameplayBatchActions(i) \in Whole(i)
<1> DEFINE M == <<Do("invoke", i, "move"), Do("answer", i, 0)>>
           P == <<Do("invoke", i, "place"), Do("answer", i, 0)>>
<1>1. "move" \in Invokes /\ "place" \in Invokes /\ Inside(i) \in SUBSET Facts
  BY DEF Invokes, Inside, Facts, Names
<1>2. M \in Sound(i, Inside(i), Inside(i), Inside(i)) /\ P \in Sound(i, Inside(i), Inside(i), Inside(i))
  <2>1. Inside(i) \in SUBSET Inside(i)
    OBVIOUS
  <2>. QED  BY <1>1, <2>1, InvokeSound
<1>3. M \in Sound(i, Inside(i), Inside(i), {})
  <2>1. {} \in SUBSET Inside(i)
    OBVIOUS
  <2>. QED  BY <1>1, <2>1, InvokeSound
<1>4. Else(M \o P, <<>>) \in Sound(i, Inside(i), Inside(i), {})
  <2>1. M \o P \in Sound(i, Inside(i), Inside(i), Inside(i))
    <3> HIDE DEF M, P
    <3>. QED  BY <1>2, SoundAfterSound
  <2> HIDE DEF M, P
  <2>. QED  BY <1>1, <2>1, NothingIsSound, SoundWithRescue
<1>5. Else(M \o Attack(i), <<>>) \in Sound(i, Inside(i), {}, {})
  <2> HIDE DEF M
  <2>1. M \o Attack(i) \in Sound(i, Inside(i), {}, {})
    BY <1>3, AttackSound, SoundAfterSound
  <2>2. {} \in SUBSET Facts
    OBVIOUS
  <2>. QED  BY <2>1, <2>2, NothingIsSound, SoundWithRescue DEF Whole
<1>6. <<Do("invoke", i, "move"), Do("answer", i, 0), Do("invoke", i, "place"), Do("answer", i, 0)>> = M \o P
  <2> DEFINE x == Do("invoke", i, "move")
             y == Do("answer", i, 0)
             z == Do("invoke", i, "place")
  <2>1. x \in {x, y, z} /\ y \in {x, y, z} /\ z \in {x, y, z}
    OBVIOUS
  <2> HIDE DEF x, y, z
  <2>2. <<x, y>> \o <<z, y>> = <<x, y, z, y>>
    BY <2>1, TwoThenTwo
  <2>. QED  BY <2>2 DEF x, y, z
<1>7. GameplayBatchActions(i) = (((Find(i) \o WaitForAgentBridge(i)) \o <<Do("evaluate", i, 0)>>) \o Else(M \o P, <<>>))
                                 \o Else(M \o Attack(i), <<>>)
  BY <1>6 DEF GameplayBatchActions
<1>8. (Find(i) \o WaitForAgentBridge(i)) \o <<Do("evaluate", i, 0)>> = Find(i) \o (WaitForAgentBridge(i) \o <<Do("evaluate", i, 0)>>)
  <2>1. Find(i) \in Seq(Steps) /\ WaitForAgentBridge(i) \in Seq(Steps)
    BY FindSound, BridgeSound DEF Sound
  <2>2. <<Do("evaluate", i, 0)>> \in Seq(Steps)
    <3>1. "evaluate" \in Operations /\ 0 \in Args /\ Proper("evaluate", 0)
      BY DEF Operations, Args, Proper
    <3>2. Do("evaluate", i, 0) \in Steps
      BY <3>1, DoIsStep
    <3>. QED  BY <3>2
  <2>. QED  BY <2>1, <2>2, StepsBeforeSteps
<1>9. Find(i) \o (WaitForAgentBridge(i) \o <<Do("evaluate", i, 0)>>) \in Sound(i, {}, Inside(i), {})
  BY EnterSound, AfterFind
<1> HIDE DEF M, P
<1>. QED  BY <1>4, <1>5, <1>7, <1>8, <1>9, SoundAfterSound DEF Whole

LEMMA LooksSound ==
  ASSUME NEW o, NEW i \in Ids
  PROVE  /\ Look(i) \in Whole(o) /\ MapSelectHexNearPlayer(i) \in Whole(o)
         /\ \A sends \in Seq(Sends), awaited \in Seq(Invokes) :
              Find(i) \o CallAgentBridge(i, sends, awaited) \in Whole(o)
         /\ \A what \in Invokes : Find(i) \o CallAgentBridge(i, <<>>, <<what>>) \in Whole(o)
<1>1. \A sends \in Seq(Sends), awaited \in Seq(Invokes) :
        Find(i) \o CallAgentBridge(i, sends, awaited) \in Whole(o)
  BY CallSound, AfterFind, Forgets
<1>2. <<>> \in Seq(Sends) /\ <<>> \in Seq(Invokes) /\ \A what \in Invokes : <<what>> \in Seq(Invokes)
  OBVIOUS
<1>3. Look(i) \in Sound(o, {}, Inside(i), {})
  BY <1>2, CallSound, AfterFind DEF Look
<1>4. CallAgentBridge(i, <<>>, <<>>) \in Sound(o, Inside(i), {}, {})
  <2>1. CallAgentBridge(i, <<>>, <<>>) \in Sound(o, Found(i), Inside(i), {})
    BY <1>2, CallSound
  <2>2. Found(i) \subseteq Inside(i)
    BY DEF Found, Inside
  <2>. QED  BY <2>1, <2>2, Weaker
<1>5. MapSelectHexNearPlayer(i) \in Whole(o)
  BY <1>3, <1>4, SoundAfterSound DEF MapSelectHexNearPlayer, Whole
<1>. QED  BY <1>1, <1>2, <1>3, <1>5, Forgets

LEMMA FindsSound ==
  ASSUME NEW o, NEW i \in Ids
  PROVE  /\ Find(i) \in Whole(o)
         /\ \A u \in Sound(o, Found(i), Found(i), {}) : Find(i) \o u \in Whole(o)
         /\ \A op \in Plain \ {"click"}, par \in Args : Find(i) \o <<Do(op, i, par)>> \in Whole(o)
         /\ \A button \in Buttons : Find(i) \o <<Do("click", i, button)>> \in Whole(o)
<1>1. \A u \in Sound(o, Found(i), Found(i), {}) : Find(i) \o u \in Whole(o)
  BY AfterFind, Forgets
<1>2. Find(i) \in Whole(o)
  BY FindSound, Forgets
<1>3. \A op \in Plain \ {"click"}, par \in Args : <<Do(op, i, par)>> \in Sound(o, Found(i), Found(i), {})
  BY StepForPage
<1>4. \A button \in Buttons : <<Do("click", i, button)>> \in Sound(o, Found(i), Found(i), {})
  <2>1. "click" \in Plain
    BY DEF Plain, Operations, Paired, Renaming
  <2>2. \A button \in Buttons : button \in Args
    BY Args0
  <2>. QED  BY <2>1, <2>2, StepForPage
<1>. QED  BY <1>1, <1>2, <1>3, <1>4

LEMMA PlainOps ==
  /\ {"element", "form", "diagnose", "canStart", "event", "needsAuth", "populate", "recent", "quit", "code", "click"} \subseteq Plain
  /\ {"element", "diagnose", "canStart", "event", "needsAuth", "populate", "recent", "quit", "code", "click"}
       \cap NeedsPage = {}
BY DEF Plain, Operations, Paired, Renaming, NeedsPage

LEMMA RoomToolsSound ==
  ASSUME NEW o, NEW i \in Ids
  PROVE  /\ CreateRoom(i) \in Whole(o) /\ JoinRoom(i) \in Whole(o) /\ StartGame(i) \in Whole(o)
         /\ WaitForPhase(i, "Playing") \in Whole(o) /\ SetAlliance(i) \in Whole(o)
         /\ ConfigureDefaults(i) \in Sound(o, Found(i), {}, {}) /\ EveryoneIsIn \in Whole(o)
         /\ Find(Host) \o EveryoneIsIn \in Sound(o, {}, Found(Host), {})
         /\ \A auto \in BOOLEAN : Find(i) \o AssignPlayers(i, auto) \in Whole(o)
<1>0. /\ {"create", "join", "start"} \subseteq Buttons /\ Host \in Ids
      /\ \A b \in Buttons : b # "code"
  BY IdsAndRooms DEF Buttons
<1>1. CreateRoom(i) \in Whole(o)
  <2>1. <<Do("click", i, "create")>> \in Whole(o) /\ <<Do("code", i, 0)>> \in Whole(o)
    BY <1>0, PlainOps, Args0, StepForPage
  <2>2. <<Do("click", i, "create"), Do("code", i, 0)>> = <<Do("click", i, "create")>> \o <<Do("code", i, 0)>>
    <3> HIDE DEF Do
    <3>. QED  OBVIOUS
  <2>. QED  BY <2>1, <2>2, FindsSound, Both DEF CreateRoom
<1>2. JoinRoom(i) \in Whole(o) /\ StartGame(i) \in Whole(o)
  BY <1>0, FindsSound DEF JoinRoom, StartGame
<1>3. WaitForPhase(i, "Playing") \in Whole(o)
  BY Args0, PollSound, FindsSound DEF WaitForPhase
<1>4. SetAlliance(i) \in Whole(o)
  <2>1. <<"choose">> \in Seq(Sends) /\ <<>> \in Seq(Invokes)
    BY DEF Sends
  <2>. QED  BY <2>1, LooksSound DEF SetAlliance
<1>5. EveryoneIsIn \in Whole(o) /\ EveryoneIsIn \in Sound(o, Found(Host), Found(Host), {})
  <2>1. IsFiniteSet(Guests)
    BY IdsAndRooms, FS_Subset DEF Guests
  <2>2. Cardinality(Guests) + 1 \in Nat
    BY <2>1, FS_CardinalityType
  <2>. QED  BY <1>0, <2>2, Args0, PollSound DEF EveryoneIsIn
<1>6. ASSUME NEW auto \in BOOLEAN PROVE Find(i) \o AssignPlayers(i, auto) \in Whole(o)
  <2>1. <<"configure", "distribute">> \in Seq(Sends) /\ <<"configure">> \in Seq(Sends) /\ <<>> \in Seq(Invokes)
    BY DEF Sends
  <2> DEFINE sends == IF auto THEN <<"configure", "distribute">> ELSE <<"configure">>
  <2>2. AssignPlayers(i, auto) = CallAgentBridge(i, sends, <<>>)
    BY DEF AssignPlayers
  <2> HIDE DEF sends
  <2>3. sends \in Seq(Sends)
    BY <2>1 DEF sends
  <2>. QED  BY <2>1, <2>2, <2>3, LooksSound
<1>7. ConfigureDefaults(i) \in Sound(o, Found(i), {}, {})
  BY ConfigureSound
<1>8. Find(Host) \o EveryoneIsIn \in Sound(o, {}, Found(Host), {})
  BY <1>0, <1>5, AfterFind
<1>. QED  BY <1>1, <1>2, <1>3, <1>4, <1>5, <1>6, <1>7, <1>8

\* A part for every session, or for every guest.
LEMMA ForEachSound ==
  ASSUME NEW o
  PROVE  /\ ForEach(Ids, DestroySession) \in Whole(o) /\ ForEach(Guests, AuthenticatePlayer) \in Whole(o)
         /\ ForEach(Guests, JoinRoom) \in Whole(o) /\ ForEach(Ids, SetAlliance) \in Whole(o)
         /\ ForEach(Ids, Look) \in Whole(o)
         /\ ForEach(Guests, LAMBDA g : WaitForPhase(g, "Playing")) \in Whole(o)
         /\ ForEach(Ids, LAMBDA i : Find(i) \o <<Do("needsAuth", i, 0)>>) \in Whole(o)
         /\ ForEach(Ids, LAMBDA i : Else(Find(i) \o Visit(i), <<>>)) \in Whole(o)
<1>1. ASSUME NEW ids \in SUBSET Ids, NEW f \in [Ids -> Whole(o)]
      PROVE  FlattenSeq([k \in 1..Cardinality(ids) |-> f[SetToSeq(ids)[k]]]) \in Whole(o)
  BY AllSound
<1>2. ASSUME NEW ids \in SUBSET Ids PROVE \A k \in 1..Cardinality(ids) : SetToSeq(ids)[k] \in Ids
  BY IdsAndRooms, FS_Subset, OrderOfSet
<1>3. Guests \in SUBSET Ids /\ Ids \in SUBSET Ids
  BY DEF Guests
<1>4. ForEach(Ids, DestroySession) \in Whole(o)
  <2> DEFINE f == [i \in Ids |-> DestroySession(i)]
  <2>1. f \in [Ids -> Whole(o)]
    BY DestroySound
  <2>2. [k \in 1..Cardinality(Ids) |-> f[SetToSeq(Ids)[k]]] = [k \in 1..Cardinality(Ids) |-> DestroySession(SetToSeq(Ids)[k])]
    BY <1>2, <1>3
  <2> HIDE DEF f
  <2>. QED  BY <1>1, <1>3, <2>1, <2>2 DEF ForEach
<1>5. ForEach(Guests, AuthenticatePlayer) \in Whole(o)
  <2> DEFINE f == [i \in Ids |-> AuthenticatePlayer(i)]
  <2>1. f \in [Ids -> Whole(o)]
    BY AuthenticateSound
  <2>2. [k \in 1..Cardinality(Guests) |-> f[SetToSeq(Guests)[k]]] = [k \in 1..Cardinality(Guests) |-> AuthenticatePlayer(SetToSeq(Guests)[k])]
    BY <1>2, <1>3
  <2> HIDE DEF f
  <2>. QED  BY <1>1, <1>3, <2>1, <2>2 DEF ForEach
<1>6. ForEach(Guests, JoinRoom) \in Whole(o)
  <2> DEFINE f == [i \in Ids |-> JoinRoom(i)]
  <2>1. f \in [Ids -> Whole(o)]
    BY RoomToolsSound
  <2>2. [k \in 1..Cardinality(Guests) |-> f[SetToSeq(Guests)[k]]] = [k \in 1..Cardinality(Guests) |-> JoinRoom(SetToSeq(Guests)[k])]
    BY <1>2, <1>3
  <2> HIDE DEF f
  <2>. QED  BY <1>1, <1>3, <2>1, <2>2 DEF ForEach
<1>7. ForEach(Ids, SetAlliance) \in Whole(o)
  <2> DEFINE f == [i \in Ids |-> SetAlliance(i)]
  <2>1. f \in [Ids -> Whole(o)]
    BY RoomToolsSound
  <2>2. [k \in 1..Cardinality(Ids) |-> f[SetToSeq(Ids)[k]]] = [k \in 1..Cardinality(Ids) |-> SetAlliance(SetToSeq(Ids)[k])]
    BY <1>2, <1>3
  <2> HIDE DEF f
  <2>. QED  BY <1>1, <1>3, <2>1, <2>2 DEF ForEach
<1>8. ForEach(Ids, Look) \in Whole(o)
  <2> DEFINE f == [i \in Ids |-> Look(i)]
  <2>1. f \in [Ids -> Whole(o)]
    BY LooksSound
  <2>2. [k \in 1..Cardinality(Ids) |-> f[SetToSeq(Ids)[k]]] = [k \in 1..Cardinality(Ids) |-> Look(SetToSeq(Ids)[k])]
    BY <1>2, <1>3
  <2> HIDE DEF f
  <2>. QED  BY <1>1, <1>3, <2>1, <2>2 DEF ForEach
<1>9. ForEach(Guests, LAMBDA g : WaitForPhase(g, "Playing")) \in Whole(o)
  <2> DEFINE f == [i \in Ids |-> WaitForPhase(i, "Playing")]
  <2>1. f \in [Ids -> Whole(o)]
    BY RoomToolsSound
  <2>2. [k \in 1..Cardinality(Guests) |-> f[SetToSeq(Guests)[k]]] = [k \in 1..Cardinality(Guests) |-> WaitForPhase(SetToSeq(Guests)[k], "Playing")]
    BY <1>2, <1>3
  <2> HIDE DEF f
  <2>. QED  BY <1>1, <1>3, <2>1, <2>2 DEF ForEach
<1>10. ForEach(Ids, LAMBDA i : Find(i) \o <<Do("needsAuth", i, 0)>>) \in Whole(o)
  <2> DEFINE f == [i \in Ids |-> Find(i) \o <<Do("needsAuth", i, 0)>>]
  <2>1. f \in [Ids -> Whole(o)]
    BY PlainOps, Args0, FindsSound
  <2>2. [k \in 1..Cardinality(Ids) |-> f[SetToSeq(Ids)[k]]] = [k \in 1..Cardinality(Ids) |-> Find(SetToSeq(Ids)[k]) \o <<Do("needsAuth", SetToSeq(Ids)[k], 0)>>]
    BY <1>2, <1>3
  <2> HIDE DEF f
  <2>. QED  BY <1>1, <1>3, <2>1, <2>2 DEF ForEach
<1>11. ForEach(Ids, LAMBDA i : Else(Find(i) \o Visit(i), <<>>)) \in Whole(o)
  <2> DEFINE f == [i \in Ids |-> Else(Find(i) \o Visit(i), <<>>)]
  <2>1. f \in [Ids -> Whole(o)]
    <3>1. ASSUME NEW i \in Ids PROVE Else(Find(i) \o Visit(i), <<>>) \in Whole(o)
      <4>1. Find(i) \o Visit(i) \in Whole(o) /\ {} \in SUBSET Facts
        BY BridgeSound, FindsSound
      <4>. QED  BY <4>1, NothingIsSound, SoundWithRescue DEF Whole
    <3>. QED  BY <3>1
  <2>2. [k \in 1..Cardinality(Ids) |-> f[SetToSeq(Ids)[k]]] = [k \in 1..Cardinality(Ids) |-> Else(Find(SetToSeq(Ids)[k]) \o Visit(SetToSeq(Ids)[k]), <<>>)]
    BY <1>2, <1>3
  <2> HIDE DEF f
  <2>. QED  BY <1>1, <1>3, <2>1, <2>2 DEF ForEach
<1>. QED  BY <1>4, <1>5, <1>6, <1>7, <1>8, <1>9, <1>10, <1>11

LEMMA HostInIds == Host \in Ids
BY IdsAndRooms

LEMMA RescuedSound ==
  ASSUME NEW o, NEW t \in Whole(o)
  PROVE  Else(t, <<>>) \in Whole(o)
<1>1. {} \in SUBSET Facts
  OBVIOUS
<1>. QED  BY <1>1, NothingIsSound, SoundWithRescue DEF Whole

LEMMA ScenariosSound ==
  ASSUME NEW o
  PROVE  /\ \A auto \in BOOLEAN : /\ ConfigureAlliancesAndAssignments(auto) \in Whole(o)
                                  /\ BootstrapScenario(auto) \in Whole(o)
         /\ ScenarioInjectState \in Whole(o) /\ ScenarioPopulateBoard \in Whole(o)
         /\ DestroyAllSessions \in Whole(o)
<1>1. ASSUME NEW auto \in BOOLEAN PROVE ConfigureAlliancesAndAssignments(auto) \in Whole(o)
  <2>1. Find(Host) \o AssignPlayers(Host, auto) \in Whole(o)
    BY RoomToolsSound, HostInIds
  <2>2. (IF auto THEN <<>> ELSE ForEach(Ids, SetAlliance)) \in Whole(o)
    BY ForEachSound, NothingIsSound
  <2> HIDE DEF ForEach
  <2>. QED  BY <2>1, <2>2, Both DEF ConfigureAlliancesAndAssignments
<1>2. ASSUME NEW auto \in BOOLEAN PROVE BootstrapScenario(auto) \in Whole(o)
  <2> DEFINE a == AuthenticatePlayer(Host) \o ForEach(Guests, AuthenticatePlayer)
             b == (a \o CreateRoom(Host)) \o PollAgentBridge(Host, [inRoom |-> TRUE])
             c == b \o ForEach(Guests, JoinRoom)
             d == (c \o Find(Host)) \o EveryoneIsIn
             e == d \o ConfigureDefaults(Host)
             f == e \o ConfigureAlliancesAndAssignments(auto)
             g == (f \o StartGame(Host)) \o WaitForPhase(Host, "Playing")
             h == g \o ForEach(Guests, LAMBDA x : WaitForPhase(x, "Playing"))
  <2>0. BootstrapScenario(auto) = h
    BY DEF BootstrapScenario
  <2>1. a \in Whole(o)
    BY AuthenticateSound, ForEachSound, HostInIds, Both
  <2>2. b \in Whole(o)
    <3>1. CreateRoom(Host) \in Whole(o) /\ PollAgentBridge(Host, [inRoom |-> TRUE]) \in Whole(o)
      BY RoomToolsSound, PollSound, Args0, HostInIds
    <3> HIDE DEF a
    <3>. QED  BY <2>1, <3>1, Both
  <2>3. c \in Whole(o)
    <3> HIDE DEF b
    <3>. QED  BY <2>2, ForEachSound, Both
  <2>4. e \in Whole(o)
    <3>1. Find(Host) \in Seq(Steps) /\ EveryoneIsIn \in Seq(Steps) /\ c \in Seq(Steps) /\ ConfigureDefaults(Host) \in Seq(Steps)
      BY <2>3, FindSound, RoomToolsSound, HostInIds DEF Whole, Sound
    <3> HIDE DEF c
    <3>2. (c \o Find(Host)) \o EveryoneIsIn = c \o (Find(Host) \o EveryoneIsIn)
      BY <3>1, StepsBeforeSteps
    <3>3. c \o (Find(Host) \o EveryoneIsIn) \in Sound(o, {}, Found(Host), {})
      BY <2>3, RoomToolsSound, HostInIds, SoundAfterSound DEF Whole
    <3>. QED  BY <3>2, <3>3, RoomToolsSound, HostInIds, SoundAfterSound DEF Whole
  <2>5. f \in Whole(o)
    <3> HIDE DEF e
    <3>. QED  BY <2>4, <1>1, Both
  <2>6. g \in Whole(o)
    <3>1. StartGame(Host) \in Whole(o) /\ WaitForPhase(Host, "Playing") \in Whole(o)
      BY RoomToolsSound, HostInIds
    <3> HIDE DEF f
    <3>. QED  BY <2>5, <3>1, Both
  <2>7. h \in Whole(o)
    <3>1. ForEach(Guests, LAMBDA x : WaitForPhase(x, "Playing")) \in Whole(o)
      BY ForEachSound
    <3> HIDE DEF g, ForEach
    <3>. QED  BY <2>6, <3>1, Both
  <2>. QED  BY <2>0, <2>7
<1>3. ScenarioInjectState \in Whole(o)
  <2> DEFINE stages == [k \in 1..4 |-> Do(<<"inject", "navigate", "ready", "resume">>[k], Host, 0)]
  <2>1. \A k \in 1..4 : <<"inject", "navigate", "ready", "resume">>[k] \in {"inject", "navigate", "ready", "resume"}
    OBVIOUS
  <2>2. ASSUME NEW op \in {"inject", "navigate", "ready", "resume"}
        PROVE  Do(op, Host, 0) \in Steps /\ Do(op, Host, 0).do = op /\ Do(op, Host, 0).or = 0
               /\ op \in Plain /\ op \notin NeedsPage
    <3>1. op \in Operations /\ 0 \in Args /\ Proper(op, 0) /\ op \in Plain /\ op \notin NeedsPage
      BY DEF Operations, Args, Proper, Plain, Paired, Renaming, NeedsPage
    <3>. QED  BY <3>1, HostInIds, DoIsStep
  <2>3. /\ stages \in Seq(Steps) /\ Len(stages) = 4
        /\ \A k \in 1..4 : stages[k].do \in Plain /\ stages[k].or = 0 /\ stages[k].do \notin NeedsPage
    <3> DEFINE ops == <<"inject", "navigate", "ready", "resume">>
    <3>1. \A k \in 1..4 : stages[k] = Do(ops[k], Host, 0)
      OBVIOUS
    <3>2. stages \in [1..4 -> Steps]
      <4> HIDE DEF Do
      <4>. QED  BY <2>1, <2>2
    <3>3. stages \in Seq(Steps) /\ Len(stages) = 4
      <4> HIDE DEF stages
      <4>. QED  BY <3>2
    <3> HIDE DEF stages
    <3>. QED  BY <2>1, <2>2, <3>1, <3>3
  <2> HIDE DEF stages
  <2>4. stages \in Whole(o)
    <3>1. {} \in SUBSET ({"found"} \X Ids) /\ {} \in SUBSET {}
      OBVIOUS
    <3>. QED  BY <2>3, <3>1, PlainIsSound DEF Whole
  <2>5. ScenarioInjectState = ForEach(Ids, LAMBDA i : Find(i) \o <<Do("needsAuth", i, 0)>>) \o stages
    BY DEF ScenarioInjectState, stages
  <2>. QED  BY <2>4, <2>5, ForEachSound, Both
<1>4. ScenarioPopulateBoard \in Whole(o)
  <2>1. <<Do("needsAuth", Host, 0)>> \in Whole(o) /\ <<Do("populate", Host, 0)>> \in Whole(o)
    BY PlainOps, Args0, StepForPage, HostInIds
  <2>2. <<Do("needsAuth", Host, 0), Do("populate", Host, 0)>> = <<Do("needsAuth", Host, 0)>> \o <<Do("populate", Host, 0)>>
    <3> HIDE DEF Do
    <3>. QED  OBVIOUS
  <2>3. Find(Host) \o <<Do("needsAuth", Host, 0), Do("populate", Host, 0)>> \in Whole(o)
    BY <2>1, <2>2, FindsSound, HostInIds, Both
  <2>4. ForEach(Ids, LAMBDA i : Else(Find(i) \o Visit(i), <<>>)) \in Whole(o)
    BY ForEachSound
  <2> HIDE DEF ForEach
  <2>. QED  BY <2>3, <2>4, Both DEF ScenarioPopulateBoard
<1>5. DestroyAllSessions \in Whole(o)
  <2>1. <<Do("quit", Host, 0)>> \in Whole(o)
    BY PlainOps, Args0, StepForPage, HostInIds
  <2>. QED  BY <2>1, ForEachSound, Both DEF DestroyAllSessions
<1>. QED  BY <1>1, <1>2, <1>3, <1>4, <1>5

LEMMA PlayerToolsSound ==
  ASSUME NEW i \in Ids
  PROVE  /\ RoomReopenLastRoom(i) \in Whole(i) /\ PlayerNavigateToHex(i) \in Whole(i)
         /\ PlayerAttackHex(i) \in Whole(i) /\ RoomConfigureDefaults(i) \in Whole(i)
         /\ RoomCanStart(i) \in Whole(i) /\ RoomSetRules(i) \in Whole(i) /\ RoomSetDynamics(i) \in Whole(i)
         /\ \A c \in {[phase |-> "Playing"], [inRoom |-> TRUE], [inLobby |-> TRUE], [connected |-> TRUE]} :
              Find(i) \o PollAgentBridge(i, c) \in Whole(i)
<1>1. ASSUME NEW c \in {[phase |-> "Playing"], [inRoom |-> TRUE], [inLobby |-> TRUE], [connected |-> TRUE]}
      PROVE  Find(i) \o PollAgentBridge(i, c) \in Whole(i) /\ PollAgentBridge(i, c) \in Whole(i)
  BY Args0, PollSound, FindsSound
<1>2. PollAgentBridge(i, [inRoom |-> TRUE]) \in Whole(i)
  BY <1>1
<1>3. "join" \in Buttons /\ "move" \in Buttons
  BY DEF Buttons
<1>4. RoomReopenLastRoom(i) \in Whole(i)
  <2>1. Find(i) \in Whole(i) /\ WaitForAgentBridge(i) \in Whole(i) /\ <<Do("recent", i, 0)>> \in Whole(i)
        /\ <<Do("click", i, "join")>> \in Whole(i)
    BY <1>3, FindsSound, BridgeSound, PlainOps, Args0, StepForPage
  <2>2. Else(<<Do("click", i, "join")>> \o PollAgentBridge(i, [inRoom |-> TRUE]), <<>>) \in Whole(i)
    BY <2>1, <1>2, Both, RescuedSound
  <2> HIDE DEF Do
  <2>. QED  BY <2>1, <2>2, Both DEF RoomReopenLastRoom
<1>5. PlayerNavigateToHex(i) \in Whole(i)
  <2>1. Look(i) \in Whole(i) /\ <<Do("click", i, "move")>> \in Whole(i)
    BY <1>3, LooksSound, PlainOps, Args0, StepForPage
  <2>2. Else(PollAgentBridge(i, [inRoom |-> TRUE]), <<>>) \in Whole(i)
    BY <1>2, RescuedSound
  <2>. QED  BY <2>1, <2>2, Both DEF PlayerNavigateToHex
<1>6. PlayerAttackHex(i) \in Whole(i)
  BY AttackHexSound, AfterFind DEF PlayerAttackHex, Whole
<1>7. RoomConfigureDefaults(i) \in Whole(i)
  <2>1. ConfigureDefaults(i) \in Sound(i, Found(i), {}, {}) /\ EveryoneIsIn \in Sound(i, Found(i), Found(i), {})
    <3>1. Cardinality(Guests) + 1 \in Nat
      <4>1. IsFiniteSet(Guests)
        BY IdsAndRooms, FS_Subset DEF Guests
      <4>. QED  BY <4>1, FS_CardinalityType
    <3>2. <<Do("until", Host, [players |-> Cardinality(Guests) + 1])>> \in Sound(i, Found(i), Found(i), {})
      <4>1. Found(i) \in SUBSET ({"found"} \X Ids) /\ {} \in SUBSET Found(i)
        BY DEF Found
      <4>2. "until" \in Plain /\ "until" \notin NeedsPage /\ [players |-> Cardinality(Guests) + 1] \in Args
        BY <3>1, Args0 DEF Plain, Operations, Paired, Renaming, NeedsPage
      <4>. QED  BY <4>1, <4>2, HostInIds, PlainStep
    <3>. QED  BY <3>2, RoomToolsSound DEF EveryoneIsIn, PollAgentBridge
  <2>2. Find(i) \o EveryoneIsIn \in Sound(i, {}, Found(i), {})
    BY <2>1, AfterFind
  <2>. QED  BY <2>1, <2>2, SoundAfterSound DEF RoomConfigureDefaults, Whole
<1>8. RoomCanStart(i) \in Whole(i)
  <2>1. Find(i) \in Whole(i) /\ WaitForAgentBridge(i) \in Whole(i) /\ <<Do("canStart", i, 0)>> \in Whole(i)
    BY FindsSound, BridgeSound, PlainOps, Args0, StepForPage
  <2>. QED  BY <2>1, Both DEF RoomCanStart
<1>9. RoomSetRules(i) \in Whole(i) /\ RoomSetDynamics(i) \in Whole(i)
  <2>1. <<"rules", "rules">> \in Seq(Sends) /\ <<"rules">> \in Seq(Sends) /\ <<>> \in Seq(Invokes)
    BY DEF Sends
  <2>. QED  BY <2>1, LooksSound DEF RoomSetRules, RoomSetDynamics
<1>. QED  BY <1>1, <1>4, <1>5, <1>6, <1>7, <1>8, <1>9

\* Every tool looks up what it relies on, and does so anew after what may throw.
LEMMA ToolsAreSound ==
  ASSUME NEW t \in Tools, NEW i \in Ids
  PROVE  Scripts[t][i] \in Whole(i)
<1>1. Scripts[t][i] = Tool(t, i)
  BY DEF Scripts
<1>2. CASE t \in {"session_create", "session_destroy", "session_destroy_all", "session_recover",
                  "session_wait_until_ready", "session_smart_click", "session_smart_click_testid",
                  "session_click", "session_select_option"}
  <2>1. "create" \in Buttons /\ "start" \in Buttons
    BY DEF Buttons
  <2>2. SessionCreate(i) \in Whole(i)
    BY EnsureSound, Forgets
  <2>3. SessionRecover(i) \in Whole(i) /\ SessionWaitUntilReady(i) \in Whole(i)
    BY BridgeSound, FindsSound DEF SessionRecover, SessionWaitUntilReady
  <2>4. SessionSmartClick(i, "create") \in Whole(i) /\ SessionSmartClickTestid(i, "start") \in Whole(i)
    BY <2>1, FindsSound DEF SessionSmartClick, SessionSmartClickTestid
  <2>5. SessionElement(i) \in Whole(i) /\ SessionFormControl(i) \in Whole(i)
    <3>1. "element" \in Plain \ {"click"} /\ 0 \in Args
      BY PlainOps, Args0
    <3>. QED  BY <3>1, FindsSound DEF SessionElement, SessionFormControl
  <2>. QED  BY <1>1, <1>2, <2>2, <2>3, <2>4, <2>5, DestroySound, ScenariosSound DEF Tool
<1>3. CASE t \in {"auth_register", "auth_register_ui", "session_auth_status", "room_create", "room_join",
                  "room_start", "room_wait_until_joinable", "room_configure_defaults", "room_assign_players",
                  "room_can_start", "room_reopen_last_room"}
  <2>1. AuthRegister(i) \in Whole(i)
    BY AuthSound, FindsSound DEF AuthRegister
  <2>2. AuthRegisterUi(i) \in Whole(i) /\ SessionAuthStatus(i) \in Whole(i)
    <3>1. "form" \in Plain \ {"click"} /\ "diagnose" \in Plain \ {"click"} /\ 0 \in Args
      BY PlainOps, Args0
    <3>. QED  BY <3>1, FindsSound DEF AuthRegisterUi, SessionAuthStatus
  <2>3. RoomWaitUntilJoinable(i) \in Whole(i)
    BY PlayerToolsSound DEF RoomWaitUntilJoinable
  <2>. QED  BY <1>1, <1>3, <2>1, <2>2, <2>3, RoomToolsSound, PlayerToolsSound, ScenariosSound DEF Tool
<1>4. CASE t \in {"scenario_create", "scenario_assign", "scenario_inject_state", "scenario_populate_board",
                  "state_wait_for", "state_wait_for_event", "wait_for_connection_state",
                  "state_game_snapshot", "map_select_hex_near_player", "assert_sessions_in_sync"}
  <2>1. StateWaitFor(i, [phase |-> "Playing"]) \in Whole(i) /\ WaitForConnectionState(i) \in Whole(i)
    BY PlayerToolsSound DEF StateWaitFor, WaitForConnectionState
  <2>2. StateWaitForEvent(i) \in Whole(i)
    <3>1. "event" \in Plain \ {"click"} /\ 0 \in Args
      BY PlainOps, Args0
    <3>. QED  BY <3>1, FindsSound DEF StateWaitForEvent
  <2>3. AssertSessionsInSync \in Whole(i)
    BY ForEachSound DEF AssertSessionsInSync
  <2>. QED  BY <1>1, <1>4, <2>1, <2>2, <2>3, LooksSound, ScenariosSound DEF Tool
<1>5. CASE t \in {"room_set_rules", "room_set_dynamics", "player_step_hex", "player_navigate_to_hex",
                  "player_attack_hex", "player_claim_hex", "player_pickup_troops", "player_teleport_to_hex",
                  "gameplay_batch_actions"}
  <2>1. "move" \in Buttons /\ {"place", "pickup", "move"} \subseteq Invokes
    BY DEF Buttons, Invokes
  <2>2. PlayerStepHex(i) \in Whole(i)
    BY <2>1, FindsSound DEF PlayerStepHex
  <2>3. PlayerClaimHex(i) \in Whole(i) /\ PlayerPickupTroops(i) \in Whole(i) /\ PlayerTeleportToHex(i) \in Whole(i)
    BY <2>1, LooksSound DEF PlayerClaimHex, PlayerPickupTroops, PlayerTeleportToHex
  <2>. QED  BY <1>1, <1>5, <2>2, <2>3, PlayerToolsSound, BatchSound DEF Tool
<1>. QED  BY <1>2, <1>3, <1>4, <1>5 DEF Tools
(***************************************************************************)
(* Types                                                                   *)
(***************************************************************************)

Notes == {"", "partial_auth", "mcp_auth_missing", "bridge_unavailable", "ok", "yes", "no"}
Call == [tool : Tools \cup {None}, id : Ids, todo : Seq(Steps), on : [Ids -> 0..MaxPages],
         room : Rooms \cup {None}, inPage : 0..MaxPages, waits : BOOLEAN, left : SUBSET Ids,
         fate : [Ids -> Fate], note : Notes, shot : Nat, fight : Nat, calm : BOOLEAN,
         end : {"running", "done", "error"}]
Request == [what : Buttons \cup Sends \cup Invokes \cup {"rejoin"}, room : Rooms \cup {None},
            slot : Slots \cup {0}, shot : Nat]
Message == [what : {"room"}, room : Room] \cup [what : {"stale"}] \cup [what : {"fight"}, n : Nat]
           \cup [what : {"answer"}, slot : Slots]
Page == [at : Load, user : Ids \cup {None}, token : BOOLEAN, saved : Rooms \cup {None},
         resuming : BOOLEAN, game : Room \cup {None}, seat : Rooms \cup {None}, fight : Nat,
         log : Nat, sent : Seq(Request), mail : Seq(Message)]
Fight == [by : Ids \cup {None}, shot : Nat]

\* A call, with the fights there are.
CallOK(c, n) == /\ c \in Call /\ c.fight <= n
                /\ c.end = "running" => c.todo # <<>>

\* A page, with the rooms and the fights there are.
PageOK(page, rs, n) ==
  /\ page \in Page /\ page.fight <= n
  /\ page.seat # None => rs[page.seat] \in Room
  /\ page.saved # None => rs[page.saved] \in Room
  /\ page.at = "live" => page.user # None
  /\ page.at # "live" => page.sent = <<>>
  /\ page.at = "closed" => page.seat = None /\ page.fight = 0 /\ page.mail = <<>>
  /\ \A k \in DOMAIN page.sent :
       /\ page.sent[k].what \in {"join", "rejoin"} => page.sent[k].room # None
       /\ page.sent[k].what = "rejoin" => rs[page.sent[k].room] \in Room
  /\ \A k \in DOMAIN page.mail :
       /\ page.mail[k].what = "room" => rs[page.mail[k].room.code] \in Room
       /\ page.mail[k].what = "fight" => page.mail[k].n \in 1..n

RoomsOK == rooms \in [Rooms -> Room \cup {None}] /\ \A r \in Rooms : rooms[r] \in Room => rooms[r].code = r

Types ==
  /\ sessions \in [Ids -> 0..MaxPages]
  /\ DOMAIN pages = Pages /\ \A p \in Pages : PageOK(pages[p], rooms, Len(fights))
  /\ RoomsOK
  /\ fights \in Seq(Fight)
  /\ DOMAIN calls = Slots /\ \A s \in Slots : CallOK(calls[s], Len(fights))
  /\ shots \in Nat /\ events \in 0..MaxEvents

\* The script of a call and where it is: what a step may make of a call.
Outcomes(c) ==
  {Ended(c, "done"), Ended(c, "error"), Thrown(c)} \cup {Settled(c, After(c, n)) : n \in Nat}

LEMMA Constants ==
  /\ MaxPages \in Nat /\ MaxEvents \in Nat /\ IsFiniteSet(Ids) /\ Host \in Ids /\ Old \in Rooms
  /\ None \notin Ids /\ None \notin Rooms /\ Slots \subseteq Nat /\ 0 \notin Slots /\ Pages = 1..MaxPages
BY IdsAndRooms, SlotsArePositive, BoundsAreNat DEF Pages

LEMMA NoCallIsCall ==
  /\ NoCall \in Call /\ NoCall.end = "done" /\ NoCall.fight = 0 /\ NoCall.id = Host /\ NoCall.todo = <<>>
  /\ NoCall.inPage = 0 /\ ~ NoCall.waits
BY Constants DEF NoCall, Call, Notes, Fate

LEMMA EndedOK ==
  ASSUME NEW c \in Call, NEW end \in {"done", "error"}
  PROVE  /\ Ended(c, end) \in Call /\ Ended(c, end).end \in {"done", "error"}
         /\ \/ Ended(c, end).fight = 0
            \/ /\ Ended(c, end).fight = c.fight /\ Ended(c, end).id = c.id /\ Ended(c, end).shot = c.shot
<1>1. CASE c.fight = 0 /\ ~ c.calm
  <2>1. Ended(c, end) = [NoCall EXCEPT !.note = c.note]
    BY <1>1 DEF Ended
  <2>2. c.note \in Notes
    BY DEF Call
  <2>3. [NoCall EXCEPT !.note = c.note] \in Call /\ [NoCall EXCEPT !.note = c.note].end = "done"
        /\ [NoCall EXCEPT !.note = c.note].fight = 0
    BY <2>2, NoCallIsCall DEF Call
  <2>. QED  BY <2>1, <2>3
<1>2. CASE ~ (c.fight = 0 /\ ~ c.calm)
  <2>1. Ended(c, end) = [c EXCEPT !.on = NoCall.on, !.todo = <<>>, !.inPage = 0, !.waits = FALSE, !.left = {}, !.end = end]
    BY <1>2 DEF Ended
  <2>2. NoCall.on \in [Ids -> 0..MaxPages] /\ <<>> \in Seq(Steps) /\ 0 \in 0..MaxPages
    BY NoCallIsCall, Constants DEF Call
  <2>. QED  BY <2>1, <2>2 DEF Call
<1>. QED  BY <1>1, <1>2

LEMMA SettledOK ==
  ASSUME NEW c \in Call, c.end = "running", NEW rest \in Seq(Steps)
  PROVE  \/ Settled(c, rest) = Ended(c, "done")
         \/ \E todo \in Seq(Steps) :
              /\ todo # <<>>
              /\ \/ todo = rest
                 \/ rest # <<>> /\ Head(rest).do = "skip" /\ todo = SubSeq(rest, Head(rest).arg + 2, Len(rest))
              /\ rest # <<>> /\ Head(rest).do # "skip" => todo = rest
              /\ Settled(c, rest) = [c EXCEPT !.todo = todo, !.left = Ids]
<1> DEFINE todo == IF rest # <<>> /\ Head(rest).do = "skip" THEN SubSeq(rest, Head(rest).arg + 2, Len(rest)) ELSE rest
<1>1. Settled(c, rest) = IF todo = <<>> THEN Ended(c, "done") ELSE [c EXCEPT !.todo = todo, !.left = Ids]
  BY DEF Settled
<1>2. todo \in Seq(Steps)
  <2>1. CASE rest # <<>> /\ Head(rest).do = "skip"
    <3>1. Head(rest) \in Steps
      BY <2>1
    <3>2. Head(rest).arg \in Nat
      BY <3>1, <2>1 DEF Steps, Proper
    <3>3. SubSeq(rest, Head(rest).arg + 2, Len(rest)) \in Seq(Steps)
      BY <3>2
    <3>. QED  BY <2>1, <3>3
  <2>2. CASE ~ (rest # <<>> /\ Head(rest).do = "skip")
    BY <2>2
  <2>. QED  BY <2>1, <2>2
<1>3. /\ todo = rest \/ (rest # <<>> /\ Head(rest).do = "skip" /\ todo = SubSeq(rest, Head(rest).arg + 2, Len(rest)))
      /\ rest # <<>> /\ Head(rest).do # "skip" => todo = rest
  OBVIOUS
<1> HIDE DEF todo
<1>. QED  BY <1>1, <1>2, <1>3

LEMMA AfterOK ==
  ASSUME NEW c \in Call, NEW n \in Nat
  PROVE  After(c, n) \in Seq(Steps)
<1>1. c.todo \in Seq(Steps)
  BY DEF Call
<1>. QED  BY <1>1 DEF After

LEMMA OutcomesOK ==
  ASSUME NEW c \in Call, c.end = "running", c.todo # <<>>, NEW n \in Nat, c.fight <= n
  PROVE  /\ Moved(c) \in Outcomes(c)
         /\ \A d \in Outcomes(c) : CallOK(d, n)
<1>1. Moved(c) \in Outcomes(c)
  BY DEF Moved, Outcomes
<1>2. \A end \in {"done", "error"} : CallOK(Ended(c, end), n)
  <2>1. TAKE end \in {"done", "error"}
  <2>2. Ended(c, end) \in Call /\ Ended(c, end).end # "running" /\ Ended(c, end).fight \in {0, c.fight}
    BY EndedOK
  <2>. QED  BY <2>2 DEF CallOK
<1>3. ASSUME NEW rest \in Seq(Steps) PROVE CallOK(Settled(c, rest), n)
  <2>1. CASE Settled(c, rest) = Ended(c, "done")
    BY <1>2, <2>1
  <2>2. ASSUME NEW todo \in Seq(Steps), todo # <<>>, Settled(c, rest) = [c EXCEPT !.todo = todo, !.left = Ids]
        PROVE  CallOK(Settled(c, rest), n)
    BY <2>2 DEF CallOK, Call
  <2>. QED  BY <2>1, <2>2, SettledOK
<1>4. CallOK(Thrown(c), n)
  <2>1. Head(c.todo).or \in Nat
    <3>1. c.todo \in Seq(Steps)
      BY DEF Call
    <3>2. Head(c.todo) \in Steps
      BY <3>1
    <3>. QED  BY <3>2 DEF Steps
  <2>. QED  BY <2>1, <1>2, <1>3, AfterOK DEF Thrown
<1>5. \A m \in Nat : CallOK(Settled(c, After(c, m)), n)
  BY <1>3, AfterOK
<1>. QED  BY <1>1, <1>2, <1>4, <1>5 DEF Outcomes

LEMMA NowIsStep ==
  ASSUME Types, NEW s \in Slots, Running(s)
  PROVE  /\ Now(s) \in Steps /\ Now(s).id \in Ids /\ Now(s).or \in Nat /\ calls[s] \in Call
         /\ calls[s].todo # <<>> /\ calls[s].todo \in Seq(Steps) /\ calls[s].end = "running"
         /\ PageOf(s) \in 0..MaxPages /\ calls[s].fight <= Len(fights) /\ Len(fights) \in Nat
         /\ Now(s).do = "click" => Now(s).arg \in Buttons
         /\ Now(s).do = "send" => Now(s).arg \in Sends
         /\ Now(s).do = "invoke" => Now(s).arg \in Invokes
         /\ Now(s).do = "authed" => Now(s).arg \in Nat
<1>1. calls[s] \in Call /\ calls[s].todo # <<>> /\ calls[s].end = "running" /\ calls[s].fight <= Len(fights)
  BY DEF Types, CallOK, Running
<1>2. calls[s].todo \in Seq(Steps) /\ calls[s].on \in [Ids -> 0..MaxPages]
  BY <1>1 DEF Call
<1>3. Now(s) \in Steps
  BY <1>1, <1>2 DEF Now
<1>4. Now(s).id \in Ids /\ Now(s).or \in Nat /\ Proper(Now(s).do, Now(s).arg)
  BY <1>3 DEF Steps
<1>5. Len(fights) \in Nat
  BY DEF Types
<1>. QED  BY <1>1, <1>2, <1>3, <1>4, <1>5 DEF PageOf, Proper

LEMMA BlankOK ==
  ASSUME NEW rs, NEW n \in Nat
  PROVE  PageOK(Blank, rs, n) /\ PageOK([Blank EXCEPT !.at = "blank"], rs, n)
<1>1. <<>> \in Seq(Request) /\ <<>> \in Seq(Message) /\ {"closed", "blank"} \subseteq Load
  BY DEF Load
<1>2. Blank \in Page /\ [Blank EXCEPT !.at = "blank"] \in Page
  BY <1>1 DEF Blank, Page
<1>3. \A page \in {Blank, [Blank EXCEPT !.at = "blank"]} :
        /\ page.at # "live" /\ page.seat = None /\ page.saved = None /\ page.fight = 0
        /\ page.sent = <<>> /\ page.mail = <<>>
  BY DEF Blank
<1>. QED  BY <1>2, <1>3 DEF PageOK

LEMMA EmptiedOK ==
  ASSUME NEW rs, NEW n \in Nat, NEW page, PageOK(page, rs, n), NEW at \in Load \ {"live"}
  PROVE  PageOK(Emptied(page, at), rs, n)
<1>0. <<>> \in Seq(Request) /\ <<>> \in Seq(Message) /\ page \in Page
  BY DEF PageOK
<1>1. Emptied(page, at) \in Page
  BY <1>0 DEF Emptied, Page
<1>2. /\ Emptied(page, at).at = at /\ Emptied(page, at).seat = None /\ Emptied(page, at).saved = page.saved
      /\ Emptied(page, at).fight = 0 /\ Emptied(page, at).sent = <<>> /\ Emptied(page, at).mail = <<>>
  BY DEF PageOK, Emptied, Page
<1>. QED  BY <1>1, <1>2 DEF PageOK

LEMMA PageGrows ==
  ASSUME NEW rs, NEW qs, NEW n \in Nat, NEW m \in Nat, n <= m, NEW page, PageOK(page, rs, n),
         \A r \in Rooms : rs[r] \in Room => qs[r] \in Room
  PROVE  PageOK(page, qs, m)
<1>1. page \in Page /\ page.fight <= n /\ page.fight \in Nat
  BY DEF PageOK, Page
<1>2. page.seat \in Rooms \cup {None} /\ page.saved \in Rooms \cup {None}
  BY <1>1 DEF Page
<1>3. \A k \in DOMAIN page.sent : /\ page.sent[k].room \in Rooms \cup {None}
                                  /\ page.sent[k].what \in {"join", "rejoin"} => page.sent[k].room # None
  <2>1. page.sent \in Seq(Request)
    BY <1>1 DEF Page
  <2>2. \A k \in DOMAIN page.sent : page.sent[k] \in Request
    BY <2>1
  <2>. QED  BY <2>2 DEF PageOK, Request
<1>4. \A k \in DOMAIN page.mail : page.mail[k].what = "room" => page.mail[k].room.code \in Rooms
  <2>1. page.mail \in Seq(Message)
    BY <1>1 DEF Page
  <2>2. \A k \in DOMAIN page.mail : page.mail[k] \in Message
    BY <2>1
  <2>3. \A msg \in Message : msg.what = "room" => msg.room \in Room
    BY DEF Message
  <2>4. \A room \in Room : room.code \in Rooms
    BY DEF Room
  <2>. QED  BY <2>2, <2>3, <2>4
<1>5. \A k \in 1..n : k \in 1..m
  OBVIOUS
<1>. QED  BY <1>1, <1>2, <1>3, <1>4, <1>5 DEF PageOK

LEMMA SentOK ==
  ASSUME NEW rs, NEW n \in Nat, NEW page, PageOK(page, rs, n), NEW ask \in Request,
         ask.what \in {"join", "rejoin"} => ask.room # None,
         ask.what = "rejoin" => rs[ask.room] \in Room
  PROVE  PageOK(Sent(page, ask), rs, n)
<1>1. CASE page.at # "live"
  BY <1>1 DEF Sent
<1>2. CASE page.at = "live"
  <2> DEFINE sent == Append(page.sent, ask)
             new == [page EXCEPT !.sent = sent]
  <2>1. Sent(page, ask) = new
    BY <1>2 DEF Sent
  <2>2. page \in Page /\ page.sent \in Seq(Request)
    BY DEF PageOK, Page
  <2>3. sent \in Seq(Request) /\ \A k \in DOMAIN sent : sent[k] = ask \/ (k \in DOMAIN page.sent /\ sent[k] = page.sent[k])
    BY <2>2
  <2> HIDE DEF sent
  <2>4. /\ new \in Page /\ new.sent = sent /\ new.at = page.at /\ new.mail = page.mail /\ new.fight = page.fight
        /\ new.seat = page.seat /\ new.saved = page.saved /\ new.user = page.user
    BY <2>2, <2>3 DEF Page
  <2> HIDE DEF new
  <2>. QED  BY <2>1, <2>3, <2>4, <1>2 DEF PageOK
<1>. QED  BY <1>1, <1>2

\* What may be asked of the hub.
Whats == Buttons \cup Sends \cup Invokes \cup {"rejoin"}

LEMMA AskOK ==
  ASSUME NEW what \in Whats, NEW room \in Rooms \cup {None}
  PROVE  /\ Ask(what, room) \in Request /\ Ask(what, room).what = what /\ Ask(what, room).room = room
         /\ Ask(what, room).slot = 0 /\ Ask(what, room).shot = 0
<1>1. 0 \in Slots \cup {0} /\ 0 \in Nat
  OBVIOUS
<1>. QED  BY <1>1 DEF Ask, Request, Whats

\* A hub call that a method of the bridge waits for.
Awaited(what, s, shot) == [Ask(what, None) EXCEPT !.slot = s, !.shot = shot]

LEMMA AwaitedOK ==
  ASSUME NEW what \in Whats, NEW s \in Slots, NEW shot \in Nat
  PROVE  /\ Awaited(what, s, shot) \in Request /\ Awaited(what, s, shot).what = what
         /\ Awaited(what, s, shot).slot = s /\ Awaited(what, s, shot).shot = shot
<1> DEFINE a == Ask(what, None)
<1>1. None \in Rooms \cup {None} /\ s \in Slots \cup {0}
  OBVIOUS
<1>2. a \in Request /\ a.what = what
  BY <1>1, AskOK
<1> HIDE DEF a
<1>3. [a EXCEPT !.slot = s, !.shot = shot] \in Request
  BY <1>1, <1>2 DEF Request
<1>4. /\ [a EXCEPT !.slot = s, !.shot = shot].what = what
      /\ [a EXCEPT !.slot = s, !.shot = shot].slot = s
      /\ [a EXCEPT !.slot = s, !.shot = shot].shot = shot
  BY <1>2 DEF Request
<1>5. Awaited(what, s, shot) = [a EXCEPT !.slot = s, !.shot = shot]
  BY DEF Awaited, a
<1>. QED  BY <1>3, <1>4, <1>5

LEMMA WhatsApart ==
  /\ Buttons \subseteq Whats /\ Sends \subseteq Whats /\ Invokes \subseteq Whats /\ "rejoin" \in Whats
  /\ \A what \in Sends \cup Invokes : what \notin {"join", "rejoin", "create"}
  /\ \A what \in Buttons \cup Sends : what \notin {"rejoin", "place"}
BY DEF Buttons, Sends, Invokes, Whats

\* A page without the first of what it has sent, and with what the hub answers.
LEMMA AnsweredOK ==
  ASSUME NEW rs, NEW n \in Nat, NEW page, PageOK(page, rs, n), page.sent # <<>>, NEW msgs \in Seq(Message),
         \A k \in DOMAIN msgs : /\ msgs[k].what = "room" => rs[msgs[k].room.code] \in Room
                                /\ msgs[k].what = "fight" => msgs[k].n \in 1..n
  PROVE  PageOK(Answered(page, msgs), rs, n)
<1> DEFINE sent == Tail(page.sent)
           mail == page.mail \o msgs
           new == [page EXCEPT !.sent = sent, !.mail = mail]
<1>1. page \in Page /\ page.sent \in Seq(Request) /\ page.mail \in Seq(Message) /\ page.at = "live"
  BY DEF PageOK, Page
<1>2. sent \in Seq(Request) /\ \A k \in DOMAIN sent : k + 1 \in DOMAIN page.sent /\ sent[k] = page.sent[k + 1]
  BY <1>1
<1>3. mail \in Seq(Message) /\ \A k \in DOMAIN mail :
        \/ k \in DOMAIN page.mail /\ mail[k] = page.mail[k]
        \/ k - Len(page.mail) \in DOMAIN msgs /\ mail[k] = msgs[k - Len(page.mail)]
  BY <1>1
<1>4. Answered(page, msgs) = new
  BY DEF Answered
<1> HIDE DEF sent, mail
<1>5. /\ new \in Page /\ new.sent = sent /\ new.at = page.at /\ new.mail = mail /\ new.fight = page.fight
      /\ new.seat = page.seat /\ new.saved = page.saved /\ new.user = page.user
  BY <1>1, <1>2, <1>3 DEF Page
<1> HIDE DEF new
<1>6. new.at # "closed" /\ new.at = "live"
  BY <1>1, <1>5
<1>7. /\ new.fight <= n
      /\ new.seat # None => rs[new.seat] \in Room
      /\ new.saved # None => rs[new.saved] \in Room
      /\ new.user # None
  BY <1>1, <1>5 DEF PageOK
<1>8. ASSUME NEW k \in DOMAIN new.sent
      PROVE  /\ new.sent[k].what \in {"join", "rejoin"} => new.sent[k].room # None
             /\ new.sent[k].what = "rejoin" => rs[new.sent[k].room] \in Room
  <2>1. k + 1 \in DOMAIN page.sent /\ new.sent[k] = page.sent[k + 1]
    BY <1>2, <1>5, <1>8
  <2>. QED  BY <2>1 DEF PageOK
<1>9. ASSUME NEW k \in DOMAIN new.mail
      PROVE  /\ new.mail[k].what = "room" => rs[new.mail[k].room.code] \in Room
             /\ new.mail[k].what = "fight" => new.mail[k].n \in 1..n
  <2>1. new.mail[k] = mail[k] /\ k \in DOMAIN mail
    BY <1>5, <1>9
  <2>2. CASE k \in DOMAIN page.mail /\ mail[k] = page.mail[k]
    BY <2>1, <2>2 DEF PageOK
  <2>3. CASE k - Len(page.mail) \in DOMAIN msgs /\ mail[k] = msgs[k - Len(page.mail)]
    BY <2>1, <2>3
  <2>. QED  BY <1>3, <2>1, <2>2, <2>3
<1>10. PageOK(new, rs, n)
  BY <1>5, <1>6, <1>7, <1>8, <1>9 DEF PageOK
<1>. QED  BY <1>4, <1>10

LEMMA AnswerToOK ==
  ASSUME NEW slot \in Slots \cup {0}
  PROVE  /\ AnswerTo(slot) \in Seq(Message)
         /\ \A k \in DOMAIN AnswerTo(slot) : /\ AnswerTo(slot)[k] = [what |-> "answer", slot |-> slot] /\ slot # 0
                                             /\ AnswerTo(slot)[k].what = "answer" /\ AnswerTo(slot)[k].slot = slot
<1>1. CASE slot = 0
  <2>1. AnswerTo(slot) = <<>>
    BY <1>1 DEF AnswerTo
  <2>. QED  BY <2>1
<1>2. CASE slot # 0
  <2> DEFINE m == [what |-> "answer", slot |-> slot]
  <2>1. AnswerTo(slot) = <<m>>
    BY <1>2 DEF AnswerTo
  <2>2. m \in Message /\ m.what = "answer" /\ m.slot = slot
    BY <1>2 DEF Message
  <2> HIDE DEF m
  <2>3. <<m>> \in Seq(Message) /\ \A k \in DOMAIN <<m>> : <<m>>[k] = m
    BY <2>2
  <2>4. \A k \in DOMAIN AnswerTo(slot) : AnswerTo(slot)[k] = m
    BY <2>1, <2>3
  <2>. QED  BY <2>1, <2>2, <2>3, <2>4, <1>2 DEF m
<1>. QED  BY <1>1, <1>2

LEMMA CallsStay ==
  ASSUME Types, NEW s \in Slots, NEW c, CallOK(c, Len(fights)), Goes(s, c)
  PROVE  /\ DOMAIN calls' = Slots /\ calls'[s] = c /\ \A o \in Slots \ {s} : calls'[o] = calls[o]
         /\ \A o \in Slots : CallOK(calls'[o], Len(fights))
BY DEF Types, Goes

LEMMA OnlyCalls ==
  ASSUME Types, NEW s \in Slots, NEW c, CallOK(c, Len(fights)), Goes(s, c),
         UNCHANGED <<sessions, pages, hub, shots>>, events' \in 0..MaxEvents
  PROVE  Types'
<1>1. DOMAIN calls' = Slots /\ \A o \in Slots : CallOK(calls'[o], Len(fights))
  BY CallsStay
<1>. QED  BY <1>1 DEF Types, RoomsOK, hub

\* The types of a running call, changed where a step changes it.
LEMMA Changed ==
  ASSUME Types, NEW s \in Slots, Running(s)
  PROVE  LET c == calls[s] IN
         /\ \A i \in Ids, p \in 0..MaxPages : LET d == [c EXCEPT !.on[i] = p] IN
              d \in Call /\ d.end = "running" /\ d.todo = c.todo /\ d.fight = c.fight
         /\ \A p \in 0..MaxPages : LET d == [c EXCEPT !.inPage = p] IN
              d \in Call /\ d.end = "running" /\ d.todo = c.todo /\ d.fight = c.fight
         /\ \A note \in Notes : LET d == [c EXCEPT !.note = note] IN
              d \in Call /\ d.end = "running" /\ d.todo = c.todo /\ d.fight = c.fight
         /\ \A r \in Rooms \cup {None} : LET d == [c EXCEPT !.room = r] IN
              d \in Call /\ d.end = "running" /\ d.todo = c.todo /\ d.fight = c.fight
         /\ \A calm \in BOOLEAN : LET d == [c EXCEPT !.calm = calm] IN
              d \in Call /\ d.end = "running" /\ d.todo = c.todo /\ d.fight = c.fight
         /\ \A calm \in BOOLEAN, i \in Ids, fate \in Fate : LET d == [c EXCEPT !.fate[i] = fate, !.calm = calm] IN
              d \in Call /\ d.end = "running" /\ d.todo = c.todo /\ d.fight = c.fight
         /\ \A i \in Ids, fate \in Fate : LET d == [c EXCEPT !.fate[i] = fate] IN
              d \in Call /\ d.end = "running" /\ d.todo = c.todo /\ d.fight = c.fight
         /\ \A n \in Nat : LET d == [c EXCEPT !.fight = n] IN
              d \in Call /\ d.end = "running" /\ d.todo = c.todo /\ d.fight = n
         /\ \A shot \in Nat : LET d == [c EXCEPT !.waits = TRUE, !.fight = 0, !.shot = shot] IN
              d \in Call /\ d.end = "running" /\ d.todo = c.todo /\ d.fight = 0
<1>1. calls[s] \in Call /\ calls[s].end = "running"
  BY NowIsStep
<1>. QED  BY <1>1 DEF Call

LEMMA OneDoneOK ==
  ASSUME NEW c \in Call, c.end = "running", c.todo # <<>>, NEW n \in Nat, c.fight <= n, NEW i
  PROVE  CallOK(OneDone(c, i), n)
<1>1. CASE c.left = {i}
  BY <1>1, OutcomesOK DEF OneDone
<1>2. CASE c.left # {i}
  <2>1. OneDone(c, i) = [c EXCEPT !.left = @ \ {i}]
    BY <1>2 DEF OneDone
  <2>. QED  BY <2>1 DEF CallOK, Call
<1>. QED  BY <1>1, <1>2

LEMMA TornOK ==
  ASSUME Types, NEW p
  PROVE  /\ DOMAIN Torn(p) = Slots
         /\ \A s \in Slots : CallOK(Torn(p)[s], Len(fights)) /\ CallOK([Torn(p)[s] EXCEPT !.calm = FALSE], Len(fights))
                             /\ CallOK([calls[s] EXCEPT !.inPage = 0], Len(fights))
                             /\ CallOK([calls[s] EXCEPT !.calm = FALSE], Len(fights))
                             /\ CallOK([calls[s] EXCEPT !.waits = FALSE], Len(fights))
<1>1. ASSUME NEW c, CallOK(c, Len(fights))
      PROVE  CallOK([c EXCEPT !.inPage = 0], Len(fights)) /\ CallOK([c EXCEPT !.calm = FALSE], Len(fights))
             /\ CallOK([c EXCEPT !.waits = FALSE], Len(fights))
  <2>1. 0 \in 0..MaxPages
    BY Constants
  <2>. QED  BY <1>1, <2>1 DEF CallOK, Call
<1>2. \A s \in Slots : CallOK(calls[s], Len(fights))
  BY DEF Types
<1>3. \A s \in Slots : Torn(p)[s] = IF calls[s].inPage = p THEN [calls[s] EXCEPT !.inPage = 0] ELSE calls[s]
  BY DEF Torn
<1>4. \A s \in Slots : CallOK(Torn(p)[s], Len(fights))
  BY <1>1, <1>2, <1>3
<1>. QED  BY <1>1, <1>2, <1>4 DEF Torn

LEMMA OnePage ==
  ASSUME Types, NEW p \in 0..MaxPages, NEW page, p \in Pages => PageOK(page, rooms, Len(fights)),
         pages' = [pages EXCEPT ![p] = page]
  PROVE  DOMAIN pages' = Pages /\ \A q \in Pages : PageOK(pages'[q], rooms, Len(fights))
BY DEF Types

LEMMA BeginningOK ==
  ASSUME NEW c \in Call, c.end = "running", NEW rest \in Seq(Steps), NEW n \in Nat, c.fight <= n
  PROVE  CallOK(Settled(c, rest), n)
<1>1. CASE Settled(c, rest) = Ended(c, "done")
  <2>1. Ended(c, "done") \in Call /\ Ended(c, "done").end # "running" /\ Ended(c, "done").fight \in {0, c.fight}
    BY EndedOK
  <2>. QED  BY <1>1, <2>1 DEF CallOK
<1>2. ASSUME NEW todo \in Seq(Steps), todo # <<>>, Settled(c, rest) = [c EXCEPT !.todo = todo, !.left = Ids]
      PROVE  CallOK(Settled(c, rest), n)
  BY <1>2 DEF CallOK, Call
<1>. QED  BY <1>1, <1>2, SettledOK

\* The steps of a call that change nothing else.
LEMMA CallStepTypes ==
  ASSUME Types, NEW s \in Slots, UNCHANGED <<sessions, pages, hub, shots, events>>, Running(s),
         NEW d \in Call, d.end = "running", d.todo # <<>>, d.fight <= Len(fights), NEW c \in Outcomes(d), Goes(s, c)
  PROVE  Types'
<1>1. CallOK(c, Len(fights))
  BY NowIsStep, OutcomesOK
<1>2. events' \in 0..MaxEvents
  BY DEF Types
<1>. QED  BY <1>1, <1>2, OnlyCalls

LEMMA MovedIsOutcome ==
  ASSUME NEW c
  PROVE  Moved(c) \in Outcomes(c) /\ Thrown(c) \in Outcomes(c) /\ Ended(c, "done") \in Outcomes(c)
         /\ Ended(c, "error") \in Outcomes(c) /\ \A n \in Nat : Settled(c, After(c, n)) \in Outcomes(c)
BY DEF Moved, Outcomes

LEMMA PlainStepTypes ==
  ASSUME Types, NEW s \in Slots, UNCHANGED <<sessions, pages, hub, shots, events>>, Running(s),
         NEW c \in Outcomes(calls[s]), Goes(s, c)
  PROVE  Types'
BY NowIsStep, CallStepTypes

\* The steps of a call that change the call alone.
OwnStep(s) ==
  \/ FindSession(s) \/ CheckName(s) \/ BridgeIsUp(s) \/ SkipLogin(s) \/ RequireLogin(s)
  \/ Diagnose(s) \/ CheckStart(s) \/ SnapshotMatches(s) \/ EventSeen(s) \/ ReadCode(s)
  \/ ReopenRecent(s) \/ UseElement(s) \/ EnterPage(s) \/ AnswerCame(s) \/ ReadResult(s)
  \/ EvaluationTorn(s) \/ PopulateBoard(s) \/ StageThrows(s) \/ BridgeOfAll(s) \/ ResumeSeen(s)
  \/ ResumeFails(s)

LEMMA OwnStepTypes ==
  ASSUME Types, NEW s \in Slots, OwnStep(s)
  PROVE  Types'
<1> DEFINE c == calls[s]
<1>0. UNCHANGED <<sessions, pages, hub, shots, events>> /\ Running(s)
  BY DEF OwnStep, FindSession, CheckName, BridgeIsUp, SkipLogin, RequireLogin, Diagnose, CheckStart, SnapshotMatches,
     EventSeen, ReadCode, ReopenRecent, UseElement, EnterPage, AnswerCame, ReadResult, EvaluationTorn, PopulateBoard,
     StageThrows, BridgeOfAll, ResumeSeen, ResumeFails, Awaits, At
<1>1. /\ c \in Call /\ c.end = "running" /\ c.todo # <<>> /\ c.fight <= Len(fights) /\ Len(fights) \in Nat
      /\ Now(s).id \in Ids /\ PageOf(s) \in 0..MaxPages
  BY <1>0, NowIsStep
<1>2. ASSUME Proceeds(s) \/ Throws(s) PROVE Types'
  BY <1>0, <1>2, MovedIsOutcome, PlainStepTypes DEF Proceeds, Throws
<1>3. ASSUME NEW d \in Call, d.end = "running", d.todo = c.todo, d.fight <= Len(fights),
             Goes(s, Moved(d)) \/ Goes(s, Ended(d, "error")) \/ Goes(s, Ended(d, "done"))
      PROVE  Types'
  BY <1>0, <1>1, <1>3, MovedIsOutcome, CallStepTypes
<1>4. ASSUME NEW d \in Call, d.end = "running", d.todo = c.todo, d.fight <= Len(fights), NEW i, Goes(s, OneDone(d, i))
      PROVE  Types'
  <2>1. CallOK(OneDone(d, i), Len(fights))
    BY <1>1, <1>4, OneDoneOK
  <2>2. events' \in 0..MaxEvents
    BY <1>0 DEF Types
  <2>. QED  BY <1>0, <1>4, <2>1, <2>2, OnlyCalls
<1>5. CASE CheckName(s) \/ BridgeIsUp(s) \/ RequireLogin(s) \/ SnapshotMatches(s) \/ EventSeen(s) \/ UseElement(s)
           \/ AnswerCame(s) \/ PopulateBoard(s) \/ StageThrows(s)
  BY <1>2, <1>5 DEF CheckName, BridgeIsUp, RequireLogin, SnapshotMatches, EventSeen, UseElement, AnswerCame,
     PopulateBoard, StageThrows
<1>6. CASE FindSession(s)
  <2>1. CASE sessions[Now(s).id] = 0
    BY <1>2, <1>6, <2>1 DEF FindSession
  <2>2. CASE sessions[Now(s).id] # 0
    <3> DEFINE d == [c EXCEPT !.on[Now(s).id] = sessions[Now(s).id]]
    <3>1. sessions[Now(s).id] \in 0..MaxPages
      BY <1>1 DEF Types
    <3>2. d \in Call /\ d.end = "running" /\ d.todo = c.todo /\ d.fight = c.fight
      BY <1>0, <1>1, <3>1, Changed
    <3>3. Goes(s, Moved(d))
      BY <1>6, <2>2 DEF FindSession
    <3> HIDE DEF d
    <3>. QED  BY <1>1, <1>3, <3>2, <3>3
  <2>. QED  BY <2>1, <2>2
<1>7. CASE SkipLogin(s)
  <2>1. Now(s).arg \in Nat
    BY <1>0, <1>7, NowIsStep DEF SkipLogin, At
  <2>2. PICK e \in Outcomes(c) : Goes(s, e)
    BY <2>1, <1>7, MovedIsOutcome DEF SkipLogin
  <2>. QED  BY <1>0, <2>2, PlainStepTypes
<1>8. CASE Diagnose(s)
  <2> DEFINE d == [c EXCEPT !.note = Diagnosis(pages[PageOf(s)])]
  <2>1. Diagnosis(pages[PageOf(s)]) \in Notes
    BY DEF Diagnosis, Notes
  <2>2. d \in Call /\ d.end = "running" /\ d.todo = c.todo /\ d.fight = c.fight
    BY <1>0, <2>1, Changed
  <2>3. Goes(s, Moved(d))
    BY <1>8 DEF Diagnose
  <2> HIDE DEF d
  <2>. QED  BY <1>1, <1>3, <2>2, <2>3
<1>9. CASE CheckStart(s)
  <2> DEFINE game == pages[PageOf(s)].game
             note == IF game # None /\ CanStart(game) THEN "yes" ELSE "no"
             d == [c EXCEPT !.note = note]
  <2>1. note \in Notes
    BY DEF Notes
  <2>3. Goes(s, Moved(d))
    BY <1>9 DEF CheckStart
  <2>2. d \in Call /\ d.end = "running" /\ d.todo = c.todo /\ d.fight = c.fight
    <3> HIDE DEF note
    <3>. QED  BY <1>0, <2>1, Changed
  <2> HIDE DEF d
  <2>. QED  BY <1>1, <1>3, <2>2, <2>3
<1>10. CASE ReadCode(s)
  <2> DEFINE game == pages[PageOf(s)].game
             d == [c EXCEPT !.room = game.code]
  <2>1. game.code \in Rooms
    <3>1. PageOf(s) \in Pages
      BY <1>10, <1>1, Constants DEF ReadCode, Ready
    <3>2. game \in Room \cup {None}
      BY <3>1 DEF Types, PageOK, Page
    <3>3. game # None
      BY <1>10 DEF ReadCode
    <3> HIDE DEF game
    <3>. QED  BY <3>2, <3>3 DEF Room
  <2>2. Goes(s, Moved(d))
    BY <1>10 DEF ReadCode
  <2>3. d \in Call /\ d.end = "running" /\ d.todo = c.todo /\ d.fight = c.fight
    <3> HIDE DEF game
    <3>. QED  BY <1>0, <2>1, Changed
  <2> HIDE DEF d
  <2>. QED  BY <1>1, <1>3, <2>2, <2>3
<1>11. CASE ReopenRecent(s)
  <2>1. Goes(s, Ended(c, "done"))
    BY <1>11 DEF ReopenRecent, RecentRoom
  <2>. QED  BY <1>1, <1>3, <2>1
<1>12. CASE EnterPage(s)
  <2> DEFINE d == [c EXCEPT !.inPage = PageOf(s)]
  <2>1. d \in Call /\ d.end = "running" /\ d.todo = c.todo /\ d.fight = c.fight
    BY <1>0, <1>1, Changed
  <2>2. Goes(s, Moved(d))
    BY <1>12 DEF EnterPage
  <2> HIDE DEF d
  <2>. QED  BY <1>1, <1>3, <2>1, <2>2
<1>13. CASE ReadResult(s)
  <2> DEFINE n == pages[c.inPage].fight
             d == [c EXCEPT !.fight = n]
  <2>1. c.inPage \in Pages
    BY <1>1, <1>13, Constants DEF ReadResult, Call
  <2>2. n \in Nat /\ n <= Len(fights)
    BY <2>1 DEF Types, PageOK, Page
  <2>3. Goes(s, Moved(d))
    BY <1>13 DEF ReadResult
  <2> HIDE DEF n
  <2>4. d \in Call /\ d.end = "running" /\ d.todo = c.todo /\ d.fight = n
    BY <1>0, <2>2, Changed
  <2> HIDE DEF d
  <2>. QED  BY <1>3, <2>2, <2>3, <2>4
<1>14. CASE EvaluationTorn(s)
  <2> DEFINE d == [c EXCEPT !.calm = FALSE]
  <2>1. d \in Call /\ d.end = "running" /\ d.todo = c.todo /\ d.fight = c.fight
    BY <1>0, <1>1, Changed
  <2>2. Goes(s, Ended(d, "error"))
    BY <1>14 DEF EvaluationTorn
  <2> HIDE DEF d
  <2>. QED  BY <1>1, <1>3, <2>1, <2>2
<1>15. CASE BridgeOfAll(s)
  <2>1. PICK i \in c.left, intime \in BOOLEAN : Goes(s, OneDone([c EXCEPT !.calm = @ /\ intime], i))
    BY <1>15 DEF BridgeOfAll
  <2> DEFINE calm == c.calm /\ intime
             d == [c EXCEPT !.calm = calm]
  <2>2. d \in Call /\ d.end = "running" /\ d.todo = c.todo /\ d.fight = c.fight
    <3>1. calm \in BOOLEAN
      OBVIOUS
    <3> HIDE DEF calm
    <3>. QED  BY <3>1, <1>0, <1>1, Changed
  <2>3. Goes(s, OneDone(d, i))
    BY <2>1
  <2> HIDE DEF d
  <2>. QED  BY <1>1, <1>4, <2>2, <2>3
<1>16. CASE ResumeSeen(s)
  <2>1. PICK i \in c.left :
          Goes(s, OneDone([c EXCEPT !.fate[i] = IF @ = "" THEN "ready" ELSE "recovered"], i))
    BY <1>16 DEF ResumeSeen
  <2> DEFINE fate == IF c.fate[i] = "" THEN "ready" ELSE "recovered"
             d == [c EXCEPT !.fate[i] = fate]
  <2>2. d \in Call /\ d.end = "running" /\ d.todo = c.todo /\ d.fight = c.fight
    <3>1. fate \in Fate /\ i \in Ids
      BY <1>1 DEF Fate, Call
    <3> HIDE DEF fate
    <3>. QED  BY <3>1, <1>0, <1>1, Changed
  <2>3. Goes(s, OneDone(d, i))
    BY <2>1
  <2> HIDE DEF d
  <2>. QED  BY <1>1, <1>4, <2>2, <2>3
<1>17. CASE ResumeFails(s)
  <2>1. PICK i \in c.left : Goes(s, OneDone([c EXCEPT !.fate[i] = "failed", !.calm = FALSE], i))
    BY <1>17 DEF ResumeFails
  <2> DEFINE d == [c EXCEPT !.fate[i] = "failed", !.calm = FALSE]
  <2>2. d \in Call /\ d.end = "running" /\ d.todo = c.todo /\ d.fight = c.fight
    <3>1. "failed" \in Fate /\ i \in Ids
      BY <1>1 DEF Fate, Call
    <3>. QED  BY <3>1, <1>0, <1>1, Changed
  <2>3. Goes(s, OneDone(d, i))
    BY <2>1
  <2> HIDE DEF d
  <2>. QED  BY <1>1, <1>4, <2>2, <2>3
<1>. QED  BY <1>5, <1>6, <1>7, <1>8, <1>9, <1>10, <1>11, <1>12, <1>13, <1>14, <1>15, <1>16, <1>17 DEF OwnStep

LEMMA SameHub ==
  ASSUME Types, UNCHANGED hub, sessions' \in [Ids -> 0..MaxPages],
         DOMAIN pages' = Pages, \A q \in Pages : PageOK(pages'[q], rooms, Len(fights)),
         DOMAIN calls' = Slots, \A o \in Slots : CallOK(calls'[o], Len(fights)),
         shots' \in Nat, events' \in 0..MaxEvents
  PROVE  Types'
BY DEF Types, RoomsOK, hub

\* A step of a call, with one of its outcomes.
LEMMA StepCalls ==
  ASSUME Types, NEW s \in Slots, Running(s),
         NEW d \in Call, d.end = "running", d.todo = calls[s].todo, d.fight <= Len(fights), NEW c \in Outcomes(d), Goes(s, c)
  PROVE  DOMAIN calls' = Slots /\ \A o \in Slots : CallOK(calls'[o], Len(fights))
<1>1. CallOK(c, Len(fights))
  BY NowIsStep, OutcomesOK
<1>. QED  BY <1>1, CallsStay

LEMMA StepHere ==
  ASSUME Types, NEW s \in Slots, Running(s), Proceeds(s) \/ Throws(s)
  PROVE  DOMAIN calls' = Slots /\ \A o \in Slots : CallOK(calls'[o], Len(fights))
BY NowIsStep, MovedIsOutcome, StepCalls DEF Proceeds, Throws

LEMMA SameTypes ==
  ASSUME Types
  PROVE  /\ sessions \in [Ids -> 0..MaxPages] /\ shots \in Nat /\ events \in 0..MaxEvents
         /\ DOMAIN pages = Pages /\ \A q \in Pages : PageOK(pages[q], rooms, Len(fights))
         /\ DOMAIN calls = Slots /\ \A o \in Slots : CallOK(calls[o], Len(fights))
         /\ Len(fights) \in Nat
BY DEF Types

LEMMA RegistryTypes ==
  ASSUME Types, NEW s \in Slots, NewPage(s) \/ KeepSession(s) \/ DropSession(s)
  PROVE  Types'
<1>1. CASE NewPage(s)
  <2> DEFINE p == CHOOSE p \in Free : \A q \in Free : p <= q
             d == [calls[s] EXCEPT !.on[Now(s).id] = p]
  <2>1. Running(s) /\ Free # {} /\ Free \in SUBSET Nat /\ Free \subseteq Pages
    BY <1>1, Constants DEF NewPage, Awaits, At, Free
  <2>2. p \in Pages
    <3>1. \E q \in Free : \A r \in Free : q <= r
      BY <2>1, LeastNat
    <3>. QED  BY <2>1, <3>1
  <2>3. Goes(s, Moved(d)) /\ pages' = [pages EXCEPT ![p] = [Blank EXCEPT !.at = "blank"]]
        /\ UNCHANGED <<sessions, hub, shots, events>>
    BY <1>1 DEF NewPage
  <2> HIDE DEF p
  <2>4. p \in 0..MaxPages /\ Now(s).id \in Ids /\ calls[s].fight <= Len(fights)
    BY <2>1, <2>2, NowIsStep, Constants
  <2>5. d \in Call /\ d.end = "running" /\ d.todo = calls[s].todo /\ d.fight = calls[s].fight
    BY <2>1, <2>4, Changed
  <2> HIDE DEF d
  <2>6. DOMAIN calls' = Slots /\ \A o \in Slots : CallOK(calls'[o], Len(fights))
    BY <2>1, <2>3, <2>4, <2>5, MovedIsOutcome, StepCalls
  <2>7. DOMAIN pages' = Pages /\ \A q \in Pages : PageOK(pages'[q], rooms, Len(fights))
    BY <2>3, <2>4, BlankOK, OnePage, SameTypes
  <2>. QED  BY <2>3, <2>6, <2>7, SameTypes, SameHub
<1>2. CASE KeepSession(s) \/ DropSession(s)
  <2>1. Running(s) /\ Proceeds(s) /\ UNCHANGED <<pages, hub, shots, events>>
    BY <1>2 DEF KeepSession, DropSession, At
  <2>2. Now(s).id \in Ids /\ PageOf(s) \in 0..MaxPages /\ 0 \in 0..MaxPages
    BY <2>1, NowIsStep, Constants
  <2>3. sessions' \in [Ids -> 0..MaxPages]
    BY <1>2, <2>2, SameTypes DEF KeepSession, DropSession
  <2>. QED  BY <2>1, <2>3, StepHere, SameTypes, SameHub
<1>. QED  BY <1>1, <1>2

\* The steps after which a page is empty.
LEMMA EmptyingTypes ==
  ASSUME Types, NEW s \in Slots, CloseContext(s) \/ CloseBrowser(s) \/ Navigate(s) \/ NavigateAll(s) \/ ResumeAgain(s)
  PROVE  Types'
<1>0. Running(s) /\ UNCHANGED <<sessions, hub, shots, events>>
  BY DEF CloseContext, CloseBrowser, Navigate, NavigateAll, ResumeAgain, Awaits, At
<1>1. /\ calls[s] \in Call /\ calls[s].end = "running" /\ calls[s].todo # <<>> /\ calls[s].fight <= Len(fights)
      /\ PageOf(s) \in 0..MaxPages /\ Len(fights) \in Nat
  BY <1>0, NowIsStep
<1>2. CallOK(Moved(calls[s]), Len(fights))
  BY <1>1, OutcomesOK
<1>3. ASSUME NEW p, NEW c, CallOK(c, Len(fights)), calls' = [Torn(p) EXCEPT ![s] = c]
      PROVE  DOMAIN calls' = Slots /\ \A o \in Slots : CallOK(calls'[o], Len(fights))
  <2>1. DOMAIN Torn(p) = Slots /\ \A o \in Slots : CallOK(Torn(p)[o], Len(fights))
    BY TornOK
  <2>. QED  BY <1>3, <2>1
<1>4. ASSUME NEW p \in 0..MaxPages, NEW at \in {"closed", "loading"},
             pages' = [pages EXCEPT ![p] = Emptied(pages[p], at)]
      PROVE  DOMAIN pages' = Pages /\ \A q \in Pages : PageOK(pages'[q], rooms, Len(fights))
  <2>1. at \in Load \ {"live"}
    BY DEF Load
  <2>2. p \in Pages => PageOK(Emptied(pages[p], at), rooms, Len(fights))
    BY <1>1, <2>1, EmptiedOK, SameTypes
  <2>. QED  BY <1>4, <2>2, OnePage
<1>5. CASE CloseContext(s)
  <2>1. calls' = [Torn(PageOf(s)) EXCEPT ![s] = Moved(calls[s])]
        /\ pages' = [pages EXCEPT ![PageOf(s)] = Emptied(Blank, "closed")]
    BY <1>5 DEF CloseContext
  <2>2. PageOK(Emptied(Blank, "closed"), rooms, Len(fights))
    <3>1. "closed" \in Load \ {"live"}
      BY DEF Load
    <3>. QED  BY <3>1, <1>1, EmptiedOK, BlankOK
  <2>3. DOMAIN pages' = Pages /\ \A q \in Pages : PageOK(pages'[q], rooms, Len(fights))
    BY <1>1, <2>1, <2>2, OnePage
  <2>. QED  BY <1>0, <1>2, <1>3, <2>1, <2>3, SameTypes, SameHub
<1>6. CASE CloseBrowser(s)
  <2>1. calls' = [t \in Slots |-> IF t = s THEN Moved(calls[s]) ELSE [calls[t] EXCEPT !.inPage = 0]]
        /\ pages' = [p \in Pages |-> Blank]
    BY <1>6 DEF CloseBrowser
  <2>2. DOMAIN calls' = Slots /\ \A o \in Slots : CallOK(calls'[o], Len(fights))
    <3>1. \A o \in Slots : CallOK([calls[o] EXCEPT !.inPage = 0], Len(fights))
      BY TornOK
    <3>. QED  BY <1>2, <2>1, <3>1
  <2>3. DOMAIN pages' = Pages /\ \A q \in Pages : PageOK(pages'[q], rooms, Len(fights))
    BY <1>1, <2>1, BlankOK
  <2>. QED  BY <1>0, <2>2, <2>3, SameTypes, SameHub
<1>7. CASE Navigate(s)
  <2>1. CASE pages[PageOf(s)].at = "closed"
    <3>1. Throws(s) /\ UNCHANGED pages
      BY <1>7, <2>1 DEF Navigate
    <3>. QED  BY <1>0, <3>1, StepHere, SameTypes, SameHub
  <2>2. CASE pages[PageOf(s)].at # "closed"
    <3>1. pages' = [pages EXCEPT ![PageOf(s)] = Emptied(pages[PageOf(s)], "loading")]
          /\ calls' = [Torn(PageOf(s)) EXCEPT ![s] = Moved(calls[s])]
      BY <1>7, <2>2 DEF Navigate
    <3>. QED  BY <1>0, <1>1, <1>2, <1>3, <1>4, <3>1, SameTypes, SameHub
  <2>. QED  BY <2>1, <2>2
<1>8. CASE NavigateAll(s)
  <2>1. PICK i \in calls[s].left :
          /\ pages' = [pages EXCEPT ![sessions[i]] = IF @.at = "closed" THEN @ ELSE Emptied(@, "loading")]
          /\ calls' = [Torn(sessions[i]) EXCEPT ![s] = OneDone([calls[s] EXCEPT !.on[i] = sessions[i]], i)]
    BY <1>8 DEF NavigateAll
  <2>2. i \in Ids /\ sessions[i] \in 0..MaxPages
    BY <1>1, SameTypes DEF Call
  <2> DEFINE d == [calls[s] EXCEPT !.on[i] = sessions[i]]
  <2>3. d \in Call /\ d.end = "running" /\ d.todo = calls[s].todo /\ d.fight = calls[s].fight
    BY <1>0, <2>2, Changed
  <2>4. calls' = [Torn(sessions[i]) EXCEPT ![s] = OneDone(d, i)]
    BY <2>1
  <2> HIDE DEF d
  <2>5. DOMAIN calls' = Slots /\ \A o \in Slots : CallOK(calls'[o], Len(fights))
    BY <1>1, <1>3, <2>3, <2>4, OneDoneOK
  <2>6. DOMAIN pages' = Pages /\ \A q \in Pages : PageOK(pages'[q], rooms, Len(fights))
    <3>1. CASE pages[sessions[i]].at = "closed"
      <4>1. pages' = [pages EXCEPT ![sessions[i]] = pages[sessions[i]]]
        BY <2>1, <3>1
      <4>. QED  BY <4>1, <2>2, OnePage, SameTypes
    <3>2. CASE pages[sessions[i]].at # "closed"
      <4>1. pages' = [pages EXCEPT ![sessions[i]] = Emptied(pages[sessions[i]], "loading")]
        BY <2>1, <3>2
      <4>. QED  BY <4>1, <2>2, <1>4
    <3>. QED  BY <3>1, <3>2
  <2>. QED  BY <1>0, <2>5, <2>6, SameTypes, SameHub
<1>9. CASE ResumeAgain(s)
  <2>1. PICK i \in calls[s].left :
          /\ pages' = [pages EXCEPT ![calls[s].on[i]] = Emptied(@, "loading")]
          /\ calls' = [Torn(calls[s].on[i]) EXCEPT ![s] = [calls[s] EXCEPT !.fate[i] = "reloaded", !.calm = FALSE]]
    BY <1>9 DEF ResumeAgain
  <2>2. i \in Ids /\ calls[s].on[i] \in 0..MaxPages
    BY <1>1 DEF Call
  <2> DEFINE d == [calls[s] EXCEPT !.fate[i] = "reloaded", !.calm = FALSE]
  <2>3. CallOK(d, Len(fights))
    <3>1. "reloaded" \in Fate
      BY DEF Fate
    <3>2. d \in Call /\ d.end = "running" /\ d.todo = calls[s].todo /\ d.fight = calls[s].fight
      BY <1>0, <2>2, <3>1, Changed
    <3> HIDE DEF d
    <3>. QED  BY <3>2, <1>1 DEF CallOK
  <2>4. calls' = [Torn(calls[s].on[i]) EXCEPT ![s] = d]
    BY <2>1
  <2> HIDE DEF d
  <2>5. DOMAIN calls' = Slots /\ \A o \in Slots : CallOK(calls'[o], Len(fights))
    BY <1>3, <2>3, <2>4
  <2>. QED  BY <1>0, <1>4, <2>1, <2>2, <2>5, SameTypes, SameHub
<1>. QED  BY <1>5, <1>6, <1>7, <1>8, <1>9

\* The steps of a call on its page.
LEMMA PageStepTypes ==
  ASSUME Types, NEW s \in Slots,
         ApiAnswers(s) \/ SignUp(s) \/ ClickButton(s) \/ SendToHub(s) \/ InvokeHub(s) \/ ForgetResult(s)
  PROVE  Types'
<1>0. Running(s) /\ UNCHANGED <<sessions, hub, events>>
  BY DEF ApiAnswers, SignUp, ClickButton, SendToHub, InvokeHub, ForgetResult, Awaits, At
<1>1. /\ calls[s] \in Call /\ calls[s].end = "running" /\ calls[s].todo # <<>> /\ calls[s].fight <= Len(fights)
      /\ PageOf(s) \in 0..MaxPages /\ Len(fights) \in Nat /\ Now(s).id \in Ids
      /\ calls[s].room \in Rooms \cup {None}
  BY <1>0, NowIsStep DEF Call
<1> DEFINE p == PageOf(s)
           page == pages[p]
<1>2. p \in 0..MaxPages /\ (p \in Pages => page \in Page /\ PageOK(page, rooms, Len(fights)))
  BY <1>1, SameTypes DEF PageOK
<1>3. ASSUME NEW new, p \in Pages => PageOK(new, rooms, Len(fights)), pages' = [pages EXCEPT ![p] = new],
             Proceeds(s), UNCHANGED shots
      PROVE  Types'
  <2>1. DOMAIN pages' = Pages /\ \A q \in Pages : PageOK(pages'[q], rooms, Len(fights))
    BY <1>2, <1>3, OnePage
  <2>. QED  BY <1>0, <1>3, <2>1, StepHere, SameTypes, SameHub
<1>4. CASE ApiAnswers(s)
  <2>1. pages' = [pages EXCEPT ![p] = [page EXCEPT !.user = Now(s).id, !.token = TRUE]] /\ Proceeds(s) /\ UNCHANGED shots
    BY <1>2, <1>4, SameTypes DEF ApiAnswers
  <2>2. p \in Pages => PageOK([page EXCEPT !.user = Now(s).id, !.token = TRUE], rooms, Len(fights))
    <3> HIDE DEF page
    <3>. QED  BY <1>1, <1>2, Constants DEF PageOK, Page
  <2>. QED  BY <1>3, <2>1, <2>2
<1>5. CASE SignUp(s)
  <2>1. pages' = [pages EXCEPT ![p] = [page EXCEPT !.user = Now(s).id]] /\ Proceeds(s) /\ UNCHANGED shots
    BY <1>2, <1>5, SameTypes DEF SignUp
  <2>2. p \in Pages => PageOK([page EXCEPT !.user = Now(s).id], rooms, Len(fights))
    <3> HIDE DEF page
    <3>. QED  BY <1>1, <1>2, Constants DEF PageOK, Page
  <2>. QED  BY <1>3, <2>1, <2>2
<1>6. CASE ForgetResult(s)
  <2>1. pages' = [pages EXCEPT ![p] = [page EXCEPT !.fight = 0]] /\ Proceeds(s) /\ UNCHANGED shots
    BY <1>6 DEF ForgetResult, Forgotten
  <2>2. ASSUME p \in Pages PROVE PageOK([page EXCEPT !.fight = 0], rooms, Len(fights))
    <3> DEFINE new == [page EXCEPT !.fight = 0]
    <3>1. page \in Page /\ PageOK(page, rooms, Len(fights)) /\ 0 <= Len(fights)
      BY <1>1, <1>2, <2>2
    <3> HIDE DEF page
    <3>2. new \in Page /\ new.fight = 0 /\ new.seat = page.seat /\ new.saved = page.saved /\ new.at = page.at
          /\ new.user = page.user /\ new.sent = page.sent /\ new.mail = page.mail
      BY <3>1 DEF Page
    <3> HIDE DEF new
    <3>3. PageOK(new, rooms, Len(fights))
      BY <3>1, <3>2 DEF PageOK
    <3>. QED  BY <3>3 DEF new
  <2>. QED  BY <1>3, <2>1, <2>2
<1>7. CASE SendToHub(s)
  <2>1. pages' = [pages EXCEPT ![p] = Sent(page, Ask(Now(s).arg, None))] /\ Proceeds(s) /\ UNCHANGED shots
    BY <1>7 DEF SendToHub
  <2>2. Now(s).arg \in Sends
    BY <1>0, <1>7, NowIsStep DEF SendToHub, At
  <2>3. /\ Ask(Now(s).arg, None) \in Request /\ Ask(Now(s).arg, None).what = Now(s).arg
        /\ Now(s).arg \notin {"join", "rejoin", "create"}
    BY <2>2, AskOK, WhatsApart
  <2>4. p \in Pages => PageOK(Sent(page, Ask(Now(s).arg, None)), rooms, Len(fights))
    BY <1>1, <1>2, <2>3, SentOK
  <2>. QED  BY <1>3, <2>1, <2>4
<1>8. CASE ClickButton(s)
  <2>1. /\ Proceeds(s) /\ UNCHANGED shots
        /\ \/ pages' = [pages EXCEPT ![p] = page]
           \/ pages' = [pages EXCEPT ![p] = Sent(page, Ask(Now(s).arg, calls[s].room))]
    BY <1>8 DEF ClickButton
  <2>2. Now(s).arg \in Buttons
    BY <1>0, <1>8, NowIsStep DEF ClickButton, Awaits, At
  <2>3. Now(s).arg = "join" => calls[s].room # None
    BY <1>8, <2>2 DEF ClickButton, Buttons
  <2>4. /\ Ask(Now(s).arg, calls[s].room) \in Request /\ Ask(Now(s).arg, calls[s].room).what = Now(s).arg
        /\ Ask(Now(s).arg, calls[s].room).room = calls[s].room /\ Now(s).arg # "rejoin"
    <3>1. Now(s).arg \in Whats /\ Now(s).arg # "rejoin"
      BY <2>2, WhatsApart
    <3>2. calls[s].room \in Rooms \cup {None}
      BY <1>1
    <3>. QED  BY <3>1, <3>2, AskOK
  <2>5. p \in Pages => PageOK(Sent(page, Ask(Now(s).arg, calls[s].room)), rooms, Len(fights))
    BY <1>1, <1>2, <2>3, <2>4, SentOK
  <2>. QED  BY <1>2, <1>3, <2>1, <2>5
<1>9. CASE InvokeHub(s)
  <2> DEFINE ask == Awaited(Now(s).arg, s, shots')
             shot == IF Now(s).arg = "place" THEN shots' ELSE calls[s].shot
             d == [calls[s] EXCEPT !.waits = TRUE, !.fight = 0, !.shot = shot]
  <2>1. shots' \in Nat /\ shots' = IF Now(s).arg = "place" THEN shots + 1 ELSE shots
    BY <1>9, SameTypes DEF InvokeHub
  <2>2. pages' = [pages EXCEPT ![p] = Sent(page, ask)]
    BY <1>9 DEF InvokeHub, Awaited
  <2>3. \/ Throws(s)
        \/ Goes(s, Moved(d))
    <3>1. CASE Now(s).arg = "place"
      BY <3>1, <1>9 DEF InvokeHub
    <3>2. CASE Now(s).arg # "place"
      BY <3>2, <1>9 DEF InvokeHub
    <3>. QED  BY <3>1, <3>2
  <2>4. Now(s).arg \in Invokes
    BY <1>0, <1>9, NowIsStep DEF InvokeHub, At
  <2>5. ask \in Request /\ ask.what = Now(s).arg /\ Now(s).arg \notin {"join", "rejoin", "create"}
    <3>1. Now(s).arg \in Whats /\ Now(s).arg \notin {"join", "rejoin", "create"} /\ None \in Rooms \cup {None}
      BY <2>4, WhatsApart
    <3>. QED  BY <2>1, <3>1, AwaitedOK
  <2>6. p \in Pages => PageOK(Sent(page, ask), rooms, Len(fights))
    <3> HIDE DEF ask
    <3>. QED  BY <1>1, <1>2, <2>5, SentOK
  <2>7. DOMAIN pages' = Pages /\ \A q \in Pages : PageOK(pages'[q], rooms, Len(fights))
    <3> HIDE DEF ask
    <3>. QED  BY <1>2, <2>2, <2>6, OnePage
  <2>8. DOMAIN calls' = Slots /\ \A o \in Slots : CallOK(calls'[o], Len(fights))
    <3>1. shot \in Nat
      BY <1>1, <2>1 DEF Call
    <3> HIDE DEF shot
    <3>2. d \in Call /\ d.end = "running" /\ d.todo = calls[s].todo /\ d.fight = 0
      BY <1>0, <3>1, Changed
    <3> HIDE DEF d
    <3>. QED  BY <1>0, <1>1, <2>3, <3>2, StepHere, MovedIsOutcome, StepCalls
  <2>. QED  BY <1>0, <2>1, <2>7, <2>8, SameTypes, SameHub
<1>. QED  BY <1>4, <1>5, <1>6, <1>7, <1>8, <1>9

LEMMA OldRoomOK ==
  /\ OldRoom \in Room /\ OldRoom.code = Old
  /\ \A r \in Rooms : [OldRoom EXCEPT !.code = r] \in Room /\ [OldRoom EXCEPT !.code = r].code = r
<1>1. OldRoom \in Room /\ OldRoom.code = Old
  BY Constants DEF OldRoom, Room
<1>2. \A r \in Rooms : [OldRoom EXCEPT !.code = r] \in Room /\ [OldRoom EXCEPT !.code = r].code = r
  BY <1>1 DEF Room
<1>. QED  BY <1>1, <1>2

LEMMA InLobbyOK ==
  ASSUME NEW room \in Room, NEW what, NEW u \in Ids
  PROVE  InLobby(room, what, u) \in Room /\ InLobby(room, what, u).code = room.code
BY DEF InLobby, Room

LEMMA InitTypes == Init => Types
<1> SUFFICES ASSUME Init PROVE Types
  OBVIOUS
<1>0. /\ rooms = [r \in Rooms |-> IF r = Old THEN OldRoom ELSE None] /\ fights = <<>>
      /\ calls = [s \in Slots |-> NoCall] /\ shots = 0 /\ events = 0
  BY DEF Init
<1>1. RoomsOK /\ rooms[Old] = OldRoom
  BY <1>0, OldRoomOK, Constants, NoneIsNoRoom DEF RoomsOK
<1>2. fights \in Seq(Fight) /\ Len(fights) = 0
  BY <1>0
<1>3. DOMAIN calls = Slots /\ \A s \in Slots : CallOK(calls[s], Len(fights))
  <2>1. CallOK(NoCall, 0)
    BY NoCallIsCall DEF CallOK
  <2>. QED  BY <1>0, <1>2, <2>1
<1>4. shots \in Nat /\ events \in 0..MaxEvents
  BY <1>0, Constants
<1>5. sessions \in [Ids -> 0..MaxPages] /\ DOMAIN pages = Pages /\ \A p \in Pages : PageOK(pages[p], rooms, 0)
  <2>1. CASE sessions = [i \in Ids |-> 0] /\ pages = [p \in Pages |-> Blank]
    BY <2>1, BlankOK, Constants
  <2> DEFINE order == SetToSeq(Ids)
             of(p, playing) ==
               [Blank EXCEPT !.at = "live", !.user = order[p], !.token = TRUE,
                             !.saved = IF playing THEN Old ELSE None,
                             !.seat = IF playing THEN Old ELSE None,
                             !.game = IF playing THEN OldRoom ELSE None]
  <2>2. ASSUME NEW playing \in BOOLEAN,
               sessions = [i \in Ids |-> CHOOSE p \in DOMAIN order : order[p] = i],
               pages = [p \in Pages |-> IF p <= Len(order) THEN of(p, playing) ELSE Blank]
        PROVE  sessions \in [Ids -> 0..MaxPages] /\ \A p \in Pages : PageOK(pages[p], rooms, 0)
    <3>1. /\ Cardinality(Ids) \in Nat /\ order \in [1..Cardinality(Ids) -> Ids]
          /\ \A i \in Ids : \E p \in 1..Cardinality(Ids) : order[p] = i
      BY Constants, OrderOfSet
    <3> HIDE DEF order
    <3>2. order \in Seq(Ids) /\ Len(order) = Cardinality(Ids) /\ DOMAIN order = 1..Cardinality(Ids)
      BY <3>1
    <3>3. DOMAIN order \subseteq 0..MaxPages
      BY <3>2, BoundsAreNat, Constants
    <3>4. \A i \in Ids : sessions[i] \in DOMAIN order
      BY <2>2, <3>1, <3>2
    <3>5. sessions \in [Ids -> 0..MaxPages]
      BY <2>2, <3>3, <3>4
    <3>6. ASSUME NEW p \in Pages, p <= Len(order) PROVE PageOK(of(p, playing), rooms, 0)
      <4>1. order[p] \in Ids
        BY <3>2, <3>6 DEF Pages
      <4>2. Blank \in Page /\ Blank.fight = 0 /\ Blank.sent = <<>> /\ Blank.mail = <<>>
        BY BlankOK DEF PageOK, Blank
      <4>3. /\ of(p, playing) \in Page /\ of(p, playing).fight = 0 /\ of(p, playing).sent = <<>> /\ of(p, playing).mail = <<>>
            /\ of(p, playing).user = order[p]
            /\ of(p, playing).seat \in {Old, None} /\ of(p, playing).saved \in {Old, None}
        BY <4>1, <4>2, OldRoomOK, Constants DEF Page, Load
      <4>. QED  BY <1>1, <4>1, <4>3, OldRoomOK, Constants DEF PageOK
    <3>7. \A p \in Pages : PageOK(Blank, rooms, 0)
      BY BlankOK
    <3>. QED  BY <2>2, <3>5, <3>6, <3>7
  <2>. QED  BY <2>1, <2>2 DEF Init
<1>. QED  BY <1>1, <1>2, <1>3, <1>4, <1>5 DEF Types

\* Rooms come and change, none goes.
LEMMA RoomsGrow ==
  ASSUME Types, NEW r \in Rooms, NEW room \in Room, room.code = r, rooms' = [rooms EXCEPT ![r] = room],
         UNCHANGED fights
  PROVE  /\ RoomsOK' /\ Len(fights') = Len(fights) /\ fights' \in Seq(Fight)
         /\ \A page : PageOK(page, rooms, Len(fights)) => PageOK(page, rooms', Len(fights))
<1>1. RoomsOK' /\ fights' \in Seq(Fight) /\ Len(fights) \in Nat
  BY DEF Types, RoomsOK
<1>2. \A q \in Rooms : rooms[q] \in Room => rooms'[q] \in Room
  BY DEF Types, RoomsOK
<1>3. \A page : PageOK(page, rooms, Len(fights)) => PageOK(page, rooms', Len(fights))
  <2>1. TAKE page
  <2>2. HAVE PageOK(page, rooms, Len(fights))
  <2>3. Len(fights) <= Len(fights)
    BY <1>1
  <2>. QED  BY <1>1, <1>2, <2>2, <2>3, PageGrows
<1>4. Len(fights') = Len(fights)
  OBVIOUS
<1>. QED  BY <1>1, <1>3, <1>4

LEMMA InjectTypes ==
  ASSUME Types, NEW s \in Slots, InjectRoom(s)
  PROVE  Types'
<1>1. PICK r \in Fresh : /\ rooms' = [rooms EXCEPT ![r] = [OldRoom EXCEPT !.code = r]]
                         /\ Goes(s, Moved([calls[s] EXCEPT !.room = r]))
  BY DEF InjectRoom
<1>2. Running(s) /\ r \in Rooms /\ UNCHANGED <<sessions, pages, fights, shots, events>>
  BY DEF InjectRoom, Awaits, At, Fresh
<1> DEFINE d == [calls[s] EXCEPT !.room = r]
<1>3. d \in Call /\ d.end = "running" /\ d.todo = calls[s].todo /\ d.fight = calls[s].fight /\ d.fight <= Len(fights)
  <2>1. r \in Rooms \cup {None}
    BY <1>2
  <2>. QED  BY <1>2, <2>1, Changed, NowIsStep
<1>4. Goes(s, Moved(d))
  BY <1>1
<1> HIDE DEF d
<1>5. DOMAIN calls' = Slots /\ \A o \in Slots : CallOK(calls'[o], Len(fights))
  BY <1>2, <1>3, <1>4, MovedIsOutcome, StepCalls
<1>6. /\ RoomsOK' /\ Len(fights') = Len(fights) /\ fights' \in Seq(Fight)
      /\ \A page : PageOK(page, rooms, Len(fights)) => PageOK(page, rooms', Len(fights))
  BY <1>1, <1>2, OldRoomOK, RoomsGrow
<1>. QED  BY <1>2, <1>5, <1>6 DEF Types

LEMMA GivesUpTypes ==
  ASSUME Types, NEW s \in Slots, GivesUp(s)
  PROVE  Types'
<1>1. /\ Running(s) /\ Goes(s, [Thrown(calls[s]) EXCEPT !.calm = FALSE]) /\ UNCHANGED <<sessions, pages, hub, shots>>
      /\ events < MaxEvents /\ events' = events + 1
  BY DEF GivesUp, Happens
<1>2. CallOK(Thrown(calls[s]), Len(fights))
  BY <1>1, NowIsStep, OutcomesOK, MovedIsOutcome
<1>3. CallOK([Thrown(calls[s]) EXCEPT !.calm = FALSE], Len(fights))
  <2> DEFINE c == Thrown(calls[s])
  <2> HIDE DEF c
  <2>1. ASSUME CallOK(c, Len(fights)) PROVE CallOK([c EXCEPT !.calm = FALSE], Len(fights))
    BY <2>1 DEF CallOK, Call
  <2>. QED  BY <1>2, <2>1 DEF c
<1>4. events' \in 0..MaxEvents
  BY <1>1, Constants DEF Types
<1>. QED  BY <1>1, <1>3, <1>4, OnlyCalls

LEMMA MeddleTypes ==
  ASSUME Types, NEW p \in Pages, Meddle(p)
  PROVE  Types'
<1>1. PICK at \in {"closed", IF pages[p].at = "blank" THEN "blank" ELSE "loading"} :
        pages' = [pages EXCEPT ![p] = Emptied(pages[p], at)]
  BY DEF Meddle
<1>2. /\ calls' = [s \in Slots |-> [Torn(p)[s] EXCEPT !.calm = FALSE]] /\ UNCHANGED <<sessions, hub, shots>>
      /\ events < MaxEvents /\ events' = events + 1
  BY DEF Meddle, Happens
<1>3. DOMAIN calls' = Slots /\ \A o \in Slots : CallOK(calls'[o], Len(fights))
  BY <1>2, TornOK
<1>4. DOMAIN pages' = Pages /\ \A q \in Pages : PageOK(pages'[q], rooms, Len(fights))
  <2>1. at \in Load \ {"live"} /\ Len(fights) \in Nat /\ PageOK(pages[p], rooms, Len(fights)) /\ p \in 0..MaxPages
    BY SameTypes, Constants DEF Load
  <2>2. PageOK(Emptied(pages[p], at), rooms, Len(fights))
    BY <2>1, EmptiedOK
  <2>. QED  BY <1>1, <2>1, <2>2, OnePage
<1>5. events' \in 0..MaxEvents
  BY <1>2, Constants DEF Types
<1>. QED  BY <1>2, <1>3, <1>4, <1>5, SameTypes, SameHub

LEMMA StartTypes ==
  ASSUME Types, NEW s \in Slots, StartCall(s)
  PROVE  Types'
<1>1. PICK t \in Tools, i \in Ids, r \in {q \in Rooms : rooms[q] # None} :
       LET new == [NoCall EXCEPT !.tool = IF t \in Scenarios THEN t ELSE None, !.id = i, !.left = Ids, !.end = "running",
                                 !.room = IF t = "room_join" THEN r ELSE None, !.calm = Quiet /\ t \in Scenarios]
       IN  calls' = [o \in Slots |-> IF o = s THEN Settled(new, Scripts[t][i]) ELSE [calls[o] EXCEPT !.calm = FALSE]]
  BY DEF StartCall
<1>2. UNCHANGED <<sessions, pages, hub, shots>> /\ events < MaxEvents /\ events' = events + 1
  BY DEF StartCall, Happens
<1> DEFINE tool == IF t \in Scenarios THEN t ELSE None
           room == IF t = "room_join" THEN r ELSE None
           calm == Quiet /\ t \in Scenarios
           new == [NoCall EXCEPT !.tool = tool, !.id = i, !.left = Ids, !.end = "running", !.room = room, !.calm = calm]
<1>3. calls' = [o \in Slots |-> IF o = s THEN Settled(new, Scripts[t][i]) ELSE [calls[o] EXCEPT !.calm = FALSE]]
  BY <1>1
<1>4. tool \in Tools \cup {None} /\ room \in Rooms \cup {None} /\ calm \in BOOLEAN
  OBVIOUS
<1> HIDE DEF tool, room, calm
<1>5. new \in Call /\ new.end = "running" /\ new.fight = 0
  BY <1>4, NoCallIsCall DEF Call
<1> HIDE DEF new
<1>6. Scripts[t][i] \in Seq(Steps)
  BY ToolsAreSound DEF Whole, Sound
<1>7. CallOK(Settled(new, Scripts[t][i]), Len(fights))
  BY <1>5, <1>6, BeginningOK, SameTypes
<1>8. DOMAIN calls' = Slots /\ \A o \in Slots : CallOK(calls'[o], Len(fights))
  BY <1>3, <1>7, TornOK
<1>9. events' \in 0..MaxEvents
  BY <1>2, Constants DEF Types
<1>. QED  BY <1>2, <1>8, <1>9, SameTypes, SameHub

\* What a page becomes when it hears more.
LEMMA HeardOK ==
  ASSUME NEW rs, NEW n \in Nat, NEW page, PageOK(page, rs, n), page.at # "closed", NEW msgs \in Seq(Message),
         \A k \in DOMAIN msgs : /\ msgs[k].what = "room" => rs[msgs[k].room.code] \in Room
                                /\ msgs[k].what = "fight" => msgs[k].n \in 1..n
  PROVE  PageOK([page EXCEPT !.mail = @ \o msgs], rs, n)
<1> DEFINE mail == page.mail \o msgs
           new == [page EXCEPT !.mail = mail]
<1>1. page \in Page /\ page.mail \in Seq(Message)
  BY DEF PageOK, Page
<1>2. mail \in Seq(Message) /\ \A k \in DOMAIN mail :
        \/ k \in DOMAIN page.mail /\ mail[k] = page.mail[k]
        \/ k - Len(page.mail) \in DOMAIN msgs /\ mail[k] = msgs[k - Len(page.mail)]
  BY <1>1
<1> HIDE DEF mail
<1>3. /\ new \in Page /\ new.sent = page.sent /\ new.at = page.at /\ new.mail = mail /\ new.fight = page.fight
      /\ new.seat = page.seat /\ new.saved = page.saved /\ new.user = page.user
  BY <1>1, <1>2 DEF Page
<1>4. PageOK(new, rs, n)
  <2> HIDE DEF new
  <2>. QED  BY <1>1, <1>2, <1>3 DEF PageOK
<1>. QED  BY <1>4 DEF mail

LEMMA MessagesOK ==
  /\ \A room \in Room : [what |-> "room", room |-> room] \in Message
  /\ [what |-> "stale"] \in Message
  /\ \A n \in Nat : [what |-> "fight", n |-> n] \in Message
  /\ \A msg \in Message :
       /\ msg.what \in {"room", "stale", "fight", "answer"}
       /\ msg.what = "room" => msg.room \in Room
       /\ msg.what = "fight" => msg.n \in Nat
       /\ msg.what = "answer" => msg.slot \in Slots
BY DEF Message

\* What the hub finds first.
LEMMA FirstRequest ==
  ASSUME Types, NEW p \in Pages, pages[p].sent # <<>>
  PROVE  LET req == Head(pages[p].sent)
         IN  /\ req \in Request /\ req.room \in Rooms \cup {None} /\ req.slot \in Slots \cup {0} /\ req.shot \in Nat
             /\ req.what \in {"join", "rejoin"} => req.room \in Rooms
             /\ req.what = "rejoin" => rooms[req.room] \in Room
             /\ pages[p].user \in Ids /\ pages[p].sent \in Seq(Request) /\ pages[p].at = "live"
<1> DEFINE sent == pages[p].sent
<1>1. PageOK(pages[p], rooms, Len(fights))
  BY SameTypes
<1>2. sent \in Seq(Request) /\ pages[p].user \in Ids /\ pages[p].at = "live"
  BY <1>1, Constants DEF PageOK, Page
<1>3. Head(sent) = sent[1] /\ 1 \in DOMAIN sent /\ Head(sent) \in Request
  BY <1>2
<1>4. /\ sent[1].what \in {"join", "rejoin"} => sent[1].room # None
      /\ sent[1].what = "rejoin" => rooms[sent[1].room] \in Room
  BY <1>1, <1>3 DEF PageOK
<1> HIDE DEF sent
<1>5. Head(sent).room \in Rooms \cup {None} /\ Head(sent).slot \in Slots \cup {0} /\ Head(sent).shot \in Nat
  BY <1>3 DEF Request
<1>. QED  BY <1>2, <1>3, <1>4, <1>5 DEF sent

LEMMA OneToo ==
  ASSUME NEW T, NEW x \in T
  PROVE  <<x>> \in Seq(T) /\ DOMAIN <<x>> = {1} /\ <<x>>[1] = x
OBVIOUS

LEMMA SeatTypes ==
  ASSUME Types, NEW p \in Pages, Seat(p)
  PROVE  Types'
<1> DEFINE req == Head(pages[p].sent)
           u == pages[p].user
           seated(r, room) == Answered([pages[p] EXCEPT !.seat = r], <<[what |-> "room", room |-> room]>>)
<1>1. pages[p].sent # <<>> /\ req.what \in {"create", "join", "rejoin"} /\ UNCHANGED <<sessions, fights, calls, shots, events>>
  BY DEF Seat
<1>2. /\ req \in Request /\ u \in Ids /\ req.room \in Rooms \cup {None}
      /\ req.what \in {"join", "rejoin"} => req.room \in Rooms
      /\ req.what = "rejoin" => rooms[req.room] \in Room
      /\ pages[p].sent \in Seq(Request)
  BY <1>1, FirstRequest
<1>3. PageOK(pages[p], rooms, Len(fights)) /\ Len(fights) \in Nat /\ p \in 0..MaxPages
      /\ DOMAIN pages = Pages /\ \A q \in Pages : PageOK(pages[q], rooms, Len(fights))
  BY SameTypes, Constants
<1>4. ASSUME NEW r \in Rooms, NEW room \in Room, room.code = r, rooms' = [rooms EXCEPT ![r] = room],
             pages' = [pages EXCEPT ![p] = seated(r, room)]
      PROVE  Types'
  <2>1. /\ RoomsOK' /\ Len(fights') = Len(fights) /\ fights' \in Seq(Fight)
        /\ \A page : PageOK(page, rooms, Len(fights)) => PageOK(page, rooms', Len(fights))
    BY <1>1, <1>4, RoomsGrow
  <2>2. rooms'[r] \in Room
    BY <1>4 DEF Types, RoomsOK
  <2> DEFINE page == [pages[p] EXCEPT !.seat = r]
             msg == [what |-> "room", room |-> room]
  <2>3. PageOK(page, rooms', Len(fights)) /\ page.sent = pages[p].sent
    <3>1. PageOK(pages[p], rooms', Len(fights))
      BY <1>3, <2>1
    <3>2. r \in Rooms \cup {None} /\ r # None
      BY Constants
    <3>3. ASSUME NEW old, PageOK(old, rooms', Len(fights)), old.sent # <<>>
          PROVE  PageOK([old EXCEPT !.seat = r], rooms', Len(fights)) /\ [old EXCEPT !.seat = r].sent = old.sent
      <4> DEFINE new == [old EXCEPT !.seat = r]
      <4>1. old \in Page
        BY <3>3 DEF PageOK
      <4>2. /\ new \in Page /\ new.seat = r /\ new.fight = old.fight /\ new.saved = old.saved /\ new.at = old.at
            /\ new.user = old.user /\ new.sent = old.sent /\ new.mail = old.mail
        BY <3>2, <4>1 DEF Page
      <4> HIDE DEF new
      <4>3. PageOK(new, rooms', Len(fights)) /\ new.sent = old.sent
        <5>1. new.at # "closed"
          BY <3>3, <4>2 DEF PageOK
        <5>. QED  BY <2>2, <3>3, <4>2, <5>1 DEF PageOK
      <4>. QED  BY <4>3 DEF new
    <3>. QED  BY <1>1, <3>1, <3>3
  <2>4. msg \in Message /\ msg.what = "room" /\ msg.room.code = r
    BY <1>4, MessagesOK
  <2> HIDE DEF page, msg
  <2>5. PageOK(Answered(page, <<msg>>), rooms', Len(fights))
    <3>1. <<msg>> \in Seq(Message) /\ DOMAIN <<msg>> = {1} /\ <<msg>>[1] = msg
      BY <2>4, OneToo
    <3>2. \A k \in DOMAIN <<msg>> : /\ <<msg>>[k].what = "room" => rooms'[<<msg>>[k].room.code] \in Room
                                    /\ <<msg>>[k].what = "fight" => <<msg>>[k].n \in 1..Len(fights)
      BY <2>2, <2>4, <3>1
    <3>. QED  BY <1>1, <1>3, <2>3, <3>1, <3>2, AnsweredOK
  <2>6. seated(r, room) = Answered(page, <<msg>>)
    BY DEF page, msg
  <2>7. DOMAIN pages' = Pages /\ \A q \in Pages : PageOK(pages'[q], rooms', Len(fights'))
    <3> HIDE DEF seated
    <3>. QED  BY <1>3, <1>4, <2>1, <2>5, <2>6
  <2>. QED  BY <1>1, <2>1, <2>7 DEF Types
<1>5. ASSUME NEW msgs \in Seq(Message), \A k \in DOMAIN msgs : msgs[k].what = "stale",
             pages' = [pages EXCEPT ![p] = Answered(pages[p], msgs)], UNCHANGED rooms
      PROVE  Types'
  <2>1. PageOK(Answered(pages[p], msgs), rooms, Len(fights))
    BY <1>1, <1>3, <1>5, AnsweredOK
  <2>2. DOMAIN pages' = Pages /\ \A q \in Pages : PageOK(pages'[q], rooms, Len(fights))
    BY <1>3, <1>5, <2>1, OnePage
  <2>. QED  BY <1>1, <1>5, <2>2, SameTypes, SameHub DEF hub
<1>6. CASE req.what = "create"
  <2> DEFINE room(r) == [code |-> r, phase |-> "Lobby", host |-> u, in |-> {u}, teams |-> {}, set |-> FALSE, review |-> FALSE]
  <2>1. PICK r \in Fresh : rooms' = [rooms EXCEPT ![r] = room(r)] /\ pages' = [pages EXCEPT ![p] = seated(r, room(r))]
    BY <1>6 DEF Seat
  <2>2. r \in Rooms /\ room(r) \in Room /\ room(r).code = r
    BY <1>2 DEF Fresh, Room
  <2> HIDE DEF room
  <2>. QED  BY <1>4, <2>1, <2>2
<1>7. CASE req.what = "join"
  <2> DEFINE r == req.room
             room == [rooms[r] EXCEPT !.in = @ \cup {u}]
  <2>1. \/ rooms[r] # None /\ rooms' = [rooms EXCEPT ![r] = room] /\ pages' = [pages EXCEPT ![p] = seated(r, room)]
        \/ pages' = [pages EXCEPT ![p] = Answered(pages[p], <<>>)] /\ UNCHANGED rooms
    BY <1>7 DEF Seat
  <2>2. r \in Rooms
    BY <1>2, <1>7
  <2>3. rooms[r] # None => room \in Room /\ room.code = r
    <3>1. rooms[r] # None => rooms[r] \in Room /\ rooms[r].code = r
      BY <2>2 DEF Types, RoomsOK
    <3>. QED  BY <1>2, <3>1 DEF Room
  <2>4. <<>> \in Seq(Message) /\ DOMAIN <<>> = {}
    OBVIOUS
  <2> HIDE DEF room, r
  <2>. QED  BY <1>4, <1>5, <2>1, <2>2, <2>3, <2>4
<1>8. CASE req.what = "rejoin"
  <2> DEFINE r == req.room
             stale == [what |-> "stale"]
  <2>1. \/ rooms' = [rooms EXCEPT ![r] = rooms[r]] /\ pages' = [pages EXCEPT ![p] = seated(r, rooms[r])]
        \/ pages' = [pages EXCEPT ![p] = Answered(pages[p], <<stale>>)] /\ UNCHANGED rooms
    BY <1>8 DEF Seat
  <2>2. r \in Rooms /\ rooms[r] \in Room /\ rooms[r].code = r
    BY <1>2, <1>8 DEF Types, RoomsOK
  <2>3. stale \in Message /\ stale.what = "stale"
    BY MessagesOK
  <2> HIDE DEF stale, r
  <2>4. <<stale>> \in Seq(Message) /\ \A k \in DOMAIN <<stale>> : <<stale>>[k].what = "stale"
    BY <2>3, OneToo
  <2>. QED  BY <1>4, <1>5, <2>1, <2>2, <2>4
<1>. QED  BY <1>1, <1>6, <1>7, <1>8

LEMMA AnswersNoNews ==
  ASSUME NEW slot \in Slots \cup {0}, NEW rs, NEW n
  PROVE  \A k \in DOMAIN AnswerTo(slot) : /\ AnswerTo(slot)[k].what = "room" => rs[AnswerTo(slot)[k].room.code] \in Room
                                          /\ AnswerTo(slot)[k].what = "fight" => AnswerTo(slot)[k].n \in 1..n
BY AnswerToOK

LEMMA ServeTypes ==
  ASSUME Types, NEW p \in Pages, Serve(p)
  PROVE  Types'
<1> DEFINE req == Head(pages[p].sent)
           u == pages[p].user
           seat == pages[p].seat
           room == InLobby(rooms[seat], req.what, u)
<1>1. /\ pages[p].sent # <<>> /\ UNCHANGED <<sessions, fights, calls, shots, events>>
      /\ pages' = [pages EXCEPT ![p] = Answered(pages[p], AnswerTo(req.slot))]
      /\ rooms' = IF seat = None THEN rooms ELSE [rooms EXCEPT ![seat] = room]
  BY DEF Serve
<1>2. req.slot \in Slots \cup {0} /\ u \in Ids
  BY <1>1, FirstRequest
<1>3. PageOK(pages[p], rooms, Len(fights)) /\ Len(fights) \in Nat /\ p \in 0..MaxPages
      /\ DOMAIN pages = Pages /\ \A q \in Pages : PageOK(pages[q], rooms, Len(fights))
  BY SameTypes, Constants
<1>4. AnswerTo(req.slot) \in Seq(Message)
  BY <1>2, AnswerToOK
<1>5. \A rs : \A k \in DOMAIN AnswerTo(req.slot) :
         /\ AnswerTo(req.slot)[k].what = "room" => rs[AnswerTo(req.slot)[k].room.code] \in Room
         /\ AnswerTo(req.slot)[k].what = "fight" => AnswerTo(req.slot)[k].n \in 1..Len(fights)
  BY <1>2, AnswersNoNews
<1>6. RoomsOK' /\ (\A page : PageOK(page, rooms, Len(fights)) => PageOK(page, rooms', Len(fights)))
      /\ Len(fights') = Len(fights) /\ fights' \in Seq(Fight)
  <2>1. CASE seat = None
    BY <1>1, <2>1 DEF Types, RoomsOK
  <2>2. CASE seat # None
    <3>1. seat \in Rooms /\ rooms[seat] \in Room
      BY <1>3, <2>2 DEF PageOK, Page
    <3>2. rooms[seat].code = seat
      BY <3>1 DEF Types, RoomsOK
    <3>3. room \in Room /\ room.code = seat
      BY <1>2, <3>1, <3>2, InLobbyOK
    <3>4. rooms' = [rooms EXCEPT ![seat] = room]
      BY <1>1, <2>2
    <3> HIDE DEF room, seat
    <3>. QED  BY <1>1, <3>1, <3>3, <3>4, RoomsGrow
  <2>. QED  BY <2>1, <2>2
<1>7. PageOK(Answered(pages[p], AnswerTo(req.slot)), rooms', Len(fights))
  <2>1. PageOK(pages[p], rooms', Len(fights))
    BY <1>3, <1>6
  <2>. QED  BY <1>1, <1>3, <1>4, <1>5, <2>1, AnsweredOK
<1>8. DOMAIN pages' = Pages /\ \A q \in Pages : PageOK(pages'[q], rooms', Len(fights'))
  BY <1>1, <1>3, <1>6, <1>7
<1>. QED  BY <1>1, <1>6, <1>8 DEF Types

LEMMA TwoMessages ==
  ASSUME NEW T, NEW x \in T, NEW more \in Seq(T)
  PROVE  /\ <<x>> \o more \in Seq(T)
         /\ \A k \in DOMAIN (<<x>> \o more) : \/ k = 1 /\ (<<x>> \o more)[k] = x
                                              \/ k - 1 \in DOMAIN more /\ (<<x>> \o more)[k] = more[k - 1]
<1>1. <<x>> \in Seq(T) /\ Len(<<x>>) = 1 /\ <<x>>[1] = x
  OBVIOUS
<1> DEFINE b == <<x>>
<1> HIDE DEF b
<1>2. b \in Seq(T) /\ Len(b) = 1 /\ b[1] = x
  BY <1>1 DEF b
<1>3. /\ b \o more \in Seq(T) /\ Len(b \o more) = Len(b) + Len(more)
      /\ \A k \in 1..(Len(b) + Len(more)) : (b \o more)[k] = IF k <= Len(b) THEN b[k] ELSE more[k - Len(b)]
  BY <1>2, ConcatProperties
<1>4. Len(more) \in Nat /\ DOMAIN more = 1..Len(more) /\ DOMAIN (b \o more) = 1..(1 + Len(more))
  BY <1>2, <1>3
<1>5. ASSUME NEW k \in 1..(1 + Len(more))
      PROVE  \/ k = 1 /\ (b \o more)[k] = x
             \/ k - 1 \in DOMAIN more /\ (b \o more)[k] = more[k - 1]
  <2>1. (b \o more)[k] = IF k <= 1 THEN b[k] ELSE more[k - 1]
    BY <1>2, <1>3
  <2>2. k = 1 \/ (k - 1 \in 1..Len(more) /\ ~ (k <= 1))
    BY <1>4
  <2>. QED  BY <1>2, <1>4, <2>1, <2>2
<1>. QED  BY <1>3, <1>4, <1>5 DEF b

LEMMA PlaceTypes ==
  ASSUME Types, NEW p \in Pages, PlaceTroops(p)
  PROVE  Types'
<1> DEFINE slot == Head(pages[p].sent).slot
           shot == Head(pages[p].sent).shot
           n == Len(fights) + 1
           fight == [by |-> pages[p].user, shot |-> shot]
           msg == [what |-> "fight", n |-> n]
           foes == {q \in Pages : q # p /\ pages[q].seat = pages[p].seat}
<1>1. pages[p].sent # <<>> /\ UNCHANGED <<sessions, rooms, calls, shots, events>>
  BY DEF PlaceTroops
<1>2. slot \in Slots \cup {0} /\ shot \in Nat /\ pages[p].user \in Ids
  BY <1>1, FirstRequest
<1>3. PageOK(pages[p], rooms, Len(fights)) /\ Len(fights) \in Nat /\ p \in 0..MaxPages
      /\ DOMAIN pages = Pages /\ \A q \in Pages : PageOK(pages[q], rooms, Len(fights))
      /\ fights \in Seq(Fight)
  BY SameTypes, Constants DEF Types
<1>4. AnswerTo(slot) \in Seq(Message)
  BY <1>2, AnswerToOK
<1>5. \A m : \A k \in DOMAIN AnswerTo(slot) :
         /\ AnswerTo(slot)[k].what = "room" => rooms[AnswerTo(slot)[k].room.code] \in Room
         /\ AnswerTo(slot)[k].what = "fight" => AnswerTo(slot)[k].n \in 1..m
  BY <1>2, AnswersNoNews
<1>6. CASE pages' = [pages EXCEPT ![p] = Answered(pages[p], AnswerTo(slot))] /\ UNCHANGED fights
  <2>1. PageOK(Answered(pages[p], AnswerTo(slot)), rooms, Len(fights))
    BY <1>1, <1>3, <1>4, <1>5, AnsweredOK
  <2>2. DOMAIN pages' = Pages /\ \A q \in Pages : PageOK(pages'[q], rooms, Len(fights))
    BY <1>3, <1>6, <2>1
  <2>. QED  BY <1>1, <1>6, <2>2, SameTypes, SameHub DEF hub
<1>7. ASSUME NEW hears \in SUBSET foes, pages[p].seat # None, fights' = Append(fights, fight),
             pages' = [q \in Pages |-> IF q = p THEN Answered(pages[p], <<msg>> \o AnswerTo(slot))
                                       ELSE IF q \in hears THEN [pages[q] EXCEPT !.mail = @ \o <<msg>>]
                                       ELSE pages[q]]
      PROVE  Types'
  <2>1. fight \in Fight
    BY <1>2 DEF Fight
  <2>2. msg \in Message /\ msg.what = "fight" /\ msg.n = n /\ n \in Nat /\ n \in 1..n /\ Len(fights) <= n
    BY <1>3, MessagesOK
  <2>3. fights' \in Seq(Fight) /\ Len(fights') = n
    <3> HIDE DEF fight
    <3>. QED  BY <1>3, <1>7, <2>1
  <2> HIDE DEF msg, n, fight
  <2>4. \A page : PageOK(page, rooms, Len(fights)) => PageOK(page, rooms, n)
    <3>1. TAKE page
    <3>2. HAVE PageOK(page, rooms, Len(fights))
    <3>. QED  BY <1>3, <2>2, <3>2, PageGrows
  <2>5. /\ <<msg>> \o AnswerTo(slot) \in Seq(Message)
        /\ \A k \in DOMAIN (<<msg>> \o AnswerTo(slot)) :
             \/ k = 1 /\ (<<msg>> \o AnswerTo(slot))[k] = msg
             \/ k - 1 \in DOMAIN AnswerTo(slot) /\ (<<msg>> \o AnswerTo(slot))[k] = AnswerTo(slot)[k - 1]
    BY <1>4, <2>2, TwoMessages
  <2> DEFINE msgs == <<msg>> \o AnswerTo(slot)
  <2>6. msgs \in Seq(Message) /\ \A k \in DOMAIN msgs : /\ msgs[k].what = "room" => rooms[msgs[k].room.code] \in Room
                                                        /\ msgs[k].what = "fight" => msgs[k].n \in 1..n
    BY <1>5, <2>2, <2>5
  <2>7. PageOK(Answered(pages[p], msgs), rooms, n)
    <3> HIDE DEF msgs
    <3>. QED  BY <1>1, <1>3, <2>2, <2>4, <2>6, AnsweredOK
  <2>8. <<msg>> \in Seq(Message) /\ DOMAIN <<msg>> = {1} /\ <<msg>>[1] = msg
    BY <2>2, OneToo
  <2>9. \A k \in DOMAIN <<msg>> : /\ <<msg>>[k].what = "room" => rooms[<<msg>>[k].room.code] \in Room
                                  /\ <<msg>>[k].what = "fight" => <<msg>>[k].n \in 1..n
    BY <2>2, <2>8
  <2>10. ASSUME NEW q \in hears PROVE PageOK([pages[q] EXCEPT !.mail = @ \o <<msg>>], rooms, n)
    <3>1. q \in Pages /\ PageOK(pages[q], rooms, n)
      BY <1>3, <2>4
    <3>2. pages[q].at # "closed"
      BY <1>7, <3>1 DEF PageOK
    <3>. QED  BY <2>2, <3>2, <2>8, <2>9, <3>1, HeardOK
  <2> HIDE DEF msgs
  <2>11. DOMAIN pages' = Pages /\ \A q \in Pages : PageOK(pages'[q], rooms, n)
    BY <1>3, <1>7, <2>4, <2>7, <2>10 DEF msgs
  <2>12. \A o \in Slots : CallOK(calls'[o], n)
    BY <1>1, <1>3, <2>2, SameTypes DEF CallOK, Call
  <2>. QED  BY <1>1, <2>3, <2>11, <2>12 DEF Types, RoomsOK
<1>8. \/ pages' = [pages EXCEPT ![p] = Answered(pages[p], AnswerTo(slot))] /\ UNCHANGED fights
      \/ /\ pages[p].seat # None /\ fights' = Append(fights, fight)
         /\ \E hears \in SUBSET foes :
              pages' = [q \in Pages |-> IF q = p THEN Answered(pages[p], <<msg>> \o AnswerTo(slot))
                                        ELSE IF q \in hears THEN [pages[q] EXCEPT !.mail = @ \o <<msg>>]
                                        ELSE pages[q]]
  BY DEF PlaceTroops
<1>. QED  BY <1>6, <1>7, <1>8

LEMMA ReceiveTypes ==
  ASSUME Types, NEW p \in Pages, Receive(p)
  PROVE  Types'
<1> DEFINE msg == Head(pages[p].mail)
           mail == Tail(pages[p].mail)
           page == [pages[p] EXCEPT !.mail = mail]
<1>1. /\ pages[p].mail # <<>> /\ UNCHANGED <<sessions, hub, shots, events>>
      /\ pages' = [pages EXCEPT ![p] =
                        CASE msg.what = "room" -> [page EXCEPT !.game = msg.room, !.saved = msg.room.code,
                                                               !.resuming = FALSE]
                          [] msg.what = "stale" -> [page EXCEPT !.game = None, !.saved = None,
                                                                !.resuming = FALSE]
                          [] msg.what = "fight" -> [page EXCEPT !.fight = msg.n, !.log = @ + 1]
                          [] msg.what = "answer" -> page]
      /\ calls' = IF msg.what = "answer" /\ calls[msg.slot].inPage = p
                  THEN [calls EXCEPT ![msg.slot] = [calls[msg.slot] EXCEPT !.waits = FALSE]] ELSE calls
  BY DEF Receive
<1>2. PageOK(pages[p], rooms, Len(fights)) /\ Len(fights) \in Nat /\ p \in 0..MaxPages
      /\ DOMAIN pages = Pages /\ \A q \in Pages : PageOK(pages[q], rooms, Len(fights))
  BY SameTypes, Constants
<1>3. pages[p] \in Page /\ pages[p].mail \in Seq(Message)
  BY <1>2 DEF PageOK, Page
<1>4. msg \in Message /\ msg = pages[p].mail[1] /\ 1 \in DOMAIN pages[p].mail
  BY <1>1, <1>3
<1>5. /\ msg.what = "room" => rooms[msg.room.code] \in Room
      /\ msg.what = "fight" => msg.n \in 1..Len(fights)
  BY <1>2, <1>4 DEF PageOK
<1>7. mail \in Seq(Message) /\ \A k \in DOMAIN mail : k + 1 \in DOMAIN pages[p].mail /\ mail[k] = pages[p].mail[k + 1]
  BY <1>1, <1>3
<1> HIDE DEF msg, mail
<1>6. /\ page \in Page /\ page.fight = pages[p].fight /\ page.seat = pages[p].seat /\ page.saved = pages[p].saved
      /\ page.at = pages[p].at /\ page.user = pages[p].user /\ page.sent = pages[p].sent /\ page.mail = mail
  BY <1>3, <1>7 DEF Page
<1> HIDE DEF page
<1>8. PageOK(page, rooms, Len(fights))
  BY <1>2, <1>6, <1>7 DEF PageOK
<1>9. msg.what = "room" => PageOK([page EXCEPT !.game = msg.room, !.saved = msg.room.code, !.resuming = FALSE], rooms, Len(fights))
  <2>1. SUFFICES ASSUME msg.what = "room"
        PROVE  PageOK([page EXCEPT !.game = msg.room, !.saved = msg.room.code, !.resuming = FALSE], rooms, Len(fights))
    OBVIOUS
  <2> DEFINE new == [page EXCEPT !.game = msg.room, !.saved = msg.room.code, !.resuming = FALSE]
  <2>2. msg.room \in Room /\ msg.room.code \in Rooms
    BY <1>4, <2>1, MessagesOK DEF Room
  <2>3. /\ new \in Page /\ new.fight = page.fight /\ new.seat = page.seat /\ new.saved = msg.room.code
        /\ new.at = page.at /\ new.user = page.user /\ new.sent = page.sent /\ new.mail = page.mail
    BY <1>6, <2>2 DEF Page
  <2> HIDE DEF new
  <2>4. PageOK(new, rooms, Len(fights))
    BY <1>5, <1>8, <2>1, <2>3 DEF PageOK
  <2>. QED  BY <2>4 DEF new
<1>10. PageOK([page EXCEPT !.game = None, !.saved = None, !.resuming = FALSE], rooms, Len(fights))
  <2> DEFINE new == [page EXCEPT !.game = None, !.saved = None, !.resuming = FALSE]
  <2>3. /\ new \in Page /\ new.fight = page.fight /\ new.seat = page.seat /\ new.saved = None
        /\ new.at = page.at /\ new.user = page.user /\ new.sent = page.sent /\ new.mail = page.mail
    BY <1>6 DEF Page
  <2> HIDE DEF new
  <2>4. PageOK(new, rooms, Len(fights))
    BY <1>8, <2>3 DEF PageOK
  <2>. QED  BY <2>4 DEF new
<1>11. msg.what = "fight" => PageOK([page EXCEPT !.fight = msg.n, !.log = @ + 1], rooms, Len(fights))
  <2>1. SUFFICES ASSUME msg.what = "fight"
        PROVE  PageOK([page EXCEPT !.fight = msg.n, !.log = @ + 1], rooms, Len(fights))
    OBVIOUS
  <2> DEFINE new == [page EXCEPT !.fight = msg.n, !.log = @ + 1]
  <2>2. msg.n \in Nat /\ msg.n <= Len(fights) /\ page.log + 1 \in Nat
    BY <1>2, <1>5, <1>6, <2>1 DEF Page
  <2>3. /\ new \in Page /\ new.fight = msg.n /\ new.seat = page.seat /\ new.saved = page.saved
        /\ new.at = page.at /\ new.user = page.user /\ new.sent = page.sent /\ new.mail = page.mail
    BY <1>6, <2>2 DEF Page
  <2> HIDE DEF new
  <2>4. PageOK(new, rooms, Len(fights))
    <3>1. pages[p].at # "closed"
      BY <1>1, <1>2 DEF PageOK
    <3>2. new.at # "closed"
      BY <1>6, <2>3, <3>1
    <3>. QED  BY <1>8, <2>2, <2>3, <3>2 DEF PageOK
  <2>. QED  BY <2>4 DEF new
<1>12. DOMAIN pages' = Pages /\ \A q \in Pages : PageOK(pages'[q], rooms, Len(fights))
  <2>1. msg.what \in {"room", "stale", "fight", "answer"}
    BY <1>4, MessagesOK
  <2>2. CASE msg.what = "room"
    BY <1>1, <1>2, <1>9, <2>2
  <2>3. CASE msg.what = "stale"
    BY <1>1, <1>2, <1>10, <2>3
  <2>4. CASE msg.what = "fight"
    BY <1>1, <1>2, <1>11, <2>4
  <2>5. CASE msg.what = "answer"
    BY <1>1, <1>2, <1>8, <2>5
  <2>. QED  BY <2>1, <2>2, <2>3, <2>4, <2>5
<1>13. DOMAIN calls' = Slots /\ \A o \in Slots : CallOK(calls'[o], Len(fights))
  BY <1>1, TornOK, SameTypes
<1>. QED  BY <1>1, <1>12, <1>13, SameTypes, SameHub

LEMMA LoadTypes ==
  ASSUME Types, NEW p \in Pages, PageLoads(p) \/ Connect(p) \/ CatchUp(p)
  PROVE  Types'
<1>1. PageOK(pages[p], rooms, Len(fights)) /\ Len(fights) \in Nat /\ p \in 0..MaxPages
      /\ DOMAIN pages = Pages /\ pages[p] \in Page
  BY SameTypes, Constants DEF PageOK
<1>2. UNCHANGED <<sessions, hub, calls, shots, events>>
  BY DEF PageLoads, Connect, CatchUp
<1>3. ASSUME NEW page, PageOK(page, rooms, Len(fights)), pages' = [pages EXCEPT ![p] = page]
      PROVE  Types'
  <2>1. DOMAIN pages' = Pages /\ \A q \in Pages : PageOK(pages'[q], rooms, Len(fights))
    BY <1>1, <1>3, OnePage
  <2>. QED  BY <1>2, <2>1, SameTypes, SameHub
<1>4. CASE PageLoads(p)
  <2> DEFINE new == [pages[p] EXCEPT !.at = "up"]
  <2>1. pages' = [pages EXCEPT ![p] = new] /\ pages[p].at = "loading"
    BY <1>4 DEF PageLoads
  <2>2. /\ new \in Page /\ new.fight = pages[p].fight /\ new.seat = pages[p].seat /\ new.saved = pages[p].saved
        /\ new.at = "up" /\ new.user = pages[p].user /\ new.sent = pages[p].sent /\ new.mail = pages[p].mail
    BY <1>1 DEF Page, Load
  <2> HIDE DEF new
  <2>3. PageOK(new, rooms, Len(fights))
    BY <1>1, <2>1, <2>2 DEF PageOK
  <2>. QED  BY <1>3, <2>1, <2>3
<1>5. CASE Connect(p)
  <2> DEFINE resuming == pages[p].saved # None
             new == [pages[p] EXCEPT !.at = "live", !.resuming = resuming]
  <2>1. /\ pages' = [pages EXCEPT ![p] = IF resuming THEN Sent(new, Ask("rejoin", pages[p].saved)) ELSE new]
        /\ pages[p].at = "up" /\ pages[p].user # None
    BY <1>1, <1>5 DEF Connect, Page
  <2>2. /\ new \in Page /\ new.fight = pages[p].fight /\ new.seat = pages[p].seat /\ new.saved = pages[p].saved
        /\ new.at = "live" /\ new.user = pages[p].user /\ new.sent = pages[p].sent /\ new.mail = pages[p].mail
    <3>1. resuming \in BOOLEAN /\ "live" \in Load
      BY DEF Load
    <3> HIDE DEF resuming
    <3>. QED  BY <1>1, <3>1 DEF Page
  <2> HIDE DEF new
  <2>3. PageOK(new, rooms, Len(fights))
    BY <1>1, <2>1, <2>2 DEF PageOK
  <2>4. resuming => PageOK(Sent(new, Ask("rejoin", pages[p].saved)), rooms, Len(fights))
    <3>1. resuming => pages[p].saved \in Rooms /\ rooms[pages[p].saved] \in Room
      BY <1>1 DEF PageOK, Page
    <3>2. "rejoin" \in Whats /\ pages[p].saved \in Rooms \cup {None}
      BY <1>1, WhatsApart DEF Page
    <3>3. /\ Ask("rejoin", pages[p].saved) \in Request /\ Ask("rejoin", pages[p].saved).room = pages[p].saved
      BY <3>2, AskOK
    <3>. QED  BY <1>1, <2>3, <3>1, <3>3, SentOK
  <2>. QED  BY <1>3, <2>1, <2>3, <2>4
<1>6. CASE CatchUp(p)
  <2> DEFINE new == [pages[p] EXCEPT !.game = rooms[pages[p].seat]]
  <2>1. pages' = [pages EXCEPT ![p] = new]
    BY <1>6 DEF CatchUp
  <2>2. rooms[pages[p].seat] \in Room
    <3>1. pages[p].game \in Room /\ pages[p].seat = pages[p].game.code
      BY <1>1, <1>6 DEF CatchUp, Page
    <3>2. pages[p].seat # None
      BY <3>1, Constants DEF Room
    <3>. QED  BY <1>1, <3>2 DEF PageOK
  <2>3. /\ new \in Page /\ new.fight = pages[p].fight /\ new.seat = pages[p].seat /\ new.saved = pages[p].saved
        /\ new.at = pages[p].at /\ new.user = pages[p].user /\ new.sent = pages[p].sent /\ new.mail = pages[p].mail
    BY <1>1, <2>2 DEF Page
  <2> HIDE DEF new
  <2>4. PageOK(new, rooms, Len(fights))
    BY <1>1, <2>3 DEF PageOK
  <2>. QED  BY <1>3, <2>1, <2>4
<1>. QED  BY <1>4, <1>5, <1>6

LEMMA NextTypes == Types /\ [Next]_vars => Types'
<1> SUFFICES ASSUME Types, [Next]_vars PROVE Types'
  OBVIOUS
<1>1. ASSUME NEW s \in Slots, Step(s) PROVE Types'
  <2>1. \/ OwnStep(s)
        \/ NewPage(s) \/ KeepSession(s) \/ DropSession(s)
        \/ CloseContext(s) \/ CloseBrowser(s) \/ Navigate(s) \/ NavigateAll(s)
        \/ ApiAnswers(s) \/ SignUp(s) \/ ClickButton(s) \/ SendToHub(s) \/ InvokeHub(s) \/ ForgetResult(s)
        \/ InjectRoom(s)
    BY <1>1 DEF Step, OwnStep
  <2>. QED  BY <2>1, OwnStepTypes, RegistryTypes, EmptyingTypes, PageStepTypes, InjectTypes
<1>2. ASSUME NEW s \in Slots, GivesUp(s) \/ ResumeAgain(s) \/ StartCall(s) PROVE Types'
  BY <1>2, GivesUpTypes, EmptyingTypes, StartTypes
<1>3. ASSUME NEW p \in Pages, PageStep(p) \/ Meddle(p) PROVE Types'
  BY <1>3, LoadTypes, ReceiveTypes, SeatTypes, ServeTypes, PlaceTypes, MeddleTypes DEF PageStep
<1>4. CASE UNCHANGED vars
  BY <1>4 DEF vars, hub, Types, RoomsOK
<1>. QED  BY <1>1, <1>2, <1>3, <1>4 DEF Next

LEMMA TypesAlways == Spec => []Types
BY InitTypes, NextTypes, PTL DEF Spec

\* The registry, the pages, the rooms and the calls keep their types, whatever the agent does.
THEOREM TypeOKHolds == Spec => []TypeOK
<1>1. Types => TypeOK
  <2> SUFFICES ASSUME Types PROVE TypeOK
    OBVIOUS
  <2>1. \A p \in Pages : /\ pages[p].at \in Load
                         /\ pages[p].user \in Ids \cup {None} /\ pages[p].saved \in Rooms \cup {None}
                         /\ pages[p].game \in Room \cup {None} /\ pages[p].fight <= Len(fights)
    BY DEF Types, PageOK, Page
  <2>2. \A r \in Rooms : rooms[r] \in Room \cup {None} /\ (rooms[r] # None => rooms[r].code = r)
    BY DEF Types, RoomsOK
  <2>3. \A s \in Slots : /\ calls[s].end \in {"running", "done", "error"}
                         /\ calls[s].fate \in [Ids -> Fate] /\ calls[s].fight <= Len(fights)
    BY DEF Types, CallOK, Call
  <2>4. sessions \in [Ids -> 0..MaxPages] /\ shots \in Nat /\ events <= MaxEvents
    BY Constants DEF Types
  <2>. QED  BY <2>1, <2>2, <2>3, <2>4 DEF TypeOK
<1>. QED  BY <1>1, TypesAlways, PTL

(***************************************************************************)
(* What the calls know, and what the pages and their messages tell         *)
(***************************************************************************)

Stretches == {"find", "fresh", "keep", "drop", "authed", "needsAuth", "send", "invoke", "clear"}
Doing(c, ops) == c.end = "running" /\ Head(c.todo).do \in ops

OwnShot(G, i, n, shot) == n # 0 /\ G[n].by = i => G[n].shot = shot

\* What a fact means for a call c, with the registry S, the pages P and the fights G; in
\* the middle of a stretch, nobody else takes a step.
Fact(S, P, G, c, stretch, f, i) ==
  /\ f = "found" => c.on[i] = S[i] /\ S[i] # 0
  /\ f = "vacant" => S[i] = 0
  /\ f = "opened" /\ stretch =>
       /\ S[i] = 0 /\ c.on[i] \in Pages /\ \A k \in Ids : S[k] # c.on[i]
       /\ P[c.on[i]].at = "blank" /\ P[c.on[i]].user = None /\ P[c.on[i]].mail = <<>>
  /\ f = "shut" /\ stretch =>
       c.on[i] = S[i] /\ S[i] # 0 /\ P[c.on[i]].at = "closed" /\ P[c.on[i]].user = None
  /\ f = "inside" => c.inPage \in {0, c.on[i]} /\ (stretch => c.inPage # 0)
  /\ f = "cleared" /\ stretch => P[c.on[i]].fight = 0
  /\ f = "asked" => c.on[i] = S[i] /\ S[i] # 0 /\ OwnShot(G, i, P[c.on[i]].fight, c.shot)

Known(S, P, G, c) ==
  {y \in Facts : y[2] \in Subjects(c.todo) => Fact(S, P, G, c, Doing(c, Stretches), y[1], y[2])}

\* A call knows what the rest of its script relies on.
Good(S, P, G, c) == c.end = "running" => c.todo \in Sound(c.id, Known(S, P, G, c), {}, {})

Solo(C) == \A s, o \in Slots : Doing(C[s], Stretches) /\ Doing(C[o], Stretches) => s = o

Apart(C) ==
  \A s, o \in Slots : s # o /\ C[s].end = "running" /\ C[o].end = "running" =>
    Subjects(C[s].todo) \cap Subjects(C[o].todo) = {}

\* The session of a page, or the call that is about to register it.
Registered(S, P, C) ==
  \A p \in Pages : P[p].at # "closed" =>
    \/ \E i \in Ids : S[i] = p
    \/ \E s \in Slots : Doing(C[s], {"keep"}) /\ C[s].on[Head(C[s].todo).id] = p

Owners(S, P) ==
  /\ \A i, j \in Ids : S[i] = S[j] /\ S[i] # 0 => i = j
  /\ \A p \in Pages : P[p].user # None => S[P[p].user] = p

\* A call that awaits an answer of the hub, in page p.
Waits(c, p) == Doing(c, {"answer"}) /\ c.inPage = p /\ c.waits

\* The hub calls of a page that tools wait for, and their answers: one for a call.
Out(page, p, C) ==
  LET sent == page.sent
      mail == page.mail
  IN  /\ \A k \in DOMAIN sent : sent[k].slot # 0 => Waits(C[sent[k].slot], p)
      /\ \A k \in DOMAIN mail : mail[k].what = "answer" => Waits(C[mail[k].slot], p)
      /\ \A k, l \in DOMAIN sent : sent[k].slot # 0 /\ sent[k].slot = sent[l].slot => k = l
      /\ \A k, l \in DOMAIN mail :
           mail[k].what = "answer" /\ mail[l].what = "answer" /\ mail[k].slot = mail[l].slot => k = l
      /\ \A k \in DOMAIN sent, l \in DOMAIN mail :
           sent[k].slot # 0 /\ mail[l].what = "answer" => mail[l].slot # sent[k].slot
      /\ \A k \in DOMAIN sent : sent[k].what = "place" => sent[k].slot # 0 /\ C[sent[k].slot].shot = sent[k].shot

\* After the news of a fight that session i has started comes the answer to the call that asked for it.
News(page, i, G, C) ==
  LET mail == page.mail
  IN  \A k \in DOMAIN mail : mail[k].what = "fight" /\ G[mail[k].n].by = i =>
        \E l \in DOMAIN mail : /\ k < l /\ mail[l].what = "answer"
                               /\ C[mail[l].slot].shot = G[mail[k].n].shot

Reported(G, c) == c.fight # 0 /\ G[c.fight].by = c.id => G[c.fight].shot = c.shot

CallsInv(S, P, G, C) ==
  Solo(C) /\ Apart(C) /\ \A s \in Slots : Good(S, P, G, C[s]) /\ Reported(G, C[s])
PagesInv(S, P, G, C) ==
  /\ Registered(S, P, C) /\ Owners(S, P) /\ \A p \in Pages : Out(P[p], p, C)
  /\ \A i \in Ids : S[i] # 0 => News(P[S[i]], i, G, C)

AInv == Types /\ CallsInv(sessions, pages, fights, calls) /\ PagesInv(sessions, pages, fights, calls)

LEMMA SubjectsOfRest ==
  ASSUME NEW t \in Seq(Steps), NEW m \in Nat, m > 0
  PROVE  Subjects(SubSeq(t, m, Len(t))) \subseteq Subjects(t)
<1> DEFINE u == SubSeq(t, m, Len(t))
<1>1. \A k \in DOMAIN u : k + m - 1 \in DOMAIN t /\ u[k] = t[k + m - 1]
  OBVIOUS
<1> HIDE DEF u
<1>2. Subjects(u) \subseteq Subjects(t)
  BY <1>1 DEF Subjects
<1>. QED  BY <1>2 DEF u

LEMMA HeadIsSubject ==
  ASSUME NEW t \in Seq(Steps), t # <<>>, Head(t).do # "skip"
  PROVE  Head(t).id \in Subjects(t)
<1>1. 1 \in DOMAIN t /\ Head(t) = t[1]
  OBVIOUS
<1>. QED  BY <1>1 DEF Subjects

LEMMA FactInStretch ==
  ASSUME NEW S, NEW P, NEW G, NEW c, NEW stretch \in BOOLEAN, NEW f, NEW i, Fact(S, P, G, c, TRUE, f, i)
  PROVE  Fact(S, P, G, c, stretch, f, i)
BY DEF Fact

\* A call with a script that fits what it knows, and knows it even in a stretch.
LEMMA GoodToGo ==
  ASSUME NEW S, NEW P, NEW G, NEW c, NEW K \in SUBSET Facts, c.todo \in Sound(c.id, K, {}, {}),
         \A y \in K : y[2] \in Subjects(c.todo) => Fact(S, P, G, c, TRUE, y[1], y[2])
  PROVE  Good(S, P, G, c)
<1>1. K \subseteq Known(S, P, G, c)
  <2>1. Doing(c, Stretches) \in BOOLEAN
    BY DEF Doing
  <2>. QED  BY <2>1, FactInStretch DEF Known
<1>. QED  BY <1>1, Weaker DEF Good

\* The fields of a call that a move leaves alone.
SameButTodo(c, d) ==
  c.end = d.end /\ c.id = d.id /\ c.on = d.on /\ c.inPage = d.inPage /\ c.shot = d.shot /\ c.fight = d.fight /\ c.waits = d.waits

LEMMA SettledGood ==
  ASSUME NEW S, NEW P, NEW G, NEW d \in Call, d.end = "running", NEW K \in SUBSET Facts,
         NEW rest \in Sound(d.id, K, {}, {}),
         \A y \in K : y[2] \in Subjects(rest) => Fact(S, P, G, d, TRUE, y[1], y[2])
  PROVE  LET e == Settled(d, rest)
         IN  /\ Good(S, P, G, e)
             /\ e = Ended(d, "done") \/ (SameButTodo(e, d) /\ Subjects(e.todo) \subseteq Subjects(rest))
<1> DEFINE e == Settled(d, rest)
<1>0. rest \in Seq(Steps)
  BY DEF Sound
<1>1. CASE e = Ended(d, "done")
  <2>1. e.end # "running"
    BY <1>1, EndedOK
  <2>. QED  BY <1>1, <2>1 DEF Good
<1>2. ASSUME NEW todo \in Seq(Steps), todo # <<>>, e = [d EXCEPT !.todo = todo, !.left = Ids],
             \/ todo = rest
             \/ rest # <<>> /\ Head(rest).do = "skip" /\ todo = SubSeq(rest, Head(rest).arg + 2, Len(rest))
      PROVE  Good(S, P, G, e) /\ SameButTodo(e, d) /\ Subjects(e.todo) \subseteq Subjects(rest)
  <2>1. todo \in Sound(d.id, K, {}, {}) /\ Subjects(todo) \subseteq Subjects(rest)
    <3>1. CASE todo = rest
      BY <3>1
    <3>2. CASE rest # <<>> /\ Head(rest).do = "skip" /\ todo = SubSeq(rest, Head(rest).arg + 2, Len(rest))
      <4>1. Head(rest).arg \in Nat /\ todo \in Sound(d.id, K, {}, {})
        BY <3>2, FirstStep
      <4>2. Head(rest).arg + 2 \in Nat /\ Head(rest).arg + 2 > 0
        BY <4>1
      <4>. QED  BY <3>2, <4>1, <4>2, <1>0, SubjectsOfRest
    <3>. QED  BY <1>2, <3>1, <3>2
  <2>2. e.todo = todo /\ SameButTodo(e, d)
    BY <1>2 DEF Call, SameButTodo
  <2>3. \A f, i : Fact(S, P, G, d, TRUE, f, i) => Fact(S, P, G, e, TRUE, f, i)
    BY <2>2 DEF Fact, SameButTodo
  <2> HIDE DEF e
  <2>4. e.id = d.id /\ e.todo \in Sound(e.id, K, {}, {})
    BY <2>1, <2>2 DEF SameButTodo
  <2>5. \A y \in K : y[2] \in Subjects(e.todo) => Fact(S, P, G, e, TRUE, y[1], y[2])
    BY <2>1, <2>2, <2>3
  <2>6. Good(S, P, G, e)
    BY <2>4, <2>5, GoodToGo
  <2>. QED  BY <2>1, <2>2, <2>6
<1>3. \/ e = Ended(d, "done")
      \/ \E todo \in Seq(Steps) :
           /\ todo # <<>> /\ e = [d EXCEPT !.todo = todo, !.left = Ids]
           /\ \/ todo = rest
              \/ rest # <<>> /\ Head(rest).do = "skip" /\ todo = SubSeq(rest, Head(rest).arg + 2, Len(rest))
  BY <1>0, SettledOK
<1>. QED  BY <1>1, <1>2, <1>3

\* What a call c, ready to step as d, is after the step.
Onward(S, P, G, d, e) ==
  /\ Good(S, P, G, e)
  /\ e.end = "running" => SameButTodo(e, d) /\ Subjects(e.todo) \subseteq Subjects(d.todo)
  /\ Reported(G, d) => Reported(G, e)

LEMMA EndedOnward ==
  ASSUME NEW S, NEW P, NEW G, NEW d \in Call, NEW end \in {"done", "error"}
  PROVE  Onward(S, P, G, d, Ended(d, end))
<1>1. Ended(d, end).end # "running"
  BY EndedOK
<1>2. Reported(G, d) => Reported(G, Ended(d, end))
  <2>1. \/ Ended(d, end).fight = 0
        \/ /\ Ended(d, end).fight = d.fight /\ Ended(d, end).id = d.id /\ Ended(d, end).shot = d.shot
    BY EndedOK
  <2>. QED  BY <2>1 DEF Reported
<1>. QED  BY <1>1, <1>2 DEF Onward, Good

LEMMA SettledOnward ==
  ASSUME NEW S, NEW P, NEW G, NEW d \in Call, d.end = "running", NEW K \in SUBSET Facts, NEW n \in Nat,
         After(d, n) \in Sound(d.id, K, {}, {}),
         \A y \in K : y[2] \in Subjects(d.todo) => Fact(S, P, G, d, TRUE, y[1], y[2])
  PROVE  Onward(S, P, G, d, Settled(d, After(d, n)))
<1> DEFINE e == Settled(d, After(d, n))
<1>1. d.todo \in Seq(Steps) /\ n + 1 \in Nat /\ n + 1 > 0
  BY DEF Call
<1>2. Subjects(After(d, n)) \subseteq Subjects(d.todo)
  BY <1>1, SubjectsOfRest DEF After
<1>3. Good(S, P, G, e) /\ (e = Ended(d, "done") \/ (SameButTodo(e, d) /\ Subjects(e.todo) \subseteq Subjects(After(d, n))))
  BY <1>2, SettledGood
<1> HIDE DEF e
<1>4. CASE e = Ended(d, "done")
  BY <1>4, EndedOnward DEF e
<1>5. CASE SameButTodo(e, d) /\ Subjects(e.todo) \subseteq Subjects(After(d, n))
  <2>1. Reported(G, d) => Reported(G, e)
    BY <1>5 DEF Reported, SameButTodo
  <2>. QED  BY <1>2, <1>3, <1>5, <2>1 DEF Onward, e
<1>. QED  BY <1>3, <1>4, <1>5

\* A call in front of step x.
LEMMA NeededHolds ==
  ASSUME NEW S, NEW P, NEW G, NEW c \in Call, c.end = "running", c.todo # <<>>, Good(S, P, G, c), Head(c.todo).do # "skip"
  PROVE  /\ \A f \in Needed(Head(c.todo).do) : Fact(S, P, G, c, Doing(c, Stretches), f, Head(c.todo).id)
         /\ Head(c.todo).id \in Subjects(c.todo) /\ Head(c.todo).id \in Ids
         /\ Head(c.todo).do = "result" => Head(c.todo).id = c.id
         /\ Head(c.todo).do \in Paired =>
              Len(c.todo) > 1 /\ c.todo[2].do = Second(Head(c.todo).do) /\ c.todo[2].id = Head(c.todo).id
<1>1. c.todo \in Seq(Steps)
  BY DEF Call
<1>2. c.todo \in Sound(c.id, Known(S, P, G, c), {}, {})
  BY DEF Good
<1>3. Head(c.todo).id \in Subjects(c.todo)
  BY <1>1, HeadIsSubject
<1>4. /\ \A f \in Needed(Head(c.todo).do) : <<f, Head(c.todo).id>> \in Known(S, P, G, c)
      /\ Head(c.todo).do \in Paired =>
           Len(c.todo) > 1 /\ c.todo[2].do = Second(Head(c.todo).do) /\ c.todo[2].id = Head(c.todo).id
      /\ Head(c.todo).do = "result" => Head(c.todo).id = c.id
      /\ Head(c.todo) \in Steps
  BY <1>2, FirstStep
<1>. QED  BY <1>3, <1>4 DEF Known, Steps

LEMMA FactsArePairs ==
  ASSUME NEW K \in SUBSET Facts, NEW y \in K
  PROVE  y[1] \in Names /\ y[2] \in Ids /\ <<y[1], y[2]>> \in K
<1>1. y \in Names \X Ids
  BY DEF Facts
<1>2. y[1] \in Names /\ y[2] \in Ids /\ y = <<y[1], y[2]>>
  BY <1>1
<1>. QED  BY <1>2

LEMMA MovedOnward ==
  ASSUME NEW S, NEW P, NEW G, NEW c \in Call, c.end = "running", c.todo # <<>>, Good(S, P, G, c),
         NEW x, x = Head(c.todo), x.do # "skip",
         NEW T, NEW Q, NEW H, NEW d \in Call, d.end = "running", d.id = c.id, d.todo = c.todo,
         \A j \in Subjects(c.todo) : c.on[j] = S[j] /\ S[j] # 0 /\ ~ (j = x.id /\ x.do \in Renaming) => d.on[j] = T[j] /\ T[j] # 0,
         \A f \in Brought(x.do) : Fact(T, Q, H, d, TRUE, f, x.id),
         x.do = "answer" /\ Fact(S, P, G, c, Doing(c, Stretches), "asked", x.id) => Fact(T, Q, H, d, TRUE, "asked", x.id),
         x.do = "invoke" /\ x.arg = "place" /\ Fact(S, P, G, c, Doing(c, Stretches), "cleared", x.id)
           => Fact(T, Q, H, d, TRUE, "asked", x.id)
  PROVE  Onward(T, Q, H, d, Moved(d))
<1> DEFINE A == Known(S, P, G, c)
<1>1. c.todo \in Sound(c.id, A, {}, {}) /\ c.todo \in Seq(Steps)
  BY DEF Good, Call
<1>2. PICK K \in SUBSET Facts : Leads(x, A, K) /\ SubSeq(c.todo, 2, Len(c.todo)) \in Sound(c.id, K, {}, {})
  BY <1>1, FirstStep
<1>3. After(d, 1) \in Sound(d.id, K, {}, {})
  BY <1>2 DEF After
<1>4. x.id \in Subjects(c.todo)
  BY <1>1, HeadIsSubject
<1>5. \A y \in K : y[2] \in Subjects(d.todo) => Fact(T, Q, H, d, TRUE, y[1], y[2])
  <2>0. SUFFICES \A f \in Names, j \in Ids : <<f, j>> \in K => (j \in Subjects(c.todo) => Fact(T, Q, H, d, TRUE, f, j))
    BY FactsArePairs
  <2>. SUFFICES ASSUME NEW f \in Names, NEW j \in Ids, <<f, j>> \in K, j \in Subjects(c.todo)
        PROVE  Fact(T, Q, H, d, TRUE, f, j)
    OBVIOUS
  <2>1. <<f, j>> \in K /\ j \in Subjects(c.todo)
    OBVIOUS
  <2>2. \/ f = "found" /\ <<f, j>> \in A /\ ~ (j = x.id /\ x.do \in Renaming)
        \/ j = x.id /\ f \in Brought(x.do)
        \/ j = x.id /\ f = "asked" /\ x.do = "answer" /\ <<"asked", j>> \in A
        \/ j = x.id /\ f = "asked" /\ x.do = "invoke" /\ x.arg = "place" /\ <<"cleared", j>> \in A
    BY <1>2, <2>1 DEF Leads
  <2>3. \A g : <<g, j>> \in A => Fact(S, P, G, c, Doing(c, Stretches), g, j)
    BY <2>1 DEF Known
  <2> HIDE DEF A
  <2>4. CASE f = "found" /\ <<f, j>> \in A /\ ~ (j = x.id /\ x.do \in Renaming)
    <3>1. c.on[j] = S[j] /\ S[j] # 0
      BY <2>3, <2>4 DEF Fact
    <3>2. d.on[j] = T[j] /\ T[j] # 0
      BY <3>1, <2>1, <2>4
    <3>. QED  BY <3>2, <2>4 DEF Fact
  <2>. QED  BY <2>2, <2>3, <2>4
<1>. QED  BY <1>3, <1>5, SettledOnward DEF Moved

\* The same for a step that throws, or passes over the login.
LEMMA AsideOnward ==
  ASSUME NEW S, NEW P, NEW G, NEW c \in Call, c.end = "running", c.todo # <<>>, Good(S, P, G, c),
         NEW x, x = Head(c.todo),
         NEW T, NEW Q, NEW H, NEW d \in Call, d.end = "running", d.id = c.id, d.todo = c.todo,
         \A j \in Subjects(c.todo) : c.on[j] = S[j] /\ S[j] # 0 => d.on[j] = T[j] /\ T[j] # 0,
         x.do = "invoke" /\ Fact(S, P, G, c, Doing(c, Stretches), "inside", x.id) => Fact(T, Q, H, d, TRUE, "inside", x.id)
  PROVE  /\ x.do \in Throwing => Onward(T, Q, H, d, Thrown(d))
         /\ x.do = "authed" => x.arg \in Nat /\ Onward(T, Q, H, d, Settled(d, After(d, x.arg)))
<1> DEFINE A == Known(S, P, G, c)
<1>1. c.todo \in Sound(c.id, A, {}, {}) /\ c.todo \in Seq(Steps)
  BY DEF Good, Call
<1>2. ASSUME NEW K \in SUBSET Facts, Rescues(x, A, K), NEW n \in Nat, SubSeq(c.todo, n + 1, Len(c.todo)) \in Sound(c.id, K, {}, {})
      PROVE  Onward(T, Q, H, d, Settled(d, After(d, n)))
  <2>1. After(d, n) \in Sound(d.id, K, {}, {})
    BY <1>2 DEF After
  <2>2. \A y \in K : y[2] \in Subjects(d.todo) => Fact(T, Q, H, d, TRUE, y[1], y[2])
    <3>0. SUFFICES \A f \in Names, j \in Ids : <<f, j>> \in K => (j \in Subjects(c.todo) => Fact(T, Q, H, d, TRUE, f, j))
      BY FactsArePairs
    <3>. SUFFICES ASSUME NEW f \in Names, NEW j \in Ids, <<f, j>> \in K, j \in Subjects(c.todo)
          PROVE  Fact(T, Q, H, d, TRUE, f, j)
      OBVIOUS
    <3>1. <<f, j>> \in K /\ j \in Subjects(c.todo)
      OBVIOUS
    <3>2. <<f, j>> \in A /\ (f = "found" \/ (f = "inside" /\ j = x.id /\ x.do = "invoke"))
      BY <1>2, <3>1 DEF Rescues
    <3>3. Fact(S, P, G, c, Doing(c, Stretches), f, j)
      BY <3>1, <3>2 DEF Known
    <3> HIDE DEF A
    <3>4. CASE f = "found"
      <4>1. c.on[j] = S[j] /\ S[j] # 0
        BY <3>3, <3>4 DEF Fact
      <4>2. d.on[j] = T[j] /\ T[j] # 0
        BY <4>1, <3>1
      <4>. QED  BY <4>2, <3>4 DEF Fact
    <3>. QED  BY <3>2, <3>3, <3>4
  <2>. QED  BY <2>1, <2>2, SettledOnward
<1>3. ASSUME x.do \in Throwing PROVE Onward(T, Q, H, d, Thrown(d))
  <2>1. x \in Steps
    BY <1>1
  <2>2. CASE x.or = 0
    <3>1. Thrown(d) = Ended(d, "error")
      BY <2>2 DEF Thrown
    <3>. QED  BY <3>1, EndedOnward
  <2>3. CASE x.or # 0
    <3>1. Thrown(d) = Settled(d, After(d, x.or)) /\ x.or \in Nat
      BY <2>1, <2>3 DEF Thrown, Steps
    <3>2. PICK K \in SUBSET Facts : Rescues(x, A, K) /\ SubSeq(c.todo, x.or + 1, Len(c.todo)) \in Sound(c.id, K, {}, {})
      BY <1>1, <1>3, <2>3, FirstStep
    <3>. QED  BY <3>1, <3>2, <1>2
  <2>. QED  BY <2>2, <2>3
<1>4. ASSUME x.do = "authed" PROVE x.arg \in Nat /\ Onward(T, Q, H, d, Settled(d, After(d, x.arg)))
  <2>1. x.arg \in Nat
    BY <1>1, <1>4, FirstStep
  <2>2. PICK K \in SUBSET Facts : Rescues(x, A, K) /\ SubSeq(c.todo, x.arg + 1, Len(c.todo)) \in Sound(c.id, K, {}, {})
    BY <1>1, <1>4, FirstStep
  <2>. QED  BY <2>1, <2>2, <1>2
<1>. QED  BY <1>3, <1>4

\* A call that waits while others step: it may only be torn off its page, or hear its answer.
Kept(c, d) ==
  /\ d.end = c.end /\ d.id = c.id /\ d.todo = c.todo /\ d.on = c.on /\ d.shot = c.shot /\ d.fight = c.fight
  /\ d.inPage \in {0, c.inPage}

LEMMA KeptGood ==
  ASSUME NEW S, NEW P, NEW G, NEW T, NEW Q, NEW H, NEW c, NEW d, Kept(c, d), Good(S, P, G, c), ~ Doing(c, Stretches),
         c.end = "running" =>
           \A j \in Subjects(c.todo) :
             T[j] = S[j] /\ (c.on[j] = S[j] /\ S[j] # 0 /\ OwnShot(G, j, P[S[j]].fight, c.shot)
                               => OwnShot(H, j, Q[S[j]].fight, c.shot))
  PROVE  Good(T, Q, H, d)
<1> SUFFICES ASSUME c.end = "running" PROVE d.todo \in Sound(d.id, Known(T, Q, H, d), {}, {})
  BY DEF Good, Kept
<1>1. c.todo \in Sound(c.id, Known(S, P, G, c), {}, {})
  BY DEF Good
<1>2. Doing(d, Stretches) = FALSE /\ Doing(c, Stretches) = FALSE
  BY DEF Doing, Kept
<1>3. \A f, j : j \in Subjects(c.todo) /\ Fact(S, P, G, c, FALSE, f, j) => Fact(T, Q, H, d, FALSE, f, j)
  <2>1. TAKE f, j
  <2>2. HAVE j \in Subjects(c.todo) /\ Fact(S, P, G, c, FALSE, f, j)
  <2>3. T[j] = S[j] /\ d.on[j] = c.on[j] /\ d.shot = c.shot /\ d.inPage \in {0, c.inPage}
    BY <2>2 DEF Kept
  <2>4. f = "asked" => c.on[j] = S[j] /\ S[j] # 0 /\ OwnShot(H, j, Q[S[j]].fight, c.shot)
    <3>1. f = "asked" => c.on[j] = S[j] /\ S[j] # 0 /\ OwnShot(G, j, P[S[j]].fight, c.shot)
      BY <2>2 DEF Fact
    <3>. QED  BY <3>1, <2>2
  <2>. QED  BY <2>2, <2>3, <2>4 DEF Fact
<1>4. Known(S, P, G, c) \subseteq Known(T, Q, H, d)
  BY <1>2, <1>3 DEF Known, Kept
<1>5. c.id = d.id /\ c.todo = d.todo
  BY DEF Kept
<1>. QED  BY <1>1, <1>4, <1>5, Weaker

Idle(C, s) == \A o \in Slots : o # s => ~ Doing(C[o], Stretches)

\* All calls after a step of call s; S, P is what the session registry and the pages were, T, Q what they are.
LEMMA CallsAfterStep ==
  ASSUME NEW S, NEW P, NEW G, NEW C, NEW T, NEW Q, NEW D, NEW s \in Slots, NEW x, NEW d,
         S \in [Ids -> 0..MaxPages],
         CallsInv(S, P, G, C), C[s].end = "running", C[s].todo \in Seq(Steps), C[s].todo # <<>>,
         x = Head(C[s].todo), x.do # "skip",
         Idle(C, s),
         d.todo = C[s].todo, Reported(G, d), Onward(T, Q, G, d, D[s]),
         \A o \in Slots \ {s} : Kept(C[o], D[o]),
         \A j \in Ids : T[j] = S[j] \/ j = x.id,
         \A p \in Pages : Q[p].fight \in {0, P[p].fight}
  PROVE  CallsInv(T, Q, G, D)
<1>1. x.id \in Subjects(C[s].todo)
  BY HeadIsSubject
<1>2. D[s].end = "running" => Subjects(D[s].todo) \subseteq Subjects(C[s].todo)
  BY DEF Onward
<1>3. \A o \in Slots \ {s} : D[o].end = C[o].end /\ D[o].todo = C[o].todo /\ D[o].id = C[o].id
                             /\ D[o].shot = C[o].shot /\ D[o].fight = C[o].fight
  BY DEF Kept
<1>4. Apart(D)
  <2>1. \A o \in Slots : D[o].end = "running" => C[o].end = "running" /\ Subjects(D[o].todo) \subseteq Subjects(C[o].todo)
    BY <1>2, <1>3
  <2>. QED  BY <2>1 DEF CallsInv, Apart
<1>5. Solo(D)
  <2>1. \A o \in Slots \ {s} : ~ Doing(D[o], Stretches)
    BY <1>3 DEF Idle, Doing
  <2>. QED  BY <2>1 DEF Solo
<1>6. \A o \in Slots : Reported(G, D[o])
  <2>1. Reported(G, D[s])
    BY DEF Onward
  <2>2. \A o \in Slots \ {s} : Reported(G, D[o])
    BY <1>3 DEF CallsInv, Reported
  <2>. QED  BY <2>1, <2>2
<1>7. ASSUME NEW o \in Slots PROVE Good(T, Q, G, D[o])
  <2>1. CASE o = s
    BY <2>1 DEF Onward
  <2>2. CASE o # s
    <3>1. Kept(C[o], D[o]) /\ ~ Doing(C[o], Stretches) /\ Good(S, P, G, C[o])
      BY <2>2 DEF Idle, CallsInv
    <3>2. ASSUME C[o].end = "running", NEW j \in Subjects(C[o].todo), j \in Ids
          PROVE  T[j] = S[j] /\ (C[o].on[j] = S[j] /\ S[j] # 0 /\ OwnShot(G, j, P[S[j]].fight, C[o].shot)
                                   => OwnShot(G, j, Q[S[j]].fight, C[o].shot))
      <4>1. j # x.id
        BY <1>1, <2>2, <3>2 DEF CallsInv, Apart
      <4>2. T[j] = S[j]
        BY <4>1, <3>2
      <4>3. S[j] # 0 => Q[S[j]].fight \in {0, P[S[j]].fight}
        <5>1. S[j] \in 0..MaxPages
          BY <3>2
        <5>2. S[j] # 0 => S[j] \in Pages
          BY <5>1, Constants
        <5>. QED  BY <5>2
      <4>. QED  BY <4>2, <4>3 DEF OwnShot
    <3>3. C[o].end = "running" => Subjects(C[o].todo) \subseteq Ids
      <4>1. SUFFICES ASSUME C[o].end = "running" PROVE Subjects(C[o].todo) \subseteq Ids
        OBVIOUS
      <4>2. C[o].todo \in Seq(Steps)
        BY <3>1, <4>1 DEF Good, Sound
      <4>3. \A k \in DOMAIN C[o].todo : C[o].todo[k] \in Steps
        BY <4>2
      <4>. QED  BY <4>3 DEF Subjects, Steps
    <3>. QED  BY <3>1, <3>2, <3>3, KeptGood
  <2>. QED  BY <2>1, <2>2
<1>. QED  BY <1>4, <1>5, <1>6, <1>7 DEF CallsInv

\* The messages of a page that stay, with the calls that wait for some of them.
Heeds(C, D, p) ==
  \A o \in Slots : Waits(C[o], p) => Waits(D[o], p) /\ D[o].shot = C[o].shot

Typed(page) == page.sent \in Seq(Request) /\ page.mail \in Seq(Message)

LEMMA TypedMessages ==
  ASSUME NEW page, Typed(page)
  PROVE  /\ \A k \in DOMAIN page.sent : page.sent[k].slot # 0 => page.sent[k].slot \in Slots
         /\ \A k \in DOMAIN page.mail : page.mail[k].what = "answer" => page.mail[k].slot \in Slots
<1>1. \A k \in DOMAIN page.sent : page.sent[k] \in Request
  BY DEF Typed
<1>2. \A k \in DOMAIN page.mail : page.mail[k] \in Message
  BY DEF Typed
<1>. QED  BY <1>1, <1>2, MessagesOK DEF Request

LEMMA OutStays ==
  ASSUME NEW C, NEW D, NEW p, NEW page, NEW new, Typed(page), Out(page, p, C),
         \/ new.sent = <<>> /\ new.mail = <<>>
         \/ new.sent = page.sent /\ new.mail = page.mail /\ Heeds(C, D, p)
  PROVE  Out(new, p, D)
<1>1. CASE new.sent = <<>> /\ new.mail = <<>>
  BY <1>1 DEF Out
<1>2. CASE new.sent = page.sent /\ new.mail = page.mail /\ Heeds(C, D, p)
  <2> DEFINE sent == page.sent
             mail == page.mail
  <2>1. /\ \A k \in DOMAIN sent : sent[k].slot # 0 => Waits(D[sent[k].slot], p) /\ D[sent[k].slot].shot = C[sent[k].slot].shot
        /\ \A k \in DOMAIN mail : mail[k].what = "answer" => Waits(D[mail[k].slot], p)
    BY <1>2, TypedMessages DEF Out, Heeds
  <2>2. \A k \in DOMAIN sent : sent[k].what = "place" => sent[k].slot # 0 /\ D[sent[k].slot].shot = sent[k].shot
    BY <2>1 DEF Out
  <2>. QED  BY <1>2, <2>1, <2>2 DEF Out
<1>. QED  BY <1>1, <1>2

LEMMA NewsStays ==
  ASSUME NEW C, NEW D, NEW p, NEW G, NEW i, NEW page, NEW new, Typed(page), Out(page, p, C), News(page, i, G, C),
         new.mail = <<>> \/ (new.mail = page.mail /\ Heeds(C, D, p))
  PROVE  News(new, i, G, D)
<1>1. CASE new.mail = <<>>
  BY <1>1 DEF News
<1>2. CASE new.mail = page.mail /\ Heeds(C, D, p)
  <2>1. \A k \in DOMAIN page.mail : page.mail[k].what = "answer" => D[page.mail[k].slot].shot = C[page.mail[k].slot].shot
    BY <1>2, TypedMessages DEF Out, Heeds
  <2>. QED  BY <1>2, <2>1 DEF News
<1>. QED  BY <1>1, <1>2

LEMMA KeptHeeds ==
  ASSUME NEW C, NEW D, NEW p, NEW s \in Slots, ~ Waits(C[s], p),
         \A o \in Slots \ {s} : Kept(C[o], D[o]) /\ D[o].waits = C[o].waits /\ (C[o].inPage = p => D[o].inPage = p)
  PROVE  Heeds(C, D, p)
BY DEF Heeds, Kept, Waits, Doing

LEMMA RegisteredStays ==
  ASSUME NEW S, NEW P, NEW C, NEW Q, NEW D, NEW s \in Slots,
         Registered(S, P, C), ~ Doing(C[s], {"keep"}),
         \A o \in Slots \ {s} : Kept(C[o], D[o]),
         \A p \in Pages : Q[p].at # "closed" => P[p].at # "closed"
  PROVE  Registered(S, Q, D)
<1>1. SUFFICES ASSUME NEW p \in Pages, Q[p].at # "closed"
      PROVE  (\E i \in Ids : S[i] = p) \/ \E o \in Slots : Doing(D[o], {"keep"}) /\ D[o].on[Head(D[o].todo).id] = p
  BY DEF Registered
<1>2. (\E i \in Ids : S[i] = p) \/ \E o \in Slots : Doing(C[o], {"keep"}) /\ C[o].on[Head(C[o].todo).id] = p
  BY <1>1 DEF Registered
<1>3. ASSUME NEW o \in Slots, Doing(C[o], {"keep"}), C[o].on[Head(C[o].todo).id] = p
      PROVE  Doing(D[o], {"keep"}) /\ D[o].on[Head(D[o].todo).id] = p
  BY <1>3 DEF Kept, Doing
<1>. QED  BY <1>2, <1>3

LEMMA OwnersStay ==
  ASSUME NEW S, NEW P, NEW Q, Owners(S, P), \A p \in Pages : Q[p].user \in {None, P[p].user}
  PROVE  Owners(S, Q)
BY DEF Owners

\* The steps of a call that send nothing and change neither the registry nor the pages.
LEMMA IdleOthers ==
  ASSUME AInv, NEW s \in Slots, Running(s), AllAwait \/ Now(s).do \in Stretches
  PROVE  Idle(calls, s)
<1>1. \A o \in Slots : Doing(calls[o], Stretches) <=> InAStretch(o)
  BY DEF Doing, InAStretch, Stretches, Running, Now
<1>2. CASE AllAwait
  BY <1>1, <1>2 DEF AllAwait, Idle
<1>3. CASE Now(s).do \in Stretches
  <2>1. Doing(calls[s], Stretches)
    BY <1>3 DEF Doing, Running, Now
  <2>. QED  BY <2>1 DEF AInv, CallsInv, Solo, Idle
<1>. QED  BY <1>2, <1>3

LEMMA OfPages ==
  ASSUME AInv
  PROVE  /\ \A p \in Pages : Typed(pages[p])
         /\ sessions \in [Ids -> 0..MaxPages] /\ \A i \in Ids : sessions[i] = 0 \/ sessions[i] \in Pages
         /\ \A o \in Slots : /\ calls[o] \in Call /\ Good(sessions, pages, fights, calls[o]) /\ Reported(fights, calls[o])
                             /\ calls[o].end = "running" => calls[o].todo # <<>>
                             /\ calls[o].todo \in Seq(Steps) /\ calls[o].on \in [Ids -> 0..MaxPages]
<1>1. \A p \in Pages : Typed(pages[p])
  BY DEF AInv, Types, PageOK, Page, Typed
<1>2. sessions \in [Ids -> 0..MaxPages] /\ \A i \in Ids : sessions[i] = 0 \/ sessions[i] \in Pages
  BY Constants DEF AInv, Types
<1>3. \A o \in Slots : calls[o] \in Call /\ (calls[o].end = "running" => calls[o].todo # <<>>)
  BY DEF AInv, Types, CallOK
<1>4. \A o \in Slots : calls[o].todo \in Seq(Steps) /\ calls[o].on \in [Ids -> 0..MaxPages]
  BY <1>3 DEF Call
<1>. QED  BY <1>1, <1>2, <1>3, <1>4 DEF AInv, CallsInv

\* The pages while they are left alone.
LEMMA SamePages ==
  ASSUME NEW S, NEW P, NEW G, NEW C, NEW D, NEW s \in Slots, \A i \in Ids : S[i] = 0 \/ S[i] \in Pages,
         PagesInv(S, P, G, C), \A p \in Pages : Typed(P[p]) /\ ~ Waits(C[s], p),
         \A o \in Slots \ {s} : Kept(C[o], D[o]) /\ D[o].waits = C[o].waits,
         \A o \in Slots \ {s} : D[o].inPage = C[o].inPage,
         Registered(S, P, D)
  PROVE  PagesInv(S, P, G, D)
<1>1. \A p \in Pages : Heeds(C, D, p)
  BY KeptHeeds
<1>2. \A p \in Pages : Out(P[p], p, D)
  BY <1>1, OutStays DEF PagesInv
<1>3. \A i \in Ids : S[i] # 0 => News(P[S[i]], i, G, D)
  BY <1>1, NewsStays DEF PagesInv
<1>. QED  BY <1>2, <1>3 DEF PagesInv

LEMMA OwnCall ==
  ASSUME AInv, NEW s \in Slots, Running(s), Now(s).do \notin {"skip", "keep"},
         Idle(calls, s), \A p \in Pages : ~ Waits(calls[s], p),
         UNCHANGED <<sessions, pages, fights>>,
         NEW d, d.todo = calls[s].todo, Reported(fights, d),
         NEW e, Onward(sessions, pages, fights, d, e), Goes(s, e)
  PROVE  CallsInv(sessions', pages', fights', calls') /\ PagesInv(sessions', pages', fights', calls')
<1>1. /\ calls[s].end = "running" /\ calls[s].todo \in Seq(Steps) /\ calls[s].todo # <<>> /\ Now(s) = Head(calls[s].todo)
  BY OfPages DEF Running, Now
<1>2. calls'[s] = e /\ \A o \in Slots \ {s} : calls'[o] = calls[o]
  BY DEF Goes, AInv, Types
<1>3. \A o \in Slots \ {s} : Kept(calls[o], calls'[o]) /\ calls'[o].waits = calls[o].waits
  BY <1>2 DEF Kept
<1>4. CallsInv(sessions, pages, fights, calls')
  BY <1>1, <1>2, <1>3, OfPages, CallsAfterStep DEF AInv
<1>5. Registered(sessions, pages, calls') /\ Owners(sessions, pages)
  <2>1. ~ Doing(calls[s], {"keep"})
    BY DEF Doing, Now
  <2>. QED  BY <1>3, <2>1, RegisteredStays DEF AInv, PagesInv
<1>6. PagesInv(sessions, pages, fights, calls')
  <2>1. /\ PagesInv(sessions, pages, fights, calls)
        /\ \A p \in Pages : Typed(pages[p]) /\ ~ Waits(calls[s], p)
    BY OfPages DEF AInv
  <2>2. \A o \in Slots \ {s} : calls'[o].inPage = calls[o].inPage
    BY <1>2
  <2>. QED  BY <1>3, <1>5, <2>1, <2>2, OfPages, SamePages
<1>7. sessions' = sessions /\ pages' = pages /\ fights' = fights
  OBVIOUS
<1>. QED  BY <1>4, <1>6, <1>7

\* A call is moved on, whatever it notes down.
LEMMA GoesOn ==
  ASSUME AInv, NEW s \in Slots, Running(s), NEW d \in Call, SameButTodo(d, calls[s]), d.todo = calls[s].todo,
         Now(s).do # "skip", Brought(Now(s).do) = {}
  PROVE  Reported(fights, d) /\ Onward(sessions, pages, fights, d, Moved(d))
<1> DEFINE c == calls[s]
           x == Now(s)
<1>1. c.end = "running" /\ c \in Call /\ c.todo # <<>> /\ x = Head(c.todo) /\ Good(sessions, pages, fights, c)
      /\ Reported(fights, c)
  BY OfPages DEF Running, Now
<1>2. x.do \notin {"answer", "invoke", "open", "keep", "drop"} \/ x.do = "drop"
  BY DEF Brought
<1>3. Reported(fights, d)
  BY <1>1 DEF Reported, SameButTodo
<1>4. d.end = "running" /\ d.id = c.id /\ d.on = c.on
  BY <1>1 DEF SameButTodo
<1>5. x.do \notin {"answer", "invoke"}
  BY <1>2
<1> HIDE DEF c, x
<1>6. Onward(sessions, pages, fights, d, Moved(d))
  BY <1>1, <1>4, <1>5, MovedOnward DEF c, x
<1>. QED  BY <1>3, <1>6

Rest(S, P, G, C) == CallsInv(S, P, G, C) /\ PagesInv(S, P, G, C)

LEMMA GoesAside ==
  ASSUME AInv, NEW s \in Slots, Running(s)
  PROVE  LET c == calls[s]
         IN  /\ Reported(fights, c)
             /\ Now(s).do \in Throwing \ {"invoke"} => Onward(sessions, pages, fights, c, Thrown(c))
             /\ Now(s).do = "authed" => Onward(sessions, pages, fights, c, Settled(c, After(c, Now(s).arg)))
<1> DEFINE c == calls[s]
           x == Now(s)
<1>1. c.end = "running" /\ c \in Call /\ c.todo # <<>> /\ x = Head(c.todo) /\ Good(sessions, pages, fights, c)
      /\ Reported(fights, c)
  BY OfPages DEF Running, Now
<1> HIDE DEF c, x
<1>2. \A j \in Subjects(c.todo) : c.on[j] = sessions[j] /\ sessions[j] # 0 => c.on[j] = sessions[j] /\ sessions[j] # 0
  OBVIOUS
<1>4. ASSUME x.do # "invoke", x.do \in Throwing PROVE Onward(sessions, pages, fights, c, Thrown(c))
  BY <1>1, <1>2, <1>4, AsideOnward
<1>5. ASSUME x.do = "authed" PROVE Onward(sessions, pages, fights, c, Settled(c, After(c, x.arg)))
  BY <1>1, <1>2, <1>5, AsideOnward
<1>3. /\ x.do \in Throwing \ {"invoke"} => Onward(sessions, pages, fights, c, Thrown(c))
      /\ x.do = "authed" => Onward(sessions, pages, fights, c, Settled(c, After(c, x.arg)))
  BY <1>4, <1>5
<1>. QED  BY <1>1, <1>3 DEF c, x

\* Whether nothing has gone wrong so far does not matter here, nor do the fates of the sessions.
LEMMA OnwardAlike ==
  ASSUME NEW S, NEW P, NEW G, NEW d, NEW e, NEW f, Onward(S, P, G, d, e), SameButTodo(f, e), f.todo = e.todo
  PROVE  Onward(S, P, G, d, f)
<1>1. Kept(e, f) /\ \A st, n, j : Fact(S, P, G, e, st, n, j) <=> Fact(S, P, G, f, st, n, j)
  BY DEF SameButTodo, Kept, Fact
<1>2. Doing(e, Stretches) <=> Doing(f, Stretches)
  BY DEF Doing, SameButTodo
<1>3. Known(S, P, G, f) = Known(S, P, G, e)
  <2>1. CASE Doing(e, Stretches)
    <3>1. Doing(f, Stretches)
      BY <1>2, <2>1
    <3>. QED  BY <1>1, <2>1, <3>1 DEF Known
  <2>2. CASE ~ Doing(e, Stretches)
    <3>1. ~ Doing(f, Stretches) /\ Doing(e, Stretches) = FALSE /\ Doing(f, Stretches) = FALSE
      BY <1>2, <2>2 DEF Doing
    <3>. QED  BY <1>1, <2>2, <3>1 DEF Known
  <2>. QED  BY <2>1, <2>2
<1>4. Good(S, P, G, f)
  BY <1>3 DEF Good, Onward, SameButTodo
<1>5. Reported(G, e) => Reported(G, f)
  BY DEF Reported, SameButTodo
<1>6. f.end = "running" => SameButTodo(f, d) /\ Subjects(f.todo) \subseteq Subjects(d.todo)
  BY DEF Onward, SameButTodo
<1>. QED  BY <1>4, <1>5, <1>6 DEF Onward

\* The stages of an injected scenario wait for every session.
LEMMA GoesOneDone ==
  ASSUME AInv, NEW s \in Slots, Running(s), NEW d \in Call, SameButTodo(d, calls[s]), d.todo = calls[s].todo,
         Now(s).do \in {"ready", "resume"}, NEW i
  PROVE  Reported(fights, d) /\ Onward(sessions, pages, fights, d, OneDone(d, i))
<1>1. Brought(Now(s).do) = {} /\ Now(s).do # "skip"
  BY DEF Brought
<1>2. Reported(fights, d) /\ Onward(sessions, pages, fights, d, Moved(d))
  BY <1>1, GoesOn
<1>3. CASE d.left = {i}
  BY <1>2, <1>3 DEF OneDone
<1>4. CASE d.left # {i}
  <2> DEFINE e == [d EXCEPT !.left = @ \ {i}]
             c == calls[s]
  <2>1. OneDone(d, i) = e
    BY <1>4 DEF OneDone
  <2>2. SameButTodo(e, d) /\ e.todo = d.todo
    BY DEF SameButTodo, Call
  <2>3. SameButTodo(e, c) /\ e.todo = c.todo
    BY <2>2 DEF SameButTodo
  <2>4. Onward(sessions, pages, fights, c, c)
    BY OfPages DEF Onward, SameButTodo
  <2> HIDE DEF e, c
  <2>5. Onward(sessions, pages, fights, c, e)
    BY <2>3, <2>4, OnwardAlike
  <2>6. Onward(sessions, pages, fights, d, e)
    <3>1. Good(sessions, pages, fights, e)
      BY <2>5 DEF Onward
    <3>2. Reported(fights, d) => Reported(fights, e)
      BY <2>2 DEF Reported, SameButTodo
    <3>. QED  BY <2>2, <3>1, <3>2 DEF Onward
  <2>. QED  BY <1>2, <2>1, <2>6
<1>. QED  BY <1>3, <1>4

LEMMA SubjectsAreIds ==
  ASSUME NEW t \in Seq(Steps)
  PROVE  Subjects(t) \subseteq Ids
<1>1. \A k \in DOMAIN t : t[k] \in Steps
  OBVIOUS
<1>. QED  BY <1>1 DEF Subjects, Steps

\* A call that has got hold of a page.
LEMMA OnChanged ==
  ASSUME NEW c \in Call, NEW i \in Ids, NEW p \in 0..MaxPages
  PROVE  LET d == [c EXCEPT !.on[i] = p]
         IN  /\ d \in Call /\ d.end = c.end /\ d.todo = c.todo /\ d.fight = c.fight /\ d.id = c.id /\ d.shot = c.shot
             /\ d.inPage = c.inPage /\ d.waits = c.waits /\ d.left = c.left
             /\ d.on[i] = p /\ \A j \in Ids \ {i} : d.on[j] = c.on[j]
<1> DEFINE on == [c.on EXCEPT ![i] = p]
           d == [c EXCEPT !.on = on]
<1>1. c.on \in [Ids -> 0..MaxPages]
  BY DEF Call
<1>2. on \in [Ids -> 0..MaxPages] /\ on[i] = p /\ \A j \in Ids \ {i} : on[j] = c.on[j]
  BY <1>1
<1> HIDE DEF on
<1>3. /\ d \in Call /\ d.end = c.end /\ d.todo = c.todo /\ d.fight = c.fight /\ d.id = c.id /\ d.shot = c.shot
      /\ d.inPage = c.inPage /\ d.waits = c.waits /\ d.left = c.left /\ d.on = on
  BY <1>2 DEF Call
<1>4. [c EXCEPT !.on[i] = p] = d
  BY DEF on
<1> HIDE DEF d
<1>. QED  BY <1>2, <1>3, <1>4

LEMMA NobodyWaits ==
  ASSUME AInv, NEW s \in Slots, Now(s).do # "answer" \/ calls[s].inPage = 0 \/ ~ calls[s].waits
  PROVE  \A p \in Pages : ~ Waits(calls[s], p)
BY Constants DEF Waits, Doing, Now

LEMMA FindInv ==
  ASSUME AInv, NEW s \in Slots, FindSession(s)
  PROVE  Rest(sessions', pages', fights', calls')
<1> DEFINE c == calls[s]
           x == Now(s)
           d == [c EXCEPT !.on[x.id] = sessions[x.id]]
<1>1. /\ c.end = "running" /\ c \in Call /\ c.todo # <<>> /\ x = Head(c.todo) /\ Good(sessions, pages, fights, c)
      /\ Reported(fights, c) /\ x.do = "find" /\ UNCHANGED <<sessions, pages, fights>>
  BY OfPages DEF Running, Now, FindSession, At, hub
<1>2. /\ Running(s) /\ Idle(calls, s) /\ Now(s).do \notin {"skip", "keep"} /\ \A p \in Pages : ~ Waits(calls[s], p)
      /\ Now(s).do \in Throwing \ {"invoke"}
  BY <1>1, IdleOthers, NobodyWaits DEF Running, Stretches, Throwing
<1>3. CASE sessions[x.id] = 0
  <2>1. Goes(s, Thrown(c))
    BY <1>3 DEF FindSession, Throws
  <2>2. Onward(sessions, pages, fights, c, Thrown(c))
    BY <1>2, GoesAside
  <2>. QED  BY <1>1, <1>2, <2>1, <2>2, OwnCall DEF Rest
<1>4. CASE sessions[x.id] # 0
  <2>1. Goes(s, Moved(d))
    BY <1>4 DEF FindSession
  <2>2. x.id \in Ids /\ sessions[x.id] \in 0..MaxPages
    BY <1>2, OfPages, NowIsStep DEF AInv
  <2>3. /\ d \in Call /\ d.end = "running" /\ d.todo = c.todo /\ d.fight = c.fight /\ d.id = c.id /\ d.shot = c.shot
        /\ d.on[x.id] = sessions[x.id] /\ \A j \in Ids \ {x.id} : d.on[j] = c.on[j]
    <3> HIDE DEF c, x
    <3>. QED  BY <1>1, <2>2, OnChanged
  <2> HIDE DEF c, x, d
  <2>4. \A j \in Subjects(c.todo) : c.on[j] = sessions[j] /\ sessions[j] # 0 /\ ~ (j = x.id /\ x.do \in Renaming)
                                      => d.on[j] = sessions[j] /\ sessions[j] # 0
    <3>1. Subjects(c.todo) \subseteq Ids
      BY <1>1, SubjectsAreIds DEF Call
    <3>. QED  BY <2>3, <3>1
  <2>5. \A f \in Brought(x.do) : Fact(sessions, pages, fights, d, TRUE, f, x.id)
    BY <1>1, <1>4, <2>3 DEF Brought, Fact
  <2>6. x.do \notin {"skip", "answer", "invoke"}
    BY <1>1
  <2>7. Onward(sessions, pages, fights, d, Moved(d))
    BY <1>1, <2>3, <2>4, <2>5, <2>6, MovedOnward
  <2>8. Reported(fights, d) /\ d.todo = calls[s].todo
    BY <1>1, <2>3 DEF Reported, c
  <2>. QED  BY <1>1, <1>2, <2>1, <2>7, <2>8, OwnCall DEF Rest
<1>. QED  BY <1>3, <1>4

LEMMA CheckNameInv ==
  ASSUME AInv, NEW s \in Slots, CheckName(s)
  PROVE  Rest(sessions', pages', fights', calls')
<1> DEFINE c == calls[s]
           x == Now(s)
<1>1. /\ c.end = "running" /\ c \in Call /\ c.todo # <<>> /\ x = Head(c.todo) /\ Good(sessions, pages, fights, c)
      /\ Reported(fights, c) /\ x.do = "fresh" /\ UNCHANGED <<sessions, pages, fights>>
  BY OfPages DEF Running, Now, CheckName, At, hub
<1>2. /\ Running(s) /\ Idle(calls, s) /\ Now(s).do \notin {"skip", "keep"} /\ \A p \in Pages : ~ Waits(calls[s], p)
      /\ Now(s).do \in Throwing \ {"invoke"}
  BY <1>1, IdleOthers, NobodyWaits DEF Running, Stretches, Throwing
<1>3. CASE sessions[x.id] # 0
  <2>1. Goes(s, Thrown(c))
    BY <1>3 DEF CheckName, Throws
  <2>2. Onward(sessions, pages, fights, c, Thrown(c))
    BY <1>2, GoesAside
  <2>. QED  BY <1>1, <1>2, <2>1, <2>2, OwnCall DEF Rest
<1>4. CASE sessions[x.id] = 0
  <2>1. Goes(s, Moved(c))
    BY <1>4 DEF CheckName, Proceeds
  <2> HIDE DEF c, x
  <2>2. \A f \in Brought(x.do) : Fact(sessions, pages, fights, c, TRUE, f, x.id)
    BY <1>1, <1>4 DEF Brought, Fact
  <2>3. x.do \notin {"skip", "answer", "invoke"}
    BY <1>1
  <2>4. Onward(sessions, pages, fights, c, Moved(c))
    BY <1>1, <2>2, <2>3, MovedOnward
  <2>. QED  BY <1>1, <1>2, <2>1, <2>4, OwnCall DEF Rest, c
<1>. QED  BY <1>3, <1>4

\* The steps that only move the call on, and note something down.
LEMMA MovedInv ==
  ASSUME AInv, NEW s \in Slots, Running(s), Now(s).do \notin {"skip", "keep", "answer"}, Brought(Now(s).do) = {},
         AllAwait \/ Now(s).do \in Stretches,
         UNCHANGED <<sessions, pages, fights>>, NEW d \in Call, SameButTodo(d, calls[s]), d.todo = calls[s].todo,
         Goes(s, Moved(d))
  PROVE  Rest(sessions', pages', fights', calls')
BY IdleOthers, NobodyWaits, GoesOn, OwnCall DEF Rest

LEMMA ThrownInv ==
  ASSUME AInv, NEW s \in Slots, Running(s), Now(s).do \in Throwing \ {"invoke"},
         AllAwait \/ Now(s).do \in Stretches,
         UNCHANGED <<sessions, pages, fights>>,
         Goes(s, Thrown(calls[s])) \/ Goes(s, [Thrown(calls[s]) EXCEPT !.calm = FALSE])
  PROVE  Rest(sessions', pages', fights', calls')
<1> DEFINE c == calls[s]
<1>1. Now(s).do \notin {"skip", "keep", "answer"}
  BY DEF Throwing
<1>2. Reported(fights, c) /\ Onward(sessions, pages, fights, c, Thrown(c))
  BY GoesAside
<1>3. Thrown(c) \in Call
  BY NowIsStep, OutcomesOK, MovedIsOutcome DEF AInv, CallOK
<1> DEFINE e == Thrown(c)
<1> HIDE DEF e
<1>4. Onward(sessions, pages, fights, c, [e EXCEPT !.calm = FALSE])
  <2>1. e \in Call
    BY <1>3 DEF e
  <2>2. SameButTodo([e EXCEPT !.calm = FALSE], e) /\ [e EXCEPT !.calm = FALSE].todo = e.todo
    BY <2>1 DEF Call, SameButTodo
  <2>. QED  BY <1>2, <2>2, OnwardAlike DEF e
<1>5. PICK f : Goes(s, f) /\ Onward(sessions, pages, fights, c, f)
  BY <1>2, <1>4 DEF e
<1>. QED  BY <1>1, <1>2, <1>5, IdleOthers, NobodyWaits, OwnCall DEF Rest

LEMMA EndedInv ==
  ASSUME AInv, NEW s \in Slots, Running(s), Now(s).do \notin {"skip", "keep"}, AllAwait,
         Now(s).do # "answer" \/ calls[s].inPage = 0,
         UNCHANGED <<sessions, pages, fights>>, NEW d \in Call, SameButTodo(d, calls[s]), d.todo = calls[s].todo,
         NEW end \in {"done", "error"}, Goes(s, Ended(d, end))
  PROVE  Rest(sessions', pages', fights', calls')
<1>1. Reported(fights, d)
  BY OfPages DEF Reported, SameButTodo
<1>2. Onward(sessions, pages, fights, d, Ended(d, end))
  BY EndedOnward
<1>. QED  BY <1>1, <1>2, IdleOthers, NobodyWaits, OwnCall DEF Rest

LEMMA EnterInv ==
  ASSUME AInv, NEW s \in Slots, EnterPage(s)
  PROVE  Rest(sessions', pages', fights', calls')
<1> DEFINE c == calls[s]
           x == Now(s)
           d == [c EXCEPT !.inPage = PageOf(s)]
<1>1. /\ c.end = "running" /\ c \in Call /\ c.todo # <<>> /\ x = Head(c.todo) /\ Good(sessions, pages, fights, c)
      /\ Reported(fights, c) /\ x.do = "evaluate" /\ UNCHANGED <<sessions, pages, fights>>
  BY OfPages DEF Running, Now, EnterPage, Awaits, At, hub
<1>2. /\ Running(s) /\ Idle(calls, s) /\ Now(s).do \notin {"skip", "keep"} /\ \A p \in Pages : ~ Waits(calls[s], p)
      /\ PageOf(s) # 0 /\ PageOf(s) \in 0..MaxPages /\ PageOf(s) = c.on[x.id] /\ Goes(s, Moved(d))
  BY <1>1, IdleOthers, NobodyWaits, NowIsStep DEF Running, EnterPage, Awaits, Ready, AInv, PageOf
<1>3. /\ d \in Call /\ d.end = "running" /\ d.todo = c.todo /\ d.fight = c.fight /\ d.id = c.id /\ d.shot = c.shot
      /\ d.on = c.on /\ d.inPage = PageOf(s)
  <2> HIDE DEF c
  <2>. QED  BY <1>1, <1>2 DEF Call
<1> HIDE DEF c, x, d
<1>4. \A f \in Brought(x.do) : Fact(sessions, pages, fights, d, TRUE, f, x.id)
  BY <1>1, <1>2, <1>3 DEF Brought, Fact
<1>5. x.do \notin {"skip", "answer", "invoke"}
  BY <1>1
<1>6. Onward(sessions, pages, fights, d, Moved(d))
  BY <1>1, <1>3, <1>4, <1>5, MovedOnward
<1>7. Reported(fights, d) /\ d.todo = calls[s].todo
  BY <1>1, <1>3 DEF Reported, c
<1>. QED  BY <1>1, <1>2, <1>6, <1>7, OwnCall DEF Rest

LEMMA AnswerInv ==
  ASSUME AInv, NEW s \in Slots, AnswerCame(s)
  PROVE  Rest(sessions', pages', fights', calls')
<1> DEFINE c == calls[s]
           x == Now(s)
<1>1. /\ c.end = "running" /\ c \in Call /\ c.todo # <<>> /\ x = Head(c.todo) /\ Good(sessions, pages, fights, c)
      /\ Reported(fights, c) /\ x.do = "answer" /\ UNCHANGED <<sessions, pages, fights>> /\ Goes(s, Moved(c))
      /\ c.inPage # 0 /\ ~ c.waits
  BY OfPages DEF Running, Now, AnswerCame, Awaits, At, hub, Proceeds
<1>2. /\ Running(s) /\ Idle(calls, s) /\ Now(s).do \notin {"skip", "keep"} /\ \A p \in Pages : ~ Waits(calls[s], p)
  BY <1>1, IdleOthers, NobodyWaits DEF Running, AnswerCame, Awaits
<1> HIDE DEF c, x
<1>3. Fact(sessions, pages, fights, c, Doing(c, Stretches), "inside", x.id)
  <2>1. "inside" \in Needed(x.do) /\ x.do # "skip"
    BY <1>1 DEF Needed
  <2>. QED  BY <1>1, <2>1, NeededHolds
<1>4. \A f \in Brought(x.do) : Fact(sessions, pages, fights, c, TRUE, f, x.id)
  BY <1>1, <1>3 DEF Brought, Fact
<1>5. Fact(sessions, pages, fights, c, Doing(c, Stretches), "asked", x.id) => Fact(sessions, pages, fights, c, TRUE, "asked", x.id)
  BY DEF Fact
<1>6. x.do \notin {"skip", "invoke"} /\ x.do \notin Renaming
  BY <1>1 DEF Renaming
<1>7. Onward(sessions, pages, fights, c, Moved(c))
  BY <1>1, <1>4, <1>5, <1>6, MovedOnward
<1>. QED  BY <1>1, <1>2, <1>7, OwnCall DEF Rest, c

\* The result that is read is the one the call knows of.
LEMMA ResultInv ==
  ASSUME AInv, NEW s \in Slots, ReadResult(s)
  PROVE  Rest(sessions', pages', fights', calls')
<1> DEFINE c == calls[s]
           x == Now(s)
           n == pages[c.inPage].fight
           d == [c EXCEPT !.fight = n]
<1>1. /\ c.end = "running" /\ c \in Call /\ c.todo # <<>> /\ x = Head(c.todo) /\ Good(sessions, pages, fights, c)
      /\ x.do = "result" /\ UNCHANGED <<sessions, pages, fights>> /\ Goes(s, Moved(d)) /\ c.inPage # 0
  BY OfPages DEF Running, Now, ReadResult, Awaits, At, hub
<1>2. /\ Running(s) /\ Idle(calls, s) /\ Now(s).do \notin {"skip", "keep"} /\ \A p \in Pages : ~ Waits(calls[s], p)
  BY <1>1, IdleOthers, NobodyWaits DEF Running, ReadResult, Awaits
<1>3. n \in Nat /\ d.todo = calls[s].todo
  <2>1. c.inPage \in Pages
    BY <1>1, Constants DEF Call
  <2>2. pages[c.inPage].fight \in Nat
    BY <2>1 DEF AInv, Types, PageOK, Page
  <2>. QED  BY <1>1, <2>2
<1> HIDE DEF c, x
<1>4. /\ Fact(sessions, pages, fights, c, Doing(c, Stretches), "inside", x.id)
      /\ Fact(sessions, pages, fights, c, Doing(c, Stretches), "asked", x.id)
      /\ x.id = c.id
  <2>1. "inside" \in Needed(x.do) /\ "asked" \in Needed(x.do) /\ x.do # "skip"
    BY <1>1 DEF Needed
  <2>. QED  BY <1>1, <2>1, NeededHolds
<1>5. c.inPage = c.on[c.id]
  BY <1>1, <1>4 DEF Fact
<1>6. OwnShot(fights, c.id, n, c.shot)
  BY <1>4, <1>5 DEF Fact
<1> HIDE DEF n
<1>7. /\ d \in Call /\ d.end = "running" /\ d.todo = c.todo /\ d.fight = n /\ d.id = c.id /\ d.shot = c.shot
      /\ d.on = c.on
  BY <1>1, <1>3 DEF Call
<1> HIDE DEF d
<1>8. Reported(fights, d)
  BY <1>6, <1>7 DEF OwnShot, Reported
<1>9. Brought(x.do) = {} /\ x.do \notin {"skip", "answer", "invoke"}
  BY <1>1 DEF Brought
<1>10. Onward(sessions, pages, fights, d, Moved(d))
  BY <1>1, <1>7, <1>9, MovedOnward
<1>. QED  BY <1>1, <1>2, <1>3, <1>8, <1>10, OwnCall DEF Rest

LEMMA TornInv ==
  ASSUME AInv, NEW s \in Slots, EvaluationTorn(s) \/ ReopenRecent(s)
  PROVE  Rest(sessions', pages', fights', calls')
<1>1. Running(s) /\ AllAwait /\ UNCHANGED <<sessions, pages, fights>> /\ calls[s] \in Call
  BY OfPages DEF EvaluationTorn, ReopenRecent, Awaits, At, hub
<1>2. CASE EvaluationTorn(s)
  <2> DEFINE d == [calls[s] EXCEPT !.calm = FALSE]
  <2>1. Goes(s, Ended(d, "error")) /\ Now(s).do \in {"answer", "result"} /\ calls[s].inPage = 0
    BY <1>2 DEF EvaluationTorn, Awaits, At
  <2>2. d \in Call /\ SameButTodo(d, calls[s]) /\ d.todo = calls[s].todo
    BY <1>1 DEF Call, SameButTodo
  <2> HIDE DEF d
  <2>. QED  BY <1>1, <2>1, <2>2, EndedInv
<1>3. CASE ReopenRecent(s)
  <2>1. Goes(s, Ended(calls[s], "done")) /\ Now(s).do = "recent"
    BY <1>3 DEF ReopenRecent, RecentRoom, Awaits, At
  <2>2. SameButTodo(calls[s], calls[s])
    BY DEF SameButTodo
  <2>. QED  BY <1>1, <2>1, <2>2, EndedInv
<1>. QED  BY <1>2, <1>3

LEMMA OneDoneInv ==
  ASSUME AInv, NEW s \in Slots, Awaits(s, "ready") \/ Awaits(s, "resume"),
         UNCHANGED <<sessions, pages, fights>>, NEW d \in Call, SameButTodo(d, calls[s]), d.todo = calls[s].todo,
         NEW i, Goes(s, OneDone(d, i))
  PROVE  Rest(sessions', pages', fights', calls')
<1>1. Running(s) /\ AllAwait /\ Now(s).do \in {"ready", "resume"} /\ Now(s).do \notin {"skip", "keep", "answer"}
  BY DEF Awaits, At
<1>2. Reported(fights, d) /\ Onward(sessions, pages, fights, d, OneDone(d, i))
  BY <1>1, GoesOneDone
<1>. QED  BY <1>1, <1>2, IdleOthers, NobodyWaits, OwnCall DEF Rest

LEMMA OwnStepInv ==
  ASSUME AInv, NEW s \in Slots, OwnStep(s)
  PROVE  Rest(sessions', pages', fights', calls')
<1> DEFINE c == calls[s]
<1>0. UNCHANGED <<sessions, pages, fights>> /\ Running(s) /\ (AllAwait \/ Now(s).do \in Stretches) /\ c \in Call
  <2>1. UNCHANGED <<sessions, pages, fights>> /\ Running(s)
    BY DEF OwnStep, FindSession, CheckName, BridgeIsUp, SkipLogin, RequireLogin, Diagnose, CheckStart, SnapshotMatches,
       EventSeen, ReadCode, ReopenRecent, UseElement, EnterPage, AnswerCame, ReadResult, EvaluationTorn, PopulateBoard,
       StageThrows, BridgeOfAll, ResumeSeen, ResumeFails, Awaits, At, hub
  <2>2. AllAwait \/ Now(s).do \in {"find", "fresh", "authed", "needsAuth"}
    BY DEF OwnStep, FindSession, CheckName, BridgeIsUp, SkipLogin, RequireLogin, Diagnose, CheckStart, SnapshotMatches,
       EventSeen, ReadCode, ReopenRecent, UseElement, EnterPage, AnswerCame, ReadResult, EvaluationTorn, PopulateBoard,
       StageThrows, BridgeOfAll, ResumeSeen, ResumeFails, Awaits, At
  <2>3. AllAwait \/ Now(s).do \in Stretches
    BY <2>2 DEF Stretches
  <2>. QED  BY <2>1, <2>3, OfPages
<1>1. SameButTodo(c, c) /\ c.todo = calls[s].todo
  BY DEF SameButTodo
<1>2. ASSUME Now(s).do \in {"bridge", "needsAuth", "authed", "diagnose", "canStart", "until", "event", "code", "element", "populate"},
             NEW d \in Call, SameButTodo(d, c), d.todo = c.todo, Goes(s, Moved(d))
      PROVE  Rest(sessions', pages', fights', calls')
  <2>1. Brought(Now(s).do) = {} /\ Now(s).do \notin {"skip", "keep", "answer"}
    BY <1>2 DEF Brought
  <2>. QED  BY <1>0, <1>2, <2>1, MovedInv
<1>3. CASE BridgeIsUp(s) \/ SnapshotMatches(s) \/ EventSeen(s) \/ UseElement(s) \/ PopulateBoard(s)
  <2>1. Goes(s, Moved(c)) /\ Now(s).do \in {"bridge", "until", "event", "element", "populate"}
    BY <1>3 DEF BridgeIsUp, SnapshotMatches, EventSeen, UseElement, PopulateBoard, Proceeds, Awaits, At
  <2>. QED  BY <1>0, <1>1, <1>2, <2>1
<1>4. CASE RequireLogin(s)
  <2>1. Now(s).do = "needsAuth" /\ (Goes(s, Moved(c)) \/ Goes(s, Thrown(c)))
    BY <1>4 DEF RequireLogin, Proceeds, Throws, At
  <2>2. Now(s).do \in Throwing \ {"invoke"}
    BY <2>1 DEF Throwing
  <2>. QED  BY <1>0, <1>1, <1>2, <2>1, <2>2, ThrownInv
<1>5. CASE SkipLogin(s)
  <2>1. Now(s).do = "authed" /\ (Goes(s, Moved(c)) \/ Goes(s, Settled(c, After(c, Now(s).arg))))
    BY <1>5 DEF SkipLogin, At
  <2>2. CASE Goes(s, Settled(c, After(c, Now(s).arg)))
    <3>1. Reported(fights, c) /\ Onward(sessions, pages, fights, c, Settled(c, After(c, Now(s).arg)))
      BY <1>0, <2>1, GoesAside
    <3>2. Now(s).do \notin {"skip", "keep", "answer"}
      BY <2>1
    <3>. QED  BY <1>0, <2>2, <3>1, <3>2, IdleOthers, NobodyWaits, OwnCall DEF Rest
  <2>. QED  BY <1>0, <1>1, <1>2, <2>1, <2>2
<1>6. CASE Diagnose(s)
  <2> DEFINE note == Diagnosis(pages[PageOf(s)])
             d == [c EXCEPT !.note = note]
  <2>1. note \in Notes
    BY DEF Diagnosis, Notes
  <2>2. Goes(s, Moved(d)) /\ Now(s).do = "diagnose"
    BY <1>6 DEF Diagnose, Awaits, At
  <2> HIDE DEF note, c
  <2>3. d \in Call /\ SameButTodo(d, c) /\ d.todo = c.todo
    BY <1>0, <2>1 DEF SameButTodo, Call
  <2> HIDE DEF d
  <2>. QED  BY <1>2, <2>2, <2>3
<1>7. CASE CheckStart(s)
  <2> DEFINE game == pages[PageOf(s)].game
             note == IF game # None /\ CanStart(game) THEN "yes" ELSE "no"
             d == [c EXCEPT !.note = note]
  <2>1. note \in Notes
    BY DEF Notes
  <2>2. Goes(s, Moved(d)) /\ Now(s).do = "canStart"
    BY <1>7 DEF CheckStart, Awaits, At
  <2> HIDE DEF note, c
  <2>3. d \in Call /\ SameButTodo(d, c) /\ d.todo = c.todo
    BY <1>0, <2>1 DEF SameButTodo, Call
  <2> HIDE DEF d
  <2>. QED  BY <1>2, <2>2, <2>3
<1>8. CASE ReadCode(s)
  <2> DEFINE game == pages[PageOf(s)].game
             code == game.code
             d == [c EXCEPT !.room = code]
  <2>1. code \in Rooms
    <3>1. PageOf(s) \in Pages
      BY <1>8, <1>0, NowIsStep, Constants DEF ReadCode, Ready, AInv
    <3>2. game \in Room \cup {None}
      BY <3>1 DEF AInv, Types, PageOK, Page
    <3>3. game # None
      BY <1>8 DEF ReadCode
    <3> HIDE DEF game
    <3>. QED  BY <3>2, <3>3 DEF Room
  <2>2. Goes(s, Moved(d)) /\ Now(s).do = "code"
    BY <1>8 DEF ReadCode, Awaits, At
  <2> HIDE DEF code, c
  <2>3. d \in Call /\ SameButTodo(d, c) /\ d.todo = c.todo
    BY <1>0, <2>1 DEF SameButTodo, Call
  <2> HIDE DEF d
  <2>. QED  BY <1>2, <2>2, <2>3
<1>9. CASE StageThrows(s)
  <2>1. Now(s).do \in {"navigate", "ready"} /\ Goes(s, Thrown(c))
    BY <1>9 DEF StageThrows, Throws, Awaits, At
  <2>2. Now(s).do \in Throwing \ {"invoke"}
    BY <2>1 DEF Throwing
  <2>. QED  BY <1>0, <2>1, <2>2, ThrownInv
<1>10. ASSUME Awaits(s, "ready") \/ Awaits(s, "resume"), NEW calm \in BOOLEAN, NEW fate \in [Ids -> Fate], NEW i,
              Goes(s, OneDone([c EXCEPT !.calm = calm, !.fate = fate], i))
       PROVE  Rest(sessions', pages', fights', calls')
  <2> DEFINE d == [c EXCEPT !.calm = calm, !.fate = fate]
  <2> HIDE DEF c
  <2>1. d \in Call /\ SameButTodo(d, c) /\ d.todo = c.todo
    BY <1>0 DEF SameButTodo, Call
  <2>2. Goes(s, OneDone(d, i))
    BY <1>10
  <2> HIDE DEF d
  <2>. QED  BY <1>0, <1>10, <2>1, <2>2, OneDoneInv DEF c
<1>11. c.fate \in [Ids -> Fate] /\ c.calm \in BOOLEAN /\ c.left \subseteq Ids
  <2> HIDE DEF c
  <2>. QED  BY <1>0 DEF Call
<1>12. CASE BridgeOfAll(s)
  <2>1. PICK i \in c.left, intime \in BOOLEAN : Goes(s, OneDone([c EXCEPT !.calm = @ /\ intime], i))
    BY <1>12 DEF BridgeOfAll
  <2> DEFINE calm == c.calm /\ intime
  <2> HIDE DEF c
  <2>2. calm \in BOOLEAN
    OBVIOUS
  <2>3. Goes(s, OneDone([c EXCEPT !.calm = calm], i))
    BY <2>1
  <2> HIDE DEF calm
  <2>4. [c EXCEPT !.calm = calm] = [c EXCEPT !.calm = calm, !.fate = c.fate]
    BY <1>0 DEF Call
  <2>5. Awaits(s, "ready")
    BY <1>12 DEF BridgeOfAll
  <2>. QED  BY <1>10, <1>11, <2>2, <2>3, <2>4, <2>5
<1>13. CASE ResumeSeen(s)
  <2>1. PICK i \in c.left : Goes(s, OneDone([c EXCEPT !.fate[i] = IF @ = "" THEN "ready" ELSE "recovered"], i))
    BY <1>13 DEF ResumeSeen
  <2> DEFINE fate == [c.fate EXCEPT ![i] = IF c.fate[i] = "" THEN "ready" ELSE "recovered"]
  <2> HIDE DEF c
  <2>2. fate \in [Ids -> Fate]
    BY <1>11 DEF Fate
  <2>3. Goes(s, OneDone([c EXCEPT !.fate = fate], i))
    BY <2>1
  <2> HIDE DEF fate
  <2>4. [c EXCEPT !.fate = fate] = [c EXCEPT !.calm = c.calm, !.fate = fate]
    BY <1>0 DEF Call
  <2>5. Awaits(s, "resume")
    BY <1>13 DEF ResumeSeen
  <2>. QED  BY <1>10, <1>11, <2>2, <2>3, <2>4, <2>5
<1>14. CASE ResumeFails(s)
  <2>1. PICK i \in c.left : Goes(s, OneDone([c EXCEPT !.fate[i] = "failed", !.calm = FALSE], i))
    BY <1>14 DEF ResumeFails
  <2> DEFINE fate == [c.fate EXCEPT ![i] = "failed"]
  <2> HIDE DEF c
  <2>2. fate \in [Ids -> Fate]
    BY <1>11 DEF Fate
  <2>3. Goes(s, OneDone([c EXCEPT !.fate = fate, !.calm = FALSE], i))
    BY <2>1
  <2> HIDE DEF fate
  <2>4. [c EXCEPT !.fate = fate, !.calm = FALSE] = [c EXCEPT !.calm = FALSE, !.fate = fate]
    BY <1>0 DEF Call
  <2>5. Awaits(s, "resume")
    BY <1>14 DEF ResumeFails
  <2>. QED  BY <1>10, <2>2, <2>3, <2>4, <2>5
<1>. QED  BY <1>3, <1>4, <1>5, <1>6, <1>7, <1>8, <1>9, <1>12, <1>13, <1>14, FindInv, CheckNameInv, EnterInv, AnswerInv,
             ResultInv, TornInv DEF OwnStep

LEMMA GivesUpInv ==
  ASSUME AInv, NEW s \in Slots, GivesUp(s) \/ InjectRoom(s)
  PROVE  Rest(sessions', pages', fights', calls')
<1>0. Running(s) /\ AllAwait /\ UNCHANGED <<sessions, pages, fights>> /\ calls[s] \in Call
  BY OfPages DEF GivesUp, InjectRoom, hub, Awaits, At
<1>1. CASE GivesUp(s)
  <2>1. Goes(s, [Thrown(calls[s]) EXCEPT !.calm = FALSE]) /\ Now(s).do \in Throwing \ {"invoke"}
    BY <1>1 DEF GivesUp, Throwing
  <2>. QED  BY <1>0, <2>1, ThrownInv
<1>2. CASE InjectRoom(s)
  <2>1. PICK r \in Rooms : Goes(s, Moved([calls[s] EXCEPT !.room = r]))
    BY <1>2 DEF InjectRoom, Fresh
  <2> DEFINE d == [calls[s] EXCEPT !.room = r]
  <2>2. d \in Call /\ SameButTodo(d, calls[s]) /\ d.todo = calls[s].todo
    BY <1>0 DEF Call, SameButTodo
  <2>3. Now(s).do = "inject" /\ Brought("inject") = {}
    BY <1>2 DEF InjectRoom, Awaits, At, Brought
  <2>4. Goes(s, Moved(d))
    BY <2>1
  <2> HIDE DEF d
  <2>. QED  BY <1>0, <2>2, <2>3, <2>4, MovedInv
<1>. QED  BY <1>1, <1>2

\* A step of call s that may change the registry and the pages, and sends nothing.
LEMMA OwnPages ==
  ASSUME AInv, NEW s \in Slots, Running(s), Now(s).do \notin {"skip", "answer"}, Idle(calls, s),
         fights' = fights,
         NEW d, d.todo = calls[s].todo, Reported(fights, d),
         Onward(sessions', pages', fights, d, calls'[s]),
         \A o \in Slots \ {s} : Kept(calls[o], calls'[o]) /\ calls'[o].waits = calls[o].waits,
         \A j \in Ids : sessions'[j] = sessions[j] \/ j = Now(s).id,
         \A i \in Ids : sessions'[i] \in {0, sessions[i]} \/ pages'[sessions'[i]].mail = <<>>,
         \A p \in Pages : pages'[p].fight \in {0, pages[p].fight},
         \A p \in Pages :
           \/ pages'[p].sent = <<>> /\ pages'[p].mail = <<>>
           \/ /\ pages'[p].sent = pages[p].sent /\ pages'[p].mail = pages[p].mail
              /\ \A o \in Slots \ {s} : calls[o].inPage = p => calls'[o].inPage = p,
         Registered(sessions', pages', calls'), Owners(sessions', pages')
  PROVE  Rest(sessions', pages', fights', calls')
<1> DEFINE T == sessions'
           Q == pages'
           D == calls'
           x == Now(s)
<1>1. /\ calls[s].end = "running" /\ calls[s].todo \in Seq(Steps) /\ calls[s].todo # <<>> /\ x = Head(calls[s].todo)
      /\ x.do # "skip"
  BY OfPages DEF Running, Now
<1>2. \A p \in Pages : Typed(pages[p]) /\ ~ Waits(calls[s], p)
  BY OfPages, NobodyWaits
<1>3. /\ CallsInv(sessions, pages, fights, calls) /\ PagesInv(sessions, pages, fights, calls)
      /\ sessions \in [Ids -> 0..MaxPages]
  BY OfPages DEF AInv
<1>4. \A o \in Slots \ {s} : Kept(calls[o], D[o])
  OBVIOUS
<1> HIDE DEF x, T, Q, D
<1>5. /\ Onward(T, Q, fights, d, D[s]) /\ \A j \in Ids : T[j] = sessions[j] \/ j = x.id
      /\ \A p \in Pages : Q[p].fight \in {0, pages[p].fight}
  BY DEF T, Q, D, x
<1>5a. (\A j \in Ids : T[j] = sessions[j] \/ j = x.id) /\ \A p \in Pages : Q[p].fight \in {0, pages[p].fight}
  BY DEF T, Q, D, x
<1>6. CallsInv(T, Q, fights, D)
  BY <1>1, <1>3, <1>4, <1>5, <1>5a, CallsAfterStep
<1>7. /\ Registered(T, Q, D) /\ Owners(T, Q)
      /\ \A o \in Slots \ {s} : Kept(calls[o], D[o]) /\ D[o].waits = calls[o].waits
      /\ \A i \in Ids : T[i] \in {0, sessions[i]} \/ Q[T[i]].mail = <<>>
  BY DEF T, Q, D
<1>8. \A p \in Pages :
           \/ Q[p].sent = <<>> /\ Q[p].mail = <<>>
           \/ /\ Q[p].sent = pages[p].sent /\ Q[p].mail = pages[p].mail
              /\ \A o \in Slots \ {s} : calls[o].inPage = p => D[o].inPage = p
  BY DEF Q, D
<1>9. PagesInv(T, Q, fights, D)
  <2>1. \A p \in Pages : (Q[p].sent = <<>> /\ Q[p].mail = <<>>)
                        \/ (Q[p].sent = pages[p].sent /\ Q[p].mail = pages[p].mail /\ Heeds(calls, D, p))
    <3>1. ASSUME NEW p \in Pages, \A o \in Slots \ {s} : calls[o].inPage = p => D[o].inPage = p
          PROVE  Heeds(calls, D, p)
      <4>1. \A o \in Slots \ {s} : /\ Kept(calls[o], D[o]) /\ D[o].waits = calls[o].waits
                                   /\ calls[o].inPage = p => D[o].inPage = p
        BY <1>7, <3>1
      <4>2. ~ Waits(calls[s], p)
        BY <1>2
      <4>. QED  BY <4>1, <4>2, KeptHeeds
    <3>. QED  BY <1>8, <3>1
  <2>2. \A p \in Pages : Out(Q[p], p, D)
    BY <1>2, <1>3, <2>1, OutStays DEF PagesInv
  <2>3. ASSUME NEW i \in Ids, T[i] # 0 PROVE News(Q[T[i]], i, fights, D)
    <3>1. CASE Q[T[i]].mail = <<>>
      BY <3>1 DEF News
    <3>2. CASE T[i] = sessions[i]
      <4>1. sessions[i] \in Pages
        BY <1>3, <2>3, <3>2, Constants
      <4>2. News(pages[sessions[i]], i, fights, calls) /\ Out(pages[sessions[i]], sessions[i], calls)
        BY <1>3, <2>3, <3>2, <4>1 DEF PagesInv
      <4>. QED  BY <1>2, <2>1, <3>2, <4>1, <4>2, NewsStays
    <3>. QED  BY <1>7, <2>3, <3>1, <3>2
  <2>. QED  BY <1>7, <2>2, <2>3 DEF PagesInv
<1>. QED  BY <1>6, <1>9 DEF T, Q, D, Rest

\* The second step of a pair comes next.
LEMMA NextIsSecond ==
  ASSUME NEW d \in Call, d.end = "running", Len(d.todo) > 1, d.todo[2].do # "skip"
  PROVE  SameButTodo(Moved(d), d) /\ Moved(d).todo # <<>> /\ Head(Moved(d).todo) = d.todo[2]
<1> DEFINE rest == SubSeq(d.todo, 2, Len(d.todo))
<1>1. d.todo \in Seq(Steps)
  BY DEF Call
<1>2. rest \in Seq(Steps) /\ rest # <<>> /\ Head(rest) = d.todo[2]
  <2>1. ASSUME NEW t \in Seq(Steps), Len(t) > 1
        PROVE  /\ SubSeq(t, 2, Len(t)) \in Seq(Steps) /\ Len(SubSeq(t, 2, Len(t))) = Len(t) - 1
               /\ SubSeq(t, 2, Len(t))[1] = t[2]
    BY <2>1
  <2>2. rest \in Seq(Steps) /\ Len(rest) > 0 /\ rest[1] = d.todo[2]
    BY <1>1, <2>1
  <2> HIDE DEF rest
  <2>. QED  BY <2>2
<1> HIDE DEF rest
<1>3. Moved(d) = [d EXCEPT !.todo = rest, !.left = Ids]
  <2>1. Moved(d) = Settled(d, rest)
    BY DEF Moved, After, rest
  <2>. QED  BY <1>2, <2>1 DEF Settled
<1>. QED  BY <1>2, <1>3 DEF Call, SameButTodo

\* A stage that goes on with the other sessions.
LEMMA StageOnward ==
  ASSUME NEW S, NEW P, NEW G, NEW c \in Call, c.end = "running", c.todo # <<>>, Good(S, P, G, c),
         Head(c.todo).do \in {"navigate", "ready", "resume"},
         NEW T, NEW Q, NEW e, SameButTodo(e, [c EXCEPT !.on = e.on]), e.todo = c.todo,
         \A j \in Subjects(c.todo) : c.on[j] = S[j] /\ S[j] # 0 => e.on[j] = T[j] /\ T[j] # 0
  PROVE  Onward(T, Q, G, e, e)
<1> DEFINE A == Known(S, P, G, c)
           K == {y \in A : y[1] = "found"}
<1>1. e.id = c.id /\ e.end = "running"
  BY DEF SameButTodo, Call
<1>2. c.todo \in Sound(c.id, K, {}, {})
  BY FoundIsEnough DEF Good
<1>3. K \in SUBSET Facts
  BY DEF Known
<1>4. \A y \in K : y[2] \in Subjects(e.todo) => Fact(T, Q, G, e, TRUE, y[1], y[2])
  <2>0. SUFFICES \A f \in Names, j \in Ids : <<f, j>> \in K => (j \in Subjects(c.todo) => Fact(T, Q, G, e, TRUE, f, j))
    BY <1>3, FactsArePairs
  <2>1. SUFFICES ASSUME NEW f \in Names, NEW j \in Ids, <<f, j>> \in K, j \in Subjects(c.todo)
        PROVE  Fact(T, Q, G, e, TRUE, f, j)
    OBVIOUS
  <2>2. f = "found" /\ <<f, j>> \in A
    BY <2>1
  <2>3. Fact(S, P, G, c, Doing(c, Stretches), f, j)
    BY <2>1, <2>2 DEF Known
  <2>4. c.on[j] = S[j] /\ S[j] # 0
    BY <2>2, <2>3 DEF Fact
  <2>5. e.on[j] = T[j] /\ T[j] # 0
    BY <2>1, <2>4
  <2>. QED  BY <2>2, <2>5 DEF Fact
<1> HIDE DEF K, A
<1>5. Good(T, Q, G, e)
  BY <1>1, <1>2, <1>3, <1>4, GoodToGo
<1>. QED  BY <1>5 DEF Onward, SameButTodo

\* What is at hand in front of the step of a call.
LEMMA AtHand ==
  ASSUME AInv, NEW s \in Slots, Running(s), Now(s).do # "skip"
  PROVE  LET c == calls[s]
             x == Now(s)
         IN  /\ c.end = "running" /\ c \in Call /\ c.todo # <<>> /\ x = Head(c.todo) /\ Good(sessions, pages, fights, c)
             /\ Reported(fights, c) /\ c.todo \in Seq(Steps) /\ x.id \in Subjects(c.todo) /\ x.id \in Ids
             /\ Subjects(c.todo) \subseteq Ids
             /\ c.on \in [Ids -> 0..MaxPages] /\ PageOf(s) = c.on[x.id] /\ PageOf(s) \in 0..MaxPages
             /\ \A f \in Needed(x.do) : Fact(sessions, pages, fights, c, Doing(c, Stretches), f, x.id)
             /\ x.do \in Paired => Len(c.todo) > 1 /\ c.todo[2].do = Second(x.do) /\ c.todo[2].id = x.id
             /\ Doing(c, Stretches) <=> x.do \in Stretches
<1> DEFINE c == calls[s]
           x == Now(s)
<1>1. /\ c.end = "running" /\ c \in Call /\ c.todo # <<>> /\ x = Head(c.todo) /\ Good(sessions, pages, fights, c)
      /\ Reported(fights, c) /\ c.todo \in Seq(Steps) /\ c.on \in [Ids -> 0..MaxPages]
  BY OfPages DEF Running, Now
<1>2. PageOf(s) = c.on[x.id] /\ (Doing(c, Stretches) <=> x.do \in Stretches) /\ PageOf(s) \in 0..MaxPages /\ x.do # "skip"
  BY NowIsStep DEF PageOf, Doing, Now, Running, AInv
<1> HIDE DEF c, x
<1>3. /\ \A f \in Needed(x.do) : Fact(sessions, pages, fights, c, Doing(c, Stretches), f, x.id)
      /\ x.id \in Subjects(c.todo) /\ x.id \in Ids
      /\ x.do \in Paired => Len(c.todo) > 1 /\ c.todo[2].do = Second(x.do) /\ c.todo[2].id = x.id
  BY <1>1, <1>2, NeededHolds
<1>4. Subjects(c.todo) \subseteq Ids
  BY <1>1, SubjectsAreIds
<1>. QED  BY <1>1, <1>2, <1>3, <1>4 DEF c, x

LEMMA NewPageInv ==
  ASSUME AInv, NEW s \in Slots, NewPage(s)
  PROVE  Rest(sessions', pages', fights', calls')
<1> DEFINE c == calls[s]
           x == Now(s)
           p == CHOOSE p \in Free : \A q \in Free : p <= q
           page == [Blank EXCEPT !.at = "blank"]
           d == [c EXCEPT !.on[x.id] = p]
<1>1. /\ Running(s) /\ AllAwait /\ x.do = "open" /\ sessions' = sessions /\ fights' = fights /\ Free # {}
      /\ pages' = [pages EXCEPT ![p] = page] /\ Goes(s, Moved(d))
  BY DEF NewPage, Awaits, At, hub
<1>2. p \in Free
  <2>1. Free \in SUBSET Nat
    BY Constants DEF Free
  <2>2. \E q \in Free : \A r \in Free : q <= r
    BY <1>1, <2>1, LeastNat
  <2>. QED  BY <2>2
<1> HIDE DEF p
<1>3. /\ p \in Pages /\ pages[p].at = "closed" /\ \A i \in Ids : sessions[i] # p
  BY <1>2 DEF Free, Held
<1>4. page.at = "blank" /\ page.user = None /\ page.mail = <<>> /\ page.sent = <<>> /\ page.fight = 0
  BY DEF Blank
<1> HIDE DEF page
<1>5. DOMAIN pages = Pages /\ DOMAIN calls = Slots
  BY DEF AInv, Types
<1>6. pages'[p] = page /\ \A q \in Pages \ {p} : pages'[q] = pages[q]
  BY <1>1, <1>3, <1>5
<1>7. calls'[s] = Moved(d) /\ \A o \in Slots \ {s} : calls'[o] = calls[o]
  BY <1>1, <1>5 DEF Goes
<1>8. Idle(calls, s) /\ Now(s).do \notin {"skip", "answer", "invoke"}
  BY <1>1, IdleOthers
<1>9. /\ c.end = "running" /\ c \in Call /\ c.todo # <<>> /\ x = Head(c.todo) /\ Good(sessions, pages, fights, c)
      /\ Reported(fights, c) /\ x.id \in Ids /\ Subjects(c.todo) \subseteq Ids
      /\ \A f \in Needed(x.do) : Fact(sessions, pages, fights, c, Doing(c, Stretches), f, x.id)
      /\ x.do \in Paired => Len(c.todo) > 1 /\ c.todo[2].do = Second(x.do) /\ c.todo[2].id = x.id
  BY <1>1, <1>8, AtHand
<1> HIDE DEF c, x
<1>10. p \in 0..MaxPages
  BY <1>3, Constants
<1>11. /\ d \in Call /\ d.end = "running" /\ d.todo = c.todo /\ d.fight = c.fight /\ d.id = c.id /\ d.shot = c.shot
       /\ d.on[x.id] = p /\ \A j \in Ids \ {x.id} : d.on[j] = c.on[j]
  BY <1>9, <1>10, OnChanged
<1> HIDE DEF d
<1>12. sessions[x.id] = 0
  <2>1. "vacant" \in Needed(x.do)
    BY <1>1 DEF Needed
  <2>. QED  BY <1>9, <2>1 DEF Fact
<1>13. Onward(sessions, pages', fights, d, Moved(d))
  <2>1. \A j \in Subjects(c.todo) : c.on[j] = sessions[j] /\ sessions[j] # 0 /\ ~ (j = x.id /\ x.do \in Renaming)
                                      => d.on[j] = sessions[j] /\ sessions[j] # 0
    BY <1>1, <1>9, <1>11 DEF Renaming
  <2>2. \A f \in Brought(x.do) : Fact(sessions, pages', fights, d, TRUE, f, x.id)
    BY <1>1, <1>3, <1>4, <1>6, <1>11, <1>12 DEF Brought, Fact
  <2>3. x.do \notin {"skip", "answer", "invoke"}
    BY <1>1
  <2>. QED  BY <1>9, <1>11, <2>1, <2>2, <2>3, MovedOnward
<1>14. Registered(sessions, pages', calls')
  <2>1. Doing(calls'[s], {"keep"}) /\ calls'[s].on[Head(calls'[s].todo).id] = p
    <3>1. Len(d.todo) > 1 /\ d.todo[2].do = "keep" /\ d.todo[2].id = x.id
      BY <1>1, <1>9, <1>11 DEF Paired, Second
    <3>2. SameButTodo(Moved(d), d) /\ Moved(d).todo # <<>> /\ Head(Moved(d).todo) = d.todo[2]
      BY <1>11, <3>1, NextIsSecond
    <3>. QED  BY <1>7, <1>11, <3>1, <3>2 DEF Doing, SameButTodo
  <2>2. ASSUME NEW q \in Pages, q # p, pages'[q].at # "closed"
        PROVE  \E i \in Ids : sessions[i] = q
    <3>1. pages[q].at # "closed"
      BY <1>6, <2>2
    <3>2. \A o \in Slots : ~ Doing(calls[o], {"keep"})
      <4>1. ~ Doing(calls[s], {"keep"})
        BY <1>1 DEF Doing, Now, x
      <4>. QED  BY <1>8, <4>1 DEF Idle, Doing, Stretches
    <3>. QED  BY <2>2, <3>1, <3>2 DEF AInv, PagesInv, Registered
  <2>. QED  BY <2>1, <2>2 DEF Registered
<1>15. Owners(sessions, pages')
  <2>1. \A q \in Pages : pages'[q].user \in {None, pages[q].user}
    BY <1>4, <1>6
  <2>. QED  BY <2>1, OwnersStay DEF AInv, PagesInv
<1>16. \A q \in Pages :
           \/ pages'[q].sent = <<>> /\ pages'[q].mail = <<>>
           \/ /\ pages'[q].sent = pages[q].sent /\ pages'[q].mail = pages[q].mail
              /\ \A o \in Slots \ {s} : calls[o].inPage = q => calls'[o].inPage = q
  BY <1>4, <1>6, <1>7
<1>17. \A o \in Slots \ {s} : Kept(calls[o], calls'[o]) /\ calls'[o].waits = calls[o].waits
  BY <1>7 DEF Kept
<1>18. \A q \in Pages : pages'[q].fight \in {0, pages[q].fight}
  BY <1>4, <1>6
<1>19. (\A j \in Ids : sessions'[j] = sessions[j]) /\ \A i \in Ids : sessions'[i] \in {0, sessions[i]}
  BY <1>1
<1>20. d.todo = calls[s].todo /\ Reported(fights, d) /\ Onward(sessions', pages', fights, d, calls'[s])
       /\ Registered(sessions', pages', calls') /\ Owners(sessions', pages')
  BY <1>1, <1>7, <1>9, <1>11, <1>13, <1>14, <1>15 DEF Reported, c
<1>. QED  BY <1>1, <1>8, <1>16, <1>17, <1>18, <1>19, <1>20, OwnPages

\* The session is registered, or forgotten.
LEMMA RegistryInv ==
  ASSUME AInv, NEW s \in Slots, KeepSession(s) \/ DropSession(s)
  PROVE  Rest(sessions', pages', fights', calls')
<1> DEFINE c == calls[s]
           x == Now(s)
           new == IF x.do = "keep" THEN c.on[x.id] ELSE 0
<1>1. /\ Running(s) /\ x.do \in {"keep", "drop"} /\ pages' = pages /\ fights' = fights /\ Goes(s, Moved(c))
      /\ sessions' = [sessions EXCEPT ![x.id] = new]
  BY DEF KeepSession, DropSession, At, hub, Proceeds, PageOf
<1>2. Idle(calls, s) /\ Now(s).do \notin {"skip", "answer", "invoke"} /\ x.do \in Stretches
  BY <1>1, IdleOthers DEF Stretches
<1>3. calls'[s] = Moved(c) /\ \A o \in Slots \ {s} : calls'[o] = calls[o]
  BY <1>1 DEF Goes, AInv, Types
<1>4. /\ c.end = "running" /\ c \in Call /\ c.todo # <<>> /\ x = Head(c.todo) /\ Good(sessions, pages, fights, c)
      /\ Reported(fights, c) /\ x.id \in Ids /\ Subjects(c.todo) \subseteq Ids
      /\ \A f \in Needed(x.do) : Fact(sessions, pages, fights, c, Doing(c, Stretches), f, x.id)
      /\ Doing(c, Stretches) <=> x.do \in Stretches
  BY <1>1, <1>2, AtHand
<1> HIDE DEF c, x
<1>5. Doing(c, Stretches) = TRUE
  BY <1>2, <1>4 DEF Doing
<1>6. sessions'[x.id] = new /\ \A j \in Ids \ {x.id} : sessions'[j] = sessions[j]
  BY <1>1, <1>4, OfPages
<1>7. x.do = "keep" => /\ sessions[x.id] = 0 /\ new \in Pages /\ \A k \in Ids : sessions[k] # new
                       /\ pages[new].user = None /\ pages[new].mail = <<>> /\ new # 0
  <2>1. x.do = "keep" => "opened" \in Needed(x.do)
    BY DEF Needed
  <2>. QED  BY <1>4, <1>5, <2>1, Constants DEF Fact
<1>8. x.do = "drop" => /\ new = 0 /\ sessions[x.id] # 0 /\ pages[sessions[x.id]].at = "closed"
                       /\ pages[sessions[x.id]].user = None
  <2>1. x.do = "drop" => "shut" \in Needed(x.do)
    BY DEF Needed
  <2>. QED  BY <1>4, <1>5, <2>1 DEF Fact
<1>9. x.do = "keep" => c.on[x.id] = new
  OBVIOUS
<1> HIDE DEF new
<1>10. Onward(sessions', pages, fights, c, Moved(c))
  <2>1. \A j \in Subjects(c.todo) : c.on[j] = sessions[j] /\ sessions[j] # 0 /\ ~ (j = x.id /\ x.do \in Renaming)
                                      => c.on[j] = sessions'[j] /\ sessions'[j] # 0
    BY <1>1, <1>4, <1>6 DEF Renaming
  <2>2. \A f \in Brought(x.do) : Fact(sessions', pages, fights, c, TRUE, f, x.id)
    BY <1>1, <1>6, <1>7, <1>9 DEF Brought, Fact
  <2>3. x.do \notin {"skip", "answer", "invoke"}
    BY <1>1
  <2>. QED  BY <1>4, <2>1, <2>2, <2>3, MovedOnward
<1>11. \A o \in Slots : Doing(calls[o], {"keep"}) => o = s /\ x.do = "keep"
  <2>1. \A o \in Slots : Doing(calls[o], {"keep"}) => Doing(calls[o], Stretches)
    BY DEF Doing, Stretches
  <2>2. Doing(calls[s], {"keep"}) => x.do = "keep"
    BY DEF Doing, x, Now
  <2>. QED  BY <1>2, <2>1, <2>2 DEF Idle
<1>12. Registered(sessions', pages, calls')
  <2>1. SUFFICES ASSUME NEW p \in Pages, pages[p].at # "closed" PROVE \E i \in Ids : sessions'[i] = p
    BY DEF Registered
  <2>2. CASE \E i \in Ids : sessions[i] = p
    <3>1. PICK i \in Ids : sessions[i] = p
      BY <2>2
    <3>2. p # 0
      BY Constants
    <3>3. i # x.id
      BY <1>1, <1>7, <1>8, <2>1, <3>1, <3>2
    <3>. QED  BY <1>6, <3>1, <3>3
  <2>3. CASE \E o \in Slots : Doing(calls[o], {"keep"}) /\ calls[o].on[Head(calls[o].todo).id] = p
    <3>1. x.do = "keep" /\ c.on[x.id] = p
      BY <1>4, <1>11, <2>3 DEF c
    <3>. QED  BY <1>4, <1>6, <1>9, <3>1
  <2>. QED  BY <2>1, <2>2, <2>3 DEF AInv, PagesInv, Registered
<1>13. Owners(sessions', pages)
  <2>1. /\ \A i, j \in Ids : sessions[i] = sessions[j] /\ sessions[i] # 0 => i = j
        /\ \A p \in Pages : pages[p].user # None => sessions[pages[p].user] = p
    BY DEF AInv, PagesInv, Owners
  <2>2. \A i, j \in Ids : sessions'[i] = sessions'[j] /\ sessions'[i] # 0 => i = j
    BY <1>1, <1>6, <1>7, <1>8, <2>1
  <2>3. ASSUME NEW p \in Pages, pages[p].user # None PROVE sessions'[pages[p].user] = p
    <3>1. pages[p].user \in Ids
      BY <2>3 DEF AInv, Types, PageOK, Page
    <3>2. sessions[pages[p].user] = p /\ p # 0
      BY <2>1, <2>3, Constants
    <3>3. pages[p].user # x.id
      BY <1>1, <1>7, <1>8, <2>3, <3>2
    <3>. QED  BY <1>6, <3>1, <3>2, <3>3
  <2>. QED  BY <2>2, <2>3 DEF Owners
<1>14. \A i \in Ids : sessions'[i] \in {0, sessions[i]} \/ pages[sessions'[i]].mail = <<>>
  BY <1>1, <1>6, <1>7, <1>8
<1>15. \A o \in Slots \ {s} : Kept(calls[o], calls'[o]) /\ calls'[o].waits = calls[o].waits
  BY <1>3 DEF Kept
<1>16. \A q \in Pages :
           \/ pages'[q].sent = <<>> /\ pages'[q].mail = <<>>
           \/ /\ pages'[q].sent = pages[q].sent /\ pages'[q].mail = pages[q].mail
              /\ \A o \in Slots \ {s} : calls[o].inPage = q => calls'[o].inPage = q
  BY <1>1, <1>3
<1>17. /\ \A j \in Ids : sessions'[j] = sessions[j] \/ j = Now(s).id
       /\ \A i \in Ids : sessions'[i] \in {0, sessions[i]} \/ pages'[sessions'[i]].mail = <<>>
       /\ \A q \in Pages : pages'[q].fight \in {0, pages[q].fight}
  BY <1>1, <1>6, <1>14 DEF x
<1>18. /\ c.todo = calls[s].todo /\ Reported(fights, c) /\ Onward(sessions', pages', fights, c, calls'[s])
       /\ Registered(sessions', pages', calls') /\ Owners(sessions', pages')
  BY <1>1, <1>3, <1>4, <1>10, <1>12, <1>13 DEF c
<1>. QED  BY <1>1, <1>2, <1>15, <1>16, <1>17, <1>18, OwnPages

\* Steps that leave the registry alone and open no page.
LEMMA HereInv ==
  ASSUME AInv, NEW s \in Slots, Running(s), Now(s).do \notin {"skip", "answer", "keep"},
         AllAwait \/ Now(s).do \in Stretches, sessions' = sessions, fights' = fights,
         NEW d, d.todo = calls[s].todo, Reported(fights, d), Onward(sessions, pages', fights, d, calls'[s]),
         \A o \in Slots \ {s} : Kept(calls[o], calls'[o]) /\ calls'[o].waits = calls[o].waits,
         \A p \in Pages :
           /\ pages'[p].fight \in {0, pages[p].fight}
           /\ pages'[p].at # "closed" => pages[p].at # "closed"
           /\ \/ pages'[p].sent = <<>> /\ pages'[p].mail = <<>>
              \/ /\ pages'[p].sent = pages[p].sent /\ pages'[p].mail = pages[p].mail
                 /\ \A o \in Slots \ {s} : calls[o].inPage = p => calls'[o].inPage = p,
         Owners(sessions, pages')
  PROVE  Rest(sessions', pages', fights', calls')
<1>1. ~ Doing(calls[s], {"keep"})
  BY DEF Doing, Now
<1>2. Registered(sessions, pages', calls')
  <2>1. /\ \A o \in Slots \ {s} : Kept(calls[o], calls'[o])
        /\ \A p \in Pages : pages'[p].at # "closed" => pages[p].at # "closed"
        /\ Registered(sessions, pages, calls)
    BY DEF AInv, PagesInv
  <2>. QED  BY <1>1, <2>1, RegisteredStays
<1>3. Idle(calls, s)
  BY IdleOthers
<1>4. /\ \A j \in Ids : sessions'[j] = sessions[j] \/ j = Now(s).id
      /\ \A i \in Ids : sessions'[i] \in {0, sessions[i]} \/ pages'[sessions'[i]].mail = <<>>
      /\ \A p \in Pages : pages'[p].fight \in {0, pages[p].fight}
  OBVIOUS
<1>5. \A p \in Pages :
           \/ pages'[p].sent = <<>> /\ pages'[p].mail = <<>>
           \/ /\ pages'[p].sent = pages[p].sent /\ pages'[p].mail = pages[p].mail
              /\ \A o \in Slots \ {s} : calls[o].inPage = p => calls'[o].inPage = p
  OBVIOUS
<1>6. /\ Onward(sessions', pages', fights, d, calls'[s])
      /\ Registered(sessions', pages', calls') /\ Owners(sessions', pages')
  BY <1>2
<1>. QED  BY <1>3, <1>4, <1>5, <1>6, OwnPages

LEMMA EmptiedFields ==
  ASSUME NEW page \in Page, NEW at
  PROVE  /\ Emptied(page, at).at = at /\ Emptied(page, at).user = page.user /\ Emptied(page, at).fight = 0
         /\ Emptied(page, at).sent = <<>> /\ Emptied(page, at).mail = <<>>
BY DEF Page, Emptied

LEMMA AreTornOff ==
  ASSUME AInv, NEW p
  PROVE  /\ DOMAIN Torn(p) = Slots
         /\ \A o \in Slots : /\ Kept(calls[o], Torn(p)[o]) /\ Torn(p)[o].waits = calls[o].waits
                             /\ calls[o].inPage # p => Torn(p)[o] = calls[o]
<1>1. DOMAIN Torn(p) = Slots
  BY DEF Torn
<1>2. ASSUME NEW o \in Slots
      PROVE  /\ Kept(calls[o], Torn(p)[o]) /\ Torn(p)[o].waits = calls[o].waits
             /\ calls[o].inPage # p => Torn(p)[o] = calls[o]
  <2> DEFINE c == calls[o]
  <2>1. c \in Call
    BY OfPages
  <2>2. Torn(p)[o] = IF c.inPage = p THEN [c EXCEPT !.inPage = 0] ELSE c
    BY DEF Torn
  <2> HIDE DEF c
  <2>3. Kept(c, [c EXCEPT !.inPage = 0]) /\ [c EXCEPT !.inPage = 0].waits = c.waits /\ Kept(c, c)
    BY <2>1 DEF Kept, Call
  <2>. QED  BY <2>2, <2>3 DEF c
<1>. QED  BY <1>1, <1>2

\* A page is emptied by a step of call s, and the methods that run in it are torn off.
LEMMA EmptyInv ==
  ASSUME AInv, NEW s \in Slots, Running(s), Now(s).do \notin {"skip", "answer", "keep"}, AllAwait,
         sessions' = sessions, fights' = fights,
         NEW p \in 0..MaxPages, NEW page, pages' = [pages EXCEPT ![p] = page],
         page.sent = <<>>, page.mail = <<>>, page.fight = 0,
         p \in Pages => page.user \in {None, pages[p].user} /\ (page.at # "closed" => pages[p].at # "closed"),
         NEW d, d.todo = calls[s].todo, Reported(fights, d),
         NEW e, Onward(sessions, pages', fights, d, e), calls' = [Torn(p) EXCEPT ![s] = e]
  PROVE  Rest(sessions', pages', fights', calls')
<1>1. calls'[s] = e /\ \A o \in Slots \ {s} : calls'[o] = Torn(p)[o]
  BY AreTornOff
<1>2. DOMAIN pages = Pages
  BY DEF AInv, Types
<1>3. \A q \in Pages : q = p \/ q # p
  OBVIOUS
<1>4. (p \in Pages => pages'[p] = page) /\ \A q \in Pages : q # p => pages'[q] = pages[q]
  BY <1>2
<1>5. \A o \in Slots \ {s} : Kept(calls[o], calls'[o]) /\ calls'[o].waits = calls[o].waits
  BY <1>1, AreTornOff
<1>6. \A q \in Pages : q # p => \A o \in Slots \ {s} : calls[o].inPage = q => calls'[o].inPage = q
  BY <1>1, AreTornOff
<1>7. \A q \in Pages :
           /\ pages'[q].fight \in {0, pages[q].fight}
           /\ pages'[q].at # "closed" => pages[q].at # "closed"
           /\ \/ pages'[q].sent = <<>> /\ pages'[q].mail = <<>>
              \/ /\ pages'[q].sent = pages[q].sent /\ pages'[q].mail = pages[q].mail
                 /\ \A o \in Slots \ {s} : calls[o].inPage = q => calls'[o].inPage = q
  BY <1>4, <1>6
<1>8. Owners(sessions, pages')
  <2>1. \A q \in Pages : pages'[q].user \in {None, pages[q].user}
    BY <1>4
  <2>. QED  BY <2>1, OwnersStay DEF AInv, PagesInv
<1>9. Onward(sessions, pages', fights, d, calls'[s])
  BY <1>1
<1>. QED  BY <1>5, <1>7, <1>8, <1>9, HereInv

LEMMA CloseInv ==
  ASSUME AInv, NEW s \in Slots, CloseContext(s)
  PROVE  Rest(sessions', pages', fights', calls')
<1> DEFINE c == calls[s]
           x == Now(s)
           p == PageOf(s)
           page == Emptied(Blank, "closed")
<1>1. /\ Running(s) /\ AllAwait /\ x.do = "close" /\ sessions' = sessions /\ fights' = fights
      /\ pages' = [pages EXCEPT ![p] = page] /\ calls' = [Torn(p) EXCEPT ![s] = Moved(c)]
  BY DEF CloseContext, Awaits, At, hub
<1>2. page.at = "closed" /\ page.user = None /\ page.fight = 0 /\ page.sent = <<>> /\ page.mail = <<>>
  BY DEF Emptied, Blank
<1> HIDE DEF page
<1>3. /\ c.end = "running" /\ c \in Call /\ c.todo # <<>> /\ x = Head(c.todo) /\ Good(sessions, pages, fights, c)
      /\ Reported(fights, c) /\ x.id \in Ids /\ p = c.on[x.id] /\ p \in 0..MaxPages
      /\ \A f \in Needed(x.do) : Fact(sessions, pages, fights, c, Doing(c, Stretches), f, x.id)
  BY <1>1, AtHand
<1> HIDE DEF c, x, p
<1>4. p = sessions[x.id] /\ p # 0
  <2>1. "found" \in Needed(x.do)
    BY <1>1 DEF Needed
  <2>. QED  BY <1>3, <2>1 DEF Fact
<1>5. pages'[p] = page
  BY <1>1, <1>3, <1>4, Constants DEF AInv, Types
<1>6. \A f \in Brought(x.do) : Fact(sessions, pages', fights, c, TRUE, f, x.id)
  BY <1>1, <1>2, <1>3, <1>4, <1>5 DEF Brought, Fact
<1>7. x.do \notin {"skip", "answer", "invoke"} /\ x.do \notin Renaming
  BY <1>1 DEF Renaming
<1>8. Onward(sessions, pages', fights, c, Moved(c))
  BY <1>3, <1>6, <1>7, MovedOnward
<1>9. Now(s).do \notin {"skip", "answer", "keep"} /\ c.todo = calls[s].todo
  BY <1>1 DEF x, c
<1>. QED  BY <1>1, <1>2, <1>3, <1>8, <1>9, EmptyInv

LEMMA NavigateInv ==
  ASSUME AInv, NEW s \in Slots, Navigate(s)
  PROVE  Rest(sessions', pages', fights', calls')
<1> DEFINE c == calls[s]
           x == Now(s)
           p == PageOf(s)
           page == Emptied(pages[p], "loading")
<1>1. /\ Running(s) /\ AllAwait /\ x.do = "goto" /\ sessions' = sessions /\ fights' = fights
  BY DEF Navigate, Awaits, At, hub
<1>2. CASE pages[p].at = "closed"
  <2>1. pages' = pages /\ Goes(s, Thrown(c))
    BY <1>2 DEF Navigate, Throws
  <2>2. Now(s).do \in Throwing \ {"invoke"}
    BY <1>1 DEF Throwing
  <2>. QED  BY <1>1, <2>1, <2>2, ThrownInv
<1>3. CASE pages[p].at # "closed"
  <2>1. pages' = [pages EXCEPT ![p] = page] /\ calls' = [Torn(p) EXCEPT ![s] = Moved(c)]
    BY <1>3 DEF Navigate
  <2>3. /\ c.end = "running" /\ c \in Call /\ c.todo # <<>> /\ x = Head(c.todo) /\ Good(sessions, pages, fights, c)
        /\ Reported(fights, c) /\ p \in 0..MaxPages
    BY <1>1, AtHand
  <2> HIDE DEF c, x, p
  <2>4. Brought(x.do) = {} /\ x.do \notin {"skip", "answer", "invoke"}
    BY <1>1 DEF Brought
  <2>5. Onward(sessions, pages', fights, c, Moved(c))
    BY <2>3, <2>4, MovedOnward
  <2>6. Now(s).do \notin {"skip", "answer", "keep"} /\ c.todo = calls[s].todo
    BY <1>1 DEF x, c
  <2>7. CASE p \in Pages
    <3>1. pages[p] \in Page
      BY <2>7 DEF AInv, Types, PageOK
    <3>2. page.user = pages[p].user /\ page.fight = 0 /\ page.sent = <<>> /\ page.mail = <<>>
      BY <3>1, EmptiedFields
    <3> HIDE DEF page
    <3>. QED  BY <1>1, <1>3, <2>1, <2>3, <2>5, <2>6, <3>2, EmptyInv
  <2>8. CASE p \notin Pages
    <3>1. pages' = [pages EXCEPT ![p] = Blank]
      BY <2>1, <2>8 DEF AInv, Types
    <3>2. Blank.fight = 0 /\ Blank.sent = <<>> /\ Blank.mail = <<>>
      BY DEF Blank
    <3>. QED  BY <1>1, <2>1, <2>3, <2>5, <2>6, <2>8, <3>1, <3>2, EmptyInv
  <2>. QED  BY <2>7, <2>8
<1>. QED  BY <1>2, <1>3

LEMMA QuitInv ==
  ASSUME AInv, NEW s \in Slots, CloseBrowser(s)
  PROVE  Rest(sessions', pages', fights', calls')
<1> DEFINE c == calls[s]
           x == Now(s)
<1>1. /\ Running(s) /\ AllAwait /\ x.do = "quit" /\ sessions' = sessions /\ fights' = fights
      /\ pages' = [p \in Pages |-> Blank]
      /\ calls' = [t \in Slots |-> IF t = s THEN Moved(calls[s]) ELSE [calls[t] EXCEPT !.inPage = 0]]
  BY DEF CloseBrowser, Awaits, At, hub
<1>2. Blank.at = "closed" /\ Blank.user = None /\ Blank.fight = 0 /\ Blank.sent = <<>> /\ Blank.mail = <<>>
  BY DEF Blank
<1>3. \A p \in Pages : pages'[p] = Blank
  BY <1>1
<1>4. calls'[s] = Moved(c) /\ \A o \in Slots \ {s} : calls'[o] = [calls[o] EXCEPT !.inPage = 0]
  BY <1>1
<1>5. ASSUME NEW o \in Slots \ {s} PROVE Kept(calls[o], calls'[o]) /\ calls'[o].waits = calls[o].waits
  <2> DEFINE k == calls[o]
  <2>1. k \in Call /\ calls'[o] = [k EXCEPT !.inPage = 0]
    BY <1>4, OfPages
  <2> HIDE DEF k
  <2>2. Kept(k, [k EXCEPT !.inPage = 0]) /\ [k EXCEPT !.inPage = 0].waits = k.waits
    BY <2>1 DEF Kept, Call
  <2>. QED  BY <2>1, <2>2 DEF k
<1>6. Brought(x.do) = {} /\ Now(s).do \notin {"skip", "answer", "keep"} /\ x.do \notin {"skip", "answer", "invoke"}
  BY <1>1 DEF Brought
<1>7. /\ c.end = "running" /\ c \in Call /\ c.todo # <<>> /\ x = Head(c.todo) /\ Good(sessions, pages, fights, c)
      /\ Reported(fights, c)
  BY <1>1, <1>6, AtHand
<1> HIDE DEF c, x
<1>8. Onward(sessions, pages', fights, c, Moved(c))
  BY <1>6, <1>7, MovedOnward
<1>9. \A p \in Pages :
           /\ pages'[p].fight \in {0, pages[p].fight}
           /\ pages'[p].at # "closed" => pages[p].at # "closed"
           /\ \/ pages'[p].sent = <<>> /\ pages'[p].mail = <<>>
              \/ /\ pages'[p].sent = pages[p].sent /\ pages'[p].mail = pages[p].mail
                 /\ \A o \in Slots \ {s} : calls[o].inPage = p => calls'[o].inPage = p
  BY <1>2, <1>3
<1>10. Owners(sessions, pages')
  <2>1. \A p \in Pages : pages'[p].user \in {None, pages[p].user}
    BY <1>2, <1>3
  <2>. QED  BY <2>1, OwnersStay DEF AInv, PagesInv
<1>11. c.todo = calls[s].todo /\ Onward(sessions, pages', fights, c, calls'[s])
  BY <1>4, <1>8 DEF c
<1>. QED  BY <1>1, <1>5, <1>6, <1>7, <1>9, <1>10, <1>11, HereInv

\* The pages that are loaded again by the stages of an injected scenario.
LEMMA NavigateAllInv ==
  ASSUME AInv, NEW s \in Slots, NavigateAll(s)
  PROVE  Rest(sessions', pages', fights', calls')
<1> DEFINE c == calls[s]
           x == Now(s)
<1>1. /\ Running(s) /\ AllAwait /\ x.do = "navigate" /\ sessions' = sessions /\ fights' = fights
  BY DEF NavigateAll, Awaits, At, hub
<1>2. PICK i \in c.left :
        /\ sessions[i] # 0
        /\ pages' = [pages EXCEPT ![sessions[i]] =
                       IF @.at = "closed" THEN @ ELSE Emptied(@, "loading")]
        /\ calls' = [Torn(sessions[i]) EXCEPT ![s] = OneDone([c EXCEPT !.on[i] = sessions[i]], i)]
  BY DEF NavigateAll
<1> DEFINE p == sessions[i]
           d == [c EXCEPT !.on[i] = p]
           page == IF pages[p].at = "closed" THEN pages[p] ELSE Emptied(pages[p], "loading")
           e == OneDone(d, i)
<1>3. /\ pages' = [pages EXCEPT ![p] = page] /\ calls' = [Torn(p) EXCEPT ![s] = e]
  BY <1>2
<1>4. /\ c.end = "running" /\ c \in Call /\ c.todo # <<>> /\ x = Head(c.todo) /\ Good(sessions, pages, fights, c)
      /\ Reported(fights, c) /\ Subjects(c.todo) \subseteq Ids
  BY <1>1, AtHand
<1>5. i \in Ids /\ p \in Pages /\ p # 0 /\ p \in 0..MaxPages
  <2>1. c.left \subseteq Ids
    BY <1>4 DEF Call
  <2>. QED  BY <1>2, <2>1, OfPages
<1> HIDE DEF c, x, p
<1>6. /\ d \in Call /\ d.end = "running" /\ d.todo = c.todo /\ d.fight = c.fight /\ d.id = c.id /\ d.shot = c.shot
      /\ d.inPage = c.inPage /\ d.waits = c.waits /\ d.left = c.left
      /\ d.on[i] = p /\ \A j \in Ids \ {i} : d.on[j] = c.on[j]
  BY <1>4, <1>5, OnChanged
<1> HIDE DEF d
<1>7. \A j \in Subjects(c.todo) : c.on[j] = sessions[j] /\ sessions[j] # 0 => d.on[j] = sessions[j] /\ sessions[j] # 0
  BY <1>4, <1>5, <1>6 DEF p
<1>8. Brought(x.do) = {} /\ x.do \notin {"skip", "answer", "invoke"}
  BY <1>1 DEF Brought
<1>9. Onward(sessions, pages', fights, d, e)
  <2>1. CASE d.left = {i}
    <3>1. e = Moved(d)
      BY <2>1 DEF OneDone
    <3>2. \A j \in Subjects(c.todo) : c.on[j] = sessions[j] /\ sessions[j] # 0 /\ ~ (j = x.id /\ x.do \in Renaming)
                                       => d.on[j] = sessions[j] /\ sessions[j] # 0
      BY <1>7
    <3> HIDE DEF e
    <3>3. Onward(sessions, pages', fights, d, Moved(d))
      BY <1>4, <1>6, <1>8, <3>2, MovedOnward
    <3>. QED  BY <3>1, <3>3
  <2>2. CASE d.left # {i}
    <3>1. e = [d EXCEPT !.left = @ \ {i}]
      BY <2>2 DEF OneDone
    <3>2. /\ e.end = d.end /\ e.id = d.id /\ e.on = d.on /\ e.inPage = d.inPage /\ e.shot = d.shot
          /\ e.fight = d.fight /\ e.waits = d.waits /\ e.todo = d.todo
      <4> HIDE DEF e
      <4>. QED  BY <1>6, <3>1 DEF Call
    <3> HIDE DEF e
    <3>3. SameButTodo(e, [c EXCEPT !.on = e.on]) /\ e.todo = c.todo
      BY <1>4, <1>6, <3>2 DEF SameButTodo, Call
    <3>4. \A j \in Subjects(c.todo) : c.on[j] = sessions[j] /\ sessions[j] # 0 => e.on[j] = sessions[j] /\ sessions[j] # 0
      BY <1>7, <3>2
    <3>5. Head(c.todo).do \in {"navigate", "ready", "resume"}
      BY <1>1, <1>4
    <3>6. Onward(sessions, pages', fights, e, e)
      BY <1>4, <3>3, <3>4, <3>5, StageOnward
    <3>. QED  BY <1>6, <3>2, <3>6 DEF Onward, SameButTodo, Reported
  <2>. QED  BY <2>1, <2>2
<1> HIDE DEF e
<1>10. Now(s).do \notin {"skip", "answer", "keep"} /\ d.todo = calls[s].todo /\ Reported(fights, d)
  BY <1>1, <1>4, <1>6 DEF x, c, Reported
<1>11. pages[p] \in Page
  BY <1>5 DEF AInv, Types, PageOK
<1>12. CASE pages[p].at # "closed"
  <2>1. page.user = pages[p].user /\ page.fight = 0 /\ page.sent = <<>> /\ page.mail = <<>>
    BY <1>11, <1>12, EmptiedFields
  <2> HIDE DEF page
  <2>. QED  BY <1>1, <1>3, <1>5, <1>9, <1>10, <1>12, <2>1, EmptyInv
<1>13. CASE pages[p].at = "closed"
  <2>1. page = pages[p] /\ page.sent = <<>> /\ page.mail = <<>> /\ page.fight = 0
    <3>1. PageOK(pages[p], rooms, Len(fights))
      BY <1>5 DEF AInv, Types
    <3>. QED  BY <1>13, <3>1 DEF PageOK
  <2>. QED  BY <1>1, <1>3, <1>5, <1>9, <1>10, <2>1, EmptyInv
<1>. QED  BY <1>12, <1>13

LEMMA ReloadInv ==
  ASSUME AInv, NEW s \in Slots, ResumeAgain(s)
  PROVE  Rest(sessions', pages', fights', calls')
<1> DEFINE c == calls[s]
           x == Now(s)
<1>1. /\ Running(s) /\ AllAwait /\ x.do = "resume" /\ sessions' = sessions /\ fights' = fights
  BY DEF ResumeAgain, Awaits, At, hub
<1>2. PICK i \in c.left :
        /\ Ready(c.on[i])
        /\ pages' = [pages EXCEPT ![c.on[i]] = Emptied(@, "loading")]
        /\ calls' = [Torn(c.on[i]) EXCEPT ![s] = [c EXCEPT !.fate[i] = "reloaded", !.calm = FALSE]]
  BY DEF ResumeAgain
<1> DEFINE p == c.on[i]
           fate == [c.fate EXCEPT ![i] = "reloaded"]
           d == [c EXCEPT !.fate = fate, !.calm = FALSE]
           page == Emptied(pages[p], "loading")
<1>3. pages' = [pages EXCEPT ![p] = page] /\ calls' = [Torn(p) EXCEPT ![s] = d]
  BY <1>2
<1>4. /\ c.end = "running" /\ c \in Call /\ c.todo # <<>> /\ x = Head(c.todo) /\ Good(sessions, pages, fights, c)
      /\ Reported(fights, c) /\ c.on \in [Ids -> 0..MaxPages]
  BY <1>1, AtHand
<1>5. p \in Pages /\ p \in 0..MaxPages /\ pages[p].at # "closed"
  <2>1. i \in Ids
    BY <1>2, <1>4 DEF Call
  <2>. QED  BY <1>2, <1>4, <2>1, Constants DEF Ready
<1> HIDE DEF c, x, p, fate
<1>6. SameButTodo(d, [c EXCEPT !.on = d.on]) /\ d.todo = c.todo /\ d.on = c.on /\ Reported(fights, d)
  BY <1>4 DEF SameButTodo, Call, Reported
<1> HIDE DEF d
<1>7. Onward(sessions, pages', fights, d, d)
  <2>1. \A j \in Subjects(c.todo) : c.on[j] = sessions[j] /\ sessions[j] # 0 => d.on[j] = sessions[j] /\ sessions[j] # 0
    BY <1>6
  <2>2. Head(c.todo).do \in {"navigate", "ready", "resume"}
    BY <1>1, <1>4
  <2>. QED  BY <1>4, <1>6, <2>1, <2>2, StageOnward
<1>8. Now(s).do \notin {"skip", "answer", "keep"} /\ d.todo = calls[s].todo
  BY <1>1, <1>6 DEF x, c
<1>9. pages[p] \in Page
  BY <1>5 DEF AInv, Types, PageOK
<1>10. page.user = pages[p].user /\ page.fight = 0 /\ page.sent = <<>> /\ page.mail = <<>>
  BY <1>9, EmptiedFields
<1> HIDE DEF page
<1>. QED  BY <1>1, <1>3, <1>5, <1>6, <1>7, <1>8, <1>10, EmptyInv

LEMMA LoginInv ==
  ASSUME AInv, NEW s \in Slots, ApiAnswers(s) \/ SignUp(s)
  PROVE  Rest(sessions', pages', fights', calls')
<1> DEFINE c == calls[s]
           x == Now(s)
           p == PageOf(s)
           page == pages'[p]
<1>1. /\ Running(s) /\ AllAwait /\ x.do \in {"api", "form"} /\ sessions' = sessions /\ fights' = fights
      /\ Goes(s, Moved(c))
  BY DEF ApiAnswers, SignUp, Awaits, At, hub, Proceeds
<1>2. /\ c.end = "running" /\ c \in Call /\ c.todo # <<>> /\ x = Head(c.todo) /\ Good(sessions, pages, fights, c)
      /\ Reported(fights, c) /\ p = c.on[x.id] /\ x.id \in Ids
      /\ \A f \in Needed(x.do) : Fact(sessions, pages, fights, c, Doing(c, Stretches), f, x.id)
  BY <1>1, AtHand
<1>3. p = sessions[x.id] /\ p # 0 /\ p \in Pages
  <2> HIDE DEF c, x, p
  <2>1. "found" \in Needed(x.do)
    BY <1>1 DEF Needed
  <2>. QED  BY <1>2, <2>1, OfPages DEF Fact
<1>4. pages[p] \in Page /\ DOMAIN pages = Pages
  BY <1>3 DEF AInv, Types, PageOK
<1>5. /\ page.user = x.id /\ page.sent = pages[p].sent /\ page.mail = pages[p].mail
      /\ page.fight = pages[p].fight /\ page.at = pages[p].at
      /\ \A q \in Pages \ {p} : pages'[q] = pages[q]
  <2>1. ASSUME NEW u
        PROVE  LET a == [pages[p] EXCEPT !.user = u]
                   b == [pages[p] EXCEPT !.user = u, !.token = TRUE]
               IN  /\ a.user = u /\ a.sent = pages[p].sent /\ a.mail = pages[p].mail /\ a.fight = pages[p].fight
                   /\ a.at = pages[p].at
                   /\ b.user = u /\ b.sent = pages[p].sent /\ b.mail = pages[p].mail /\ b.fight = pages[p].fight
                   /\ b.at = pages[p].at
    BY <1>4 DEF Page
  <2>2. CASE ApiAnswers(s)
    <3>1. pages' = [pages EXCEPT ![p] = [pages[p] EXCEPT !.user = x.id, !.token = TRUE]]
      BY <1>3, <1>4, <2>2 DEF ApiAnswers
    <3> HIDE DEF p, x
    <3>. QED  BY <1>3, <1>4, <2>1, <3>1
  <2>3. CASE SignUp(s)
    <3>1. pages' = [pages EXCEPT ![p] = [pages[p] EXCEPT !.user = x.id]]
      BY <1>3, <1>4, <2>3 DEF SignUp
    <3> HIDE DEF p, x
    <3>. QED  BY <1>3, <1>4, <2>1, <3>1
  <2>. QED  BY <2>2, <2>3
<1>6. calls'[s] = Moved(c) /\ \A o \in Slots \ {s} : calls'[o] = calls[o]
  BY <1>1 DEF Goes, AInv, Types
<1>7. Now(s).do \notin {"skip", "answer", "keep"} /\ c.todo = calls[s].todo
  BY <1>1
<1> HIDE DEF c, x, p
<1>8. Onward(sessions, pages', fights, c, Moved(c))
  <2>1. Brought(x.do) = {} /\ x.do \notin {"skip", "answer", "invoke"}
    BY <1>1 DEF Brought
  <2>. QED  BY <1>2, <2>1, MovedOnward
<1>9. \A q \in Pages :
           /\ pages'[q].fight \in {0, pages[q].fight}
           /\ pages'[q].at # "closed" => pages[q].at # "closed"
           /\ \/ pages'[q].sent = <<>> /\ pages'[q].mail = <<>>
              \/ /\ pages'[q].sent = pages[q].sent /\ pages'[q].mail = pages[q].mail
                 /\ \A o \in Slots \ {s} : calls[o].inPage = q => calls'[o].inPage = q
  BY <1>3, <1>5, <1>6
<1>10. Owners(sessions, pages')
  <2>1. /\ \A i, j \in Ids : sessions[i] = sessions[j] /\ sessions[i] # 0 => i = j
        /\ \A q \in Pages : pages[q].user # None => sessions[pages[q].user] = q
    BY DEF AInv, PagesInv, Owners
  <2>. QED  BY <1>3, <1>5, <2>1 DEF Owners
<1>11. \A o \in Slots \ {s} : Kept(calls[o], calls'[o]) /\ calls'[o].waits = calls[o].waits
  BY <1>6 DEF Kept
<1>12. Onward(sessions, pages', fights, c, calls'[s])
  BY <1>6, <1>8
<1>. QED  BY <1>1, <1>2, <1>7, <1>9, <1>10, <1>11, <1>12, HereInv

\* The last result is forgotten before troops are placed.
LEMMA ForgetInv ==
  ASSUME AInv, NEW s \in Slots, ForgetResult(s)
  PROVE  Rest(sessions', pages', fights', calls')
<1> DEFINE c == calls[s]
           x == Now(s)
           p == PageOf(s)
           page == [pages[p] EXCEPT !.fight = 0]
<1>1. /\ Running(s) /\ x.do = "clear" /\ sessions' = sessions /\ fights' = fights
      /\ Goes(s, Moved(c)) /\ pages' = [pages EXCEPT ![p] = page]
  BY DEF ForgetResult, At, hub, Proceeds, Forgotten
<1>2. Now(s).do \notin {"skip", "answer", "keep"} /\ c.todo = calls[s].todo /\ Now(s).do \in Stretches
  BY <1>1 DEF Stretches
<1>3. /\ c.end = "running" /\ c \in Call /\ c.todo # <<>> /\ x = Head(c.todo) /\ Good(sessions, pages, fights, c)
      /\ Reported(fights, c) /\ p = c.on[x.id] /\ x.id \in Ids
      /\ \A f \in Needed(x.do) : Fact(sessions, pages, fights, c, Doing(c, Stretches), f, x.id)
      /\ Doing(c, Stretches) <=> x.do \in Stretches
  BY <1>1, <1>2, AtHand
<1>4. calls'[s] = Moved(c) /\ \A o \in Slots \ {s} : calls'[o] = calls[o]
  BY <1>1 DEF Goes, AInv, Types
<1> HIDE DEF c, x, p
<1>5. Doing(c, Stretches) = TRUE
  BY <1>2, <1>3 DEF Doing, x
<1>6. p = sessions[x.id] /\ p # 0 /\ p \in Pages /\ c.inPage \in {0, p} /\ c.inPage # 0
  <2>1. "found" \in Needed(x.do) /\ "inside" \in Needed(x.do)
    BY <1>1 DEF Needed
  <2>. QED  BY <1>3, <1>5, <2>1, OfPages DEF Fact
<1>7. pages[p] \in Page /\ DOMAIN pages = Pages
  BY <1>6 DEF AInv, Types, PageOK
<1>8. /\ page.user = pages[p].user /\ page.sent = pages[p].sent /\ page.mail = pages[p].mail
      /\ page.fight = 0 /\ page.at = pages[p].at
  BY <1>7 DEF Page
<1> HIDE DEF page
<1>9. pages'[p] = page /\ \A q \in Pages \ {p} : pages'[q] = pages[q]
  BY <1>1, <1>6, <1>7
<1>10. Onward(sessions, pages', fights, c, Moved(c))
  <2>1. \A f \in Brought(x.do) : Fact(sessions, pages', fights, c, TRUE, f, x.id)
    BY <1>1, <1>3, <1>6, <1>8, <1>9 DEF Brought, Fact
  <2>2. x.do \notin {"skip", "answer", "invoke"} /\ x.do \notin Renaming
    BY <1>1 DEF Renaming
  <2>. QED  BY <1>3, <2>1, <2>2, MovedOnward
<1>11. \A q \in Pages :
           /\ pages'[q].fight \in {0, pages[q].fight}
           /\ pages'[q].at # "closed" => pages[q].at # "closed"
           /\ \/ pages'[q].sent = <<>> /\ pages'[q].mail = <<>>
              \/ /\ pages'[q].sent = pages[q].sent /\ pages'[q].mail = pages[q].mail
                 /\ \A o \in Slots \ {s} : calls[o].inPage = q => calls'[o].inPage = q
  BY <1>4, <1>6, <1>8, <1>9
<1>12. Owners(sessions, pages')
  <2>1. \A q \in Pages : pages'[q].user \in {None, pages[q].user}
    BY <1>8, <1>9
  <2>. QED  BY <2>1, OwnersStay DEF AInv, PagesInv
<1>13. \A o \in Slots \ {s} : Kept(calls[o], calls'[o]) /\ calls'[o].waits = calls[o].waits
  BY <1>4 DEF Kept
<1>14. Onward(sessions, pages', fights, c, calls'[s])
  BY <1>4, <1>10
<1>. QED  BY <1>1, <1>2, <1>3, <1>11, <1>12, <1>13, <1>14, HereInv DEF c

LEMMA SentFields ==
  ASSUME NEW page \in Page, NEW ask
  PROVE  LET new == Sent(page, ask)
         IN  /\ new.at = page.at /\ new.user = page.user /\ new.fight = page.fight /\ new.mail = page.mail
             /\ \/ new = page
                \/ page.at = "live" /\ new.sent = Append(page.sent, ask)
<1>1. CASE page.at # "live"
  BY <1>1 DEF Sent
<1>2. CASE page.at = "live"
  <2> DEFINE sent == Append(page.sent, ask)
             new == [page EXCEPT !.sent = sent]
  <2>1. Sent(page, ask) = new
    BY <1>2 DEF Sent
  <2> HIDE DEF sent
  <2>2. /\ new.at = page.at /\ new.user = page.user /\ new.fight = page.fight /\ new.mail = page.mail
        /\ new.sent = sent
    BY DEF Page
  <2> HIDE DEF new
  <2>. QED  BY <1>2, <2>1, <2>2 DEF sent
<1>. QED  BY <1>1, <1>2

LEMMA Appended ==
  ASSUME NEW T, NEW t \in Seq(T), NEW x
  PROVE  \A k \in DOMAIN Append(t, x) : \/ k \in DOMAIN t /\ Append(t, x)[k] = t[k]
                                        \/ k \notin DOMAIN t /\ k = Len(t) + 1 /\ Append(t, x)[k] = x
OBVIOUS

\* A hub call is added to what a page has sent: nobody waits for it, or a call that has waited for nothing.
LEMMA OutGrows ==
  ASSUME NEW C, NEW D, NEW p, NEW page, NEW new, Typed(page), Out(page, p, C), Heeds(C, D, p),
         NEW ask, new.sent = Append(page.sent, ask), new.mail = page.mail,
         \/ ask.slot = 0 /\ ask.what # "place"
         \/ /\ ask.slot \in Slots /\ ~ Waits(C[ask.slot], p) /\ Waits(D[ask.slot], p)
            /\ ask.what = "place" => D[ask.slot].shot = ask.shot /\ ask.slot # 0
  PROVE  Out(new, p, D)
<1> DEFINE sent == page.sent
           mail == page.mail
           more == new.sent
<1>1. /\ \A k \in DOMAIN sent : sent[k].slot # 0 =>
           sent[k].slot \in Slots /\ Waits(C[sent[k].slot], p) /\ Waits(D[sent[k].slot], p) /\ D[sent[k].slot].shot = C[sent[k].slot].shot
      /\ \A k \in DOMAIN mail : mail[k].what = "answer" =>
           mail[k].slot \in Slots /\ Waits(C[mail[k].slot], p) /\ Waits(D[mail[k].slot], p)
  BY TypedMessages DEF Out, Heeds
<1>2. sent \in Seq(Request)
  BY DEF Typed
<1>3. \A k \in DOMAIN more : \/ k \in DOMAIN sent /\ more[k] = sent[k]
                             \/ k \notin DOMAIN sent /\ k = Len(sent) + 1 /\ more[k] = ask
  BY <1>2, Appended
<1>4. new.mail = mail
  OBVIOUS
<1>5. /\ \A k, l \in DOMAIN sent : sent[k].slot # 0 /\ sent[k].slot = sent[l].slot => k = l
      /\ \A k, l \in DOMAIN mail :
           mail[k].what = "answer" /\ mail[l].what = "answer" /\ mail[k].slot = mail[l].slot => k = l
      /\ \A k \in DOMAIN sent, l \in DOMAIN mail :
           sent[k].slot # 0 /\ mail[l].what = "answer" => mail[l].slot # sent[k].slot
      /\ \A k \in DOMAIN sent : sent[k].what = "place" => sent[k].slot # 0 /\ C[sent[k].slot].shot = sent[k].shot
  BY DEF Out
<1> HIDE DEF sent, mail, more
<1>6. \A k \in DOMAIN more : more[k].slot # 0 => Waits(D[more[k].slot], p)
  BY <1>1, <1>3
<1>7. \A k \in DOMAIN mail : mail[k].what = "answer" => Waits(D[mail[k].slot], p)
  BY <1>1
<1>8. \A k, l \in DOMAIN more : more[k].slot # 0 /\ more[k].slot = more[l].slot => k = l
  <2>1. SUFFICES ASSUME NEW k \in DOMAIN more, NEW l \in DOMAIN more, more[k].slot # 0, more[k].slot = more[l].slot
        PROVE  k = l
    OBVIOUS
  <2>2. CASE k \in DOMAIN sent /\ more[k] = sent[k]
    BY <1>1, <1>3, <1>5, <2>1, <2>2
  <2>3. CASE k \notin DOMAIN sent /\ k = Len(sent) + 1 /\ more[k] = ask
    BY <1>1, <1>3, <1>5, <2>1, <2>3
  <2>. QED  BY <1>3, <2>2, <2>3
<1>9. \A k \in DOMAIN more, l \in DOMAIN mail : more[k].slot # 0 /\ mail[l].what = "answer" => mail[l].slot # more[k].slot
  BY <1>1, <1>3, <1>5
<1>10. \A k \in DOMAIN more : more[k].what = "place" => more[k].slot # 0 /\ D[more[k].slot].shot = more[k].shot
  BY <1>1, <1>3, <1>5
<1>. QED  BY <1>4, <1>5, <1>6, <1>7, <1>8, <1>9, <1>10 DEF Out, mail, more

\* A step of call s that sends something.
LEMMA SendingInv ==
  ASSUME AInv, NEW s \in Slots, Running(s), Now(s).do \notin {"skip", "answer", "keep"}, Idle(calls, s),
         sessions' = sessions, fights' = fights,
         NEW d, d.todo = calls[s].todo, Reported(fights, d), Onward(sessions, pages', fights, d, calls'[s]),
         \A o \in Slots \ {s} : calls'[o] = calls[o],
         \A p \in Pages : /\ pages'[p].fight = pages[p].fight /\ pages'[p].at = pages[p].at
                          /\ pages'[p].user = pages[p].user /\ pages'[p].mail = pages[p].mail,
         \A p \in Pages : Heeds(calls, calls', p) => Out(pages'[p], p, calls')
  PROVE  Rest(sessions', pages', fights', calls')
<1> DEFINE Q == pages'
           D == calls'
<1>1. /\ calls[s].end = "running" /\ calls[s].todo \in Seq(Steps) /\ calls[s].todo # <<>> /\ Now(s) = Head(calls[s].todo)
      /\ Now(s).do # "skip"
  BY OfPages DEF Running, Now
<1>2. \A p \in Pages : Typed(pages[p]) /\ ~ Waits(calls[s], p)
  BY OfPages, NobodyWaits
<1>3. /\ CallsInv(sessions, pages, fights, calls) /\ PagesInv(sessions, pages, fights, calls)
      /\ sessions \in [Ids -> 0..MaxPages] /\ \A i \in Ids : sessions[i] = 0 \/ sessions[i] \in Pages
  BY OfPages DEF AInv
<1>4. \A o \in Slots \ {s} : Kept(calls[o], D[o]) /\ D[o].waits = calls[o].waits /\ D[o].inPage = calls[o].inPage
  BY DEF Kept
<1> HIDE DEF Q, D
<1>5. /\ Onward(sessions, Q, fights, d, D[s])
      /\ \A p \in Pages : Q[p].fight = pages[p].fight /\ Q[p].at = pages[p].at /\ Q[p].user = pages[p].user /\ Q[p].mail = pages[p].mail
      /\ \A p \in Pages : Heeds(calls, D, p) => Out(Q[p], p, D)
  BY DEF Q, D
<1>6. CallsInv(sessions, Q, fights, D)
  <2>1. /\ \A o \in Slots \ {s} : Kept(calls[o], D[o])
        /\ \A p \in Pages : Q[p].fight \in {0, pages[p].fight}
        /\ \A j \in Ids : sessions[j] = sessions[j] \/ j = Now(s).id
    BY <1>4, <1>5
  <2>2. Onward(sessions, Q, fights, d, D[s])
    BY <1>5
  <2>. QED  BY <1>1, <1>3, <2>1, <2>2, CallsAfterStep
<1>7. \A p \in Pages : Heeds(calls, D, p)
  BY <1>2, <1>4, KeptHeeds
<1>8. Registered(sessions, Q, D)
  <2>1. ~ Doing(calls[s], {"keep"})
    BY DEF Doing, Now
  <2>2. /\ \A o \in Slots \ {s} : Kept(calls[o], D[o])
        /\ \A p \in Pages : Q[p].at # "closed" => pages[p].at # "closed"
    BY <1>4, <1>5
  <2>3. Registered(sessions, pages, calls)
    BY <1>3 DEF PagesInv
  <2>4. \A o \in Slots \ {s} : Kept(calls[o], D[o])
    BY <2>2
  <2>5. \A p \in Pages : Q[p].at # "closed" => pages[p].at # "closed"
    BY <2>2
  <2>. QED  BY <2>1, <2>3, <2>4, <2>5, RegisteredStays
<1>9. Owners(sessions, Q)
  <2>1. \A p \in Pages : Q[p].user \in {None, pages[p].user}
    BY <1>5
  <2>. QED  BY <1>3, <2>1, OwnersStay DEF PagesInv
<1>10. ASSUME NEW i \in Ids, sessions[i] # 0 PROVE News(Q[sessions[i]], i, fights, D)
  <2>1. sessions[i] \in Pages
    BY <1>3, <1>10
  <2>2. News(pages[sessions[i]], i, fights, calls) /\ Out(pages[sessions[i]], sessions[i], calls)
    BY <1>3, <1>10, <2>1 DEF PagesInv
  <2>3. Q[sessions[i]].mail = pages[sessions[i]].mail
    BY <1>5, <2>1
  <2>. QED  BY <1>2, <1>7, <2>1, <2>2, <2>3, NewsStays
<1>11. PagesInv(sessions, Q, fights, D)
  BY <1>5, <1>7, <1>8, <1>9, <1>10 DEF PagesInv
<1>. QED  BY <1>6, <1>11 DEF Q, D, Rest

\* Buttons, and hub calls that nobody waits for.
LEMMA AskingInv ==
  ASSUME AInv, NEW s \in Slots, ClickButton(s) \/ SendToHub(s)
  PROVE  Rest(sessions', pages', fights', calls')
<1> DEFINE c == calls[s]
           x == Now(s)
           p == PageOf(s)
<1>1. /\ Running(s) /\ x.do \in {"click", "send"} /\ sessions' = sessions /\ fights' = fights
      /\ Goes(s, Moved(c)) /\ (AllAwait \/ x.do \in Stretches)
  BY DEF ClickButton, SendToHub, Awaits, At, hub, Proceeds, Stretches
<1>2. PICK what \in Whats, room \in Rooms \cup {None} :
        /\ what # "place"
        /\ \E new \in {pages[p], Sent(pages[p], Ask(what, room))} : pages' = [pages EXCEPT ![p] = new]
  <2>1. CASE ClickButton(s)
    <3>1. x.arg \in Buttons /\ c.room \in Rooms \cup {None}
      BY <1>1, <2>1, NowIsStep DEF ClickButton, Awaits, At, AInv, Call
    <3>2. \E new \in {pages[p], Sent(pages[p], Ask(x.arg, c.room))} : pages' = [pages EXCEPT ![p] = new]
      BY <2>1 DEF ClickButton
    <3>. QED  BY <3>1, <3>2, WhatsApart
  <2>2. CASE SendToHub(s)
    <3>1. x.arg \in Sends
      BY <1>1, <2>2, NowIsStep DEF SendToHub, At, AInv
    <3>2. pages' = [pages EXCEPT ![p] = Sent(pages[p], Ask(x.arg, None))]
      BY <2>2 DEF SendToHub
    <3>. QED  BY <3>1, <3>2, WhatsApart
  <2>. QED  BY <2>1, <2>2
<1> DEFINE ask == Ask(what, room)
<1>3. ask.slot = 0 /\ ask.what # "place"
  BY <1>2, AskOK
<1> HIDE DEF ask
<1>4. Now(s).do \notin {"skip", "answer", "keep"} /\ x.do \notin {"skip", "answer", "invoke"} /\ x.do \notin Renaming
  BY <1>1 DEF Renaming
<1>5. /\ c.end = "running" /\ c \in Call /\ c.todo # <<>> /\ x = Head(c.todo) /\ Good(sessions, pages, fights, c)
      /\ Reported(fights, c) /\ p \in 0..MaxPages
      /\ \A f \in Needed(x.do) : Fact(sessions, pages, fights, c, Doing(c, Stretches), f, x.id)
      /\ Doing(c, Stretches) <=> x.do \in Stretches
  BY <1>1, <1>4, AtHand
<1>6. calls'[s] = Moved(c) /\ \A o \in Slots \ {s} : calls'[o] = calls[o]
  BY <1>1 DEF Goes, AInv, Types
<1>7. Idle(calls, s) /\ c.todo = calls[s].todo
  BY <1>1, IdleOthers
<1> HIDE DEF c, x, p
<1>8. \A f \in Brought(x.do) : Fact(sessions, pages', fights, c, TRUE, f, x.id)
  <2>1. CASE x.do = "click"
    BY <2>1 DEF Brought
  <2>2. CASE x.do = "send"
    <3>1. "inside" \in Needed(x.do) /\ Doing(c, Stretches) = TRUE
      BY <1>5, <2>2 DEF Needed, Stretches, Doing
    <3>. QED  BY <1>5, <2>2, <3>1 DEF Brought, Fact
  <2>. QED  BY <1>1, <2>1, <2>2
<1>9. Onward(sessions, pages', fights, c, calls'[s])
  <2>1. Onward(sessions, pages', fights, c, Moved(c))
    BY <1>4, <1>5, <1>8, MovedOnward
  <2>. QED  BY <1>6, <2>1
<1>10. DOMAIN pages = Pages /\ \A q \in Pages : pages[q] \in Page /\ Typed(pages[q]) /\ Out(pages[q], q, calls)
  BY OfPages DEF AInv, Types, PageOK, PagesInv
<1>11. PICK new \in {pages[p], Sent(pages[p], ask)} : pages' = [pages EXCEPT ![p] = new]
  BY <1>2 DEF ask
<1>12. \A q \in Pages : pages'[q] = pages[q] \/ pages'[q] = Sent(pages[q], ask)
  BY <1>10, <1>11
<1>13. \A q \in Pages : /\ pages'[q].fight = pages[q].fight /\ pages'[q].at = pages[q].at
                        /\ pages'[q].user = pages[q].user /\ pages'[q].mail = pages[q].mail
  BY <1>10, <1>12, SentFields
<1>14. \A q \in Pages : Heeds(calls, calls', q) => Out(pages'[q], q, calls')
  <2>1. SUFFICES ASSUME NEW q \in Pages, Heeds(calls, calls', q) PROVE Out(pages'[q], q, calls')
    OBVIOUS
  <2>2. Typed(pages[q]) /\ Out(pages[q], q, calls)
    BY <1>10
  <2>3. CASE pages'[q] = pages[q]
    <3>1. pages'[q].sent = pages[q].sent /\ pages'[q].mail = pages[q].mail
      BY <2>3
    <3>. QED  BY <2>1, <2>2, <3>1, OutStays
  <2>4. CASE pages'[q].sent = Append(pages[q].sent, ask)
    BY <1>3, <1>13, <2>1, <2>2, <2>4, OutGrows
  <2>. QED  BY <1>10, <1>12, <2>3, <2>4, SentFields
<1>. QED  BY <1>1, <1>4, <1>5, <1>6, <1>7, <1>9, <1>13, <1>14, SendingInv

\* Hub calls that the method waits for.
LEMMA InvokeInv ==
  ASSUME AInv, NEW s \in Slots, InvokeHub(s)
  PROVE  Rest(sessions', pages', fights', calls')
<1> DEFINE c == calls[s]
           x == Now(s)
           p == PageOf(s)
           ask == Awaited(x.arg, s, shots')
           new == Sent(pages[p], ask)
           place == x.arg = "place"
           shot == IF place THEN shots' ELSE c.shot
           d == [c EXCEPT !.waits = TRUE, !.fight = 0, !.shot = shot]
<1>1. /\ Running(s) /\ x.do = "invoke" /\ sessions' = sessions /\ fights' = fights
      /\ pages' = [pages EXCEPT ![p] = new]
      /\ shots' = IF place THEN shots + 1 ELSE shots
      /\ IF pages[p].at # "live" THEN Goes(s, Thrown(c)) ELSE Goes(s, Moved(d))
  BY DEF InvokeHub, At, hub, Throws, Awaited
<1>2. x.arg \in Invokes /\ shots' \in Nat
  BY <1>1, NowIsStep DEF AInv, Types
<1>3. ask.slot = s /\ ask.what = x.arg /\ ask.shot = shots'
  BY <1>2, AwaitedOK, WhatsApart
<1> HIDE DEF ask
<1>4. Now(s).do \notin {"skip", "answer", "keep"} /\ x.do \in Stretches /\ c.todo = calls[s].todo
  BY <1>1 DEF Stretches
<1>5. /\ c.end = "running" /\ c \in Call /\ c.todo # <<>> /\ x = Head(c.todo) /\ Good(sessions, pages, fights, c)
      /\ Reported(fights, c) /\ p = c.on[x.id] /\ x.id \in Ids
      /\ \A f \in Needed(x.do) : Fact(sessions, pages, fights, c, Doing(c, Stretches), f, x.id)
      /\ Doing(c, Stretches) <=> x.do \in Stretches
      /\ x.do \in Paired => Len(c.todo) > 1 /\ c.todo[2].do = Second(x.do) /\ c.todo[2].id = x.id
  BY <1>1, <1>4, AtHand
<1>6. Idle(calls, s)
  BY <1>1, <1>4, IdleOthers
<1>7. DOMAIN calls = Slots /\ DOMAIN pages = Pages
      /\ \A q \in Pages : pages[q] \in Page /\ Typed(pages[q]) /\ Out(pages[q], q, calls) /\ ~ Waits(calls[s], q)
  BY <1>4, OfPages, NobodyWaits DEF AInv, Types, PageOK, PagesInv
<1> HIDE DEF c, x, p
<1>8. Doing(c, Stretches) = TRUE
  BY <1>4, <1>5 DEF Doing
<1>9. p = sessions[x.id] /\ p # 0 /\ p \in Pages /\ c.inPage \in {0, p} /\ c.inPage # 0
  <2>1. "found" \in Needed(x.do) /\ "inside" \in Needed(x.do)
    BY <1>1 DEF Needed
  <2>. QED  BY <1>5, <1>8, <2>1, OfPages DEF Fact
<1>10. pages'[p] = new /\ \A q \in Pages \ {p} : pages'[q] = pages[q]
  BY <1>1, <1>7, <1>9
<1>11. \A o \in Slots \ {s} : calls'[o] = calls[o]
  BY <1>1, <1>7 DEF Goes
<1>12. /\ new.at = pages[p].at /\ new.user = pages[p].user /\ new.fight = pages[p].fight /\ new.mail = pages[p].mail
       /\ pages[p].at = "live" => new = pages[p] \/ new.sent = Append(pages[p].sent, ask)
       /\ pages[p].at # "live" => new = pages[p]
  BY <1>7, <1>9, SentFields
<1> HIDE DEF new
<1>13. \A q \in Pages : /\ pages'[q].fight = pages[q].fight /\ pages'[q].at = pages[q].at
                        /\ pages'[q].user = pages[q].user /\ pages'[q].mail = pages[q].mail
  BY <1>10, <1>12
<1>14. ASSUME NEW q \in Pages, Heeds(calls, calls', q), pages'[q].sent = pages[q].sent PROVE Out(pages'[q], q, calls')
  <2>1. pages'[q].mail = pages[q].mail
    BY <1>13
  <2>. QED  BY <1>7, <1>14, <2>1, OutStays
<1>15. CASE pages[p].at # "live"
  <2>1. Goes(s, Thrown(c))
    BY <1>1, <1>15
  <2>2. calls'[s] = Thrown(c)
    BY <1>7, <2>1 DEF Goes
  <2>3. Onward(sessions, pages', fights, c, Thrown(c))
    <3>1. x.do \in Throwing
      BY <1>1 DEF Throwing
    <3>2. Fact(sessions, pages, fights, c, Doing(c, Stretches), "inside", x.id) => Fact(sessions, pages', fights, c, TRUE, "inside", x.id)
      BY <1>8 DEF Fact
    <3>. QED  BY <1>5, <3>1, <3>2, AsideOnward
  <2>4. \A q \in Pages : Heeds(calls, calls', q) => Out(pages'[q], q, calls')
    BY <1>10, <1>12, <1>14, <1>15
  <2>5. Onward(sessions, pages', fights, c, calls'[s])
    BY <2>2, <2>3
  <2>. QED  BY <1>1, <1>4, <1>5, <1>6, <1>11, <1>13, <2>4, <2>5, SendingInv
<1>16. CASE pages[p].at = "live"
  <2>1. Goes(s, Moved(d))
    BY <1>1, <1>16
  <2>2. shot \in Nat
    BY <1>2, <1>5 DEF Call
  <2> HIDE DEF shot
  <2>3. /\ d \in Call /\ d.end = "running" /\ d.todo = c.todo /\ d.fight = 0 /\ d.id = c.id /\ d.shot = shot
        /\ d.on = c.on /\ d.inPage = c.inPage /\ d.waits
    BY <1>5, <2>2 DEF Call
  <2> HIDE DEF d
  <2>4. calls'[s] = Moved(d)
    BY <1>7, <2>1 DEF Goes
  <2>5. Onward(sessions, pages', fights, d, Moved(d))
    <3>1. \A f \in Brought(x.do) : Fact(sessions, pages', fights, d, TRUE, f, x.id)
      BY <1>1, <1>5, <1>9, <2>3 DEF Brought, Fact
    <3>2. Fact(sessions, pages, fights, c, Doing(c, Stretches), "cleared", x.id) => Fact(sessions, pages', fights, d, TRUE, "asked", x.id)
      <4>1. SUFFICES ASSUME Fact(sessions, pages, fights, c, TRUE, "cleared", x.id)
            PROVE  Fact(sessions, pages', fights, d, TRUE, "asked", x.id)
        BY <1>8
      <4>2. pages[p].fight = 0
        BY <1>5, <4>1 DEF Fact
      <4>3. pages'[p].fight = 0 /\ d.on[x.id] = p /\ sessions[x.id] = p /\ p # 0
        BY <1>5, <1>9, <1>13, <2>3, <4>2
      <4>4. OwnShot(fights, x.id, pages'[p].fight, d.shot)
        BY <4>3 DEF OwnShot
      <4>. QED  BY <4>3, <4>4 DEF Fact
    <3>3. x.do \notin {"skip", "answer"} /\ x.do \notin Renaming
      BY <1>1 DEF Renaming
    <3>4. \A j \in Subjects(c.todo) : c.on[j] = sessions[j] /\ sessions[j] # 0 /\ ~ (j = x.id /\ x.do \in Renaming)
                                       => d.on[j] = sessions[j] /\ sessions[j] # 0
      BY <2>3
    <3>5. x.do = "answer" /\ Fact(sessions, pages, fights, c, Doing(c, Stretches), "asked", x.id)
            => Fact(sessions, pages', fights, d, TRUE, "asked", x.id)
      BY <3>3
    <3>6. x.do = "invoke" /\ x.arg = "place" /\ Fact(sessions, pages, fights, c, Doing(c, Stretches), "cleared", x.id)
            => Fact(sessions, pages', fights, d, TRUE, "asked", x.id)
      BY <3>2
    <3>7. /\ c.end = "running" /\ c \in Call /\ c.todo # <<>> /\ x = Head(c.todo) /\ Good(sessions, pages, fights, c)
          /\ x.do # "skip" /\ d \in Call /\ d.end = "running" /\ d.todo = c.todo /\ d.id = c.id
      BY <1>5, <2>3, <3>3
    <3>. QED  BY <3>1, <3>4, <3>5, <3>6, <3>7, MovedOnward
  <2>6. Onward(sessions, pages', fights, d, calls'[s])
    BY <2>4, <2>5
  <2>7. Reported(fights, d) /\ d.todo = calls[s].todo
    BY <1>4, <2>3 DEF Reported
  <2>8. Waits(calls'[s], p) /\ (place => calls'[s].shot = shots')
    <3>1. Len(d.todo) > 1 /\ d.todo[2].do = "answer"
      BY <1>1, <1>5, <2>3 DEF Paired, Second
    <3>2. SameButTodo(Moved(d), d) /\ Moved(d).todo # <<>> /\ Head(Moved(d).todo) = d.todo[2]
      BY <2>3, <3>1, NextIsSecond
    <3>3. place => shot = shots'
      BY DEF shot
    <3>. QED  BY <1>9, <2>3, <2>4, <3>1, <3>2, <3>3 DEF Waits, Doing, SameButTodo
  <2>9. ASSUME NEW q \in Pages, Heeds(calls, calls', q), pages'[q].sent # pages[q].sent PROVE Out(pages'[q], q, calls')
    <3>1. q = p /\ pages'[q].sent = Append(pages[q].sent, ask)
      BY <1>10, <1>12, <1>16, <2>9
    <3>2. pages'[q].mail = pages[q].mail /\ Typed(pages[q]) /\ Out(pages[q], q, calls) /\ ~ Waits(calls[s], q)
      BY <1>7, <1>13
    <3>3. ask.slot \in Slots /\ ~ Waits(calls[ask.slot], q) /\ Waits(calls'[ask.slot], q)
      BY <1>3, <2>8, <3>1, <3>2
    <3>4. ask.what = "place" => calls'[ask.slot].shot = ask.shot /\ ask.slot # 0
      BY <1>3, <2>8, Constants
    <3>. QED  BY <2>9, <3>1, <3>2, <3>3, <3>4, OutGrows
  <2>10. \A q \in Pages : Heeds(calls, calls', q) => Out(pages'[q], q, calls')
    BY <1>14, <2>9
  <2>. QED  BY <1>1, <1>4, <1>6, <1>11, <1>13, <2>6, <2>7, <2>10, SendingInv
<1>. QED  BY <1>15, <1>16

LEMMA StepInv ==
  ASSUME AInv, NEW s \in Slots, Step(s) \/ GivesUp(s) \/ ResumeAgain(s)
  PROVE  Rest(sessions', pages', fights', calls')
<1>1. CASE Step(s)
  <2>1. \/ OwnStep(s)
        \/ NewPage(s) \/ KeepSession(s) \/ DropSession(s)
        \/ CloseContext(s) \/ CloseBrowser(s) \/ Navigate(s) \/ NavigateAll(s)
        \/ ApiAnswers(s) \/ SignUp(s) \/ ClickButton(s) \/ SendToHub(s) \/ InvokeHub(s) \/ ForgetResult(s)
        \/ InjectRoom(s)
    BY <1>1 DEF Step, OwnStep
  <2>. QED  BY <2>1, OwnStepInv, NewPageInv, RegistryInv, CloseInv, QuitInv, NavigateInv, NavigateAllInv,
               LoginInv, AskingInv, InvokeInv, ForgetInv, GivesUpInv
<1>2. CASE GivesUp(s) \/ ResumeAgain(s)
  BY <1>2, GivesUpInv, ReloadInv
<1>. QED  BY <1>1, <1>2

(***************************************************************************)
(* Steps of the pages and of the hub                                       *)
(***************************************************************************)

\* The fights so far stay as they are.
Longer(G, H) == \A n \in 1..Len(G) : H[n] = G[n]

LEMMA CallsMeanwhile ==
  ASSUME NEW S, NEW P, NEW G, NEW C, NEW Q, NEW H, NEW D, CallsInv(S, P, G, C), \A o \in Slots : ~ Doing(C[o], Stretches),
         \A o \in Slots : C[o] \in Call /\ C[o].fight <= Len(G), G \in Seq(Fight), Longer(G, H),
         \A o \in Slots : Kept(C[o], D[o]),
         \A o \in Slots, j \in Ids :
           C[o].end = "running" /\ j \in Subjects(C[o].todo) /\ S[j] # 0 /\ OwnShot(G, j, P[S[j]].fight, C[o].shot)
             => OwnShot(H, j, Q[S[j]].fight, C[o].shot)
  PROVE  CallsInv(S, Q, H, D)
<1>1. \A o \in Slots : /\ D[o].end = C[o].end /\ D[o].todo = C[o].todo /\ D[o].id = C[o].id
                       /\ D[o].shot = C[o].shot /\ D[o].fight = C[o].fight
  BY DEF Kept
<1>2. Apart(D)
  BY <1>1 DEF CallsInv, Apart
<1>3. Solo(D)
  <2>1. \A o \in Slots : ~ Doing(D[o], Stretches)
    BY <1>1 DEF Doing
  <2>. QED  BY <2>1 DEF Solo
<1>4. ASSUME NEW o \in Slots PROVE Reported(H, D[o])
  <2>1. Reported(G, C[o])
    BY DEF CallsInv
  <2>2. D[o].fight # 0 => H[D[o].fight] = G[C[o].fight]
    <3>1. C[o].fight \in Nat /\ Len(G) \in Nat /\ C[o].fight <= Len(G)
      BY DEF Call
    <3>. QED  BY <1>1, <3>1 DEF Longer
  <2>. QED  BY <1>1, <2>1, <2>2 DEF Reported
<1>5. ASSUME NEW o \in Slots PROVE Good(S, Q, H, D[o])
  <2>1. Kept(C[o], D[o]) /\ ~ Doing(C[o], Stretches) /\ Good(S, P, G, C[o])
    BY DEF CallsInv
  <2>2. Subjects(C[o].todo) \subseteq Ids
    BY SubjectsAreIds DEF Call
  <2>3. C[o].end = "running" =>
           \A j \in Subjects(C[o].todo) :
             S[j] = S[j] /\ (C[o].on[j] = S[j] /\ S[j] # 0 /\ OwnShot(G, j, P[S[j]].fight, C[o].shot)
                               => OwnShot(H, j, Q[S[j]].fight, C[o].shot))
    BY <2>2
  <2>. QED  BY <2>1, <2>3, KeptGood
<1>. QED  BY <1>2, <1>3, <1>4, <1>5 DEF CallsInv

LEMMA RegisteredMeanwhile ==
  ASSUME NEW S, NEW P, NEW C, NEW Q, NEW D, Registered(S, P, C),
         \A o \in Slots : Kept(C[o], D[o]),
         \A p \in Pages : Q[p].at # "closed" => P[p].at # "closed"
  PROVE  Registered(S, Q, D)
<1>1. SUFFICES ASSUME NEW p \in Pages, Q[p].at # "closed"
      PROVE  (\E i \in Ids : S[i] = p) \/ \E o \in Slots : Doing(D[o], {"keep"}) /\ D[o].on[Head(D[o].todo).id] = p
  BY DEF Registered
<1>2. (\E i \in Ids : S[i] = p) \/ \E o \in Slots : Doing(C[o], {"keep"}) /\ C[o].on[Head(C[o].todo).id] = p
  BY <1>1 DEF Registered
<1>3. ASSUME NEW o \in Slots, Doing(C[o], {"keep"}), C[o].on[Head(C[o].todo).id] = p
      PROVE  Doing(D[o], {"keep"}) /\ D[o].on[Head(D[o].todo).id] = p
  BY <1>3 DEF Kept, Doing
<1>. QED  BY <1>2, <1>3

\* A step that no call takes.
LEMMA Meanwhile ==
  ASSUME AInv, AllAwait, sessions' = sessions, Longer(fights, fights'),
         \A o \in Slots : Kept(calls[o], calls'[o]),
         \A p \in Pages : pages'[p].at # "closed" => pages[p].at # "closed",
         \A p \in Pages : pages'[p].user \in {None, pages[p].user},
         \/ \A p \in Pages : pages'[p].fight \in {0, pages[p].fight}
         \/ \A o \in Slots, j \in Ids :
              calls[o].end = "running" /\ j \in Subjects(calls[o].todo) /\ sessions[j] # 0
              /\ OwnShot(fights, j, pages[sessions[j]].fight, calls[o].shot)
                => OwnShot(fights', j, pages'[sessions[j]].fight, calls[o].shot),
         \A p \in Pages : Out(pages'[p], p, calls'),
         \A i \in Ids : sessions[i] # 0 => News(pages'[sessions[i]], i, fights', calls')
  PROVE  Rest(sessions', pages', fights', calls')
<1> DEFINE Q == pages'
           H == fights'
           D == calls'
<1>1. /\ CallsInv(sessions, pages, fights, calls) /\ fights \in Seq(Fight)
      /\ Registered(sessions, pages, calls) /\ Owners(sessions, pages)
      /\ \A o \in Slots : calls[o] \in Call /\ calls[o].fight <= Len(fights)
  BY DEF AInv, Types, CallOK, PagesInv
<1>2. \A o \in Slots : ~ Doing(calls[o], Stretches)
  BY DEF AllAwait, InAStretch, Doing, Stretches, Running, Now
<1>3. \A o \in Slots, j \in Ids :
         calls[o].end = "running" /\ j \in Subjects(calls[o].todo) /\ sessions[j] # 0
         /\ OwnShot(fights, j, pages[sessions[j]].fight, calls[o].shot)
           => OwnShot(H, j, Q[sessions[j]].fight, calls[o].shot)
  <2>1. CASE \A p \in Pages : pages'[p].fight \in {0, pages[p].fight}
    <3>1. SUFFICES ASSUME NEW j \in Ids, NEW shot, sessions[j] # 0, OwnShot(fights, j, pages[sessions[j]].fight, shot)
          PROVE  OwnShot(H, j, Q[sessions[j]].fight, shot)
      OBVIOUS
    <3> DEFINE n == pages[sessions[j]].fight
    <3>2. sessions[j] \in Pages
      BY <3>1, OfPages
    <3>3. n \in Nat /\ n <= Len(fights) /\ Len(fights) \in Nat
      BY <1>1, <3>2 DEF AInv, Types, PageOK, Page
    <3>4. Q[sessions[j]].fight \in {0, n}
      BY <2>1, <3>2
    <3> HIDE DEF n, Q
    <3>5. n # 0 => H[n] = fights[n]
      BY <3>3 DEF Longer
    <3>6. OwnShot(fights, j, n, shot)
      BY <3>1 DEF n
    <3> HIDE DEF H
    <3>. QED  BY <3>4, <3>5, <3>6 DEF OwnShot
  <2>. QED  BY <2>1
<1> HIDE DEF Q, H, D
<1>4. Longer(fights, H) /\ \A o \in Slots : Kept(calls[o], D[o])
  BY DEF H, D
<1>5. CallsInv(sessions, Q, H, D)
  BY <1>1, <1>2, <1>3, <1>4, CallsMeanwhile
<1>6. \A p \in Pages : Q[p].at # "closed" => pages[p].at # "closed"
  BY DEF Q
<1>7. Registered(sessions, Q, D)
  BY <1>1, <1>4, <1>6, RegisteredMeanwhile
<1>8. \A p \in Pages : Q[p].user \in {None, pages[p].user}
  BY DEF Q
<1>9. Owners(sessions, Q)
  BY <1>1, <1>8, OwnersStay
<1>10. /\ \A p \in Pages : Out(Q[p], p, D)
       /\ \A i \in Ids : sessions[i] # 0 => News(Q[sessions[i]], i, H, D)
  BY DEF Q, H, D
<1>11. PagesInv(sessions, Q, H, D)
  BY <1>7, <1>9, <1>10 DEF PagesInv
<1>. QED  BY <1>5, <1>11 DEF Q, H, D, Rest

LEMMA TailOf ==
  ASSUME NEW T, NEW t \in Seq(T), t # <<>>
  PROVE  /\ Head(t) = t[1] /\ 1 \in DOMAIN t /\ Tail(t) \in Seq(T)
         /\ \A k \in DOMAIN Tail(t) : k \in Nat /\ k + 1 \in DOMAIN t /\ Tail(t)[k] = t[k + 1] /\ k + 1 # 1
         /\ \A k \in DOMAIN t : k = 1 \/ (k - 1 \in DOMAIN Tail(t) /\ Tail(t)[k - 1] = t[k])
         /\ \A k, l \in DOMAIN t : k \in Nat /\ l \in Nat
OBVIOUS

LEMMA JoinedTo ==
  ASSUME NEW T, NEW t \in Seq(T), NEW u \in Seq(T)
  PROVE  /\ t \o u \in Seq(T) /\ Len(t) \in Nat
         /\ \A k \in DOMAIN (t \o u) : \/ k \in DOMAIN t /\ (t \o u)[k] = t[k]
                                       \/ k - Len(t) \in DOMAIN u /\ (t \o u)[k] = u[k - Len(t)] /\ k \in Nat /\ k > Len(t)
         /\ \A k \in DOMAIN t : k \in DOMAIN (t \o u) /\ (t \o u)[k] = t[k]
         /\ \A k \in DOMAIN u : k + Len(t) \in DOMAIN (t \o u) /\ (t \o u)[k + Len(t)] = u[k]
<1>1. /\ t \o u \in Seq(T) /\ Len(t \o u) = Len(t) + Len(u)
      /\ \A k \in 1..(Len(t) + Len(u)) : (t \o u)[k] = IF k <= Len(t) THEN t[k] ELSE u[k - Len(t)]
  BY ConcatProperties
<1>2. DOMAIN t = 1..Len(t) /\ DOMAIN u = 1..Len(u) /\ DOMAIN (t \o u) = 1..(Len(t) + Len(u)) /\ Len(t) \in Nat /\ Len(u) \in Nat
  BY <1>1
<1> DEFINE v == t \o u
<1> HIDE DEF v
<1>3. /\ \A k \in DOMAIN v : \/ k \in DOMAIN t /\ v[k] = t[k]
                             \/ k - Len(t) \in DOMAIN u /\ v[k] = u[k - Len(t)] /\ k \in Nat /\ k > Len(t)
  BY <1>1, <1>2 DEF v
<1>4. \A k \in DOMAIN t : k \in DOMAIN v /\ v[k] = t[k]
  BY <1>1, <1>2 DEF v
<1>5. \A k \in DOMAIN u : k + Len(t) \in DOMAIN v /\ v[k + Len(t)] = u[k]
  <2>1. SUFFICES ASSUME NEW k \in 1..Len(u) PROVE k + Len(t) \in DOMAIN v /\ v[k + Len(t)] = u[k]
    BY <1>2
  <2>2. k + Len(t) \in 1..(Len(t) + Len(u)) /\ ~ (k + Len(t) <= Len(t)) /\ (k + Len(t)) - Len(t) = k
    BY <1>2
  <2>. QED  BY <1>1, <1>2, <2>2 DEF v
<1>. QED  BY <1>1, <1>2, <1>3, <1>4, <1>5 DEF v

\* The first of the messages is taken; if it is an answer, its call waits no more.
LEMMA OutDrops ==
  ASSUME NEW C, NEW D, NEW p, NEW page, NEW new, Typed(page), Out(page, p, C), page.mail # <<>>,
         new.sent = page.sent, new.mail = Tail(page.mail),
         \A o \in Slots : D[o] = C[o] \/ (page.mail[1].what = "answer" /\ o = page.mail[1].slot)
  PROVE  Out(new, p, D)
<1> DEFINE sent == page.sent
           mail == page.mail
           less == new.mail
<1>1. /\ \A k \in DOMAIN sent : sent[k].slot # 0 => sent[k].slot \in Slots
      /\ \A k \in DOMAIN mail : mail[k].what = "answer" => mail[k].slot \in Slots
  BY TypedMessages
<1>2. 1 \in DOMAIN mail /\ \A k \in DOMAIN less : k \in Nat /\ k + 1 \in DOMAIN mail /\ less[k] = mail[k + 1] /\ k + 1 # 1
  BY TailOf DEF Typed
<1>3. /\ \A k \in DOMAIN sent : sent[k].slot # 0 => Waits(C[sent[k].slot], p)
      /\ \A k \in DOMAIN mail : mail[k].what = "answer" => Waits(C[mail[k].slot], p)
      /\ \A k, l \in DOMAIN sent : sent[k].slot # 0 /\ sent[k].slot = sent[l].slot => k = l
      /\ \A k, l \in DOMAIN mail :
           mail[k].what = "answer" /\ mail[l].what = "answer" /\ mail[k].slot = mail[l].slot => k = l
      /\ \A k \in DOMAIN sent, l \in DOMAIN mail :
           sent[k].slot # 0 /\ mail[l].what = "answer" => mail[l].slot # sent[k].slot
      /\ \A k \in DOMAIN sent : sent[k].what = "place" => sent[k].slot # 0 /\ C[sent[k].slot].shot = sent[k].shot
  BY DEF Out
<1>4. new.sent = sent
  OBVIOUS
<1>5. \A o \in Slots : D[o] = C[o] \/ (mail[1].what = "answer" /\ o = mail[1].slot)
  OBVIOUS
<1> HIDE DEF sent, mail, less
<1>6. \A k \in DOMAIN sent : sent[k].slot # 0 => D[sent[k].slot] = C[sent[k].slot]
  BY <1>1, <1>2, <1>3, <1>5
<1>7. \A k \in DOMAIN less : less[k].what = "answer" => Waits(D[less[k].slot], p)
  <2>1. SUFFICES ASSUME NEW k \in DOMAIN less, less[k].what = "answer" PROVE Waits(D[less[k].slot], p)
    OBVIOUS
  <2>2. less[k].slot \in Slots /\ Waits(C[less[k].slot], p)
    BY <1>1, <1>2, <1>3, <2>1
  <2>3. ~ (mail[1].what = "answer" /\ less[k].slot = mail[1].slot)
    BY <1>2, <1>3, <2>1
  <2>. QED  BY <1>5, <2>2, <2>3
<1>8. \A k, l \in DOMAIN less :
           less[k].what = "answer" /\ less[l].what = "answer" /\ less[k].slot = less[l].slot => k = l
  <2>1. SUFFICES ASSUME NEW k \in DOMAIN less, NEW l \in DOMAIN less,
                        less[k].what = "answer", less[l].what = "answer", less[k].slot = less[l].slot
        PROVE  k = l
    OBVIOUS
  <2>2. k + 1 = l + 1
    BY <1>2, <1>3, <2>1
  <2>. QED  BY <1>2, <2>2
<1>9. \A k \in DOMAIN sent, l \in DOMAIN less : sent[k].slot # 0 /\ less[l].what = "answer" => less[l].slot # sent[k].slot
  BY <1>2, <1>3
<1>10. /\ \A k \in DOMAIN sent : sent[k].slot # 0 => Waits(D[sent[k].slot], p)
       /\ \A k \in DOMAIN sent : sent[k].what = "place" => sent[k].slot # 0 /\ D[sent[k].slot].shot = sent[k].shot
  BY <1>3, <1>6
<1>. QED  BY <1>3, <1>4, <1>7, <1>8, <1>9, <1>10 DEF Out, sent, less

\* The hub handles the first of what a page has sent, and answers the call that waits for it, or nobody.
LEMMA OutAnswered ==
  ASSUME NEW C, NEW p, NEW page, NEW new, Typed(page), Out(page, p, C), page.sent # <<>>,
         NEW msgs \in Seq(Message), new.sent = Tail(page.sent), new.mail = page.mail \o msgs,
         \A k \in DOMAIN msgs : msgs[k].what = "answer" => msgs[k].slot = Head(page.sent).slot /\ msgs[k].slot # 0,
         \A k, l \in DOMAIN msgs : msgs[k].what = "answer" /\ msgs[l].what = "answer" => k = l
  PROVE  Out(new, p, C)
<1> DEFINE sent == page.sent
           mail == page.mail
           more == new.mail
           less == new.sent
           first == Head(sent)
<1>1. /\ \A k \in DOMAIN sent : sent[k].slot # 0 => Waits(C[sent[k].slot], p)
      /\ \A k \in DOMAIN mail : mail[k].what = "answer" => Waits(C[mail[k].slot], p)
      /\ \A k, l \in DOMAIN sent : sent[k].slot # 0 /\ sent[k].slot = sent[l].slot => k = l
      /\ \A k, l \in DOMAIN mail :
           mail[k].what = "answer" /\ mail[l].what = "answer" /\ mail[k].slot = mail[l].slot => k = l
      /\ \A k \in DOMAIN sent, l \in DOMAIN mail :
           sent[k].slot # 0 /\ mail[l].what = "answer" => mail[l].slot # sent[k].slot
      /\ \A k \in DOMAIN sent : sent[k].what = "place" => sent[k].slot # 0 /\ C[sent[k].slot].shot = sent[k].shot
  BY DEF Out
<1>2. /\ first = sent[1] /\ 1 \in DOMAIN sent
      /\ \A k \in DOMAIN less : k \in Nat /\ k + 1 \in DOMAIN sent /\ less[k] = sent[k + 1] /\ k + 1 # 1
  BY TailOf DEF Typed
<1>3. /\ Len(mail) \in Nat
      /\ \A k \in DOMAIN more : \/ k \in DOMAIN mail /\ more[k] = mail[k]
                                \/ k - Len(mail) \in DOMAIN msgs /\ more[k] = msgs[k - Len(mail)] /\ k \in Nat
  BY JoinedTo DEF Typed
<1>4. /\ \A k \in DOMAIN msgs : msgs[k].what = "answer" => msgs[k].slot = first.slot /\ msgs[k].slot # 0
      /\ \A k, l \in DOMAIN msgs : msgs[k].what = "answer" /\ msgs[l].what = "answer" => k = l
  OBVIOUS
<1> HIDE DEF sent, mail, more, less, first
<1>5. \A k \in DOMAIN more : more[k].what = "answer" =>
        \/ k \in DOMAIN mail /\ more[k] = mail[k] /\ more[k].slot # first.slot
        \/ first.slot = 0 /\ k \in DOMAIN mail /\ more[k] = mail[k]
        \/ first.slot # 0 /\ more[k].slot = first.slot /\ k - Len(mail) \in DOMAIN msgs /\ k \in Nat /\ msgs[k - Len(mail)].what = "answer"
  BY <1>1, <1>2, <1>3, <1>4
<1>6. \A k \in DOMAIN more : more[k].what = "answer" => Waits(C[more[k].slot], p)
  BY <1>1, <1>2, <1>5
<1>7. \A k, l \in DOMAIN more :
           more[k].what = "answer" /\ more[l].what = "answer" /\ more[k].slot = more[l].slot => k = l
  <2>1. SUFFICES ASSUME NEW k \in DOMAIN more, NEW l \in DOMAIN more,
                        more[k].what = "answer", more[l].what = "answer", more[k].slot = more[l].slot
        PROVE  k = l
    OBVIOUS
  <2>2. CASE k \in DOMAIN mail /\ more[k] = mail[k] /\ l \in DOMAIN mail /\ more[l] = mail[l]
    BY <1>1, <2>1, <2>2
  <2>3. CASE /\ k - Len(mail) \in DOMAIN msgs /\ k \in Nat /\ msgs[k - Len(mail)].what = "answer"
             /\ l - Len(mail) \in DOMAIN msgs /\ l \in Nat /\ msgs[l - Len(mail)].what = "answer"
    <3>1. k - Len(mail) = l - Len(mail)
      BY <1>4, <2>3
    <3>. QED  BY <1>3, <2>3, <3>1
  <2>. QED  BY <1>5, <2>1, <2>2, <2>3
<1>8. \A k \in DOMAIN less, l \in DOMAIN more : less[k].slot # 0 /\ more[l].what = "answer" => more[l].slot # less[k].slot
  <2>1. \A k \in DOMAIN less : less[k].slot # 0 => less[k].slot # first.slot
    BY <1>1, <1>2
  <2>. QED  BY <1>1, <1>2, <1>5, <2>1
<1>9. /\ \A k \in DOMAIN less : less[k].slot # 0 => Waits(C[less[k].slot], p)
      /\ \A k \in DOMAIN less : less[k].what = "place" => less[k].slot # 0 /\ C[less[k].slot].shot = less[k].shot
  BY <1>1, <1>2
<1>10. \A k, l \in DOMAIN less : less[k].slot # 0 /\ less[k].slot = less[l].slot => k = l
  <2>1. SUFFICES ASSUME NEW k \in DOMAIN less, NEW l \in DOMAIN less, less[k].slot # 0, less[k].slot = less[l].slot
        PROVE  k = l
    OBVIOUS
  <2>2. k + 1 = l + 1
    BY <1>1, <1>2, <2>1
  <2>. QED  BY <1>2, <2>2
<1>. QED  BY <1>6, <1>7, <1>8, <1>9, <1>10 DEF Out, more, less

\* The fights of which a page has been told.
SameFights(page, G, H) == \A k \in DOMAIN page.mail : page.mail[k].what = "fight" => H[page.mail[k].n] = G[page.mail[k].n]
Followed(msgs, i, H, C) ==
  \A k \in DOMAIN msgs : msgs[k].what = "fight" /\ H[msgs[k].n].by = i =>
    \E l \in DOMAIN msgs : k < l /\ msgs[l].what = "answer" /\ C[msgs[l].slot].shot = H[msgs[k].n].shot

\* News that is told is followed by the answer, if there is one to come.
LEMMA NewsGoesOn ==
  ASSUME NEW C, NEW G, NEW H, NEW i, NEW page, NEW new, Typed(page), News(page, i, G, C), SameFights(page, G, H),
         NEW msgs \in Seq(Message), new.mail = page.mail \o msgs, Followed(msgs, i, H, C)
  PROVE  News(new, i, H, C)
<1> DEFINE mail == page.mail
           more == new.mail
<1>0. mail \in Seq(Message) /\ more = mail \o msgs
  BY DEF Typed
<1> HIDE DEF mail, more
<1>1. /\ Len(mail) \in Nat /\ mail \in Seq(Message)
      /\ \A k \in DOMAIN more : \/ k \in DOMAIN mail /\ more[k] = mail[k]
                                \/ k - Len(mail) \in DOMAIN msgs /\ more[k] = msgs[k - Len(mail)] /\ k \in Nat
      /\ \A k \in DOMAIN mail : k \in DOMAIN more /\ more[k] = mail[k]
      /\ \A k \in DOMAIN msgs : k + Len(mail) \in DOMAIN more /\ more[k + Len(mail)] = msgs[k]
  BY <1>0, JoinedTo
<1>2. /\ \A k \in DOMAIN mail : mail[k].what = "fight" /\ G[mail[k].n].by = i =>
           \E l \in DOMAIN mail : k < l /\ mail[l].what = "answer" /\ C[mail[l].slot].shot = G[mail[k].n].shot
      /\ \A k \in DOMAIN mail : mail[k].what = "fight" => H[mail[k].n] = G[mail[k].n]
  BY DEF News, SameFights, mail
<1>5. \A k \in DOMAIN msgs : msgs[k].what = "fight" /\ H[msgs[k].n].by = i =>
         \E l \in DOMAIN msgs : k < l /\ msgs[l].what = "answer" /\ C[msgs[l].slot].shot = H[msgs[k].n].shot
  BY DEF Followed
<1>3. ASSUME NEW k \in DOMAIN more, more[k].what = "fight", H[more[k].n].by = i
      PROVE  \E l \in DOMAIN more : k < l /\ more[l].what = "answer" /\ C[more[l].slot].shot = H[more[k].n].shot
  <2>1. CASE k \in DOMAIN mail /\ more[k] = mail[k]
    <3>1. PICK l \in DOMAIN mail : k < l /\ mail[l].what = "answer" /\ C[mail[l].slot].shot = G[mail[k].n].shot
      BY <1>2, <1>3, <2>1
    <3>. QED  BY <1>1, <1>2, <1>3, <2>1, <3>1
  <2>2. CASE k - Len(mail) \in DOMAIN msgs /\ more[k] = msgs[k - Len(mail)] /\ k \in Nat
    <3>1. PICK l \in DOMAIN msgs : /\ k - Len(mail) < l /\ msgs[l].what = "answer"
                                   /\ C[msgs[l].slot].shot = H[msgs[k - Len(mail)].n].shot
      BY <1>3, <1>5, <2>2
    <3>2. l + Len(mail) \in DOMAIN more /\ more[l + Len(mail)] = msgs[l] /\ l \in Nat
      BY <1>1, <3>1
    <3>3. k < l + Len(mail)
      BY <1>1, <2>2, <3>1, <3>2
    <3>. QED  BY <2>2, <3>1, <3>2, <3>3
  <2>. QED  BY <1>1, <2>1, <2>2
<1>. QED  BY <1>3 DEF News, more

\* One page takes a step, and no call hears of it.
LEMMA AlikeInv ==
  ASSUME AInv, AllAwait, UNCHANGED <<sessions, fights, calls>>,
         NEW p \in Pages, NEW new, pages' = [pages EXCEPT ![p] = new],
         new.at # "closed" => pages[p].at # "closed", new.user = pages[p].user, new.fight \in {0, pages[p].fight},
         Out(new, p, calls), \A i \in Ids : sessions[i] = p => News(new, i, fights, calls)
  PROVE  Rest(sessions', pages', fights', calls')
<1>1. sessions' = sessions /\ fights' = fights /\ calls' = calls
  OBVIOUS
<1>2. DOMAIN pages = Pages
  BY DEF AInv, Types
<1>3. pages'[p] = new /\ \A q \in Pages \ {p} : pages'[q] = pages[q]
  BY <1>2
<1>4. /\ \A q \in Pages : Out(pages[q], q, calls)
      /\ \A i \in Ids : sessions[i] # 0 => sessions[i] \in Pages /\ News(pages[sessions[i]], i, fights, calls)
  BY OfPages DEF AInv, PagesInv
<1>5. Longer(fights, fights')
  BY <1>1 DEF Longer
<1>6. \A o \in Slots : Kept(calls[o], calls'[o])
  BY <1>1 DEF Kept
<1>7. \A q \in Pages : pages'[q].at # "closed" => pages[q].at # "closed"
  BY <1>3
<1>8. \A q \in Pages : pages'[q].user \in {None, pages[q].user}
  BY <1>3
<1>9. \A q \in Pages : pages'[q].fight \in {0, pages[q].fight}
  BY <1>3
<1>10. \A q \in Pages : Out(pages'[q], q, calls')
  BY <1>1, <1>3, <1>4
<1>11. \A i \in Ids : sessions[i] # 0 => News(pages'[sessions[i]], i, fights', calls')
  BY <1>1, <1>3, <1>4
<1>. QED  BY <1>1, <1>5, <1>6, <1>7, <1>8, <1>9, <1>10, <1>11, Meanwhile

LEMMA PageFacts ==
  ASSUME AInv, NEW p \in Pages
  PROVE  /\ pages[p] \in Page /\ PageOK(pages[p], rooms, Len(fights)) /\ Typed(pages[p]) /\ DOMAIN pages = Pages
         /\ Out(pages[p], p, calls) /\ \A i \in Ids : sessions[i] = p => News(pages[p], i, fights, calls)
         /\ Heeds(calls, calls, p)
<1>1. PageOK(pages[p], rooms, Len(fights)) /\ DOMAIN pages = Pages
  BY DEF AInv, Types
<1>2. pages[p] \in Page /\ Typed(pages[p])
  BY <1>1 DEF PageOK, Page, Typed
<1>3. Out(pages[p], p, calls) /\ \A i \in Ids : sessions[i] = p => News(pages[p], i, fights, calls)
  BY Constants DEF AInv, PagesInv
<1>. QED  BY <1>1, <1>2, <1>3 DEF Heeds

LEMMA LoadInv ==
  ASSUME AInv, NEW p \in Pages, PageLoads(p) \/ Connect(p) \/ CatchUp(p)
  PROVE  Rest(sessions', pages', fights', calls')
<1>1. AllAwait /\ UNCHANGED <<sessions, fights, calls>> /\ pages[p].at # "closed"
  BY DEF PageLoads, Connect, CatchUp, hub
<1>2. /\ pages[p] \in Page /\ Typed(pages[p])
      /\ Out(pages[p], p, calls) /\ \A i \in Ids : sessions[i] = p => News(pages[p], i, fights, calls)
      /\ Heeds(calls, calls, p)
  BY PageFacts
<1>3. ASSUME NEW new, pages' = [pages EXCEPT ![p] = new], new.user = pages[p].user, new.fight = pages[p].fight,
             new.mail = pages[p].mail, new.sent = pages[p].sent
      PROVE  Rest(sessions', pages', fights', calls')
  <2>1. Out(new, p, calls)
    BY <1>2, <1>3, OutStays
  <2>2. \A i \in Ids : sessions[i] = p => News(new, i, fights, calls)
    BY <1>2, <1>3, NewsStays
  <2>. QED  BY <1>1, <1>3, <2>1, <2>2, AlikeInv
<1>4. CASE PageLoads(p)
  <2> DEFINE new == [pages[p] EXCEPT !.at = "up"]
  <2>1. pages' = [pages EXCEPT ![p] = new]
    BY <1>4 DEF PageLoads
  <2>2. /\ new.user = pages[p].user /\ new.fight = pages[p].fight
        /\ new.mail = pages[p].mail /\ new.sent = pages[p].sent
    BY <1>2 DEF Page
  <2> HIDE DEF new
  <2>. QED  BY <1>3, <2>1, <2>2
<1>5. CASE CatchUp(p)
  <2> DEFINE new == [pages[p] EXCEPT !.game = rooms[pages[p].seat]]
  <2>1. pages' = [pages EXCEPT ![p] = new]
    BY <1>5 DEF CatchUp
  <2>2. /\ new.user = pages[p].user /\ new.fight = pages[p].fight
        /\ new.mail = pages[p].mail /\ new.sent = pages[p].sent
    BY <1>2 DEF Page
  <2> HIDE DEF new
  <2>. QED  BY <1>3, <2>1, <2>2
<1>6. CASE Connect(p)
  <2> DEFINE resuming == pages[p].saved # None
             new == [pages[p] EXCEPT !.at = "live", !.resuming = resuming]
             ask == Ask("rejoin", pages[p].saved)
             sent == Append(pages[p].sent, ask)
             more == [new EXCEPT !.sent = sent]
  <2>1. pages' = [pages EXCEPT ![p] = IF resuming THEN Sent(new, ask) ELSE new]
    BY <1>2, <1>6 DEF Connect, Page
  <2> HIDE DEF resuming
  <2>2. /\ new.user = pages[p].user /\ new.fight = pages[p].fight /\ new.at = "live"
        /\ new.mail = pages[p].mail /\ new.sent = pages[p].sent
    BY <1>2 DEF Page
  <2>3. Sent(new, ask) = more
    BY <1>2, <2>2 DEF Sent
  <2>4. ask.slot = 0 /\ ask.what # "place"
    BY DEF Ask
  <2> HIDE DEF ask, sent
  <2>5. more.user = pages[p].user /\ more.fight = pages[p].fight /\ more.mail = pages[p].mail /\ more.sent = sent
    BY <1>2 DEF Page
  <2> HIDE DEF new, more
  <2>6. CASE ~ resuming
    BY <1>3, <2>1, <2>2, <2>6
  <2>7. CASE resuming
    <3>1. pages' = [pages EXCEPT ![p] = more]
      BY <2>1, <2>3, <2>7
    <3>2. Out(more, p, calls)
      BY <1>2, <2>4, <2>5, OutGrows DEF sent
    <3>3. \A i \in Ids : sessions[i] = p => News(more, i, fights, calls)
      BY <1>2, <2>5, NewsStays
    <3>. QED  BY <1>1, <2>5, <3>1, <3>2, <3>3, AlikeInv
  <2>. QED  BY <2>6, <2>7
<1>. QED  BY <1>4, <1>5, <1>6

LEMMA AnsweredFields ==
  ASSUME NEW page \in Page, NEW msgs
  PROVE  LET new == Answered(page, msgs)
         IN  /\ new.at = page.at /\ new.user = page.user /\ new.fight = page.fight
             /\ new.sent = Tail(page.sent) /\ new.mail = page.mail \o msgs
<1> DEFINE sent == Tail(page.sent)
           mail == page.mail \o msgs
<1>1. Answered(page, msgs) = [page EXCEPT !.sent = sent, !.mail = mail]
  BY DEF Answered
<1> HIDE DEF sent, mail
<1>2. LET new == [page EXCEPT !.sent = sent, !.mail = mail]
      IN  /\ new.at = page.at /\ new.user = page.user /\ new.fight = page.fight
          /\ new.sent = sent /\ new.mail = mail
  BY DEF Page
<1>. QED  BY <1>1, <1>2 DEF sent, mail

LEMMA NoNews ==
  ASSUME NEW C, NEW G, NEW i, NEW page, NEW new, Typed(page), News(page, i, G, C), NEW msgs \in Seq(Message),
         new.mail = page.mail \o msgs, \A k \in DOMAIN msgs : msgs[k].what # "fight"
  PROVE  News(new, i, G, C)
<1>1. SameFights(page, G, G)
  BY DEF SameFights
<1>2. Followed(msgs, i, G, C)
  BY DEF Followed
<1>. QED  BY <1>1, <1>2, NewsGoesOn

\* The hub handles the first of what a page has sent, and there is no fight.
LEMMA RepliedInv ==
  ASSUME AInv, AllAwait, UNCHANGED <<sessions, fights, calls>>, NEW p \in Pages, pages[p].sent # <<>>,
         NEW page \in Page, page.sent = pages[p].sent, page.mail = pages[p].mail,
         page.at = pages[p].at, page.user = pages[p].user, page.fight = pages[p].fight,
         NEW msgs \in Seq(Message), \A k \in DOMAIN msgs : msgs[k].what # "fight",
         \A k \in DOMAIN msgs : msgs[k].what = "answer" => msgs[k].slot = Head(pages[p].sent).slot /\ msgs[k].slot # 0,
         \A k, l \in DOMAIN msgs : msgs[k].what = "answer" /\ msgs[l].what = "answer" => k = l,
         pages' = [pages EXCEPT ![p] = Answered(page, msgs)]
  PROVE  Rest(sessions', pages', fights', calls')
<1> DEFINE new == Answered(page, msgs)
<1>1. /\ Typed(pages[p]) /\ Out(pages[p], p, calls)
      /\ \A i \in Ids : sessions[i] = p => News(pages[p], i, fights, calls)
  BY PageFacts
<1>2. /\ new.at = pages[p].at /\ new.user = pages[p].user /\ new.fight = pages[p].fight
      /\ new.sent = Tail(pages[p].sent) /\ new.mail = pages[p].mail \o msgs
  BY AnsweredFields
<1>3. pages' = [pages EXCEPT ![p] = new]
  OBVIOUS
<1> HIDE DEF new
<1>4. Out(new, p, calls)
  BY <1>1, <1>2, OutAnswered
<1>5. ASSUME NEW i \in Ids, sessions[i] = p PROVE News(new, i, fights, calls)
  <2>1. News(pages[p], i, fights, calls)
    BY <1>1, <1>5
  <2>. QED  BY <1>1, <1>2, <2>1, NoNews
<1>. QED  BY <1>2, <1>3, <1>4, <1>5, AlikeInv

LEMMA SeatInv ==
  ASSUME AInv, NEW p \in Pages, Seat(p)
  PROVE  Rest(sessions', pages', fights', calls')
<1> DEFINE req == Head(pages[p].sent)
           u == pages[p].user
           seated(r, room) == Answered([pages[p] EXCEPT !.seat = r], <<[what |-> "room", room |-> room]>>)
<1>1. /\ AllAwait /\ pages[p].sent # <<>> /\ req.what \in {"create", "join", "rejoin"}
      /\ UNCHANGED <<sessions, fights, calls, shots, events>>
  BY DEF Seat
<1>2. /\ u \in Ids
      /\ req.what \in {"join", "rejoin"} => req.room \in Rooms
  BY <1>1, FirstRequest DEF AInv
<1>3. pages[p] \in Page
  BY PageFacts
<1>4. req.what = "rejoin" => rooms[req.room] \in Room
  BY <1>1, FirstRequest DEF AInv
<1>5. ASSUME NEW r \in Rooms, NEW room \in Room, pages' = [pages EXCEPT ![p] = seated(r, room)]
      PROVE  Rest(sessions', pages', fights', calls')
  <2> DEFINE page == [pages[p] EXCEPT !.seat = r]
             msg == [what |-> "room", room |-> room]
  <2>1. /\ page \in Page /\ page.sent = pages[p].sent /\ page.mail = pages[p].mail /\ page.at = pages[p].at
        /\ page.user = pages[p].user /\ page.fight = pages[p].fight
    BY <1>3 DEF Page
  <2>2. msg \in Message /\ msg.what = "room"
    BY MessagesOK
  <2>3. pages' = [pages EXCEPT ![p] = Answered(page, <<msg>>)]
    BY <1>5
  <2> HIDE DEF page, msg
  <2>4. <<msg>> \in Seq(Message) /\ \A k \in DOMAIN <<msg>> : <<msg>>[k].what = "room"
    BY <2>2, OneToo
  <2> DEFINE msgs == <<msg>>
  <2>5. msgs \in Seq(Message) /\ \A k \in DOMAIN msgs : msgs[k].what = "room"
    BY <2>4
  <2>6. pages' = [pages EXCEPT ![p] = Answered(page, msgs)]
    BY <2>3
  <2> HIDE DEF msgs
  <2>7. \A k \in DOMAIN msgs : msgs[k].what # "fight" /\ msgs[k].what # "answer"
    BY <2>5
  <2>. QED  BY <1>1, <2>1, <2>5, <2>6, <2>7, RepliedInv
<1>6. ASSUME NEW msgs \in Seq(Message), \A k \in DOMAIN msgs : msgs[k].what = "stale",
             pages' = [pages EXCEPT ![p] = Answered(pages[p], msgs)]
      PROVE  Rest(sessions', pages', fights', calls')
  <2>1. \A k \in DOMAIN msgs : msgs[k].what # "fight" /\ msgs[k].what # "answer"
    BY <1>6
  <2>. QED  BY <1>1, <1>3, <1>6, <2>1, RepliedInv
<1> HIDE DEF seated
<1>7. CASE req.what = "create"
  <2> DEFINE room(r) == [code |-> r, phase |-> "Lobby", host |-> u, in |-> {u}, teams |-> {}, set |-> FALSE, review |-> FALSE]
  <2>1. PICK r \in Fresh : pages' = [pages EXCEPT ![p] = seated(r, room(r))]
    BY <1>7 DEF Seat, seated
  <2>2. r \in Rooms /\ room(r) \in Room
    BY <1>2 DEF Fresh, Room
  <2> HIDE DEF room
  <2>. QED  BY <1>5, <2>1, <2>2
<1>8. CASE req.what = "join"
  <2> DEFINE r == req.room
             room == [rooms[r] EXCEPT !.in = @ \cup {u}]
  <2>1. \/ rooms[r] # None /\ pages' = [pages EXCEPT ![p] = seated(r, room)]
        \/ pages' = [pages EXCEPT ![p] = Answered(pages[p], <<>>)]
    BY <1>8 DEF Seat, seated
  <2>2. r \in Rooms
    BY <1>2, <1>8
  <2>3. rooms[r] # None => room \in Room
    <3>1. rooms[r] # None => rooms[r] \in Room
      BY <2>2 DEF AInv, Types, RoomsOK
    <3>. QED  BY <1>2, <3>1 DEF Room
  <2>4. <<>> \in Seq(Message) /\ DOMAIN <<>> = {}
    OBVIOUS
  <2> HIDE DEF room, r
  <2>. QED  BY <1>5, <1>6, <2>1, <2>2, <2>3, <2>4
<1>9. CASE req.what = "rejoin"
  <2> DEFINE r == req.room
             stale == [what |-> "stale"]
  <2>1. \/ pages' = [pages EXCEPT ![p] = seated(r, rooms[r])]
        \/ pages' = [pages EXCEPT ![p] = Answered(pages[p], <<stale>>)]
    BY <1>9 DEF Seat, seated
  <2>2. r \in Rooms /\ rooms[r] \in Room
    BY <1>2, <1>4, <1>9
  <2>3. stale \in Message /\ stale.what = "stale"
    BY MessagesOK
  <2> HIDE DEF stale, r
  <2>4. <<stale>> \in Seq(Message) /\ \A k \in DOMAIN <<stale>> : <<stale>>[k].what = "stale"
    BY <2>3, OneToo
  <2>. QED  BY <1>5, <1>6, <2>1, <2>2, <2>4
<1>. QED  BY <1>1, <1>7, <1>8, <1>9

LEMMA OneAnswer ==
  ASSUME NEW slot \in Slots \cup {0}
  PROVE  \A k, l \in DOMAIN AnswerTo(slot) : k = l
<1>1. AnswerTo(slot) = <<>> \/ AnswerTo(slot) = <<[what |-> "answer", slot |-> slot]>>
  BY DEF AnswerTo
<1>2. DOMAIN <<>> = {} /\ \A m : DOMAIN <<m>> = {1}
  OBVIOUS
<1>3. DOMAIN AnswerTo(slot) = {} \/ DOMAIN AnswerTo(slot) = {1}
  BY <1>1, <1>2
<1>. QED  BY <1>3

\* The hub does no more than to answer the call that waits, if one does.
LEMMA JustAnswered ==
  ASSUME AInv, AllAwait, UNCHANGED <<sessions, fights, calls>>, NEW p \in Pages, pages[p].sent # <<>>,
         pages' = [pages EXCEPT ![p] = Answered(pages[p], AnswerTo(Head(pages[p].sent).slot))]
  PROVE  Rest(sessions', pages', fights', calls')
<1> DEFINE req == Head(pages[p].sent)
           msgs == AnswerTo(req.slot)
<1>1. req.slot \in Slots \cup {0}
  BY FirstRequest DEF AInv
<1>2. pages[p] \in Page
  BY PageFacts
<1>3. msgs \in Seq(Message) /\ \A k \in DOMAIN msgs : msgs[k].slot = req.slot /\ req.slot # 0 /\ msgs[k].what = "answer"
  BY <1>1, AnswerToOK
<1>4. \A k, l \in DOMAIN msgs : k = l
  BY <1>1, OneAnswer
<1>5. pages' = [pages EXCEPT ![p] = Answered(pages[p], msgs)]
  OBVIOUS
<1> HIDE DEF msgs
<1>6. /\ \A k \in DOMAIN msgs : msgs[k].what # "fight"
      /\ \A k \in DOMAIN msgs : msgs[k].what = "answer" => msgs[k].slot = Head(pages[p].sent).slot /\ msgs[k].slot # 0
      /\ \A k, l \in DOMAIN msgs : msgs[k].what = "answer" /\ msgs[l].what = "answer" => k = l
  BY <1>3, <1>4
<1>. QED  BY <1>2, <1>3, <1>5, <1>6, RepliedInv

LEMMA ServeInv ==
  ASSUME AInv, NEW p \in Pages, Serve(p)
  PROVE  Rest(sessions', pages', fights', calls')
<1>1. /\ AllAwait /\ pages[p].sent # <<>> /\ UNCHANGED <<sessions, fights, calls>>
      /\ pages' = [pages EXCEPT ![p] = Answered(pages[p], AnswerTo(Head(pages[p].sent).slot))]
  BY DEF Serve
<1>. QED  BY <1>1, JustAnswered

LEMMA MeddleInv ==
  ASSUME AInv, NEW p \in Pages, Meddle(p)
  PROVE  Rest(sessions', pages', fights', calls')
<1>1. /\ AllAwait /\ UNCHANGED <<sessions, fights>> /\ pages[p].at # "closed"
      /\ calls' = [o \in Slots |-> [Torn(p)[o] EXCEPT !.calm = FALSE]]
      /\ \E at \in {"closed", IF pages[p].at = "blank" THEN "blank" ELSE "loading"} :
           pages' = [pages EXCEPT ![p] = Emptied(pages[p], at)]
  BY DEF Meddle, hub
<1>2. PICK at : pages' = [pages EXCEPT ![p] = Emptied(pages[p], at)]
  BY <1>1
<1> DEFINE new == Emptied(pages[p], at)
<1>3. /\ DOMAIN pages = Pages /\ pages[p] \in Page
  BY PageFacts
<1>4. new.user = pages[p].user /\ new.fight = 0 /\ new.sent = <<>> /\ new.mail = <<>>
  BY <1>3, EmptiedFields
<1>5. pages' = [pages EXCEPT ![p] = new]
  BY <1>2
<1> HIDE DEF new
<1>6. pages'[p] = new /\ \A q \in Pages \ {p} : pages'[q] = pages[q]
  BY <1>3, <1>5
<1>7. ASSUME NEW o \in Slots
      PROVE  /\ Kept(calls[o], calls'[o]) /\ calls'[o].waits = calls[o].waits
             /\ calls[o].inPage # p => calls'[o].inPage = calls[o].inPage
  <2> DEFINE c == Torn(p)[o]
  <2>1. /\ Kept(calls[o], c) /\ c.waits = calls[o].waits /\ (calls[o].inPage # p => c = calls[o])
    BY AreTornOff
  <2>2. calls'[o] = [c EXCEPT !.calm = FALSE]
    BY <1>1
  <2>3. c \in Call
    <3>1. calls[o] \in Call
      BY OfPages
    <3>2. c = calls[o] \/ c = [calls[o] EXCEPT !.inPage = 0]
      BY DEF Torn
    <3>3. 0 \in 0..MaxPages
      BY Constants
    <3> HIDE DEF c
    <3>4. CASE c = calls[o]
      BY <3>1, <3>4
    <3>5. CASE c = [calls[o] EXCEPT !.inPage = 0]
      BY <3>1, <3>3, <3>5 DEF Call
    <3>. QED  BY <3>2, <3>4, <3>5
  <2> HIDE DEF c
  <2>4. /\ calls'[o].end = c.end /\ calls'[o].id = c.id /\ calls'[o].todo = c.todo /\ calls'[o].on = c.on /\ calls'[o].shot = c.shot
        /\ calls'[o].fight = c.fight /\ calls'[o].inPage = c.inPage /\ calls'[o].waits = c.waits
    BY <2>2, <2>3 DEF Call
  <2>. QED  BY <2>1, <2>4 DEF Kept
<1>8. \A q \in Pages \ {p} : Heeds(calls, calls', q)
  BY <1>7 DEF Heeds, Kept, Waits, Doing
<1>9. \A q \in Pages : Typed(pages[q]) /\ Out(pages[q], q, calls) /\ \A i \in Ids : sessions[i] = q => News(pages[q], i, fights, calls)
  BY PageFacts
<1>10. \A q \in Pages : Out(pages'[q], q, calls')
  <2>1. Out(new, p, calls')
    BY <1>4, <1>9, OutStays
  <2>2. ASSUME NEW q \in Pages \ {p} PROVE Out(pages[q], q, calls')
    BY <1>8, <1>9, OutStays
  <2>. QED  BY <1>6, <2>1, <2>2
<1>11. \A i \in Ids : sessions[i] # 0 => News(pages'[sessions[i]], i, fights', calls')
  <2>1. SUFFICES ASSUME NEW i \in Ids, sessions[i] # 0 PROVE News(pages'[sessions[i]], i, fights, calls')
    BY <1>1
  <2>2. sessions[i] \in Pages
    BY <2>1, OfPages
  <2>3. CASE sessions[i] = p
    BY <1>4, <1>6, <2>3 DEF News
  <2>4. CASE sessions[i] # p
    <3> DEFINE q == sessions[i]
    <3>1. q \in Pages \ {p} /\ News(pages[q], i, fights, calls)
      BY <1>9, <2>2, <2>4
    <3> HIDE DEF q
    <3>2. News(pages[q], i, fights, calls')
      BY <1>8, <1>9, <3>1, NewsStays
    <3>3. pages'[q] = pages[q]
      BY <1>6, <3>1
    <3>. QED  BY <3>2, <3>3 DEF q
  <2>. QED  BY <2>3, <2>4
<1>12. /\ sessions' = sessions /\ Longer(fights, fights')
       /\ \A o \in Slots : Kept(calls[o], calls'[o])
       /\ \A q \in Pages : pages'[q].at # "closed" => pages[q].at # "closed"
       /\ \A q \in Pages : pages'[q].user \in {None, pages[q].user}
       /\ \A q \in Pages : pages'[q].fight \in {0, pages[q].fight}
  BY <1>1, <1>4, <1>6, <1>7 DEF Longer
<1>. QED  BY <1>1, <1>10, <1>11, <1>12, Meanwhile

\* A page that has sent nothing more hears of a fight.
LEMMA OutHears ==
  ASSUME NEW C, NEW p, NEW page, NEW new, Typed(page), Out(page, p, C), new.sent = page.sent,
         NEW msgs \in Seq(Message), new.mail = page.mail \o msgs, \A k \in DOMAIN msgs : msgs[k].what # "answer"
  PROVE  Out(new, p, C)
<1> DEFINE sent == page.sent
           mail == page.mail
           more == new.mail
<1>1. /\ \A k \in DOMAIN sent : sent[k].slot # 0 => Waits(C[sent[k].slot], p)
      /\ \A k \in DOMAIN mail : mail[k].what = "answer" => Waits(C[mail[k].slot], p)
      /\ \A k, l \in DOMAIN sent : sent[k].slot # 0 /\ sent[k].slot = sent[l].slot => k = l
      /\ \A k, l \in DOMAIN mail :
           mail[k].what = "answer" /\ mail[l].what = "answer" /\ mail[k].slot = mail[l].slot => k = l
      /\ \A k \in DOMAIN sent, l \in DOMAIN mail :
           sent[k].slot # 0 /\ mail[l].what = "answer" => mail[l].slot # sent[k].slot
      /\ \A k \in DOMAIN sent : sent[k].what = "place" => sent[k].slot # 0 /\ C[sent[k].slot].shot = sent[k].shot
  BY DEF Out
<1>2. \A k \in DOMAIN more : \/ k \in DOMAIN mail /\ more[k] = mail[k]
                             \/ k - Len(mail) \in DOMAIN msgs /\ more[k] = msgs[k - Len(mail)]
  BY JoinedTo DEF Typed
<1>3. new.sent = sent
  OBVIOUS
<1> HIDE DEF sent, mail, more
<1>4. \A k \in DOMAIN more : more[k].what = "answer" => k \in DOMAIN mail /\ more[k] = mail[k]
  BY <1>2
<1>5. /\ \A k \in DOMAIN more : more[k].what = "answer" => Waits(C[more[k].slot], p)
      /\ \A k, l \in DOMAIN more :
           more[k].what = "answer" /\ more[l].what = "answer" /\ more[k].slot = more[l].slot => k = l
      /\ \A k \in DOMAIN sent, l \in DOMAIN more :
           sent[k].slot # 0 /\ more[l].what = "answer" => more[l].slot # sent[k].slot
  BY <1>1, <1>4
<1>. QED  BY <1>1, <1>3, <1>5 DEF Out, more

LEMMA OldNews ==
  ASSUME AInv, NEW p \in Pages, NEW H, Longer(fights, H)
  PROVE  SameFights(pages[p], fights, H)
BY PageFacts DEF PageOK, Longer, SameFights

LEMMA NewsLater ==
  ASSUME NEW C, NEW G, NEW H, NEW i, NEW page, NEW new, News(page, i, G, C), new.mail = page.mail,
         SameFights(page, G, H)
  PROVE  News(new, i, H, C)
BY DEF News, SameFights

LEMMA HeardFields ==
  ASSUME NEW page \in Page, NEW msgs
  PROVE  LET new == [page EXCEPT !.mail = @ \o msgs]
         IN  /\ new.at = page.at /\ new.user = page.user /\ new.fight = page.fight
             /\ new.sent = page.sent /\ new.mail = page.mail \o msgs
<1> DEFINE mail == page.mail \o msgs
<1>1. [page EXCEPT !.mail = @ \o msgs] = [page EXCEPT !.mail = mail]
  OBVIOUS
<1> HIDE DEF mail
<1>2. LET new == [page EXCEPT !.mail = mail]
      IN  /\ new.at = page.at /\ new.user = page.user /\ new.fight = page.fight
          /\ new.sent = page.sent /\ new.mail = mail
  BY DEF Page
<1>. QED  BY <1>1, <1>2 DEF mail

\* A fight that one's own tool has asked for: the news, and then the answer.
LEMMA NewsAndAnswer ==
  ASSUME NEW x \in Message, x.what = "fight", NEW slot \in Slots, NEW C, NEW H, NEW i,
         H[x.n].by = i => C[slot].shot = H[x.n].shot
  PROVE  LET msgs == <<x>> \o AnswerTo(slot)
         IN  /\ msgs \in Seq(Message)
             /\ \A k \in DOMAIN msgs : msgs[k].what = "answer" => msgs[k].slot = slot /\ msgs[k].slot # 0
             /\ \A k, l \in DOMAIN msgs : msgs[k].what = "answer" /\ msgs[l].what = "answer" => k = l
             /\ Followed(msgs, i, H, C)
<1> DEFINE y == [what |-> "answer", slot |-> slot]
           b == <<x>>
           d == <<y>>
           msgs == b \o d
<1>1. slot # 0
  BY Constants
<1>2. y \in Message /\ y.what = "answer" /\ y.slot = slot
  BY DEF Message
<1>3. <<x>> \o AnswerTo(slot) = msgs
  BY <1>1 DEF AnswerTo
<1> HIDE DEF y
<1>9. b \in Seq(Message) /\ Len(b) = 1 /\ b[1] = x /\ d \in Seq(Message) /\ Len(d) = 1 /\ d[1] = y
  BY <1>2
<1> HIDE DEF b, d
<1>4. msgs \in Seq(Message) /\ DOMAIN msgs = {1, 2} /\ msgs[1] = x /\ msgs[2] = y
  <2>1. /\ b \o d \in Seq(Message) /\ Len(b \o d) = Len(b) + Len(d)
        /\ \A k \in 1..(Len(b) + Len(d)) : (b \o d)[k] = IF k <= Len(b) THEN b[k] ELSE d[k - Len(b)]
    BY <1>9, ConcatProperties
  <2>2. Len(msgs) = 2 /\ msgs[1] = x /\ msgs[2] = y
    BY <1>9, <2>1
  <2> HIDE DEF msgs
  <2>. QED  BY <2>1, <2>2 DEF msgs
<1> HIDE DEF msgs
<1>5. \A k \in DOMAIN msgs : (k = 1 /\ msgs[k].what = "fight" /\ msgs[k] = x) \/ (k = 2 /\ msgs[k].what = "answer" /\ msgs[k].slot = slot)
  BY <1>2, <1>4
<1>6. Followed(msgs, i, H, C)
  <2>1. SUFFICES ASSUME NEW k \in DOMAIN msgs, msgs[k].what = "fight", H[msgs[k].n].by = i
        PROVE  2 \in DOMAIN msgs /\ k < 2 /\ msgs[2].what = "answer" /\ C[msgs[2].slot].shot = H[msgs[k].n].shot
    BY DEF Followed
  <2>. QED  BY <1>2, <1>4, <1>5, <2>1
<1>7. \A k, l \in DOMAIN msgs : msgs[k].what = "answer" /\ msgs[l].what = "answer" => k = l
  BY <1>5
<1>8. \A k \in DOMAIN msgs : msgs[k].what = "answer" => msgs[k].slot = slot /\ msgs[k].slot # 0
  BY <1>1, <1>5
<1>. QED  BY <1>3, <1>4, <1>6, <1>7, <1>8

\* The call that waits for a placing has the shot of the request.
LEMMA PlacedBy ==
  ASSUME AInv, NEW p \in Pages, pages[p].sent # <<>>, Head(pages[p].sent).what = "place"
  PROVE  LET req == Head(pages[p].sent) IN req.slot \in Slots /\ calls[req.slot].shot = req.shot
<1> DEFINE sent == pages[p].sent
<1>1. /\ sent \in Seq(Request)
      /\ \A k \in DOMAIN sent : sent[k].what = "place" => sent[k].slot # 0 /\ calls[sent[k].slot].shot = sent[k].shot
  BY PageFacts DEF Typed, Out
<1>2. Head(sent) = sent[1] /\ 1 \in DOMAIN sent
  BY <1>1, TailOf
<1>3. Head(sent).slot \in Slots \cup {0}
  BY FirstRequest DEF AInv
<1> HIDE DEF sent
<1>4. Head(sent).slot # 0 /\ calls[Head(sent).slot].shot = Head(sent).shot
  BY <1>1, <1>2 DEF sent
<1>. QED  BY <1>3, <1>4 DEF sent

LEMMA PlaceInv ==
  ASSUME AInv, NEW p \in Pages, PlaceTroops(p)
  PROVE  Rest(sessions', pages', fights', calls')
<1> DEFINE slot == Head(pages[p].sent).slot
           shot == Head(pages[p].sent).shot
           u == pages[p].user
           n == Len(fights) + 1
           fight == [by |-> u, shot |-> shot]
           msg == [what |-> "fight", n |-> n]
           foes == {q \in Pages : q # p /\ pages[q].seat = pages[p].seat}
<1>1. /\ AllAwait /\ pages[p].sent # <<>> /\ Head(pages[p].sent).what = "place"
      /\ UNCHANGED <<sessions, rooms, calls, shots, events>>
  BY DEF PlaceTroops
<1>2. slot \in Slots /\ calls[slot].shot = shot /\ shot \in Nat /\ u \in Ids
  BY <1>1, FirstRequest, PlacedBy DEF AInv
<1>3. /\ fights \in Seq(Fight) /\ Len(fights) \in Nat
      /\ DOMAIN pages = Pages /\ \A q \in Pages : /\ pages[q] \in Page /\ Typed(pages[q]) /\ Out(pages[q], q, calls)
                                                  /\ \A i \in Ids : sessions[i] = q => News(pages[q], i, fights, calls)
  BY PageFacts DEF AInv, Types
<1>4. CASE pages' = [pages EXCEPT ![p] = Answered(pages[p], AnswerTo(slot))] /\ UNCHANGED fights
  BY <1>1, <1>4, JustAnswered
<1>5. ASSUME NEW hears \in SUBSET foes, fights' = Append(fights, fight),
             pages' = [q \in Pages |-> IF q = p THEN Answered(pages[p], <<msg>> \o AnswerTo(slot))
                                       ELSE IF q \in hears THEN [pages[q] EXCEPT !.mail = @ \o <<msg>>]
                                       ELSE pages[q]]
      PROVE  Rest(sessions', pages', fights', calls')
  <2> DEFINE H == fights'
             msgs == <<msg>> \o AnswerTo(slot)
             told == <<msg>>
  <2>1. fight.by = u /\ fight.shot = shot
    OBVIOUS
  <2>2. msg \in Message /\ msg.what = "fight" /\ msg.n = n /\ n \in Nat
    BY <1>3, MessagesOK
  <2> HIDE DEF fight
  <2>3. Longer(fights, H) /\ H[n] = fight
    BY <1>3, <1>5 DEF Longer
  <2> HIDE DEF n, msg, H
  <2>4. told \in Seq(Message) /\ \A k \in DOMAIN told : told[k] = msg
    BY <2>2, OneToo
  <2>5. H[msg.n].by = u /\ H[msg.n].shot = calls[slot].shot
    BY <1>2, <2>1, <2>2, <2>3
  <2>6. ASSUME NEW i \in Ids
        PROVE  /\ msgs \in Seq(Message)
               /\ \A k \in DOMAIN msgs : msgs[k].what = "answer" => msgs[k].slot = slot /\ msgs[k].slot # 0
               /\ \A k, l \in DOMAIN msgs : msgs[k].what = "answer" /\ msgs[l].what = "answer" => k = l
               /\ Followed(msgs, i, H, calls)
    <3>1. H[msg.n].by = i => calls[slot].shot = H[msg.n].shot
      BY <2>5
    <3> HIDE DEF slot
    <3>. QED  BY <1>2, <2>2, <3>1, NewsAndAnswer
  <2>7. PICK i0 \in Ids : TRUE
    BY <1>2
  <2>8. /\ msgs \in Seq(Message)
        /\ \A k \in DOMAIN msgs : msgs[k].what = "answer" => msgs[k].slot = slot /\ msgs[k].slot # 0
        /\ \A k, l \in DOMAIN msgs : msgs[k].what = "answer" /\ msgs[l].what = "answer" => k = l
    BY <2>6, <2>7
  <2> DEFINE own == Answered(pages[p], msgs)
             more(q) == [pages[q] EXCEPT !.mail = @ \o told]
  <2>9. /\ own.at = pages[p].at /\ own.user = u /\ own.fight = pages[p].fight
        /\ own.sent = Tail(pages[p].sent) /\ own.mail = pages[p].mail \o msgs
    BY <1>3, AnsweredFields
  <2>10. \A q \in Pages : /\ more(q).at = pages[q].at /\ more(q).user = pages[q].user /\ more(q).fight = pages[q].fight
                          /\ more(q).sent = pages[q].sent /\ more(q).mail = pages[q].mail \o told
    BY <1>3, HeardFields
  <2>11. pages' = [q \in Pages |-> IF q = p THEN own ELSE IF q \in hears THEN more(q) ELSE pages[q]]
    BY <1>5
  <2> HIDE DEF msgs, told, own, more
  <2>12. pages'[p] = own /\ \A q \in Pages \ {p} : pages'[q] = pages[q] \/ pages'[q] = more(q)
    BY <2>11
  <2>13. \A q \in Pages : Out(pages'[q], q, calls)
    <3>1. Out(own, p, calls)
      BY <1>1, <1>3, <2>8, <2>9, OutAnswered
    <3>2. ASSUME NEW q \in Pages PROVE Out(more(q), q, calls)
      <4>1. \A k \in DOMAIN told : told[k].what # "answer"
        BY <2>2, <2>4
      <4>. QED  BY <1>3, <2>4, <2>10, <4>1, OutHears
    <3>. QED  BY <1>3, <2>12, <3>1, <3>2
  <2>14. \A i \in Ids : sessions[i] # 0 => News(pages'[sessions[i]], i, H, calls)
    <3>1. SUFFICES ASSUME NEW i \in Ids, sessions[i] # 0 PROVE News(pages'[sessions[i]], i, H, calls)
      OBVIOUS
    <3> DEFINE q == sessions[i]
    <3>2. q \in Pages
      BY <3>1, OfPages
    <3>3. Typed(pages[q]) /\ News(pages[q], i, fights, calls)
      BY <1>3, <3>2
    <3>4. SameFights(pages[q], fights, H)
      BY <2>3, <3>2, OldNews
    <3>5. sessions[u] = p
      BY <1>2, Constants DEF AInv, PagesInv, Owners
    <3>6. q = sessions[i]
      OBVIOUS
    <3> HIDE DEF q
    <3>7. CASE q = p
      <4>1. Followed(msgs, i, H, calls)
        BY <2>6 DEF msgs
      <4>2. Typed(pages[p]) /\ News(pages[p], i, fights, calls) /\ SameFights(pages[p], fights, H)
        BY <3>3, <3>4, <3>7
      <4>3. own.mail = pages[p].mail \o msgs /\ msgs \in Seq(Message)
        BY <2>8, <2>9
      <4>4. News(own, i, H, calls)
        BY <4>1, <4>2, <4>3, NewsGoesOn
      <4>. QED  BY <2>12, <3>6, <3>7, <4>4
    <3>8. CASE q # p
      <4>1. News(pages[q], i, H, calls)
        BY <3>3, <3>4, NewsLater
      <4>2. News(more(q), i, H, calls)
        <5>1. i # u
          BY <3>5, <3>6, <3>8
        <5>2. \A k \in DOMAIN told : ~ (told[k].what = "fight" /\ H[told[k].n].by = i)
          BY <2>4, <2>5, <5>1
        <5>3. Followed(told, i, H, calls)
          BY <5>2 DEF Followed
        <5>4. more(q).mail = pages[q].mail \o told
          BY <2>10, <3>2
        <5>. QED  BY <2>4, <3>3, <3>4, <5>3, <5>4, NewsGoesOn
      <4>3. pages'[q] = pages[q] \/ pages'[q] = more(q)
        BY <2>12, <3>2, <3>8
      <4>. QED  BY <3>6, <4>1, <4>2, <4>3
    <3>. QED  BY <3>7, <3>8
  <2>15. sessions' = sessions /\ calls' = calls
    BY <1>1
  <2>16. \A q \in Pages : /\ pages'[q].at = pages[q].at /\ pages'[q].user = pages[q].user /\ pages'[q].fight = pages[q].fight
    BY <2>9, <2>10, <2>12
  <2>17. \A o \in Slots : Kept(calls[o], calls'[o])
    BY <2>15 DEF Kept
  <2>18. /\ \A q \in Pages : pages'[q].at # "closed" => pages[q].at # "closed"
         /\ \A q \in Pages : pages'[q].user \in {None, pages[q].user}
         /\ \A q \in Pages : pages'[q].fight \in {0, pages[q].fight}
    BY <2>16
  <2>19. /\ \A q \in Pages : Out(pages'[q], q, calls')
         /\ \A i \in Ids : sessions[i] # 0 => News(pages'[sessions[i]], i, fights', calls')
    BY <2>13, <2>14, <2>15 DEF H
  <2>20. Longer(fights, fights')
    BY <2>3 DEF H
  <2>. QED  BY <1>1, <2>15, <2>17, <2>18, <2>19, <2>20, Meanwhile
<1>6. \/ pages' = [pages EXCEPT ![p] = Answered(pages[p], AnswerTo(slot))] /\ UNCHANGED fights
      \/ /\ fights' = Append(fights, fight)
         /\ \E hears \in SUBSET foes :
              pages' = [q \in Pages |-> IF q = p THEN Answered(pages[p], <<msg>> \o AnswerTo(slot))
                                        ELSE IF q \in hears THEN [pages[q] EXCEPT !.mail = @ \o <<msg>>]
                                        ELSE pages[q]]
  BY DEF PlaceTroops
<1>. QED  BY <1>4, <1>5, <1>6

\* The first of the messages is taken: what follows the others still does.
LEMMA NewsDrops ==
  ASSUME NEW C, NEW D, NEW G, NEW i, NEW page, NEW new, Typed(page), News(page, i, G, C), page.mail # <<>>,
         new.mail = Tail(page.mail), \A o \in Slots : D[o].shot = C[o].shot
  PROVE  News(new, i, G, D)
<1> DEFINE mail == page.mail
           less == new.mail
<1>1. mail \in Seq(Message) /\ less = Tail(mail) /\ mail # <<>>
  BY DEF Typed
<1>2. \A k \in DOMAIN mail : mail[k].what = "fight" /\ G[mail[k].n].by = i =>
           \E l \in DOMAIN mail : k < l /\ mail[l].what = "answer" /\ C[mail[l].slot].shot = G[mail[k].n].shot
  BY DEF News
<1>3. \A k \in DOMAIN mail : mail[k].what = "answer" => mail[k].slot \in Slots
  BY TypedMessages
<1> HIDE DEF mail, less
<1>4. /\ \A k \in DOMAIN less : k \in Nat /\ k + 1 \in DOMAIN mail /\ less[k] = mail[k + 1] /\ k + 1 # 1
      /\ \A k \in DOMAIN mail : k = 1 \/ (k - 1 \in DOMAIN less /\ less[k - 1] = mail[k])
      /\ \A k \in DOMAIN mail : k \in Nat
  BY <1>1, TailOf
<1>5. ASSUME NEW k \in DOMAIN less, less[k].what = "fight", G[less[k].n].by = i
      PROVE  \E l \in DOMAIN less : k < l /\ less[l].what = "answer" /\ D[less[l].slot].shot = G[less[k].n].shot
  <2>1. PICK l \in DOMAIN mail : k + 1 < l /\ mail[l].what = "answer" /\ C[mail[l].slot].shot = G[less[k].n].shot
    <3>1. k + 1 \in DOMAIN mail /\ mail[k + 1] = less[k]
      BY <1>4
    <3>. QED  BY <1>2, <1>5, <3>1
  <2>2. k \in Nat /\ l \in Nat /\ l - 1 \in DOMAIN less /\ less[l - 1] = mail[l]
    BY <1>4, <2>1
  <2>3. D[mail[l].slot].shot = C[mail[l].slot].shot
    BY <1>3, <2>1
  <2>4. k < l - 1
    BY <2>1, <2>2
  <2>. QED  BY <2>1, <2>2, <2>3, <2>4
<1>. QED  BY <1>5 DEF News, less

\* The call that waits in the page of session j is about it.
LEMMA WaitsAbout ==
  ASSUME AInv, NEW j \in Ids, NEW p \in Pages, sessions[j] = p, NEW o \in Slots, Waits(calls[o], p)
  PROVE  calls[o].end = "running" /\ j \in Subjects(calls[o].todo)
<1> DEFINE c == calls[o]
           x == Head(c.todo)
<1>1. c \in Call /\ c.end = "running" /\ c.todo # <<>> /\ Good(sessions, pages, fights, c) /\ x.do = "answer" /\ c.inPage = p /\ p # 0
  BY OfPages, Constants DEF Waits, Doing
<1>2. \A f \in Needed(x.do) : Fact(sessions, pages, fights, c, Doing(c, Stretches), f, x.id)
  BY <1>1, NeededHolds
<1>3. x.id \in Subjects(c.todo) /\ x.id \in Ids
  BY <1>1, NeededHolds
<1> HIDE DEF c, x
<1>4. c.on[x.id] = sessions[x.id] /\ c.inPage \in {0, c.on[x.id]}
  BY <1>1, <1>2 DEF Needed, Fact
<1>5. sessions[x.id] = sessions[j] /\ sessions[j] # 0
  BY <1>1, <1>4
<1>6. x.id = j
  BY <1>3, <1>5 DEF AInv, PagesInv, Owners
<1>. QED  BY <1>1, <1>3, <1>6 DEF c

\* A fight that a page is told of is that of the placing its own call has made.
LEMMA ToldOfOwn ==
  ASSUME AInv, NEW p \in Pages, NEW j \in Ids, sessions[j] = p, pages[p].mail # <<>>,
         Head(pages[p].mail).what = "fight", NEW o \in Slots, calls[o].end = "running", j \in Subjects(calls[o].todo)
  PROVE  OwnShot(fights, j, Head(pages[p].mail).n, calls[o].shot)
<1> DEFINE mail == pages[p].mail
           n == Head(mail).n
<1>1. mail \in Seq(Message) /\ News(pages[p], j, fights, calls) /\ Out(pages[p], p, calls)
  BY PageFacts DEF Typed
<1>2. Head(mail) = mail[1] /\ 1 \in DOMAIN mail
  BY <1>1, TailOf
<1>3. SUFFICES ASSUME fights[n].by = j PROVE fights[n].shot = calls[o].shot
  BY DEF OwnShot
<1>4. PICK l \in DOMAIN mail : mail[l].what = "answer" /\ calls[mail[l].slot].shot = fights[n].shot
  BY <1>1, <1>2, <1>3 DEF News
<1>5. mail[l].slot \in Slots /\ Waits(calls[mail[l].slot], p)
  BY <1>1, <1>4, MessagesOK DEF Out
<1>6. calls[mail[l].slot].end = "running" /\ j \in Subjects(calls[mail[l].slot].todo)
  BY <1>5, WaitsAbout
<1>7. mail[l].slot = o
  BY <1>5, <1>6 DEF AInv, CallsInv, Apart
<1>. QED  BY <1>4, <1>7

\* A page that has taken a message.
Received(page, msg, mail) ==
  LET less == [page EXCEPT !.mail = mail]
  IN  CASE msg.what = "room" -> [less EXCEPT !.game = msg.room, !.saved = msg.room.code, !.resuming = FALSE]
        [] msg.what = "stale" -> [less EXCEPT !.game = None, !.saved = None, !.resuming = FALSE]
        [] msg.what = "fight" -> [less EXCEPT !.fight = msg.n, !.log = @ + 1]
        [] msg.what = "answer" -> less

LEMMA ReceivedFields ==
  ASSUME NEW page \in Page, NEW msg, NEW mail, NEW new, new = Received(page, msg, mail),
         msg.what \in {"room", "stale", "fight", "answer"}
  PROVE  /\ new.at = page.at /\ new.user = page.user /\ new.sent = page.sent /\ new.mail = mail
         /\ new.fight = IF msg.what = "fight" THEN msg.n ELSE page.fight
<1> DEFINE less == [page EXCEPT !.mail = mail]
<1>1. CASE msg.what = "room"
  <2>1. new = [less EXCEPT !.game = msg.room, !.saved = msg.room.code, !.resuming = FALSE]
    BY <1>1 DEF Received
  <2>. QED  BY <1>1, <2>1 DEF Page
<1>2. CASE msg.what = "stale"
  <2>1. new = [less EXCEPT !.game = None, !.saved = None, !.resuming = FALSE]
    BY <1>2 DEF Received
  <2>. QED  BY <1>2, <2>1 DEF Page
<1>3. CASE msg.what = "fight"
  <2>1. new = [less EXCEPT !.fight = msg.n, !.log = @ + 1]
    BY <1>3 DEF Received
  <2>. QED  BY <1>3, <2>1 DEF Page
<1>4. CASE msg.what = "answer"
  <2>1. new = less
    BY <1>4 DEF Received
  <2>. QED  BY <1>4, <2>1 DEF Page
<1>. QED  BY <1>1, <1>2, <1>3, <1>4

LEMMA ReceiveInv ==
  ASSUME AInv, NEW p \in Pages, Receive(p)
  PROVE  Rest(sessions', pages', fights', calls')
<1> DEFINE msg == Head(pages[p].mail)
           mail == Tail(pages[p].mail)
           new == Received(pages[p], msg, mail)
<1>1. /\ pages[p].mail # <<>> /\ UNCHANGED <<sessions, hub, shots, events>> /\ AllAwait
      /\ pages' = [pages EXCEPT ![p] = new]
      /\ calls' = IF msg.what = "answer" /\ calls[msg.slot].inPage = p
                  THEN [calls EXCEPT ![msg.slot] = [calls[msg.slot] EXCEPT !.waits = FALSE]] ELSE calls
  BY DEF Receive, Received
<1>2. /\ pages[p] \in Page /\ DOMAIN pages = Pages
      /\ \A q \in Pages : /\ Typed(pages[q]) /\ Out(pages[q], q, calls)
                          /\ \A i \in Ids : sessions[i] = q => News(pages[q], i, fights, calls)
  BY PageFacts
<1>3. msg \in Message /\ msg = pages[p].mail[1] /\ 1 \in DOMAIN pages[p].mail
  BY <1>1, <1>2, TailOf DEF Typed
<1>4. /\ msg.what \in {"room", "stale", "fight", "answer"}
      /\ msg.what = "answer" => msg.slot \in Slots /\ Waits(calls[msg.slot], p)
  BY <1>2, <1>3, MessagesOK DEF Out
<1>5. mail = Tail(pages[p].mail)
  OBVIOUS
<1> HIDE DEF msg, mail
<1>6. /\ new.at = pages[p].at /\ new.user = pages[p].user /\ new.sent = pages[p].sent /\ new.mail = mail
      /\ new.fight = IF msg.what = "fight" THEN msg.n ELSE pages[p].fight
  BY <1>2, <1>4, ReceivedFields
<1> HIDE DEF new
<1>7. pages'[p] = new /\ \A q \in Pages \ {p} : pages'[q] = pages[q]
  BY <1>1, <1>2
<1>8. \A o \in Slots : /\ Kept(calls[o], calls'[o]) /\ calls'[o].inPage = calls[o].inPage
                       /\ calls'[o] = calls[o] \/ (msg.what = "answer" /\ o = msg.slot)
  <2>1. CASE calls' = calls
    BY <2>1 DEF Kept
  <2>2. CASE msg.what = "answer" /\ calls' = [calls EXCEPT ![msg.slot] = [calls[msg.slot] EXCEPT !.waits = FALSE]]
    <3> DEFINE c == calls[msg.slot]
               d == [c EXCEPT !.waits = FALSE]
    <3>1. c \in Call /\ DOMAIN calls = Slots
      BY <1>4, <2>2, OfPages DEF AInv, Types
    <3>2. calls' = [calls EXCEPT ![msg.slot] = d]
      BY <2>2
    <3> HIDE DEF c
    <3>3. Kept(c, d) /\ d.inPage = c.inPage
      BY <3>1 DEF Kept, Call
    <3> HIDE DEF d
    <3>4. calls'[msg.slot] = d /\ \A o \in Slots \ {msg.slot} : calls'[o] = calls[o]
      BY <1>4, <2>2, <3>1, <3>2
    <3>5. \A o \in Slots : Kept(calls[o], calls[o])
      BY DEF Kept
    <3>. QED  BY <2>2, <3>3, <3>4, <3>5 DEF c
  <2>. QED  BY <1>1, <2>1, <2>2
<1>9. \A q \in Pages \ {p} : Heeds(calls, calls', q)
  <2>1. \A q \in Pages \ {p} : msg.what = "answer" => ~ Waits(calls[msg.slot], q)
    BY <1>4 DEF Waits
  <2>. QED  BY <1>8, <2>1 DEF Heeds
<1>10. \A q \in Pages : Out(pages'[q], q, calls')
  <2>1. Out(new, p, calls')
    <3>1. Typed(pages[p]) /\ Out(pages[p], p, calls)
      BY <1>2
    <3>2. \A o \in Slots : calls'[o] = calls[o] \/ (pages[p].mail[1].what = "answer" /\ o = pages[p].mail[1].slot)
      BY <1>3, <1>8
    <3>3. new.sent = pages[p].sent /\ new.mail = Tail(pages[p].mail) /\ pages[p].mail # <<>>
      BY <1>1, <1>5, <1>6
    <3>. QED  BY <3>1, <3>2, <3>3, OutDrops
  <2>2. ASSUME NEW q \in Pages \ {p} PROVE Out(pages[q], q, calls')
    BY <1>2, <1>9, OutStays
  <2>. QED  BY <1>7, <2>1, <2>2
<1>11. \A i \in Ids : sessions[i] # 0 => News(pages'[sessions[i]], i, fights, calls')
  <2>1. SUFFICES ASSUME NEW i \in Ids, sessions[i] # 0 PROVE News(pages'[sessions[i]], i, fights, calls')
    OBVIOUS
  <2> DEFINE q == sessions[i]
  <2>2. q \in Pages
    BY <2>1, OfPages
  <2>3. Typed(pages[q]) /\ Out(pages[q], q, calls) /\ News(pages[q], i, fights, calls) /\ q = sessions[i]
    BY <1>2, <2>2
  <2> HIDE DEF q
  <2>4. CASE q = p
    <3>1. \A o \in Slots : calls'[o].shot = calls[o].shot
      BY <1>8 DEF Kept
    <3>2. Typed(pages[p]) /\ News(pages[p], i, fights, calls)
      BY <2>3, <2>4
    <3>3. new.mail = Tail(pages[p].mail) /\ pages[p].mail # <<>>
      BY <1>1, <1>5, <1>6
    <3>4. News(new, i, fights, calls')
      BY <3>1, <3>2, <3>3, NewsDrops
    <3>. QED  BY <1>7, <2>3, <2>4, <3>4
  <2>5. CASE q # p
    <3>1. Heeds(calls, calls', q) /\ pages'[q] = pages[q]
      BY <1>7, <1>9, <2>2, <2>5
    <3>2. News(pages[q], i, fights, calls')
      BY <2>3, <3>1, NewsStays
    <3>. QED  BY <2>3, <3>1, <3>2
  <2>. QED  BY <2>4, <2>5
<1>12. sessions' = sessions /\ fights' = fights
  BY <1>1 DEF hub
<1>13. \/ \A q \in Pages : pages'[q].fight \in {0, pages[q].fight}
       \/ \A o \in Slots, j \in Ids :
            calls[o].end = "running" /\ j \in Subjects(calls[o].todo) /\ sessions[j] # 0
            /\ OwnShot(fights, j, pages[sessions[j]].fight, calls[o].shot)
              => OwnShot(fights', j, pages'[sessions[j]].fight, calls[o].shot)
  <2>1. CASE msg.what # "fight"
    BY <1>6, <1>7, <2>1
  <2>2. CASE msg.what = "fight"
    <3>1. SUFFICES ASSUME NEW o \in Slots, NEW j \in Ids, calls[o].end = "running", j \in Subjects(calls[o].todo), sessions[j] # 0,
                          OwnShot(fights, j, pages[sessions[j]].fight, calls[o].shot)
          PROVE  OwnShot(fights, j, pages'[sessions[j]].fight, calls[o].shot)
      BY <1>12
    <3>2. sessions[j] \in Pages
      BY <3>1, OfPages
    <3>3. CASE sessions[j] # p
      BY <1>7, <3>1, <3>2, <3>3
    <3>4. CASE sessions[j] = p
      <4>1. OwnShot(fights, j, Head(pages[p].mail).n, calls[o].shot)
        BY <1>1, <2>2, <3>1, <3>4, ToldOfOwn DEF msg
      <4>2. pages'[sessions[j]].fight = Head(pages[p].mail).n
        BY <1>6, <1>7, <2>2, <3>4 DEF msg
      <4>. QED  BY <4>1, <4>2
    <3>. QED  BY <3>3, <3>4
  <2>. QED  BY <2>1, <2>2
<1>14. /\ Longer(fights, fights')
       /\ \A o \in Slots : Kept(calls[o], calls'[o])
       /\ \A q \in Pages : pages'[q].at # "closed" => pages[q].at # "closed"
       /\ \A q \in Pages : pages'[q].user \in {None, pages[q].user}
       /\ \A q \in Pages : Out(pages'[q], q, calls')
  BY <1>6, <1>7, <1>8, <1>10, <1>12 DEF Longer
<1>15. \A i \in Ids : sessions[i] # 0 => News(pages'[sessions[i]], i, fights', calls')
  BY <1>11, <1>12
<1>. QED  BY <1>1, <1>12, <1>13, <1>14, <1>15, Meanwhile

\* A tool call starts while the others wait.
LEMMA StartInv ==
  ASSUME Careful, AInv, NEW s \in Slots, StartCall(s)
  PROVE  Rest(sessions', pages', fights', calls')
<1> DEFINE S == sessions
           P == pages
           G == fights
           C == calls
           D == calls'
<1>1. PICK t \in Tools, i \in Ids, r \in {q \in Rooms : rooms[q] # None} :
       LET new == [NoCall EXCEPT !.tool = IF t \in Scenarios THEN t ELSE None, !.id = i, !.left = Ids, !.end = "running",
                                 !.room = IF t = "room_join" THEN r ELSE None, !.calm = Quiet /\ t \in Scenarios]
       IN  /\ Careful => \A o \in Slots : Running(o) => Subjects(calls[o].todo) \cap Subjects(Scripts[t][i]) = {}
           /\ calls' = [o \in Slots |-> IF o = s THEN Settled(new, Scripts[t][i]) ELSE [calls[o] EXCEPT !.calm = FALSE]]
  BY DEF StartCall
<1>2. UNCHANGED <<sessions, pages, fights>> /\ AllAwait /\ ~ Running(s)
  BY DEF StartCall, hub
<1> DEFINE tool == IF t \in Scenarios THEN t ELSE None
           room == IF t = "room_join" THEN r ELSE None
           calm == Quiet /\ t \in Scenarios
           new == [NoCall EXCEPT !.tool = tool, !.id = i, !.left = Ids, !.end = "running", !.room = room, !.calm = calm]
           rest == Scripts[t][i]
           e == Settled(new, rest)
<1>3. /\ \A o \in Slots : Running(o) => Subjects(calls[o].todo) \cap Subjects(rest) = {}
      /\ calls' = [o \in Slots |-> IF o = s THEN e ELSE [calls[o] EXCEPT !.calm = FALSE]]
  BY <1>1
<1>4. tool \in Tools \cup {None} /\ room \in Rooms \cup {None} /\ calm \in BOOLEAN
  OBVIOUS
<1>5. rest \in Sound(i, {}, {}, {}) /\ rest \in Seq(Steps)
  BY ToolsAreSound DEF Whole, Sound
<1> HIDE DEF tool, room, calm, rest
<1>6. new \in Call /\ new.end = "running" /\ new.fight = 0 /\ new.id = i
  BY <1>4, NoCallIsCall DEF Call
<1> HIDE DEF new
<1>7. Good(S, P, G, e) /\ (e = Ended(new, "done") \/ (SameButTodo(e, new) /\ Subjects(e.todo) \subseteq Subjects(rest)))
  <2>1. {} \in SUBSET Facts /\ rest \in Sound(new.id, {}, {}, {})
    BY <1>5, <1>6
  <2>2. \A y \in {} : y[2] \in Subjects(rest) => Fact(S, P, G, new, TRUE, y[1], y[2])
    OBVIOUS
  <2>. QED  BY <1>6, <2>1, <2>2, SettledGood
<1> HIDE DEF e
<1>8. Reported(G, e) /\ (e.end = "running" => Subjects(e.todo) \subseteq Subjects(rest))
  <2>1. CASE e = Ended(new, "done")
    <3>1. e.end # "running" /\ e.fight = 0
      BY <1>6, <2>1, EndedOK
    <3>. QED  BY <3>1 DEF Reported
  <2>2. CASE SameButTodo(e, new) /\ Subjects(e.todo) \subseteq Subjects(rest)
    BY <1>6, <2>2 DEF SameButTodo, Reported
  <2>. QED  BY <1>7, <2>1, <2>2
<1>9. D[s] = e /\ \A o \in Slots \ {s} : Kept(C[o], D[o]) /\ D[o].inPage = C[o].inPage /\ D[o].waits = C[o].waits
  <2>1. D[s] = e
    BY <1>3
  <2>2. ASSUME NEW o \in Slots \ {s} PROVE Kept(C[o], D[o]) /\ D[o].inPage = C[o].inPage /\ D[o].waits = C[o].waits
    <3> DEFINE c == calls[o]
    <3>1. c \in Call
      BY OfPages
    <3>2. D[o] = [c EXCEPT !.calm = FALSE]
      BY <1>3
    <3> HIDE DEF c, D
    <3>3. Kept(c, D[o]) /\ D[o].inPage = c.inPage /\ D[o].waits = c.waits
      BY <3>1, <3>2 DEF Kept, Call
    <3>. QED  BY <3>3 DEF c
  <2>. QED  BY <2>1, <2>2
<1>10. C[s].end # "running" /\ \A o \in Slots : ~ Doing(C[o], Stretches)
  BY <1>2 DEF AllAwait, InAStretch, Doing, Stretches, Running, Now
<1>11. CallsInv(S, P, G, C) /\ PagesInv(S, P, G, C)
  BY DEF AInv
<1>12. \A o \in Slots : C[o] \in Call
  BY OfPages
<1>13. \A o \in Slots : C[o].end = "running" => Subjects(C[o].todo) \cap Subjects(rest) = {}
  BY <1>3 DEF Running
<1>14. \A p \in Pages : Typed(P[p]) /\ Out(P[p], p, C) /\ \A j \in Ids : S[j] = p => News(P[p], j, G, C)
  BY PageFacts
<1>15. \A j \in Ids : S[j] # 0 => S[j] \in Pages
  BY OfPages
<1> HIDE DEF S, P, G, C, D
<1>17. \A o \in Slots \ {s} : /\ D[o].end = C[o].end /\ D[o].todo = C[o].todo /\ D[o].id = C[o].id
                              /\ D[o].shot = C[o].shot /\ D[o].fight = C[o].fight
  BY <1>9 DEF Kept
<1>18. Solo(D)
  <2>1. \A o \in Slots \ {s} : ~ Doing(D[o], Stretches)
    BY <1>10, <1>17 DEF Doing
  <2>. QED  BY <2>1 DEF Solo
<1>19. Apart(D)
  <2>1. \A o \in Slots \ {s} : D[o].end = "running" /\ D[s].end = "running" =>
           Subjects(D[o].todo) \cap Subjects(D[s].todo) = {}
    BY <1>8, <1>9, <1>13, <1>17
  <2>2. \A o, q \in Slots \ {s} : o # q /\ D[o].end = "running" /\ D[q].end = "running" =>
           Subjects(D[o].todo) \cap Subjects(D[q].todo) = {}
    BY <1>11, <1>17 DEF CallsInv, Apart
  <2>. QED  BY <2>1, <2>2 DEF Apart
<1>20. ASSUME NEW o \in Slots PROVE Good(S, P, G, D[o]) /\ Reported(G, D[o])
  <2>1. CASE o = s
    BY <1>7, <1>8, <1>9, <2>1
  <2>2. CASE o # s
    <3>1. Kept(C[o], D[o]) /\ ~ Doing(C[o], Stretches) /\ Good(S, P, G, C[o]) /\ Reported(G, C[o])
      BY <1>9, <1>10, <1>11, <2>2 DEF CallsInv
    <3>2. Reported(G, D[o])
      BY <1>17, <2>2, <3>1 DEF Reported
    <3>3. C[o].end = "running" =>
           \A j \in Subjects(C[o].todo) :
             S[j] = S[j] /\ (C[o].on[j] = S[j] /\ S[j] # 0 /\ OwnShot(G, j, P[S[j]].fight, C[o].shot)
                               => OwnShot(G, j, P[S[j]].fight, C[o].shot))
      OBVIOUS
    <3>. QED  BY <3>1, <3>2, <3>3, KeptGood
  <2>. QED  BY <2>1, <2>2
<1>21. CallsInv(S, P, G, D)
  BY <1>18, <1>19, <1>20 DEF CallsInv
<1>22. \A p \in Pages : Heeds(C, D, p)
  <2>1. ASSUME NEW p \in Pages, NEW o \in Slots, Waits(C[o], p) PROVE Waits(D[o], p) /\ D[o].shot = C[o].shot
    <3>1. o # s
      BY <1>10, <2>1 DEF Waits, Doing
    <3>. QED  BY <1>9, <1>17, <2>1, <3>1 DEF Waits, Doing
  <2>. QED  BY <2>1 DEF Heeds
<1>23. Registered(S, P, D)
  <2>1. \A p \in Pages : P[p].at # "closed" => \E j \in Ids : S[j] = p
    BY <1>10, <1>11 DEF PagesInv, Registered, Doing, Stretches
  <2>. QED  BY <2>1 DEF Registered
<1>24. \A p \in Pages : Out(P[p], p, D)
  BY <1>14, <1>22, OutStays
<1>25. \A j \in Ids : S[j] # 0 => News(P[S[j]], j, G, D)
  <2>1. SUFFICES ASSUME NEW j \in Ids, NEW p \in Pages, S[j] = p PROVE News(P[p], j, G, D)
    BY <1>15
  <2>2. Typed(P[p]) /\ Out(P[p], p, C) /\ News(P[p], j, G, C) /\ Heeds(C, D, p)
    BY <1>14, <1>22, <2>1
  <2>. QED  BY <2>2, NewsStays
<1>26. PagesInv(S, P, G, D)
  BY <1>11, <1>23, <1>24, <1>25 DEF PagesInv
<1>. QED  BY <1>2, <1>21, <1>26 DEF Rest, S, P, G, D

(***************************************************************************)
(* The theorems                                                            *)
(***************************************************************************)

LEMMA InitCalls ==
  ASSUME NEW S, NEW P, NEW G, NEW C, C = [s \in Slots |-> NoCall]
  PROVE  CallsInv(S, P, G, C)
<1>1. \A s \in Slots : C[s].end # "running" /\ C[s].fight = 0
  BY NoCallIsCall
<1>. QED  BY <1>1 DEF CallsInv, Solo, Apart, Good, Reported, Doing

LEMMA InitInv == Init => AInv
<1> SUFFICES ASSUME Init PROVE AInv
  OBVIOUS
<1>1. Types
  BY InitTypes
<1>2. fights = <<>> /\ calls = [s \in Slots |-> NoCall]
  BY DEF Init
<1>3. CallsInv(sessions, pages, fights, calls)
  BY <1>2, InitCalls
<1>4. ASSUME \A p \in Pages : pages[p].sent = <<>> /\ pages[p].mail = <<>>,
             Owners(sessions, pages), \A p \in Pages : pages[p].at # "closed" => \E i \in Ids : sessions[i] = p
      PROVE  PagesInv(sessions, pages, fights, calls)
  <2>1. \A i \in Ids : sessions[i] # 0 => sessions[i] \in Pages
    BY <1>1, Constants DEF Types
  <2>2. \A p \in Pages : Out(pages[p], p, calls)
    BY <1>4 DEF Out
  <2>3. \A i \in Ids : sessions[i] # 0 => News(pages[sessions[i]], i, fights, calls)
    BY <1>4, <2>1 DEF News
  <2>. QED  BY <1>4, <2>2, <2>3 DEF PagesInv, Registered
<1>5. CASE sessions = [i \in Ids |-> 0] /\ pages = [p \in Pages |-> Blank]
  <2>1. Blank.at = "closed" /\ Blank.user = None /\ Blank.sent = <<>> /\ Blank.mail = <<>>
    BY DEF Blank
  <2>2. Owners(sessions, pages)
    BY <1>5, <2>1 DEF Owners
  <2>. QED  BY <1>1, <1>3, <1>4, <1>5, <2>1, <2>2 DEF AInv
<1> DEFINE order == SetToSeq(Ids)
           of(p, playing) ==
             [Blank EXCEPT !.at = "live", !.user = order[p], !.token = TRUE,
                           !.saved = IF playing THEN Old ELSE None,
                           !.seat = IF playing THEN Old ELSE None,
                           !.game = IF playing THEN OldRoom ELSE None]
<1>6. ASSUME NEW playing \in BOOLEAN,
             sessions = [i \in Ids |-> CHOOSE p \in DOMAIN order : order[p] = i],
             pages = [p \in Pages |-> IF p <= Len(order) THEN of(p, playing) ELSE Blank]
      PROVE  AInv
  <2>1. /\ Cardinality(Ids) \in Nat /\ order \in [1..Cardinality(Ids) -> Ids]
        /\ \A a, b \in 1..Cardinality(Ids) : order[a] = order[b] => a = b
        /\ \A i \in Ids : \E p \in 1..Cardinality(Ids) : order[p] = i
    BY Constants, OrderOfSet
  <2>2. Blank.at = "closed" /\ Blank.user = None /\ Blank.sent = <<>> /\ Blank.mail = <<>>
    BY DEF Blank
  <2> HIDE DEF order
  <2>3. order \in Seq(Ids) /\ Len(order) = Cardinality(Ids) /\ DOMAIN order = 1..Cardinality(Ids)
    BY <2>1
  <2>4. \A i \in Ids : sessions[i] \in DOMAIN order /\ order[sessions[i]] = i
    BY <1>6, <2>1, <2>3
  <2>5. \A p : of(p, playing).user = order[p] /\ of(p, playing).sent = <<>> /\ of(p, playing).mail = <<>>
    BY DEF Blank
  <2> HIDE DEF of
  <2>6. \A p \in Pages : \/ p \in DOMAIN order /\ pages[p] = of(p, playing)
                        \/ pages[p] = Blank
    BY <1>6, <2>1, <2>3 DEF Pages
  <2>7. \A p \in DOMAIN order : order[p] \in Ids /\ sessions[order[p]] = p
    BY <2>1, <2>3, <2>4
  <2>8. Owners(sessions, pages)
    <3>1. \A i, j \in Ids : sessions[i] = sessions[j] => i = j
      BY <2>4
    <3>2. \A p \in Pages : pages[p].user # None => sessions[pages[p].user] = p
      BY <2>2, <2>5, <2>6, <2>7
    <3>. QED  BY <3>1, <3>2 DEF Owners
  <2>9. \A p \in Pages : pages[p].sent = <<>> /\ pages[p].mail = <<>>
    BY <2>2, <2>5, <2>6
  <2>10. \A p \in Pages : pages[p].at # "closed" => \E i \in Ids : sessions[i] = p
    BY <2>2, <2>6, <2>7
  <2>. QED  BY <1>1, <1>3, <1>4, <2>8, <2>9, <2>10 DEF AInv
<1>. QED  BY <1>5, <1>6 DEF Init

LEMMA NextInv ==
  ASSUME Careful
  PROVE  AInv /\ [Next]_vars => AInv'
<1> SUFFICES ASSUME AInv, [Next]_vars PROVE AInv'
  OBVIOUS
<1>1. Types'
  BY NextTypes DEF AInv
<1>2. ASSUME Rest(sessions', pages', fights', calls') PROVE AInv'
  BY <1>1, <1>2 DEF AInv, Rest
<1>3. ASSUME NEW s \in Slots, Step(s) \/ GivesUp(s) \/ ResumeAgain(s) \/ StartCall(s) PROVE AInv'
  BY <1>2, <1>3, StepInv, StartInv
<1>4. ASSUME NEW p \in Pages, PageStep(p) \/ Meddle(p) PROVE AInv'
  BY <1>2, <1>4, LoadInv, ReceiveInv, SeatInv, ServeInv, PlaceInv, MeddleInv DEF PageStep
<1>5. CASE UNCHANGED vars
  <2>1. Rest(sessions', pages', fights', calls')
    BY <1>5 DEF vars, hub, AInv, Rest
  <2>. QED  BY <1>2, <2>1
<1>. QED  BY <1>3, <1>4, <1>5 DEF Next

LEMMA InvIsEnough ==
  AInv => NoPageIsLost /\ OwnFightReported
<1> SUFFICES ASSUME AInv PROVE NoPageIsLost /\ OwnFightReported
  OBVIOUS
<1>1. ASSUME NEW p \in Pages, pages[p].at # "closed" PROVE Held(p)
  <2>1. (\E i \in Ids : sessions[i] = p) \/ \E s \in Slots : Doing(calls[s], {"keep"}) /\ calls[s].on[Head(calls[s].todo).id] = p
    BY <1>1 DEF AInv, PagesInv, Registered
  <2>2. ASSUME NEW s \in Slots, Doing(calls[s], {"keep"}), calls[s].on[Head(calls[s].todo).id] = p PROVE Held(p)
    <3>1. calls[s].end = "running" /\ calls[s].todo \in Seq(Steps) /\ calls[s].todo # <<>>
      BY <2>2, OfPages DEF Doing
    <3>2. Head(calls[s].todo).id \in Ids
      BY <3>1 DEF Steps
    <3>. QED  BY <2>2, <3>1, <3>2 DEF Held, Running
  <2>. QED  BY <2>1, <2>2 DEF Held
<1>2. ASSUME NEW s \in Slots PROVE Reported(fights, calls[s])
  BY DEF AInv, CallsInv
<1>. QED  BY <1>1, <1>2 DEF NoPageIsLost, OwnFightReported, Reported

\* However calls, pages and the hub interleave, an open window is registered or held by a
\* running call, if the agent has one call at a time about a session (createSession).
THEOREM NoPageIsLostHolds ==
  ASSUME Careful
  PROVE  Spec => []NoPageIsLost
<1>1. Init => AInv
  BY InitInv
<1>2. AInv /\ [Next]_vars => AInv'
  BY NextInv
<1>3. AInv => NoPageIsLost
  BY InvIsEnough
<1>. QED  BY <1>1, <1>2, <1>3, PTL DEF Spec

\* Under the same assumption an attack that reports a fight of its own session reports the
\* one it has asked for (agentBridge.attackHex).
THEOREM OwnFightReportedHolds ==
  ASSUME Careful
  PROVE  Spec => []OwnFightReported
<1>1. Init => AInv
  BY InitInv
<1>2. AInv /\ [Next]_vars => AInv'
  BY NextInv
<1>3. AInv => OwnFightReported
  BY InvIsEnough
<1>. QED  BY <1>1, <1>2, <1>3, PTL DEF Spec
================================================================================
