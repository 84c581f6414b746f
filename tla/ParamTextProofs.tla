-------------------------- MODULE ParamTextProofs --------------------------
(***************************************************************************)
(* Proofs about ParamText: for any versions of the plugin, any names and   *)
(* any number of calls.                                                    *)
(***************************************************************************)
EXTENDS ParamText, ListsProofs, SequenceTheorems, FiniteSetTheorems, TLAPS

----------------------------------------------------------------------------
(* Loops.  The recursions of the model are loops over a list, or climb from *)
(* each group to its parent.                                                *)

\* The value after k rounds comes from that after up[k] rounds, and is in V.
Loop(n, V, base, up, step) ==
  /\ n \in Nat /\ base \in V /\ step \in [1..n -> [V -> V]]
  /\ up \in [1..n -> Nat] /\ \A k \in 1..n : up[k] < k

\* A loop has a run.
LEMMA LoopRuns ==
  ASSUME NEW n, NEW V, NEW base, NEW up, NEW step, Loop(n, V, base, up, step)
  PROVE  \E f \in [0..n -> V] :
           f[0] = base /\ \A k \in 1..n : f[k] = step[k][f[up[k]]]
<1> USE DEF Loop
<1> DEFINE Runs(f, m) == /\ f \in [0..m -> V] /\ f[0] = base
                         /\ \A k \in 1..m : f[k] = step[k][f[up[k]]]
           G == {m \in 0..n : \E f : Runs(f, m)}
<1>1. 0 \in G
  <2>1. Runs([k \in 0..0 |-> base], 0)
    OBVIOUS
  <2>2. 0 \in 0..n
    OBVIOUS
  <2> HIDE DEF Runs
  <2> QED BY <2>1, <2>2
<1>2. ASSUME NEW m \in 1..n, m - 1 \in G PROVE m \in G
  <2>1. PICK f : Runs(f, m - 1)
    BY <1>2
  <2> DEFINE next == step[m][f[up[m]]]
             g == [k \in 0..m |-> IF k = m THEN next ELSE f[k]]
  <2>2. up[m] \in 0..(m - 1) /\ next \in V
    <3>1. up[m] \in 0..(m - 1)
      OBVIOUS
    <3>2. f[up[m]] \in V /\ step[m] \in [V -> V]
      BY <2>1, <3>1
    <3> QED BY <3>1, <3>2
  <2>3. g \in [0..m -> V] /\ g[0] = base
    BY <2>1, <2>2
  <2>4. ASSUME NEW k \in 1..m PROVE g[k] = step[k][g[up[k]]]
    <3>1. up[k] \in 0..(k - 1)
      OBVIOUS
    <3>2. g[up[k]] = f[up[k]]
      BY <3>1
    <3>3. CASE k = m
      BY <3>2, <3>3
    <3>4. CASE k # m
      <4>1. k \in 1..(m - 1) /\ g[k] = f[k]
        BY <3>4
      <4> QED BY <2>1, <3>2, <4>1
    <3> QED BY <3>3, <3>4
  <2> HIDE DEF g
  <2>5. Runs(g, m)
    BY <2>3, <2>4
  <2> HIDE DEF Runs
  <2> QED BY <2>5
<1> HIDE DEF G
<1>3. G = 0..n
  <2>1. G \in SUBSET (0..n)
    BY DEF G
  <2> QED BY <1>1, <1>2, <2>1, EveryLength
<1>4. n \in G
  BY <1>3
<1> QED BY <1>4 DEF G

\* Strong induction over the rounds of a loop.
LEMMA EveryRound ==
  ASSUME NEW n \in Nat, NEW G \in SUBSET (0..n),
         \A m \in 0..n : (\A k \in 0..(m - 1) : k \in G) => m \in G
  PROVE  G = 0..n
<1> DEFINE H == {m \in 0..n : \A k \in 0..m : k \in G}
<1>1. 0 \in H
  <2>1. 0 \in G
    OBVIOUS
  <2>2. \A k \in 0..0 : k = 0
    OBVIOUS
  <2> QED BY <2>1, <2>2
<1>2. ASSUME NEW m \in 1..n, m - 1 \in H PROVE m \in H
  <2>1. \A k \in 0..(m - 1) : k \in G
    BY <1>2
  <2>2. m \in 0..n
    OBVIOUS
  <2>3. m \in G
    BY <2>1, <2>2
  <2>4. \A k \in 0..m : k = m \/ k \in 0..(m - 1)
    OBVIOUS
  <2> QED BY <2>1, <2>2, <2>3, <2>4
<1>3. H = 0..n
  <2>1. H \in SUBSET (0..n)
    OBVIOUS
  <2> HIDE DEF H
  <2> QED BY <1>1, <1>2, <2>1, EveryLength
<1>4. ASSUME NEW m \in 0..n PROVE m \in G
  <2>1. m \in H /\ m \in 0..m
    BY <1>3
  <2> QED BY <2>1
<1> QED BY <1>4

\* The path of a group is its parent's and its own name.
LEMMA GroupPathSteps ==
  ASSUME NEW l, IsLayout(l)
  PROVE  /\ GroupPath(l) \in [0..Len(l.groups) -> Seq(Name)]
         /\ GroupPath(l)[0] = <<>>
         /\ \A g \in Groups(l) :
              GroupPath(l)[g] = Append(GroupPath(l)[l.groups[g].parent], l.groups[g].name)
<1> DEFINE n == Len(l.groups)
           V == Seq(Name)
           up == [g \in 1..n |-> l.groups[g].parent]
           step == [g \in 1..n |-> [v \in V |-> Append(v, l.groups[g].name)]]
           Climb(f) == [g \in 0..n |->
             IF g = 0 THEN <<>> ELSE Append(f[l.groups[g].parent], l.groups[g].name)]
           path == CHOOSE f : f = Climb(f)
<1>1. /\ n \in Nat
      /\ \A g \in 1..n : l.groups[g].name \in Name /\ l.groups[g].parent \in 0..(g - 1)
  <2>1. /\ l.groups \in Seq(Group)
        /\ \A g \in Groups(l) : l.groups[g].parent \in 0..(g - 1)
    BY DEF IsLayout
  <2>2. n \in Nat /\ \A g \in 1..n : l.groups[g] \in Group
    BY <2>1
  <2>3. \A x \in Group : x.name \in Name
    BY DEF Group
  <2> QED BY <2>1, <2>2, <2>3 DEF Groups
<1>2. GroupPath(l) = path
  BY DEF GroupPath
<1>3. PICK f \in [0..n -> V] : f[0] = <<>> /\ \A g \in 1..n : f[g] = step[g][f[up[g]]]
  <2> DEFINE none == <<>>
  <2>1. n \in Nat /\ none \in V
    BY <1>1
  <2>2. up \in [1..n -> Nat] /\ \A g \in 1..n : up[g] < g
    BY <1>1
  <2>3. step \in [1..n -> [V -> V]]
    <3>1. \A g \in 1..n : \A v \in V : Append(v, l.groups[g].name) \in V
      BY <1>1
    <3> QED BY <3>1
  <2> HIDE DEF n, V, up, step, none
  <2>4. \E f \in [0..n -> V] : f[0] = none /\ \A g \in 1..n : f[g] = step[g][f[up[g]]]
    <3>1. Loop(n, V, none, up, step)
      BY <2>1, <2>2, <2>3 DEF Loop
    <3> QED BY <3>1, LoopRuns
  <2> QED BY <2>4 DEF none
<1>4. ASSUME NEW g \in 1..n
      PROVE  f[g] = Append(f[l.groups[g].parent], l.groups[g].name)
  <2>1. up[g] \in 0..n /\ up[g] = l.groups[g].parent
    BY <1>1
  <2>2. f[up[g]] \in V
    BY <1>3, <2>1
  <2> QED BY <1>3, <2>1, <2>2
<1>5. f = Climb(f)
  BY <1>3, <1>4
<1>6. path = Climb(path)
  BY <1>5
<1> HIDE DEF path
<1>7. /\ path[0] = <<>>
      /\ \A g \in 1..n : path[g] = Append(path[l.groups[g].parent], l.groups[g].name)
  <2>1. \A g \in 0..n : path[g] = IF g = 0 THEN <<>>
                        ELSE Append(path[l.groups[g].parent], l.groups[g].name)
    BY <1>6
  <2>2. 0 \in 0..n /\ \A g \in 1..n : g \in 0..n /\ g # 0
    BY <1>1
  <2> QED BY <2>1, <2>2
<1> DEFINE G == {g \in 0..n : path[g] \in V}
<1>8. ASSUME NEW m \in 0..n, \A k \in 0..(m - 1) : k \in G PROVE m \in G
  <2>1. CASE m = 0
    <3>1. <<>> \in V
      OBVIOUS
    <3> HIDE DEF V
    <3> QED BY <1>7, <2>1, <3>1
  <2>2. CASE m # 0
    <3>1. m \in 1..n /\ l.groups[m].parent \in 0..(m - 1)
      BY <1>1, <2>2
    <3>2. path[l.groups[m].parent] \in V
      BY <1>8, <3>1
    <3>3. path[m] = Append(path[l.groups[m].parent], l.groups[m].name)
      BY <1>7, <3>1
    <3>4. \A v \in V : Append(v, l.groups[m].name) \in V
      BY <1>1, <3>1
    <3>5. path[m] \in V
      <4> HIDE DEF V
      <4> QED BY <3>2, <3>3, <3>4
    <3> QED BY <3>5
  <2> QED BY <2>1, <2>2
<1>9. G = 0..n
  <2>1. G \in SUBSET (0..n)
    OBVIOUS
  <2> HIDE DEF G, n
  <2> QED BY <1>1, <1>8, <2>1, EveryRound
<1>10. path = [g \in 0..n |-> path[g]]
  BY <1>6
<1> QED BY <1>2, <1>7, <1>9, <1>10 DEF Groups

----------------------------------------------------------------------------
(* Escaping and cutting. *)

Names == Seq(Name)

\* The loop that escapes a name.
LEMMA EscapeSteps ==
  ASSUME NEW s \in Name
  PROVE  \E w \in [0..Len(s) -> Name] :
           /\ w[0] = <<>> /\ Escape(s) = w[Len(s)]
           /\ \A k \in 1..Len(s) : w[k] = w[k - 1] \o Escaped(s[k])
<1> DEFINE n == Len(s)
           up == [k \in 1..n |-> k - 1]
           step == [k \in 1..n |-> [v \in Name |-> v \o Escaped(s[k])]]
           none == <<>>
           Escaping(f) == [k \in 0..n |->
                             IF k = 0 THEN <<>> ELSE f[k - 1] \o Escaped(s[k])]
           w == CHOOSE f : f = Escaping(f)
<1>1. n \in Nat /\ none \in Name /\ \A k \in 1..n : Escaped(s[k]) \in Name
  <2>1. n \in Nat /\ \A k \in 1..n : s[k] \in Char
    BY DEF Name
  <2>2. \A c \in Char : Escaped(c) \in Name
    <3> TAKE c \in Char
    <3>1. EscapeChar \in Char
      BY ParamTextAssumption
    <3>2. <<EscapeChar, c>> \in Name /\ <<c>> \in Name
      BY <3>1 DEF Name
    <3> QED BY <3>2 DEF Escaped
  <2>3. <<>> \in Name
    BY DEF Name
  <2> QED BY <2>1, <2>2, <2>3
<1>2. Escape(s) = w[n]
  BY DEF Escape
<1>3. PICK f \in [0..n -> Name] : f[0] = none /\ \A k \in 1..n : f[k] = step[k][f[up[k]]]
  <2>1. step \in [1..n -> [Name -> Name]]
    <3>1. \A k \in 1..n : \A v \in Name : v \o Escaped(s[k]) \in Name
      BY <1>1 DEF Name
    <3> QED BY <3>1
  <2>2. up \in [1..n -> Nat] /\ \A k \in 1..n : up[k] < k
    BY <1>1
  <2> HIDE DEF n, up, step, none
  <2>3. Loop(n, Name, none, up, step)
    BY <1>1, <2>1, <2>2 DEF Loop
  <2> QED BY <2>3, LoopRuns
<1>4. ASSUME NEW k \in 1..n PROVE f[k] = f[k - 1] \o Escaped(s[k])
  <2>1. up[k] \in 0..n /\ up[k] = k - 1
    BY <1>1
  <2>2. f[up[k]] \in Name
    BY <1>3, <2>1
  <2> QED BY <1>3, <2>1, <2>2
<1>5. f = Escaping(f)
  <2>1. f = [k \in 0..n |-> f[k]]
    BY <1>3
  <2>2. \A k \in 0..n : f[k] = IF k = 0 THEN <<>> ELSE f[k - 1] \o Escaped(s[k])
    <3>1. \A k \in 0..n : k = 0 \/ k \in 1..n
      BY <1>1
    <3> QED BY <1>3, <1>4, <3>1
  <2> QED BY <2>1, <2>2
<1>6. w = Escaping(w)
  BY <1>5
<1> HIDE DEF w
<1>7. w[0] = <<>> /\ \A k \in 1..n : w[k] = w[k - 1] \o Escaped(s[k])
  <2>1. \A k \in 0..n : w[k] = IF k = 0 THEN <<>> ELSE w[k - 1] \o Escaped(s[k])
    BY <1>6
  <2>2. 0 \in 0..n /\ \A k \in 1..n : k \in 0..n /\ k # 0
    BY <1>1
  <2> QED BY <2>1, <2>2
<1> DEFINE G == {k \in 0..n : w[k] \in Name}
<1>8. G = 0..n
  <2>1. 0 \in G
    BY <1>1, <1>7
  <2>2. ASSUME NEW k \in 1..n, k - 1 \in G PROVE k \in G
    <3>1. w[k - 1] \in Name /\ Escaped(s[k]) \in Name /\ k \in 0..n
      BY <1>1, <2>2
    <3>2. w[k - 1] \o Escaped(s[k]) \in Name
      BY <3>1 DEF Name
    <3> QED BY <1>7, <3>1, <3>2
  <2>3. G \in SUBSET (0..n)
    OBVIOUS
  <2> HIDE DEF G, n
  <2> QED BY <1>1, <2>1, <2>2, <2>3, EveryLength
<1>9. w = [k \in 0..n |-> w[k]]
  BY <1>6
<1>10. w \in [0..n -> Name]
  BY <1>8, <1>9
<1> QED BY <1>2, <1>7, <1>10

\* Cutting a text takes the cutter from a to b.
Reads(a, text, b) ==
  \E f : /\ f = [k \in 0..Len(text) |-> IF k = 0 THEN a ELSE CutAt(f[k - 1], text[k])]
         /\ f[Len(text)] = b

\* Nothing is read from nothing.
LEMMA ReadsNothing ==
  ASSUME NEW a
  PROVE  Reads(a, <<>>, a)
<1> DEFINE f == [k \in 0..0 |-> a]
<1>1. /\ f = [k \in 0..Len(<<>>) |-> IF k = 0 THEN a ELSE CutAt(f[k - 1], <<>>[k])]
      /\ f[Len(<<>>)] = a
  OBVIOUS
<1> HIDE DEF f
<1> QED BY <1>1 DEF Reads

\* One character is one step of the cutter.
LEMMA ReadsOne ==
  ASSUME NEW a, NEW c
  PROVE  Reads(a, <<c>>, CutAt(a, c))
<1> DEFINE f == [k \in 0..1 |-> IF k = 0 THEN a ELSE CutAt(a, c)]
<1>1. f[0] = a /\ f[1] = CutAt(a, c) /\ Len(<<c>>) = 1 /\ <<c>>[1] = c
  OBVIOUS
<1>2. f = [k \in 0..Len(<<c>>) |-> IF k = 0 THEN a ELSE CutAt(f[k - 1], <<c>>[k])]
  <2>1. \A k \in 0..1 : f[k] = IF k = 0 THEN a ELSE CutAt(f[k - 1], <<c>>[k])
    <3>1. \A k \in 0..1 : k = 0 \/ k = 1
      OBVIOUS
    <3> HIDE DEF f
    <3> QED BY <1>1, <3>1
  <2>2. f = [k \in 0..1 |-> f[k]]
    OBVIOUS
  <2> HIDE DEF f
  <2> QED BY <1>1, <2>1, <2>2
<1> HIDE DEF f
<1> QED BY <1>1, <1>2 DEF Reads

\* A text is read part by part.
LEMMA ReadsBoth ==
  ASSUME NEW a, NEW b, NEW c, NEW s \in Name, NEW t \in Name,
         Reads(a, s, b), Reads(b, t, c)
  PROVE  Reads(a, s \o t, c)
<1> DEFINE n == Len(s)  m == Len(t)  u == s \o t
<1>1. /\ n \in Nat /\ m \in Nat /\ Len(u) = n + m
      /\ \A k \in 1..n : u[k] = s[k]
      /\ \A k \in (n + 1)..(n + m) : u[k] = t[k - n]
  BY DEF Name
<1> HIDE DEF n, m, u
<1>2. PICK f : /\ f = [k \in 0..n |-> IF k = 0 THEN a ELSE CutAt(f[k - 1], s[k])]
               /\ f[n] = b
  BY DEF Reads, n
<1>3. PICK g : /\ g = [k \in 0..m |-> IF k = 0 THEN b ELSE CutAt(g[k - 1], t[k])]
               /\ g[m] = c
  BY DEF Reads, m
<1>4. f[0] = a /\ \A k \in 1..n : f[k] = CutAt(f[k - 1], s[k])
  <2>1. \A k \in 0..n : f[k] = IF k = 0 THEN a ELSE CutAt(f[k - 1], s[k])
    BY <1>2
  <2> QED BY <1>1, <2>1
<1>5. g[0] = b /\ \A k \in 1..m : g[k] = CutAt(g[k - 1], t[k])
  <2>1. \A k \in 0..m : g[k] = IF k = 0 THEN b ELSE CutAt(g[k - 1], t[k])
    BY <1>3
  <2> QED BY <1>1, <2>1
<1> DEFINE h == [k \in 0..(n + m) |-> IF k <= n THEN f[k] ELSE g[k - n]]
<1>6. \A k \in 0..n : h[k] = f[k]
  BY <1>1
<1>7. \A k \in n..(n + m) : h[k] = g[k - n]
  <2>1. h[n] = g[0]
    BY <1>1, <1>2, <1>5
  <2>2. \A k \in (n + 1)..(n + m) : h[k] = g[k - n]
    BY <1>1
  <2> HIDE DEF h
  <2> QED BY <1>1, <2>1, <2>2
<1>8. h = [k \in 0..(n + m) |-> h[k]]
  OBVIOUS
<1> HIDE DEF h
<1>9. ASSUME NEW k \in 1..(n + m) PROVE h[k] = CutAt(h[k - 1], u[k])
  <2>1. CASE k <= n
    <3>1. k \in 1..n /\ k \in 0..n /\ k - 1 \in 0..n
      BY <1>1, <2>1
    <3> QED BY <1>1, <1>4, <1>6, <3>1
  <2>2. CASE k > n
    <3>1. /\ k \in (n + 1)..(n + m) /\ k \in n..(n + m) /\ k - 1 \in n..(n + m)
          /\ k - n \in 1..m /\ (k - 1) - n = (k - n) - 1
      BY <1>1, <2>2
    <3> QED BY <1>1, <1>5, <1>7, <3>1
  <2> QED BY <1>1, <2>1, <2>2
<1>10. h = [k \in 0..Len(u) |-> IF k = 0 THEN a ELSE CutAt(h[k - 1], u[k])]
  <2>1. \A k \in 0..(n + m) : h[k] = IF k = 0 THEN a ELSE CutAt(h[k - 1], u[k])
    <3>1. h[0] = a
      BY <1>1, <1>4, <1>6
    <3>2. \A k \in 0..(n + m) : k = 0 \/ k \in 1..(n + m)
      BY <1>1
    <3> QED BY <1>9, <3>1, <3>2
  <2> QED BY <1>1, <1>8, <2>1
<1>11. h[Len(u)] = c
  <2>1. n + m \in n..(n + m) /\ (n + m) - n = m
    BY <1>1
  <2> QED BY <1>1, <1>3, <1>7, <2>1
<1> QED BY <1>10, <1>11 DEF Reads, u

\* The cutter between two characters: it has cut off names and holds the next.
Cutter(names) == [names |-> names, escape |-> FALSE]

\* The last of a list that has been appended to.
LEMMA FrontAndLast ==
  ASSUME NEW S, NEW s \in Seq(S), NEW x \in S
  PROVE  Front(Append(s, x)) = s /\ Last(Append(s, x)) = x
<1>1. /\ Append(s, x) \in Seq(S) /\ Len(Append(s, x)) = Len(s) + 1
      /\ \A i \in 1..Len(s) : Append(s, x)[i] = s[i]
      /\ Append(s, x)[Len(s) + 1] = x
  BY AppendProperties
<1>2. Last(Append(s, x)) = x
  BY <1>1 DEF Last
<1>3. Front(Append(s, x)) = SubSeq(Append(s, x), 1, Len(s))
  BY <1>1 DEF Front
<1>4. SubSeq(Append(s, x), 1, Len(s)) = s
  BY <1>1
<1> QED BY <1>2, <1>3, <1>4

\* What Escaped writes for a character is read as that character.
LEMMA ReadsEscaped ==
  ASSUME NEW ns \in Names, NEW name \in Name, NEW c \in Char
  PROVE  Reads(Cutter(Append(ns, name)), Escaped(c), Cutter(Append(ns, Append(name, c))))
<1> DEFINE a == Cutter(Append(ns, name))
           b == Cutter(Append(ns, Append(name, c)))
           held == [names |-> Append(ns, name), escape |-> TRUE]
<1>1. Front(Append(ns, name)) = ns /\ Last(Append(ns, name)) = name
  BY FrontAndLast DEF Names
<1>2. a.names = Append(ns, name) /\ a.escape = FALSE
  BY DEF Cutter
<1>3. CASE c \notin {Separator, EscapeChar}
  <2>1. CutAt(a, c) = b
    BY <1>1, <1>2, <1>3 DEF CutAt, Cutter
  <2>2. Escaped(c) = <<c>>
    BY <1>3 DEF Escaped
  <2> QED BY <2>1, <2>2, ReadsOne
<1>4. CASE c \in {Separator, EscapeChar}
  <2>1. CutAt(a, EscapeChar) = held
    BY <1>2 DEF CutAt, Cutter
  <2>2. CutAt(held, c) = b
    BY <1>1 DEF CutAt, Cutter
  <2>3. Escaped(c) = <<EscapeChar>> \o <<c>>
    <3>1. Escaped(c) = <<EscapeChar, c>>
      BY <1>4 DEF Escaped
    <3> QED BY <3>1
  <2>4. <<EscapeChar>> \in Name /\ <<c>> \in Name
    BY ParamTextAssumption DEF Name
  <2>5. Reads(a, <<EscapeChar>>, held) /\ Reads(held, <<c>>, b)
    BY <2>1, <2>2, ReadsOne
  <2> HIDE DEF a, b, held
  <2>6. Reads(a, <<EscapeChar>> \o <<c>>, b)
    BY <2>4, <2>5, ReadsBoth
  <2> QED BY <2>3, <2>6 DEF a, b
<1> QED BY <1>3, <1>4

\* What Escape writes for a name is read as that name.
LEMMA ReadsName ==
  ASSUME NEW ns \in Names, NEW name \in Name
  PROVE  /\ Escape(name) \in Name
         /\ Reads(Cutter(Append(ns, <<>>)), Escape(name), Cutter(Append(ns, name)))
<1> DEFINE n == Len(name)
           Upto(k) == SubSeq(name, 1, k)
           a == Cutter(Append(ns, <<>>))
<1>1. n \in Nat /\ \A k \in 1..n : name[k] \in Char
  BY DEF Name
<1>2. PICK w \in [0..n -> Name] :
        /\ w[0] = <<>> /\ Escape(name) = w[n]
        /\ \A k \in 1..n : w[k] = w[k - 1] \o Escaped(name[k])
  BY EscapeSteps
<1>3. /\ Upto(0) = <<>> /\ Upto(n) = name
      /\ \A k \in 1..n : Upto(k) = Append(Upto(k - 1), name[k])
      /\ \A k \in 0..n : Upto(k) \in Name
  <2>1. Upto(0) = <<>> /\ Upto(n) = name
    BY SubSeqEmpty, SubSeqFull DEF Name
  <2>2. \A k \in 0..n : Upto(k) \in Name
    BY <1>1 DEF Name
  <2>3. ASSUME NEW k \in 1..n PROVE Upto(k) = Append(Upto(k - 1), name[k])
    <3>1. 1 \in 1..Len(name) /\ k \in 1..Len(name) /\ name \in Seq(Char)
      BY <1>1 DEF Name
    <3>2. Upto(k) = Upto(k - 1) \o <<name[k]>>
      BY <3>1, SubSeqRecursiveSecond
    <3>3. Upto(k - 1) \in Seq(Char) /\ name[k] \in Char
      BY <1>1, <2>2 DEF Name
    <3> QED BY <3>2, <3>3, AppendIsConcat
  <2> QED BY <2>1, <2>2, <2>3
<1> DEFINE G == {k \in 0..n : Reads(a, w[k], Cutter(Append(ns, Upto(k))))}
<1>4. 0 \in G
  <2>1. Reads(a, <<>>, a) /\ 0 \in 0..n
    BY <1>1, ReadsNothing
  <2> HIDE DEF Upto
  <2> QED BY <1>2, <1>3, <2>1
<1>5. ASSUME NEW k \in 1..n, k - 1 \in G PROVE k \in G
  <2> DEFINE b == Cutter(Append(ns, Upto(k - 1)))
             c == Cutter(Append(ns, Upto(k)))
  <2>1. k - 1 \in 0..n /\ k \in 0..n
    OBVIOUS
  <2>2. Reads(a, w[k - 1], b)
    BY <1>5
  <2>3. Reads(b, Escaped(name[k]), c)
    <3>1. Upto(k - 1) \in Name /\ name[k] \in Char /\ Upto(k) = Append(Upto(k - 1), name[k])
      BY <1>1, <1>3, <2>1
    <3> HIDE DEF Upto
    <3> QED BY <3>1, ReadsEscaped
  <2>4. w[k - 1] \in Name /\ Escaped(name[k]) \in Name
    <3>1. EscapeChar \in Char /\ name[k] \in Char
      BY <1>1, ParamTextAssumption
    <3>2. <<EscapeChar, name[k]>> \in Name /\ <<name[k]>> \in Name
      BY <3>1 DEF Name
    <3> QED BY <1>2, <2>1, <3>2 DEF Escaped
  <2> HIDE DEF a, b, c
  <2>5. Reads(a, w[k - 1] \o Escaped(name[k]), c)
    BY <2>2, <2>3, <2>4, ReadsBoth
  <2>6. w[k] = w[k - 1] \o Escaped(name[k])
    BY <1>2
  <2> QED BY <2>1, <2>5, <2>6 DEF c
<1>6. G = 0..n
  <2>1. G \in SUBSET (0..n)
    OBVIOUS
  <2> HIDE DEF G, n
  <2> QED BY <1>1, <1>4, <1>5, <2>1, EveryLength
<1>7. n \in 0..n
  BY <1>1
<1>8. Reads(a, w[n], Cutter(Append(ns, Upto(n))))
  BY <1>6, <1>7
<1> HIDE DEF Upto, a, n
<1> QED BY <1>2, <1>3, <1>7, <1>8 DEF a

\* A separator ends a name and begins the next.
LEMMA ReadsSeparator ==
  ASSUME NEW names
  PROVE  Reads(Cutter(names), <<Separator>>, Cutter(Append(names, <<>>)))
<1>1. CutAt(Cutter(names), Separator) = Cutter(Append(names, <<>>))
  BY DEF CutAt, Cutter, Separator, EscapeChar
<1> QED BY <1>1, ReadsOne

\* What the cutter has after a text that it reads from its start is what
\* string_unescape returns.
LEMMA UnescapeReads ==
  ASSUME NEW text, Len(text) \in Nat, NEW b, Reads(Cutter(<<<<>>>>), text, b)
  PROVE  Unescape(text) = b.names
<1> DEFINE n == Len(text)
           Cutting(f) == [k \in 0..n |-> IF k = 0 THEN [names |-> <<<<>>>>, escape |-> FALSE]
                                         ELSE CutAt(f[k - 1], text[k])]
           cut == CHOOSE f : f = Cutting(f)
<1>1. Unescape(text) = cut[n].names
  BY DEF Unescape
<1>2. PICK f : f = Cutting(f) /\ f[n] = b
  BY DEF Reads, Cutter
<1>3. cut = Cutting(cut)
  BY <1>2
<1> HIDE DEF cut
<1> DEFINE G == {k \in 0..n : cut[k] = f[k]}
<1>4. 0 \in G
  <2>1. 0 \in 0..n
    OBVIOUS
  <2>2. cut[0] = [names |-> <<<<>>>>, escape |-> FALSE]
    BY <1>3, <2>1
  <2>3. f[0] = [names |-> <<<<>>>>, escape |-> FALSE]
    BY <1>2, <2>1
  <2> QED BY <2>1, <2>2, <2>3
<1>5. ASSUME NEW k \in 1..n, k - 1 \in G PROVE k \in G
  <2>1. k \in 0..n /\ k # 0
    OBVIOUS
  <2>2. cut[k] = CutAt(cut[k - 1], text[k])
    BY <1>3, <2>1
  <2>3. f[k] = CutAt(f[k - 1], text[k])
    BY <1>2, <2>1
  <2> QED BY <1>5, <2>1, <2>2, <2>3
<1>6. G = 0..n
  <2>1. G \in SUBSET (0..n) /\ n \in Nat
    OBVIOUS
  <2> HIDE DEF G, n
  <2> QED BY <1>4, <1>5, <2>1, EveryLength
<1>7. n \in G
  BY <1>6
<1> QED BY <1>1, <1>2, <1>7

\* Buffers: what is left in front of the text, and the text.
Buffers == [room : Nat, text : Name]

\* prepend_string makes the room it needs.
LEMMA PrependFits ==
  ASSUME NEW b \in Buffers, NEW s \in Name
  PROVE  Prepend(b, s) \in Buffers /\ Prepend(b, s).text = s \o b.text
<1>1. b.room \in Nat /\ b.text \in Name /\ Len(s) \in Nat /\ BufferIncrement \in Nat
  BY ParamTextAssumption DEF Buffers, Name
<1> DEFINE n == Grown(b, s)
<1>2. n.text = b.text /\ n.room \in Nat /\ n.room - Len(s) \in Nat
  <2>1. CASE Len(s) > b.room
    <3>1. n = [b EXCEPT !.room = @ + Len(s) + BufferIncrement]
      BY <2>1 DEF Grown
    <3>2. n.text = b.text /\ n.room = b.room + Len(s) + BufferIncrement
      BY <3>1 DEF Buffers
    <3> HIDE DEF n
    <3> QED BY <1>1, <3>2
  <2>2. CASE ~(Len(s) > b.room)
    <3>1. n = b
      BY <2>2 DEF Grown
    <3> HIDE DEF n
    <3> QED BY <1>1, <2>2, <3>1
  <2> QED BY <2>1, <2>2
<1>3. s \o b.text \in Name
  BY <1>1 DEF Name
<1>4. Prepend(b, s) = [room |-> n.room - Len(s), text |-> s \o n.text]
  BY DEF Prepend
<1> HIDE DEF n
<1> QED BY <1>2, <1>3, <1>4 DEF Buffers

\* The loop that fills the buffer of a full name.
LEMMA NameBufferSteps ==
  ASSUME NEW i \in Params(layout), IsLayout(layout)
  PROVE  LET groups == GroupPath(layout)[P(i).group] IN
         /\ groups \in Names
         /\ \E f \in [0..Len(groups) -> Buffers] :
              /\ f[0] = Prepend([room |-> BufferInitial - 1, text |-> <<>>], Escape(P(i).name))
              /\ \A k \in 1..Len(groups) :
                   f[k] = Prepend(Prepend(f[k - 1], <<Separator>>),
                                  Escape(groups[Len(groups) - k + 1]))
              /\ NameBuffer(i) = f[Len(groups)]
<1> DEFINE groups == GroupPath(layout)[P(i).group]
           n == Len(groups)
           first == Prepend([room |-> BufferInitial - 1, text |-> <<>>], Escape(P(i).name))
           up == [k \in 1..n |-> k - 1]
           Filled(b, k) == Prepend(Prepend(b, <<Separator>>), Escape(groups[n - k + 1]))
           step == [k \in 1..n |-> [b \in Buffers |-> Filled(b, k)]]
           Filling(f) == [k \in 0..n |-> IF k = 0 THEN first ELSE Filled(f[k - 1], k)]
           filled == CHOOSE f : f = Filling(f)
<1>1. P(i).group \in 0..Len(layout.groups) /\ P(i).name \in Name
  <2>1. /\ layout.params \in Seq(Param)
        /\ \A j \in Params(layout) : layout.params[j].group \in 0..Len(layout.groups)
    BY DEF IsLayout
  <2>2. P(i) \in Param
    BY <2>1 DEF P, Params
  <2>3. \A x \in Param : x.name \in Name
    BY DEF Param
  <2> QED BY <2>1, <2>2, <2>3 DEF P
<1>2. groups \in Names
  BY <1>1, GroupPathSteps DEF Names
<1>3. n \in Nat /\ \A k \in 1..n : groups[n - k + 1] \in Name
  <2> HIDE DEF groups
  <2>1. n \in Nat /\ \A k \in 1..n : groups[k] \in Name
    BY <1>2 DEF Names
  <2>2. \A k \in 1..n : n - k + 1 \in 1..n
    BY <2>1
  <2> QED BY <2>1, <2>2
<1> HIDE DEF groups
<1>4. first \in Buffers
  <2>1. [room |-> BufferInitial - 1, text |-> <<>>] \in Buffers
    BY ParamTextAssumption DEF Buffers, Name
  <2>2. Escape(P(i).name) \in Name
    <3>1. <<>> \in Names
      BY DEF Names
    <3> QED BY <1>1, <3>1, ReadsName
  <2> QED BY <2>1, <2>2, PrependFits
<1>5. \A k \in 1..n : \A b \in Buffers : Filled(b, k) \in Buffers
  <2> TAKE k \in 1..n
  <2> TAKE b \in Buffers
  <2>1. <<Separator>> \in Name
    BY ParamTextAssumption DEF Name
  <2>2. Prepend(b, <<Separator>>) \in Buffers
    BY <2>1, PrependFits
  <2>3. <<>> \in Names
    BY DEF Names
  <2>4. Escape(groups[n - k + 1]) \in Name
    BY <1>3, <2>3, ReadsName
  <2> QED BY <2>2, <2>4, PrependFits
<1>6. NameBuffer(i) = filled[n]
  BY DEF NameBuffer, groups
<1> HIDE DEF first, Filled
<1>7. PICK f \in [0..n -> Buffers] : f[0] = first /\ \A k \in 1..n : f[k] = step[k][f[up[k]]]
  <2>1. step \in [1..n -> [Buffers -> Buffers]]
    BY <1>5
  <2>2. up \in [1..n -> Nat] /\ \A k \in 1..n : up[k] < k
    BY <1>3
  <2> HIDE DEF n, up, step
  <2>3. Loop(n, Buffers, first, up, step)
    BY <1>3, <1>4, <2>1, <2>2 DEF Loop
  <2> QED BY <2>3, LoopRuns
<1>8. ASSUME NEW k \in 1..n PROVE f[k] = Filled(f[k - 1], k)
  <2>1. up[k] \in 0..n /\ up[k] = k - 1
    BY <1>3
  <2>2. f[up[k]] \in Buffers
    BY <1>7, <2>1
  <2> QED BY <1>7, <2>1, <2>2
<1>9. f = Filling(f)
  <2>1. f = [k \in 0..n |-> f[k]]
    BY <1>7
  <2>2. \A k \in 0..n : f[k] = IF k = 0 THEN first ELSE Filled(f[k - 1], k)
    <3>1. \A k \in 0..n : k = 0 \/ k \in 1..n
      BY <1>3
    <3> QED BY <1>7, <1>8, <3>1
  <2> QED BY <2>1, <2>2
<1>10. filled = Filling(filled)
  BY <1>9
<1> HIDE DEF filled
<1>11. filled = [k \in 0..n |-> filled[k]] /\ filled[0] = first
       /\ \A k \in 1..n : filled[k] = Filled(filled[k - 1], k)
  <2>1. \A k \in 0..n : filled[k] = IF k = 0 THEN first ELSE Filled(filled[k - 1], k)
    BY <1>10
  <2>2. 0 \in 0..n /\ \A k \in 1..n : k \in 0..n /\ k # 0
    BY <1>3
  <2>3. filled = [k \in 0..n |-> filled[k]]
    BY <1>10
  <2> QED BY <2>1, <2>2, <2>3
<1> DEFINE G == {k \in 0..n : filled[k] \in Buffers}
<1>12. G = 0..n
  <2>1. 0 \in G
    BY <1>3, <1>4, <1>11
  <2>2. ASSUME NEW k \in 1..n, k - 1 \in G PROVE k \in G
    <3>1. filled[k - 1] \in Buffers /\ k \in 0..n
      BY <1>3, <2>2
    <3> QED BY <1>5, <1>11, <3>1
  <2>3. G \in SUBSET (0..n)
    OBVIOUS
  <2> HIDE DEF G, n
  <2> QED BY <1>3, <2>1, <2>2, <2>3, EveryLength
<1>13. filled \in [0..n -> Buffers]
  BY <1>11, <1>12
<1>14. /\ filled[0] = Prepend([room |-> BufferInitial - 1, text |-> <<>>], Escape(P(i).name))
       /\ \A k \in 1..n : filled[k] = Prepend(Prepend(filled[k - 1], <<Separator>>),
                                              Escape(groups[n - k + 1]))
  BY <1>11 DEF first, Filled
<1> QED BY <1>2, <1>6, <1>13, <1>14 DEF groups

\* host.c:740 and string_unescape: the name is not written in front of its buffer,
\* and is cut into the names of the groups and the parameter, whatever is in them.
THEOREM NamesComeBack ==
  ASSUME NEW i \in Params(layout), IsLayout(layout)
  PROVE  /\ NameBuffer(i) \in Buffers
         /\ Path(i) \in Names
         /\ Unescape(NameBuffer(i).text) = Path(i)
<1> DEFINE groups == GroupPath(layout)[P(i).group]
           n == Len(groups)
           name == P(i).name
           Rest(k) == Append(SubSeq(groups, n - k + 1, n), name)
<1>1. groups \in Names
  BY NameBufferSteps
<1>2. PICK f \in [0..n -> Buffers] :
        /\ f[0] = Prepend([room |-> BufferInitial - 1, text |-> <<>>], Escape(name))
        /\ \A k \in 1..n : f[k] = Prepend(Prepend(f[k - 1], <<Separator>>),
                                          Escape(groups[n - k + 1]))
        /\ NameBuffer(i) = f[n]
  BY NameBufferSteps
<1>3. name \in Name
  <2>1. layout.params \in Seq(Param)
    BY DEF IsLayout
  <2>2. P(i) \in Param
    BY <2>1 DEF P, Params
  <2>3. \A x \in Param : x.name \in Name
    BY DEF Param
  <2> QED BY <2>2, <2>3
<1>4. Path(i) = Append(groups, name)
  BY DEF Path, FullName, P
<1> HIDE DEF groups, name
<1>5. n \in Nat /\ \A k \in 1..n : groups[k] \in Name /\ n - k + 1 \in 1..n
  BY <1>1 DEF Names
<1>6. /\ Rest(0) = <<name>> /\ Rest(n) = Append(groups, name)
      /\ \A k \in 0..n : Rest(k) \in Names
      /\ \A k \in 1..n : Rest(k) = <<groups[n - k + 1]>> \o Rest(k - 1)
  <2>1. Rest(0) = <<name>>
    <3>1. SubSeq(groups, n - 0 + 1, n) = <<>>
      BY <1>5, SubSeqEmpty
    <3>2. Append(<<>>, name) = <<name>>
      OBVIOUS
    <3>3. Rest(0) = Append(SubSeq(groups, n - 0 + 1, n), name)
      OBVIOUS
    <3> QED BY <3>1, <3>2, <3>3, Zenon
  <2>2. Rest(n) = Append(groups, name)
    <3>1. n - n + 1 = 1
      BY <1>5
    <3>2. SubSeq(groups, 1, n) = groups
      BY <1>1, SubSeqFull DEF Names
    <3> QED BY <3>1, <3>2
  <2>3. \A k \in 0..n : SubSeq(groups, n - k + 1, n) \in Names
    <3> TAKE k \in 0..n
    <3>1. n - k + 1 \in Int /\ n \in Int /\ \A j \in (n - k + 1)..n : groups[j] \in Name
      BY <1>5
    <3> HIDE DEF n
    <3> QED BY <3>1, SubSeqProperties DEF Names
  <2>4. \A k \in 0..n : Rest(k) \in Names
    BY <1>3, <2>3, AppendProperties DEF Names
  <2>5. ASSUME NEW k \in 1..n PROVE Rest(k) = <<groups[n - k + 1]>> \o Rest(k - 1)
    <3> DEFINE m == n - k + 1
               rest == SubSeq(groups, m + 1, n)
    <3>1. m \in 1..Len(groups) /\ n \in m..Len(groups) /\ n - (k - 1) + 1 = m + 1
      BY <1>5
    <3>2. SubSeq(groups, m, n) = <<groups[m]>> \o rest
      <4> HIDE DEF m
      <4> QED BY <1>1, <3>1, SubSeqRecursiveFirst DEF Names
    <3>3. rest \in Seq(Name) /\ <<groups[m]>> \in Seq(Name)
      <4>1. k - 1 \in 0..n
        BY <1>5
      <4>2. rest \in Names
        BY <2>3, <3>1, <4>1
      <4>3. groups[m] \in Name
        BY <1>5
      <4> HIDE DEF rest, m
      <4> QED BY <4>2, <4>3 DEF Names
    <3>4. Rest(k - 1) = Append(rest, name)
      BY <3>1
    <3>5. Rest(k) = Append(<<groups[m]>> \o rest, name)
      BY <3>2
    <3> HIDE DEF rest, m, Rest
    <3>6. Append(<<groups[m]>> \o rest, name) = <<groups[m]>> \o Append(rest, name)
      <4>1. <<groups[m]>> \o rest \in Seq(Name) /\ <<name>> \in Seq(Name)
        BY <1>3, <3>3, ConcatProperties
      <4>2. /\ Append(<<groups[m]>> \o rest, name) = (<<groups[m]>> \o rest) \o <<name>>
            /\ Append(rest, name) = rest \o <<name>>
        BY <1>3, <3>3, <4>1, AppendIsConcat
      <4> QED BY <3>3, <4>1, <4>2, ConcatAssociative
    <3> QED BY <3>4, <3>5, <3>6 DEF m
  <2> QED BY <2>1, <2>2, <2>4, <2>5
<1>7. \A k \in 0..n : f[k] \in Buffers /\ f[k].text \in Name
  BY <1>2 DEF Buffers
<1> HIDE DEF Rest
<1> DEFINE Good(k) == \A ns \in Names :
             Reads(Cutter(Append(ns, <<>>)), f[k].text, Cutter(ns \o Rest(k)))
           G == {k \in 0..n : Good(k)}
<1>8. <<>> \in Name /\ <<>> \in Names
  BY DEF Name, Names
<1>9. 0 \in G
  <2>1. ASSUME NEW ns \in Names
        PROVE  Reads(Cutter(Append(ns, <<>>)), f[0].text, Cutter(ns \o Rest(0)))
    <3>1. Escape(name) \in Name
      BY <1>3, <1>8, ReadsName
    <3>2. [room |-> BufferInitial - 1, text |-> <<>>] \in Buffers
      BY <1>8, ParamTextAssumption DEF Buffers
    <3>3. f[0].text = Escape(name) \o <<>>
      BY <1>2, <3>1, <3>2, PrependFits
    <3>4. Escape(name) \o <<>> = Escape(name)
      BY <3>1, ConcatEmptySeq DEF Name
    <3>5. ns \o Rest(0) = Append(ns, name)
      BY <1>3, <1>6, AppendIsConcat DEF Names
    <3> QED BY <1>3, <3>3, <3>4, <3>5, ReadsName
  <2>2. 0 \in 0..n
    BY <1>5
  <2> QED BY <2>1, <2>2
<1>10. ASSUME NEW k \in 1..n, k - 1 \in G PROVE k \in G
  <2> DEFINE g == groups[n - k + 1]
             t == f[k - 1].text
  <2>1. /\ k \in 0..n /\ k - 1 \in 0..n /\ g \in Name /\ t \in Name
        /\ f[k - 1] \in Buffers
    BY <1>5, <1>7
  <2>2. <<Separator>> \in Name /\ Escape(g) \in Name /\ <<Separator>> \o t \in Name
    <3>1. <<Separator>> \in Name
      BY ParamTextAssumption DEF Name
    <3>2. Escape(g) \in Name
      BY <1>8, <2>1, ReadsName
    <3> HIDE DEF t, g
    <3> QED BY <2>1, <3>1, <3>2 DEF Name
  <2>3. f[k].text = Escape(g) \o (<<Separator>> \o t)
    <3>1. f[k] = Prepend(Prepend(f[k - 1], <<Separator>>), Escape(g))
      BY <1>2
    <3>2. /\ Prepend(f[k - 1], <<Separator>>) \in Buffers
          /\ Prepend(f[k - 1], <<Separator>>).text = <<Separator>> \o t
      BY <2>1, <2>2, PrependFits
    <3> QED BY <2>2, <3>1, <3>2, PrependFits
  <2>4. ASSUME NEW ns \in Names
        PROVE  Reads(Cutter(Append(ns, <<>>)), f[k].text, Cutter(ns \o Rest(k)))
    <3> DEFINE a == Cutter(Append(ns, <<>>))
               b == Cutter(Append(ns, g))
               c == Cutter(Append(Append(ns, g), <<>>))
               d == Cutter(Append(ns, g) \o Rest(k - 1))
    <3>1. Reads(a, Escape(g), b)
      BY <2>1, ReadsName
    <3>2. Reads(b, <<Separator>>, c)
      BY ReadsSeparator
    <3>3. Append(ns, g) \in Names
      BY <2>1, AppendProperties DEF Names
    <3>4. Reads(c, t, d)
      BY <1>10, <3>3
    <3>5. Append(ns, g) \o Rest(k - 1) = ns \o Rest(k)
      <4>1. <<g>> \in Names /\ Rest(k - 1) \in Names /\ Rest(k) = <<g>> \o Rest(k - 1)
        BY <1>6, <2>1 DEF Names
      <4>2. Append(ns, g) = ns \o <<g>>
        BY <2>1, AppendIsConcat DEF Names
      <4> HIDE DEF g
      <4> QED BY <4>1, <4>2, ConcatAssociative DEF Names
    <3> HIDE DEF a, b, c, d, t, g
    <3>6. Reads(b, <<Separator>> \o t, d)
      BY <2>1, <2>2, <3>2, <3>4, ReadsBoth
    <3>7. Reads(a, Escape(g) \o (<<Separator>> \o t), d)
      BY <2>2, <3>1, <3>6, ReadsBoth
    <3> QED BY <2>3, <3>5, <3>7 DEF a, d
  <2> QED BY <2>1, <2>4
<1>11. G = 0..n
  <2>1. G \in SUBSET (0..n)
    OBVIOUS
  <2> HIDE DEF G, n
  <2> QED BY <1>5, <1>9, <1>10, <2>1, EveryLength
<1>12. n \in 0..n
  BY <1>5
<1>13. Reads(Cutter(<<<<>>>>), f[n].text, Cutter(Path(i)))
  <2>1. Good(n)
    BY <1>11, <1>12
  <2>2. Append(<<>>, <<>>) = <<<<>>>>
    OBVIOUS
  <2>3. <<>> \o Rest(n) = Rest(n)
    BY <1>6, <1>12, ConcatEmptySeq DEF Names
  <2> QED BY <1>4, <1>6, <1>8, <2>1, <2>2, <2>3
<1>14. Unescape(f[n].text) = Path(i)
  <2>1. Len(f[n].text) \in Nat
    BY <1>7, <1>12 DEF Name
  <2>2. Cutter(Path(i)).names = Path(i)
    BY DEF Cutter
  <2> QED BY <1>13, <2>1, <2>2, UnescapeReads
<1> QED BY <1>2, <1>4, <1>6, <1>7, <1>12, <1>14

----------------------------------------------------------------------------
(* Searching. *)

\* The least of a set of indices.
LEMMA LeastIndex ==
  ASSUME NEW I \in SUBSET Nat, I # {}
  PROVE  Min(I) \in I /\ \A y \in I : Min(I) <= y
<1>1. \E x \in I : \A y \in I : x <= y
  BY LeastNumber
<1> QED BY <1>1 DEF Min

\* A path is cut in one way into the groups above and the last name.
LEMMA PathsEnd ==
  ASSUME NEW names \in Names, NEW k \in 1..Len(names)
  PROVE  /\ SubSeq(names, 1, k - 1) \in Names /\ names[k] \in Name
         /\ SubSeq(names, 1, k) = Append(SubSeq(names, 1, k - 1), names[k])
<1>1. names \in Seq(Name) /\ Len(names) \in Nat /\ 1 \in 1..Len(names) /\ k \in 1..Len(names)
  BY DEF Names
<1>2. SubSeq(names, 1, k) = SubSeq(names, 1, k - 1) \o <<names[k]>>
  BY <1>1, SubSeqRecursiveSecond
<1>3. SubSeq(names, 1, k - 1) \in Seq(Name) /\ names[k] \in Name
  <2>1. 1 \in Int /\ k - 1 \in Int /\ \A i \in 1..(k - 1) : names[i] \in Name
    BY <1>1
  <2> QED BY <1>1, <2>1, SubSeqProperties
<1> QED BY <1>2, <1>3, AppendIsConcat DEF Names

\* The group of a name below a group.
ChildOf(g, n) == SelectInSeq(layout.groups, LAMBDA c : c.parent = g /\ c.name = n)

\* It is the first of that name, or there is none.
LEMMA ChildOfGroup ==
  ASSUME IsLayout(layout), NEW g, NEW n
  PROVE  LET c == ChildOf(g, n) IN
         /\ c \in 0..Len(layout.groups)
         /\ c # 0 => layout.groups[c].parent = g /\ layout.groups[c].name = n
         /\ c = 0 => \A h \in Groups(layout) :
                       ~(layout.groups[h].parent = g /\ layout.groups[h].name = n)
<1> DEFINE I == {h \in 1..Len(layout.groups) :
                   layout.groups[h].parent = g /\ layout.groups[h].name = n}
<1>1. ChildOf(g, n) = IF I # {} THEN Min(I) ELSE 0
  BY DEF ChildOf, SelectInSeq
<1>2. I \in SUBSET Nat /\ Len(layout.groups) \in Nat
  <2>1. layout.groups \in Seq(Group)
    BY DEF IsLayout
  <2> QED BY <2>1
<1>3. CASE I # {}
  <2>1. Min(I) \in I
    <3> HIDE DEF I
    <3> QED BY <1>2, <1>3, LeastIndex
  <2>2. ChildOf(g, n) = Min(I)
    BY <1>1, <1>3
  <2> QED BY <1>2, <2>1, <2>2
<1>4. CASE I = {}
  BY <1>1, <1>2, <1>4 DEF Groups
<1> QED BY <1>3, <1>4

\* The groups the search is in, name by name; -1 when it has ended.
Searching(names, f) ==
  [k \in 0..Len(names) |->
     IF k = 0 THEN 0
     ELSE IF f[k - 1] = -1 \/ ChildOf(f[k - 1], names[k]) = 0 THEN -1
     ELSE ChildOf(f[k - 1], names[k])]

\* A search by names of which none is empty takes them all.
LEMMA FindSteps ==
  ASSUME NEW names \in Names, names # <<>>, \A k \in 1..Len(names) : names[k] # <<>>,
         IsLayout(layout)
  PROVE  \E at \in [0..Len(names) -> Int] :
           /\ at = Searching(names, at)
           /\ LET hits == {i \in present : P(i).group = at[Len(names) - 1]
                                           /\ P(i).name = Last(names)} IN
              Find(names) = IF hits = {} THEN NotFound
                            ELSE CHOOSE i \in hits : \A j \in hits : i <= j
<1> DEFINE n == Len(names)
           empty == SelectInSeq(names, LAMBDA x : x = <<>>)
           cut == IF empty = 0 THEN names ELSE SubSeq(names, 1, empty - 1)
           Child(g, x) == SelectInSeq(layout.groups, LAMBDA c : c.parent = g /\ c.name = x)
           Search(f) == [k \in 0..Len(cut) |->
             IF k = 0 THEN 0
             ELSE IF f[k - 1] = -1 \/ Child(f[k - 1], cut[k]) = 0 THEN -1
             ELSE Child(f[k - 1], cut[k])]
           found == CHOOSE f : f = Search(f)
           hits == {i \in present : P(i).group = found[Len(cut) - 1] /\ P(i).name = Last(cut)}
<1>1. Find(names) = IF cut = <<>> \/ hits = {} THEN NotFound
                    ELSE CHOOSE i \in hits : \A j \in hits : i <= j
  BY DEF Find
<1>2. cut = names /\ n \in Nat
  <2>1. empty = 0
    <3>1. {k \in 1..Len(names) : names[k] = <<>>} = {}
      OBVIOUS
    <3> QED BY <3>1 DEF SelectInSeq
  <2> HIDE DEF empty
  <2> QED BY <2>1 DEF Names
<1>3. \A f : Search(f) = Searching(names, f)
  <2>1. \A g, x : Child(g, x) = ChildOf(g, x)
    BY DEF ChildOf
  <2> HIDE DEF cut, Child
  <2> QED BY <1>2, <2>1 DEF Searching
<1> HIDE DEF cut, empty, Child, Search
<1> DEFINE Onward(v, k) == IF v = -1 \/ ChildOf(v, names[k]) = 0 THEN -1
                          ELSE ChildOf(v, names[k])
           up == [k \in 1..n |-> k - 1]
           V == Int
           step == [k \in 1..n |-> [v \in V |-> Onward(v, k)]]
<1>4. \A k, v : Onward(v, k) \in Int
  <2>1. \A v, x : ChildOf(v, x) \in 0..Len(layout.groups) /\ Len(layout.groups) \in Nat
    <3>1. layout.groups \in Seq(Group)
      BY DEF IsLayout
    <3> QED BY <3>1, ChildOfGroup
  <2> QED BY <2>1
<1> HIDE DEF Onward
<1>5. PICK f \in [0..n -> Int] : f[0] = 0 /\ \A k \in 1..n : f[k] = step[k][f[up[k]]]
  <2>1. step \in [1..n -> [V -> V]] /\ 0 \in V
    BY <1>4
  <2>2. up \in [1..n -> Nat] /\ \A k \in 1..n : up[k] < k
    BY <1>2
  <2> HIDE DEF n, V, up, step
  <2>3. Loop(n, V, 0, up, step)
    BY <1>2, <2>1, <2>2 DEF Loop
  <2>4. \E f \in [0..n -> V] : f[0] = 0 /\ \A k \in 1..n : f[k] = step[k][f[up[k]]]
    BY <2>3, LoopRuns
  <2> QED BY <2>4 DEF V
<1>6. f = Searching(names, f)
  <2>1. f = [k \in 0..n |-> f[k]]
    BY <1>5
  <2>2. ASSUME NEW k \in 1..n PROVE f[k] = Onward(f[k - 1], k)
    <3>1. up[k] \in 0..n /\ up[k] = k - 1
      BY <1>2
    <3>2. f[up[k]] \in Int
      BY <1>5, <3>1
    <3> QED BY <1>5, <3>1, <3>2
  <2>3. \A k \in 0..n : f[k] = IF k = 0 THEN 0 ELSE Onward(f[k - 1], k)
    <3>1. \A k \in 0..n : k = 0 \/ k \in 1..n
      BY <1>2
    <3> QED BY <1>5, <2>2, <3>1
  <2> QED BY <2>1, <2>3 DEF Searching, Onward
<1>7. found = Searching(names, found)
  BY <1>3, <1>6
<1> HIDE DEF found
<1>8. \A k \in 0..n : found[k] = IF k = 0 THEN 0 ELSE Onward(found[k - 1], k)
  BY <1>7 DEF Searching, Onward
<1>9. found \in [0..n -> Int]
  <2>1. \A k \in 0..n : found[k] \in Int
    BY <1>4, <1>8
  <2>2. found = [k \in 0..n |-> found[k]]
    BY <1>7 DEF Searching
  <2> QED BY <2>1, <2>2
<1> QED BY <1>1, <1>2, <1>7, <1>9

\* What a name is appended to can be told from the outcome.
LEMMA AppendedNames ==
  ASSUME NEW s \in Seq(Name), NEW t \in Seq(Name), NEW x \in Name, NEW y \in Name
  PROVE  /\ Append(s, x) # <<>>
         /\ Append(s, x) = Append(t, y) => s = t /\ x = y
<1>1. Append(s, x) # <<>>
  BY AppendProperties
<1>2. Append(s, x) = Append(t, y) <=> s = t /\ x = y
  BY AppendInjective
<1> QED BY <1>1, <1>2

\* find_parameter_asciizz: the search by a full name finds the parameter of that
\* name if the host has it, and no other; when nothing is without a name and no
\* two groups or parameters side by side have one name.
THEOREM FindsByName ==
  ASSUME NEW names \in Names, names # <<>>, \A k \in 1..Len(names) : names[k] # <<>>,
         IsLayout(layout), Apart(layout), present \subseteq Params(layout)
  PROVE  /\ Find(names) # NotFound => Find(names) \in present /\ Path(Find(names)) = names
         /\ \A j \in present : Path(j) = names => Find(names) = j
<1> DEFINE n == Len(names)
           N == Len(layout.groups)
           path == GroupPath(layout)
           Upto(k) == SubSeq(names, 1, k)
<1>1. PICK at \in [0..n -> Int] :
        /\ at = Searching(names, at)
        /\ LET hits == {i \in present : P(i).group = at[Len(names) - 1]
                                        /\ P(i).name = Last(names)} IN
           Find(names) = IF hits = {} THEN NotFound
                         ELSE CHOOSE i \in hits : \A j \in hits : i <= j
  BY FindSteps
<1> DEFINE hits == {i \in present : P(i).group = at[n - 1] /\ P(i).name = names[n]}
<1>2. Find(names) = IF hits = {} THEN NotFound
                    ELSE CHOOSE i \in hits : \A j \in hits : i <= j
  <2>1. Last(names) = names[n]
    BY DEF Last
  <2> QED BY <1>1, <2>1
<1>3. n \in Nat /\ n > 0 /\ N \in Nat
  <2>1. layout.groups \in Seq(Group) /\ names \in Seq(Name)
    BY DEF IsLayout, Names
  <2> QED BY <2>1
<1>4. /\ at[0] = 0
      /\ \A k \in 1..n : at[k] = IF at[k - 1] = -1 \/ ChildOf(at[k - 1], names[k]) = 0 THEN -1
                                 ELSE ChildOf(at[k - 1], names[k])
  <2>1. \A k \in 0..n : at[k] = IF k = 0 THEN 0
                        ELSE IF at[k - 1] = -1 \/ ChildOf(at[k - 1], names[k]) = 0 THEN -1
                        ELSE ChildOf(at[k - 1], names[k])
    BY <1>1 DEF Searching
  <2>2. 0 \in 0..n /\ \A k \in 1..n : k \in 0..n /\ k # 0
    BY <1>3
  <2> QED BY <2>1, <2>2
<1>5. /\ \A g \in 0..N : path[g] \in Names
      /\ path[0] = <<>>
      /\ \A g \in 1..N : /\ path[g] = Append(path[layout.groups[g].parent], layout.groups[g].name)
                         /\ layout.groups[g].parent \in 0..N
                         /\ layout.groups[g].name \in Name
  <2>1. /\ path \in [0..N -> Seq(Name)] /\ path[0] = <<>>
        /\ \A g \in Groups(layout) :
             path[g] = Append(path[layout.groups[g].parent], layout.groups[g].name)
    BY GroupPathSteps
  <2>2. /\ layout.groups \in Seq(Group)
        /\ \A g \in Groups(layout) : layout.groups[g].parent \in 0..(g - 1)
    BY DEF IsLayout
  <2>3. \A g \in 1..N : layout.groups[g] \in Group /\ layout.groups[g].parent \in 0..N
    BY <2>2 DEF Groups
  <2>4. \A x \in Group : x.name \in Name
    BY DEF Group
  <2> QED BY <2>1, <2>3, <2>4 DEF Groups, Names
<1>6. \A j \in present :
        /\ P(j).group \in 0..N /\ P(j).name \in Name
        /\ Path(j) = Append(path[P(j).group], P(j).name)
        /\ j \in Nat /\ j > 0
  <2>1. /\ layout.params \in Seq(Param)
        /\ \A j \in Params(layout) : layout.params[j].group \in 0..N
    BY DEF IsLayout
  <2>2. \A j \in Params(layout) : P(j) \in Param /\ j \in Nat /\ j > 0
    BY <2>1 DEF P, Params
  <2>3. \A x \in Param : x.name \in Name
    BY DEF Param
  <2> QED BY <2>1, <2>2, <2>3 DEF P, Path, FullName
<1> HIDE DEF path
<1>7. /\ Upto(0) = <<>> /\ Upto(n) = names
      /\ \A k \in 1..n : /\ Upto(k - 1) \in Names /\ names[k] \in Name
                         /\ Upto(k) = Append(Upto(k - 1), names[k])
  <2>1. Upto(0) = <<>> /\ Upto(n) = names
    BY <1>3, SubSeqEmpty, SubSeqFull DEF Names
  <2> QED BY <2>1, PathsEnd
<1> HIDE DEF Upto
\* Whatever the search is in has the path it has followed.
<1> DEFINE Sound(k) == at[k] # -1 => at[k] \in 0..N /\ path[at[k]] = Upto(k)
           G == {k \in 0..n : Sound(k)}
<1>8. G = 0..n
  <2>1. 0 \in G
    BY <1>3, <1>4, <1>5, <1>7
  <2>2. ASSUME NEW k \in 1..n, k - 1 \in G PROVE k \in G
    <3> DEFINE g == at[k - 1]
               c == ChildOf(g, names[k])
    <3>1. CASE g = -1 \/ c = 0
      <4>1. at[k] = -1
        BY <1>4, <3>1
      <4> QED BY <1>3, <4>1
    <3>2. CASE g # -1 /\ c # 0
      <4>1. at[k] = c
        BY <1>4, <3>2
      <4>2. g \in 0..N /\ path[g] = Upto(k - 1)
        BY <2>2, <3>2
      <4>3. c \in 1..N /\ layout.groups[c].parent = g /\ layout.groups[c].name = names[k]
        BY <1>3, <3>2, ChildOfGroup
      <4> HIDE DEF g, c
      <4>4. path[c] = Append(path[g], names[k])
        BY <1>5, <4>3
      <4>5. c \in 0..N /\ path[c] = Upto(k)
        BY <1>7, <4>2, <4>3, <4>4
      <4> QED BY <1>3, <4>1, <4>5
    <3> QED BY <3>1, <3>2
  <2>3. G \in SUBSET (0..n)
    OBVIOUS
  <2> HIDE DEF G, n
  <2> QED BY <1>3, <2>1, <2>2, <2>3, EveryLength
\* And a group with that path is where the search is.
<1> DEFINE Complete(k) == \A g \in 0..N : path[g] = Upto(k) => at[k] = g
           H == {k \in 0..n : Complete(k)}
<1>9. H = 0..n
  <2>1. 0 \in H
    <3>1. ASSUME NEW g \in 0..N, path[g] = Upto(0) PROVE g = 0
      <4>1. SUFFICES ASSUME g \in 1..N PROVE FALSE
        BY <1>3
      <4>2. /\ path[g] = Append(path[layout.groups[g].parent], layout.groups[g].name)
            /\ path[layout.groups[g].parent] \in Seq(Name) /\ layout.groups[g].name \in Name
        BY <1>5, <4>1 DEF Names
      <4>3. path[g] # <<>>
        BY <4>2, AppendedNames
      <4> QED BY <1>7, <3>1, <4>3
    <3>2. 0 \in 0..n
      BY <1>3
    <3> QED BY <1>4, <3>1, <3>2
  <2>2. ASSUME NEW k \in 1..n, k - 1 \in H PROVE k \in H
    <3>1. ASSUME NEW g \in 0..N, path[g] = Upto(k) PROVE at[k] = g
      <4> DEFINE up == layout.groups[g].parent
      <4>1. Upto(k) = Append(Upto(k - 1), names[k]) /\ Upto(k - 1) \in Seq(Name) /\ names[k] \in Name
        BY <1>7 DEF Names
      <4>2. path[g] # <<>>
        BY <3>1, <4>1, AppendProperties
      <4>3. g \in 1..N
        BY <1>3, <1>5, <4>2
      <4>4. /\ path[g] = Append(path[up], layout.groups[g].name) /\ up \in 0..N
            /\ path[up] \in Seq(Name) /\ layout.groups[g].name \in Name
        BY <1>5, <4>3 DEF Names
      <4>5. path[up] = Upto(k - 1) /\ layout.groups[g].name = names[k]
        <5>1. Append(path[up], layout.groups[g].name) = Append(Upto(k - 1), names[k])
          BY <3>1, <4>1, <4>4
        <5> HIDE DEF up
        <5> QED BY <4>1, <4>4, <5>1, AppendedNames
      <4>6. at[k - 1] = up
        BY <2>2, <4>4, <4>5
      <4>7. ChildOf(up, names[k]) = g
        <5> DEFINE c == ChildOf(up, names[k])
        <5>1. c # 0
          BY <4>3, <4>5, ChildOfGroup DEF Groups
        <5>2. c \in 1..N /\ layout.groups[c].parent = up /\ layout.groups[c].name = names[k]
          BY <1>3, <5>1, ChildOfGroup
        <5> HIDE DEF c
        <5>3. c = g
          BY <4>3, <4>5, <5>2 DEF Apart, Groups
        <5> QED BY <5>3 DEF c
      <4>8. up # -1 /\ g # 0
        BY <1>3, <4>3, <4>4
      <4> QED BY <1>4, <4>6, <4>7, <4>8
    <3>2. k \in 0..n
      BY <1>3
    <3> QED BY <3>1, <3>2
  <2>3. H \in SUBSET (0..n)
    OBVIOUS
  <2> HIDE DEF H, n
  <2> QED BY <1>3, <2>1, <2>2, <2>3, EveryLength
<1>10. /\ n - 1 \in 0..n /\ n \in 1..n
       /\ names = Append(Upto(n - 1), names[n]) /\ Upto(n - 1) \in Seq(Name) /\ names[n] \in Name
  <2>1. n - 1 \in 0..n /\ n \in 1..n
    BY <1>3
  <2> HIDE DEF n
  <2> QED BY <1>7, <2>1 DEF Names
<1>11. Sound(n - 1) /\ Complete(n - 1)
  BY <1>8, <1>9, <1>10
<1>12. ASSUME NEW i \in hits PROVE Path(i) = names
  <2>1. i \in present /\ P(i).group = at[n - 1] /\ P(i).name = names[n]
    OBVIOUS
  <2>2. at[n - 1] \in 0..N
    BY <1>6, <2>1
  <2>3. at[n - 1] # -1
    BY <1>3, <2>2
  <2>4. path[P(i).group] = Upto(n - 1)
    BY <1>11, <2>1, <2>3
  <2> QED BY <1>6, <1>10, <2>1, <2>4
<1>13. ASSUME NEW j \in present, Path(j) = names PROVE j \in hits
  <2>1. /\ Append(path[P(j).group], P(j).name) = Append(Upto(n - 1), names[n])
        /\ path[P(j).group] \in Seq(Name) /\ P(j).name \in Name /\ P(j).group \in 0..N
    BY <1>5, <1>6, <1>10, <1>13 DEF Names
  <2>2. path[P(j).group] = Upto(n - 1) /\ P(j).name = names[n]
    <3> DEFINE above == path[P(j).group]  own == P(j).name
               before == Upto(n - 1)  last == names[n]
    <3>1. /\ above \in Seq(Name) /\ own \in Name /\ before \in Seq(Name) /\ last \in Name
          /\ Append(above, own) = Append(before, last)
      BY <1>10, <2>1
    <3> HIDE DEF above, own, before, last
    <3>2. above = before /\ own = last
      BY <3>1, AppendedNames
    <3> QED BY <3>2 DEF above, own, before, last
  <2>3. at[n - 1] = P(j).group
    BY <1>11, <2>1, <2>2
  <2> QED BY <2>2, <2>3
<1>14. \A i, j \in hits : i = j
  BY DEF Apart, P
<1>15. hits \subseteq present
  OBVIOUS
<1> HIDE DEF hits
<1>16. ASSUME NEW j \in hits PROVE Find(names) = j
  <2>1. hits # {}
    OBVIOUS
  <2>2. \A i \in hits : j <= i
    BY <1>6, <1>14, <1>15
  <2>3. (CHOOSE i \in hits : \A h \in hits : i <= h) \in hits
    BY <2>2
  <2> QED BY <1>2, <1>14, <2>1, <2>3
<1>17. hits = {} => Find(names) = NotFound
  BY <1>2
<1> QED BY <1>12, <1>13, <1>15, <1>16, <1>17

----------------------------------------------------------------------------
(* Counting the strings of messages. *)

\* A set of positions moved by one has as many.
LEMMA MovedByOne ==
  ASSUME NEW J \in SUBSET Nat, IsFiniteSet(J)
  PROVE  LET moved == {k - 1 : k \in J} IN
         IsFiniteSet(moved) /\ Cardinality(moved) = Cardinality(J)
<1> DEFINE moved == {k - 1 : k \in J}
           f == [k \in J |-> k - 1]
<1>1. f \in [J -> moved] /\ \A a, b \in J : f[a] = f[b] => a = b
  OBVIOUS
<1>2. \A t \in moved : \E k \in J : f[k] = t
  OBVIOUS
<1>3. f \in Bijection(J, moved)
  <2> HIDE DEF f, moved
  <2> QED BY <1>1, <1>2 DEF Bijection, Injection, Surjection, IsInjective
<1> HIDE DEF f, moved
<1>4. ExistsBijection(J, moved)
  BY <1>3 DEF ExistsBijection
<1> QED BY <1>4, FS_Bijection DEF moved

\* The messages with a string, and the postponed ones.
Queued(q) == {k \in 1..Len(q) : q[k].read.type = "string"}
Waiting(p) == {k \in 1..Len(p) : p[k] = "string"}
Whether(b) == IF b THEN 1 ELSE 0

LEMMA StringsFinite ==
  ASSUME NEW S, NEW s \in Seq(S)
  PROVE  /\ IsFiniteSet(Queued(s)) /\ Cardinality(Queued(s)) \in Nat
         /\ IsFiniteSet(Waiting(s)) /\ Cardinality(Waiting(s)) \in Nat
<1>1. IsFiniteSet(1..Len(s))
  BY FS_Interval
<1>2. Queued(s) \subseteq 1..Len(s) /\ Waiting(s) \subseteq 1..Len(s)
  BY DEF Queued, Waiting
<1> QED BY <1>1, <1>2, FS_Subset, FS_CardinalityType

LEMMA StringsAppended ==
  ASSUME NEW S, NEW s \in Seq(S), NEW x \in S
  PROVE  /\ Cardinality(Queued(Append(s, x))) =
              Cardinality(Queued(s)) + Whether(x.read.type = "string")
         /\ Cardinality(Waiting(Append(s, x))) =
              Cardinality(Waiting(s)) + Whether(x = "string")
<1> DEFINE n == Len(s)  t == Append(s, x)
<1>1. /\ n \in Nat /\ Len(t) = n + 1 /\ t[n + 1] = x
      /\ \A k \in 1..n : t[k] = s[k]
  BY AppendProperties
<1>2. n + 1 \notin Queued(s) /\ n + 1 \notin Waiting(s)
  BY <1>1 DEF Queued, Waiting
<1> HIDE DEF t
<1>3. Queued(t) = IF x.read.type = "string" THEN Queued(s) \cup {n + 1} ELSE Queued(s)
  BY <1>1 DEF Queued
<1>4. Waiting(t) = IF x = "string" THEN Waiting(s) \cup {n + 1} ELSE Waiting(s)
  BY <1>1 DEF Waiting
<1>5. /\ IsFiniteSet(Queued(s)) /\ Cardinality(Queued(s)) \in Nat
      /\ IsFiniteSet(Waiting(s)) /\ Cardinality(Waiting(s)) \in Nat
  BY StringsFinite
<1>6. /\ Cardinality(Queued(s) \cup {n + 1}) = Cardinality(Queued(s)) + 1
      /\ Cardinality(Waiting(s) \cup {n + 1}) = Cardinality(Waiting(s)) + 1
  BY <1>2, <1>5, FS_AddElement
<1>7. Cardinality(Queued(t)) = Cardinality(Queued(s)) + Whether(x.read.type = "string")
  BY <1>3, <1>5, <1>6 DEF Whether
<1>8. Cardinality(Waiting(t)) = Cardinality(Waiting(s)) + Whether(x = "string")
  BY <1>4, <1>5, <1>6 DEF Whether
<1> QED BY <1>7, <1>8 DEF t

LEMMA StringsTaken ==
  ASSUME NEW S, NEW s \in Seq(S), s # <<>>
  PROVE  Cardinality(Queued(s)) =
           Cardinality(Queued(Tail(s))) + Whether(Head(s).read.type = "string")
<1> DEFINE J == Queued(s) \ {1}  t == Tail(s)
<1>1. /\ Len(s) \in Nat /\ Len(s) >= 1 /\ Len(t) = Len(s) - 1 /\ Head(s) = s[1]
      /\ \A k \in 1..Len(t) : t[k] = s[k + 1]
  BY HeadTailProperties
<1> HIDE DEF t
<1>2. Queued(t) = {k - 1 : k \in J}
  <2>1. ASSUME NEW k \in Queued(t) PROVE k + 1 \in J /\ (k + 1) - 1 = k
    BY <1>1 DEF Queued
  <2>2. ASSUME NEW k \in J PROVE k - 1 \in Queued(t)
    <3>1. k \in 2..Len(s) /\ s[k].read.type = "string"
      BY <1>1 DEF Queued
    <3>2. k - 1 \in 1..Len(t) /\ t[k - 1] = s[k]
      BY <1>1, <3>1
    <3> QED BY <3>1, <3>2 DEF Queued
  <2> HIDE DEF J
  <2> QED BY <2>1, <2>2
<1>3. IsFiniteSet(Queued(s)) /\ Cardinality(Queued(s)) \in Nat
  BY StringsFinite
<1>4. /\ IsFiniteSet(J)
      /\ Cardinality(J) = IF 1 \in Queued(s) THEN Cardinality(Queued(s)) - 1
                          ELSE Cardinality(Queued(s))
  BY <1>3, FS_RemoveElement
<1>5. J \in SUBSET Nat
  BY <1>1 DEF Queued
<1>6. 1 \in Queued(s) <=> Head(s).read.type = "string"
  BY <1>1 DEF Queued
<1> HIDE DEF J
<1>7. Cardinality(Queued(t)) = Cardinality(J)
  BY <1>2, <1>4, <1>5, MovedByOne
<1>8. Cardinality(Queued(s)) = Cardinality(Queued(t)) + Whether(Head(s).read.type = "string")
  BY <1>3, <1>4, <1>6, <1>7 DEF Whether
<1> QED BY <1>8 DEF t

----------------------------------------------------------------------------
(* The chunks of set_parameter and the drain. *)

\* The kinds of chunks that are out and not lost, one by one.
Balance ==
  /\ out["messages"] - lost["messages"] = Len(queue)
  /\ out["strings"] - lost["strings"] =
       Cardinality(Queued(queue)) + Cardinality(Waiting(postponed))
  /\ out["changes"] - lost["changes"] = Len(queue) + Len(postponed)
  /\ out["names"] - lost["names"] = Len(queue) + Len(postponed)

ChunkInv ==
  /\ out \in [Kinds -> Int] /\ lost \in [Kinds -> Int]
  /\ (\E S : queue \in Seq(S)) /\ (\E S : postponed \in Seq(S))
  /\ draining => queue # <<>>
  /\ Balance

LEMMA BalanceAccounts ==
  ASSUME out \in [Kinds -> Int], lost \in [Kinds -> Int], Balance
  PROVE  ChunksAccounted
<1> DEFINE owed == [k \in Kinds |->
             CASE k = "messages" -> Len(queue)
               [] k = "strings" -> Cardinality(Queued(queue)) + Cardinality(Waiting(postponed))
               [] OTHER -> Len(queue) + Len(postponed)]
<1>1. ChunksAccounted <=> Minus(out, lost) = owed
  BY DEF ChunksAccounted, Queued, Waiting
<1>2. ASSUME NEW k \in Kinds PROVE out[k] - lost[k] = owed[k]
  <2>1. k \in {"messages", "changes", "names", "strings"}
    BY DEF Kinds
  <2> QED BY <2>1 DEF Balance
<1> HIDE DEF owed
<1>3. owed = [k \in Kinds |-> owed[k]]
  BY DEF owed
<1>4. Minus(out, lost) = [k \in Kinds |-> out[k] - lost[k]]
  BY DEF Minus
<1>5. Minus(out, lost) = owed
  BY <1>2, <1>3, <1>4
<1> QED BY <1>1, <1>5

\* A bag of chunks, and what is added and taken away.
LEMMA ChunkCounts ==
  /\ None \in [Kinds -> Int] /\ \A k \in Kinds : None[k] = 0
  /\ \A ks : One(ks) \in [Kinds -> Int]
             /\ \A k \in Kinds : One(ks)[k] = Whether(k \in ks)
  /\ \A a, b \in [Kinds -> Int] :
       /\ Plus(a, b) \in [Kinds -> Int] /\ \A k \in Kinds : Plus(a, b)[k] = a[k] + b[k]
       /\ Minus(a, b) \in [Kinds -> Int] /\ \A k \in Kinds : Minus(a, b)[k] = a[k] - b[k]
<1>1. None \in [Kinds -> Int] /\ \A k \in Kinds : None[k] = 0
  BY DEF None
<1>2. \A ks : One(ks) \in [Kinds -> Int] /\ \A k \in Kinds : One(ks)[k] = Whether(k \in ks)
  BY DEF One, Whether
<1>3. ASSUME NEW a \in [Kinds -> Int], NEW b \in [Kinds -> Int]
      PROVE  /\ Plus(a, b) \in [Kinds -> Int] /\ \A k \in Kinds : Plus(a, b)[k] = a[k] + b[k]
             /\ Minus(a, b) \in [Kinds -> Int] /\ \A k \in Kinds : Minus(a, b)[k] = a[k] - b[k]
  BY DEF Plus, Minus
<1> QED BY <1>1, <1>2, <1>3

\* What a call that fails keeps is the first message, once there was one.
LEMMA FailureKeeps ==
  ASSUME NEW at \in {"name", "message", "change", "value"}
  PROVE  LET kept == Minus(SetTook(at), SetGivesBack(at)) IN
         /\ kept \in [Kinds -> Int]
         /\ \A k \in Kinds :
              kept[k] = One(IF at \in {"change", "value"} THEN {"messages"} ELSE {})[k]
<1> DEFINE took == SetTook(at)  back == SetGivesBack(at)
<1>1. /\ took \in [Kinds -> Int] /\ back \in [Kinds -> Int]
      /\ \A k \in Kinds : took[k] - back[k] = Whether(at \in {"change", "value"} /\ k = "messages")
  <2>1. CASE at = "name"
    <3>1. took = None /\ back = One({})
      BY <2>1 DEF SetTook, SetGivesBack
    <3> HIDE DEF took, back
    <3> QED BY <2>1, <3>1, ChunkCounts DEF Whether
  <2>2. CASE at = "message"
    <3>1. took = One({"names"}) /\ back = One({"names"})
      BY <2>2 DEF SetTook, SetGivesBack
    <3> HIDE DEF took, back
    <3> QED BY <2>2, <3>1, ChunkCounts DEF Whether
  <2>3. CASE at = "change"
    <3>1. /\ took = Plus(One({"names", "messages"}), One({"messages"}))
          /\ back = One({"messages", "names"})
      BY <2>3 DEF SetTook, SetGivesBack
    <3> HIDE DEF took, back
    <3> QED BY <2>3, <3>1, ChunkCounts DEF Whether
  <2>4. CASE at = "value"
    <3>1. /\ took = Plus(One({"names", "messages", "changes"}), One({"messages"}))
          /\ back = One({"messages", "changes", "names"})
      BY <2>4 DEF SetTook, SetGivesBack
    <3> HIDE DEF took, back
    <3> QED BY <2>4, <3>1, ChunkCounts DEF Whether
  <2> QED BY <2>1, <2>2, <2>3, <2>4
<1> HIDE DEF took, back
<1>2. /\ Minus(took, back) \in [Kinds -> Int]
      /\ \A k \in Kinds : Minus(took, back)[k] = Whether(at \in {"change", "value"} /\ k = "messages")
  BY <1>1, ChunkCounts
<1>3. \A k \in Kinds : One(IF at \in {"change", "value"} THEN {"messages"} ELSE {})[k]
                         = Whether(at \in {"change", "value"} /\ k = "messages")
  BY ChunkCounts DEF Whether
<1> QED BY <1>2, <1>3 DEF took, back

\* What leaves the chunks alone.
LEMMA ChunksLeft ==
  ASSUME ChunkInv, UNCHANGED <<queue, postponed, out, lost>>, draining' => queue # <<>>
  PROVE  ChunkInv'
BY DEF ChunkInv, Balance

\* The chunks of a call of set_parameter.
LEMMA ChunksOfSet ==
  ASSUME ChunkInv, NEW entry, NEW text, SetParameter(entry, text)
  PROVE  ChunkInv'
<1>1. /\ out \in [Kinds -> Int] /\ lost \in [Kinds -> Int] /\ Balance
      /\ UNCHANGED <<postponed, draining>> /\ draining = FALSE
  <2>1. UNCHANGED <<postponed, draining>> /\ ~draining
    BY DEF SetParameter
  <2>2. draining => FALSE
    BY <2>1
  <2> QED BY <2>1, <2>2 DEF ChunkInv, SetParameter
<1>2. CASE SetFails(text)
  <2>1. PICK at \in {"name", "message", "change", "value"} :
          /\ out' = Plus(out, Minus(SetTook(at), SetGivesBack(at)))
          /\ lost' = Plus(lost, One(IF at \in {"change", "value"} THEN {"messages"} ELSE {}))
    BY <1>2 DEF SetFails
  <2> DEFINE kept == Minus(SetTook(at), SetGivesBack(at))
             gone == One(IF at \in {"change", "value"} THEN {"messages"} ELSE {})
  <2>2. kept \in [Kinds -> Int] /\ gone \in [Kinds -> Int] /\ \A k \in Kinds : kept[k] = gone[k]
    BY FailureKeeps, ChunkCounts
  <2> HIDE DEF kept, gone
  <2>3. /\ out' \in [Kinds -> Int] /\ lost' \in [Kinds -> Int]
        /\ \A k \in Kinds : out'[k] = out[k] + kept[k] /\ lost'[k] = lost[k] + gone[k]
    BY <1>1, <2>1, <2>2, ChunkCounts DEF kept, gone
  <2>4. \A k \in Kinds : out'[k] - lost'[k] = out[k] - lost[k]
    BY <1>1, <2>2, <2>3
  <2>5. queue' = queue
    BY <1>2 DEF SetFails
  <2>6. {"messages", "strings", "changes", "names"} \subseteq Kinds
    BY DEF Kinds
  <2>7. Balance'
    BY <1>1, <2>4, <2>5, <2>6 DEF Balance
  <2> QED BY <1>1, <2>3, <2>5, <2>7 DEF ChunkInv
<1>3. CASE SetBreaks
  BY <1>1, <1>3, ChunksLeft DEF SetBreaks
<1>4. CASE SetQueued(entry, text)
  <2> DEFINE m == [names |-> Unescape(entry.name), read |-> Read(text), path |-> entry.path,
                   meaning |-> IF text = entry.text THEN entry.meaning ELSE Anything]
             taken == {"names", "messages", "changes"}
                        \cup IF Read(text).type = "string" THEN {"strings"} ELSE {}
  <2>1. /\ queue' = Append(queue, m)
        /\ out' = Plus(Plus(out, One({"messages"})), One(taken))
        /\ lost' = Plus(lost, One({"messages"}))
    BY <1>4 DEF SetQueued
  <2>2. m.read = Read(text)
    OBVIOUS
  <2> HIDE DEF m
  <2>3. PICK S0 : queue \in Seq(S0)
    BY DEF ChunkInv
  <2> DEFINE S == S0 \cup {m}
  <2>4. queue \in Seq(S) /\ m \in S
    BY <2>3
  <2> HIDE DEF S
  <2>5. PICK T : postponed \in Seq(T)
    BY DEF ChunkInv
  <2>6. /\ queue' \in Seq(S) /\ Len(queue') = Len(queue) + 1 /\ Len(queue) \in Nat
        /\ Cardinality(Queued(queue')) =
             Cardinality(Queued(queue)) + Whether(Read(text).type = "string")
    BY <2>1, <2>2, <2>4, AppendProperties, StringsAppended
  <2>7. /\ Cardinality(Queued(queue)) \in Nat /\ Cardinality(Waiting(postponed)) \in Nat
        /\ Len(postponed) \in Nat
    BY <2>4, <2>5, StringsFinite
  <2>8. /\ "messages" \in taken /\ "names" \in taken /\ "changes" \in taken
        /\ "strings" \in taken <=> Read(text).type = "string"
    OBVIOUS
  <2> HIDE DEF taken
  <2>9. {"messages", "strings", "changes", "names"} \subseteq Kinds
    BY DEF Kinds
  <2>10. /\ out' \in [Kinds -> Int] /\ lost' \in [Kinds -> Int]
         /\ \A k \in Kinds : /\ out'[k] = (out[k] + Whether(k \in {"messages"})) + Whether(k \in taken)
                             /\ lost'[k] = lost[k] + Whether(k \in {"messages"})
    <3>1. One({"messages"}) \in [Kinds -> Int] /\ One(taken) \in [Kinds -> Int]
      BY ChunkCounts
    <3>2. /\ Plus(out, One({"messages"})) \in [Kinds -> Int]
          /\ \A k \in Kinds : Plus(out, One({"messages"}))[k] = out[k] + Whether(k \in {"messages"})
      BY <1>1, <3>1, ChunkCounts
    <3>3. /\ out' \in [Kinds -> Int]
          /\ \A k \in Kinds : out'[k] = Plus(out, One({"messages"}))[k] + Whether(k \in taken)
      BY <2>1, <3>1, <3>2, ChunkCounts
    <3>4. /\ lost' \in [Kinds -> Int]
          /\ \A k \in Kinds : lost'[k] = lost[k] + Whether(k \in {"messages"})
      <4> DEFINE one == One({"messages"})
      <4>1. one \in [Kinds -> Int] /\ \A k \in Kinds : one[k] = Whether(k \in {"messages"})
        BY ChunkCounts
      <4>2. lost' = Plus(lost, one) /\ lost \in [Kinds -> Int]
        BY <1>1, <2>1
      <4> HIDE DEF one
      <4> QED BY <4>1, <4>2, ChunkCounts
    <3> QED BY <3>2, <3>3, <3>4
  <2>11. \A k \in Kinds : out[k] \in Int /\ lost[k] \in Int
    BY <1>1
  <2>12. Balance'
    <3>1. \A k \in Kinds : out'[k] - lost'[k] = (out[k] - lost[k]) + Whether(k \in taken)
      BY <2>10, <2>11 DEF Whether
    <3>2. postponed' = postponed
      BY <1>1
    <3>3. /\ out'["messages"] - lost'["messages"] = Len(queue) + 1
          /\ out'["names"] - lost'["names"] = Len(queue) + Len(postponed) + 1
          /\ out'["changes"] - lost'["changes"] = Len(queue) + Len(postponed) + 1
      BY <1>1, <2>7, <2>6, <2>8, <2>9, <3>1 DEF Balance, Whether
    <3>4. out'["strings"] - lost'["strings"] =
            (Cardinality(Queued(queue)) + Cardinality(Waiting(postponed)))
              + Whether(Read(text).type = "string")
      BY <1>1, <2>8, <2>9, <3>1 DEF Balance, Whether
    <3>5. Whether(Read(text).type = "string") \in Int
      BY DEF Whether
    <3>6. out'["strings"] - lost'["strings"] =
            Cardinality(Queued(queue')) + Cardinality(Waiting(postponed'))
      BY <2>6, <2>7, <3>2, <3>4, <3>5
    <3> QED BY <2>6, <2>7, <3>2, <3>3, <3>6 DEF Balance
  <2>13. \E X : queue' \in Seq(X)
    BY <2>6
  <2>14. \E X : postponed' \in Seq(X)
    BY <1>1, <2>5
  <2> QED BY <1>1, <2>10, <2>12, <2>13, <2>14 DEF ChunkInv
<1> QED BY <1>2, <1>3, <1>4 DEF SetParameter

\* The chunks of a message that is applied or postponed.
LEMMA ChunksOfMessage ==
  ASSUME ChunkInv, RealtimeMessage
  PROVE  ChunkInv'
<1> DEFINE m == Head(queue)
           isString == m.read.type = "string"
<1>1. /\ out \in [Kinds -> Int] /\ lost \in [Kinds -> Int] /\ Balance
      /\ queue # <<>> /\ queue' = Tail(queue) /\ draining' = (Len(queue) > 1)
      /\ IF Find(m.names) = NotFound THEN Postpone(m) ELSE Applied(Find(m.names), m)
  BY DEF ChunkInv, RealtimeMessage
<1>2. PICK S : queue \in Seq(S)
  BY DEF ChunkInv
<1>3. PICK T0 : postponed \in Seq(T0)
  BY DEF ChunkInv
<1> DEFINE T == T0 \cup {m.read.type}
<1>4. postponed \in Seq(T) /\ m.read.type \in T
  BY <1>3
<1> HIDE DEF T, m
<1>5. /\ queue' \in Seq(S) /\ Len(queue') = Len(queue) - 1 /\ Len(queue) \in Nat
      /\ Cardinality(Queued(queue)) = Cardinality(Queued(queue')) + Whether(isString)
      /\ Cardinality(Queued(queue')) \in Nat
  <2>1. Tail(queue) \in Seq(S) /\ Len(Tail(queue)) = Len(queue) - 1 /\ Len(queue) \in Nat
    BY <1>1, <1>2, HeadTailProperties
  <2>2. Cardinality(Queued(queue)) = Cardinality(Queued(Tail(queue))) + Whether(isString)
    BY <1>1, <1>2, StringsTaken DEF m
  <2>3. Cardinality(Queued(Tail(queue))) \in Nat
    BY <2>1, StringsFinite
  <2> HIDE DEF isString
  <2> QED BY <1>1, <2>1, <2>2, <2>3
<1>6. draining' => queue' # <<>>
  <2>1. Len(<<>>) = 0
    OBVIOUS
  <2>2. draining' => Len(queue) > 1
    BY <1>1, Zenon
  <2>3. Len(queue) > 1 => Len(queue') # 0
    <3> DEFINE before == Len(queue)
               after == Len(queue')
    <3>1. after = before - 1 /\ before \in Nat
      BY <1>5
    <3> HIDE DEF before, after
    <3>2. before > 1 => after # 0
      BY <3>1
    <3> QED BY <3>2 DEF before, after
  <2> QED BY <2>1, <2>2, <2>3, Zenon
<1> DEFINE strings == Cardinality(Queued(queue)) + Cardinality(Waiting(postponed))
<1>13. /\ out["messages"] - lost["messages"] = Len(queue)
       /\ out["strings"] - lost["strings"] = strings
       /\ out["changes"] - lost["changes"] = Len(queue) + Len(postponed)
       /\ out["names"] - lost["names"] = Len(queue) + Len(postponed)
  BY <1>1 DEF Balance
<1>7. Cardinality(Waiting(postponed)) \in Nat /\ Len(postponed) \in Nat
  BY <1>4, StringsFinite
<1>8. {"messages", "strings", "changes", "names"} \subseteq Kinds
  BY DEF Kinds
<1>9. \A k \in Kinds : out[k] \in Int /\ lost[k] \in Int
  BY <1>1
<1>10. \E X : queue' \in Seq(X)
  BY <1>5
<1>11. CASE Postpone(m)
  <2>1. /\ postponed' = Append(postponed, m.read.type) /\ lost' = lost
        /\ out' = Minus(out, One({"messages"}))
    BY <1>11 DEF Postpone
  <2>2. /\ postponed' \in Seq(T) /\ Len(postponed') = Len(postponed) + 1
        /\ Cardinality(Waiting(postponed')) = Cardinality(Waiting(postponed)) + Whether(isString)
    BY <1>4, <2>1, AppendProperties, StringsAppended
  <2>3. /\ out' \in [Kinds -> Int]
        /\ \A k \in Kinds : out'[k] = out[k] - Whether(k \in {"messages"})
    <3> DEFINE one == One({"messages"})
    <3>1. one \in [Kinds -> Int] /\ \A k \in Kinds : one[k] = Whether(k \in {"messages"})
      BY ChunkCounts
    <3>2. out' = Minus(out, one) /\ out \in [Kinds -> Int]
      BY <1>1, <2>1
    <3> HIDE DEF one
    <3> QED BY <3>1, <3>2, ChunkCounts
  <2>4. \A k \in Kinds : out'[k] - lost'[k] = (out[k] - lost[k]) - Whether(k \in {"messages"})
    BY <1>9, <2>1, <2>3 DEF Whether
  <2>5. /\ out'["messages"] - lost'["messages"] = Len(queue) - 1
        /\ out'["names"] - lost'["names"] = Len(queue) + Len(postponed)
        /\ out'["changes"] - lost'["changes"] = Len(queue) + Len(postponed)
    BY <1>13, <1>8, <2>4 DEF Whether
  <2>6. out'["strings"] - lost'["strings"] =
          Cardinality(Queued(queue)) + Cardinality(Waiting(postponed))
    BY <1>5, <1>7, <1>13, <1>8, <2>4 DEF Whether
  <2>7. Whether(isString) \in Int
    BY DEF Whether
  <2> HIDE DEF isString
  <2>8. out'["strings"] - lost'["strings"] =
          Cardinality(Queued(queue')) + Cardinality(Waiting(postponed'))
    BY <1>5, <1>7, <2>2, <2>6, <2>7
  <2>9. Balance'
    BY <1>5, <1>7, <2>2, <2>5, <2>8 DEF Balance
  <2>10. \E X : postponed' \in Seq(X)
    BY <2>2
  <2> QED BY <1>1, <1>6, <1>10, <2>1, <2>3, <2>9, <2>10 DEF ChunkInv
<1>12. CASE Applied(Find(m.names), m)
  <2> DEFINE frees == FreesString(P(Find(m.names)), m.read)
             back == {"messages", "changes", "names"} \cup IF frees THEN {"strings"} ELSE {}
             gone == IF isString /\ ~frees THEN {"strings"} ELSE {}
  <2>1. /\ postponed' = postponed
        /\ out' = Minus(out, One(back)) /\ lost' = Plus(lost, One(gone))
    BY <1>12 DEF Applied
  <2>2. frees => isString
    BY DEF FreesString
  <2> HIDE DEF frees, isString
  <2>3. /\ "messages" \in back /\ "names" \in back /\ "changes" \in back
        /\ "strings" \in back <=> frees
        /\ "messages" \notin gone /\ "names" \notin gone /\ "changes" \notin gone
        /\ "strings" \in gone <=> isString /\ ~frees
    OBVIOUS
  <2> HIDE DEF back, gone
  <2>4. out' \in [Kinds -> Int] /\ \A k \in Kinds : out'[k] = out[k] - Whether(k \in back)
    <3> DEFINE one == One(back)
    <3>1. one \in [Kinds -> Int] /\ \A k \in Kinds : one[k] = Whether(k \in back)
      BY ChunkCounts
    <3>2. out' = Minus(out, one) /\ out \in [Kinds -> Int]
      BY <1>1, <2>1
    <3> HIDE DEF one
    <3> QED BY <3>1, <3>2, ChunkCounts
  <2>5. lost' \in [Kinds -> Int] /\ \A k \in Kinds : lost'[k] = lost[k] + Whether(k \in gone)
    <3> DEFINE one == One(gone)
    <3>1. one \in [Kinds -> Int] /\ \A k \in Kinds : one[k] = Whether(k \in gone)
      BY ChunkCounts
    <3>2. lost' = Plus(lost, one) /\ lost \in [Kinds -> Int]
      BY <1>1, <2>1
    <3> HIDE DEF one
    <3> QED BY <3>1, <3>2, ChunkCounts
  <2>6. \A k \in Kinds : out'[k] - lost'[k] =
                           (out[k] - lost[k]) - (Whether(k \in back) + Whether(k \in gone))
    BY <1>9, <2>4, <2>5 DEF Whether
  <2>7. /\ out'["messages"] - lost'["messages"] = Len(queue) - 1
        /\ out'["names"] - lost'["names"] = Len(queue) + Len(postponed) - 1
        /\ out'["changes"] - lost'["changes"] = Len(queue) + Len(postponed) - 1
    BY <1>13, <1>8, <2>3, <2>6 DEF Whether
  <2>8. out'["strings"] - lost'["strings"] =
          (Cardinality(Queued(queue)) + Cardinality(Waiting(postponed))) - Whether(isString)
    BY <1>13, <1>8, <2>2, <2>3, <2>6 DEF Whether
  <2>9. Whether(isString) \in Int
    BY DEF Whether
  <2>10. out'["strings"] - lost'["strings"] =
           Cardinality(Queued(queue')) + Cardinality(Waiting(postponed'))
    BY <1>5, <1>7, <2>1, <2>8, <2>9
  <2>11. Balance'
    BY <1>5, <1>7, <2>1, <2>7, <2>10 DEF Balance
  <2>12. \E X : postponed' \in Seq(X)
    BY <1>4, <2>1
  <2> QED BY <1>1, <1>6, <1>10, <2>4, <2>5, <2>11, <2>12 DEF ChunkInv
<1> QED BY <1>1, <1>11, <1>12

\* A list of nothing has no strings.
LEMMA NoStrings ==
  /\ Cardinality(Queued(<<>>)) = 0 /\ Cardinality(Waiting(<<>>)) = 0
  /\ <<>> \in Seq({}) /\ Len(<<>>) = 0
<1>1. Queued(<<>>) = {} /\ Waiting(<<>>) = {}
  BY DEF Queued, Waiting
<1> QED BY <1>1, FS_EmptySet

\* Nor does a session have any chunks when it begins.
LEMMA ChunksAtFirst ==
  ASSUME Init
  PROVE  ChunkInv
<1>1. queue = <<>> /\ postponed = <<>> /\ draining = FALSE /\ out = None /\ lost = None
  BY DEF Init
<1>2. {"messages", "strings", "changes", "names"} \subseteq Kinds
  BY DEF Kinds
<1>3. Balance
  BY <1>1, <1>2, NoStrings, ChunkCounts DEF Balance
<1> QED BY <1>1, <1>3, NoStrings, ChunkCounts DEF ChunkInv

LEMMA ChunkStep ==
  ASSUME ChunkInv, [Next]_vars
  PROVE  ChunkInv'
<1>1. CASE GetParameters
  BY <1>1, ChunksLeft DEF GetParameters, ChunkInv
<1>2. CASE \E entry \in saved : \E text \in {entry.text} \cup Foreign : SetParameter(entry, text)
  BY <1>2, ChunksOfSet
<1>3. CASE RealtimeEnter
  BY <1>3, ChunksLeft DEF RealtimeEnter
<1>4. CASE RealtimeMessage
  BY <1>4, ChunksOfMessage
<1>5. CASE \E i \in present : \E v \in Holdable(P(i)) : ChangeRt(i, v)
  BY <1>5, ChunksLeft DEF ChangeRt, ChunkInv
<1>6. CASE \E l \in Layouts : NewSession(l)
  <2>1. queue' = <<>> /\ postponed' = <<>> /\ draining' = FALSE /\ out' = None /\ lost' = None
    BY <1>6 DEF NewSession
  <2>2. {"messages", "strings", "changes", "names"} \subseteq Kinds
    BY DEF Kinds
  <2>3. Balance'
    BY <2>1, <2>2, NoStrings, ChunkCounts DEF Balance
  <2> QED BY <2>1, <2>3, NoStrings, ChunkCounts DEF ChunkInv
<1>7. CASE UNCHANGED vars
  BY <1>7, ChunksLeft DEF vars, ChunkInv
<1> QED BY <1>1, <1>2, <1>3, <1>4, <1>5, <1>6, <1>7 DEF Next

\* Every chunk set_parameter takes is with a message, with a postponed change, or
\* among those known to be lost, whichever step of a call fails.
THEOREM ChunksAreAccounted == Spec => []ChunksAccounted
<1>1. Init => ChunkInv
  BY ChunksAtFirst
<1>2. ChunkInv /\ [Next]_vars => ChunkInv'
  BY ChunkStep
<1>3. ChunkInv => ChunksAccounted
  BY BalanceAccounts DEF ChunkInv
<1>4. QED
  BY <1>1, <1>2, <1>3, PTL DEF Spec


----------------------------------------------------------------------------
(* What the state is made of, whatever the versions of the plugin are like. *)

StateInv ==
  /\ layout \in Layouts /\ present \subseteq Params(layout)
  /\ DOMAIN value = Params(layout) /\ DOMAIN expect = Params(layout)
  /\ draining \in BOOLEAN /\ broken \in {"no", "message", "label"}
  /\ locale \in {"user", "POSIX"}
  /\ calls \in 0..MaxCalls /\ Len(queue) + Len(postponed) <= calls

\* A list from whose front one is taken, and to whose end one is put.
LEMMA ListLengths ==
  ASSUME NEW s, \E S : s \in Seq(S)
  PROVE  /\ Len(s) \in Nat /\ \A x : Len(Append(s, x)) = Len(s) + 1
         /\ \A x : \A k \in 1..(Len(s) + 1) :
              Append(s, x)[k] = IF k <= Len(s) THEN s[k] ELSE x
         /\ s # <<>> => /\ Len(s) > 0 /\ Head(s) = s[1]
                        /\ Len(Tail(s)) = Len(s) - 1
                        /\ \A k \in 1..(Len(s) - 1) : Tail(s)[k] = s[k + 1]
<1>1. PICK S : s \in Seq(S)
  OBVIOUS
<1>2. ASSUME NEW x
      PROVE  /\ Len(Append(s, x)) = Len(s) + 1
             /\ \A k \in 1..(Len(s) + 1) : Append(s, x)[k] = IF k <= Len(s) THEN s[k] ELSE x
  <2> DEFINE T == S \cup {x}
  <2>1. s \in Seq(T) /\ x \in T
    BY <1>1
  <2> HIDE DEF T
  <2>2. /\ Len(Append(s, x)) = Len(s) + 1
        /\ \A k \in 1..Len(s) : Append(s, x)[k] = s[k]
        /\ Append(s, x)[Len(s) + 1] = x
    BY <2>1, AppendProperties
  <2>3. Len(s) \in Nat
    BY <2>1
  <2> QED BY <2>2, <2>3
<1>3. ASSUME s # <<>>
      PROVE  /\ Len(s) > 0 /\ Head(s) = s[1] /\ Len(Tail(s)) = Len(s) - 1
             /\ \A k \in 1..(Len(s) - 1) : Tail(s)[k] = s[k + 1]
  <2>1. Len(s) > 0
    BY <1>1, <1>3, EmptySeq
  <2> QED BY <1>1, <1>3, <2>1, HeadTailProperties
<1> QED BY <1>1, <1>2, <1>3

LEMMA StateAtFirst ==
  ASSUME Init
  PROVE  StateInv
<1>1. /\ layout \in Layouts /\ present = Fresh(layout).present /\ value = Fresh(layout).value
      /\ queue = <<>> /\ postponed = <<>> /\ draining = FALSE /\ locale = "user"
      /\ broken = "no" /\ calls = 0
      /\ expect = [i \in Params(layout) |-> Meaning(P(i), value[i])]
  BY DEF Init
<1>2. /\ Fresh(layout).present \subseteq Params(layout)
      /\ DOMAIN Fresh(layout).value = Params(layout)
  BY DEF Fresh
<1>3. DOMAIN expect = Params(layout)
  BY <1>1
<1>4. MaxCalls \in Nat
  BY ParamTextAssumption
<1>5. calls \in 0..MaxCalls /\ Len(queue) + Len(postponed) <= calls
  BY <1>1, <1>4, NoStrings
<1> QED BY <1>1, <1>2, <1>3, <1>5 DEF StateInv

LEMMA StateStep ==
  ASSUME StateInv, ChunkInv, [Next]_vars
  PROVE  StateInv'
<1> DEFINE waiting == Len(queue) + Len(postponed)
<1>1. /\ layout \in Layouts /\ present \subseteq Params(layout)
      /\ DOMAIN value = Params(layout) /\ DOMAIN expect = Params(layout)
      /\ draining \in BOOLEAN /\ broken \in {"no", "message", "label"}
      /\ locale \in {"user", "POSIX"}
      /\ calls \in 0..MaxCalls /\ waiting <= calls
  BY DEF StateInv
<1>2. (\E S : queue \in Seq(S)) /\ (\E S : postponed \in Seq(S))
  BY DEF ChunkInv
<1>3. Len(queue) \in Nat /\ Len(postponed) \in Nat /\ MaxCalls \in Nat
  BY <1>2, ListLengths, ParamTextAssumption
<1>4. CASE GetParameters
  <2>1. PICK failed \in SUBSET present :
          LET told == Told(failed) IN
          IF \E i \in told : ~Labelled(i)
            THEN broken' = "label" /\ UNCHANGED saved
          ELSE IF \E i \in told : NameBuffer(i).room < 0
            THEN broken' = "buffer" /\ UNCHANGED saved
          ELSE saved' = {Entry(i) : i \in told} /\ UNCHANGED broken
    BY <1>4 DEF GetParameters
  <2>2. ASSUME NEW i \in Told(failed) PROVE ~(NameBuffer(i).room < 0)
    <3>1. i \in Params(layout) /\ IsLayout(layout)
      BY <1>1, ParamTextAssumption DEF Told
    <3>2. NameBuffer(i) \in Buffers
      BY <3>1, NamesComeBack
    <3>3. \A b \in Buffers : ~(b.room < 0)
      BY DEF Buffers
    <3> QED BY <3>2, <3>3
  <2>3. broken' \in {"label", broken}
    BY <2>1, <2>2
  <2>4. locale' \in {"user", "POSIX"}
    BY <1>1, <1>4 DEF GetParameters
  <2>5. UNCHANGED <<layout, present, value, queue, postponed, draining, calls, expect>>
    BY <1>4 DEF GetParameters
  <2> QED BY <1>1, <2>3, <2>4, <2>5 DEF StateInv
<1>5. ASSUME NEW entry, NEW text, SetParameter(entry, text) PROVE StateInv'
  <2>1. /\ calls < MaxCalls /\ calls' = calls + 1
        /\ UNCHANGED <<layout, present, value, saved, postponed, draining, expect>>
    BY <1>5 DEF SetParameter
  <2>2. locale' \in {"user", "POSIX"}
    BY <1>1, <1>5 DEF SetParameter
  <2>3. Len(queue') \in {Len(queue), Len(queue) + 1} /\ broken' \in {broken, "message"}
    <3>1. CASE SetFails(text)
      BY <3>1 DEF SetFails
    <3>2. CASE SetBreaks
      BY <3>2 DEF SetBreaks
    <3>3. CASE SetQueued(entry, text)
      <4>1. (\E x : queue' = Append(queue, x)) /\ broken' = broken
        BY <3>3 DEF SetQueued
      <4> QED BY <1>2, <4>1, ListLengths
    <3> QED BY <1>5, <3>1, <3>2, <3>3 DEF SetParameter
  <2>4. calls' \in 0..MaxCalls /\ Len(queue') + Len(postponed') <= calls'
    BY <1>1, <1>3, <2>1, <2>3
  <2> QED BY <1>1, <2>1, <2>2, <2>3, <2>4 DEF StateInv
<1>6. CASE RealtimeEnter
  <2>1. /\ draining' = TRUE
        /\ UNCHANGED <<layout, present, value, queue, postponed, locale, broken, calls, expect>>
    BY <1>6 DEF RealtimeEnter
  <2> QED BY <1>1, <2>1 DEF StateInv
<1>7. CASE RealtimeMessage
  <2> DEFINE m == Head(queue)
  <2>1. /\ queue' = Tail(queue) /\ UNCHANGED <<layout, saved, locale, broken, calls>>
        /\ IF Find(m.names) = NotFound THEN Postpone(m) ELSE Applied(Find(m.names), m)
        /\ draining' = (Len(queue) > 1) /\ DOMAIN expect' = Params(layout)
    BY <1>7 DEF RealtimeMessage
  <2>2. queue # <<>>
    BY <1>7 DEF ChunkInv, RealtimeMessage
  <2>3. Len(queue') = Len(queue) - 1
    BY <1>2, <2>1, <2>2, ListLengths
  <2>4. /\ DOMAIN value' = DOMAIN value /\ present' \subseteq Params(layout)
        /\ Len(postponed') \in {Len(postponed), Len(postponed) + 1}
    <3>1. CASE Postpone(m)
      <4>1. /\ postponed' = Append(postponed, m.read.type) /\ value' = value
            /\ present' = present
        BY <3>1 DEF Postpone
      <4> QED BY <1>1, <1>2, <4>1, ListLengths
    <3>2. ASSUME NEW i, Applied(i, m)
          PROVE  /\ DOMAIN value' = DOMAIN value /\ present' \subseteq Params(layout)
                 /\ postponed' = postponed
      <4>1. postponed' = postponed
        BY <3>2 DEF Applied
      <4>2. CASE UNCHANGED <<value, present>>
        BY <1>1, <4>1, <4>2
      <4>3. CASE (\E v : value' = [value EXCEPT ![i] = v]) /\ Callback
        BY <1>1, <4>1, <4>3 DEF Callback
      <4> QED BY <3>2, <4>2, <4>3 DEF Applied
    <3> QED BY <2>1, <3>1, <3>2
  <2>5. Len(queue') + Len(postponed') <= calls'
    BY <1>1, <1>3, <2>1, <2>3, <2>4
  <2>6. draining' \in BOOLEAN
    BY <2>1
  <2> QED BY <1>1, <2>1, <2>4, <2>5, <2>6 DEF StateInv
<1>8. ASSUME NEW i, NEW v, ChangeRt(i, v) PROVE StateInv'
  <2>1. /\ value' = [value EXCEPT ![i] = v] /\ Callback
        /\ expect' = [expect EXCEPT ![i] = Meaning(P(i), v)]
        /\ UNCHANGED <<layout, queue, postponed, draining, locale, broken, calls>>
    BY <1>8 DEF ChangeRt
  <2>2. DOMAIN value' = DOMAIN value /\ DOMAIN expect' = DOMAIN expect
    BY <2>1
  <2>3. present' \subseteq Params(layout)
    BY <1>1, <2>1 DEF Callback
  <2> QED BY <1>1, <2>1, <2>2, <2>3 DEF StateInv
<1>9. ASSUME NEW l \in Layouts, NewSession(l) PROVE StateInv'
  <2>1. /\ layout' = l /\ present' = Fresh(l).present /\ value' = Fresh(l).value
        /\ queue' = <<>> /\ postponed' = <<>> /\ draining' = FALSE /\ locale' = "user"
        /\ broken' = "no" /\ calls' = 0 /\ DOMAIN expect' = Params(l)
    BY <1>9 DEF NewSession
  <2>2. Fresh(l).present \subseteq Params(l) /\ DOMAIN Fresh(l).value = Params(l)
    BY DEF Fresh
  <2>3. calls' \in 0..MaxCalls /\ Len(queue') + Len(postponed') <= calls'
    BY <1>3, <2>1, NoStrings
  <2> QED BY <2>1, <2>2, <2>3 DEF StateInv
<1>10. CASE UNCHANGED vars
  BY <1>1, <1>10 DEF vars, StateInv
<1> QED BY <1>4, <1>5, <1>6, <1>7, <1>8, <1>9, <1>10 DEF Next

\* The buffer that dynparam_get_parameter fills from its end always has the room
\* (host.c:740), however long and however deep the names are.
THEOREM NamesFit == Spec => []NamesInBuffer
<1> DEFINE Inv == StateInv /\ ChunkInv
<1>1. Init => Inv
  BY StateAtFirst, ChunksAtFirst
<1>2. Inv /\ [Next]_vars => Inv'
  BY StateStep, ChunkStep
<1>3. Inv => NamesInBuffer
  BY DEF StateInv, NamesInBuffer
<1>4. QED
  BY <1>1, <1>2, <1>3, PTL DEF Spec


----------------------------------------------------------------------------
(* Values as text. *)

\* What is kept and meant of a value of a type, and what was read of its text.
Keeps(type, what) ==
  /\ type = "boolean" => what \in {0, 1}
  /\ type = "int" => what \in {-1, 2}
  /\ type = "float" => what \in Nat
Carries(read, meaning) ==
  /\ meaning = [type |-> meaning.type, what |-> meaning.what]
  /\ meaning.type \in Types /\ Keeps(meaning.type, meaning.what)
  /\ read.type = IF meaning.type = "enum" THEN "string" ELSE meaning.type
  /\ read.data = IF meaning.type = "float" THEN Rounded(meaning.what) ELSE meaning.what

\* The values a parameter may have: those of its type, restored floats too.
Has(p, v) == IF p.type = "float" THEN v \in Nat ELSE v \in Holdable(p)

LEMMA RoundedIsNear ==
  ASSUME NEW v \in Nat
  PROVE  Rounded(v) \in Nat /\ Rounded(v) - v \in -5..5
<1> DEFINE d == (v + 5) \div 10
<1>1. d \in Nat /\ 10 * d <= v + 5 /\ v + 5 < 10 * d + 10
  OBVIOUS
<1>2. Rounded(v) = d * 10
  BY DEF Rounded
<1> HIDE DEF d
<1> QED BY <1>1, <1>2

\* The type and the labels of a parameter.
LEMMA ParamTypes ==
  ASSUME NEW l, IsLayout(l), NEW i \in Params(l)
  PROVE  LET p == l.params[i] IN
         /\ p.type \in Types /\ p.labels \in Seq(STRING) /\ Len(p.labels) \in Nat
         /\ p.type = "enum" => Len(p.labels) > 0
<1>1. /\ l.params \in Seq(Param)
      /\ l.params[i].type = "enum" => l.params[i].labels # <<>>
  BY DEF IsLayout
<1>2. l.params[i] \in Param
  BY <1>1 DEF Params
<1>3. \A x \in Param : x.type \in Types /\ x.labels \in Seq(STRING)
  BY DEF Param
<1>4. l.params[i].type \in Types /\ l.params[i].labels \in Seq(STRING)
  BY <1>2, <1>3
<1>5. Len(l.params[i].labels) \in Nat
  BY <1>4
<1>6. l.params[i].type = "enum" => Len(l.params[i].labels) > 0
  BY <1>1, <1>4, EmptySeq
<1> QED BY <1>4, <1>5, <1>6

\* The values of each type; the first of them is one.
LEMMA ValuesByType ==
  ASSUME NEW p, p.type \in Types, Len(p.labels) \in Nat,
         p.type = "enum" => Len(p.labels) > 0
  PROVE  /\ p.type = "boolean" => ValuesOf(p) = {0, 1}
         /\ p.type = "int" => ValuesOf(p) = {-1, 2}
         /\ p.type = "float" => ValuesOf(p) = FloatValues
         /\ p.type = "enum" => ValuesOf(p) = 0..(Len(p.labels) - 1)
         /\ p.type # "enum" => Holdable(p) = ValuesOf(p)
         /\ p.type = "enum" => Holdable(p) = 0..Len(p.labels)
         /\ \A v \in ValuesOf(p) : v \in Holdable(p)
         /\ \A v \in Holdable(p) : Has(p, v)
         /\ FirstValue(p) \in ValuesOf(p)
<1>1. /\ p.type = "boolean" => ValuesOf(p) = {0, 1}
      /\ p.type = "int" => ValuesOf(p) = {-1, 2}
      /\ p.type = "float" => ValuesOf(p) = FloatValues
      /\ p.type = "enum" => ValuesOf(p) = 0..(Len(p.labels) - 1)
  BY DEF ValuesOf
<1>2. p.type \in {"boolean", "int", "float", "enum"}
  BY DEF Types
<1>3. 4 \in FloatValues /\ \A v \in FloatValues : v \in Nat /\ 4 <= v
  BY SMT DEF FloatValues
<1>4. /\ p.type # "enum" => Holdable(p) = ValuesOf(p)
      /\ p.type = "enum" => Holdable(p) = 0..Len(p.labels)
      /\ \A v \in ValuesOf(p) : v \in Holdable(p)
  BY <1>1 DEF Holdable
<1>5. \A v \in Holdable(p) : Has(p, v)
  BY <1>1, <1>2, <1>3, <1>4 DEF Has
<1>6. \E v \in ValuesOf(p) : \A w \in ValuesOf(p) : v <= w
  <2>1. CASE p.type = "boolean"
    <3>1. 0 \in {0, 1} /\ \A w \in {0, 1} : 0 <= w
      OBVIOUS
    <3> QED BY <1>1, <2>1, <3>1
  <2>2. CASE p.type = "int"
    BY <1>1, <2>2
  <2>3. CASE p.type = "float"
    BY <1>1, <1>3, <2>3
  <2>4. CASE p.type = "enum"
    <3>1. 0 \in 0..(Len(p.labels) - 1) /\ \A w \in 0..(Len(p.labels) - 1) : 0 <= w
      BY <2>4
    <3> QED BY <1>1, <2>4, <3>1
  <2> QED BY <1>2, <2>1, <2>2, <2>3, <2>4
<1>7. FirstValue(p) \in ValuesOf(p)
  BY <1>6 DEF FirstValue
<1> QED BY <1>1, <1>4, <1>5, <1>7

\* What is read of a text by its letter.
LEMMA ReadsByLetter ==
  ASSUME NEW point, NEW content
  PROVE  /\ content \in {0, 1} =>
              Read(Text("b", point, content)) = [type |-> "boolean", data |-> content]
         /\ Read(Text("i", point, content)) = [type |-> "int", data |-> content]
         /\ point = Point("POSIX") =>
              Read(Text("f", point, content)) = [type |-> "float", data |-> content]
         /\ Read(Text("s", point, content)) = [type |-> "string", data |-> content]
<1>1. /\ {"b", "f", "i", "s"} \subseteq DOMAIN LetterType
      /\ LetterType["b"] = "boolean" /\ LetterType["f"] = "float"
      /\ LetterType["i"] = "int" /\ LetterType["s"] = "string"
  BY DEF LetterType
<1>2. \A x : LET t == Text(x, point, content) IN
             t.letter = x /\ t.point = point /\ t.content = content
  BY DEF Text
<1>3. \A x \in {"b", "f", "i", "s"} :
        (x = "b" => content \in {0, 1}) =>
          Read(Text(x, point, content)) =
            [type |-> LetterType[x],
             data |-> IF x = "f" THEN ReadFloat(Text(x, point, content)) ELSE content]
  <2> HIDE DEF LetterType, Text
  <2> QED BY <1>1, <1>2, Zenon DEF Read
<1>4. point = Point("POSIX") => ReadFloat(Text("f", point, content)) = content
  BY <1>2, SMT DEF ReadFloat
<1> QED BY <1>1, <1>3, <1>4

\* The text dynparam_get_parameter writes is read as the value it was written
\* for, to the nearest millionth.
LEMMA TextsComeBack ==
  ASSUME NEW p, p.type \in Types, Len(p.labels) \in Nat,
         p.type = "enum" => Len(p.labels) > 0,
         NEW v, Has(p, v), p.type = "enum" => v \in ValuesOf(p)
  PROVE  Carries(Read(Written(p, v)), Meaning(p, v))
<1> DEFINE meaning == Meaning(p, v)
           read == Read(Written(p, v))
<1>1. /\ meaning.type = p.type /\ meaning = [type |-> meaning.type, what |-> meaning.what]
      /\ meaning.what = IF p.type = "enum" THEN p.labels[v + 1] ELSE v
  <2>1. p.type = "enum" => v < Len(p.labels)
    BY ValuesByType
  <2> QED BY <2>1 DEF Meaning
<1>2. Keeps(meaning.type, meaning.what)
  BY <1>1, ValuesByType DEF Has, Keeps
<1>3. /\ read.type = IF meaning.type = "enum" THEN "string" ELSE meaning.type
      /\ read.data = IF meaning.type = "float" THEN Rounded(meaning.what) ELSE meaning.what
  <2>1. CASE p.type = "boolean"
    <3>1. Written(p, v) = Text("b", "", v) /\ v \in {0, 1}
      BY <2>1, ValuesByType DEF Written, Has
    <3>2. Read(Text("b", "", v)) = [type |-> "boolean", data |-> v]
      BY <3>1, ReadsByLetter, Zenon
    <3>3. read = [type |-> "boolean", data |-> v]
      BY <3>1, <3>2, Zenon
    <3> QED BY <1>1, <2>1, <3>3
  <2>2. CASE p.type = "int"
    <3>1. Written(p, v) = Text("i", "", v)
      BY <2>2 DEF Written
    <3>2. Read(Text("i", "", v)) = [type |-> "int", data |-> v]
      BY ReadsByLetter, Zenon
    <3>3. read = [type |-> "int", data |-> v]
      BY <3>1, <3>2, Zenon
    <3> QED BY <1>1, <2>2, <3>3
  <2>3. CASE p.type = "float"
    <3>1. Written(p, v) = Text("f", Point("POSIX"), Rounded(v))
      BY <2>3 DEF Written
    <3>2. Read(Text("f", Point("POSIX"), Rounded(v))) = [type |-> "float", data |-> Rounded(v)]
      BY ReadsByLetter, Zenon
    <3>3. read = [type |-> "float", data |-> Rounded(v)]
      BY <3>1, <3>2, Zenon
    <3> QED BY <1>1, <2>3, <3>3
  <2>4. CASE p.type = "enum"
    <3>1. Written(p, v) = Text("s", "", p.labels[v + 1])
      BY <2>4 DEF Written
    <3>2. Read(Text("s", "", p.labels[v + 1])) = [type |-> "string", data |-> p.labels[v + 1]]
      BY ReadsByLetter, Zenon
    <3>3. read = [type |-> "string", data |-> p.labels[v + 1]]
      BY <3>1, <3>2, Zenon
    <3> QED BY <1>1, <2>4, <3>3
  <2> QED BY <2>1, <2>2, <2>3, <2>4 DEF Types
<1> QED BY <1>1, <1>2, <1>3 DEF Carries

\* The index of a label is one of the label, and is there if the label is.
LEMMA LabelsIndex ==
  ASSUME NEW p, Len(p.labels) \in Nat, NEW text
  PROVE  LET i == IndexOf(p, text) IN
         /\ i \in -1..(Len(p.labels) - 1)
         /\ i >= 0 => p.labels[i + 1] = text
<1> DEFINE I == {k \in 1..Len(p.labels) : p.labels[k] = text}
           s == SelectInSeq(p.labels, LAMBDA x : x = text)
<1>1. s = IF I # {} THEN Min(I) ELSE 0
  BY DEF SelectInSeq
<1>2. I \in SUBSET Nat
  OBVIOUS
<1>3. I # {} => Min(I) \in I
  <2> HIDE DEF I
  <2> QED BY <1>2, LeastIndex
<1>4. s \in 0..Len(p.labels) /\ (s # 0 => p.labels[s] = text)
  <2>1. CASE I = {}
    BY <1>1, <2>1
  <2>2. CASE I # {}
    <3>1. s \in I
      BY <1>1, <1>3, <2>2
    <3> QED BY <3>1
  <2> QED BY <2>1, <2>2
<1>5. IndexOf(p, text) = s - 1
  BY DEF IndexOf
<1> HIDE DEF s
<1> QED BY <1>4, <1>5

\* Of a string an enum is given the index of a label.
LEMMA LabelIsStored ==
  ASSUME NEW p, p.type = "enum", Len(p.labels) \in Nat, Len(p.labels) > 0,
         NEW read, read.type = "string", NEW v \in Stored(p, read)
  PROVE  v \in ValuesOf(p)
<1>1. v = IndexOf(p, read.data) /\ ~(IndexOf(p, read.data) < 0)
  BY DEF Stored
<1>2. v \in 0..(Len(p.labels) - 1)
  BY <1>1, LabelsIndex
<1> QED BY <1>2 DEF ValuesOf

\* What parameter_value_change stores of a text is something the parameter can
\* hold.
LEMMA StoredIsValue ==
  ASSUME NEW p, p.type \in Types, Len(p.labels) \in Nat,
         p.type = "enum" => Len(p.labels) > 0,
         NEW read, read.type = p.type => Has(p, read.data),
         NEW v \in Stored(p, read)
  PROVE  Has(p, v)
<1>1. CASE p.type = "enum" /\ read.type = "string"
  <2>1. v \in ValuesOf(p)
    BY <1>1, LabelIsStored
  <2> QED BY <2>1, ValuesByType
<1>3. CASE p.type = "enum" /\ read.type # "string"
  <2>1. v \in Holdable(p)
    BY <1>3 DEF Stored
  <2> QED BY <2>1, ValuesByType
<1>2. CASE p.type # "enum"
  <2>1. (v = read.data /\ read.type = p.type) \/ v \in ValuesOf(p)
    BY <1>2 DEF Stored
  <2> QED BY <2>1, ValuesByType
<1> QED BY <1>1, <1>2, <1>3

\* What is meant by a value of a type is a value of it.
LEMMA CarriedIsValue ==
  ASSUME NEW p, p.type \in Types, Len(p.labels) \in Nat,
         p.type = "enum" => Len(p.labels) > 0,
         NEW read, NEW meaning, Carries(read, meaning), p.type = read.type
  PROVE  Has(p, read.data)
<1>1. meaning.type = p.type /\ p.type # "enum"
  BY DEF Carries, Types
<1>2. CASE p.type = "float"
  BY <1>1, <1>2, RoundedIsNear DEF Carries, Keeps, Has
<1>3. CASE p.type # "float"
  BY <1>1, <1>3, ValuesByType DEF Carries, Keeps, Has, Types
<1> QED BY <1>2, <1>3


----------------------------------------------------------------------------
(* What was saved, what is on its way, and what is expected of it. *)

\* The search takes all of a list of names.
Searchable(names) ==
  names \in Names /\ names # <<>> /\ \A k \in 1..Len(names) : names[k] # <<>>

SavedEntry(e) ==
  /\ Searchable(e.path) /\ Unescape(e.name) = e.path
  /\ Carries(Read(e.text), e.meaning)
SavedInv == \A e \in saved : SavedEntry(e)

\* A message has a text that was saved, or one the program made up, of a string.
Message(m) ==
  /\ Searchable(m.path) /\ m.names = m.path
  /\ \/ m.read.type = "string" /\ m.meaning = Anything
     \/ Carries(m.read, m.meaning)
QueueInv == \A k \in 1..Len(queue) : Message(queue[k])

ValuesInv == \A i \in Params(layout) : Has(P(i), value[i])

\* Named groups have paths of names.
LEMMA PathsAreSearchable ==
  ASSUME NEW l, IsLayout(l), Named(l), NEW i \in Params(l)
  PROVE  Searchable(FullName(l, i))
<1> DEFINE n == Len(l.groups)
           path == GroupPath(l)
           Full(s) == s \in Names /\ \A k \in 1..Len(s) : s[k] # <<>>
           G == {g \in 0..n : Full(path[g])}
<1>1. /\ n \in Nat /\ \A g \in 1..n : l.groups[g].parent \in 0..(g - 1)
      /\ \A g \in 1..n : l.groups[g].name \in Name /\ l.groups[g].name # <<>>
  <2>1. /\ l.groups \in Seq(Group)
        /\ \A g \in Groups(l) : l.groups[g].parent \in 0..(g - 1)
    BY DEF IsLayout
  <2>2. n \in Nat /\ \A g \in 1..n : l.groups[g] \in Group
    BY <2>1
  <2>3. \A x \in Group : x.name \in Name
    BY DEF Group
  <2> QED BY <2>1, <2>2, <2>3 DEF Groups, Named
<1>2. /\ l.params[i].name \in Name /\ l.params[i].name # <<>>
      /\ l.params[i].group \in 0..n
  <2>1. l.params \in Seq(Param) /\ l.params[i].group \in 0..n
    BY DEF IsLayout
  <2>2. l.params[i] \in Param
    BY <2>1 DEF Params
  <2>3. \A x \in Param : x.name \in Name
    BY DEF Param
  <2> QED BY <2>1, <2>2, <2>3 DEF Named
<1>3. /\ path[0] = <<>>
      /\ \A g \in 1..n : path[g] = Append(path[l.groups[g].parent], l.groups[g].name)
  BY GroupPathSteps DEF Groups
<1>4. ASSUME NEW s, Full(s), NEW x \in Name, x # <<>>
      PROVE  Full(Append(s, x)) /\ Append(s, x) # <<>>
  <2>1. s \in Seq(Name) /\ Len(s) \in Nat /\ \A k \in 1..Len(s) : s[k] # <<>>
    BY <1>4 DEF Names
  <2>2. /\ Append(s, x) \in Seq(Name) /\ Append(s, x) # <<>>
        /\ Len(Append(s, x)) = Len(s) + 1
        /\ \A k \in 1..Len(s) : Append(s, x)[k] = s[k]
        /\ Append(s, x)[Len(s) + 1] = x
    BY <1>4, <2>1, AppendProperties
  <2>3. \A k \in 1..(Len(s) + 1) : k \in 1..Len(s) \/ k = Len(s) + 1
    BY <2>1
  <2>4. \A k \in 1..Len(Append(s, x)) : Append(s, x)[k] # <<>>
    BY <1>4, <2>1, <2>2, <2>3
  <2> QED BY <2>2, <2>4 DEF Names
<1> HIDE DEF path
<1>5. ASSUME NEW g \in 0..n, \A h \in 0..(g - 1) : h \in G
      PROVE  g \in G
  <2>1. CASE g = 0
    <3>1. Full(<<>>)
      BY DEF Names
    <3> QED BY <1>3, <2>1, <3>1
  <2>2. CASE g # 0
    <3>1. g \in 1..n
      BY <1>1, <2>2
    <3>2. Full(path[l.groups[g].parent])
      BY <1>1, <1>5, <3>1
    <3>3. Full(path[g])
      <4> DEFINE s == path[l.groups[g].parent]
                 x == l.groups[g].name
      <4>1. path[g] = Append(s, x) /\ x \in Name /\ x # <<>>
        BY <1>1, <1>3, <3>1
      <4> HIDE DEF Full, s, x
      <4>2. Full(s)
        BY <3>2 DEF s
      <4> QED BY <1>4, <4>1, <4>2
    <3> QED BY <3>3
  <2> QED BY <2>1, <2>2
<1>6. G = 0..n
  <2>1. G \in SUBSET (0..n)
    OBVIOUS
  <2> HIDE DEF G, n
  <2> QED BY <1>1, <1>5, <2>1, EveryRound
<1>7. Full(path[l.params[i].group])
  BY <1>2, <1>6
<1>8. Full(FullName(l, i)) /\ FullName(l, i) # <<>>
  <2> HIDE DEF Full
  <2> QED BY <1>2, <1>4, <1>7 DEF FullName, path
<1> QED BY <1>8 DEF Searchable

\* What get_parameters saves is found, and read as what it is.
LEMMA EntriesComeBack ==
  ASSUME VersionsAgree, layout \in Layouts, ValuesInv,
         NEW i \in Params(layout), Labelled(i)
  PROVE  SavedEntry(Entry(i))
<1> DEFINE p == P(i)
           v == value[i]
<1>1. IsLayout(layout) /\ Named(layout)
  BY ParamTextAssumption DEF VersionsAgree
<1>2. Searchable(Path(i))
  BY <1>1, PathsAreSearchable DEF Path
<1>3. Unescape(NameBuffer(i).text) = Path(i)
  BY <1>1, NamesComeBack
<1>4. /\ p.type \in Types /\ Len(p.labels) \in Nat
      /\ p.type = "enum" => Len(p.labels) > 0
  BY <1>1, ParamTypes DEF P
<1>5. Has(p, v)
  BY DEF ValuesInv
<1>6. p.type = "enum" => v \in ValuesOf(p)
  BY DEF Labelled
<1> HIDE DEF p, v
<1>7. Carries(Read(Written(p, v)), Meaning(p, v))
  BY <1>4, <1>5, <1>6, TextsComeBack
<1>9. /\ Entry(i).name = NameBuffer(i).text /\ Entry(i).path = Path(i)
      /\ Entry(i).text = Written(p, v) /\ Entry(i).meaning = Meaning(p, v)
  BY DEF Entry, p, v
<1> HIDE DEF Entry, NameBuffer
<1> QED BY <1>2, <1>3, <1>7, <1>9 DEF SavedEntry

\* A message that set_parameter queues is as good as the entry it is for.
LEMMA QueuedIsMessage ==
  ASSUME VersionsAgree, NEW entry, SavedEntry(entry),
         NEW text \in {entry.text} \cup Foreign, Read(text) # Unknown
  PROVE  Message([names |-> Unescape(entry.name), read |-> Read(text), path |-> entry.path,
                  meaning |-> IF text = entry.text THEN entry.meaning ELSE Anything])
<1> DEFINE m == [names |-> Unescape(entry.name), read |-> Read(text), path |-> entry.path,
                 meaning |-> IF text = entry.text THEN entry.meaning ELSE Anything]
<1>1. /\ m.names = Unescape(entry.name) /\ m.read = Read(text) /\ m.path = entry.path
      /\ m.meaning = IF text = entry.text THEN entry.meaning ELSE Anything
  OBVIOUS
<1> SUFFICES Message(m)
  OBVIOUS
<1> HIDE DEF m
<1>2. Searchable(m.path) /\ m.names = m.path
  BY <1>1 DEF SavedEntry
<1>3. CASE text = entry.text
  BY <1>1, <1>2, <1>3 DEF SavedEntry, Message
<1>4. CASE text # entry.text
  <2>1. Read(text).type = "string"
    BY <1>4 DEF VersionsAgree
  <2> QED BY <1>1, <1>2, <1>4, <2>1 DEF Message
<1> QED BY <1>3, <1>4


\* A value means what is expected.
AsExpected(p, v, expected) ==
  expected # Anything =>
    IF p.type = "float" THEN Meaning(p, v).what - expected.what \in -5..5
    ELSE Meaning(p, v) = expected

\* What comes of a message for a parameter.
LEMMA MessageMeansIt ==
  ASSUME NEW p, p.type \in Types, Len(p.labels) \in Nat,
         p.type = "enum" => Len(p.labels) > 0,
         NEW read, NEW meaning, NEW before,
         Carries(read, meaning) \/ (read.type = "string" /\ meaning = Anything)
  PROVE  LET expected == Expected(p, before, meaning) IN
         /\ Stored(p, read) = {} => expected \in {before, Anything}
         /\ \A v \in Stored(p, read) : Has(p, v) /\ AsExpected(p, v, expected)
<1> DEFINE expected == Expected(p, before, meaning)
<1>1. ASSUME NEW v \in Stored(p, read) PROVE Has(p, v)
  <2>1. read.type = p.type => Has(p, read.data)
    <3>1. p.type # "string"
      BY DEF Types
    <3> QED BY <3>1, CarriedIsValue
  <2> QED BY <2>1, StoredIsValue
<1>2. CASE meaning.type # p.type
  <2>1. expected = Anything
    BY <1>2 DEF Expected
  <2> QED BY <1>1, <2>1 DEF AsExpected
<1>3. CASE meaning.type = p.type
  <2>1. Carries(read, meaning)
    <3>1. Anything.type = "any" /\ "any" \notin Types
      BY DEF Anything, Types
    <3> QED BY <1>3, <3>1
  <2>2. CASE p.type = "enum"
    <3> DEFINE index == IndexOf(p, read.data)
    <3>1. read.data = meaning.what /\ read.type = "string"
      BY <1>3, <2>1, <2>2 DEF Carries
    <3>2. index \in -1..(Len(p.labels) - 1) /\ (index >= 0 => p.labels[index + 1] = read.data)
      BY LabelsIndex
    <3>3. Stored(p, read) = IF index < 0 THEN {} ELSE {index}
      BY <2>2, <3>1 DEF Stored
    <3>4. expected = IF index < 0 THEN before ELSE meaning
      BY <1>3, <2>2, <3>1 DEF Expected
    <3> HIDE DEF index, expected
    <3>5. CASE index < 0
      BY <3>3, <3>4, <3>5 DEF expected
    <3>6. CASE ~(index < 0)
      <4>1. p.labels[index + 1] = meaning.what
        BY <3>1, <3>2, <3>6
      <4>2. Meaning(p, index) = [type |-> p.type, what |-> p.labels[index + 1]]
        <5>1. index < Len(p.labels)
          BY <3>2
        <5> QED BY <2>2, <5>1 DEF Meaning
      <4>3. Meaning(p, index) = meaning
        BY <1>3, <2>1, <4>1, <4>2 DEF Carries
      <4>4. AsExpected(p, index, expected)
        BY <2>2, <3>4, <3>6, <4>3 DEF AsExpected
      <4>5. Stored(p, read) = {index}
        BY <3>3, <3>6
      <4> QED BY <1>1, <4>4, <4>5 DEF expected
    <3> QED BY <3>5, <3>6
  <2>3. CASE p.type # "enum"
    <3> DEFINE v == read.data
    <3>1. read.type = p.type /\ expected = meaning /\ Stored(p, read) = {v}
      BY <1>3, <2>1, <2>3 DEF Carries, Expected, Stored
    <3>2. Meaning(p, v) = [type |-> p.type, what |-> v]
      BY <2>3 DEF Meaning
    <3>3. AsExpected(p, v, meaning)
      <4>1. CASE p.type = "float"
        <5>1. meaning.what \in Nat /\ v = Rounded(meaning.what)
          BY <1>3, <2>1, <4>1 DEF Carries, Keeps
        <5>2. v - meaning.what \in -5..5 /\ Meaning(p, v).what = v
          <6>1. Rounded(meaning.what) - meaning.what \in -5..5
            BY <5>1, RoundedIsNear
          <6>2. Meaning(p, v).what = v
            BY <3>2
          <6> QED BY <5>1, <6>1, <6>2
        <5> QED BY <4>1, <5>2 DEF AsExpected
      <4>2. CASE p.type # "float"
        <5>1. meaning.what = v
          BY <1>3, <2>1, <2>3, <4>2 DEF Carries
        <5>2. Meaning(p, v) = meaning
          BY <1>3, <2>1, <3>2, <5>1 DEF Carries
        <5> QED BY <4>2, <5>2 DEF AsExpected
      <4> QED BY <4>1, <4>2
    <3> HIDE DEF v
    <3> QED BY <1>1, <3>1, <3>3
  <2> QED BY <2>2, <2>3
<1> QED BY <1>2, <1>3

\* What is asked of a parameter through change_rt, or at first, is what it means.
LEMMA MeansItself ==
  ASSUME NEW p, p.type \in Types, NEW v, Has(p, v)
  PROVE  AsExpected(p, v, Meaning(p, v))
<1>1. p.type = "float" => Meaning(p, v).what = v /\ v \in Nat
  BY DEF Meaning, Has
<1> QED BY <1>1 DEF AsExpected

RestoreInv ==
  /\ StateInv /\ ChunkInv
  /\ ValuesInv /\ SavedInv /\ QueueInv
  /\ \A i \in Params(layout) : AsExpected(P(i), value[i], expect[i])

\* realtime_run gives the parameter that a message is for the value that was meant,
\* and no other parameter any.
LEMMA MessageRestores ==
  ASSUME VersionsAgree, RestoreInv, RealtimeMessage
  PROVE  /\ ValuesInv' /\ QueueInv'
         /\ \A i \in Params(layout) : AsExpected(P(i), value'[i], expect'[i])
<1> DEFINE m == Head(queue)
<1>1. /\ queue' = Tail(queue) /\ queue # <<>> /\ layout' = layout
      /\ IF Find(m.names) = NotFound THEN Postpone(m) ELSE Applied(Find(m.names), m)
      /\ expect' = [i \in Params(layout) |->
           IF i \in present /\ Path(i) = m.path THEN Expected(P(i), expect[i], m.meaning)
           ELSE expect[i]]
  <2>1. draining => queue # <<>>
    BY DEF RestoreInv, ChunkInv
  <2>2. draining /\ layout' = layout
    BY DEF RealtimeMessage
  <2> QED BY <2>1, <2>2 DEF RealtimeMessage
<1>2. /\ layout \in Layouts /\ present \subseteq Params(layout)
      /\ DOMAIN value = Params(layout)
      /\ \E S : queue \in Seq(S)
      /\ \A i \in Params(layout) : Has(P(i), value[i]) /\ AsExpected(P(i), value[i], expect[i])
      /\ \A k \in 1..Len(queue) : Message(queue[k])
  BY DEF RestoreInv, StateInv, ChunkInv, ValuesInv, QueueInv
<1>3. /\ Len(queue) \in Nat /\ Len(queue) > 0 /\ m = queue[1]
      /\ Len(queue') = Len(queue) - 1
      /\ \A k \in 1..(Len(queue) - 1) : queue'[k] = queue[k + 1]
  BY <1>1, <1>2, ListLengths
<1>4. Message(m)
  BY <1>2, <1>3
<1> HIDE DEF m
<1>5. QueueInv'
  <2>1. ASSUME NEW k \in 1..(Len(queue) - 1) PROVE Message(queue'[k])
    <3>1. k + 1 \in 1..Len(queue)
      BY <1>3
    <3> QED BY <1>2, <1>3, <3>1
  <2> QED BY <1>3, <2>1 DEF QueueInv
<1>6. IsLayout(layout) /\ Apart(layout)
  BY <1>2, ParamTextAssumption DEF VersionsAgree
<1> DEFINE f == Find(m.names)
<1>7. /\ f # NotFound => f \in present /\ Path(f) = m.path
      /\ \A j \in present : Path(j) = m.path => f = j
  <2>1. /\ m.names = m.path /\ m.names \in Names /\ m.names # <<>>
        /\ \A k \in 1..Len(m.names) : m.names[k] # <<>>
    BY <1>4 DEF Message, Searchable
  <2> HIDE DEF f
  <2>2. /\ Find(m.names) # NotFound =>
             Find(m.names) \in present /\ Path(Find(m.names)) = m.names
        /\ \A j \in present : Path(j) = m.names => Find(m.names) = j
    BY <1>2, <1>6, <2>1, FindsByName
  <2> QED BY <2>1, <2>2 DEF f
<1> HIDE DEF f
<1>8. CASE f = NotFound
  <2>1. \A j \in present : Path(j) # m.path
    <3>1. \A j \in present : j # NotFound
      BY <1>2 DEF NotFound, Params
    <3> QED BY <1>7, <1>8, <3>1
  <2>2. value' = value
    BY <1>1, <1>8 DEF f, Postpone
  <2>3. \A i \in Params(layout) : expect'[i] = expect[i]
    BY <1>1, <2>1
  <2>4. ValuesInv'
    BY <1>1, <1>2, <2>2 DEF ValuesInv, P
  <2> QED BY <1>2, <1>5, <2>2, <2>3, <2>4
<1>9. CASE f # NotFound
  <2> DEFINE p == P(f)
             expected == Expected(p, expect[f], m.meaning)
  <2>1. f \in present /\ f \in Params(layout) /\ Path(f) = m.path
    BY <1>2, <1>7, <1>9
  <2>2. /\ expect'[f] = expected
        /\ \A i \in Params(layout) : i # f => expect'[i] = expect[i]
    BY <1>1, <1>7, <2>1
  <2>3. \/ Stored(p, m.read) = {} /\ value' = value
        \/ \E v \in Stored(p, m.read) : value' = [value EXCEPT ![f] = v]
    BY <1>1, <1>9 DEF f, Applied
  <2>4. /\ p.type \in Types /\ Len(p.labels) \in Nat
        /\ p.type = "enum" => Len(p.labels) > 0
    BY <1>6, <2>1, ParamTypes DEF P
  <2>6. Carries(m.read, m.meaning) \/ (m.read.type = "string" /\ m.meaning = Anything)
    BY <1>4 DEF Message
  <2> HIDE DEF p
  <2>7. /\ Stored(p, m.read) = {} => expected \in {expect[f], Anything}
        /\ \A v \in Stored(p, m.read) : Has(p, v) /\ AsExpected(p, v, expected)
    BY <2>4, <2>6, MessageMeansIt
  <2> HIDE DEF expected
  <2>8. /\ \A i \in Params(layout) : i # f => value'[i] = value[i]
        /\ Has(p, value'[f]) /\ AsExpected(p, value'[f], expected)
    <3>1. Has(p, value[f]) /\ AsExpected(p, value[f], expect[f])
      BY <1>2, <2>1 DEF p
    <3>2. CASE Stored(p, m.read) = {} /\ value' = value
      <4>1. expected \in {expect[f], Anything}
        BY <2>7, <3>2
      <4>2. AsExpected(p, value[f], Anything)
        BY DEF AsExpected
      <4> QED BY <3>1, <3>2, <4>1, <4>2
    <3>3. ASSUME NEW v \in Stored(p, m.read), value' = [value EXCEPT ![f] = v]
          PROVE  /\ \A i \in Params(layout) : i # f => value'[i] = value[i]
                 /\ value'[f] = v
      BY <1>2, <2>1, <3>3
    <3> QED BY <2>3, <2>7, <3>2, <3>3
  <2>9. \A i \in Params(layout) :
          Has(P(i), value'[i]) /\ AsExpected(P(i), value'[i], expect'[i])
    BY <1>2, <2>2, <2>8 DEF p
  <2>10. ValuesInv'
    BY <1>1, <2>9 DEF ValuesInv, P
  <2> QED BY <1>5, <2>9, <2>10
<1> QED BY <1>8, <1>9


\* What a session begins with.
LEMMA FreshRestores ==
  ASSUME NEW l \in Layouts, NEW i \in Params(l)
  PROVE  LET p == l.params[i]
             v == Fresh(l).value[i] IN
         Has(p, v) /\ AsExpected(p, v, Meaning(p, v))
<1> DEFINE p == l.params[i]
<1>1. /\ p.type \in Types /\ Len(p.labels) \in Nat
      /\ p.type = "enum" => Len(p.labels) > 0
  BY ParamTextAssumption, ParamTypes
<1>2. Fresh(l).value[i] = FirstValue(p)
  BY DEF Fresh
<1> HIDE DEF p
<1>3. Has(p, FirstValue(p))
  BY <1>1, ValuesByType
<1>4. AsExpected(p, FirstValue(p), Meaning(p, FirstValue(p)))
  BY <1>1, <1>3, MeansItself
<1> QED BY <1>2, <1>3, <1>4 DEF p

LEMMA RestoreAtFirst ==
  ASSUME Init
  PROVE  RestoreInv
<1>1. /\ layout \in Layouts /\ value = Fresh(layout).value /\ saved = {} /\ queue = <<>>
      /\ expect = [i \in Params(layout) |-> Meaning(P(i), value[i])]
  BY DEF Init
<1>2. ValuesInv /\ \A i \in Params(layout) : AsExpected(P(i), value[i], expect[i])
  BY <1>1, FreshRestores DEF ValuesInv, P
<1>3. SavedInv /\ QueueInv
  BY <1>1, NoStrings DEF SavedInv, QueueInv
<1> QED BY <1>1, <1>2, <1>3, StateAtFirst, ChunksAtFirst DEF RestoreInv

LEMMA RestoreStep ==
  ASSUME VersionsAgree, RestoreInv, [Next]_vars
  PROVE  RestoreInv'
<1>1. /\ layout \in Layouts /\ present \subseteq Params(layout)
      /\ DOMAIN value = Params(layout) /\ DOMAIN expect = Params(layout)
      /\ \E S : queue \in Seq(S)
      /\ ValuesInv /\ SavedInv /\ QueueInv
      /\ \A i \in Params(layout) : Has(P(i), value[i]) /\ AsExpected(P(i), value[i], expect[i])
  BY DEF RestoreInv, StateInv, ChunkInv, ValuesInv
<1>2. StateInv' /\ ChunkInv'
  BY StateStep, ChunkStep DEF RestoreInv
<1> DEFINE Rest == /\ ValuesInv /\ SavedInv /\ QueueInv
                   /\ \A i \in Params(layout) : AsExpected(P(i), value[i], expect[i])
<1>3. SUFFICES Rest'
  BY <1>2 DEF RestoreInv
<1>4. IsLayout(layout)
  BY <1>1, ParamTextAssumption
<1>5. ASSUME UNCHANGED <<layout, value, expect>>
      PROVE  ValuesInv' /\ \A i \in Params(layout)' : AsExpected(P(i), value[i], expect[i])'
  BY <1>1, <1>5 DEF ValuesInv, P
<1>6. CASE GetParameters
  <2>1. UNCHANGED <<layout, value, queue, expect>>
    BY <1>6 DEF GetParameters
  <2>2. PICK failed \in SUBSET present :
          LET told == Told(failed) IN
          IF \E i \in told : ~Labelled(i)
            THEN broken' = "label" /\ UNCHANGED saved
          ELSE IF \E i \in told : NameBuffer(i).room < 0
            THEN broken' = "buffer" /\ UNCHANGED saved
          ELSE saved' = {Entry(i) : i \in told} /\ UNCHANGED broken
    BY <1>6 DEF GetParameters
  <2>3. Told(failed) \subseteq Params(layout)
    BY <1>1 DEF Told
  <2>5. \/ saved' = saved
        \/ saved' = {Entry(i) : i \in Told(failed)} /\ \A i \in Told(failed) : Labelled(i)
    BY <2>2
  <2>6. \A i \in Told(failed) : Labelled(i) => SavedEntry(Entry(i))
    BY <1>1, <2>3, EntriesComeBack
  <2>7. SavedInv'
    <3> HIDE DEF Entry, SavedEntry
    <3> QED BY <1>1, <2>5, <2>6 DEF SavedInv
  <2> QED BY <1>1, <1>5, <2>1, <2>7 DEF QueueInv
<1>7. ASSUME NEW entry \in saved, NEW text \in {entry.text} \cup Foreign,
             SetParameter(entry, text)
      PROVE  Rest'
  <2>1. UNCHANGED <<layout, value, saved, expect>>
    BY <1>7 DEF SetParameter
  <2> DEFINE x == [names |-> Unescape(entry.name), read |-> Read(text), path |-> entry.path,
                   meaning |-> IF text = entry.text THEN entry.meaning ELSE Anything]
  <2>2. queue' = queue \/ (queue' = Append(queue, x) /\ Read(text) # Unknown)
    BY <1>7 DEF SetParameter, SetFails, SetBreaks, SetQueued
  <2>3. Read(text) # Unknown => Message(x)
    BY <1>1, <1>7, QueuedIsMessage DEF SavedInv
  <2> HIDE DEF x
  <2>4. QueueInv'
    <3>1. CASE queue' = queue
      BY <1>1, <3>1 DEF QueueInv
    <3>2. CASE queue' = Append(queue, x) /\ Read(text) # Unknown
      <4>1. /\ Len(queue) \in Nat /\ Len(queue') = Len(queue) + 1
            /\ \A k \in 1..(Len(queue) + 1) :
                 queue'[k] = IF k <= Len(queue) THEN queue[k] ELSE x
        BY <1>1, <3>2, ListLengths
      <4>2. ASSUME NEW k \in 1..(Len(queue) + 1) PROVE Message(queue'[k])
        BY <1>1, <2>3, <3>2, <4>1 DEF QueueInv
      <4> QED BY <4>1, <4>2 DEF QueueInv
    <3> QED BY <2>2, <3>1, <3>2
  <2> QED BY <1>1, <1>5, <2>1, <2>2, <2>4 DEF SavedInv
<1>8. CASE RealtimeEnter
  <2>1. UNCHANGED <<layout, value, expect, saved, queue>>
    BY <1>8 DEF RealtimeEnter
  <2> QED BY <1>1, <1>5, <2>1 DEF SavedInv, QueueInv
<1>9. CASE RealtimeMessage
  <2>1. UNCHANGED <<layout, saved>>
    BY <1>9 DEF RealtimeMessage
  <2>2. /\ ValuesInv' /\ QueueInv'
        /\ \A i \in Params(layout) : AsExpected(P(i), value'[i], expect'[i])
    BY <1>9, MessageRestores
  <2> QED BY <1>1, <2>1, <2>2 DEF SavedInv, P
<1>10. ASSUME NEW f \in present, NEW v \in Holdable(P(f)), ChangeRt(f, v)
       PROVE  Rest'
  <2>1. /\ value' = [value EXCEPT ![f] = v]
        /\ expect' = [expect EXCEPT ![f] = Meaning(P(f), v)]
        /\ UNCHANGED <<layout, saved, queue>>
    BY <1>10 DEF ChangeRt
  <2>2. f \in Params(layout)
    BY <1>1
  <2> DEFINE p == P(f)
  <2>3. /\ p.type \in Types /\ Len(p.labels) \in Nat
        /\ p.type = "enum" => Len(p.labels) > 0
    BY <1>4, <2>2, ParamTypes DEF P
  <2>4. Has(p, v) /\ AsExpected(p, v, Meaning(p, v))
    <3> HIDE DEF p
    <3>1. v \in Holdable(p)
      BY DEF p
    <3> QED BY <2>3, <3>1, ValuesByType, MeansItself
  <2>5. \A i \in Params(layout) :
          /\ value'[i] = IF i = f THEN v ELSE value[i]
          /\ expect'[i] = IF i = f THEN Meaning(p, v) ELSE expect[i]
    BY <1>1, <2>1
  <2> HIDE DEF p
  <2>6. \A i \in Params(layout) :
          Has(P(i), value'[i]) /\ AsExpected(P(i), value'[i], expect'[i])
    BY <1>1, <2>4, <2>5 DEF p
  <2> QED BY <1>1, <2>1, <2>6 DEF ValuesInv, SavedInv, QueueInv, P
<1>11. ASSUME NEW l \in Layouts, NewSession(l) PROVE Rest'
  <2>1. /\ layout' = l /\ value' = Fresh(l).value /\ queue' = <<>>
        /\ expect' = [i \in Params(l) |-> Meaning(l.params[i], Fresh(l).value[i])]
        /\ saved' = saved
    BY <1>11 DEF NewSession
  <2>2. \A i \in Params(l) :
          Has(l.params[i], value'[i]) /\ AsExpected(l.params[i], value'[i], expect'[i])
    BY <2>1, FreshRestores
  <2>3. SavedInv' /\ QueueInv'
    BY <1>1, <2>1, NoStrings DEF SavedInv, QueueInv
  <2> QED BY <2>1, <2>2, <2>3 DEF ValuesInv, P
<1>12. CASE UNCHANGED vars
  BY <1>1, <1>5, <1>12 DEF vars, SavedInv, QueueInv
<1> QED BY <1>6, <1>7, <1>8, <1>9, <1>10, <1>11, <1>12 DEF Next

\* The inductive invariant of what is saved and restored: what was saved can be
\* searched for, found and read, what is in the queue is what was saved or a string,
\* and each value is of its type and means what is expected.
THEOREM RestoreInvariant ==
  ASSUME VersionsAgree
  PROVE  Spec => []RestoreInv
<1>1. Init => RestoreInv
  BY RestoreAtFirst
<1>2. RestoreInv /\ [Next]_vars => RestoreInv'
  BY RestoreStep
<1>3. QED
  BY <1>1, <1>2, PTL DEF Spec

\* Every value is one of its parameter's type, whatever texts were restored into
\* whichever version; calls and lists are bounded by the calls made.
THEOREM TypesAreKept ==
  ASSUME VersionsAgree
  PROVE  Spec => []TypeOK
<1>1. RestoreInv => TypeOK
  <2> SUFFICES ASSUME RestoreInv PROVE TypeOK
    OBVIOUS
  <2>1. /\ StateInv /\ \A i \in Params(layout) : Has(P(i), value[i])
        /\ Len(queue) \in Nat /\ Len(postponed) \in Nat
    BY ListLengths DEF RestoreInv, ValuesInv, ChunkInv
  <2>2. Len(queue) + Len(postponed) <= MaxCalls
    BY <2>1, ParamTextAssumption DEF StateInv
  <2> QED BY <2>1, <2>2 DEF TypeOK, StateInv, Has
<1>2. QED
  BY <1>1, RestoreInvariant, PTL

\* A parameter means what was last asked for it, by change_rt or by restoring the
\* text saved from the parameter of its full name: for any layouts a plugin keeps
\* the rules of VersionsAgree over, any names, labels and texts of the program's own.
THEOREM RestoringWorks ==
  ASSUME VersionsAgree
  PROVE  Spec => []SavedIsRestored
<1>1. RestoreInv => SavedIsRestored
  BY DEF RestoreInv, SavedIsRestored, AsExpected
<1>2. QED
  BY <1>1, RestoreInvariant, PTL

\* An enum is left without a label (host.c:878) only by an index the program has
\* given change_rt, or by a text of another type saved under its full name, taken
\* for an index (host.c:1046): whatever the versions, names and texts are, restoring
\* a label never does it.
THEOREM LabelsAreLostToNumbers == Spec => LabelsLostToNumbers
<1> DEFINE Inv == StateInv /\ ChunkInv
           Cause(i) == IF draining
                         THEN Head(queue).read.type # "string" /\ Find(Head(queue).names) = i
                         ELSE \E v \in Holdable(P(i)) : ChangeRt(i, v)
           Lost(i) == layout' = layout /\ Labelled(i) /\ ~Labelled(i)'
           Step == \A i \in present : Lost(i) => Cause(i)
<1>1. Init => Inv
  BY StateAtFirst, ChunksAtFirst
<1>2. Inv /\ [Next]_vars => Inv'
  BY StateStep, ChunkStep
<1>3. Inv /\ [Next]_vars => [Step]_vars
  <2> SUFFICES ASSUME Inv, Next, NEW i \in present, Lost(i)
               PROVE  Cause(i)
    OBVIOUS
  <2>1. /\ layout \in Layouts /\ i \in Params(layout) /\ DOMAIN value = Params(layout)
        /\ layout' = layout /\ Labelled(i) /\ ~Labelled(i)'
    BY DEF StateInv
  <2>2. /\ P(i).type = "enum" /\ P(i)' = P(i)
        /\ value'[i] \notin ValuesOf(P(i)) /\ value'[i] # value[i]
    BY <2>1 DEF Labelled, P, ValuesOf
  <2>3. Len(P(i).labels) \in Nat /\ Len(P(i).labels) > 0
    <3>1. IsLayout(layout)
      BY <2>1, ParamTextAssumption
    <3> QED BY <2>1, <2>2, <3>1, ParamTypes DEF P
  <2>4. CASE RealtimeMessage
    <3> DEFINE m == Head(queue)
    <3>1. draining /\ (IF Find(m.names) = NotFound THEN Postpone(m)
                       ELSE Applied(Find(m.names), m))
      BY <2>4 DEF RealtimeMessage
    <3> HIDE DEF m
    <3>2. PICK v \in Stored(P(Find(m.names)), m.read) :
                 value' = [value EXCEPT ![Find(m.names)] = v]
      BY <2>2, <3>1 DEF Postpone, Applied
    <3>3. Find(m.names) = i /\ value'[i] = v
      BY <2>1, <2>2, <3>2
    <3>4. m.read.type # "string"
      BY <2>2, <2>3, <3>2, <3>3, LabelIsStored
    <3> QED BY <3>1, <3>3, <3>4 DEF m
  <2>5. ASSUME NEW f \in present, NEW v \in Holdable(P(f)), ChangeRt(f, v)
        PROVE  Cause(i)
    <3>1. ~draining /\ value' = [value EXCEPT ![f] = v]
      BY <2>5 DEF ChangeRt
    <3>2. f = i
      BY <2>1, <2>2, <3>1
    <3> QED BY <2>5, <3>1, <3>2
  <2>6. ASSUME NEW l \in Layouts, NewSession(l) PROVE Cause(i)
    <3>1. value'[i] = FirstValue(P(i))
      BY <2>1, <2>6 DEF NewSession, Fresh, P
    <3>2. FirstValue(P(i)) \in ValuesOf(P(i))
      BY <2>2, <2>3, ValuesByType DEF Types
    <3> QED BY <2>2, <3>1, <3>2
  <2>7. CASE UNCHANGED value
    BY <2>2, <2>7
  <2>8. QED
    BY <2>4, <2>5, <2>6, <2>7 DEF Next, GetParameters, SetParameter, RealtimeEnter
<1>4. QED
  BY <1>1, <1>2, <1>3, PTL DEF Spec, LabelsLostToNumbers
=============================================================================
