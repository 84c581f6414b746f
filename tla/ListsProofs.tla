----------------------------- MODULE ListsProofs -----------------------------
(***************************************************************************)
(* What list_del leaves, for every list.  The recursion of Without is over *)
(* the length of the list; the inductions below are by the least length    *)
(* for which a statement would be false.                                   *)
(***************************************************************************)
EXTENDS Lists, WellFoundedInduction, TLAPS

\* No entry is in the list two times.
NoneTwice(s) == \A i, j \in 1..Len(s) : s[i] = s[j] => i = j

\* A set of naturals that is not empty has a least element.
LEMMA LeastNumber ==
  ASSUME NEW S \in SUBSET Nat, S # {}
  PROVE  \E x \in S : \A y \in S : x <= y
<1> DEFINE less == OpToRel(<, Nat)
<1>1. IsWellFoundedOn(less, Nat)
  BY NatLessThanWellFounded
<1>2. \A x, y \in Nat : y < x => <<y, x>> \in less
  BY DEF OpToRel
<1> HIDE DEF less
<1>3. PICK x \in S : \A y \in S : <<y, x>> \notin less
  BY <1>1, WFMin
<1>4. ASSUME NEW y \in S PROVE x <= y
  <2>1. x \in Nat /\ y \in Nat /\ ~(y < x)
    BY <1>2, <1>3
  <2> QED BY <2>1
<1> QED BY <1>4

\* Induction over the prefixes of a list: a set of lengths that has zero and,
\* with a length, the next one has them all.
LEMMA EveryLength ==
  ASSUME NEW n \in Nat, NEW G \in SUBSET (0..n), 0 \in G,
         \A m \in 1..n : m - 1 \in G => m \in G
  PROVE  G = 0..n
<1> SUFFICES ASSUME (0..n) \ G # {} PROVE FALSE
  OBVIOUS
<1>1. PICK m \in (0..n) \ G : \A k \in (0..n) \ G : m <= k
  <2>1. (0..n) \ G \in SUBSET Nat
    OBVIOUS
  <2> QED BY <2>1, LeastNumber
<1>2. m \in 1..n /\ m - 1 \in 0..n
  BY <1>1
<1>3. m - 1 \in G
  BY <1>1, <1>2
<1> QED BY <1>1, <1>2, <1>3

----------------------------------------------------------------------------
\* f follows the recursion of Without up to m.
Follows(f, s, gone, m) ==
  f = [n \in 0..m |-> IF n = 0 THEN <<>>
                      ELSE IF s[n] \in gone THEN f[n - 1]
                      ELSE Append(f[n - 1], s[n])]

\* The recursion has a solution for every list.
LEMMA FollowsExists ==
  ASSUME NEW s, NEW gone, NEW len \in Nat
  PROVE  \E f : Follows(f, s, gone, len)
<1> DEFINE G == {m \in 0..len : \E f : Follows(f, s, gone, m)}
<1>1. 0 \in G
  <2> DEFINE f == [n \in 0..0 |-> <<>>]
  <2>1. f = [n \in 0..0 |-> IF n = 0 THEN <<>>
                            ELSE IF s[n] \in gone THEN f[n - 1]
                            ELSE Append(f[n - 1], s[n])]
    OBVIOUS
  <2> HIDE DEF f
  <2>2. Follows(f, s, gone, 0)
    BY <2>1 DEF Follows
  <2> QED BY <2>2
<1>2. ASSUME NEW m \in 1..len, m - 1 \in G PROVE m \in G
  <2>1. PICK f : Follows(f, s, gone, m - 1)
    BY <1>2
  <2> DEFINE next == IF s[m] \in gone THEN f[m - 1] ELSE Append(f[m - 1], s[m])
             g == [n \in 0..m |-> IF n = m THEN next ELSE f[n]]
  <2>2. \A n \in 0..(m - 1) : g[n] = f[n]
    OBVIOUS
  <2>3. g[m] = next
    OBVIOUS
  <2>4. ASSUME NEW n \in 0..m
        PROVE  g[n] = IF n = 0 THEN <<>>
                      ELSE IF s[n] \in gone THEN g[n - 1]
                      ELSE Append(g[n - 1], s[n])
    <3>1. CASE n = m
      <4>1. m - 1 \in 0..(m - 1)
        OBVIOUS
      <4>2. g[m - 1] = f[m - 1]
        BY <2>2, <4>1
      <4> HIDE DEF g
      <4> QED BY <2>3, <3>1, <4>2
    <3>2. CASE n # m
      <4>1. n \in 0..(m - 1)
        BY <3>2
      <4>2. f[n] = IF n = 0 THEN <<>>
                   ELSE IF s[n] \in gone THEN f[n - 1]
                   ELSE Append(f[n - 1], s[n])
        BY <2>1, <4>1 DEF Follows
      <4>3. n # 0 => g[n - 1] = f[n - 1]
        BY <4>1
      <4>4. g[n] = f[n]
        BY <2>2, <4>1
      <4> HIDE DEF g
      <4> QED BY <4>2, <4>3, <4>4
    <3> QED BY <3>1, <3>2
  <2>5. g = [n \in 0..m |-> g[n]]
    OBVIOUS
  <2> HIDE DEF g
  <2>6. Follows(g, s, gone, m)
    BY <2>4, <2>5 DEF Follows
  <2> QED BY <2>6
<1> HIDE DEF G
<1>3. G = 0..len
  <2>1. G \in SUBSET (0..len)
    BY DEF G
  <2> QED BY <1>1, <1>2, <2>1, EveryLength
<1>4. len \in G
  BY <1>3
<1> QED BY <1>4 DEF G

\* What is left of a list: its entries but those that are gone, each once if each
\* was there once.
THEOREM WithoutLeaves ==
  ASSUME NEW S, NEW s \in Seq(S), NEW gone
  PROVE  /\ Without(s, gone) \in Seq(S)
         /\ Entries(Without(s, gone)) = Entries(s) \ gone
         /\ NoneTwice(s) => NoneTwice(Without(s, gone))
<1> DEFINE kept == CHOOSE f : Follows(f, s, gone, Len(s))
<1>1. Without(s, gone) = kept[Len(s)]
  BY DEF Without, Follows
<1>2. Follows(kept, s, gone, Len(s))
  BY FollowsExists
<1> HIDE DEF kept
<1>3. /\ kept[0] = <<>>
      /\ \A n \in 1..Len(s) :
           kept[n] = IF s[n] \in gone THEN kept[n - 1] ELSE Append(kept[n - 1], s[n])
  <2>1. \A n \in 0..Len(s) :
          kept[n] = IF n = 0 THEN <<>>
                    ELSE IF s[n] \in gone THEN kept[n - 1]
                    ELSE Append(kept[n - 1], s[n])
    BY <1>2 DEF Follows
  <2> QED BY <2>1
<1> DEFINE Once(n) == \A i, j \in 1..n : s[i] = s[j] => i = j
           Good(n) == /\ kept[n] \in Seq(S)
                      /\ Entries(kept[n]) = {s[i] : i \in 1..n} \ gone
                      /\ Once(n) => NoneTwice(kept[n])
           G == {n \in 0..Len(s) : Good(n)}
<1>4. 0 \in G
  <2>1. <<>> \in Seq(S) /\ Entries(<<>>) = {} /\ NoneTwice(<<>>)
    BY DEF Entries, NoneTwice
  <2>2. {s[i] : i \in 1..0} = {}
    OBVIOUS
  <2>3. Good(0)
    BY <1>3, <2>1, <2>2
  <2>4. 0 \in 0..Len(s)
    OBVIOUS
  <2> HIDE DEF Good
  <2> QED BY <2>3, <2>4
<1>5. ASSUME NEW n \in 1..Len(s), n - 1 \in G PROVE n \in G
  <2> DEFINE t == kept[n - 1]
  <2>1. /\ t \in Seq(S) /\ Entries(t) = {s[i] : i \in 1..(n - 1)} \ gone
        /\ Once(n - 1) => NoneTwice(t)
    BY <1>5
  <2>2. {s[i] : i \in 1..n} = {s[i] : i \in 1..(n - 1)} \cup {s[n]}
    OBVIOUS
  <2>3. Once(n) => Once(n - 1) /\ s[n] \notin {s[i] : i \in 1..(n - 1)}
    OBVIOUS
  <2>4. CASE s[n] \in gone
    <3>1. kept[n] = t
      BY <1>3, <2>4
    <3> HIDE DEF t, Once
    <3>2. Good(n)
      BY <2>1, <2>2, <2>3, <2>4, <3>1
    <3> QED BY <3>2
  <2>5. CASE s[n] \notin gone
    <3>1. kept[n] = Append(t, s[n])
      BY <1>3, <2>5
    <3>2. s[n] \in S
      OBVIOUS
    <3> HIDE DEF t, Once
    <3>3. /\ Append(t, s[n]) \in Seq(S) /\ Len(Append(t, s[n])) = Len(t) + 1
          /\ \A i \in 1..Len(t) : Append(t, s[n])[i] = t[i]
          /\ Append(t, s[n])[Len(t) + 1] = s[n]
          /\ Len(t) \in Nat
      BY <2>1, <3>2
    <3>4. Entries(Append(t, s[n])) = Entries(t) \cup {s[n]}
      BY <3>3 DEF Entries
    <3>5. ASSUME Once(n) PROVE NoneTwice(Append(t, s[n]))
      <4>1. NoneTwice(t) /\ s[n] \notin Entries(t)
        BY <2>1, <2>3, <3>5
      <4> QED BY <3>3, <4>1 DEF NoneTwice, Entries
    <3>6. Good(n)
      BY <2>1, <2>2, <2>5, <3>1, <3>3, <3>4, <3>5
    <3> QED BY <3>6
  <2> QED BY <2>4, <2>5
<1> HIDE DEF G
<1>6. Len(s) \in G
  <2>1. G \in SUBSET (0..Len(s))
    BY DEF G
  <2>2. Len(s) \in Nat
    OBVIOUS
  <2>3. G = 0..Len(s)
    BY <1>4, <1>5, <2>1, <2>2, EveryLength
  <2> QED BY <2>2, <2>3
<1>7. Good(Len(s))
  BY <1>6 DEF G
<1> QED BY <1>1, <1>7 DEF Entries, NoneTwice
=============================================================================
