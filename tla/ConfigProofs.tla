---------------------------- MODULE ConfigProofs ----------------------------
(***************************************************************************)
(* Proofs about Config, for all file trees, all lists of variables and     *)
(* flags and all sensitive and required paths that SourceAssumption        *)
(* allows.                                                                 *)
(*                                                                         *)
(* The invariant IInv follows each setting through the sources: InForce    *)
(* says which of them is in force, and FilesFirst remembers the types the  *)
(* files gave, which the sources after them take as hints.  A tree that    *)
(* came out of the loop over the variables is well formed by the least     *)
(* number of passes after which it would not be.                           *)
(***************************************************************************)
EXTENDS Config, FiniteSetTheorems, WellFoundedInduction, SequenceTheorems, TLAPS

\* Every entry of a tree is a value or a group.
Tree(t) == \A k \in DOMAIN t : t[k].leaf \in BOOLEAN
\* Hides for a tree that need not be one of the sources.
HidesIn(t, p) == p[1] \in DOMAIN t /\ t[p[1]].leaf = (Len(p) = 2)

\* What flattenMap lists: the keys with a value and the keys of each group.
LEMMA PathsAre ==
  ASSUME NEW t
  PROVE  /\ \A k : <<k>> \in Paths(t) <=> k \in DOMAIN t /\ t[k].leaf
         /\ \A k, s : <<k, s>> \in Paths(t) <=> k \in DOMAIN t /\ ~t[k].leaf /\ s \in DOMAIN t[k].sub
         /\ \A p \in Paths(t) : (\E k : p = <<k>>) \/ (\E k, s : p = <<k, s>>)
<1>1. ASSUME NEW k PROVE <<k>> \in Paths(t) <=> k \in DOMAIN t /\ t[k].leaf
  BY DEF Paths
<1>2. ASSUME NEW k, NEW s
      PROVE  <<k, s>> \in Paths(t) <=> k \in DOMAIN t /\ ~t[k].leaf /\ s \in DOMAIN t[k].sub
  BY DEF Paths
<1>3. \A p \in Paths(t) : (\E k : p = <<k>>) \/ (\E k, s : p = <<k, s>>)
  BY DEF Paths
<1> QED BY <1>1, <1>2, <1>3

\* What an entry made for a value and one made for a group hold.
LEMMA NodeIs ==
  /\ \A v : Leaf(v).leaf = TRUE /\ Leaf(v).v = v
  /\ \A f : Map(f).leaf = FALSE /\ Map(f).sub = f
BY DEF Leaf, Map

\* What mergeMaps does to each setting, of a group or not: those of src are there
\* with the value src gives them, and those of dst are kept with theirs
\* unless src has a value where their group was, or a group where they were.
LEMMA MergeIs ==
  ASSUME NEW dst, Tree(dst), NEW src, Tree(src)
  PROVE  LET t == mergeMaps(dst, src) IN
         /\ Tree(t)
         /\ \A p : p \in Paths(t) <=> \/ p \in Paths(src)
                                      \/ p \in Paths(dst) /\ ~HidesIn(src, p)
         /\ \A p \in Paths(t) : At(t, p) = IF p \in Paths(src) THEN At(src, p) ELSE At(dst, p)
<1>. DEFINE t == mergeMaps(dst, src)
<1>1. /\ DOMAIN t = DOMAIN dst \cup DOMAIN src
      /\ \A k \in DOMAIN dst \cup DOMAIN src :
           t[k] = IF k \notin DOMAIN src THEN dst[k]
                  ELSE IF k \in DOMAIN dst /\ ~dst[k].leaf /\ ~src[k].leaf
                  THEN Map(Over(src[k].sub, dst[k].sub)) ELSE src[k]
  BY DEF mergeMaps
<1>. HIDE DEF t
<1>2. /\ \A k \in DOMAIN dst : dst[k].leaf \in BOOLEAN
      /\ \A k \in DOMAIN src : src[k].leaf \in BOOLEAN
  BY DEF Tree
<1>3. Tree(t)
  <2>1. ASSUME NEW k \in DOMAIN t PROVE t[k].leaf \in BOOLEAN
    <3>. DEFINE group == Map(Over(src[k].sub, dst[k].sub))
    <3>1. group.leaf = FALSE
      BY NodeIs, Zenon
    <3>2. /\ k \in DOMAIN dst \/ k \in DOMAIN src
          /\ \/ t[k] = dst[k] /\ k \in DOMAIN dst
             \/ t[k] = group
             \/ t[k] = src[k] /\ k \in DOMAIN src
      BY <1>1
    <3>. HIDE DEF group
    <3> QED BY <1>2, <3>1, <3>2
  <2> QED BY <2>1 DEF Tree
<1>4. ASSUME NEW k
      PROVE  /\ <<k>> \in Paths(t) <=> \/ <<k>> \in Paths(src)
                                       \/ <<k>> \in Paths(dst) /\ ~HidesIn(src, <<k>>)
             /\ <<k>> \in Paths(t) =>
                  At(t, <<k>>) = IF <<k>> \in Paths(src) THEN At(src, <<k>>) ELSE At(dst, <<k>>)
  <2>1. \A u : At(u, <<k>>) = u[k].v
    BY DEF At
  <2>2. HidesIn(src, <<k>>) <=> k \in DOMAIN src /\ ~src[k].leaf
    BY <1>2 DEF HidesIn
  <2>3. <<k>> \in Paths(t) <=> k \in DOMAIN t /\ t[k].leaf
    BY PathsAre
  <2>4. <<k>> \in Paths(src) <=> k \in DOMAIN src /\ src[k].leaf
    BY PathsAre
  <2>5. <<k>> \in Paths(dst) <=> k \in DOMAIN dst /\ dst[k].leaf
    BY PathsAre
  <2> QED BY <1>1, <1>2, <2>1, <2>2, <2>3, <2>4, <2>5, NodeIs
<1>5. ASSUME NEW k, NEW s
      PROVE  LET p == <<k, s>> IN
             /\ p \in Paths(t) <=> \/ p \in Paths(src)
                                   \/ p \in Paths(dst) /\ ~HidesIn(src, p)
             /\ p \in Paths(t) =>
                  At(t, p) = IF p \in Paths(src) THEN At(src, p) ELSE At(dst, p)
  <2>1. \A u : At(u, <<k, s>>) = u[k].sub[s]
    BY DEF At
  <2>2. HidesIn(src, <<k, s>>) <=> k \in DOMAIN src /\ src[k].leaf
    BY <1>2 DEF HidesIn
  <2>3. \A u : <<k, s>> \in Paths(u) <=> k \in DOMAIN u /\ ~u[k].leaf /\ s \in DOMAIN u[k].sub
    BY PathsAre
  <2>4. CASE k \in DOMAIN src /\ k \in DOMAIN dst /\ ~dst[k].leaf /\ ~src[k].leaf
    <3>. DEFINE a == src[k].sub
                b == dst[k].sub
    <3>1. t[k].leaf = FALSE /\ t[k].sub = Over(a, b) /\ k \in DOMAIN t
      BY <1>1, <2>4, NodeIs
    <3>2. /\ s \in DOMAIN Over(a, b) <=> s \in DOMAIN a \/ s \in DOMAIN b
          /\ s \in DOMAIN a => Over(a, b)[s] = a[s]
          /\ s \in DOMAIN b /\ s \notin DOMAIN a => Over(a, b)[s] = b[s]
      BY DEF Over
    <3>3. /\ <<k, s>> \in Paths(t) <=> s \in DOMAIN Over(a, b)
          /\ <<k, s>> \in Paths(src) <=> s \in DOMAIN a
          /\ <<k, s>> \in Paths(dst) <=> s \in DOMAIN b
      BY <2>3, <2>4, <3>1
    <3>4. At(t, <<k, s>>) = Over(a, b)[s] /\ At(src, <<k, s>>) = a[s] /\ At(dst, <<k, s>>) = b[s]
      BY <2>1, <3>1
    <3>5. ~HidesIn(src, <<k, s>>)
      BY <2>2, <2>4
    <3>. HIDE DEF a, b
    <3> QED BY <3>2, <3>3, <3>4, <3>5
  <2>5. CASE k \in DOMAIN src /\ ~(k \in DOMAIN dst /\ ~dst[k].leaf /\ ~src[k].leaf)
    <3>1. t[k] = src[k] /\ k \in DOMAIN t
      BY <1>1, <2>5
    <3> QED BY <1>2, <2>1, <2>2, <2>3, <2>5, <3>1
  <2>6. CASE k \notin DOMAIN src
    <3>1. (k \in DOMAIN t <=> k \in DOMAIN dst) /\ (k \in DOMAIN dst => t[k] = dst[k])
      BY <1>1, <2>6
    <3> QED BY <2>1, <2>2, <2>3, <2>6, <3>1
  <2> QED BY <2>4, <2>5, <2>6
<1>6. ASSUME NEW p
      PROVE  /\ p \in Paths(t) <=> \/ p \in Paths(src)
                                   \/ p \in Paths(dst) /\ ~HidesIn(src, p)
             /\ p \in Paths(t) =>
                  At(t, p) = IF p \in Paths(src) THEN At(src, p) ELSE At(dst, p)
  <2>1. CASE \E k : p = <<k>>
    BY <1>4, <2>1, Zenon
  <2>2. CASE \E k, s : p = <<k, s>>
    BY <1>5, <2>2, Zenon
  <2>3. CASE p \notin Paths(t) /\ p \notin Paths(src) /\ p \notin Paths(dst)
    BY <2>3
  <2> QED BY <2>1, <2>2, <2>3, PathsAre
<1> QED BY <1>3, <1>6 DEF t

\* applyTypedOverrides changes no path: each value is parsed with the type of
\* what it overrides as the hint.
LEMMA TypedIs ==
  ASSUME NEW base, NEW over, Tree(over)
  PROVE  LET t == applyTypedOverrides(base, over) IN
         /\ Tree(t) /\ Paths(t) = Paths(over)
         /\ \A p : HidesIn(t, p) <=> HidesIn(over, p)
         /\ \A p \in Paths(over) : At(t, p) = parseWithHint(Hint(base, p), At(over, p).text)
<1>. DEFINE t == applyTypedOverrides(base, over)
            value(k) == parseWithHint(Hint(base, <<k>>), over[k].v.text)
            item(k, s) == parseWithHint(Hint(base, <<k, s>>), over[k].sub[s].text)
            group(k) == [s \in DOMAIN over[k].sub |-> item(k, s)]
<1>1. /\ DOMAIN t = DOMAIN over
      /\ \A k \in DOMAIN over : t[k] = IF over[k].leaf THEN Leaf(value(k)) ELSE Map(group(k))
  BY DEF applyTypedOverrides
<1>2. \A k \in DOMAIN over : over[k].leaf \in BOOLEAN
  BY DEF Tree
<1>0. \A k : DOMAIN group(k) = DOMAIN over[k].sub /\ \A s \in DOMAIN over[k].sub : group(k)[s] = item(k, s)
  OBVIOUS
<1>. HIDE DEF t, value, item, group
<1>3. \A k \in DOMAIN over : /\ t[k].leaf = over[k].leaf
                             /\ over[k].leaf => t[k].v = value(k)
                             /\ ~over[k].leaf => t[k].sub = group(k)
  <2>1. ASSUME NEW k \in DOMAIN over
        PROVE  /\ t[k].leaf = over[k].leaf
               /\ over[k].leaf => t[k].v = value(k)
               /\ ~over[k].leaf => t[k].sub = group(k)
    <3>1. over[k].leaf \in BOOLEAN
      BY <1>2
    <3>2. CASE over[k].leaf = TRUE
      <4>1. t[k] = Leaf(value(k))
        BY <1>1, <3>2
      <4>2. Leaf(value(k)).leaf = TRUE /\ Leaf(value(k)).v = value(k)
        BY NodeIs, Zenon
      <4>3. t[k].leaf = TRUE /\ t[k].v = value(k)
        BY <4>1, <4>2, Zenon
      <4> QED BY <3>2, <4>3
    <3>3. CASE over[k].leaf = FALSE
      <4>1. t[k] = Map(group(k))
        BY <1>1, <3>3
      <4>2. Map(group(k)).leaf = FALSE /\ Map(group(k)).sub = group(k)
        BY NodeIs, Zenon
      <4>3. t[k].leaf = FALSE /\ t[k].sub = group(k)
        BY <4>1, <4>2, Zenon
      <4> QED BY <3>3, <4>3
    <3> QED BY <3>1, <3>2, <3>3
  <2> QED BY <2>1
<1>9. \A k, s : k \in DOMAIN over /\ ~over[k].leaf =>
         /\ s \in DOMAIN t[k].sub <=> s \in DOMAIN over[k].sub
         /\ s \in DOMAIN over[k].sub => t[k].sub[s] = item(k, s)
  BY <1>0, <1>3
<1>4. Tree(t)
  BY <1>1, <1>2, <1>3 DEF Tree
<1>5. ASSUME NEW k
      PROVE  /\ <<k>> \in Paths(t) <=> <<k>> \in Paths(over)
             /\ <<k>> \in Paths(over) =>
                  At(t, <<k>>) = parseWithHint(Hint(base, <<k>>), At(over, <<k>>).text)
  <2>0. \A u : At(u, <<k>>) = u[k].v
    BY DEF At
  <2>1. At(t, <<k>>) = t[k].v /\ value(k) = parseWithHint(Hint(base, <<k>>), At(over, <<k>>).text)
    BY <2>0 DEF value
  <2>2. \A u : <<k>> \in Paths(u) <=> k \in DOMAIN u /\ u[k].leaf
    BY PathsAre
  <2> QED BY <1>1, <1>2, <1>3, <2>1, <2>2
<1>6. ASSUME NEW k, NEW s
      PROVE  LET p == <<k, s>> IN
             /\ p \in Paths(t) <=> p \in Paths(over)
             /\ p \in Paths(over) => At(t, p) = parseWithHint(Hint(base, p), At(over, p).text)
  <2>0. \A u : At(u, <<k, s>>) = u[k].sub[s]
    BY DEF At
  <2>1. /\ At(t, <<k, s>>) = t[k].sub[s]
        /\ item(k, s) = parseWithHint(Hint(base, <<k, s>>), At(over, <<k, s>>).text)
    BY <2>0 DEF item
  <2>2. \A u : <<k, s>> \in Paths(u) <=> k \in DOMAIN u /\ ~u[k].leaf /\ s \in DOMAIN u[k].sub
    BY PathsAre
  <2> QED BY <1>1, <1>2, <1>3, <1>9, <2>1, <2>2
<1>7. \A p : HidesIn(t, p) <=> HidesIn(over, p)
  BY <1>1, <1>3 DEF HidesIn
<1>8. ASSUME NEW p
      PROVE  /\ p \in Paths(t) <=> p \in Paths(over)
             /\ p \in Paths(over) => At(t, p) = parseWithHint(Hint(base, p), At(over, p).text)
  <2>1. CASE \E k : p = <<k>>
    BY <1>5, <2>1
  <2>2. CASE \E k, s : p = <<k, s>>
    BY <1>6, <2>2
  <2>3. CASE p \notin Paths(t) /\ p \notin Paths(over)
    BY <2>3
  <2> QED BY <2>1, <2>2, <2>3, PathsAre
<1> QED BY <1>4, <1>7, <1>8 DEF t

\* The least-number principle, which stands in for induction over the loop of
\* ToMap.
LEMMA LeastNat ==
  ASSUME NEW T \in SUBSET Nat, T # {}
  PROVE  \E x \in T : \A y \in T : x <= y
<1>. DEFINE R == {ss \in Nat \X Nat : ss[1] < ss[2]}
<1>1. IsWellFoundedOn(R, Nat)
  BY NatLessThanWellFounded, Zenon DEF OpToRel
<1>2. \A x, y \in Nat : <<y, x>> \in R <=> y < x
  OBVIOUS
<1>3. T \subseteq Nat /\ T # {}
  OBVIOUS
<1>. HIDE DEF R
<1>4. PICK x \in T : \A y \in T : ~(<<y, x>> \in R)
  BY <1>1, <1>3, WFMin, Zenon
<1>5. ASSUME NEW y \in T PROVE x <= y
  <2>1. x \in Nat /\ y \in Nat
    OBVIOUS
  <2>2. ~(<<y, x>> \in R)
    BY <1>4
  <2>3. ~(y < x)
    BY <1>2, <2>1, <2>2
  <2> QED BY <2>1, <2>3
<1> QED BY <1>5

\* setPath leaves a tree a tree, whatever was at the path before.
LEMMA SetPathTree ==
  ASSUME NEW m, Tree(m), NEW p, NEW v
  PROVE  Tree(setPath(m, p, v))
<1>. DEFINE group == IF p[1] \in DOMAIN m /\ ~m[p[1]].leaf THEN m[p[1]].sub ELSE Empty
            node == IF Len(p) = 1 THEN Leaf(v) ELSE Map(Over([s \in {p[2]} |-> v], group))
            g == [k \in {p[1]} |-> node]
<1>1. node.leaf \in BOOLEAN
  <2>. DEFINE sub == Over([s \in {p[2]} |-> v], group)
  <2>. HIDE DEF sub
  <2> QED BY NodeIs
<1>. HIDE DEF node
<1>2. Tree(g)
  BY <1>1 DEF Tree
<1>3. setPath(m, p, v) = Over(g, m)
  BY DEF setPath, node
<1>. HIDE DEF g
<1>4. \A k \in DOMAIN Over(g, m) : Over(g, m)[k].leaf \in BOOLEAN
  BY <1>2 DEF Tree, Over
<1> QED BY <1>3, <1>4 DEF Tree

\* envToMap and argsToMap end with a tree, however many variables or flags
\* there are: every pass of the loop does.
LEMMA ToMapTree ==
  ASSUME NEW list, Len(list) \in Nat
  PROVE  Tree(ToMap(list))
<1>. DEFINE L == Len(list)
            next(m, n) == setPath(m, list[n][1], Value(list[n][2], "str"))
            Runs(g, n) == g = [i \in 0 .. n |-> IF i = 0 THEN Empty ELSE next(g[i - 1], i)]
            f == CHOOSE g : Runs(g, L)
<1>1. ToMap(list) = f[L]
  BY DEF ToMap
<1>. HIDE DEF f, L, next
<1>2. L \in Nat
  BY DEF L
<1>3. \A n \in Nat : \E g : Runs(g, n)
  <2>. DEFINE B == {n \in Nat : ~\E g : Runs(g, n)}
  <2>1. SUFFICES B = {}
    OBVIOUS
  <2>2. SUFFICES ASSUME B # {} PROVE FALSE
    OBVIOUS
  <2>3. PICK n \in B : \A y \in B : n <= y
    <3>1. B \in SUBSET Nat
      OBVIOUS
    <3>. HIDE DEF B
    <3> QED BY <2>2, <3>1, LeastNat
  <2>4. n \in Nat /\ ~\E g : Runs(g, n)
    OBVIOUS
  <2>5. CASE n = 0
    <3>. DEFINE g == [i \in 0 .. 0 |-> Empty]
    <3>1. Runs(g, 0)
      OBVIOUS
    <3> QED BY <2>4, <2>5, <3>1
  <2>6. CASE n # 0
    <3>1. n - 1 \in Nat /\ n - 1 \notin B
      BY <2>3, <2>4, <2>6
    <3>2. PICK g : Runs(g, n - 1)
      BY <3>1
    <3>. DEFINE h == [i \in 0 .. n |-> IF i = n THEN next(g[n - 1], n) ELSE g[i]]
    <3>3. ASSUME NEW i \in 0 .. n PROVE h[i] = IF i = 0 THEN Empty ELSE next(h[i - 1], i)
      <4>1. CASE i = n
        BY <2>4, <2>6, <4>1
      <4>2. CASE i # n
        <5>1. i \in 0 .. n - 1 /\ h[i] = g[i] /\ (i # 0 => h[i - 1] = g[i - 1])
          BY <2>4, <4>2
        <5>2. g[i] = IF i = 0 THEN Empty ELSE next(g[i - 1], i)
          BY <3>2, <5>1
        <5> QED BY <5>1, <5>2
      <4> QED BY <4>1, <4>2
    <3>4. Runs(h, n)
      BY <3>3
    <3> QED BY <2>4, <3>4
  <2> QED BY <2>5, <2>6
<1>4. Runs(f, L)
  <2>1. \E g : Runs(g, L)
    BY <1>2, <1>3
  <2>. HIDE DEF Runs
  <2> QED BY <2>1, Zenon DEF f
<1>5. \A n \in 0 .. L : f[n] = IF n = 0 THEN Empty ELSE next(f[n - 1], n)
  BY <1>4
<1>6. \A n \in 0 .. L : Tree(f[n])
  <2>. DEFINE B == {n \in 0 .. L : ~Tree(f[n])}
  <2>1. SUFFICES ASSUME B # {} PROVE FALSE
    OBVIOUS
  <2>2. PICK n \in B : \A y \in B : n <= y
    <3>1. B \in SUBSET Nat
      BY <1>2
    <3>. HIDE DEF B
    <3> QED BY <2>1, <3>1, LeastNat
  <2>3. n \in 0 .. L /\ ~Tree(f[n])
    OBVIOUS
  <2>4. CASE n = 0
    BY <1>5, <2>3, <2>4 DEF Tree, Empty
  <2>5. CASE n # 0
    <3>1. n - 1 \in 0 .. L /\ n - 1 \notin B
      BY <1>2, <2>2, <2>3, <2>5
    <3>2. Tree(f[n - 1]) /\ f[n] = next(f[n - 1], n)
      BY <1>5, <2>3, <2>5, <3>1
    <3> QED BY <2>3, <3>2, SetPathTree DEF next
  <2> QED BY <2>4, <2>5
<1> QED BY <1>1, <1>2, <1>6

-----------------------------------------------------------------------------
\* The names of the sources.
Names == {Order[i] : i \in 1 .. 5}
\* What a source may contain, whatever its kind.
Trees == FileTrees \cup {ToMap(list) : list \in Assignments}

\* The state has its shape: the sources read so far contain trees, and what
\* is merged is one.
Shape ==
  /\ phase \in 0 .. 7
  /\ given \in Seq(Names \X Trees)
  /\ Tree(merged)

\* LastSourceWins, with the settings of the merged tree named by their winner
\* instead of listed, so that a merge can be followed path by path.
InForce ==
  LET n == Len(given) IN
  /\ \A p : p \in Paths(merged) <=> Winners(n, p) # {}
  /\ \A p \in Paths(merged) :
       LET source == given[Winner(n, p)] IN
       /\ StandsFor(At(merged, p), source[1], At(source[2], p))
       /\ p \in DOMAIN sourceMap /\ sourceMap[p] = source[1]

\* A source of any kind contains a tree.
LEMMA TreesAre == \A t \in Trees : Tree(t)
BY SourceAssumption, ToMapTree DEF Trees, Tree

\* A source more on the list of those read, and none of the others moved.
LEMMA GivenGrows ==
  ASSUME Shape, NEW source \in Names, NEW m \in Trees, given' = Append(given, <<source, m>>),
         NEW n, n = Len(given)
  PROVE  /\ n \in Nat /\ Len(given') = n + 1 /\ given' \in Seq(Names \X Trees)
         /\ DOMAIN given = 1 .. n /\ DOMAIN given' = 1 .. n + 1
         /\ \A i \in 1 .. n : given'[i] = given[i] /\ given[i] \in Names \X Trees
         /\ given'[n + 1][1] = source /\ given'[n + 1][2] = m
<1>1. given \in Seq(Names \X Trees) /\ <<source, m>> \in Names \X Trees
  BY DEF Shape
<1>2. n \in Nat /\ DOMAIN given = 1 .. n /\ \A i \in 1 .. n : given[i] \in Names \X Trees
  BY <1>1, LenProperties
<1>3. /\ given' \in Seq(Names \X Trees) /\ Len(given') = n + 1
      /\ \A i \in 1 .. n : given'[i] = given[i]
      /\ given'[n + 1] = <<source, m>>
  BY <1>1, AppendProperties
<1>4. DOMAIN given' = 1 .. n + 1
  BY <1>2, <1>3, LenProperties
<1> QED BY <1>2, <1>3, <1>4

\* Who is in force when a source is added: the new one for what it gives,
\* nobody for what it hides, and the same one as before for the rest.  Who
\* was in force among fewer sources stays as it was.
LEMMA WinnersGrow ==
  ASSUME Shape, NEW source \in Names, NEW m \in Trees, given' = Append(given, <<source, m>>),
         NEW n, n = Len(given), NEW p
  PROVE  /\ \A i \in 1 .. n : (Gives(i, p)' <=> Gives(i, p)) /\ (Hides(i, p)' <=> Hides(i, p))
         /\ Gives(n + 1, p)' <=> p \in Paths(m)
         /\ Hides(n + 1, p)' <=> HidesIn(m, p)
         /\ \A f \in 0 .. n : Winners(f, p)' = Winners(f, p)
         /\ Winners(n + 1, p)' = IF p \in Paths(m) THEN {n + 1}
                                 ELSE IF HidesIn(m, p) THEN {} ELSE Winners(n, p)
<1>1. /\ n \in Nat
      /\ \A i \in 1 .. n : given'[i] = given[i]
      /\ given'[n + 1][2] = m
  BY GivenGrows
<1>2. \A i \in 1 .. n : (Gives(i, p)' <=> Gives(i, p)) /\ (Hides(i, p)' <=> Hides(i, p))
  BY <1>1 DEF Gives, Hides
<1>3. Gives(n + 1, p)' <=> p \in Paths(m)
  BY <1>1 DEF Gives
<1>4. Hides(n + 1, p)' <=> HidesIn(m, p)
  BY <1>1 DEF Hides, HidesIn
<1>5. ASSUME NEW f \in 0 .. n PROVE Winners(f, p)' = Winners(f, p)
  <2>1. Winners(f, p) = {i \in 1 .. f : Gives(i, p) /\ \A j \in (i + 1) .. f : ~Gives(j, p) /\ ~Hides(j, p)}
    BY DEF Winners
  <2>2. Winners(f, p)' = {i \in 1 .. f : Gives(i, p)' /\ \A j \in (i + 1) .. f : ~Gives(j, p)' /\ ~Hides(j, p)'}
    BY DEF Winners
  <2> QED BY <1>1, <1>2, <2>1, <2>2
<1>6. Winners(n + 1, p)' = IF p \in Paths(m) THEN {n + 1}
                           ELSE IF HidesIn(m, p) THEN {} ELSE Winners(n, p)
  <2>. DEFINE W == Winners(n + 1, p)'
  <2>1. Winners(n, p) = {i \in 1 .. n : Gives(i, p) /\ \A j \in (i + 1) .. n : ~Gives(j, p) /\ ~Hides(j, p)}
    BY DEF Winners
  <2>2. W = {i \in 1 .. n + 1 : Gives(i, p)' /\ \A j \in (i + 1) .. n + 1 : ~Gives(j, p)' /\ ~Hides(j, p)'}
    BY DEF Winners
  <2>. HIDE DEF W
  <2>3. n + 1 \in W <=> p \in Paths(m)
    BY <1>1, <1>3, <2>2
  <2>4. ASSUME NEW i \in 1 .. n
        PROVE  i \in W <=> p \notin Paths(m) /\ ~HidesIn(m, p) /\ i \in Winners(n, p)
    <3>1. i \in Winners(n, p) <=> Gives(i, p) /\ \A j \in (i + 1) .. n : ~Gives(j, p) /\ ~Hides(j, p)
      BY <2>1
    <3>2. i \in W <=> Gives(i, p)' /\ \A j \in (i + 1) .. n + 1 : ~Gives(j, p)' /\ ~Hides(j, p)'
      BY <1>1, <2>2
    <3>3. \A j \in (i + 1) .. n : j \in 1 .. n /\ j \in (i + 1) .. n + 1
      BY <1>1
    <3>4. n + 1 \in (i + 1) .. n + 1 /\ \A j \in (i + 1) .. n + 1 : j = n + 1 \/ j \in (i + 1) .. n
      BY <1>1
    <3> QED BY <1>2, <1>3, <1>4, <3>1, <3>2, <3>3, <3>4
  <2>5. \A i \in W : i = n + 1 \/ i \in 1 .. n
    BY <1>1, <2>2
  <2>6. \A i \in Winners(n, p) : i \in 1 .. n
    BY <2>1
  <2>7. n + 1 \notin 1 .. n
    BY <1>1
  <2>8. p \in Paths(m) => W = {n + 1}
    BY <2>3, <2>4, <2>5
  <2>9. p \notin Paths(m) /\ HidesIn(m, p) => W = {}
    BY <2>3, <2>4, <2>5
  <2>10. ASSUME p \notin Paths(m), ~HidesIn(m, p) PROVE W = Winners(n, p)
    <3>1. \A i : i \in W => i \in Winners(n, p)
      BY <2>3, <2>4, <2>5, <2>10
    <3>2. \A i : i \in Winners(n, p) => i \in W
      BY <2>4, <2>6, <2>10
    <3>. HIDE DEF W
    <3>3. \A i : i \in W <=> i \in Winners(n, p)
      BY <3>1, <3>2
    <3> QED BY <3>3, Zenon
  <2>11. W = IF p \in Paths(m) THEN {n + 1} ELSE IF HidesIn(m, p) THEN {} ELSE Winners(n, p)
    BY <2>8, <2>9, <2>10
  <2> QED BY <2>11 DEF W
<1> QED BY <1>2, <1>3, <1>4, <1>5, <1>6

\* A merge leaves the last source in force, with what it says and its name on
\* record, if the types it sets change no path and keep to what it says.
LEMMA MergeKeeps ==
  ASSUME Shape, InForce, NEW source \in Names, NEW m \in Trees, NEW typed, Merge(m, typed, source),
         Tree(typed), Paths(typed) = Paths(m), \A p : HidesIn(typed, p) <=> HidesIn(m, p),
         \A p \in Paths(m) : StandsFor(At(typed, p), source, At(m, p))
  PROVE  InForce' /\ Tree(merged')
<1>1. given' = Append(given, <<source, m>>) /\ merged' = mergeMaps(merged, typed)
      /\ sourceMap' = Over([p \in Paths(m) |-> source], sourceMap)
  BY DEF Merge, recordSources
<1>2. PICK n : n = Len(given)
  OBVIOUS
<1>3. /\ n \in Nat /\ Len(given') = n + 1
      /\ \A i \in 1 .. n : given'[i] = given[i]
      /\ given'[n + 1][1] = source /\ given'[n + 1][2] = m
  BY <1>1, <1>2, GivenGrows
<1>4. /\ Tree(merged')
      /\ \A p : p \in Paths(merged') <=> p \in Paths(m) \/ (p \in Paths(merged) /\ ~HidesIn(m, p))
      /\ \A p \in Paths(merged') :
           At(merged', p) = IF p \in Paths(m) THEN At(typed, p) ELSE At(merged, p)
  BY <1>1, MergeIs DEF Shape
<1>5. ASSUME NEW p
      PROVE  Winners(n + 1, p)' = IF p \in Paths(m) THEN {n + 1}
                                  ELSE IF HidesIn(m, p) THEN {} ELSE Winners(n, p)
  BY <1>1, <1>2, WinnersGrow
<1>6. ASSUME NEW p PROVE p \in Paths(merged') <=> Winners(n + 1, p)' # {}
  <2>1. p \in Paths(merged) <=> Winners(n, p) # {}
    BY <1>2 DEF InForce
  <2> QED BY <1>4, <1>5, <2>1
<1>7. ASSUME NEW p \in Paths(merged')
      PROVE  LET w == given'[Winner(n + 1, p)'] IN
             /\ StandsFor(At(merged', p), w[1], At(w[2], p))
             /\ p \in DOMAIN sourceMap' /\ sourceMap'[p] = w[1]
  <2>1. CASE p \in Paths(m)
    <3>1. Winners(n + 1, p)' = {n + 1}
      BY <1>5, <2>1
    <3>2. Winner(n + 1, p)' = n + 1
      BY <3>1 DEF Winner
    <3>3. p \in DOMAIN sourceMap' /\ sourceMap'[p] = source
      BY <1>1, <2>1 DEF Over
    <3> QED BY <1>3, <1>4, <2>1, <3>2, <3>3
  <2>2. CASE p \notin Paths(m)
    <3>1. p \in Paths(merged) /\ ~HidesIn(m, p) /\ At(merged', p) = At(merged, p)
      BY <1>4, <2>2
    <3>2. Winners(n + 1, p)' = Winners(n, p) /\ Winners(n, p) # {}
      BY <1>2, <1>5, <2>2, <3>1 DEF InForce
    <3>3. Winner(n + 1, p)' = Winner(n, p)
      BY <3>2 DEF Winner
    <3>4. Winner(n, p) \in 1 .. n
      <4>1. Winner(n, p) \in Winners(n, p)
        BY <3>2 DEF Winner
      <4> QED BY <4>1 DEF Winners
    <3>5. LET w == given[Winner(n, p)] IN
          /\ StandsFor(At(merged, p), w[1], At(w[2], p))
          /\ p \in DOMAIN sourceMap /\ sourceMap[p] = w[1]
      BY <1>2, <3>1 DEF InForce
    <3>6. p \in DOMAIN sourceMap' /\ sourceMap'[p] = sourceMap[p]
      BY <1>1, <2>2, <3>5 DEF Over
    <3>7. given'[Winner(n + 1, p)'] = given[Winner(n, p)]
      BY <1>3, <3>3, <3>4
    <3> QED BY <3>1, <3>5, <3>6, <3>7
  <2> QED BY <2>1, <2>2
<1>8. Len(given)' = n + 1
  BY <1>3
<1>9. InForce'
  BY <1>6, <1>7, <1>8 DEF InForce
<1> QED BY <1>4, <1>9

\* What looks empty or masked in the merged tree is a string, so that the two
\* checks on strings, isEmpty and isPlaceholder, see it.
Plain == \A p \in Paths(merged) : At(merged, p).text \in {"", "***"} => At(merged, p).kind = "str"

\* What validation has established: it accepted only what passed
\* validateSensitiveSources, and wrote only a masked summary.
Checked ==
  /\ phase = Accepted => validateSensitiveSources(merged, sourceMap)
  /\ \A p \in DOMAIN summary : isSensitivePath(p) => summary[p] = "***"

\* Source i is a file.
FromFile(i) == given[i][1] \notin {"env", "flags"}

\* After the first f sources p is an int, and every later one that gives p
\* gives a number and none hides it: the hypothesis of TypeKept.
NumberSince(f, p) ==
  /\ Winners(f, p) # {}
  /\ At(given[Winner(f, p)][2], p).kind = "int"
  /\ \A i \in (f + 1) .. Len(given) :
       (Gives(i, p) => IsInt(At(given[i][2], p).text)) /\ ~Hides(i, p)

\* The first f sources are the files; as long as no other was read, what is
\* merged has the types the files gave it; and a number that is overridden by
\* numbers only is one now.
FilesFirst(f) ==
  LET n == Len(given) IN
  /\ f \in 0 .. n
  /\ \A i \in 1 .. n : FromFile(i) <=> i <= f
  /\ phase \in 1 .. 4 => f = n
  /\ f = n => \A p \in Paths(merged) : At(merged, p) = At(given[Winner(n, p)][2], p)
  /\ \A p : NumberSince(f, p) => p \in Paths(merged) /\ At(merged, p).kind = "int"

\* The inductive invariant.
IInv == Shape /\ InForce /\ Plain /\ Checked /\ \E f \in Nat : FilesFirst(f)

\* Which sources are files.
LEMMA OrderIs ==
  /\ \A i \in 1 .. 3 : Order[i] \in Names /\ Order[i] \notin {"env", "flags"}
  /\ \A i \in 4 .. 5 : Order[i] \in Names /\ Order[i] \in {"env", "flags"}
<1>1. /\ Order[1] = "default" /\ Order[2] = "env-file" /\ Order[3] = "local"
      /\ Order[4] = "env" /\ Order[5] = "flags"
  BY DEF Order
<1>2. \A i \in 1 .. 3 : i \in 1 .. 5 /\ (i = 1 \/ i = 2 \/ i = 3)
  OBVIOUS
<1>3. \A i \in 4 .. 5 : i \in 1 .. 5 /\ (i = 4 \/ i = 5)
  OBVIOUS
<1> QED BY <1>1, <1>2, <1>3 DEF Names

\* What parseWithHint returns is spelt by the text; what looks empty or masked
\* is a string; and an integer over an int is an int.
LEMMA ParsedIs ==
  ASSUME NEW hint, NEW text
  PROVE  LET v == parseWithHint(hint, text) IN
         /\ Spells(text, v)
         /\ v.text \in {"", "***"} => v.kind = "str"
         /\ hint = "int" /\ IsInt(text) => v.kind = "int"
<1>1. \A t : IsFloat(t) => Number(t) \in {"1", "7", "0.5"}
  BY DEF IsFloat, IsInt, Number
<1>2. \A t, k : Value(t, k).text = t /\ Value(t, k).kind = k
  BY DEF Value
<1>3. \A t : IsInt(t) => IsFloat(t)
  BY DEF IsFloat
<1>. DEFINE v == parseWithHint(hint, text)
<1>4. \/ v = Value(Number(text), hint) /\ hint \in {"int", "int64", "float64"} /\ IsFloat(text)
      \/ v = Value("true", "bool") /\ IsBool(text)
      \/ v = Value(Number(text), "int64") /\ IsFloat(text)
      \/ v = Value(Number(text), "float64") /\ IsFloat(text)
      \/ v = Value(text, "str")
  <2>1. CASE (hint \in {"int", "int64"} /\ IsInt(text)) \/ (hint = "float64" /\ IsFloat(text))
    <3>1. v = Value(Number(text), hint)
      BY <2>1 DEF parseWithHint
    <3> QED BY <1>3, <2>1, <3>1
  <2>2. CASE ~((hint \in {"int", "int64"} /\ IsInt(text)) \/ (hint = "float64" /\ IsFloat(text)))
    <3>1. v = Parsed(text)
      BY <2>2 DEF parseWithHint
    <3>2. \/ v = Value("true", "bool") /\ IsBool(text)
          \/ v = Value(Number(text), "int64") /\ IsFloat(text)
          \/ v = Value(Number(text), "float64") /\ IsFloat(text)
          \/ v = Value(text, "str")
      BY <1>3, <3>1, Zenon DEF Parsed
    <3> QED BY <3>2
  <2> QED BY <2>1, <2>2
<1>5. hint = "int" /\ IsInt(text) => v = Value(Number(text), "int")
  BY DEF parseWithHint
<1>. HIDE DEF v
<1>6. Spells(text, v)
  BY <1>2, <1>4 DEF Spells
<1>7. v.text \in {"", "***"} => v.kind = "str"
  <2>1. v.text = "true" \/ (v.text = Number(text) /\ IsFloat(text)) \/ v.kind = "str"
    BY <1>2, <1>4
  <2>2. CASE v.text = Number(text) /\ IsFloat(text)
    <3>1. v.text \in {"1", "7", "0.5"}
      BY <1>1, <2>2
    <3> QED BY <3>1
  <2> QED BY <2>1, <2>2
<1>8. hint = "int" /\ IsInt(text) => v.kind = "int"
  BY <1>2, <1>5
<1> QED BY <1>6, <1>7, <1>8 DEF v

\* A file that is read keeps the invariant: one more source is a file, and
\* what it gives has its own types.
LEMMA FileMerges ==
  ASSUME IInv, NEW m \in FileTrees, phase \in 1 .. 3, Merge(m, m, Order[phase]),
         phase' \in 0 .. 4, summary' = summary
  PROVE  IInv'
<1>1. /\ Shape /\ InForce /\ Plain /\ Checked /\ m \in Trees /\ Order[phase] \in Names
      /\ Order[phase] \notin {"env", "flags"}
  BY OrderIs DEF IInv, Trees
<1>2. Tree(m)
  BY <1>1, TreesAre
<1>3. InForce' /\ Tree(merged')
  <2>1. \A p \in Paths(m) : StandsFor(At(m, p), Order[phase], At(m, p))
    BY <1>1 DEF StandsFor
  <2> QED BY <1>1, <1>2, <2>1, MergeKeeps
<1>4. given' = Append(given, <<Order[phase], m>>) /\ merged' = mergeMaps(merged, m)
  BY DEF Merge
<1>5. PICK n : n = Len(given)
  OBVIOUS
<1>6. /\ n \in Nat /\ Len(given') = n + 1 /\ given' \in Seq(Names \X Trees)
      /\ \A i \in 1 .. n : given'[i] = given[i]
      /\ given'[n + 1][1] = Order[phase] /\ given'[n + 1][2] = m
  BY <1>1, <1>4, <1>5, GivenGrows
<1>7. Shape'
  BY <1>3, <1>6 DEF Shape
<1>8. /\ \A p : p \in Paths(merged') <=> p \in Paths(m) \/ (p \in Paths(merged) /\ ~HidesIn(m, p))
      /\ \A p \in Paths(merged') :
           At(merged', p) = IF p \in Paths(m) THEN At(m, p) ELSE At(merged, p)
  BY <1>1, <1>2, <1>4, MergeIs DEF Shape
<1>9. Plain'
  BY <1>1, <1>8, SourceAssumption DEF Plain
<1>10. Checked'
  BY <1>1 DEF Checked, Accepted
<1>11. PICK f : FilesFirst(f)
  BY DEF IInv
<1>12. f = n
  BY <1>5, <1>11 DEF FilesFirst
<1>13. \A i \in 1 .. n + 1 : FromFile(i)'
  <2>1. \A i \in 1 .. n : FromFile(i)' <=> FromFile(i)
    BY <1>6 DEF FromFile
  <2>2. \A i \in 1 .. n : FromFile(i)
    BY <1>5, <1>6, <1>11, <1>12 DEF FilesFirst
  <2>3. FromFile(n + 1)'
    BY <1>1, <1>6 DEF FromFile
  <2> QED BY <1>6, <2>1, <2>2, <2>3
<1>14. ASSUME NEW p \in Paths(merged')
       PROVE  At(merged', p) = At(given'[Winner(n + 1, p)'][2], p)
  <2>0. Winners(n + 1, p)' = IF p \in Paths(m) THEN {n + 1}
                             ELSE IF HidesIn(m, p) THEN {} ELSE Winners(n, p)
    BY <1>1, <1>4, <1>5, WinnersGrow
  <2>1. CASE p \in Paths(m)
    <3>1. Winner(n + 1, p)' = n + 1
      BY <2>0, <2>1 DEF Winner
    <3> QED BY <1>6, <1>8, <2>1, <3>1
  <2>2. CASE p \notin Paths(m)
    <3>1. p \in Paths(merged) /\ ~HidesIn(m, p) /\ At(merged', p) = At(merged, p)
      BY <1>8, <2>2
    <3>2. Winners(n, p) # {} /\ Winner(n + 1, p)' = Winner(n, p)
      BY <1>1, <1>5, <2>0, <2>2, <3>1 DEF InForce, Winner
    <3>3. Winner(n, p) \in 1 .. n
      BY <3>2 DEF Winner, Winners
    <3>4. At(merged, p) = At(given[Winner(n, p)][2], p)
      BY <1>5, <1>11, <1>12, <3>1 DEF FilesFirst
    <3> QED BY <1>6, <3>1, <3>2, <3>3, <3>4
  <2> QED BY <2>1, <2>2
<1>15. ASSUME NEW p, NumberSince(n + 1, p)'
       PROVE  p \in Paths(merged') /\ At(merged', p).kind = "int"
  <2>1. p \in Paths(merged')
    BY <1>3, <1>6, <1>15 DEF NumberSince, InForce
  <2> QED BY <1>14, <1>15, <2>1 DEF NumberSince
<1>16. FilesFirst(n + 1)'
  BY <1>6, <1>13, <1>14, <1>15 DEF FilesFirst
<1> QED BY <1>3, <1>6, <1>7, <1>9, <1>10, <1>16 DEF IInv

\* Variables or flags that are merged keep the invariant: an int they
\* override is the hint, so the number they give is an int as well.
LEMMA OverrideMerges ==
  ASSUME IInv, NEW m \in Trees, phase \in 4 .. 5,
         Merge(m, applyTypedOverrides(merged, m), Order[phase]), phase' \in 5 .. 6, summary' = summary
  PROVE  IInv'
<1>. DEFINE typed == applyTypedOverrides(merged, m)
<1>1. /\ Shape /\ InForce /\ Plain /\ Checked /\ Order[phase] \in Names
      /\ Order[phase] \in {"env", "flags"}
  BY OrderIs DEF IInv
<1>2. Tree(m)
  BY TreesAre
<1>3. /\ Tree(typed) /\ Paths(typed) = Paths(m)
      /\ \A p : HidesIn(typed, p) <=> HidesIn(m, p)
      /\ \A p \in Paths(m) : At(typed, p) = parseWithHint(Hint(merged, p), At(m, p).text)
  BY <1>2, TypedIs
<1>4. given' = Append(given, <<Order[phase], m>>) /\ merged' = mergeMaps(merged, typed)
  BY DEF Merge
<1>. HIDE DEF typed
<1>5. \A p \in Paths(m) : /\ StandsFor(At(typed, p), Order[phase], At(m, p))
                          /\ At(typed, p).text \in {"", "***"} => At(typed, p).kind = "str"
                          /\ Hint(merged, p) = "int" /\ IsInt(At(m, p).text) => At(typed, p).kind = "int"
  <2>1. TAKE p \in Paths(m)
  <2>. DEFINE hint == Hint(merged, p)
              text == At(m, p).text
              v == At(typed, p)
  <2>2. v = parseWithHint(hint, text)
    BY <1>3
  <2>. HIDE DEF hint, text, v
  <2>3. /\ Spells(text, v)
        /\ v.text \in {"", "***"} => v.kind = "str"
        /\ hint = "int" /\ IsInt(text) => v.kind = "int"
    BY <2>2, ParsedIs, Zenon
  <2> QED BY <1>1, <2>3 DEF hint, text, v, StandsFor
<1>6. InForce' /\ Tree(merged')
  BY <1>1, <1>3, <1>5, MergeKeeps DEF typed
<1>7. PICK n : n = Len(given)
  OBVIOUS
<1>8. /\ n \in Nat /\ Len(given') = n + 1 /\ given' \in Seq(Names \X Trees)
      /\ \A i \in 1 .. n : given'[i] = given[i]
      /\ given'[n + 1][1] = Order[phase] /\ given'[n + 1][2] = m
  BY <1>1, <1>4, <1>7, GivenGrows
<1>9. Shape'
  BY <1>6, <1>8 DEF Shape
<1>10. /\ \A p : p \in Paths(merged') <=> p \in Paths(m) \/ (p \in Paths(merged) /\ ~HidesIn(m, p))
       /\ \A p \in Paths(merged') :
            At(merged', p) = IF p \in Paths(m) THEN At(typed, p) ELSE At(merged, p)
  BY <1>1, <1>3, <1>4, MergeIs DEF Shape
<1>11. Plain'
  BY <1>1, <1>5, <1>10 DEF Plain
<1>12. Checked'
  BY <1>1 DEF Checked, Accepted
<1>13. PICK f \in Nat : FilesFirst(f)
  BY DEF IInv
<1>14. f \in 0 .. n /\ \A i \in 1 .. n : FromFile(i) <=> i <= f
  BY <1>7, <1>13 DEF FilesFirst
<1>15. \A i \in 1 .. n + 1 : FromFile(i)' <=> i <= f
  <2>1. \A i \in 1 .. n : FromFile(i)' <=> FromFile(i)
    BY <1>8 DEF FromFile
  <2>2. ~FromFile(n + 1)'
    BY <1>1, <1>8 DEF FromFile
  <2> QED BY <1>8, <1>14, <2>1, <2>2
<1>16. ASSUME NEW p, NumberSince(f, p)'
       PROVE  p \in Paths(merged') /\ At(merged', p).kind = "int"
  <2>1. /\ \A i \in 1 .. n : (Gives(i, p)' <=> Gives(i, p)) /\ (Hides(i, p)' <=> Hides(i, p))
        /\ Gives(n + 1, p)' <=> p \in Paths(m)
        /\ Hides(n + 1, p)' <=> HidesIn(m, p)
        /\ Winners(f, p)' = Winners(f, p)
    BY <1>1, <1>4, <1>7, <1>14, WinnersGrow
  <2>2. Winner(f, p)' = Winner(f, p)
    BY <2>1 DEF Winner
  <2>3. Winners(f, p) # {}
    BY <1>16, <2>1 DEF NumberSince
  <2>4. Winner(f, p) \in 1 .. f
    BY <2>3 DEF Winner, Winners
  <2>5. At(given[Winner(f, p)][2], p).kind = "int"
    <3>1. given'[Winner(f, p)'] = given[Winner(f, p)]
      BY <1>8, <1>14, <2>2, <2>4
    <3> QED BY <1>16, <3>1 DEF NumberSince
  <2>6. \A i \in (f + 1) .. n + 1 : (Gives(i, p)' => IsInt(At(given'[i][2], p).text)) /\ ~Hides(i, p)'
    BY <1>8, <1>16 DEF NumberSince
  <2>7. \A i \in (f + 1) .. n : (Gives(i, p) => IsInt(At(given[i][2], p).text)) /\ ~Hides(i, p)
    <3>1. \A i \in (f + 1) .. n : i \in 1 .. n /\ i \in (f + 1) .. n + 1 /\ given'[i] = given[i]
      BY <1>8, <1>14
    <3> QED BY <2>1, <2>6, <3>1
  <2>8. NumberSince(f, p)
    BY <1>7, <2>3, <2>5, <2>7 DEF NumberSince
  <2>9. p \in Paths(merged) /\ At(merged, p).kind = "int"
    BY <1>13, <2>8 DEF FilesFirst
  <2>10. Hint(merged, p) = "int"
    BY <2>9 DEF Hint
  <2>11. n + 1 \in (f + 1) .. n + 1
    BY <1>8, <1>14
  <2>12. ~HidesIn(m, p) /\ (p \in Paths(m) => IsInt(At(m, p).text))
    BY <1>8, <2>1, <2>6, <2>11
  <2> QED BY <1>5, <1>10, <2>9, <2>10, <2>12
<1>17. FilesFirst(f)'
  <2>1. f \in 0 .. n + 1 /\ f # n + 1
    BY <1>8, <1>14
  <2> QED BY <1>8, <1>15, <1>16, <2>1 DEF FilesFirst
<1> QED BY <1>6, <1>9, <1>11, <1>12, <1>17 DEF IInv

\* A source that is missing or fails, the validation and a step that changes
\* nothing keep the invariant as far as the sources are concerned.
LEMMA SkipKeeps ==
  ASSUME IInv, Skip, phase' \in 0 .. 7, phase' \in 1 .. 4 => phase \in 1 .. 4, Checked'
  PROVE  IInv'
<1>1. UNCHANGED <<merged, sourceMap, sources, given>>
  BY DEF Skip
<1>2. /\ given' = given /\ merged' = merged /\ sourceMap' = sourceMap
      /\ \A n, p : Winners(n, p)' = Winners(n, p)
      /\ \A i, p : (Gives(i, p)' <=> Gives(i, p)) /\ (Hides(i, p)' <=> Hides(i, p))
  BY <1>1 DEF Winners, Gives, Hides
<1>3. \A n, p : Winner(n, p)' = Winner(n, p)
  BY <1>2 DEF Winner
<1>4. Shape'
  BY <1>2 DEF IInv, Shape
<1>5. InForce'
  BY <1>2, <1>3 DEF IInv, InForce
<1>6. Plain'
  BY <1>2 DEF IInv, Plain
<1>7. PICK f \in Nat : FilesFirst(f)
  BY DEF IInv
<1>8. \A p : NumberSince(f, p)' <=> NumberSince(f, p)
  BY <1>2, <1>3 DEF NumberSince
<1>9. FilesFirst(f)'
  BY <1>2, <1>3, <1>7, <1>8 DEF FilesFirst, FromFile
<1> QED BY <1>4, <1>5, <1>6, <1>7, <1>9 DEF IInv

\* A part of a path is a part of the path with one more node.
LEMMA AppendKeeps ==
  ASSUME NEW U, NEW p \in Seq(U), NEW x \in U, NEW i \in 1 .. Len(p), NEW j \in 1 .. Len(p)
  PROVE  /\ SubSeq(Append(p, x), i, j) = SubSeq(p, i, j)
         /\ i \in 1 .. Len(Append(p, x)) /\ j \in 1 .. Len(Append(p, x))
<1>. DEFINE q == Append(p, x)
<1>1. Len(p) \in Nat /\ q \in Seq(U) /\ Len(q) = Len(p) + 1 /\ \A k \in 1 .. Len(p) : q[k] = p[k]
  BY AppendProperties, LenProperties
<1>. HIDE DEF q
<1>2. i \in 1 .. Len(q) /\ j \in 1 .. Len(q)
  BY <1>1
<1>3. CASE i > j
  BY <1>1, <1>2, <1>3, SubSeqProperties DEF q
<1>4. CASE i <= j
  BY <1>1, <1>2, <1>4, SubSeqProperties DEF q
<1> QED BY <1>2, <1>3, <1>4 DEF q

\* maskValue: a value at a sensitive path is masked, an item of a list by the
\* path of the list and its own key as well.
LEMMA Masked ==
  ASSUME NEW p \in Paths(merged), isSensitivePath(p)
  PROVE  maskValue(p, At(merged, p)) = "***"
<1>1. ASSUME NEW x PROVE isSensitivePath(Append(p, x))
  <2>1. PICK U : p \in Seq(U) /\ x \in U
    <3>1. CASE \E k : p = <<k>>
      <4>1. PICK k : p = <<k>>
        BY <3>1
      <4>2. p \in Seq({k, x})
        BY <4>1
      <4> QED BY <4>2
    <3>2. CASE \E k, s : p = <<k, s>>
      <4>1. PICK k, s : p = <<k, s>>
        BY <3>2
      <4>2. p \in Seq({k, s, x})
        BY <4>1
      <4> QED BY <4>2
    <3> QED BY <3>1, <3>2, PathsAre
  <2>2. PICK w \in Sensitive : \E i, j \in 1 .. Len(p) : SubSeq(p, i, j) = w
    BY DEF isSensitivePath
  <2>3. PICK i \in 1 .. Len(p), j \in 1 .. Len(p) : SubSeq(p, i, j) = w
    BY <2>2
  <2>4. /\ SubSeq(Append(p, x), i, j) = SubSeq(p, i, j)
        /\ i \in 1 .. Len(Append(p, x)) /\ j \in 1 .. Len(Append(p, x))
    BY <2>1, AppendKeeps
  <2> QED BY <2>3, <2>4 DEF isSensitivePath
<1> QED BY <1>1 DEF maskValue

-----------------------------------------------------------------------------
\* Load starts with no source read and an empty tree.
LEMMA InitIInv == Init => IInv
<1>. SUFFICES ASSUME Init PROVE IInv
  OBVIOUS
<1>1. phase = 1 /\ merged = <<>> /\ given = <<>> /\ summary = <<>>
  BY DEF Init, Empty
<1>2. DOMAIN merged = {} /\ DOMAIN summary = {} /\ Len(given) = 0
  BY <1>1
<1>3. \A p : p \notin Paths(merged)
  BY <1>2 DEF Paths
<1>4. \A p : Winners(0, p) = {}
  BY DEF Winners
<1>5. Shape
  BY <1>1, <1>2 DEF Shape, Tree
<1>6. InForce
  BY <1>2, <1>3, <1>4 DEF InForce
<1>7. Plain
  BY <1>3 DEF Plain
<1>8. Checked
  BY <1>1, <1>2 DEF Checked, Accepted
<1>9. FilesFirst(0)
  BY <1>2, <1>3, <1>4 DEF FilesFirst, NumberSince
<1> QED BY <1>5, <1>6, <1>7, <1>8, <1>9 DEF IInv

\* loadConfigIfExists, whether the file is there, is missing or cannot be
\* read.
LEMMA LoadFileKeeps == IInv /\ LoadFile => IInv'
<1>. SUFFICES ASSUME IInv, LoadFile PROVE IInv'
  OBVIOUS
<1>1. phase \in 1 .. 3 /\ summary' = summary
  BY DEF LoadFile
<1>2. CASE phase' = phase + 1 /\ \E m \in FileTrees : Merge(m, m, Order[phase])
  <2>1. PICK m \in FileTrees : Merge(m, m, Order[phase])
    BY <1>2
  <2>2. phase' \in 0 .. 4
    BY <1>1, <1>2
  <2> QED BY <1>1, <2>1, <2>2, FileMerges
<1>3. CASE phase' \in {phase + 1, Failed} /\ Skip
  <2>1. phase' \in 0 .. 7 /\ phase' # Accepted /\ (phase' \in 1 .. 4 => phase \in 1 .. 4)
    BY <1>1, <1>3 DEF Failed, Accepted
  <2>2. Checked'
    BY <1>1, <2>1 DEF IInv, Checked
  <2> QED BY <1>3, <2>1, <2>2, SkipKeeps
<1> QED BY <1>2, <1>3 DEF LoadFile

\* The variables, then the flags, with or without anything in them.
LEMMA OverrideKeeps == IInv /\ Override => IInv'
<1>. SUFFICES ASSUME IInv, Override PROVE IInv'
  OBVIOUS
<1>1. phase \in 4 .. 5 /\ phase' = phase + 1 /\ summary' = summary
  BY DEF Override
<1>2. PICK list \in Assignments :
        \/ Skip
        \/ Merge(ToMap(list), applyTypedOverrides(merged, ToMap(list)), Order[phase])
  BY DEF Override
<1>. DEFINE m == ToMap(list)
<1>3. m \in Trees
  BY DEF Trees
<1>4. phase' \in 5 .. 6
  BY <1>1
<1>. HIDE DEF m
<1>5. CASE Merge(m, applyTypedOverrides(merged, m), Order[phase])
  BY <1>1, <1>3, <1>4, <1>5, OverrideMerges
<1>6. CASE Skip
  <2>1. phase' \in 0 .. 7 /\ phase' # Accepted /\ phase' \notin 1 .. 4
    BY <1>4 DEF Accepted
  <2>2. Checked'
    BY <1>1, <2>1 DEF IInv, Checked
  <2> QED BY <1>6, <2>1, <2>2, SkipKeeps
<1> QED BY <1>2, <1>5, <1>6 DEF m

\* The validation, whether it accepts or not, and the summary it writes.
LEMMA ValidateKeeps == IInv /\ Validate => IInv'
<1>. SUFFICES ASSUME IInv, Validate PROVE IInv'
  OBVIOUS
<1>1. Skip /\ phase' \in {Accepted, Failed}
  BY DEF Validate
<1>2. merged' = merged /\ sourceMap' = sourceMap
  BY <1>1 DEF Skip
<1>3. phase' = Accepted => validateSensitiveSources(merged, sourceMap)
  BY DEF Validate, Accepted, Failed
<1>4. ASSUME NEW p \in DOMAIN summary', isSensitivePath(p)
      PROVE  summary'[p] = "***"
  <2>1. CASE summary' = summary
    BY <1>4, <2>1 DEF IInv, Checked
  <2>2. CASE summary' = [q \in Paths(merged) |-> maskValue(q, At(merged, q))]
    <3>1. p \in Paths(merged) /\ summary'[p] = maskValue(p, At(merged, p))
      BY <2>2
    <3> QED BY <1>4, <3>1, Masked
  <2> QED BY <2>1, <2>2 DEF Validate
<1>5. Checked'
  BY <1>2, <1>3, <1>4 DEF Checked
<1>6. phase' \in 0 .. 7 /\ phase' \notin 1 .. 4
  BY <1>1 DEF Accepted, Failed
<1> QED BY <1>1, <1>5, <1>6, SkipKeeps

\* The invariant holds in every state.
LEMMA IInvHolds == Spec => []IInv
<1>1. IInv /\ UNCHANGED vars => IInv'
  <2>. SUFFICES ASSUME IInv, UNCHANGED vars PROVE IInv'
    OBVIOUS
  <2>1. Skip /\ phase' = phase /\ summary' = summary
    BY DEF vars, Skip
  <2>2. Checked' /\ phase' \in 0 .. 7
    BY <2>1 DEF IInv, Shape, Checked, Skip
  <2> QED BY <2>1, <2>2, SkipKeeps
<1>2. IInv /\ [Next]_vars => IInv'
  BY <1>1, LoadFileKeeps, OverrideKeeps, ValidateKeeps DEF Next
<1> QED BY <1>2, InitIInv, PTL DEF Spec

\* Precedence, for all files and all lists of variables and flags: the
\* settings of the merged tree are exactly those that some source gave and no
\* later one replaced, each standing for what the last source that gave it says and
\* with that source on record (mergeMaps, setPath, recordSources).
THEOREM SourcesInOrder == Spec => []LastSourceWins
<1>1. IInv => LastSourceWins
  <2>. SUFFICES ASSUME IInv PROVE LastSourceWins
    OBVIOUS
  <2>. DEFINE n == Len(given)
  <2>1. \A p : p \in Paths(merged) <=> Winners(n, p) # {}
    BY DEF IInv, InForce
  <2>2. \A p : Winners(n, p) # {} => p \in AllPaths(n)
    BY DEF Winners, Gives, AllPaths
  <2>3. \A p : p \in Paths(merged) <=> p \in {q \in AllPaths(n) : Winners(n, q) # {}}
    BY <2>1, <2>2
  <2>4. Paths(merged) = {q \in AllPaths(n) : Winners(n, q) # {}}
    BY <2>3, Zenon
  <2>5. \A p \in Paths(merged) :
          LET source == given[Winner(n, p)] IN
          /\ StandsFor(At(merged, p), source[1], At(source[2], p))
          /\ sourceMap[p] = source[1]
    BY DEF IInv, InForce
  <2> QED BY <2>4, <2>5 DEF LastSourceWins
<1> QED BY <1>1, IInvHolds, PTL

\* In every accepted configuration the secrets that are not empty came from
\* the environment or the local file and are no placeholders, and no summary
\* shows one (validateSensitiveSources, maskMap).
THEOREM SecretsKept == Spec => []SecretsContained
<1>1. IInv => SecretsContained
  <2>. SUFFICES ASSUME IInv PROVE SecretsContained
    OBVIOUS
  <2>1. ASSUME phase = Accepted, NEW p \in Paths(merged), isSensitivePath(p), At(merged, p).text # ""
        PROVE  /\ given[Winner(Len(given), p)][1] \in {"env", "local"}
               /\ At(merged, p).text # "***"
    <3>1. sourceMap[p] \in {"env", "local"} /\ ~isPlaceholder(At(merged, p))
      BY <2>1 DEF IInv, Checked, validateSensitiveSources, isEmpty
    <3>2. sourceMap[p] = given[Winner(Len(given), p)][1]
      BY DEF IInv, InForce
    <3>3. At(merged, p).text = "***" => At(merged, p).kind = "str"
      BY DEF IInv, Plain
    <3> QED BY <3>1, <3>2, <3>3 DEF isPlaceholder
  <2>2. \A p \in DOMAIN summary : isSensitivePath(p) => summary[p] = "***"
    BY DEF IInv, Checked
  <2> QED BY <2>1, <2>2 DEF SecretsContained
<1> QED BY <1>1, IInvHolds, PTL

\* A number of a file that variables and flags override with numbers only is
\* still of the type it has in the file (applyTypedOverrides).
THEOREM NumbersKept == Spec => []TypeKept
<1>1. IInv => TypeKept
  <2>. SUFFICES ASSUME IInv PROVE TypeKept
    OBVIOUS
  <2>. DEFINE F == {i \in DOMAIN given : given[i][1] \notin {"env", "flags"}}
  <2>1. PICK f \in Nat : FilesFirst(f)
    BY DEF IInv
  <2>2. Len(given) \in Nat /\ DOMAIN given = 1 .. Len(given)
    BY LenProperties DEF IInv, Shape
  <2>3. f \in 0 .. Len(given) /\ \A i \in 1 .. Len(given) : FromFile(i) <=> i <= f
    BY <2>1 DEF FilesFirst
  <2>4. \A i : i \in F <=> i \in 1 .. f
    BY <2>2, <2>3 DEF FromFile
  <2>. HIDE DEF F
  <2>5. F = 1 .. f
    BY <2>4, Zenon
  <2>6. Cardinality(F) = f
    BY <2>1, <2>5, FS_Interval
  <2>7. \A p : NumberSince(f, p) => At(merged, p).kind = "int"
    BY <2>1 DEF FilesFirst
  <2>8. ASSUME NEW p \in Paths(merged),
               Winners(f, p) # {}, At(given[Winner(f, p)][2], p).kind = "int",
               \A i \in (f + 1) .. Len(given) :
                 (Gives(i, p) => IsInt(At(given[i][2], p).text)) /\ ~Hides(i, p)
        PROVE  At(merged, p).kind = "int"
    BY <2>7, <2>8 DEF NumberSince
  <2> QED BY <2>6, <2>8 DEF TypeKept, F
<1> QED BY <1>1, IInvHolds, PTL
=============================================================================
