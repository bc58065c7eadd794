-------------------------- MODULE DirectoryProofs --------------------------
(***************************************************************************)
(* Proofs about the departments' tree and about synchronizations, for any  *)
(* number of requests, accounts, departments and organizations, and any    *)
(* directory.                                                              *)
(***************************************************************************)
EXTENDS DirectoryInvariants, MemberProofs

-----------------------------------------------------------------------------
(***************************************************************************)
(* Recursion along the numbers up to N.                                    *)
(***************************************************************************)
\* Induction, for a property given by the set of numbers that have it.
LEMMA Upwards ==
    ASSUME NEW N \in Nat, NEW Good, 0 \in Good,
           \A n \in 1 .. N : n - 1 \in Good => n \in Good
    PROVE  \A n \in 0 .. N : n \in Good
<1>1. PICK bad : bad = {n \in 0 .. N : n \notin Good}
  OBVIOUS
<1>2. bad \in SUBSET Nat
  BY <1>1
<1>3. ASSUME bad # {} PROVE FALSE
  <2>1. PICK n \in bad : \A m \in bad : n <= m
    BY <1>2, <1>3, Least
  <2>2. n \in 1 .. N /\ n - 1 \in 0 .. N /\ ~(n <= n - 1)
    BY <1>1, <2>1
  <2>3. n - 1 \in Good
    BY <1>1, <2>1, <2>2
  <2> QED
    BY <1>1, <2>1, <2>2, <2>3
<1> QED
  BY <1>1, <1>3

\* f begins with x and goes on by H.
Iterates(f, N, S, x, H) ==
    /\ f \in [0 .. N -> S]
    /\ f[0] = x
    /\ \A n \in 1 .. N : f[n] = H[f[n - 1]]

LEMMA IteratesExists ==
    ASSUME NEW N \in Nat, NEW S, NEW x \in S, NEW H \in [S -> S]
    PROVE  \E f : Iterates(f, N, S, x, H)
<1>1. PICK Good : Good = {k \in Nat : \E f : Iterates(f, k, S, x, H)}
  OBVIOUS
<1>2. 0 \in Good
  <2>1. PICK f : f = [n \in 0 .. 0 |-> x]
    OBVIOUS
  <2>2. Iterates(f, 0, S, x, H)
    BY <2>1 DEF Iterates
  <2> QED
    BY <1>1, <2>2
<1>3. ASSUME NEW k \in 1 .. N, k - 1 \in Good PROVE k \in Good
  <2>1. PICK f : Iterates(f, k - 1, S, x, H)
    BY <1>1, <1>3
  <2>2. f \in [0 .. (k - 1) -> S] /\ f[0] = x /\ k - 1 \in 0 .. (k - 1)
    BY <2>1 DEF Iterates
  <2>3. PICK g : g = [n \in 0 .. k |-> IF n = k THEN H[f[k - 1]] ELSE f[n]]
    OBVIOUS
  <2>4. g \in [0 .. k -> S] /\ g[0] = x /\ \A n \in 0 .. (k - 1) : g[n] = f[n]
    BY <2>2, <2>3
  <2>5. ASSUME NEW n \in 1 .. k PROVE g[n] = H[g[n - 1]]
    <3>1. CASE n = k
      BY <2>2, <2>3, <2>4, <3>1
    <3>2. CASE n # k
      <4>1. n \in 1 .. (k - 1) /\ n - 1 \in 0 .. (k - 1) /\ n \in 0 .. (k - 1)
        BY <3>2
      <4> QED
        BY <2>1, <2>4, <4>1 DEF Iterates
    <3> QED
      BY <3>1, <3>2
  <2>6. Iterates(g, k, S, x, H)
    BY <2>4, <2>5 DEF Iterates
  <2> QED
    BY <1>1, <2>6
<1>4. \A k \in 0 .. N : k \in Good
  BY <1>2, <1>3, Upwards
<1> QED
  BY <1>1, <1>4

\* What grows within 1 .. N by adding H of itself has stopped growing after N
\* rounds.
LEMMA Settles ==
    ASSUME NEW N \in Nat, NEW U \in SUBSET (1 .. N), NEW H \in [SUBSET U -> SUBSET U],
           NEW g \in [0 .. N -> SUBSET U],
           \A n \in 1 .. N : g[n] = g[n - 1] \cup H[g[n - 1]]
    PROVE  H[g[N]] \subseteq g[N]
<1>1. PICK I : I = 1 .. N
  OBVIOUS
<1>2. IsFiniteSet(U) /\ Cardinality(U) <= N /\ Cardinality(U) \in Nat
  <2>1. IsFiniteSet(I) /\ Cardinality(I) = N
    BY <1>1, FS_Interval
  <2>2. U \in SUBSET I
    BY <1>1
  <2>3. IsFiniteSet(U) /\ Cardinality(U) <= N
    BY <2>1, <2>2, FS_Subset
  <2> QED
    BY <2>3, FS_CardinalityType
<1>3. \A X \in SUBSET U : /\ IsFiniteSet(X) /\ Cardinality(X) \in Nat
                          /\ Cardinality(X) <= Cardinality(U)
                          /\ Cardinality(X) = Cardinality(U) => X = U
  BY <1>2, FS_Subset, FS_CardinalityType
<1>4. PICK Good : Good = {n \in Nat : H[g[n]] \subseteq g[n] \/ Cardinality(g[n]) >= n}
  OBVIOUS
<1>5. 0 \in Good
  BY <1>3, <1>4
<1>6. ASSUME NEW n \in 1 .. N, n - 1 \in Good PROVE n \in Good
  <2>1. PICK X \in SUBSET U : X = g[n - 1]
    OBVIOUS
  <2>2. PICK Y \in SUBSET U : Y = g[n]
    OBVIOUS
  <2>3. Y = X \cup H[X]
    BY <2>1, <2>2
  <2>4. CASE H[X] \subseteq X
    <3>1. Y = X
      BY <2>3, <2>4
    <3>2. H[g[n]] \subseteq g[n]
      BY <2>2, <2>4, <3>1, Zenon
    <3>3. n \in Nat
      OBVIOUS
    <3> QED
      BY <1>4, <3>2, <3>3, Zenon
  <2>5. CASE ~(H[X] \subseteq X)
    <3>1. Cardinality(X) >= n - 1
      BY <1>4, <1>6, <2>1, <2>5
    <3>2. X \in SUBSET Y /\ X # Y
      BY <2>3, <2>5
    <3>3. IsFiniteSet(Y) /\ Cardinality(Y) \in Nat /\ Cardinality(X) \in Nat
      BY <1>3
    <3>4. Cardinality(X) <= Cardinality(Y) /\ Cardinality(X) # Cardinality(Y)
      BY <3>2, <3>3, FS_Subset
    <3>5. Cardinality(Y) >= n
      BY <3>1, <3>3, <3>4
    <3> QED
      BY <1>4, <2>2, <3>5
  <2> QED
    BY <2>4, <2>5
<1>7. N \in Good
  <2>1. \A n \in 0 .. N : n \in Good
    BY <1>5, <1>6, Upwards
  <2>2. N \in 0 .. N
    OBVIOUS
  <2> QED
    BY <2>1, <2>2, Zenon
<1>8. PICK Z \in SUBSET U : Z = g[N]
  OBVIOUS
<1>9. CASE Cardinality(Z) >= N
  <2>1. Z = U
    BY <1>2, <1>3, <1>9
  <2> QED
    BY <1>8, <2>1
<1> QED
  BY <1>4, <1>7, <1>8, <1>9

-----------------------------------------------------------------------------
(***************************************************************************)
(* BuildTree: the least set of departments that has the roots, and the     *)
(* children of those it has.                                               *)
(***************************************************************************)
DeptRow == [org : Orgs, parent : Nat, dt : Nat, live : BOOLEAN]

Below(o, X) == UNION {Children(o, d) : d \in X}

Showing(o, f) == f = [n \in 0 .. Len(depts) |->
                        IF n = 0 THEN Roots(o) ELSE f[n - 1] \cup Below(o, f[n - 1])]

LEMMA BuildTreeOf ==
    ASSUME NEW o
    PROVE  BuildTree(o) = (CHOOSE f : Showing(o, f))[Len(depts)]
BY Zenon DEF BuildTree, Showing, Below

LEMMA TreeIs ==
    ASSUME depts \in Seq(DeptRow), NEW o
    PROVE  /\ BuildTree(o) \subseteq DeptsOf(o)
           /\ Roots(o) \subseteq BuildTree(o)
           /\ Below(o, BuildTree(o)) \subseteq BuildTree(o)
           /\ \A C : Roots(o) \subseteq C /\ Below(o, C) \subseteq C => BuildTree(o) \subseteq C
<1>1. PICK N, D : N = Len(depts) /\ D = DeptsOf(o)
  OBVIOUS
<1>2. N \in Nat /\ D \in SUBSET (1 .. N)
  BY <1>1 DEF DeptsOf, Live
<1>3. Roots(o) \in SUBSET D /\ \A X : Below(o, X) \in SUBSET D
  BY <1>1 DEF Roots, Below, Children
<1>4. PICK H : H = [X \in SUBSET D |-> Below(o, X)]
  OBVIOUS
<1>5. PICK K : K = [X \in SUBSET D |-> X \cup H[X]]
  OBVIOUS
<1>6. H \in [SUBSET D -> SUBSET D] /\ K \in [SUBSET D -> SUBSET D]
  BY <1>3, <1>4, <1>5
<1>7. \E f : Showing(o, f)
  <2>1. PICK f : Iterates(f, N, SUBSET D, Roots(o), K)
    BY <1>2, <1>3, <1>6, IteratesExists
  <2>2. ASSUME NEW n \in 0 .. N
        PROVE  f[n] = IF n = 0 THEN Roots(o) ELSE f[n - 1] \cup Below(o, f[n - 1])
    <3>1. CASE n = 0
      BY <2>1, <3>1 DEF Iterates
    <3>2. CASE n # 0
      <4>1. n \in 1 .. N /\ n - 1 \in 0 .. N
        BY <1>2, <3>2
      <4>2. f[n] = K[f[n - 1]] /\ f[n - 1] \in SUBSET D
        BY <2>1, <4>1 DEF Iterates
      <4> QED
        BY <1>4, <1>5, <3>2, <4>2
    <3> QED
      BY <3>1, <3>2
  <2>3. f = [n \in 0 .. N |-> f[n]]
    BY <2>1 DEF Iterates
  <2>4. Showing(o, f)
    BY <1>1, <2>2, <2>3 DEF Showing
  <2> QED
    BY <2>4
<1>8. PICK f : Showing(o, f) /\ BuildTree(o) = f[N]
  BY <1>1, <1>7, BuildTreeOf, Zenon
<1>9. f[0] = Roots(o)
  BY <1>1, <1>2, <1>8 DEF Showing
<1>10. ASSUME NEW n \in 1 .. N
       PROVE  f[n] = f[n - 1] \cup Below(o, f[n - 1]) /\ n - 1 \in 0 .. N
  <2>1. n \in 0 .. N /\ n # 0 /\ n - 1 \in 0 .. N
    BY <1>2
  <2> QED
    BY <1>1, <1>8, <2>1 DEF Showing
<1>11. \A n \in 0 .. N : f[n] \in SUBSET D /\ Roots(o) \subseteq f[n]
  <2>1. PICK Good : Good = {n \in 0 .. N : f[n] \in SUBSET D /\ Roots(o) \subseteq f[n]}
    OBVIOUS
  <2>2. 0 \in Good
    BY <1>2, <1>3, <1>9, <2>1
  <2>3. \A n \in 1 .. N : n - 1 \in Good => n \in Good
    BY <1>2, <1>3, <1>10, <2>1
  <2>4. \A n \in 0 .. N : n \in Good
    BY <1>2, <2>2, <2>3, Upwards
  <2> QED
    BY <2>1, <2>4
<1>12. N \in 0 .. N
  BY <1>2
<1>13. f \in [0 .. N -> SUBSET D]
  BY <1>1, <1>8, <1>11 DEF Showing
<1>14. H[f[N]] \subseteq f[N]
  <2>1. \A n \in 1 .. N : f[n] = f[n - 1] \cup H[f[n - 1]]
    BY <1>4, <1>10, <1>11
  <2> QED
    BY <1>2, <1>6, <1>13, <2>1, Settles
<1>15. ASSUME NEW C, Roots(o) \subseteq C, Below(o, C) \subseteq C
       PROVE  f[N] \subseteq C
  <2>1. PICK Good : Good = {n \in 0 .. N : f[n] \subseteq C}
    OBVIOUS
  <2>2. 0 \in Good
    BY <1>2, <1>9, <1>15, <2>1
  <2>3. ASSUME NEW n \in 1 .. N, n - 1 \in Good PROVE n \in Good
    <3>1. f[n - 1] \subseteq C
      BY <2>1, <2>3
    <3>2. Below(o, f[n - 1]) \subseteq Below(o, C)
      BY <3>1 DEF Below
    <3>3. f[n] \subseteq C
      BY <1>10, <1>15, <3>1, <3>2
    <3> QED
      BY <2>1, <3>3
  <2>4. \A n \in 0 .. N : n \in Good
    BY <1>2, <2>2, <2>3, Upwards
  <2> QED
    BY <1>12, <2>1, <2>4
<1> QED
  BY <1>1, <1>4, <1>8, <1>11, <1>12, <1>14, <1>15

-----------------------------------------------------------------------------
(***************************************************************************)
(* Ancestors: the least set of departments that has d's parent, and the    *)
(* parents of those it has.                                                *)
(***************************************************************************)
Climbing(o, d, f) == f = [n \in 0 .. Len(depts) |->
                            IF n = 0 THEN Above(o, {d}) ELSE Above(o, f[n - 1])]

LEMMA AncestorsOf ==
    ASSUME NEW o, NEW d
    PROVE  Ancestors(o, d) = UNION Range(CHOOSE f : Climbing(o, d, f))
BY Zenon DEF Ancestors, Climbing

Leads(o, d, C) == Above(o, {d}) \subseteq C /\ Above(o, C) \subseteq C

LEMMA AncestorsAre ==
    ASSUME depts \in Seq(DeptRow), NEW o, NEW d
    PROVE  /\ Ancestors(o, d) \subseteq DeptsOf(o)
           /\ Leads(o, d, Ancestors(o, d))
           /\ \A C : Leads(o, d, C) => Ancestors(o, d) \subseteq C
<1>1. PICK N, D : N = Len(depts) /\ D = DeptsOf(o)
  OBVIOUS
<1>2. N \in Nat /\ D \in SUBSET (1 .. N)
  BY <1>1 DEF DeptsOf, Live
<1>3. \A X : Above(o, X) \in SUBSET D
  BY <1>1 DEF Above
<1>4. PICK H : H = [X \in SUBSET D |-> Above(o, X)]
  OBVIOUS
<1>5. H \in [SUBSET D -> SUBSET D]
  BY <1>3, <1>4
<1>6. \E f : Climbing(o, d, f)
  <2>1. PICK x : x = Above(o, {d})
    OBVIOUS
  <2>2. PICK f : Iterates(f, N, SUBSET D, x, H)
    BY <1>2, <1>3, <1>5, <2>1, IteratesExists
  <2>3. ASSUME NEW n \in 0 .. N
        PROVE  f[n] = IF n = 0 THEN Above(o, {d}) ELSE Above(o, f[n - 1])
    <3>1. CASE n = 0
      BY <2>1, <2>2, <3>1 DEF Iterates
    <3>2. CASE n # 0
      <4>1. n \in 1 .. N /\ n - 1 \in 0 .. N
        BY <1>2, <3>2
      <4>2. f[n] = H[f[n - 1]] /\ f[n - 1] \in SUBSET D
        BY <2>2, <4>1 DEF Iterates
      <4> QED
        BY <1>4, <3>2, <4>2
    <3> QED
      BY <3>1, <3>2
  <2>4. f = [n \in 0 .. N |-> f[n]]
    BY <2>2 DEF Iterates
  <2>5. Climbing(o, d, f)
    BY <1>1, <2>3, <2>4 DEF Climbing
  <2> QED
    BY <2>5
<1>7. PICK f : Climbing(o, d, f) /\ Ancestors(o, d) = UNION Range(f)
  BY <1>6, AncestorsOf, Zenon
<1>8. DOMAIN f = 0 .. N /\ f[0] = Above(o, {d}) /\ 0 \in 0 .. N
  BY <1>1, <1>2, <1>7 DEF Climbing
<1>9. ASSUME NEW n \in 1 .. N
      PROVE  f[n] = Above(o, f[n - 1]) /\ n - 1 \in 0 .. N /\ n \in 0 .. N
  <2>1. n \in 0 .. N /\ n # 0 /\ n - 1 \in 0 .. N
    BY <1>2
  <2> QED
    BY <1>1, <1>7, <2>1 DEF Climbing
<1>10. \A n \in 0 .. N : f[n] \in SUBSET D
  <2> SUFFICES ASSUME NEW n \in 0 .. N PROVE f[n] \in SUBSET D
    OBVIOUS
  <2>1. n = 0 \/ n \in 1 .. N
    BY <1>2
  <2> QED
    BY <1>3, <1>8, <1>9, <2>1
<1>11. PICK A : A = UNION {f[n] : n \in 0 .. N}
  OBVIOUS
<1>12. Ancestors(o, d) = A
  BY <1>7, <1>8, <1>11 DEF Range
<1>13. A \in SUBSET D
  BY <1>10, <1>11
<1>14. Above(o, A) \subseteq A
  <2>1. PICK g : g = [n \in 0 .. N |-> UNION {f[k] : k \in 0 .. n}]
    OBVIOUS
  <2>2. ASSUME NEW n \in 0 .. N PROVE g[n] \in SUBSET D
    <3>1. \A k \in 0 .. n : k \in 0 .. N
      BY <1>2
    <3>2. \A k \in 0 .. n : f[k] \in SUBSET D
      BY <1>10, <3>1
    <3> QED
      BY <2>1, <3>2
  <2>3. g \in [0 .. N -> SUBSET D]
    BY <2>1, <2>2
  <2>4. ASSUME NEW n \in 1 .. N PROVE g[n] = g[n - 1] \cup H[g[n - 1]]
    <3>1. n \in 0 .. N /\ n - 1 \in 0 .. N
      BY <1>9
    <3>2. PICK X, Y : X = g[n - 1] /\ Y = g[n]
      OBVIOUS
    <3>3. X = UNION {f[k] : k \in 0 .. (n - 1)} /\ Y = UNION {f[k] : k \in 0 .. n}
      BY <2>1, <3>1, <3>2
    <3>4. X \in SUBSET D
      BY <2>2, <3>1, <3>2
    <3>5. H[X] = Above(o, X)
      BY <1>4, <3>4
    <3>6. ASSUME NEW e \in Y PROVE e \in X \cup Above(o, X)
      <4>1. PICK k \in 0 .. n : e \in f[k]
        BY <3>3
      <4>2. CASE k = 0
        <5>1. k \in 0 .. (n - 1)
          BY <4>2
        <5> QED
          BY <3>3, <4>1, <5>1
      <4>3. CASE k # 0
        <5>1. k \in 1 .. N /\ k - 1 \in 0 .. (n - 1)
          BY <1>2, <4>3
        <5>2. e \in Above(o, f[k - 1]) /\ f[k - 1] \subseteq X
          BY <1>9, <3>3, <4>1, <5>1
        <5> QED
          BY <5>2 DEF Above
      <4> QED
        BY <4>2, <4>3
    <3>7. X \subseteq Y
      <4>1. \A k \in 0 .. (n - 1) : k \in 0 .. n
        OBVIOUS
      <4> QED
        BY <3>3, <4>1
    <3>8. ASSUME NEW e \in Above(o, X) PROVE e \in Y
      <4>1. PICK c \in X : e = depts[c].parent /\ e \in DeptsOf(o)
        BY <3>8 DEF Above
      <4>2. PICK k \in 0 .. (n - 1) : c \in f[k]
        BY <3>3, <4>1
      <4>3. k + 1 \in 1 .. N /\ k + 1 \in 0 .. n /\ (k + 1) - 1 = k
        BY <1>2
      <4>4. f[k + 1] = Above(o, f[k])
        BY <1>9, <4>3
      <4>5. e \in f[k + 1]
        BY <4>1, <4>2, <4>4 DEF Above
      <4> QED
        BY <3>3, <4>3, <4>5
    <3> QED
      BY <3>2, <3>5, <3>6, <3>7, <3>8
  <2>5. H[g[N]] \subseteq g[N]
    BY <1>2, <1>5, <2>3, <2>4, Settles
  <2>6. g[N] = A
    BY <1>2, <1>11, <2>1
  <2> QED
    BY <1>4, <1>13, <2>5, <2>6
<1>15. ASSUME NEW C, Leads(o, d, C) PROVE A \subseteq C
  <2>1. PICK Good : Good = {n \in 0 .. N : f[n] \subseteq C}
    OBVIOUS
  <2>2. 0 \in Good
    BY <1>8, <1>15, <2>1 DEF Leads
  <2>3. ASSUME NEW n \in 1 .. N, n - 1 \in Good PROVE n \in Good
    <3>1. f[n - 1] \subseteq C
      BY <2>1, <2>3
    <3>2. Above(o, f[n - 1]) \subseteq Above(o, C)
      BY <3>1 DEF Above
    <3>3. f[n] \subseteq C
      BY <1>9, <1>15, <3>2 DEF Leads
    <3> QED
      BY <1>9, <2>1, <3>3
  <2>4. \A n \in 0 .. N : n \in Good
    BY <1>2, <2>2, <2>3, Upwards
  <2> QED
    BY <1>11, <2>1, <2>4
<1>16. Above(o, {d}) \subseteq A
  BY <1>8, <1>11
<1> QED
  BY <1>1, <1>12, <1>13, <1>14, <1>15, <1>16 DEF Leads

-----------------------------------------------------------------------------
(***************************************************************************)
(* What the tree shows: no department it shows is above itself or below    *)
(* one that is, as the roots are not and no child of such a one is.  Of    *)
(* the others that it does not show, one with the fewest ancestors would   *)
(* have a parent that is above itself.                                     *)
(***************************************************************************)
Sane(o) == {d \in DeptsOf(o) : \A e \in Ancestors(o, d) \cup {d} : e \notin Ancestors(o, e)}

LEMMA ShownIsSane ==
    ASSUME depts \in Seq(DeptRow), NEW o
    PROVE  BuildTree(o) \subseteq Sane(o)
<1>1. Roots(o) \subseteq Sane(o)
  <2> SUFFICES ASSUME NEW d \in Roots(o) PROVE d \in Sane(o)
    OBVIOUS
  <2>1. d \in DeptsOf(o) /\ Above(o, {d}) = {}
    BY DEF Roots, Above
  <2>2. Leads(o, d, {})
    BY <2>1 DEF Leads, Above
  <2>3. Ancestors(o, d) = {}
    BY <2>2, AncestorsAre
  <2> QED
    BY <2>1, <2>3 DEF Sane
<1>2. Below(o, Sane(o)) \subseteq Sane(o)
  <2> SUFFICES ASSUME NEW d \in Sane(o), NEW e \in Children(o, d) PROVE e \in Sane(o)
    BY DEF Below
  <2>1. e \in DeptsOf(o) /\ Above(o, {e}) = {d}
    BY DEF Children, Sane, Above
  <2>2. PICK C : C = {d} \cup Ancestors(o, d)
    OBVIOUS
  <2>3. Leads(o, e, C)
    <3>1. Above(o, {d}) \subseteq C /\ Above(o, Ancestors(o, d)) \subseteq C
      BY <2>2, AncestorsAre DEF Leads
    <3> QED
      BY <2>1, <2>2, <3>1 DEF Leads, Above
  <2>4. Ancestors(o, e) \subseteq C
    BY <2>3, AncestorsAre
  <2>5. \A c \in C : c \notin Ancestors(o, c)
    BY <2>2 DEF Sane
  <2> QED
    BY <2>1, <2>4, <2>5 DEF Sane
<1> QED
  BY <1>1, <1>2, TreeIs

LEMMA SaneIsShown ==
    ASSUME depts \in Seq(DeptRow), NEW o
    PROVE  Sane(o) \subseteq BuildTree(o)
<1>1. PICK B : B = Sane(o) \ BuildTree(o)
  OBVIOUS
<1> SUFFICES ASSUME B # {} PROVE FALSE
  BY <1>1
<1>2. IsFiniteSet(DeptsOf(o))
  <2>1. PICK I : I = 1 .. Len(depts)
    OBVIOUS
  <2>2. IsFiniteSet(I) /\ DeptsOf(o) \in SUBSET I
    BY <2>1, FS_Interval DEF DeptsOf, Live
  <2> QED
    BY <2>2, FS_Subset
<1>3. \A d \in B : IsFiniteSet(Ancestors(o, d)) /\ Cardinality(Ancestors(o, d)) \in Nat
  BY <1>2, AncestorsAre, FS_Subset, FS_CardinalityType
<1>4. PICK e \in B : \A d \in B : Cardinality(Ancestors(o, e)) <= Cardinality(Ancestors(o, d))
  <2>1. PICK Z : Z = {Cardinality(Ancestors(o, d)) : d \in B}
    OBVIOUS
  <2>2. Z \in SUBSET Nat /\ Z # {}
    BY <1>3, <2>1
  <2>3. PICK z \in Z : \A y \in Z : z <= y
    BY <2>2, Least
  <2> QED
    BY <2>1, <2>3
<1>5. PICK p : p = depts[e].parent
  OBVIOUS
<1>6. e \in DeptsOf(o) /\ e \notin BuildTree(o)
  BY <1>1 DEF Sane
<1>7. e \notin Roots(o)
  BY <1>6, TreeIs
<1>8. p \in DeptsOf(o) /\ e \in Children(o, p) /\ Above(o, {e}) = {p}
  BY <1>5, <1>6, <1>7 DEF Roots, Children, Above
<1>9. p \notin BuildTree(o)
  BY <1>6, <1>8, TreeIs DEF Below
<1>10. p \in Ancestors(o, e) /\ Above(o, Ancestors(o, e)) \subseteq Ancestors(o, e)
  BY <1>8, AncestorsAre DEF Leads
<1>11. Ancestors(o, p) \subseteq Ancestors(o, e)
  <2>1. Leads(o, p, Ancestors(o, e))
    BY <1>10 DEF Leads, Above
  <2> QED
    BY <2>1, AncestorsAre
<1>12. p \in B
  BY <1>1, <1>8, <1>9, <1>10, <1>11 DEF Sane
<1>13. PICK A, C : A = Ancestors(o, e) /\ C = Ancestors(o, p)
  OBVIOUS
<1>14. C = A
  <2>1. IsFiniteSet(A) /\ C \in SUBSET A
    BY <1>3, <1>11, <1>13
  <2>2. Cardinality(A) <= Cardinality(C) /\ Cardinality(A) \in Nat /\ Cardinality(C) \in Nat
    BY <1>3, <1>4, <1>12, <1>13
  <2>3. Cardinality(C) <= Cardinality(A) /\ (Cardinality(A) = Cardinality(C) => A = C)
    BY <2>1, FS_Subset
  <2> QED
    BY <2>2, <2>3
<1>15. p \notin Ancestors(o, p)
  BY <1>1, <1>12 DEF Sane
<1> QED
  BY <1>10, <1>13, <1>14, <1>15

LEMMA TreeShows ==
    ASSUME depts \in Seq(DeptRow)
    PROVE  TreeShowsAll
BY ShownIsSane, SaneIsShown DEF TreeShowsAll, Sane

-----------------------------------------------------------------------------
(***************************************************************************)
(* What a request holds, an update of a department or a synchronization,   *)
(* whatever else happens.                                                  *)
(***************************************************************************)
SyncLabels ==
    {"list", "depts", "saveDept", "staff", "people", "savePerson", "person", "saveMember"}
WithDept == {"saveDept", "people", "savePerson", "person", "saveMember"}
TaskLabels == {"count", "delete", "saveMoved"} \cup SyncLabels

Lists == Directories \cup {<<>>}
Maps == UNION {[ids -> Nat \ {0}] : ids \in SUBSET Nat}
Carrying == [listed : Lists, done : Nat, map : Maps, staff : SUBSET Staff,
             seen : SUBSET People, copy : DeptRow \cup UserRow \cup {Nobody}]
Task == [pc : TaskLabels, org : Orgs, user : Nat, bond : Nat,
         row : {Nobody} \cup DeptRow \cup Carrying, member : BondRow \cup {Nobody},
         ask : {Nobody}, alone : BOOLEAN]

IdsTo(listed, n) == {listed[j].id : j \in 1 .. n}

\* A row that has been stored has the userid of one person at most.
OneUserid(row) ==
    \A d, e \in People :
       <<"userid", d>> \in row.ids /\ <<"userid", e>> \in row.ids => d = e

\* How far it is, and whose ids it has here.
FarAs(s, pc) ==
    /\ s.done <= Len(s.listed)
    /\ pc \in WithDept => s.done < Len(s.listed)
    /\ DOMAIN s.map = IdsTo(s.listed, IF pc \in {"depts", "saveDept"} THEN s.done
                                      ELSE Len(s.listed))

Fits(w) ==
    /\ w.pc = "saveMoved" => w.row \in DeptRow
    /\ w.pc \in SyncLabels => w.org = SyncOrg
    /\ w.pc \in SyncLabels \ {"list"} => w.row \in Carrying /\ FarAs(w.row, w.pc)
    /\ w.pc = "saveDept" => w.row.copy \in DeptRow
    /\ w.pc = "savePerson" => w.row.copy \in UserRow /\ OneUserid(w.row.copy)
    /\ w.pc = "saveMember" => w.member \in BondRow

Carries(p) == proc[p] = Idle \/ (proc[p] \in Task /\ Fits(proc[p]))

RowsOK ==
    /\ users \in Seq(UserRow)
    /\ \A u \in DOMAIN users : OneUserid(users[u])
    /\ bonds \in Seq(BondRow)
    /\ depts \in Seq(DeptRow)
    /\ directory \in Directories

TasksOK == proc = [p \in Procs |-> proc[p]] /\ \A p \in Procs : Carries(p)

\* What every table, and every request in flight, is.
DirectoryTypes == RowsOK /\ TasksOK

-----------------------------------------------------------------------------
(***************************************************************************)
(* How far a synchronization is that nothing has disturbed.                *)
(***************************************************************************)
\* The first n departments are here, and the map has their ids.
Mapped(s, n) ==
    \A j \in 1 .. n : s.map[directory[j].id] = Listed(j) /\ DepartmentMirrored(j)

\* An account has what the directory knows of the person.
Told(row, e) ==
    /\ e.phone = NoPhone \/ row.phone = e.phone
    /\ \A k \in SyncIds : \E id \in row.ids : id[1] = k

Brought(e) ==
    LET u == GetByDingTalkUserID(e.who) IN u # 0 /\ Told(users[u], e)

Everyone == UNION {directory[j].staff : j \in DOMAIN directory}

\* The row that is next to be stored is what the last statement has found.
DeptInHand(w) ==
    LET s == w.row
        c == directory[s.done + 1]
        row == IF w.user = 0 THEN Dept(SyncOrg, 0, c.id, TRUE) ELSE depts[w.user]
    IN /\ w.user = Listed(s.done + 1)
       /\ s.copy = [row EXCEPT !.parent = ParentIn(s.map, c.parent, row)]

PersonInHand(w, e) ==
    /\ w.user = GetByDingTalkUserID(e.who)
    /\ w.row.copy = IF w.user = 0 THEN FromDirectory(e) ELSE Merged(users[w.user], e)

MemberInHand(w, e) ==
    LET u == GetByDingTalkUserID(e.who) IN
    /\ Brought(e)
    /\ w.bond = GetByOrgAndUser(SyncOrg, u)
    /\ w.member.org = SyncOrg /\ w.member.user = u /\ w.member.live /\ w.member.dept # 0

InHand(w, e) ==
    /\ w.pc = "savePerson" => PersonInHand(w, e)
    /\ w.pc = "person" => w.user = GetByDingTalkUserID(e.who) /\ Brought(e)
    /\ w.pc = "saveMember" => MemberInHand(w, e)

Done(e) == Brought(e) /\ PersonMirrored(e.who)

\* All that it has seen are members, but for the one in hand.
SeenDone(w) ==
    IF w.pc \in {"savePerson", "person", "saveMember"}
    THEN \E c \in Everyone :
            /\ InHand(w, c)
            /\ \A e \in Everyone : e.who \in w.row.seen /\ e.who # c.who => Done(e)
    ELSE \A e \in Everyone : e.who \in w.row.seen => Done(e)

AllSeen(s, pc) ==
    /\ \A j \in 1 .. s.done : \A e \in directory[j].staff : e.who \in s.seen
    /\ pc # "staff" => \A e \in directory[s.done + 1].staff : e.who \in s.seen \/ e \in s.staff

Tracks(w) ==
    /\ w.pc \in SyncLabels \ {"list"} => w.row.listed = directory
    /\ w.pc \in {"depts", "saveDept"} => Mapped(w.row, w.row.done)
    /\ w.pc = "saveDept" => DeptInHand(w)
    /\ w.pc \in SyncLabels \ {"list", "depts", "saveDept"} =>
          /\ Mapped(w.row, Len(directory))
          /\ w.row.staff \subseteq Everyone
          /\ AllSeen(w.row, w.pc)
          /\ SeenDone(w)

\* And any other, once nothing is left to do.
Calm(w) ==
    /\ w.pc \notin {"saveDept", "savePerson", "saveMember"}
    /\ w.pc \in SyncLabels \ {"list"} => w.row.listed \in {directory, <<>>}
    /\ w.pc = "depts" => Mapped(w.row, w.row.done)
    /\ w.pc \in {"people", "person"} => w.row.staff \subseteq Everyone
    /\ w.pc = "person" => \E e \in Everyone : w.user = GetByDingTalkUserID(e.who)

AllDone ==
    /\ \A j \in DOMAIN directory : DepartmentMirrored(j)
    /\ \A e \in Everyone : Done(e)

Undone ==
    \A p \in Procs : Alone(p) => Tracks(proc[p]) /\ \A q \in Procs \ {p} : At(q, "idle")

AllCalm == AllDone /\ \A p \in Procs : ~At(p, "idle") => Calm(proc[p])

NothingToDo == settled => AllCalm

-----------------------------------------------------------------------------
(***************************************************************************)
(* The ways in which a request goes on, and what the others then hold.     *)
(***************************************************************************)
Takes(p, w) == proc' = [proc EXCEPT ![p] = w]

LEMMA IdleIsNoTask == Idle.pc = "idle" /\ \A w \in Task : w.pc # "idle"
BY DEF Idle, Task, TaskLabels, SyncLabels

LEMMA TaskOf ==
    ASSUME TasksOK, NEW p \in Procs, ~At(p, "idle")
    PROVE  proc[p] \in Task /\ Fits(proc[p])
BY IdleIsNoTask DEF TasksOK, Carries, At

LEMMA FitsLike ==
    ASSUME NEW w, NEW v, Fits(w), v.pc = w.pc, v.org = w.org, v.row = w.row, v.member = w.member
    PROVE  Fits(v)
BY DEF Fits

LEMMA DisturbedTask ==
    ASSUME TasksOK, NEW q \in Procs, proc'[q] = Disturbed(q)
    PROVE  /\ Carries(q)' /\ ~Alone(q)'
           /\ proc'[q].pc = proc[q].pc
           /\ ~At(q, "idle") => proc'[q].row = proc[q].row /\ proc'[q].user = proc[q].user
<1>1. CASE At(q, "idle")
  BY <1>1, IdleIsNoTask DEF Disturbed, TasksOK, Carries, At, Alone
<1>2. CASE ~At(q, "idle")
  <2>1. PICK w : w = proc[q]
    OBVIOUS
  <2>2. w \in Task /\ Fits(w)
    BY <1>2, <2>1, TaskOf
  <2>3. PICK v : v = [w EXCEPT !.alone = FALSE]
    OBVIOUS
  <2>4. /\ v \in Task /\ v.pc = w.pc /\ v.org = w.org /\ v.row = w.row /\ v.member = w.member
        /\ v.user = w.user /\ v.alone = FALSE
    BY <2>2, <2>3 DEF Task
  <2>5. Fits(v)
    BY <2>2, <2>4, FitsLike
  <2>6. proc'[q] = v
    BY <1>2, <2>1, <2>3 DEF Disturbed
  <2> QED
    BY <1>2, <2>1, <2>4, <2>5, <2>6 DEF Carries, Alone
<1> QED
  BY <1>1, <1>2

LEMMA TasksStay ==
    ASSUME TasksOK, NEW p \in Procs, Turn(p), Carries(p)'
    PROVE  TasksOK'
<1>1. proc' = [q \in Procs |-> proc'[q]]
  BY DEF Turn
<1> SUFFICES ASSUME NEW q \in Procs \ {p} PROVE Carries(q)'
  BY <1>1 DEF TasksOK
<1>2. Kept(q)
  BY DEF Turn
<1>3. CASE proc'[q] = proc[q]
  BY <1>3 DEF TasksOK, Carries
<1>4. CASE proc'[q] = Disturbed(q)
  BY <1>4, DisturbedTask
<1> QED
  BY <1>2, <1>3, <1>4 DEF Kept

LEMMA DisturbsIs ==
    ASSUME TasksOK, Disturbs
    PROVE  TasksOK' /\ \A q \in Procs : proc'[q] = Disturbed(q)
<1>1. proc' = [q \in Procs |-> Disturbed(q)]
  BY Zenon DEF Disturbs, Disturbed
<1>2. PICK D : D = [q \in Procs |-> Disturbed(q)]
  OBVIOUS
<1>3. \A q \in Procs : proc'[q] = Disturbed(q)
  BY <1>1
<1>4. proc' = [q \in Procs |-> proc'[q]]
  BY <1>1
<1> QED
  BY <1>3, <1>4, DisturbedTask DEF TasksOK

LEMMA TakesIs ==
    ASSUME TasksOK, NEW p \in Procs, ~At(p, "idle"), NEW w, Takes(p, w),
           w = Idle \/ (w \in Task /\ Fits(w) /\ (w.alone => proc[p].alone))
    PROVE  Turn(p) /\ proc'[p] = w /\ TasksOK'
<1>1. proc = [q \in Procs |-> proc[q]]
  BY DEF TasksOK
<1>2. proc'[p] = w /\ \A q \in Procs \ {p} : proc'[q] = proc[q]
  BY <1>1 DEF Takes
<1>3. Alone(p)' => Alone(p)
  BY <1>2, IdleIsNoTask DEF Alone, At
<1>4. proc' = [q \in Procs |-> proc'[q]]
  <2>1. proc' = [q \in Procs |-> IF q = p THEN w ELSE proc[q]]
    BY <1>1 DEF Takes
  <2> QED
    BY <2>1
<1>5. Turn(p)
  BY <1>2, <1>3, <1>4 DEF Turn, Kept
<1>6. Carries(p)'
  BY <1>2 DEF Carries
<1> QED
  BY <1>2, <1>5, <1>6, TasksStay

LEMMA EndsTask ==
    ASSUME TasksOK, NEW p \in Procs, ~At(p, "idle"), Ends(p)
    PROVE  Turn(p) /\ proc'[p] = Idle /\ TasksOK'
BY TakesIs DEF Ends, Takes

LEMMA StartsTask ==
    ASSUME TasksOK, NEW p \in Procs, At(p, "idle"), NEW w \in Task, Fits(w), Starts(p, w)
    PROVE  /\ Turn(p) /\ TasksOK' /\ proc'[p].pc = w.pc
           /\ proc'[p].row = w.row /\ proc'[p].user = w.user
<1>1. PICK b \in BOOLEAN : b = (Busy = {})
  OBVIOUS
<1>2. PICK v : v = [w EXCEPT !.alone = b]
  OBVIOUS
<1>3. /\ v \in Task /\ v.pc = w.pc /\ v.org = w.org /\ v.row = w.row /\ v.member = w.member
      /\ v.user = w.user /\ v.alone = b
  BY <1>2 DEF Task
<1>4. Fits(v)
  BY <1>3, FitsLike
<1>5. proc' = [q \in Procs |-> IF q = p THEN v ELSE Disturbed(q)]
  BY <1>1, <1>2 DEF Starts, Disturbed
<1>6. proc'[p] = v /\ \A q \in Procs \ {p} : proc'[q] = Disturbed(q)
  BY <1>5
<1>7. \A q \in Procs \ {p} : Kept(q) /\ ~Alone(q)'
  BY <1>6, DisturbedTask DEF Kept
<1>8. Alone(p)' => Busy = {}
  BY <1>1, <1>3, <1>6 DEF Alone
<1>9. proc' = [q \in Procs |-> proc'[q]]
  BY <1>5
<1>10. Turn(p)
  BY <1>7, <1>8, <1>9 DEF Turn
<1>11. Carries(p)'
  BY <1>3, <1>4, <1>6 DEF Carries
<1> QED
  BY <1>3, <1>6, <1>10, <1>11, TasksStay

-----------------------------------------------------------------------------
(***************************************************************************)
(* The same for the forms that the steps of a synchronization have.        *)
(***************************************************************************)
LEMMA ContinuesIs ==
    ASSUME TasksOK, NEW p \in Procs, ~At(p, "idle"), NEW l \in TaskLabels, NEW r \in Carrying,
           NEW a \in BOOLEAN, Continues(p, l, r, a)
    PROVE  \E w \in Task :
              /\ Takes(p, w) /\ w.pc = l /\ w.row = r /\ w.alone = (proc[p].alone /\ a)
              /\ w.org = proc[p].org /\ w.user = proc[p].user /\ w.bond = proc[p].bond
              /\ w.member = proc[p].member
<1>1. PICK x : x = proc[p]
  OBVIOUS
<1>2. x \in Task
  BY <1>1, TaskOf
<1>3. PICK b \in BOOLEAN : b = (x.alone /\ a)
  BY <1>2 DEF Task
<1>4. PICK w : w = [x EXCEPT !.pc = l, !.row = r, !.alone = b]
  OBVIOUS
<1>5. /\ w \in Task /\ w.pc = l /\ w.row = r /\ w.alone = b
      /\ w.org = x.org /\ w.user = x.user /\ w.bond = x.bond /\ w.member = x.member
  BY <1>2, <1>4 DEF Task
<1>6. proc = [q \in Procs |-> proc[q]]
  BY DEF TasksOK
<1>7. proc' = [proc EXCEPT ![p].pc = l, ![p].row = r, ![p].alone = @ /\ a]
  BY DEF Continues
<1>8. proc' = [proc EXCEPT ![p] = w]
  BY <1>1, <1>3, <1>4, <1>6, <1>7
<1> QED
  BY <1>1, <1>3, <1>5, <1>8 DEF Takes

LEMMA StoresIs ==
    ASSUME TasksOK, NEW p \in Procs, ~At(p, "idle"), NEW l \in TaskLabels, NEW u \in Nat,
           NEW c \in DeptRow \cup UserRow \cup {Nobody}, Sync(p) \in Carrying,
           Stores(p, l, u, c)
    PROVE  \E w \in Task, r \in Carrying :
              /\ Takes(p, w) /\ w.pc = l /\ w.row = r /\ w.user = u /\ w.alone = proc[p].alone
              /\ w.org = proc[p].org /\ w.bond = proc[p].bond /\ w.member = proc[p].member
              /\ r = [Sync(p) EXCEPT !.copy = c] /\ r.copy = c
              /\ r.listed = Sync(p).listed /\ r.done = Sync(p).done /\ r.map = Sync(p).map
              /\ r.staff = Sync(p).staff /\ r.seen = Sync(p).seen
<1>1. PICK x, s : x = proc[p] /\ s = x.row
  OBVIOUS
<1>2. x \in Task /\ s \in Carrying
  BY <1>1, TaskOf DEF Sync
<1>3. PICK r : r = [s EXCEPT !.copy = c]
  OBVIOUS
<1>4. /\ r \in Carrying /\ r.copy = c /\ r.listed = s.listed /\ r.done = s.done /\ r.map = s.map
      /\ r.staff = s.staff /\ r.seen = s.seen
  BY <1>2, <1>3 DEF Carrying
<1>5. PICK w : w = [x EXCEPT !.pc = l, !.user = u, !.row = r]
  OBVIOUS
<1>6. /\ w \in Task /\ w.pc = l /\ w.row = r /\ w.user = u /\ w.alone = x.alone
      /\ w.org = x.org /\ w.bond = x.bond /\ w.member = x.member
  BY <1>2, <1>4, <1>5 DEF Task
<1>7. proc = [q \in Procs |-> proc[q]]
  BY DEF TasksOK
<1>8. proc' = [proc EXCEPT ![p].pc = l, ![p].user = u, ![p].row.copy = c]
  BY DEF Stores
<1>9. proc' = [proc EXCEPT ![p] = w]
  BY <1>1, <1>2, <1>3, <1>5, <1>7, <1>8 DEF Task, Carrying
<1>10. Sync(p) = s
  BY <1>1 DEF Sync
<1> QED
  BY <1>1, <1>3, <1>4, <1>6, <1>9, <1>10 DEF Takes

LEMMA ProgressIs ==
    ASSUME NEW s, NEW l \in Lists, NEW n \in Nat, NEW m \in Maps, NEW st \in SUBSET Staff,
           NEW sn \in SUBSET People, s = Progress(l, n, m, st, sn)
    PROVE  /\ s \in Carrying /\ s.listed = l /\ s.done = n /\ s.map = m /\ s.staff = st
           /\ s.seen = sn
BY DEF Progress, Carrying

\* A list that DingTalk gives.
LEMMA ListIs ==
    ASSUME NEW l \in Lists
    PROVE  /\ l \in Seq(Entries) /\ Len(l) \in Nat /\ DOMAIN l = 1 .. Len(l)
           /\ \A i \in DOMAIN l :
                 l[i] \in Entries /\ l[i].id \in Nat \ {0} /\ l[i].staff \in SUBSET Staff
           /\ \A i, j \in DOMAIN l : l[i].id = l[j].id => i = j
<1>1. CASE l = <<>>
  BY <1>1
<1>2. CASE l \in Directories
  <2>1. l \in Seq(Entries) /\ \A i, j \in DOMAIN l : l[i].id = l[j].id => i = j
    BY <1>2, DirectoriesKnown, Zenon
  <2>2. Len(l) \in Nat /\ DOMAIN l = 1 .. Len(l) /\ \A i \in DOMAIN l : l[i] \in Entries
    BY <2>1, SeqFacts
  <2> QED
    BY <2>1, <2>2 DEF Entries
<1> QED
  BY <1>1, <1>2 DEF Lists

LEMMA MapIs ==
    ASSUME NEW m \in Maps
    PROVE  /\ DOMAIN m \subseteq Nat /\ \A i \in DOMAIN m : m[i] \in Nat \ {0}
           /\ m = [i \in DOMAIN m |-> m[i]]
BY DEF Maps

LEMMA MapGrows ==
    ASSUME NEW m \in Maps, NEW i \in Nat, NEW d \in Nat \ {0}
    PROVE  /\ With(m, i, d) \in Maps
           /\ DOMAIN With(m, i, d) = DOMAIN m \cup {i}
           /\ With(m, i, d)[i] = d
           /\ \A j \in DOMAIN m \ {i} : With(m, i, d)[j] = m[j]
<1>1. PICK f : f = With(m, i, d)
  OBVIOUS
<1>2. f = [j \in DOMAIN m \cup {i} |-> IF j = i THEN d ELSE m[j]]
  BY <1>1 DEF With
<1>3. DOMAIN f \in SUBSET Nat /\ DOMAIN f = DOMAIN m \cup {i}
  BY <1>2, MapIs
<1>4. f \in [DOMAIN f -> Nat \ {0}]
  BY <1>2, <1>3, MapIs
<1>5. f \in Maps
  BY <1>3, <1>4 DEF Maps
<1> QED
  BY <1>1, <1>2, <1>3, <1>5

-----------------------------------------------------------------------------
(***************************************************************************)
(* What a synchronization holds, and what its queries find.                *)
(***************************************************************************)
LEMMA SyncIs ==
    ASSUME TasksOK, NEW p \in Procs, proc[p].pc \in SyncLabels \ {"list"}
    PROVE  /\ ~At(p, "idle") /\ proc[p] \in Task /\ proc[p].org = SyncOrg /\ proc[p].row = Sync(p)
           /\ Sync(p) \in Carrying /\ FarAs(Sync(p), proc[p].pc)
           /\ Sync(p).listed \in Lists /\ Sync(p).done \in Nat /\ Sync(p).map \in Maps
           /\ Sync(p).staff \in SUBSET Staff /\ Sync(p).seen \in SUBSET People
           /\ Len(Sync(p).listed) \in Nat
<1>1. ~At(p, "idle")
  BY DEF At, SyncLabels
<1>2. PICK w : w = proc[p]
  OBVIOUS
<1>3. w \in Task /\ Fits(w)
  BY <1>1, <1>2, TaskOf
<1>4. w.org = SyncOrg /\ w.row \in Carrying /\ FarAs(w.row, w.pc)
  BY <1>2, <1>3 DEF Fits
<1>5. /\ w.row.listed \in Lists /\ w.row.done \in Nat /\ w.row.map \in Maps
      /\ w.row.staff \in SUBSET Staff /\ w.row.seen \in SUBSET People
  BY <1>4 DEF Carrying
<1>6. Len(w.row.listed) \in Nat
  BY <1>5, ListIs
<1> QED
  BY <1>1, <1>2, <1>3, <1>4, <1>5, <1>6 DEF Sync

LEMMA CurrentIs ==
    ASSUME TasksOK, NEW p \in Procs, proc[p].pc \in SyncLabels \ {"list"}, More(p)
    PROVE  /\ Sync(p).done + 1 \in DOMAIN Sync(p).listed
           /\ Current(p) = Sync(p).listed[Sync(p).done + 1]
           /\ Current(p).id \in Nat \ {0} /\ Current(p).parent \in Nat
           /\ Current(p).staff \in SUBSET Staff
<1>1. PICK l, n : l = Sync(p).listed /\ n = Sync(p).done + 1
  OBVIOUS
<1>2. l \in Lists /\ n \in DOMAIN l
  BY <1>1, SyncIs, ListIs DEF More
<1>3. l[n] \in Entries
  BY <1>2, ListIs
<1> QED
  BY <1>1, <1>2, <1>3 DEF Current, Entries

\* A step of a request that keeps what Tasks are.
Went(p, w) ==
    /\ w \in Task /\ Fits(w)
    /\ Takes(p, w)
    /\ w.alone => proc[p].alone

LEMMA WentIs ==
    ASSUME TasksOK, NEW p \in Procs, ~At(p, "idle"), NEW w, Went(p, w)
    PROVE  Turn(p) /\ proc'[p] = w /\ TasksOK'
BY TakesIs DEF Went

LEMMA RowFound ==
    ASSUME NEW S, NEW s \in Seq(S), NEW I \in SUBSET DOMAIN s
    PROVE  /\ First(I) \in Nat
           /\ First(I) = 0 <=> I = {}
           /\ First(I) # 0 => First(I) \in I /\ s[First(I)] \in S
<1>1. I \in SUBSET Nat /\ 0 \notin I
  BY SeqFacts
<1> QED
  BY <1>1, FirstIs

LEMMA DeptFound ==
    ASSUME depts \in Seq(DeptRow), NEW o, NEW dt, NEW d, d = GetByDingTalkDeptID(o, dt)
    PROVE  /\ d \in Nat
           /\ d # 0 => /\ d \in DOMAIN depts /\ depts[d] \in DeptRow
                       /\ depts[d].live /\ depts[d].org = o /\ depts[d].dt = dt
           /\ d = 0 => \A e \in DeptsOf(o) : depts[e].dt # dt
<1>1. PICK I : I = {e \in DeptsOf(o) : depts[e].dt = dt}
  OBVIOUS
<1>2. I \in SUBSET DOMAIN depts
  BY <1>1 DEF DeptsOf, Live
<1>3. d = First(I)
  BY <1>1 DEF GetByDingTalkDeptID
<1>4. d \in Nat /\ (d = 0 <=> I = {}) /\ (d # 0 => d \in I /\ depts[d] \in DeptRow)
  BY <1>2, <1>3, RowFound
<1> QED
  BY <1>1, <1>2, <1>4 DEF DeptsOf, Live

LEMMA PersonFound ==
    ASSUME users \in Seq(UserRow), NEW d, NEW u, u = GetByDingTalkUserID(d)
    PROVE  /\ u \in Nat
           /\ u # 0 => /\ u \in DOMAIN users /\ users[u] \in UserRow
                       /\ <<"userid", d>> \in users[u].ids
           /\ u = 0 => \A v \in DOMAIN users : <<"userid", d>> \notin users[v].ids
<1>1. PICK I : I = {v \in DOMAIN users : <<"userid", d>> \in users[v].ids}
  OBVIOUS
<1>2. I \in SUBSET DOMAIN users
  BY <1>1
<1>3. u = First(I)
  BY <1>1 DEF GetByDingTalkUserID
<1>4. u \in Nat /\ (u = 0 <=> I = {}) /\ (u # 0 => u \in I /\ users[u] \in UserRow)
  BY <1>2, <1>3, RowFound
<1> QED
  BY <1>1, <1>2, <1>4

LEMMA MemberFound ==
    ASSUME bonds \in Seq(BondRow), NEW o, NEW u, NEW b, b = GetByOrgAndUser(o, u)
    PROVE  /\ b \in Nat
           /\ b # 0 => /\ b \in DOMAIN bonds /\ bonds[b] \in BondRow
                       /\ bonds[b].live /\ bonds[b].org = o /\ bonds[b].user = u
           /\ b = 0 => \A c \in BondsOf(o) : bonds[c].user # u
<1>1. PICK I : I = {c \in BondsOf(o) : bonds[c].user = u}
  OBVIOUS
<1>2. I \in SUBSET DOMAIN bonds
  BY <1>1 DEF BondsOf
<1>3. b = First(I)
  BY <1>1 DEF GetByOrgAndUser
<1>4. b \in Nat /\ (b = 0 <=> I = {}) /\ (b # 0 => b \in I /\ bonds[b] \in BondRow)
  BY <1>2, <1>3, RowFound
<1> QED
  BY <1>1, <1>2, <1>4 DEF BondsOf

LEMMA NoMember ==
    ASSUME bonds \in Seq(BondRow), NEW o, NEW u, GetByOrgAndUser(o, u) = 0
    PROVE  \A c \in BondsOf(o) : bonds[c].user # u
<1>1. PICK b : b = GetByOrgAndUser(o, u)
  OBVIOUS
<1> QED
  BY <1>1, MemberFound

-----------------------------------------------------------------------------
(***************************************************************************)
(* The steps, one by one: what the request then holds.                     *)
(***************************************************************************)
\* One more id in the list.
LEMMA IdsToNext ==
    ASSUME NEW l, NEW n \in Nat
    PROVE  /\ IdsTo(l, n + 1) = IdsTo(l, n) \cup {l[n + 1].id}
           /\ IdsTo(l, 0) = {}
<1>1. 1 .. (n + 1) = (1 .. n) \cup {n + 1} /\ 1 .. 0 = {}
  OBVIOUS
<1> QED
  BY <1>1, Zenon DEF IdsTo

LEMMA LabelsAre ==
    /\ SyncLabels \subseteq TaskLabels
    /\ {"list", "depts", "saveDept", "staff", "people", "savePerson", "person", "saveMember"}
          = SyncLabels
BY DEF SyncLabels, TaskLabels

LEMMA StartsSync ==
    ASSUME TasksOK, NEW p \in Procs, SyncStart(p)
    PROVE  Turn(p) /\ TasksOK' /\ At(p, "list")'
<1>1. PICK w : w = Work("list", SyncOrg, 0, Nobody, Nobody)
  OBVIOUS
<1>2. w \in Task /\ w.pc = "list" /\ w.org = SyncOrg
  BY <1>1, SyncOrgKnown DEF Work, Task, TaskLabels, SyncLabels
<1>3. Fits(w)
  BY <1>2 DEF Fits, SyncLabels
<1> QED
  BY <1>1, <1>2, <1>3, StartsTask DEF SyncStart, At

LEMMA ListGoes ==
    ASSUME RowsOK, TasksOK, NEW p \in Procs, SyncList(p)
    PROVE  \E w : \E l \in {directory, <<>>} :
              /\ Went(p, w) /\ w.pc = "depts"
              /\ w.row.listed = l /\ w.row.done = 0
              /\ w.alone => proc[p].alone /\ l = directory
<1>1. ~At(p, "idle")
  BY DEF SyncList, At
<1>2. PICK l \in {directory, <<>>} :
         Continues(p, "depts", Progress(l, 0, <<>>, {}, {}), l = directory)
  BY DEF SyncList
<1>3. PICK s, a : s = Progress(l, 0, <<>>, {}, {}) /\ a = (l = directory)
  OBVIOUS
<1>4. l \in Lists /\ a \in BOOLEAN
  BY <1>3 DEF RowsOK, Lists
<1>5. <<>> \in Maps /\ DOMAIN <<>> = {}
  <2>1. <<>> \in [{} -> Nat \ {0}] /\ {} \in SUBSET Nat
    OBVIOUS
  <2> QED
    BY <2>1 DEF Maps
<1>6. s \in Carrying /\ s.listed = l /\ s.done = 0 /\ s.map = <<>>
  BY <1>3, <1>4, <1>5, ProgressIs
<1>7. PICK w \in Task :
         /\ Takes(p, w) /\ w.pc = "depts" /\ w.row = s /\ w.alone = (proc[p].alone /\ a)
         /\ w.org = proc[p].org
  <2>1. "depts" \in TaskLabels
    BY LabelsAre
  <2>2. Continues(p, "depts", s, a)
    BY <1>2, <1>3
  <2> QED
    BY <1>1, <1>4, <1>6, <2>1, <2>2, ContinuesIs
<1>8. w.org = SyncOrg
  BY <1>1, <1>7, TaskOf DEF Fits, SyncList, At, SyncLabels
<1>9. FarAs(s, "depts")
  <2>1. Len(l) \in Nat
    BY <1>4, ListIs
  <2>2. IdsTo(l, 0) = {}
    BY IdsToNext
  <2>3. s.done <= Len(s.listed)
    BY <1>6, <2>1
  <2>4. DOMAIN s.map = IdsTo(s.listed, s.done)
    BY <1>5, <1>6, <2>2
  <2> QED
    BY <2>3, <2>4 DEF FarAs, WithDept
<1>10. Fits(w)
  BY <1>6, <1>7, <1>8, <1>9 DEF Fits, SyncLabels
<1> QED
  BY <1>3, <1>6, <1>7, <1>10 DEF Went

LEMMA DeptDoneGoes ==
    ASSUME TasksOK, NEW p \in Procs, proc[p].pc \in {"depts", "saveDept"}, More(p),
           NEW d \in Nat \ {0}, DeptDone(p, d)
    PROVE  \E w :
              /\ Went(p, w) /\ w.pc = "depts" /\ w.alone = proc[p].alone
              /\ w.row.listed = Sync(p).listed /\ w.row.done = Sync(p).done + 1
              /\ w.row.map = With(Sync(p).map, Current(p).id, d)
<1>0. proc[p].pc \in SyncLabels \ {"list"}
  BY DEF SyncLabels
<1>1. PICK l, n, m, i :
         l = Sync(p).listed /\ n = Sync(p).done /\ m = Sync(p).map /\ i = Current(p).id
  OBVIOUS
<1>2. l \in Lists /\ n \in Nat /\ m \in Maps /\ i \in Nat \ {0} /\ i = l[n + 1].id
  BY <1>0, <1>1, SyncIs, CurrentIs
<1>3. DOMAIN m = IdsTo(l, n) /\ n < Len(l) /\ Len(l) \in Nat
  BY <1>0, <1>1, SyncIs DEF FarAs, More
<1>4. PICK t : t = With(m, i, d)
  OBVIOUS
<1>5. t \in Maps /\ DOMAIN t = DOMAIN m \cup {i}
  <2>1. m \in Maps /\ i \in Nat
    BY <1>2
  <2>2. With(m, i, d) \in Maps /\ DOMAIN With(m, i, d) = DOMAIN m \cup {i}
    BY <2>1, MapGrows, Zenon
  <2> QED
    BY <1>4, <2>2
<1>6. PICK s : s = Progress(l, n + 1, t, {}, {})
  OBVIOUS
<1>7. s \in Carrying /\ s.listed = l /\ s.done = n + 1 /\ s.map = t
  BY <1>2, <1>5, <1>6, ProgressIs
<1>8. PICK a \in BOOLEAN : a = TRUE
  OBVIOUS
<1>13. Continues(p, "depts", s, a)
  BY <1>1, <1>4, <1>6, <1>8 DEF DeptDone
<1>9. PICK w \in Task :
         /\ Takes(p, w) /\ w.pc = "depts" /\ w.row = s /\ w.alone = (proc[p].alone /\ a)
         /\ w.org = proc[p].org
  <2>1. "depts" \in TaskLabels
    BY LabelsAre
  <2>2. ~At(p, "idle")
    BY <1>0, SyncIs
  <2> QED
    BY <1>7, <1>13, <2>1, <2>2, ContinuesIs
<1>10. w.org = SyncOrg /\ w.alone = proc[p].alone
  BY <1>0, <1>8, <1>9, SyncIs DEF Task
<1>11. FarAs(s, "depts")
  <2>1. IdsTo(l, n + 1) = IdsTo(l, n) \cup {i}
    BY <1>2, IdsToNext
  <2>2. DOMAIN s.map = IdsTo(s.listed, s.done)
    BY <1>3, <1>5, <1>7, <2>1
  <2>3. s.done <= Len(s.listed)
    BY <1>2, <1>3, <1>7
  <2> QED
    BY <2>2, <2>3 DEF FarAs, WithDept
<1>12. Fits(w)
  BY <1>7, <1>9, <1>10, <1>11 DEF Fits, SyncLabels
<1> QED
  BY <1>1, <1>4, <1>7, <1>9, <1>10, <1>12 DEF Went

\* The department's row as it is to be, and whether it is already.
Wanted(p, d) ==
    LET row == IF d = 0 THEN Dept(SyncOrg, 0, Current(p).id, TRUE) ELSE depts[d]
    IN [row EXCEPT !.parent = ParentIn(Sync(p).map, Current(p).parent, row)]

LEMMA WantedIs ==
    ASSUME RowsOK, TasksOK, NEW p \in Procs, proc[p].pc \in SyncLabels \ {"list"}, More(p),
           NEW d, d = GetByDingTalkDeptID(SyncOrg, Current(p).id)
    PROVE  /\ Wanted(p, d) \in DeptRow
           /\ Wanted(p, d).live /\ Wanted(p, d).org = SyncOrg /\ Wanted(p, d).dt = Current(p).id
<1>1. PICK m, up, i : m = Sync(p).map /\ up = Current(p).parent /\ i = Current(p).id
  OBVIOUS
<1>2. PICK row : row = IF d = 0 THEN Dept(SyncOrg, 0, i, TRUE) ELSE depts[d]
  OBVIOUS
<1>3. m \in Maps /\ up \in Nat /\ i \in Nat
  BY <1>1, SyncIs, CurrentIs
<1>4. row \in DeptRow /\ row.live /\ row.org = SyncOrg /\ row.dt = i
  <2>1. CASE d = 0
    BY <1>2, <1>3, <2>1, SyncOrgKnown DEF Dept, DeptRow
  <2>2. CASE d # 0
    BY <1>1, <1>2, <2>2, DeptFound DEF RowsOK
  <2> QED
    BY <2>1, <2>2
<1>5. PICK up2 : up2 = ParentIn(m, up, row)
  OBVIOUS
<1>6. up2 \in Nat
  BY <1>3, <1>4, <1>5, MapIs DEF ParentIn, DeptRow
<1>7. PICK new : new = [row EXCEPT !.parent = up2]
  OBVIOUS
<1>8. new \in DeptRow /\ new.live /\ new.org = SyncOrg /\ new.dt = i
  BY <1>4, <1>6, <1>7 DEF DeptRow
<1>9. Wanted(p, d) = new
  BY <1>1, <1>2, <1>5, <1>7 DEF Wanted
<1> QED
  BY <1>1, <1>8, <1>9

LEMMA DeptGoes ==
    ASSUME RowsOK, TasksOK, NEW p \in Procs, SyncDept(p),
           NEW d, d = GetByDingTalkDeptID(SyncOrg, Current(p).id)
    PROVE  \/ d # 0 /\ Wanted(p, d) = depts[d] /\ DeptDone(p, d)
           \/ \E w :
                 /\ Went(p, w) /\ w.pc = "saveDept" /\ w.alone = proc[p].alone
                 /\ w.row.listed = Sync(p).listed /\ w.row.done = Sync(p).done
                 /\ w.row.map = Sync(p).map /\ w.row.copy = Wanted(p, d) /\ w.user = d
                 /\ ~(d # 0 /\ Wanted(p, d) = depts[d])
<1>1. proc[p].pc \in SyncLabels \ {"list"} /\ More(p) /\ proc[p].pc = "depts"
  BY DEF SyncDept, At, SyncLabels
<1>2. proc[p].org = SyncOrg
  BY <1>1, SyncIs
<1>3. PICK new : new = Wanted(p, d)
  OBVIOUS
<1>4. IF d # 0 /\ new = depts[d] THEN DeptDone(p, d) ELSE Stores(p, "saveDept", d, new)
  <2>1. LET row == IF d = 0 THEN Dept(SyncOrg, 0, Current(p).id, TRUE) ELSE depts[d]
            nw == [row EXCEPT !.parent = ParentIn(Sync(p).map, Current(p).parent, row)]
        IN IF d # 0 /\ nw = row THEN DeptDone(p, d) ELSE Stores(p, "saveDept", d, nw)
    BY <1>2, Zenon DEF SyncDept
  <2>2. PICK row : row = IF d = 0 THEN Dept(SyncOrg, 0, Current(p).id, TRUE) ELSE depts[d]
    OBVIOUS
  <2>3. new = [row EXCEPT !.parent = ParentIn(Sync(p).map, Current(p).parent, row)]
    BY <1>3, <2>2 DEF Wanted
  <2>4. IF d # 0 /\ new = row THEN DeptDone(p, d) ELSE Stores(p, "saveDept", d, new)
    BY <2>1, <2>2, <2>3, Zenon
  <2> QED
    BY <2>2, <2>4
<1>5. ASSUME ~(d # 0 /\ new = depts[d])
      PROVE  \E w :
                 /\ Went(p, w) /\ w.pc = "saveDept" /\ w.alone = proc[p].alone
                 /\ w.row.listed = Sync(p).listed /\ w.row.done = Sync(p).done
                 /\ w.row.map = Sync(p).map /\ w.row.copy = new /\ w.user = d
  <2>1. Stores(p, "saveDept", d, new)
    BY <1>4, <1>5
  <2>2. d \in Nat /\ new \in DeptRow
    BY <1>1, <1>3, DeptFound, WantedIs DEF RowsOK
  <2>3. PICK s : s = Sync(p)
    OBVIOUS
  <2>4. s \in Carrying /\ ~At(p, "idle") /\ FarAs(s, "depts")
    BY <1>1, <2>3, SyncIs
  <2>5. PICK w \in Task, r \in Carrying :
           /\ Takes(p, w) /\ w.pc = "saveDept" /\ w.row = r /\ w.user = d
           /\ w.alone = proc[p].alone /\ w.org = proc[p].org
           /\ r.copy = new /\ r.listed = s.listed /\ r.done = s.done /\ r.map = s.map
    <3>1. "saveDept" \in TaskLabels
      BY LabelsAre
    <3> QED
      BY <2>1, <2>2, <2>3, <2>4, <3>1, StoresIs
  <2>6. FarAs(r, "saveDept")
    BY <1>1, <2>3, <2>4, <2>5 DEF FarAs, More, WithDept
  <2>7. Fits(w)
    BY <1>2, <2>2, <2>5, <2>6 DEF Fits, SyncLabels
  <2> QED
    BY <2>3, <2>5, <2>7 DEF Went
<1> QED
  BY <1>3, <1>4, <1>5

LEMMA SaveDeptGoes ==
    ASSUME RowsOK, TasksOK, NEW p \in Procs, SyncSaveDept(p)
    PROVE  /\ More(p) /\ Sync(p).copy \in DeptRow
           /\ \/ proc[p].user = 0 /\ StoreDept(Sync(p).copy) /\ DeptDone(p, Len(depts) + 1)
              \/ /\ proc[p].user # 0 /\ proc[p].user \in Nat
                 /\ UpdateDept(proc[p].user, Sync(p).copy) /\ DeptDone(p, proc[p].user)
<1>1. proc[p].pc = "saveDept"
  BY DEF SyncSaveDept, At
<1>2. proc[p].pc \in SyncLabels \ {"list"}
  BY <1>1, LabelsAre
<1>3. proc[p] \in Task /\ FarAs(Sync(p), proc[p].pc) /\ ~At(p, "idle")
  BY <1>2, SyncIs
<1>4. More(p)
  BY <1>1, <1>3 DEF FarAs, More, WithDept
<1>5. Sync(p).copy \in DeptRow
  BY <1>1, <1>3, TaskOf DEF Fits, Sync
<1>6. proc[p].user \in Nat
  BY <1>3 DEF Task
<1> QED
  BY <1>4, <1>5, <1>6 DEF SyncSaveDept

LEMMA DeptsDoneGoes ==
    ASSUME TasksOK, NEW p \in Procs, SyncDeptsDone(p)
    PROVE  \E w :
              /\ Went(p, w) /\ w.pc = "staff" /\ w.alone = proc[p].alone
              /\ w.row.listed = Sync(p).listed /\ w.row.done = 0
              /\ w.row.map = Sync(p).map /\ w.row.staff = {} /\ w.row.seen = {}
              /\ Sync(p).done = Len(Sync(p).listed)
<1>1. proc[p].pc = "depts" /\ ~More(p)
  BY DEF SyncDeptsDone, At
<1>2. proc[p].pc \in SyncLabels \ {"list"}
  BY <1>1, LabelsAre
<1>3. PICK l, n, m : l = Sync(p).listed /\ n = Sync(p).done /\ m = Sync(p).map
  OBVIOUS
<1>4. l \in Lists /\ n \in Nat /\ m \in Maps /\ Len(l) \in Nat /\ ~At(p, "idle")
  BY <1>2, <1>3, SyncIs
<1>5. n = Len(l) /\ DOMAIN m = IdsTo(l, Len(l))
  BY <1>1, <1>2, <1>3, <1>4, SyncIs DEF FarAs, More
<1>6. PICK s : s = Progress(l, 0, m, {}, {})
  OBVIOUS
<1>7. s \in Carrying /\ s.listed = l /\ s.done = 0 /\ s.map = m /\ s.staff = {} /\ s.seen = {}
  BY <1>4, <1>6, ProgressIs
<1>8. PICK a \in BOOLEAN : a = TRUE
  OBVIOUS
<1>9. Continues(p, "staff", s, a)
  BY <1>3, <1>6, <1>8 DEF SyncDeptsDone
<1>10. PICK w \in Task :
         /\ Takes(p, w) /\ w.pc = "staff" /\ w.row = s /\ w.alone = (proc[p].alone /\ a)
         /\ w.org = proc[p].org
  <2>1. "staff" \in TaskLabels
    BY LabelsAre
  <2> QED
    BY <1>4, <1>7, <1>9, <2>1, ContinuesIs
<1>11. w.org = SyncOrg /\ w.alone = proc[p].alone
  BY <1>2, <1>8, <1>10, SyncIs DEF Task
<1>12. FarAs(s, "staff")
  BY <1>4, <1>5, <1>7 DEF FarAs, WithDept
<1>13. Fits(w)
  BY <1>7, <1>10, <1>11, <1>12 DEF Fits, SyncLabels
<1> QED
  BY <1>3, <1>5, <1>7, <1>10, <1>11, <1>13 DEF Went

LEMMA StaffNowIs ==
    ASSUME RowsOK, NEW i
    PROVE  /\ StaffNow(i) \in SUBSET Staff
           /\ StaffNow(i) \subseteq Everyone
           /\ \A j \in DOMAIN directory : directory[j].id = i => StaffNow(i) = directory[j].staff
<1>1. directory \in Lists
  BY DEF RowsOK, Lists
<1>2. /\ \A j \in DOMAIN directory : directory[j].staff \in SUBSET Staff
      /\ \A j, k \in DOMAIN directory : directory[j].id = directory[k].id => j = k
  BY <1>1, ListIs
<1>3. PICK I : I = {j \in DOMAIN directory : directory[j].id = i}
  OBVIOUS
<1>4. StaffNow(i) = UNION {directory[j].staff : j \in I}
  BY <1>3 DEF StaffNow
<1>5. ASSUME NEW j \in DOMAIN directory, directory[j].id = i
      PROVE  StaffNow(i) = directory[j].staff
  <2>1. I = {j}
    BY <1>2, <1>3, <1>5
  <2> QED
    BY <1>4, <2>1
<1>6. StaffNow(i) \in SUBSET Staff /\ StaffNow(i) \subseteq Everyone
  BY <1>2, <1>3, <1>4 DEF Everyone
<1> QED
  BY <1>5, <1>6

LEMMA ListStaffGoes ==
    ASSUME RowsOK, TasksOK, NEW p \in Procs, SyncListStaff(p)
    PROVE  \E w : \E st \in {StaffNow(Current(p).id), {}} :
              /\ Went(p, w) /\ w.pc = "people"
              /\ w.row.listed = Sync(p).listed /\ w.row.done = Sync(p).done
              /\ w.row.map = Sync(p).map /\ w.row.staff = Unseen(st, Sync(p).seen)
              /\ w.row.seen = Sync(p).seen
              /\ w.alone => proc[p].alone /\ st = StaffNow(Current(p).id)
              /\ More(p)
<1>1. proc[p].pc = "staff" /\ More(p)
  BY DEF SyncListStaff, At
<1>2. proc[p].pc \in SyncLabels \ {"list"}
  BY <1>1, LabelsAre
<1>3. PICK l, n, m, sn, now : l = Sync(p).listed /\ n = Sync(p).done /\ m = Sync(p).map
                              /\ sn = Sync(p).seen /\ now = StaffNow(Current(p).id)
  OBVIOUS
<1>4. /\ l \in Lists /\ n \in Nat /\ m \in Maps /\ Len(l) \in Nat /\ ~At(p, "idle")
      /\ sn \in SUBSET People
  BY <1>2, <1>3, SyncIs
<1>5. n < Len(l) /\ DOMAIN m = IdsTo(l, Len(l))
  BY <1>1, <1>2, <1>3, <1>4, SyncIs DEF FarAs, More
<1>6. PICK st \in {now, {}} :
         Continues(p, "people", Progress(l, n, m, Unseen(st, sn), sn), st = now)
  BY <1>3, Zenon DEF SyncListStaff
<1>7. Unseen(st, sn) \in SUBSET Staff
  BY <1>3, StaffNowIs DEF Unseen
<1>8. PICK s, a : s = Progress(l, n, m, Unseen(st, sn), sn) /\ a = (st = now)
  OBVIOUS
<1>9. /\ s \in Carrying /\ s.listed = l /\ s.done = n /\ s.map = m /\ s.staff = Unseen(st, sn)
      /\ s.seen = sn /\ a \in BOOLEAN
  <2>1. a \in BOOLEAN
    BY <1>8
  <2>2. PICK un \in SUBSET Staff : un = Unseen(st, sn)
    BY <1>7
  <2>3. s = Progress(l, n, m, un, sn)
    BY <1>8, <2>2
  <2>4. s \in Carrying /\ s.listed = l /\ s.done = n /\ s.map = m /\ s.staff = un /\ s.seen = sn
    BY <1>4, <2>3, ProgressIs
  <2> QED
    BY <2>1, <2>2, <2>4
<1>10. PICK w \in Task :
         /\ Takes(p, w) /\ w.pc = "people" /\ w.row = s /\ w.alone = (proc[p].alone /\ a)
         /\ w.org = proc[p].org
  <2>1. "people" \in TaskLabels
    BY LabelsAre
  <2>2. Continues(p, "people", s, a)
    BY <1>6, <1>8
  <2> QED
    BY <1>4, <1>9, <2>1, <2>2, ContinuesIs
<1>11. w.org = SyncOrg /\ (w.alone => proc[p].alone /\ st = now)
  BY <1>2, <1>8, <1>10, SyncIs
<1>12. FarAs(s, "people")
  BY <1>4, <1>5, <1>9 DEF FarAs, WithDept
<1>13. Fits(w)
  BY <1>9, <1>10, <1>11, <1>12 DEF Fits, SyncLabels
<1> QED
  BY <1>1, <1>3, <1>9, <1>10, <1>11, <1>13 DEF Went

LEMMA NextDeptGoes ==
    ASSUME TasksOK, NEW p \in Procs, NextDept(p)
    PROVE  \E w :
              /\ Went(p, w) /\ w.pc = "staff" /\ w.alone = proc[p].alone
              /\ w.row.listed = Sync(p).listed /\ w.row.done = Sync(p).done + 1
              /\ w.row.map = Sync(p).map /\ w.row.staff = {} /\ w.row.seen = Sync(p).seen
              /\ Sync(p).staff = {}
<1>1. proc[p].pc = "people" /\ Sync(p).staff = {}
  BY DEF NextDept, At
<1>2. proc[p].pc \in SyncLabels \ {"list"}
  BY <1>1, LabelsAre
<1>3. PICK l, n, m, sn : l = Sync(p).listed /\ n = Sync(p).done /\ m = Sync(p).map
                         /\ sn = Sync(p).seen
  OBVIOUS
<1>4. /\ l \in Lists /\ n \in Nat /\ m \in Maps /\ Len(l) \in Nat /\ ~At(p, "idle")
      /\ sn \in SUBSET People
  BY <1>2, <1>3, SyncIs
<1>5. n < Len(l) /\ DOMAIN m = IdsTo(l, Len(l))
  <2>1. FarAs(Sync(p), "people")
    BY <1>1, <1>2, SyncIs
  <2> QED
    BY <1>3, <2>1 DEF FarAs, WithDept
<1>6. PICK s : s = Progress(l, n + 1, m, {}, sn)
  OBVIOUS
<1>7. s \in Carrying /\ s.listed = l /\ s.done = n + 1 /\ s.map = m /\ s.staff = {} /\ s.seen = sn
  <2>1. n + 1 \in Nat /\ {} \in SUBSET Staff
    BY <1>4
  <2> QED
    BY <1>4, <1>6, <2>1, ProgressIs
<1>8. PICK a \in BOOLEAN : a = TRUE
  OBVIOUS
<1>9. Continues(p, "staff", s, a)
  BY <1>3, <1>6, <1>8 DEF NextDept
<1>10. PICK w \in Task :
         /\ Takes(p, w) /\ w.pc = "staff" /\ w.row = s /\ w.alone = (proc[p].alone /\ a)
         /\ w.org = proc[p].org
  <2>1. "staff" \in TaskLabels
    BY LabelsAre
  <2> QED
    BY <1>4, <1>7, <1>9, <2>1, ContinuesIs
<1>11. w.org = SyncOrg /\ w.alone = proc[p].alone
  BY <1>2, <1>8, <1>10, SyncIs DEF Task
<1>12. FarAs(s, "staff")
  <2>1. s.done <= Len(s.listed)
    BY <1>4, <1>5, <1>7
  <2>2. DOMAIN s.map = IdsTo(s.listed, Len(s.listed))
    BY <1>5, <1>7
  <2> QED
    BY <2>1, <2>2 DEF FarAs, WithDept
<1>13. Fits(w)
  BY <1>7, <1>10, <1>11, <1>12 DEF Fits, SyncLabels
<1> QED
  BY <1>1, <1>3, <1>7, <1>10, <1>11, <1>13 DEF Went

LEMMA StaffIs ==
    ASSUME NEW e \in Staff
    PROVE  e.who \in People /\ e.phone \in Phones \cup {NoPhone}
BY DEF Staff

LEMMA FromDirectoryIs ==
    ASSUME NEW e \in Staff
    PROVE  /\ FromDirectory(e) \in UserRow /\ OneUserid(FromDirectory(e))
           /\ Told(FromDirectory(e), e)
           /\ \A d : <<"userid", d>> \in FromDirectory(e).ids <=> d = e.who
<1>1. PICK r, ids : r = FromDirectory(e) /\ ids = SyncIds \X {e.who}
  OBVIOUS
<1>2. r = [phone |-> e.phone, name |-> NoName, password |-> NoPassword, ids |-> ids]
  BY <1>1 DEF FromDirectory, User
<1>3. ids \in SUBSET ({"userid", "union", "open"} \X People)
  BY <1>1, StaffIs, SyncIdsKnown
<1>4. r \in UserRow /\ r.ids = ids /\ r.phone = e.phone
  BY <1>2, <1>3, StaffIs DEF UserRow
<1>5. \A d : <<"userid", d>> \in ids <=> d = e.who
  BY <1>1, SyncIdsKnown
<1>6. \A k \in SyncIds : \E id \in ids : id[1] = k
  <2> SUFFICES ASSUME NEW k \in SyncIds PROVE \E id \in ids : id[1] = k
    OBVIOUS
  <2>1. <<k, e.who>> \in ids /\ <<k, e.who>>[1] = k
    BY <1>1
  <2> QED
    BY <2>1
<1>7. OneUserid(r) /\ Told(r, e)
  BY <1>4, <1>5, <1>6 DEF OneUserid, Told
<1> QED
  BY <1>1, <1>4, <1>5, <1>7

LEMMA MergedIs ==
    ASSUME NEW r \in UserRow, NEW e \in Staff, NEW m, m = Merged(r, e), OneUserid(r)
    PROVE  /\ m \in UserRow /\ OneUserid(m) /\ Told(m, e)
           /\ <<"userid", e.who>> \in r.ids =>
                 \A d : <<"userid", d>> \in m.ids <=> <<"userid", d>> \in r.ids
           /\ Told(r, e) => m = r
<1>1. PICK missing \in SUBSET SyncIds : missing = {k \in SyncIds : \A id \in r.ids : id[1] # k}
  OBVIOUS
<1>2. PICK ids : ids = r.ids \cup (missing \X {e.who})
  OBVIOUS
<1>3. PICK ph : ph = IF e.phone = NoPhone THEN r.phone ELSE e.phone
  OBVIOUS
<1>4. m = [r EXCEPT !.phone = ph, !.ids = ids]
  <2>1. PICK q : q = [r EXCEPT !.phone = ph]
    OBVIOUS
  <2>2. q \in [DOMAIN r -> {q[x] : x \in DOMAIN r}] /\ q.ids = r.ids
    BY <2>1 DEF UserRow
  <2>3. m = AddIds(q, SyncIds, e.who)
    BY <1>3, <2>1 DEF Merged
  <2>4. m = [q EXCEPT !.ids = ids]
    BY <1>1, <1>2, <2>2, <2>3 DEF AddIds
  <2> QED
    BY <2>1, <2>4 DEF UserRow
<1>5. ids \in SUBSET ({"userid", "union", "open"} \X People)
  <2>1. r.ids \in SUBSET ({"userid", "union", "open"} \X People)
    BY DEF UserRow
  <2>2. (missing \X {e.who}) \in SUBSET ({"userid", "union", "open"} \X People)
    BY StaffIs, SyncIdsKnown
  <2> QED
    BY <1>2, <2>1, <2>2
<1>6. ph \in Phones \cup {NoPhone} /\ (e.phone = NoPhone \/ ph = e.phone)
  BY <1>3, StaffIs DEF UserRow
<1>7. m \in UserRow /\ m.ids = ids /\ m.phone = ph
  BY <1>4, <1>5, <1>6 DEF UserRow
<1>8. \A k \in SyncIds : \E id \in ids : id[1] = k
  <2> SUFFICES ASSUME NEW k \in SyncIds PROVE \E id \in ids : id[1] = k
    OBVIOUS
  <2>1. CASE k \in missing
    <3>1. <<k, e.who>> \in ids /\ <<k, e.who>>[1] = k
      BY <1>2, <2>1
    <3> QED
      BY <3>1
  <2>2. CASE k \notin missing
    BY <1>1, <1>2, <2>2
  <2> QED
    BY <2>1, <2>2
<1>9. \A d : <<"userid", d>> \in ids <=>
                 <<"userid", d>> \in r.ids \/ ("userid" \in missing /\ d = e.who)
  BY <1>2
<1>10. "userid" \in missing => \A d : <<"userid", d>> \notin r.ids
  <2>1. \A d : <<"userid", d>>[1] = "userid"
    OBVIOUS
  <2> QED
    BY <1>1, <2>1
<1>11. OneUserid(m)
  BY <1>7, <1>9, <1>10 DEF OneUserid
<1>12. Told(m, e)
  BY <1>6, <1>7, <1>8 DEF Told
<1>13. ASSUME Told(r, e) PROVE m = r
  <2>1. missing = {}
    BY <1>1, <1>13 DEF Told
  <2>2. ids = r.ids
    BY <1>2, <2>1
  <2>3. ph = r.phone
    BY <1>3, <1>13 DEF Told
  <2> QED
    BY <1>4, <2>2, <2>3 DEF UserRow
<1> QED
  BY <1>7, <1>9, <1>10, <1>11, <1>12, <1>13

\* The person's row as it is to be.
Account(e, u) == IF u = 0 THEN FromDirectory(e) ELSE Merged(users[u], e)

LEMMA AccountIs ==
    ASSUME RowsOK, NEW e \in Staff, NEW u, u = GetByDingTalkUserID(e.who)
    PROVE  Account(e, u) \in UserRow /\ OneUserid(Account(e, u)) /\ u \in Nat
<1>1. CASE u = 0
  BY <1>1, FromDirectoryIs DEF Account
<1>2. CASE u # 0
  <2>1. u \in DOMAIN users /\ users[u] \in UserRow /\ OneUserid(users[u]) /\ u \in Nat
    BY <1>2, PersonFound DEF RowsOK
  <2> QED
    BY <1>2, <2>1, MergedIs DEF Account
<1> QED
  BY <1>1, <1>2

LEMMA PersonGoes ==
    ASSUME RowsOK, TasksOK, NEW p \in Procs, SyncPerson(p)
    PROVE  \E w, u : \E e \in Sync(p).staff :
              /\ Went(p, w) /\ w.alone = proc[p].alone
              /\ u = GetByDingTalkUserID(e.who) /\ w.user = u
              /\ w.pc = IF u # 0 /\ Account(e, u) = users[u] THEN "person" ELSE "savePerson"
              /\ w.row.listed = Sync(p).listed /\ w.row.done = Sync(p).done
              /\ w.row.map = Sync(p).map /\ w.row.staff = Sync(p).staff \ {e}
              /\ w.row.seen = Sync(p).seen \cup {e.who} /\ w.row.copy = Account(e, u)
<1>0. At(p, "people")
  BY Zenon DEF SyncPerson
<1>1. proc[p].pc = "people"
  BY <1>0 DEF At
<1>2. proc[p].pc \in SyncLabels \ {"list"}
  BY <1>1, LabelsAre
<1>3. PICK x, l, n, m, sf, sn :
         /\ x = proc[p] /\ l = Sync(p).listed /\ n = Sync(p).done /\ m = Sync(p).map
         /\ sf = Sync(p).staff /\ sn = Sync(p).seen
  OBVIOUS
<1>4. /\ l \in Lists /\ n \in Nat /\ m \in Maps /\ Len(l) \in Nat /\ ~At(p, "idle")
      /\ sn \in SUBSET People /\ sf \in SUBSET Staff /\ x \in Task /\ x.org = SyncOrg
  BY <1>2, <1>3, SyncIs
<1>5. n < Len(l) /\ DOMAIN m = IdsTo(l, Len(l)) /\ n <= Len(l)
  BY <1>1, <1>2, <1>3, <1>4, SyncIs DEF FarAs, WithDept
<1>6. PICK e \in sf :
         LET u == GetByDingTalkUserID(e.who)
             row == IF u = 0 THEN FromDirectory(e) ELSE Merged(users[u], e)
         IN proc' = [proc EXCEPT
               ![p].pc = IF u # 0 /\ row = users[u] THEN "person" ELSE "savePerson",
               ![p].user = u,
               ![p].row = [Progress(l, n, m, sf \ {e}, sn \cup {e.who}) EXCEPT !.copy = row]]
  BY <1>3, Zenon DEF SyncPerson
<1>7. e \in Staff /\ e.who \in People
  BY <1>4, StaffIs
<1>8. PICK u : u = GetByDingTalkUserID(e.who)
  OBVIOUS
<1>9. PICK row : row = Account(e, u)
  OBVIOUS
<1>10. row \in UserRow /\ OneUserid(row) /\ u \in Nat
  BY <1>7, <1>8, <1>9, AccountIs
<1>11. PICK lab : lab = IF u # 0 /\ row = users[u] THEN "person" ELSE "savePerson"
  OBVIOUS
<1>12. PICK s : s = Progress(l, n, m, sf \ {e}, sn \cup {e.who})
  OBVIOUS
<1>13. PICK sf2, sn2 : sf2 = sf \ {e} /\ sn2 = sn \cup {e.who}
  OBVIOUS
<1>14. sf2 \in SUBSET Staff /\ sn2 \in SUBSET People /\ s = Progress(l, n, m, sf2, sn2)
  BY <1>4, <1>7, <1>12, <1>13
<1>15. s \in Carrying /\ s.listed = l /\ s.done = n /\ s.map = m /\ s.staff = sf2 /\ s.seen = sn2
  BY <1>4, <1>14, ProgressIs
<1>16. PICK t : t = [s EXCEPT !.copy = row]
  OBVIOUS
<1>17. /\ t \in Carrying /\ t.listed = l /\ t.done = n /\ t.map = m /\ t.staff = sf2
       /\ t.seen = sn2 /\ t.copy = row
  BY <1>10, <1>15, <1>16 DEF Carrying
<1>18. proc' = [proc EXCEPT ![p].pc = lab, ![p].user = u, ![p].row = t]
  BY <1>6, <1>8, <1>9, <1>11, <1>12, <1>16, Zenon DEF Account
<1>19. lab \in {"person", "savePerson"} /\ lab \in TaskLabels /\ lab \in SyncLabels
  BY <1>11 DEF TaskLabels, SyncLabels
<1>20. PICK w : w = [x EXCEPT !.pc = lab, !.user = u, !.row = t]
  OBVIOUS
<1>21. /\ w \in Task /\ w.pc = lab /\ w.user = u /\ w.row = t /\ w.org = x.org
       /\ w.alone = x.alone
  BY <1>4, <1>10, <1>17, <1>19, <1>20 DEF Task
<1>22. Takes(p, w)
  <2>1. proc = [q \in Procs |-> proc[q]]
    BY DEF TasksOK
  <2> QED
    BY <1>3, <1>18, <1>20, <2>1 DEF Takes
<1>23. FarAs(t, lab)
  BY <1>5, <1>17, <1>19 DEF FarAs, WithDept
<1>24. Fits(w)
  BY <1>4, <1>10, <1>17, <1>19, <1>21, <1>23 DEF Fits
<1> QED
  BY <1>3, <1>8, <1>9, <1>11, <1>13, <1>17, <1>21, <1>22, <1>24 DEF Went

LEMMA SavePersonGoes ==
    ASSUME RowsOK, TasksOK, NEW p \in Procs, SyncSavePerson(p)
    PROVE  /\ Sync(p).copy \in UserRow /\ OneUserid(Sync(p).copy) /\ proc[p].user \in Nat
           /\ \E w :
                 /\ Went(p, w) /\ w.pc = "person" /\ w.alone = proc[p].alone
                 /\ w.row.listed = Sync(p).listed /\ w.row.done = Sync(p).done
                 /\ w.row.map = Sync(p).map /\ w.row.staff = Sync(p).staff
                 /\ w.row.seen = Sync(p).seen
                 /\ \/ /\ proc[p].user = 0 /\ w.user = Len(users) + 1
                       /\ CreateUser(Sync(p).copy)
                    \/ /\ proc[p].user # 0 /\ w.user = proc[p].user
                       /\ UpdateUser(proc[p].user, Sync(p).copy)
<1>1. proc[p].pc = "savePerson"
  BY DEF SyncSavePerson, At
<1>2. proc[p].pc \in SyncLabels \ {"list"}
  BY <1>1, LabelsAre
<1>3. /\ proc[p] \in Task /\ FarAs(Sync(p), proc[p].pc) /\ ~At(p, "idle") /\ Sync(p) \in Carrying
      /\ proc[p].org = SyncOrg
  BY <1>2, SyncIs
<1>4. Sync(p).copy \in UserRow /\ OneUserid(Sync(p).copy)
  BY <1>1, <1>3, TaskOf DEF Fits, Sync
<1>5. proc[p].user \in Nat
  BY <1>3 DEF Task
<1>6. PICK u \in Nat :
         /\ Stores(p, "person", u, Nobody)
         /\ \/ proc[p].user = 0 /\ u = Len(users) + 1 /\ CreateUser(Sync(p).copy)
            \/ proc[p].user # 0 /\ u = proc[p].user /\ UpdateUser(proc[p].user, Sync(p).copy)
  <2>1. Len(users) + 1 \in Nat
    BY DEF RowsOK
  <2> QED
    BY <1>5, <2>1, Zenon DEF SyncSavePerson
<1>7. PICK s : s = Sync(p)
  OBVIOUS
<1>8. PICK w \in Task, r \in Carrying :
         /\ Takes(p, w) /\ w.pc = "person" /\ w.row = r /\ w.user = u
         /\ w.alone = proc[p].alone /\ w.org = proc[p].org
         /\ r.listed = s.listed /\ r.done = s.done /\ r.map = s.map
         /\ r.staff = s.staff /\ r.seen = s.seen
  <2>1. "person" \in TaskLabels
    BY LabelsAre
  <2>2. PICK c \in DeptRow \cup UserRow \cup {Nobody} : c = Nobody
    OBVIOUS
  <2> QED
    BY <1>3, <1>6, <1>7, <2>1, <2>2, StoresIs
<1>9. FarAs(r, "person")
  BY <1>1, <1>3, <1>7, <1>8 DEF FarAs, WithDept
<1>10. Fits(w)
  BY <1>3, <1>8, <1>9 DEF Fits, SyncLabels
<1> QED
  BY <1>4, <1>5, <1>6, <1>7, <1>8, <1>10 DEF Went

\* The bond as it is to be.
Membership(p, b) ==
    LET dept == Sync(p).map[Current(p).id]
    IN IF b = 0 THEN Bond(SyncOrg, proc[p].user, FALSE, dept, TRUE)
       ELSE [bonds[b] EXCEPT !.dept = IF @ = 0 THEN dept ELSE @]

LEMMA MembershipIs ==
    ASSUME RowsOK, TasksOK, NEW p \in Procs, At(p, "person"), NEW b,
           b = GetByOrgAndUser(SyncOrg, proc[p].user)
    PROVE  /\ Membership(p, b) \in BondRow
           /\ Membership(p, b).org = SyncOrg /\ Membership(p, b).user = proc[p].user
           /\ Membership(p, b).live /\ Membership(p, b).dept # 0
           /\ b # 0 /\ bonds[b].dept # 0 => Membership(p, b) = bonds[b]
<1>1. proc[p].pc = "person"
  BY DEF At
<1>2. proc[p].pc \in SyncLabels \ {"list"}
  BY <1>1, LabelsAre
<1>3. PICK w, l, n, m, i, u : w = proc[p] /\ l = Sync(p).listed /\ n = Sync(p).done
                              /\ m = Sync(p).map /\ i = Current(p).id /\ u = proc[p].user
  OBVIOUS
<1>4. /\ l \in Lists /\ n \in Nat /\ m \in Maps /\ Len(l) \in Nat /\ w \in Task
      /\ FarAs(Sync(p), "person")
  BY <1>1, <1>2, <1>3, SyncIs
<1>5. n < Len(l) /\ DOMAIN m = IdsTo(l, Len(l)) /\ More(p)
  BY <1>3, <1>4 DEF FarAs, WithDept, More
<1>6. i \in DOMAIN m
  <2>1. i = l[n + 1].id /\ n + 1 \in 1 .. Len(l)
    BY <1>2, <1>3, <1>4, <1>5, CurrentIs
  <2> QED
    BY <1>5, <2>1 DEF IdsTo
<1>7. PICK dept : dept = m[i]
  OBVIOUS
<1>8. dept \in Nat \ {0}
  BY <1>4, <1>6, <1>7, MapIs
<1>9. u \in Nat
  BY <1>3, <1>4 DEF Task
<1>10. CASE b = 0
  <2>1. PICK row : row = Bond(SyncOrg, u, FALSE, dept, TRUE)
    OBVIOUS
  <2>2. row \in BondRow /\ row.org = SyncOrg /\ row.user = u /\ row.live /\ row.dept = dept
    BY <1>8, <1>9, <2>1, SyncOrgKnown DEF Bond, BondRow
  <2>3. Membership(p, b) = row
    BY <1>3, <1>7, <1>10, <2>1 DEF Membership
  <2> QED
    BY <1>3, <1>8, <1>10, <2>2, <2>3
<1>11. CASE b # 0
  <2>1. PICK old : old = bonds[b]
    OBVIOUS
  <2>2. old \in BondRow /\ old.live /\ old.org = SyncOrg /\ old.user = u
    BY <1>3, <1>11, <2>1, MemberFound DEF RowsOK
  <2>3. PICK dt : dt = IF old.dept = 0 THEN dept ELSE old.dept
    OBVIOUS
  <2>4. PICK row : row = [old EXCEPT !.dept = dt]
    OBVIOUS
  <2>5. dt \in Nat \ {0}
    BY <1>8, <2>2, <2>3 DEF BondRow
  <2>6. /\ row \in BondRow /\ row.org = SyncOrg /\ row.user = u /\ row.live /\ row.dept # 0
        /\ old.dept # 0 => row = old
    BY <2>2, <2>3, <2>4, <2>5 DEF BondRow
  <2>7. Membership(p, b) = row
    BY <1>3, <1>7, <1>11, <2>1, <2>3, <2>4 DEF Membership
  <2> QED
    BY <1>3, <2>1, <2>6, <2>7
<1> QED
  BY <1>10, <1>11

LEMMA BondGoes ==
    ASSUME RowsOK, TasksOK, NEW p \in Procs, SyncBond(p), NEW b,
           b = GetByOrgAndUser(SyncOrg, proc[p].user)
    PROVE  \E w :
              /\ Went(p, w) /\ w.alone = proc[p].alone
              /\ w.pc = IF b # 0 /\ Membership(p, b) = bonds[b] THEN "people" ELSE "saveMember"
              /\ w.row.listed = Sync(p).listed /\ w.row.done = Sync(p).done
              /\ w.row.map = Sync(p).map /\ w.row.staff = Sync(p).staff
              /\ w.row.seen = Sync(p).seen
              /\ w.bond = b /\ w.member = Membership(p, b)
<1>0. At(p, "person")
  BY Zenon DEF SyncBond
<1>1. proc[p].pc = "person" /\ At(p, "person")
  BY <1>0 DEF At
<1>2. proc[p].pc \in SyncLabels \ {"list"}
  BY <1>1, LabelsAre
<1>3. PICK x, s : x = proc[p] /\ s = Sync(p)
  OBVIOUS
<1>4. /\ x \in Task /\ FarAs(s, "person") /\ ~At(p, "idle") /\ s \in Carrying
      /\ x.org = SyncOrg /\ x.row = s
  BY <1>1, <1>2, <1>3, SyncIs
<1>5. PICK row : row = Membership(p, b)
  OBVIOUS
<1>6. row \in BondRow /\ b \in Nat
  BY <1>1, <1>5, MembershipIs, MemberFound DEF RowsOK
<1>7. PICK lab : lab = IF b # 0 /\ row = bonds[b] THEN "people" ELSE "saveMember"
  OBVIOUS
<1>8. proc' = [proc EXCEPT ![p].pc = lab, ![p].user = 0, ![p].bond = b,
                           ![p].row.copy = Nobody, ![p].member = row]
  <2>1. LET dept == Sync(p).map[Current(p).id]
            rw == IF b = 0 THEN Bond(SyncOrg, proc[p].user, FALSE, dept, TRUE)
                  ELSE [bonds[b] EXCEPT !.dept = IF @ = 0 THEN dept ELSE @]
        IN proc' = [proc EXCEPT
               ![p].pc = IF b # 0 /\ rw = bonds[b] THEN "people" ELSE "saveMember",
               ![p].user = 0, ![p].bond = b, ![p].row.copy = Nobody, ![p].member = rw]
    BY <1>3, <1>4, Zenon DEF SyncBond
  <2> QED
    BY <1>5, <1>7, <2>1, Zenon DEF Membership
<1>9. PICK t : t = [s EXCEPT !.copy = Nobody]
  OBVIOUS
<1>10. /\ t \in Carrying /\ t.listed = s.listed /\ t.done = s.done /\ t.map = s.map
       /\ t.staff = s.staff /\ t.seen = s.seen
  BY <1>4, <1>9 DEF Carrying
<1>11. PICK w : w = [x EXCEPT !.pc = lab, !.user = 0, !.bond = b, !.row = t, !.member = row]
  OBVIOUS
<1>12. lab \in {"people", "saveMember"} /\ lab \in TaskLabels /\ lab \in SyncLabels
  BY <1>7 DEF TaskLabels, SyncLabels
<1>13. /\ w \in Task /\ w.pc = lab /\ w.user = 0 /\ w.bond = b /\ w.row = t /\ w.member = row
       /\ w.org = x.org /\ w.alone = x.alone
  BY <1>4, <1>6, <1>10, <1>11, <1>12 DEF Task
<1>14. Takes(p, w)
  <2>1. proc = [q \in Procs |-> proc[q]]
    BY DEF TasksOK
  <2> QED
    BY <1>3, <1>4, <1>8, <1>9, <1>11, <2>1 DEF Takes, Task, Carrying
<1>15. FarAs(t, lab)
  BY <1>4, <1>10, <1>12 DEF FarAs, WithDept
<1>16. Fits(w)
  BY <1>4, <1>6, <1>10, <1>12, <1>13, <1>15 DEF Fits
<1> QED
  BY <1>3, <1>5, <1>7, <1>10, <1>13, <1>14, <1>16 DEF Went

LEMMA SaveBondGoes ==
    ASSUME RowsOK, TasksOK, NEW p \in Procs, SyncSaveBond(p)
    PROVE  /\ proc[p].member \in BondRow /\ proc[p].bond \in Nat
           /\ \E w :
                 /\ Went(p, w) /\ w.pc = "people" /\ w.alone = proc[p].alone
                 /\ w.row = Sync(p)
           /\ \/ proc[p].bond = 0 /\ CreateBond(proc[p].member)
              \/ proc[p].bond # 0 /\ UpdateBond(proc[p].bond, proc[p].member)
<1>1. proc[p].pc = "saveMember"
  BY DEF SyncSaveBond, At
<1>2. proc[p].pc \in SyncLabels \ {"list"}
  BY <1>1, LabelsAre
<1>3. PICK x, s : x = proc[p] /\ s = Sync(p)
  OBVIOUS
<1>4. /\ x \in Task /\ FarAs(s, "saveMember") /\ ~At(p, "idle") /\ s \in Carrying
      /\ x.org = SyncOrg /\ x.row = s
  BY <1>1, <1>2, <1>3, SyncIs
<1>5. x.member \in BondRow /\ x.bond \in Nat
  BY <1>1, <1>3, <1>4, TaskOf DEF Fits, Task
<1>6. proc' = [proc EXCEPT ![p].pc = "people", ![p].bond = 0, ![p].member = Nobody]
  BY DEF SyncSaveBond
<1>7. PICK w : w = [x EXCEPT !.pc = "people", !.bond = 0, !.member = Nobody]
  OBVIOUS
<1>8. /\ w \in Task /\ w.pc = "people" /\ w.row = s /\ w.org = x.org /\ w.alone = x.alone
  <2>1. "people" \in TaskLabels
    BY LabelsAre
  <2> QED
    BY <1>4, <1>7, <2>1 DEF Task
<1>9. Takes(p, w)
  <2>1. proc = [q \in Procs |-> proc[q]]
    BY DEF TasksOK
  <2> QED
    BY <1>3, <1>6, <1>7, <2>1 DEF Takes
<1>10. FarAs(s, "people")
  BY <1>4 DEF FarAs, WithDept
<1>11. Fits(w)
  BY <1>4, <1>8, <1>10 DEF Fits, SyncLabels
<1>12. \/ proc[p].bond = 0 /\ CreateBond(proc[p].member)
       \/ proc[p].bond # 0 /\ UpdateBond(proc[p].bond, proc[p].member)
  BY DEF SyncSaveBond
<1> QED
  BY <1>3, <1>5, <1>8, <1>9, <1>11, <1>12 DEF Went

-----------------------------------------------------------------------------
(***************************************************************************)
(* The rows stay what they are.                                            *)
(***************************************************************************)
LEMMA RowsStay ==
    ASSUME RowsOK, UNCHANGED <<users, bonds, depts, directory>>
    PROVE  RowsOK'
BY DEF RowsOK

LEMMA DeptAppended ==
    ASSUME depts \in Seq(DeptRow), NEW row \in DeptRow, StoreDept(row)
    PROVE  /\ depts' \in Seq(DeptRow) /\ DOMAIN depts' = DOMAIN depts \cup {Len(depts) + 1}
           /\ depts'[Len(depts) + 1] = row /\ \A d \in DOMAIN depts : depts'[d] = depts[d]
           /\ Len(depts) + 1 \in Nat \ {0} /\ Len(depts) + 1 \notin DOMAIN depts
<1>1. PICK n : n = Len(depts) + 1
  OBVIOUS
<1>2. DOMAIN depts = 1 .. Len(depts) /\ Len(depts) \in Nat
  BY SeqFacts
<1>3. depts' = Append(depts, row)
  BY DEF StoreDept
<1> QED
  BY <1>2, <1>3, Appended

LEMMA DeptReplaced ==
    ASSUME depts \in Seq(DeptRow), NEW d, NEW row \in DeptRow, UpdateDept(d, row)
    PROVE  /\ depts' \in Seq(DeptRow) /\ DOMAIN depts' = DOMAIN depts
           /\ \A e \in DOMAIN depts : depts'[e] = IF e = d THEN row ELSE depts[e]
<1>1. PICK s : s = [depts EXCEPT ![d] = row]
  OBVIOUS
<1>2. depts' = s
  BY <1>1 DEF UpdateDept
<1>3. DOMAIN s = DOMAIN depts /\ \A e \in DOMAIN depts : s[e] = IF e = d THEN row ELSE depts[e]
  BY <1>1
<1>4. s = [e \in DOMAIN depts |-> s[e]]
  BY <1>1
<1>5. \A e \in DOMAIN depts : s[e] \in DeptRow
  BY <1>3, SeqFacts
<1>6. s \in Seq(DeptRow)
  BY <1>4, <1>5, Rewritten
<1> QED
  BY <1>2, <1>3, <1>6

\* What a deletion of d leaves of e's row.
Left(r, e, d) == [r EXCEPT !.parent = IF @ = d THEN 0 ELSE @, !.live = @ /\ e # d]

LEMMA LeftIs ==
    ASSUME NEW r \in DeptRow, NEW e, NEW d
    PROVE  Left(r, e, d) \in DeptRow
<1>1. PICK up, lv : up = (IF r.parent = d THEN 0 ELSE r.parent) /\ lv = (r.live /\ e # d)
  OBVIOUS
<1>2. up \in Nat /\ lv \in BOOLEAN
  BY <1>1 DEF DeptRow
<1>3. PICK q : q = [r EXCEPT !.parent = up, !.live = lv]
  OBVIOUS
<1>4. q \in DeptRow
  BY <1>2, <1>3 DEF DeptRow
<1>5. Left(r, e, d) = q
  BY <1>1, <1>3, Zenon DEF Left
<1> QED
  BY <1>4, <1>5

LEMMA DeptDeleted ==
    ASSUME depts \in Seq(DeptRow), NEW d, DeleteDept(d)
    PROVE  depts' \in Seq(DeptRow)
<1>1. depts' = [e \in DOMAIN depts |-> Left(depts[e], e, d)]
  BY Zenon DEF DeleteDept, Left
<1>2. \A e \in DOMAIN depts : Left(depts[e], e, d) \in DeptRow
  BY SeqFacts, LeftIs
<1>3. PICK t : t = [e \in DOMAIN depts |-> Left(depts[e], e, d)]
  OBVIOUS
<1>4. t = [e \in DOMAIN depts |-> t[e]] /\ \A e \in DOMAIN depts : t[e] \in DeptRow
  BY <1>2, <1>3
<1>5. t \in Seq(DeptRow)
  BY <1>4, Rewritten
<1> QED
  BY <1>1, <1>3, <1>5

LEMMA UserAppended ==
    ASSUME users \in Seq(UserRow), NEW row \in UserRow, CreateUser(row)
    PROVE  /\ users' \in Seq(UserRow) /\ DOMAIN users' = DOMAIN users \cup {Len(users) + 1}
           /\ users'[Len(users) + 1] = row /\ \A u \in DOMAIN users : users'[u] = users[u]
           /\ Len(users) + 1 \in Nat \ {0} /\ Len(users) + 1 \notin DOMAIN users
<1>1. DOMAIN users = 1 .. Len(users) /\ Len(users) \in Nat
  BY SeqFacts
<1>2. users' = Append(users, row)
  BY DEF CreateUser
<1> QED
  BY <1>1, <1>2, Appended

LEMMA UserReplaced ==
    ASSUME users \in Seq(UserRow), NEW v, NEW row \in UserRow, UpdateUser(v, row)
    PROVE  /\ users' \in Seq(UserRow) /\ DOMAIN users' = DOMAIN users
           /\ \A u \in DOMAIN users : users'[u] = IF u = v THEN row ELSE users[u]
<1>1. PICK s : s = [users EXCEPT ![v] = row]
  OBVIOUS
<1>2. users' = s
  BY <1>1 DEF UpdateUser, Saved
<1>3. DOMAIN s = DOMAIN users /\ \A u \in DOMAIN users : s[u] = IF u = v THEN row ELSE users[u]
  BY <1>1
<1>4. s = [u \in DOMAIN users |-> s[u]]
  BY <1>1
<1>5. \A u \in DOMAIN users : s[u] \in UserRow
  BY <1>3, SeqFacts
<1>6. s \in Seq(UserRow)
  BY <1>4, <1>5, Rewritten
<1> QED
  BY <1>2, <1>3, <1>6

LEMMA BondAppended ==
    ASSUME bonds \in Seq(BondRow), NEW row \in BondRow, CreateBond(row)
    PROVE  /\ bonds' \in Seq(BondRow) /\ DOMAIN bonds' = DOMAIN bonds \cup {Len(bonds) + 1}
           /\ bonds'[Len(bonds) + 1] = row /\ \A b \in DOMAIN bonds : bonds'[b] = bonds[b]
           /\ Len(bonds) + 1 \in Nat \ {0} /\ Len(bonds) + 1 \notin DOMAIN bonds
<1>1. DOMAIN bonds = 1 .. Len(bonds) /\ Len(bonds) \in Nat
  BY SeqFacts
<1>2. bonds' = Append(bonds, row)
  BY DEF CreateBond
<1> QED
  BY <1>1, <1>2, Appended

LEMMA BondReplaced ==
    ASSUME bonds \in Seq(BondRow), NEW c, NEW row \in BondRow, UpdateBond(c, row)
    PROVE  /\ bonds' \in Seq(BondRow) /\ DOMAIN bonds' = DOMAIN bonds
           /\ \A b \in DOMAIN bonds : bonds'[b] = IF b = c THEN row ELSE bonds[b]
<1>1. PICK s : s = [bonds EXCEPT ![c] = row]
  OBVIOUS
<1>2. bonds' = s
  BY <1>1 DEF UpdateBond
<1>3. DOMAIN s = DOMAIN bonds /\ \A b \in DOMAIN bonds : s[b] = IF b = c THEN row ELSE bonds[b]
  BY <1>1
<1>4. s = [b \in DOMAIN bonds |-> s[b]]
  BY <1>1
<1>5. \A b \in DOMAIN bonds : s[b] \in BondRow
  BY <1>3, SeqFacts
<1>6. s \in Seq(BondRow)
  BY <1>4, <1>5, Rewritten
<1> QED
  BY <1>2, <1>3, <1>6

LEMMA BondsDeleted ==
    ASSUME bonds \in Seq(BondRow), NEW o, NEW u, DeleteByOrgAndUser(o, u)
    PROVE  bonds' \in Seq(BondRow)
<1>1. bonds' = [b \in DOMAIN bonds |-> bonds'[b]]
  BY DEF DeleteByOrgAndUser
<1>2. ASSUME NEW b \in DOMAIN bonds PROVE bonds'[b] \in BondRow
  <2>1. PICK r : r = bonds[b]
    OBVIOUS
  <2>2. r \in BondRow
    BY <2>1, SeqFacts
  <2>3. bonds'[b] = IF r.org = o /\ r.user = u THEN [r EXCEPT !.live = FALSE] ELSE r
    BY <2>1 DEF DeleteByOrgAndUser
  <2> QED
    BY <2>2, <2>3 DEF BondRow
<1> QED
  BY <1>1, <1>2, Rewritten

LEMMA DeptIs ==
    ASSUME NEW o \in Orgs, NEW parent \in Nat, NEW dt \in Nat, NEW live \in BOOLEAN
    PROVE  Dept(o, parent, dt, live) \in DeptRow
BY DEF Dept, DeptRow

LEMMA ParentsIs ==
    ASSUME depts \in Seq(DeptRow)
    PROVE  Parents \subseteq Nat /\ Live \subseteq DOMAIN depts
BY SeqFacts DEF Parents, Live

-----------------------------------------------------------------------------
(***************************************************************************)
(* The steps of the others: one statement, which disturbs, or a turn of a  *)
(* request that is no synchronization.                                     *)
(***************************************************************************)
Aside(p) ==
    Turn(p) /\ TasksOK' /\ (proc'[p] = Idle \/ proc'[p].pc \in {"saveMoved", "count", "delete"})

Elsewhere == Disturbs \/ \E p \in Procs : Aside(p)

LEMMA EndsAside ==
    ASSUME TasksOK, NEW p \in Procs, ~At(p, "idle"), Ends(p)
    PROVE  Elsewhere
BY EndsTask DEF Elsewhere, Aside

LEMMA CreatesDept ==
    ASSUME RowsOK, NEW o \in Orgs, DeptCreate(o)
    PROVE  Disturbs /\ depts' \in Seq(DeptRow) /\ UNCHANGED unmoved
<1>1. PICK parent \in Parents : StoreDept(Dept(o, parent, 0, TRUE))
  BY DEF DeptCreate
<1>2. PICK row : row = Dept(o, parent, 0, TRUE)
  OBVIOUS
<1>3. row \in DeptRow
  <2>1. parent \in Nat /\ 0 \in Nat /\ TRUE \in BOOLEAN
    BY ParentsIs DEF RowsOK
  <2> QED
    BY <1>2, <2>1, DeptIs
<1> QED
  BY <1>1, <1>2, <1>3, DeptAppended DEF DeptCreate, RowsOK

LEMMA ReplacesDept ==
    ASSUME RowsOK, NEW o \in Orgs, NEW d \in DOMAIN depts, DeptReplace(o, d)
    PROVE  Disturbs /\ depts' \in Seq(DeptRow) /\ UNCHANGED unmoved
<1>1. PICK parent \in Parents \cup {d} : UpdateDept(d, Dept(o, parent, 0, TRUE))
  BY DEF DeptReplace
<1>2. PICK row : row = Dept(o, parent, 0, TRUE)
  OBVIOUS
<1>3. row \in DeptRow
  <2>1. parent \in Nat /\ 0 \in Nat /\ TRUE \in BOOLEAN
    BY ParentsIs, SeqFacts DEF RowsOK
  <2> QED
    BY <1>2, <2>1, DeptIs
<1>4. UpdateDept(d, row)
  BY <1>1, <1>2
<1> QED
  BY <1>3, <1>4, DeptReplaced DEF DeptReplace, RowsOK

LEMMA DeletesDept ==
    ASSUME RowsOK, NEW d, DeptDelete(d)
    PROVE  Disturbs /\ depts' \in Seq(DeptRow) /\ UNCHANGED unmoved
BY DeptDeleted DEF DeptDelete, RowsOK

LEMMA UpdatesDept ==
    ASSUME RowsOK, TasksOK, NEW p \in Procs, NEW d \in Live, NEW parent \in Parents,
           DeptUpdate(p, d, parent)
    PROVE  Aside(p) /\ UNCHANGED <<unmoved, depts>>
<1>1. PICK old : old = depts[d]
  OBVIOUS
<1>2. d \in DOMAIN depts /\ d \in Nat /\ parent \in Nat /\ old \in DeptRow
  BY <1>1, ParentsIs, SeqFacts DEF RowsOK
<1>3. PICK row : row = [old EXCEPT !.parent = parent]
  OBVIOUS
<1>4. row \in DeptRow /\ old.org \in Orgs
  BY <1>2, <1>3 DEF DeptRow
<1>5. PICK w : w = Work("saveMoved", old.org, d, row, Nobody)
  OBVIOUS
<1>6. w \in Task /\ w.pc = "saveMoved" /\ w.row = row
  BY <1>2, <1>4, <1>5 DEF Work, Task, TaskLabels
<1>7. Fits(w)
  BY <1>4, <1>6 DEF Fits, SyncLabels
<1>8. At(p, "idle") /\ Starts(p, w) /\ UNCHANGED <<unmoved, depts>>
  BY <1>1, <1>3, <1>5, Zenon DEF DeptUpdate
<1> QED
  BY <1>6, <1>7, <1>8, StartsTask DEF Aside

LEMMA SavesDept ==
    ASSUME RowsOK, TasksOK, NEW p \in Procs, DeptUpdateSave(p)
    PROVE  Aside(p) /\ depts' \in Seq(DeptRow) /\ UNCHANGED unmoved
<1>1. At(p, "saveMoved") /\ ~At(p, "idle")
  BY DEF DeptUpdateSave, At
<1>2. proc[p].row \in DeptRow
  BY <1>1, TaskOf DEF Fits, At
<1>3. depts' \in Seq(DeptRow)
  <2>1. PICK d, row : d = proc[p].user /\ row = proc[p].row
    OBVIOUS
  <2>2. UpdateDept(d, row)
    BY <2>1 DEF DeptUpdateSave
  <2> QED
    BY <1>2, <2>1, <2>2, DeptReplaced DEF RowsOK
<1>4. Ends(p) /\ UNCHANGED unmoved
  BY DEF DeptUpdateSave
<1> QED
  BY <1>1, <1>3, <1>4, EndsTask DEF Aside

LEMMA DepartmentsAside ==
    ASSUME RowsOK, TasksOK, DepartmentStep
    PROVE  Elsewhere /\ depts' \in Seq(DeptRow) /\ UNCHANGED unmoved
<1> DEFINE Goal == Elsewhere /\ depts' \in Seq(DeptRow) /\ UNCHANGED unmoved
<1>1. ASSUME NEW o \in Orgs, DeptCreate(o) PROVE Goal
  BY <1>1, CreatesDept DEF Elsewhere
<1>2. ASSUME NEW d \in Live, DeptDelete(d) PROVE Goal
  BY <1>2, DeletesDept DEF Elsewhere
<1>3. ASSUME NEW d \in Live, DeptSetManager(d) PROVE Goal
  BY <1>3 DEF DeptSetManager, Elsewhere, RowsOK
<1>4. ASSUME NEW o \in Orgs, NEW d \in DOMAIN depts, DeptReplace(o, d) PROVE Goal
  BY <1>4, ReplacesDept DEF Elsewhere
<1>5. ASSUME NEW p \in Procs, NEW d \in Live, NEW parent \in Parents, DeptUpdate(p, d, parent)
      PROVE  Goal
  BY <1>5, UpdatesDept DEF Elsewhere, RowsOK
<1>6. ASSUME NEW p \in Procs, DeptUpdateSave(p) PROVE Goal
  BY <1>6, SavesDept DEF Elsewhere
<1>7. \/ \E o \in Orgs : DeptCreate(o)
      \/ \E d \in Live : DeptDelete(d) \/ DeptSetManager(d)
      \/ \E o \in Orgs, d \in DOMAIN depts : DeptReplace(o, d)
      \/ \E p \in Procs : DeptUpdateSave(p)
      \/ \E p \in Procs, d \in Live, parent \in Parents : DeptUpdate(p, d, parent)
  BY Zenon DEF DepartmentStep, ToolCreateDept, ToolDeleteDept, ToolSetManager, RestCreateDept,
         RestUpdateDept, RestDeleteDept, RestSetManager, ToolUpdateDept
<1> QED
  BY <1>1, <1>2, <1>3, <1>4, <1>5, <1>6, <1>7, Zenon

LEMMA MembersAside ==
    ASSUME RowsOK, TasksOK, NEW p \in Procs, MemberStep(p)
    PROVE  Elsewhere /\ bonds' \in Seq(BondRow) /\ UNCHANGED <<users, account, depts>>
<1>1. ASSUME NEW o \in Orgs, NEW u \in DOMAIN users, NEW c, Remove(p, o, u, c)
      PROVE  Elsewhere /\ UNCHANGED <<users, bonds, account>>
  <2>1. PICK w : w = Work("count", o, u, Nobody, Nobody)
    OBVIOUS
  <2>2. u \in Nat
    BY SeqFacts DEF RowsOK
  <2>3. w \in Task /\ w.pc = "count"
    BY <2>1, <2>2 DEF Work, Task, TaskLabels
  <2>4. Fits(w)
    BY <2>3 DEF Fits, SyncLabels
  <2>5. At(p, "idle") /\ Starts(p, w) /\ UNCHANGED <<users, bonds, account>>
    BY <1>1, <2>1 DEF Remove
  <2> QED
    BY <2>3, <2>4, <2>5, StartsTask DEF Elsewhere, Aside
<1>2. ASSUME RemoveCount(p)
      PROVE  Elsewhere /\ UNCHANGED <<users, bonds, account>>
  <2>1. At(p, "count") /\ ~At(p, "idle")
    BY <1>2 DEF RemoveCount, At
  <2>2. CASE Ends(p)
    BY <1>2, <2>1, <2>2, EndsAside DEF RemoveCount
  <2>3. CASE Goes(p, "delete")
    <3>1. PICK x : x = proc[p]
      OBVIOUS
    <3>2. x \in Task
      BY <2>1, <3>1, TaskOf
    <3>3. PICK w : w = [x EXCEPT !.pc = "delete"]
      OBVIOUS
    <3>4. w \in Task /\ w.pc = "delete" /\ w.alone = x.alone
      BY <3>2, <3>3 DEF Task, TaskLabels
    <3>5. Fits(w)
      BY <3>4 DEF Fits, SyncLabels
    <3>6. Takes(p, w)
      BY <2>3, <3>1, <3>3, Zenon DEF Goes, Takes
    <3>7. Turn(p) /\ proc'[p] = w /\ TasksOK'
      BY <2>1, <3>1, <3>4, <3>5, <3>6, TakesIs
    <3> QED
      BY <1>2, <3>4, <3>7 DEF Elsewhere, Aside, RemoveCount
  <2> QED
    BY <1>2, <2>2, <2>3 DEF RemoveCount
<1>3. ASSUME RemoveDelete(p)
      PROVE  Elsewhere /\ bonds' \in Seq(BondRow) /\ UNCHANGED <<users, account>>
  <2>1. At(p, "delete") /\ ~At(p, "idle")
    BY <1>3 DEF RemoveDelete, At
  <2> QED
    BY <1>3, <2>1, EndsAside, BondsDeleted DEF RemoveDelete, RowsOK
<1>4. ASSUME Fail(p)
      PROVE  Elsewhere /\ UNCHANGED <<users, bonds, account>>
  BY <1>4, EndsAside DEF Fail
<1>5. UNCHANGED depts
  BY DEF MemberStep
<1>6. UNCHANGED bonds => bonds' \in Seq(BondRow)
  BY DEF RowsOK
<1>7. \/ \E o \in Orgs, u \in DOMAIN users, c \in DOMAIN users : Remove(p, o, u, c)
      \/ RemoveCount(p) \/ RemoveDelete(p) \/ Fail(p)
  BY Zenon DEF MemberStep, RemoveMember
<1> QED
  BY <1>1, <1>2, <1>3, <1>4, <1>5, <1>6, <1>7

LEMMA AsideTypes ==
    ASSUME TasksOK, Elsewhere
    PROVE  TasksOK'
BY DisturbsIs DEF Elsewhere, Aside

\* A synchronization's turn, and what it holds then.
Onward(p) == ~At(p, "idle") /\ \E w : Went(p, w)

LEMMA OnwardTypes ==
    ASSUME TasksOK, NEW p \in Procs, Onward(p)
    PROVE  Turn(p) /\ TasksOK'
BY WentIs DEF Onward

LEMMA SyncTurns ==
    ASSUME RowsOK, TasksOK, NEW p \in Procs, SyncStep(p)
    PROVE  SyncStart(p) \/ Onward(p)
<1>1. CASE SyncStart(p)
  BY <1>1
<1>2. CASE SyncList(p)
  BY <1>2, ListGoes DEF Onward, SyncList, At
<1>3. CASE SyncDept(p)
  <2>1. PICK d : d = GetByDingTalkDeptID(SyncOrg, Current(p).id)
    OBVIOUS
  <2>2. At(p, "depts") /\ More(p)
    BY <1>3, Zenon DEF SyncDept
  <2>3. ~At(p, "idle") /\ proc[p].pc \in {"depts", "saveDept"}
    BY <2>2 DEF At
  <2>4. CASE d # 0 /\ DeptDone(p, d)
    <3>1. d \in Nat \ {0}
      BY <2>1, <2>4, DeptFound DEF RowsOK
    <3> QED
      BY <2>2, <2>3, <2>4, <3>1, DeptDoneGoes DEF Onward
  <2>5. CASE \E w : Went(p, w)
    BY <2>3, <2>5 DEF Onward
  <2> QED
    BY <1>3, <2>1, <2>4, <2>5, DeptGoes
<1>4. CASE SyncSaveDept(p)
  <2>1. At(p, "saveDept")
    BY <1>4 DEF SyncSaveDept
  <2>2. ~At(p, "idle") /\ proc[p].pc \in {"depts", "saveDept"}
    BY <2>1 DEF At
  <2>3. More(p) /\ \E d \in Nat \ {0} : DeptDone(p, d)
    <3>1. Len(depts) + 1 \in Nat \ {0}
      BY SeqFacts DEF RowsOK
    <3> QED
      BY <1>4, <3>1, SaveDeptGoes
  <2> QED
    BY <2>2, <2>3, DeptDoneGoes DEF Onward
<1>5. CASE SyncDeptsDone(p)
  BY <1>5, DeptsDoneGoes DEF Onward, SyncDeptsDone, At
<1>6. CASE SyncListStaff(p)
  BY <1>6, ListStaffGoes DEF Onward, SyncListStaff, At
<1>7. CASE NextDept(p)
  BY <1>7, NextDeptGoes DEF Onward, NextDept, At
<1>8. CASE SyncPerson(p)
  <2>1. At(p, "people")
    BY <1>8, Zenon DEF SyncPerson
  <2>2. \E w : Went(p, w)
    BY <1>8, PersonGoes
  <2> QED
    BY <2>1, <2>2 DEF Onward, At
<1>9. CASE SyncSavePerson(p)
  BY <1>9, SavePersonGoes DEF Onward, SyncSavePerson, At
<1>10. CASE SyncBond(p)
  <2>1. At(p, "person")
    BY <1>10, Zenon DEF SyncBond
  <2>2. \E w : Went(p, w)
    BY <1>10, BondGoes
  <2> QED
    BY <2>1, <2>2 DEF Onward, At
<1>11. CASE SyncSaveBond(p)
  <2>1. At(p, "saveMember")
    BY <1>11, Zenon DEF SyncSaveBond
  <2>2. \E w : Went(p, w)
    BY <1>11, SaveBondGoes
  <2> QED
    BY <2>1, <2>2 DEF Onward, At
<1> QED
  BY <1>1, <1>2, <1>3, <1>4, <1>5, <1>6, <1>7, <1>8, <1>9, <1>10, <1>11, Zenon DEF SyncStep

LEMMA SyncRows ==
    ASSUME RowsOK, TasksOK, NEW p \in Procs, SyncStep(p), UNCHANGED directory
    PROVE  RowsOK'
<1>1. CASE SyncSaveDept(p)
  <2>1. UNCHANGED unmoved
    BY <1>1 DEF SyncSaveDept
  <2>2. depts' \in Seq(DeptRow)
    <3>1. PICK row, d : row = Sync(p).copy /\ d = proc[p].user
      OBVIOUS
    <3>2. row \in DeptRow /\ (StoreDept(row) \/ UpdateDept(d, row))
      BY <1>1, <3>1, SaveDeptGoes
    <3> QED
      BY <3>2, DeptAppended, DeptReplaced DEF RowsOK
  <2> QED
    BY <2>1, <2>2 DEF RowsOK, unmoved
<1>2. CASE SyncSavePerson(p)
  <2>1. UNCHANGED <<bonds, account, depts>>
    BY <1>2 DEF SyncSavePerson
  <2>2. PICK row, v : row = Sync(p).copy /\ v = proc[p].user
    OBVIOUS
  <2>3. row \in UserRow /\ OneUserid(row) /\ (CreateUser(row) \/ UpdateUser(v, row))
    BY <1>2, <2>2, SavePersonGoes
  <2>4. users' \in Seq(UserRow) /\ \A u \in DOMAIN users' : OneUserid(users'[u])
    <3>1. CASE CreateUser(row)
      BY <2>3, <3>1, UserAppended DEF RowsOK
    <3>2. CASE UpdateUser(v, row)
      BY <2>3, <3>2, UserReplaced DEF RowsOK
    <3> QED
      BY <2>3, <3>1, <3>2
  <2> QED
    BY <2>1, <2>4 DEF RowsOK
<1>3. CASE SyncSaveBond(p)
  <2>1. UNCHANGED <<users, account, depts>>
    BY <1>3 DEF SyncSaveBond
  <2>2. PICK row, c : row = proc[p].member /\ c = proc[p].bond
    OBVIOUS
  <2>3. row \in BondRow /\ (CreateBond(row) \/ UpdateBond(c, row))
    BY <1>3, <2>2, SaveBondGoes
  <2>4. bonds' \in Seq(BondRow)
    BY <2>3, BondAppended, BondReplaced DEF RowsOK
  <2> QED
    BY <2>1, <2>4 DEF RowsOK
<1>4. CASE ~SyncSaveDept(p) /\ ~SyncSavePerson(p) /\ ~SyncSaveBond(p)
  <2>1. UNCHANGED <<unmoved, depts>>
    BY <1>4, Zenon DEF SyncStep, SyncStart, SyncList, SyncDept, SyncDeptsDone, SyncListStaff,
           NextDept, SyncPerson, SyncBond
  <2> QED
    BY <2>1, RowsStay DEF unmoved
<1> QED
  BY <1>1, <1>2, <1>3, <1>4

LEMMA SyncTypes ==
    ASSUME RowsOK, TasksOK, NEW p \in Procs, SyncStep(p)
    PROVE  Turn(p) /\ TasksOK'
BY SyncTurns, StartsSync, OnwardTypes

LEMMA TypesStay ==
    ASSUME DirectoryTypes, [DirectoryNext]_dirVars
    PROVE  DirectoryTypes'
<1>0. RowsOK /\ TasksOK
  BY DEF DirectoryTypes
<1>1. ASSUME DepartmentStep, UNCHANGED directory PROVE DirectoryTypes'
  <2>1. Elsewhere /\ depts' \in Seq(DeptRow) /\ UNCHANGED unmoved
    BY <1>0, <1>1, DepartmentsAside
  <2> QED
    BY <1>0, <1>1, <2>1, AsideTypes DEF DirectoryTypes, RowsOK, unmoved
<1>2. ASSUME NEW p \in Procs, MemberStep(p), UNCHANGED directory PROVE DirectoryTypes'
  <2>1. Elsewhere /\ bonds' \in Seq(BondRow) /\ UNCHANGED <<users, account, depts>>
    BY <1>0, <1>2, MembersAside
  <2> QED
    BY <1>0, <1>2, <2>1, AsideTypes DEF DirectoryTypes, RowsOK
<1>3. ASSUME NEW p \in Procs, SyncStep(p), UNCHANGED directory PROVE DirectoryTypes'
  BY <1>0, <1>3, SyncTypes, SyncRows DEF DirectoryTypes
<1>4. ASSUME NEW p \in Procs, SyncEnd(p) PROVE DirectoryTypes'
  <2>1. ~At(p, "idle") /\ Ends(p) /\ UNCHANGED <<unmoved, depts, directory>>
    BY <1>4 DEF SyncEnd, At
  <2> QED
    BY <1>0, <2>1, EndsTask, RowsStay DEF DirectoryTypes, unmoved
<1>5. ASSUME DirectoryChanges PROVE DirectoryTypes'
  <2>1. directory' \in Directories /\ Disturbs /\ UNCHANGED <<unmoved, depts>>
    BY <1>5 DEF DirectoryChanges
  <2>2. TasksOK'
    BY <1>0, <2>1, DisturbsIs
  <2> QED
    BY <1>0, <2>1, <2>2 DEF DirectoryTypes, RowsOK, unmoved
<1>6. ASSUME UNCHANGED dirVars PROVE DirectoryTypes'
  BY <1>0, <1>6, RowsStay DEF DirectoryTypes, TasksOK, Carries, dirVars, vars
<1> QED
  BY <1>1, <1>2, <1>3, <1>4, <1>5, <1>6, Zenon DEF DirectoryNext

LEMMA TypesInit == DirectoryInit => DirectoryTypes
<1> SUFFICES ASSUME DirectoryInit PROVE DirectoryTypes
  OBVIOUS
<1>1. Init /\ depts = <<>> /\ directory \in Directories
  BY DEF DirectoryInit
<1>2. users \in Seq(UserRow) /\ bonds \in Seq(BondRow)
  BY <1>1, InitHolds DEF IInv, TablesOK
<1>3. \A u \in DOMAIN users : OneUserid(users[u])
  <2>1. PICK n \in Names, pw \in Passwords :
           \/ users = <<Founder(n, pw)>>
           \/ \E d \in People : users = <<Founder(n, pw), Synced(d)>>
    BY <1>1, Zenon DEF Init
  <2>2. OneUserid(Founder(n, pw))
    BY DEF OneUserid, Founder, User
  <2>3. ASSUME NEW d \in People PROVE OneUserid(Synced(d))
    BY DEF OneUserid, Synced, User
  <2>4. PICK r : r = Founder(n, pw)
    OBVIOUS
  <2>5. CASE users = <<r>>
    BY <2>2, <2>4, <2>5
  <2>6. ASSUME NEW d \in People, users = <<r, Synced(d)>>
        PROVE  \A u \in DOMAIN users : OneUserid(users[u])
    <3>1. PICK s : s = Synced(d)
      OBVIOUS
    <3>2. OneUserid(r) /\ OneUserid(s)
      BY <2>2, <2>3, <2>4, <3>1
    <3>3. users = <<r, s>>
      BY <2>6, <3>1
    <3>4. \A u \in DOMAIN users : users[u] = r \/ users[u] = s
      BY <3>3
    <3> QED
      BY <3>2, <3>4
  <2> QED
    BY <2>1, <2>4, <2>5, <2>6
<1>4. depts \in Seq(DeptRow)
  BY <1>1
<1>5. TasksOK
  BY <1>1 DEF Init, TasksOK, Carries
<1> QED
  BY <1>1, <1>2, <1>3, <1>4, <1>5 DEF DirectoryTypes, RowsOK

LEMMA TypesAlways == DirectorySpec => []DirectoryTypes
BY TypesInit, TypesStay, PTL DEF DirectorySpec

\* For any tables, requests and interleaving: BuildTree shows every department
\* but those that are above themselves, or below such a one.
THEOREM TreeAlwaysShowsAll == DirectorySpec => []TreeShowsAll
<1>1. DirectoryTypes => TreeShowsAll
  BY TreeShows DEF DirectoryTypes, RowsOK
<1> QED
  BY <1>1, TypesAlways, PTL

-----------------------------------------------------------------------------
(***************************************************************************)
(* What a synchronization has done stays done, if nothing disturbs it.     *)
(***************************************************************************)
LEMMA ListedSame ==
    ASSUME UNCHANGED <<depts, directory>>, NEW i
    PROVE  /\ Listed(i)' = Listed(i)
           /\ DepartmentMirrored(i)' <=> DepartmentMirrored(i)
<1>1. \A j : Listed(j)' = Listed(j)
  BY DEF Listed, DeptsOf, Live
<1>2. DepartmentMirrored(i)' <=> DepartmentMirrored(i)
  BY <1>1 DEF DepartmentMirrored
<1> QED
  BY <1>1, <1>2

LEMMA MappedSame ==
    ASSUME UNCHANGED <<depts, directory>>, NEW s, NEW n
    PROVE  Mapped(s, n)' <=> Mapped(s, n)
<1>1. \A j : Listed(j)' = Listed(j) /\ (DepartmentMirrored(j)' <=> DepartmentMirrored(j))
  BY ListedSame
<1> QED
  BY <1>1 DEF Mapped

LEMMA FoundSame ==
    ASSUME UNCHANGED <<users, bonds>>, NEW d, NEW o, NEW u
    PROVE  /\ GetByDingTalkUserID(d)' = GetByDingTalkUserID(d)
           /\ GetByOrgAndUser(o, u)' = GetByOrgAndUser(o, u)
BY DEF GetByDingTalkUserID, GetByOrgAndUser, BondsOf

LEMMA DoneSame ==
    ASSUME UNCHANGED <<users, bonds>>, NEW e
    PROVE  /\ Brought(e)' <=> Brought(e)
           /\ PersonMirrored(e.who)' <=> PersonMirrored(e.who)
           /\ Done(e)' <=> Done(e)
<1>1. \A d : GetByDingTalkUserID(d)' = GetByDingTalkUserID(d)
  BY FoundSame
<1>2. \A o, u : GetByOrgAndUser(o, u)' = GetByOrgAndUser(o, u)
  BY FoundSame
<1>3. Brought(e)' <=> Brought(e)
  BY <1>1 DEF Brought
<1>4. PersonMirrored(e.who)' <=> PersonMirrored(e.who)
  BY <1>1, <1>2 DEF PersonMirrored
<1> QED
  BY <1>3, <1>4 DEF Done

LEMMA EveryoneSame ==
    ASSUME UNCHANGED directory
    PROVE  Everyone' = Everyone
BY DEF Everyone

LEMMA KeptTask ==
    ASSUME TasksOK, NEW q \in Procs, Kept(q)
    PROVE  /\ proc'[q].pc = proc[q].pc
           /\ ~At(q, "idle") => proc'[q].row = proc[q].row /\ proc'[q].user = proc[q].user
           /\ Alone(q)' => Alone(q)
<1>1. CASE proc'[q] = proc[q]
  BY <1>1 DEF Alone, At
<1>2. CASE proc'[q] = Disturbed(q)
  BY <1>2, DisturbedTask
<1> QED
  BY <1>1, <1>2 DEF Kept

LEMMA UndoneTurn ==
    ASSUME TasksOK, Undone, NEW p \in Procs, Turn(p), Alone(p)' => Tracks(proc[p])'
    PROVE  Undone'
<1> SUFFICES ASSUME NEW q \in Procs, Alone(q)'
             PROVE  Tracks(proc[q])' /\ \A r \in Procs \ {q} : At(r, "idle")'
  BY DEF Undone
<1>1. CASE q = p
  <2>1. \A r \in Procs \ {p} : At(r, "idle")
    <3>1. CASE At(p, "idle")
      BY <1>1, <3>1 DEF Turn, Busy
    <3>2. CASE ~At(p, "idle")
      BY <1>1, <3>2 DEF Turn, Undone
    <3> QED
      BY <3>1, <3>2
  <2>2. \A r \in Procs \ {p} : At(r, "idle")'
    BY <2>1, KeptTask DEF Turn, At
  <2> QED
    BY <1>1, <2>2
<1>2. CASE q # p
  <2>1. ~At(p, "idle")
    BY <1>2 DEF Turn
  <2>2. Alone(q)
    BY <1>2, KeptTask DEF Turn
  <2> QED
    BY <1>2, <2>1, <2>2 DEF Undone
<1> QED
  BY <1>1, <1>2

LEMMA UndoneElsewhere ==
    ASSUME TasksOK, Undone, Elsewhere
    PROVE  Undone'
<1>1. CASE Disturbs
  BY <1>1, DisturbsIs, DisturbedTask DEF Undone
<1>2. ASSUME NEW p \in Procs, Aside(p) PROVE Undone'
  <2>1. Alone(p)' => Tracks(proc[p])'
    <3> SUFFICES ASSUME Alone(p)' PROVE Tracks(proc[p])'
      OBVIOUS
    <3>1. proc'[p].pc \in {"saveMoved", "count", "delete"}
      BY <1>2, IdleIsNoTask DEF Aside, Alone, At
    <3>2. proc'[p].pc \notin SyncLabels
      BY <3>1 DEF SyncLabels
    <3>3. proc'[p].pc \notin {"depts", "saveDept"} /\ proc'[p].pc # "saveDept"
      BY <3>1
    <3> QED
      BY <3>2, <3>3 DEF Tracks
  <2> QED
    BY <1>2, <2>1, UndoneTurn DEF Aside
<1> QED
  BY <1>1, <1>2 DEF Elsewhere

-----------------------------------------------------------------------------
(***************************************************************************)
(* syncDepartments, undisturbed.                                           *)
(***************************************************************************)
LEMMA DirectoryIs ==
    ASSUME RowsOK
    PROVE  /\ directory \in Lists /\ Len(directory) \in Nat
           /\ DOMAIN directory = 1 .. Len(directory)
           /\ \A i \in DOMAIN directory :
                 directory[i].id \in Nat \ {0} /\ directory[i].staff \in SUBSET Staff
           /\ \A i, j \in DOMAIN directory : directory[i].id = directory[j].id => i = j
<1>1. directory \in Lists
  BY DEF RowsOK, Lists
<1> QED
  BY <1>1, ListIs

LEMMA ParentRight ==
    ASSUME RowsOK, NEW m \in Maps, NEW n \in Nat, NEW up, NEW row, NEW v, n < Len(directory),
           DOMAIN m = IdsTo(directory, n), v = ParentIn(m, up, row),
           \A j \in 1 .. n : m[directory[j].id] = Listed(j)
    PROVE  /\ up = 0 => v = 0
           /\ \A j \in 1 .. n : directory[j].id = up => v = Listed(j)
<1>1. up = 0 => v = 0
  BY DEF ParentIn
<1>2. ASSUME NEW j \in 1 .. n, directory[j].id = up PROVE v = Listed(j)
  <2>1. up # 0
    BY <1>2, DirectoryIs
  <2>2. up \in DOMAIN m
    BY <1>2 DEF IdsTo
  <2>3. v = m[up]
    BY <2>1, <2>2 DEF ParentIn
  <2> QED
    BY <1>2, <2>3
<1> QED
  BY <1>1, <1>2

\* One department more, whether it had to be stored or not.
LEMMA MappedNext ==
    ASSUME RowsOK, UNCHANGED directory, NEW s, NEW t, NEW n \in Nat, NEW d \in Nat \ {0},
           n < Len(directory),
           s.map \in Maps, DOMAIN s.map = IdsTo(directory, n),
           t.map = With(s.map, directory[n + 1].id, d),
           Mapped(s, n)', d = Listed(n + 1)', DepartmentMirrored(n + 1)'
    PROVE  Mapped(t, n + 1)'
<1>1. PICK m, i : m = s.map /\ i = directory[n + 1].id
  OBVIOUS
<1>2. n + 1 \in DOMAIN directory /\ i \in Nat /\ m \in Maps
  BY <1>1, DirectoryIs
<1>3. PICK f : f = With(m, i, d)
  OBVIOUS
<1>4. f[i] = d /\ \A k \in DOMAIN m \ {i} : f[k] = m[k]
  BY <1>3 DEF With
<1> SUFFICES ASSUME NEW j \in 1 .. (n + 1)
             PROVE  t.map[directory[j].id] = Listed(j)' /\ DepartmentMirrored(j)'
  BY DEF Mapped
<1>5. t.map = f
  BY <1>1, <1>3
<1>6. CASE j = n + 1
  BY <1>1, <1>4, <1>5, <1>6
<1>7. CASE j \in 1 .. n
  <2>1. j \in DOMAIN directory /\ j # n + 1
    BY <1>2, <1>7, DirectoryIs
  <2>2. directory[j].id # i
    BY <1>1, <1>2, <2>1, DirectoryIs
  <2>3. directory[j].id \in DOMAIN m
    BY <1>1, <1>7 DEF IdsTo
  <2>4. s.map[directory[j].id] = Listed(j)' /\ DepartmentMirrored(j)'
    BY <1>7 DEF Mapped
  <2> QED
    BY <1>1, <1>4, <1>5, <2>2, <2>3, <2>4
<1> QED
  BY <1>6, <1>7

LEMMA TracksIs ==
    ASSUME RowsOK, TasksOK, NEW p \in Procs, Tracks(proc[p]), proc[p].pc \in SyncLabels \ {"list"}
    PROVE  /\ Sync(p).listed = directory
           /\ proc[p].pc \in {"depts", "saveDept"} =>
                 /\ Mapped(Sync(p), Sync(p).done)
                 /\ DOMAIN Sync(p).map = IdsTo(directory, Sync(p).done)
           /\ proc[p].pc \notin {"depts", "saveDept"} =>
                 /\ Mapped(Sync(p), Len(directory))
                 /\ Sync(p).staff \subseteq Everyone
                 /\ AllSeen(Sync(p), proc[p].pc) /\ SeenDone(proc[p])
           /\ Sync(p).done <= Len(directory)
<1>1. Sync(p).listed = directory
  BY DEF Tracks, Sync
<1>2. FarAs(Sync(p), proc[p].pc)
  BY SyncIs
<1>3. proc[p].pc \notin {"depts", "saveDept"} =>
         proc[p].pc \in SyncLabels \ {"list", "depts", "saveDept"}
  OBVIOUS
<1> QED
  BY <1>1, <1>2, <1>3 DEF Tracks, Sync, FarAs

\* What a synchronization must hold to track.
LEMMA TracksDepts ==
    ASSUME NEW w, w.pc = "depts", w.row.listed = directory', Mapped(w.row, w.row.done)'
    PROVE  Tracks(w)'
BY DEF Tracks, SyncLabels

LEMMA TracksPeople ==
    ASSUME NEW w, w.pc \in {"staff", "people", "savePerson", "person", "saveMember"},
           w.row.listed = directory', Mapped(w.row, Len(directory))',
           w.row.staff \subseteq Everyone', AllSeen(w.row, w.pc)', SeenDone(w)'
    PROVE  Tracks(w)'
BY DEF Tracks, SyncLabels

LEMMA ListTracks ==
    ASSUME RowsOK, TasksOK, NEW p \in Procs, SyncList(p), Alone(p)', UNCHANGED directory
    PROVE  Tracks(proc[p])'
<1>1. PICK w : \E l \in {directory, <<>>} :
              /\ Went(p, w) /\ w.pc = "depts"
              /\ w.row.listed = l /\ w.row.done = 0
              /\ w.alone => proc[p].alone /\ l = directory
  BY ListGoes
<1>2. ~At(p, "idle")
  BY DEF SyncList, At
<1>3. proc'[p] = w
  BY <1>1, <1>2, WentIs
<1>4. w.alone
  BY <1>3 DEF Alone
<1>5. w.pc = "depts" /\ w.row.listed = directory' /\ Mapped(w.row, w.row.done)'
  BY <1>1, <1>4 DEF Mapped
<1>6. Tracks(w)'
  BY <1>5, TracksDepts
<1> QED
  BY <1>3, <1>6

LEMMA WantedParent ==
    ASSUME RowsOK, TasksOK, NEW p \in Procs, proc[p].pc \in SyncLabels \ {"list"}, More(p),
           NEW d, d = GetByDingTalkDeptID(SyncOrg, Current(p).id)
    PROVE  \E row : Wanted(p, d).parent = ParentIn(Sync(p).map, Current(p).parent, row)
<1>1. PICK m, up, i : m = Sync(p).map /\ up = Current(p).parent /\ i = Current(p).id
  OBVIOUS
<1>2. PICK row : row = IF d = 0 THEN Dept(SyncOrg, 0, i, TRUE) ELSE depts[d]
  OBVIOUS
<1>3. row \in DeptRow
  <2>1. CASE d = 0
    BY <1>1, <1>2, <2>1, CurrentIs, SyncOrgKnown DEF Dept, DeptRow
  <2>2. CASE d # 0
    BY <1>1, <1>2, <2>2, DeptFound DEF RowsOK
  <2> QED
    BY <2>1, <2>2
<1>4. PICK v : v = ParentIn(m, up, row)
  OBVIOUS
<1>5. PICK new : new = [row EXCEPT !.parent = v]
  OBVIOUS
<1>6. new.parent = v
  BY <1>3, <1>5 DEF DeptRow
<1>7. Wanted(p, d) = new
  BY <1>1, <1>2, <1>4, <1>5 DEF Wanted
<1> QED
  BY <1>1, <1>4, <1>6, <1>7

\* The row that is wanted for the next department has the parent it should.
LEMMA WantedRight ==
    ASSUME RowsOK, TasksOK, NEW p \in Procs, proc[p].pc \in {"depts", "saveDept"}, More(p),
           Tracks(proc[p]), NEW d, d = GetByDingTalkDeptID(SyncOrg, Current(p).id)
    PROVE  /\ Sync(p).listed = directory /\ Sync(p).done \in Nat /\ Sync(p).done < Len(directory)
           /\ Current(p) = directory[Sync(p).done + 1]
           /\ d = Listed(Sync(p).done + 1)
           /\ directory[Sync(p).done + 1].parent = 0 => Wanted(p, d).parent = 0
           /\ \A j \in 1 .. Sync(p).done :
                 directory[j].id = directory[Sync(p).done + 1].parent =>
                    Wanted(p, d).parent = Listed(j)
<1>0. proc[p].pc \in SyncLabels \ {"list"}
  BY LabelsAre
<1>1. PICK s, n, m : s = Sync(p) /\ n = s.done /\ m = s.map
  OBVIOUS
<1>2. /\ s.listed = directory /\ Mapped(s, n) /\ DOMAIN s.map = IdsTo(directory, n)
  BY <1>0, <1>1, TracksIs
<1>3. n \in Nat /\ s.map \in Maps
  BY <1>0, <1>1, SyncIs
<1>4. n < Len(directory)
  BY <1>1, <1>2 DEF More
<1>5. Current(p) = directory[n + 1]
  BY <1>1, <1>2 DEF Current
<1>6. d = Listed(n + 1)
  BY <1>5 DEF Listed, GetByDingTalkDeptID
<1>7. PICK row : Wanted(p, d).parent = ParentIn(s.map, Current(p).parent, row)
  BY <1>0, <1>1, WantedParent
<1>8. PICK v, up : v = Wanted(p, d).parent /\ up = directory[n + 1].parent
  OBVIOUS
<1>9. m \in Maps /\ DOMAIN m = IdsTo(directory, n) /\ v = ParentIn(m, up, row)
  BY <1>1, <1>2, <1>3, <1>5, <1>7, <1>8
<1>11. \A j \in 1 .. n : m[directory[j].id] = Listed(j)
  BY <1>1, <1>2 DEF Mapped
<1>10. (up = 0 => v = 0) /\ \A j \in 1 .. n : directory[j].id = up => v = Listed(j)
  BY <1>3, <1>4, <1>9, <1>11, ParentRight
<1> QED
  BY <1>1, <1>2, <1>3, <1>4, <1>5, <1>6, <1>8, <1>10

LEMMA DeptTracks ==
    ASSUME RowsOK, TasksOK, NEW p \in Procs, Tracks(proc[p]), SyncDept(p), Alone(p)',
           UNCHANGED directory
    PROVE  Tracks(proc[p])'
<1>1. At(p, "depts") /\ More(p)
  BY Zenon DEF SyncDept
<1>2. UNCHANGED depts
  BY Zenon DEF SyncDept
<1>3. /\ proc[p].pc \in {"depts", "saveDept"} /\ proc[p].pc \in SyncLabels \ {"list"}
      /\ ~At(p, "idle")
  BY <1>1 DEF At, SyncLabels
<1>4. PICK d : d = GetByDingTalkDeptID(SyncOrg, Current(p).id)
  OBVIOUS
<1>5. PICK s, n : s = Sync(p) /\ n = s.done
  OBVIOUS
<1>6. /\ s.listed = directory /\ Mapped(s, n) /\ DOMAIN s.map = IdsTo(directory, n)
      /\ s.map \in Maps
  BY <1>3, <1>5, TracksIs, SyncIs
<1>7. /\ n \in Nat /\ n < Len(directory) /\ Current(p) = directory[n + 1] /\ d = Listed(n + 1)
      /\ directory[n + 1].parent = 0 => Wanted(p, d).parent = 0
      /\ \A j \in 1 .. n : directory[j].id = directory[n + 1].parent =>
                              Wanted(p, d).parent = Listed(j)
  BY <1>1, <1>3, <1>4, <1>5, WantedRight
<1>8. CASE d # 0 /\ Wanted(p, d) = depts[d] /\ DeptDone(p, d)
  <2>1. d \in Nat \ {0}
    BY <1>4, <1>8, DeptFound DEF RowsOK
  <2>2. PICK w :
           /\ Went(p, w) /\ w.pc = "depts"
           /\ w.row.listed = s.listed /\ w.row.done = n + 1
           /\ w.row.map = With(s.map, Current(p).id, d)
    BY <1>1, <1>3, <1>5, <1>8, <2>1, DeptDoneGoes
  <2>3. DepartmentMirrored(n + 1)
    BY <1>7, <1>8, <2>1 DEF DepartmentMirrored
  <2>4. PICK t : t = w.row
    OBVIOUS
  <2>5. t.map = With(s.map, directory[n + 1].id, d)
    BY <1>7, <2>2, <2>4
  <2>6. Mapped(s, n)' /\ d = Listed(n + 1)' /\ DepartmentMirrored(n + 1)'
    BY <1>2, <1>6, <1>7, <2>3, MappedSame, ListedSame
  <2>7. Mapped(w.row, w.row.done)'
    <3>1. Mapped(t, n + 1)'
      BY <1>6, <1>7, <2>1, <2>5, <2>6, MappedNext
    <3> QED
      BY <2>2, <2>4, <3>1
  <2>8. Tracks(w)'
    BY <1>6, <2>2, <2>7, TracksDepts
  <2>9. proc'[p] = w
    BY <1>3, <2>2, WentIs
  <2> QED
    BY <2>8, <2>9
<1>9. ASSUME NEW w, Went(p, w), w.pc = "saveDept", w.row.listed = Sync(p).listed,
             w.row.done = Sync(p).done, w.row.map = Sync(p).map, w.row.copy = Wanted(p, d),
             w.user = d
      PROVE  Tracks(proc[p])'
  <2>1. proc'[p] = w
    BY <1>3, <1>9, WentIs
  <2>2. PICK t : t = w.row
    OBVIOUS
  <2>3. t.map = s.map /\ t.done = n /\ t.listed = directory /\ t.copy = Wanted(p, d)
    BY <1>5, <1>6, <1>9, <2>2
  <2>4. Mapped(t, n)
    BY <1>6, <2>3 DEF Mapped
  <2>5. Mapped(t, n)'
    BY <1>2, <2>4, MappedSame
  <2>6. DeptInHand(w)
    <3>1. Wanted(p, d) =
             LET row == IF d = 0 THEN Dept(SyncOrg, 0, directory[n + 1].id, TRUE) ELSE depts[d]
             IN [row EXCEPT !.parent = ParentIn(s.map, directory[n + 1].parent, row)]
      BY <1>5, <1>7, Zenon DEF Wanted
    <3> QED
      BY <1>7, <1>9, <2>2, <2>3, <3>1, Zenon DEF DeptInHand
  <2>7. DeptInHand(w)'
    <3>1. \A i : Listed(i)' = Listed(i)
      BY <1>2, ListedSame
    <3> QED
      BY <1>2, <2>6, <3>1, Zenon DEF DeptInHand
  <2>8. Tracks(w)'
    BY <1>9, <2>2, <2>3, <2>5, <2>7 DEF Tracks, SyncLabels
  <2> QED
    BY <2>1, <2>8
<1> QED
  BY <1>4, <1>8, <1>9, DeptGoes

LEMMA ListedIs ==
    ASSUME RowsOK, NEW i, NEW d, d = Listed(i)
    PROVE  /\ d \in Nat
           /\ d # 0 => d \in DOMAIN depts /\ depts[d].dt = directory[i].id
<1>1. d = GetByDingTalkDeptID(SyncOrg, directory[i].id)
  BY DEF Listed, GetByDingTalkDeptID
<1> QED
  BY <1>1, DeptFound DEF RowsOK

LEMMA ListedStored ==
    ASSUME depts \in Seq(DeptRow), UNCHANGED directory, NEW row \in DeptRow, StoreDept(row),
           row.live, row.org = SyncOrg, NEW i
    PROVE  /\ directory[i].id # row.dt => Listed(i)' = Listed(i)
           /\ directory[i].id = row.dt /\ Listed(i) = 0 => Listed(i)' = Len(depts) + 1
<1>1. PICK D, k, new : D = {d \in DeptsOf(SyncOrg) : depts[d].dt = directory[i].id}
                       /\ k = directory[i].id /\ new = Len(depts) + 1
  OBVIOUS
<1>2. /\ DOMAIN depts' = DOMAIN depts \cup {new} /\ depts'[new] = row
      /\ \A d \in DOMAIN depts : depts'[d] = depts[d]
      /\ new \in Nat \ {0} /\ new \notin DOMAIN depts
  BY <1>1, DeptAppended
<1>3. PICK E : E = {d \in DeptsOf(SyncOrg)' : depts'[d].dt = k}
  OBVIOUS
<1>4. Listed(i) = First(D) /\ Listed(i)' = First(E)
  BY <1>1, <1>3 DEF Listed
<1>5. D = {d \in DOMAIN depts : depts[d].live /\ depts[d].org = SyncOrg /\ depts[d].dt = k}
  BY <1>1 DEF DeptsOf, Live
<1>6. E = {d \in DOMAIN depts' : depts'[d].live /\ depts'[d].org = SyncOrg /\ depts'[d].dt = k}
  BY <1>3 DEF DeptsOf, Live
<1>7. CASE k # row.dt
  <2>1. D = E
    BY <1>2, <1>5, <1>6, <1>7
  <2> QED
    BY <1>1, <1>4, <1>7, <2>1
<1>8. CASE k = row.dt
  <2>1. E = D \cup {new}
    BY <1>2, <1>5, <1>6, <1>8
  <2>2. First(D) = 0 => D = {}
    <3>1. D \in SUBSET DOMAIN depts
      BY <1>5
    <3> QED
      BY <3>1, RowFound
  <2>3. First({new}) = new
    <3>1. {new} \in SUBSET Nat /\ 0 \notin {new} /\ {new} # {}
      BY <1>2
    <3>2. First({new}) \in {new}
      BY <3>1, FirstIs
    <3> QED
      BY <3>2
  <2>4. D = {} => E = {new}
    BY <2>1
  <2> QED
    BY <1>1, <1>4, <1>8, <2>2, <2>3, <2>4
<1> QED
  BY <1>7, <1>8

LEMMA ListedUpdated ==
    ASSUME depts \in Seq(DeptRow), UNCHANGED directory, NEW d \in DOMAIN depts,
           NEW row \in DeptRow, UpdateDept(d, row),
           row.live = depts[d].live, row.org = depts[d].org, row.dt = depts[d].dt, NEW i
    PROVE  Listed(i)' = Listed(i)
<1>1. PICK k : k = directory[i].id
  OBVIOUS
<1>2. /\ DOMAIN depts' = DOMAIN depts
      /\ \A e \in DOMAIN depts : depts'[e] = IF e = d THEN row ELSE depts[e]
  BY DeptReplaced
<1>3. \A e \in DOMAIN depts : /\ depts'[e].live = depts[e].live /\ depts'[e].org = depts[e].org
                              /\ depts'[e].dt = depts[e].dt
  BY <1>2
<1>4. DeptsOf(SyncOrg)' = DeptsOf(SyncOrg)
  BY <1>2, <1>3 DEF DeptsOf, Live
<1>5. {e \in DeptsOf(SyncOrg)' : depts'[e].dt = k} = {e \in DeptsOf(SyncOrg) : depts[e].dt = k}
  BY <1>3, <1>4 DEF DeptsOf, Live
<1> QED
  BY <1>1, <1>5 DEF Listed

\* What is to be stored, and what is stored then.
LEMMA MappedStays ==
    ASSUME RowsOK, UNCHANGED directory, NEW s, NEW n \in Nat, n < Len(directory), Mapped(s, n),
           \A j \in 1 .. n :
              /\ Listed(j)' = Listed(j)
              /\ Listed(j) # 0 => depts'[Listed(j)].parent = depts[Listed(j)].parent
    PROVE  Mapped(s, n)'
<1> SUFFICES ASSUME NEW j \in 1 .. n
             PROVE  s.map[directory[j].id] = Listed(j)' /\ DepartmentMirrored(j)'
  BY DEF Mapped
<1>1. s.map[directory[j].id] = Listed(j) /\ DepartmentMirrored(j)
  BY DEF Mapped
<1>2. \A i \in 1 .. j - 1 : Listed(i)' = Listed(i)
  OBVIOUS
<1>3. PICK h : h = Listed(j)
  OBVIOUS
<1>4. /\ h # 0
      /\ directory[j].parent = 0 => depts[h].parent = 0
      /\ \A i \in 1 .. j - 1 : directory[i].id = directory[j].parent => depts[h].parent = Listed(i)
  BY <1>1, <1>3 DEF DepartmentMirrored
<1>5. h = Listed(j)' /\ depts'[h].parent = depts[h].parent
  BY <1>3, <1>4
<1>6. DepartmentMirrored(j)'
  BY <1>2, <1>4, <1>5 DEF DepartmentMirrored
<1> QED
  BY <1>1, <1>3, <1>5, <1>6

LEMMA StoredDept ==
    ASSUME RowsOK, UNCHANGED directory, NEW n \in Nat, n < Len(directory), NEW d, NEW e,
           NEW row \in DeptRow, row.live, row.org = SyncOrg, row.dt = directory[n + 1].id,
           d = Listed(n + 1),
           d # 0 => depts[d].live /\ depts[d].org = SyncOrg,
           \/ d = 0 /\ StoreDept(row) /\ e = Len(depts) + 1
           \/ d # 0 /\ UpdateDept(d, row) /\ e = d
    PROVE  /\ e \in Nat \ {0} /\ e = Listed(n + 1)' /\ depts'[e] = row
           /\ \A j \in 1 .. n :
                 /\ Listed(j)' = Listed(j)
                 /\ Listed(j) # 0 => depts'[Listed(j)].parent = depts[Listed(j)].parent
<1>0. depts \in Seq(DeptRow) /\ n + 1 \in DOMAIN directory
  BY DirectoryIs DEF RowsOK
<1>1. ASSUME NEW j \in 1 .. n PROVE j \in DOMAIN directory /\ directory[j].id # row.dt
  <2>1. j \in DOMAIN directory /\ j # n + 1
    BY DirectoryIs
  <2> QED
    BY <1>0, <2>1, DirectoryIs
<1>2. CASE d = 0 /\ StoreDept(row) /\ e = Len(depts) + 1
  <2>1. e = Listed(n + 1)' /\ \A j \in 1 .. n : Listed(j)' = Listed(j)
    BY <1>0, <1>1, <1>2, ListedStored
  <2>2. e \in Nat \ {0} /\ depts'[e] = row /\ \A c \in DOMAIN depts : depts'[c] = depts[c]
    BY <1>0, <1>2, DeptAppended
  <2>3. ASSUME NEW j \in 1 .. n, Listed(j) # 0
        PROVE  depts'[Listed(j)].parent = depts[Listed(j)].parent
    <3>1. PICK h : h = Listed(j)
      OBVIOUS
    <3> QED
      BY <2>2, <2>3, <3>1, ListedIs
  <2> QED
    BY <2>1, <2>2, <2>3
<1>3. CASE d # 0 /\ UpdateDept(d, row) /\ e = d
  <2>1. d \in DOMAIN depts /\ depts[d].dt = row.dt /\ d \in Nat
    BY <1>3, ListedIs
  <2>2. \A i : Listed(i)' = Listed(i)
    <3>1. depts[d] \in DeptRow
      BY <1>0, <2>1, SeqFacts
    <3>2. row.live = depts[d].live /\ row.org = depts[d].org
      BY <1>3, <3>1 DEF DeptRow
    <3> QED
      BY <1>0, <1>3, <2>1, <3>2, ListedUpdated
  <2>3. depts'[d] = row /\ \A c \in DOMAIN depts \ {d} : depts'[c] = depts[c]
    BY <1>0, <1>3, <2>1, DeptReplaced
  <2>4. ASSUME NEW j \in 1 .. n, Listed(j) # 0
        PROVE  depts'[Listed(j)].parent = depts[Listed(j)].parent
    <3>1. PICK h : h = Listed(j)
      OBVIOUS
    <3>2. h \in DOMAIN depts /\ depts[h].dt = directory[j].id
      BY <2>4, <3>1, ListedIs
    <3>3. h # d
      BY <1>1, <2>1, <3>2
    <3> QED
      BY <2>3, <3>1, <3>2, <3>3
  <2> QED
    BY <1>3, <2>1, <2>2, <2>3, <2>4
<1> QED
  BY <1>2, <1>3

LEMMA SaveDeptTracks ==
    ASSUME RowsOK, TasksOK, NEW p \in Procs, Tracks(proc[p]), SyncSaveDept(p), Alone(p)',
           UNCHANGED directory
    PROVE  Tracks(proc[p])'
<1>1. At(p, "saveDept") /\ More(p)
  BY SaveDeptGoes DEF SyncSaveDept
<1>2. /\ proc[p].pc \in {"depts", "saveDept"} /\ proc[p].pc \in SyncLabels \ {"list"}
      /\ ~At(p, "idle") /\ proc[p].pc = "saveDept"
  BY <1>1 DEF At, SyncLabels
<1>3. PICK d, s, n, c : /\ d = GetByDingTalkDeptID(SyncOrg, Current(p).id)
                        /\ s = Sync(p) /\ n = s.done /\ c = directory[n + 1]
  OBVIOUS
<1>4. /\ s.listed = directory /\ Mapped(s, n) /\ DOMAIN s.map = IdsTo(directory, n)
      /\ s.map \in Maps
  BY <1>2, <1>3, TracksIs, SyncIs
<1>5. /\ n \in Nat /\ n < Len(directory) /\ Current(p) = c /\ d = Listed(n + 1)
      /\ c.parent = 0 => Wanted(p, d).parent = 0
      /\ \A j \in 1 .. n : directory[j].id = c.parent => Wanted(p, d).parent = Listed(j)
  BY <1>1, <1>2, <1>3, WantedRight
<1>6. PICK row : row = s.copy
  OBVIOUS
<1>7. proc[p].user = d /\ row = Wanted(p, d)
  <2>1. DeptInHand(proc[p])
    BY <1>2 DEF Tracks
  <2>2. proc[p].row = s
    BY <1>2, <1>3, SyncIs
  <2>3. proc[p].user = d
    BY <1>3, <1>5, <2>1, <2>2 DEF DeptInHand
  <2>4. row = LET r == IF d = 0 THEN Dept(SyncOrg, 0, c.id, TRUE) ELSE depts[d]
              IN [r EXCEPT !.parent = ParentIn(s.map, c.parent, r)]
    BY <1>3, <1>6, <2>1, <2>2, <2>3, Zenon DEF DeptInHand
  <2>5. row = Wanted(p, d)
    BY <1>3, <1>5, <2>4, Zenon DEF Wanted
  <2> QED
    BY <2>3, <2>5
<1>8. row \in DeptRow /\ row.live /\ row.org = SyncOrg /\ row.dt = c.id
  BY <1>1, <1>2, <1>3, <1>5, <1>7, WantedIs
<1>9. PICK e : \/ d = 0 /\ StoreDept(row) /\ e = Len(depts) + 1 /\ DeptDone(p, e)
               \/ d # 0 /\ UpdateDept(d, row) /\ e = d /\ DeptDone(p, e)
  BY <1>3, <1>6, <1>7, SaveDeptGoes
<1>10. d # 0 => depts[d].live /\ depts[d].org = SyncOrg
  BY <1>3, DeptFound DEF RowsOK
<1>11. /\ e \in Nat \ {0} /\ e = Listed(n + 1)' /\ depts'[e] = row
       /\ \A j \in 1 .. n :
             /\ Listed(j)' = Listed(j)
             /\ Listed(j) # 0 => depts'[Listed(j)].parent = depts[Listed(j)].parent
  <2>1. row.dt = directory[n + 1].id
    BY <1>3, <1>8
  <2>2. \/ d = 0 /\ StoreDept(row) /\ e = Len(depts) + 1
        \/ d # 0 /\ UpdateDept(d, row) /\ e = d
    BY <1>9
  <2> QED
    BY <1>5, <1>8, <1>10, <2>1, <2>2, StoredDept
<1>12. Mapped(s, n)'
  BY <1>4, <1>5, <1>11, MappedStays
<1>13. DepartmentMirrored(n + 1)'
  <2>1. \A j \in 1 .. n : Listed(j)' = Listed(j)
    BY <1>11
  <2>2. \A j \in 1 .. (n + 1) - 1 : directory[j].id = c.parent => row.parent = Listed(j)'
    BY <1>5, <1>7, <2>1
  <2>3. /\ directory'[n + 1] = c /\ Listed(n + 1)' = e /\ e # 0 /\ depts'[e] = row
        /\ c.parent = 0 => row.parent = 0
    BY <1>3, <1>5, <1>7, <1>11
  <2> QED
    BY <2>2, <2>3 DEF DepartmentMirrored
<1>14. PICK w :
         /\ Went(p, w) /\ w.pc = "depts"
         /\ w.row.listed = s.listed /\ w.row.done = n + 1
         /\ w.row.map = With(s.map, Current(p).id, e)
  BY <1>1, <1>2, <1>3, <1>9, <1>11, DeptDoneGoes
<1>15. PICK t : t = w.row
  OBVIOUS
<1>16. t.map = With(s.map, directory[n + 1].id, e)
  BY <1>3, <1>5, <1>14, <1>15
<1>17. Mapped(t, n + 1)'
  BY <1>4, <1>5, <1>11, <1>12, <1>13, <1>16, MappedNext
<1>18. Mapped(w.row, w.row.done)'
  BY <1>14, <1>15, <1>17
<1>19. Tracks(w)'
  BY <1>4, <1>14, <1>18, TracksDepts
<1>20. proc'[p] = w
  BY <1>2, <1>14, WentIs
<1> QED
  BY <1>19, <1>20

-----------------------------------------------------------------------------
(***************************************************************************)
(* syncUsers, undisturbed.                                                 *)
(***************************************************************************)
LEMMA DeptsDoneTracks ==
    ASSUME RowsOK, TasksOK, NEW p \in Procs, Tracks(proc[p]), SyncDeptsDone(p), Alone(p)',
           UNCHANGED directory
    PROVE  Tracks(proc[p])'
<1>1. At(p, "depts") /\ UNCHANGED <<unmoved, depts>>
  BY DEF SyncDeptsDone
<1>2. proc[p].pc = "depts" /\ proc[p].pc \in SyncLabels \ {"list"} /\ ~At(p, "idle")
  BY <1>1 DEF At, SyncLabels
<1>3. PICK w :
         /\ Went(p, w) /\ w.pc = "staff"
         /\ w.row.listed = Sync(p).listed /\ w.row.done = 0
         /\ w.row.map = Sync(p).map /\ w.row.staff = {} /\ w.row.seen = {}
         /\ Sync(p).done = Len(Sync(p).listed)
  BY DeptsDoneGoes
<1>4. proc'[p] = w
  BY <1>2, <1>3, WentIs
<1>5. Sync(p).listed = directory /\ Mapped(Sync(p), Len(directory))
  BY <1>2, <1>3, TracksIs
<1>6. Mapped(w.row, Len(directory))
  BY <1>3, <1>5 DEF Mapped
<1>7. Mapped(w.row, Len(directory))'
  BY <1>1, <1>6, MappedSame
<1>8. AllSeen(w.row, w.pc)'
  BY <1>3 DEF AllSeen
<1>9. SeenDone(w)'
  BY <1>3 DEF SeenDone
<1> QED
  BY <1>3, <1>4, <1>5, <1>7, <1>8, <1>9, TracksPeople

\* Nothing has changed but what the synchronization holds.
LEMMA PeopleSame ==
    ASSUME UNCHANGED <<users, bonds, depts, directory>>, NEW w, NEW v,
           v.row.listed = w.row.listed, v.row.map = w.row.map, w.row.listed = directory,
           Mapped(w.row, Len(directory))
    PROVE  /\ v.row.listed = directory' /\ Mapped(v.row, Len(directory))'
           /\ Everyone' = Everyone /\ \A e : Done(e)' <=> Done(e)
<1>1. Mapped(v.row, Len(directory))
  BY DEF Mapped
<1>2. Mapped(v.row, Len(directory))'
  BY <1>1, MappedSame
<1> QED
  BY <1>2, EveryoneSame, DoneSame

LEMMA ListStaffTracks ==
    ASSUME RowsOK, TasksOK, NEW p \in Procs, Tracks(proc[p]), SyncListStaff(p), Alone(p)',
           UNCHANGED directory
    PROVE  Tracks(proc[p])'
<1>1. At(p, "staff") /\ UNCHANGED <<unmoved, depts>>
  BY Zenon DEF SyncListStaff
<1>2. proc[p].pc = "staff" /\ proc[p].pc \in SyncLabels \ {"list"} /\ ~At(p, "idle")
  BY <1>1 DEF At, SyncLabels
<1>3. PICK w : \E st \in {StaffNow(Current(p).id), {}} :
         /\ Went(p, w) /\ w.pc = "people"
         /\ w.row.listed = Sync(p).listed /\ w.row.done = Sync(p).done
         /\ w.row.map = Sync(p).map /\ w.row.staff = Unseen(st, Sync(p).seen)
         /\ w.row.seen = Sync(p).seen
         /\ w.alone => proc[p].alone /\ st = StaffNow(Current(p).id)
         /\ More(p)
  BY ListStaffGoes
<1>4. proc'[p] = w
  BY <1>2, <1>3, WentIs
<1>5. PICK st : st = StaffNow(Current(p).id)
  OBVIOUS
<1>6. w.row.staff = Unseen(st, Sync(p).seen) /\ More(p)
  BY <1>3, <1>4, <1>5 DEF Alone
<1>7. PICK x, s, n : x = proc[p] /\ s = Sync(p) /\ n = s.done
  OBVIOUS
<1>8. /\ x.row = s /\ s.listed = directory /\ Mapped(s, Len(directory)) /\ n \in Nat
      /\ AllSeen(s, "staff") /\ SeenDone(x)
  BY <1>2, <1>7, TracksIs, SyncIs
<1>9. n + 1 \in DOMAIN directory /\ st = directory[n + 1].staff
  <2>1. n + 1 \in DOMAIN directory /\ Current(p) = directory[n + 1]
    BY <1>2, <1>6, <1>7, <1>8, CurrentIs
  <2> QED
    BY <1>5, <2>1, StaffNowIs
<1>10. st \subseteq Everyone
  BY <1>5, StaffNowIs
<1>11. /\ w.row.listed = directory' /\ Mapped(w.row, Len(directory))'
       /\ Everyone' = Everyone /\ \A e : Done(e)' <=> Done(e)
  <2>1. UNCHANGED <<users, bonds, depts, directory>>
    BY <1>1 DEF unmoved
  <2>2. w.row.listed = x.row.listed /\ w.row.map = x.row.map
    BY <1>3, <1>7, <1>8
  <2> QED
    BY <1>8, <2>1, <2>2, PeopleSame
<1>12. w.row.staff \subseteq Everyone'
  BY <1>6, <1>10, <1>11 DEF Unseen
<1>13. AllSeen(w.row, w.pc)'
  <2>1. w.row.seen = s.seen /\ w.row.done = n /\ w.row.staff = Unseen(st, s.seen)
    BY <1>3, <1>6, <1>7
  <2>2. \A j \in 1 .. n : \A e \in directory[j].staff : e.who \in s.seen
    BY <1>7, <1>8 DEF AllSeen
  <2>3. \A e \in directory[n + 1].staff : e.who \in s.seen \/ e \in Unseen(st, s.seen)
    BY <1>9 DEF Unseen
  <2> QED
    BY <2>1, <2>2, <2>3 DEF AllSeen
<1>14. SeenDone(w)'
  <2>1. \A e \in Everyone : e.who \in s.seen => Done(e)
    BY <1>2, <1>7, <1>8 DEF SeenDone
  <2>2. \A e \in Everyone' : e.who \in w.row.seen => Done(e)'
    BY <1>3, <1>7, <1>11, <2>1
  <2> QED
    BY <1>3, <2>2 DEF SeenDone
<1> QED
  BY <1>3, <1>4, <1>11, <1>12, <1>13, <1>14, TracksPeople

LEMMA NextDeptTracks ==
    ASSUME RowsOK, TasksOK, NEW p \in Procs, Tracks(proc[p]), NextDept(p), Alone(p)',
           UNCHANGED directory
    PROVE  Tracks(proc[p])'
<1>1. At(p, "people") /\ UNCHANGED <<unmoved, depts>>
  BY Zenon DEF NextDept
<1>2. proc[p].pc = "people" /\ proc[p].pc \in SyncLabels \ {"list"} /\ ~At(p, "idle")
  BY <1>1 DEF At, SyncLabels
<1>3. PICK w :
         /\ Went(p, w) /\ w.pc = "staff"
         /\ w.row.listed = Sync(p).listed /\ w.row.done = Sync(p).done + 1
         /\ w.row.map = Sync(p).map /\ w.row.staff = {} /\ w.row.seen = Sync(p).seen
         /\ Sync(p).staff = {}
  BY NextDeptGoes
<1>4. proc'[p] = w
  BY <1>2, <1>3, WentIs
<1>7. PICK x, s, n : x = proc[p] /\ s = Sync(p) /\ n = s.done
  OBVIOUS
<1>8. /\ x.row = s /\ s.listed = directory /\ Mapped(s, Len(directory)) /\ n \in Nat
      /\ AllSeen(s, "people") /\ SeenDone(x)
  BY <1>2, <1>7, TracksIs, SyncIs
<1>11. /\ w.row.listed = directory' /\ Mapped(w.row, Len(directory))'
       /\ Everyone' = Everyone /\ \A e : Done(e)' <=> Done(e)
  <2>1. UNCHANGED <<users, bonds, depts, directory>>
    BY <1>1 DEF unmoved
  <2>2. w.row.listed = x.row.listed /\ w.row.map = x.row.map
    BY <1>3, <1>7, <1>8
  <2> QED
    BY <1>8, <2>1, <2>2, PeopleSame
<1>13. AllSeen(w.row, w.pc)'
  <2>1. w.row.seen = s.seen /\ w.row.done = n + 1 /\ s.staff = {}
    BY <1>3, <1>7
  <2>2. \A j \in 1 .. n : \A e \in directory[j].staff : e.who \in s.seen
    BY <1>7, <1>8 DEF AllSeen
  <2>3. \A e \in directory[n + 1].staff : e.who \in s.seen
    BY <1>7, <1>8, <2>1 DEF AllSeen
  <2>4. \A j \in 1 .. (n + 1) : \A e \in directory[j].staff : e.who \in s.seen
    BY <1>8, <2>2, <2>3
  <2> QED
    BY <1>3, <2>1, <2>4 DEF AllSeen
<1>14. SeenDone(w)'
  <2>1. \A e \in Everyone : e.who \in s.seen => Done(e)
    BY <1>2, <1>7, <1>8 DEF SeenDone
  <2>2. \A e \in Everyone' : e.who \in w.row.seen => Done(e)'
    BY <1>3, <1>7, <1>11, <2>1
  <2> QED
    BY <1>3, <2>2 DEF SeenDone
<1> QED
  BY <1>3, <1>4, <1>11, <1>13, <1>14, TracksPeople

LEMMA EveryoneIs ==
    ASSUME RowsOK
    PROVE  /\ Everyone \in SUBSET Staff
           /\ \A e, f \in Everyone : e.who = f.who => e = f
<1>1. directory \in Lists
  BY DEF RowsOK, Lists
<1>2. \A j \in DOMAIN directory : directory[j].staff \in SUBSET Staff
  BY <1>1, ListIs
<1>3. Everyone \in SUBSET Staff
  BY <1>2 DEF Everyone
<1>4. ASSUME NEW e \in Everyone, NEW f \in Everyone, e.who = f.who PROVE e = f
  <2>1. PICK i, j \in DOMAIN directory : e \in directory[i].staff /\ f \in directory[j].staff
    BY DEF Everyone
  <2>2. \A a, b \in DOMAIN directory : \A g \in directory[a].staff, h \in directory[b].staff :
           g.who = h.who => g.phone = h.phone
    <3>1. directory \in Directories
      BY DEF RowsOK
    <3> QED
      BY <3>1, DirectoriesKnown
  <2>3. e \in Staff /\ f \in Staff
    BY <1>3
  <2>4. e.phone = f.phone
    BY <1>4, <2>1, <2>2
  <2> QED
    BY <1>4, <2>3, <2>4 DEF Staff
<1> QED
  BY <1>3, <1>4

LEMMA InHandSame ==
    ASSUME UNCHANGED <<users, bonds>>, NEW w, NEW e
    PROVE  InHand(w, e)' <=> InHand(w, e)
<1>1. GetByDingTalkUserID(e.who)' = GetByDingTalkUserID(e.who)
  BY FoundSame
<1>2. \A u : GetByOrgAndUser(SyncOrg, u)' = GetByOrgAndUser(SyncOrg, u)
  BY FoundSame
<1>3. Brought(e)' <=> Brought(e)
  BY DoneSame
<1>4. PersonInHand(w, e)' <=> PersonInHand(w, e)
  BY <1>1, Zenon DEF PersonInHand
<1>5. MemberInHand(w, e)' <=> MemberInHand(w, e)
  BY <1>1, <1>2, <1>3, Zenon DEF MemberInHand
<1> QED
  BY <1>1, <1>3, <1>4, <1>5 DEF InHand

\* An account that has nothing to be told is the one that is wanted.
LEMMA AccountTold ==
    ASSUME RowsOK, NEW e \in Staff, NEW u, u = GetByDingTalkUserID(e.who), u # 0
    PROVE  Told(users[u], e) <=> Account(e, u) = users[u]
<1>1. users[u] \in UserRow /\ u \in DOMAIN users
  BY PersonFound DEF RowsOK
<1>2. OneUserid(users[u])
  BY <1>1 DEF RowsOK
<1>3. PICK r, m : r = users[u] /\ m = Merged(r, e)
  OBVIOUS
<1>4. Told(m, e) /\ (Told(r, e) => m = r)
  BY <1>1, <1>2, <1>3, MergedIs
<1>5. Account(e, u) = m
  BY <1>3 DEF Account
<1> QED
  BY <1>3, <1>4, <1>5

LEMMA PersonTracks ==
    ASSUME RowsOK, TasksOK, NEW p \in Procs, Tracks(proc[p]), SyncPerson(p), Alone(p)',
           UNCHANGED directory
    PROVE  Tracks(proc[p])'
<1>1. At(p, "people")
  BY Zenon DEF SyncPerson
<1>2. UNCHANGED <<unmoved, depts>>
  BY Zenon DEF SyncPerson
<1>3. proc[p].pc = "people" /\ proc[p].pc \in SyncLabels \ {"list"} /\ ~At(p, "idle")
  BY <1>1 DEF At, SyncLabels
<1>4. PICK w, u : \E e \in Sync(p).staff :
              /\ Went(p, w) /\ w.alone = proc[p].alone
              /\ u = GetByDingTalkUserID(e.who) /\ w.user = u
              /\ w.pc = IF u # 0 /\ Account(e, u) = users[u] THEN "person" ELSE "savePerson"
              /\ w.row.listed = Sync(p).listed /\ w.row.done = Sync(p).done
              /\ w.row.map = Sync(p).map /\ w.row.staff = Sync(p).staff \ {e}
              /\ w.row.seen = Sync(p).seen \cup {e.who} /\ w.row.copy = Account(e, u)
  BY PersonGoes
<1>5. PICK x, s, n : x = proc[p] /\ s = Sync(p) /\ n = s.done
  OBVIOUS
<1>6. PICK e \in s.staff :
              /\ Went(p, w)
              /\ u = GetByDingTalkUserID(e.who) /\ w.user = u
              /\ w.pc = IF u # 0 /\ Account(e, u) = users[u] THEN "person" ELSE "savePerson"
              /\ w.row.listed = s.listed /\ w.row.done = n
              /\ w.row.map = s.map /\ w.row.staff = s.staff \ {e}
              /\ w.row.seen = s.seen \cup {e.who} /\ w.row.copy = Account(e, u)
  BY <1>4, <1>5
<1>7. proc'[p] = w
  BY <1>3, <1>6, WentIs
<1>8. /\ x.row = s /\ s.listed = directory /\ Mapped(s, Len(directory)) /\ n \in Nat
      /\ s.staff \subseteq Everyone /\ AllSeen(s, "people") /\ SeenDone(x)
  BY <1>3, <1>5, TracksIs, SyncIs
<1>9. e \in Everyone /\ e \in Staff
  BY <1>8, EveryoneIs
<1>10. w.pc \in {"person", "savePerson"}
  BY <1>6
<1>11. /\ w.row.listed = directory' /\ Mapped(w.row, Len(directory))'
       /\ Everyone' = Everyone /\ \A f : Done(f)' <=> Done(f)
  <2>1. UNCHANGED <<users, bonds, depts, directory>>
    BY <1>2 DEF unmoved
  <2>2. w.row.listed = x.row.listed /\ w.row.map = x.row.map
    BY <1>6, <1>8
  <2> QED
    BY <1>8, <2>1, <2>2, PeopleSame
<1>12. w.row.staff \subseteq Everyone'
  BY <1>6, <1>8, <1>11
<1>13. AllSeen(w.row, w.pc)'
  <2>1. \A j \in 1 .. n : \A f \in directory[j].staff : f.who \in s.seen
    BY <1>5, <1>8 DEF AllSeen
  <2>2. \A f \in directory[n + 1].staff : f.who \in s.seen \/ f \in s.staff
    BY <1>5, <1>8 DEF AllSeen
  <2>3. \A f \in directory[n + 1].staff : f.who \in s.seen \cup {e.who} \/ f \in s.staff \ {e}
    BY <2>2
  <2> QED
    BY <1>6, <2>1, <2>3 DEF AllSeen
<1>14. InHand(w, e)
  <2>1. CASE w.pc = "savePerson"
    <3>1. PersonInHand(w, e)
      BY <1>6, Zenon DEF PersonInHand, Account
    <3> QED
      BY <2>1, <3>1 DEF InHand
  <2>2. CASE w.pc = "person"
    <3>1. u # 0 /\ Account(e, u) = users[u]
      BY <1>6, <2>2
    <3>2. Told(users[u], e)
      BY <1>6, <1>9, <3>1, AccountTold
    <3>3. Brought(e)
      BY <1>6, <3>1, <3>2 DEF Brought
    <3> QED
      BY <1>6, <2>2, <3>3 DEF InHand
  <2> QED
    BY <1>10, <2>1, <2>2
<1>15. InHand(w, e)'
  BY <1>2, <1>14, InHandSame DEF unmoved
<1>16. SeenDone(w)'
  <2>1. \A f \in Everyone : f.who \in s.seen => Done(f)
    BY <1>3, <1>5, <1>8 DEF SeenDone
  <2>2. \A f \in Everyone' : f.who \in w.row.seen /\ f.who # e.who => Done(f)'
    BY <1>6, <1>11, <2>1
  <2> QED
    BY <1>9, <1>10, <1>11, <1>15, <2>2 DEF SeenDone
<1> QED
  BY <1>7, <1>10, <1>11, <1>12, <1>13, <1>16, TracksPeople

LEMMA FoundStored ==
    ASSUME users \in Seq(UserRow), NEW row \in UserRow, CreateUser(row), NEW c, NEW d,
           <<"userid", d>> \in row.ids <=> d = c
    PROVE  /\ d # c => GetByDingTalkUserID(d)' = GetByDingTalkUserID(d)
           /\ d = c /\ GetByDingTalkUserID(d) = 0 => GetByDingTalkUserID(d)' = Len(users) + 1
<1>1. PICK D, id, new : D = {u \in DOMAIN users : id \in users[u].ids}
                       /\ id = <<"userid", d>> /\ new = Len(users) + 1
  OBVIOUS
<1>2. /\ DOMAIN users' = DOMAIN users \cup {new} /\ users'[new] = row
      /\ \A u \in DOMAIN users : users'[u] = users[u]
      /\ new \in Nat \ {0} /\ new \notin DOMAIN users
  BY <1>1, UserAppended
<1>3. PICK E : E = {u \in DOMAIN users' : id \in users'[u].ids}
  OBVIOUS
<1>4. GetByDingTalkUserID(d) = First(D) /\ GetByDingTalkUserID(d)' = First(E)
  BY <1>1, <1>3 DEF GetByDingTalkUserID
<1>5. CASE d # c
  <2>1. id \notin row.ids
    BY <1>1, <1>5
  <2>2. D = E
    BY <1>1, <1>2, <1>3, <2>1, Zenon
  <2> QED
    BY <1>4, <1>5, <2>2
<1>6. CASE d = c
  <2>1. id \in row.ids
    BY <1>1, <1>6
  <2>2. E = D \cup {new}
    BY <1>1, <1>2, <1>3, <2>1, Zenon
  <2>3. First(D) = 0 => D = {}
    <3>1. D \in SUBSET DOMAIN users
      BY <1>1
    <3> QED
      BY <3>1, RowFound
  <2>4. First({new}) = new
    <3>1. {new} \in SUBSET Nat /\ 0 \notin {new} /\ {new} # {}
      BY <1>2
    <3>2. First({new}) \in {new}
      BY <3>1, FirstIs
    <3> QED
      BY <3>2
  <2>5. D = {} => E = {new}
    BY <2>2
  <2> QED
    BY <1>1, <1>4, <1>6, <2>3, <2>4, <2>5
<1> QED
  BY <1>5, <1>6

LEMMA FoundUpdated ==
    ASSUME users \in Seq(UserRow), NEW v \in DOMAIN users, NEW row \in UserRow,
           UpdateUser(v, row), NEW d,
           <<"userid", d>> \in row.ids <=> <<"userid", d>> \in users[v].ids
    PROVE  GetByDingTalkUserID(d)' = GetByDingTalkUserID(d)
<1>1. PICK id : id = <<"userid", d>>
  OBVIOUS
<1>2. /\ DOMAIN users' = DOMAIN users
      /\ \A u \in DOMAIN users : users'[u] = IF u = v THEN row ELSE users[u]
  BY UserReplaced
<1>3. \A u \in DOMAIN users : id \in users'[u].ids <=> id \in users[u].ids
  BY <1>1, <1>2
<1>4. {u \in DOMAIN users' : id \in users'[u].ids} = {u \in DOMAIN users : id \in users[u].ids}
  BY <1>2, <1>3
<1> QED
  BY <1>1, <1>4 DEF GetByDingTalkUserID

\* The person's account is stored, and everybody else's is what it was.
LEMMA PersonStored ==
    ASSUME RowsOK, NEW c \in Staff, NEW v, NEW n, v = GetByDingTalkUserID(c.who),
           \/ v = 0 /\ CreateUser(Account(c, v)) /\ n = Len(users) + 1
           \/ v # 0 /\ UpdateUser(v, Account(c, v)) /\ n = v
    PROVE  /\ n = GetByDingTalkUserID(c.who)' /\ n # 0 /\ Told(users'[n], c)
           /\ \A e \in Staff : e.who # c.who =>
                 /\ GetByDingTalkUserID(e.who)' = GetByDingTalkUserID(e.who)
                 /\ GetByDingTalkUserID(e.who) # 0 =>
                       users'[GetByDingTalkUserID(e.who)] = users[GetByDingTalkUserID(e.who)]
<1>0. users \in Seq(UserRow)
  BY DEF RowsOK
<1>1. PICK row : row = Account(c, v)
  OBVIOUS
<1>2. row \in UserRow /\ v \in Nat
  BY <1>1, AccountIs
<1>3. CASE v = 0 /\ CreateUser(row) /\ n = Len(users) + 1
  <2>1. row = FromDirectory(c)
    BY <1>1, <1>3 DEF Account
  <2>2. Told(row, c) /\ \A d : <<"userid", d>> \in row.ids <=> d = c.who
    BY <2>1, FromDirectoryIs
  <2>3. n = GetByDingTalkUserID(c.who)'
    BY <1>0, <1>2, <1>3, <2>2, FoundStored
  <2>4. \A d : d # c.who => GetByDingTalkUserID(d)' = GetByDingTalkUserID(d)
    BY <1>0, <1>2, <1>3, <2>2, FoundStored
  <2>5. n # 0 /\ users'[n] = row /\ \A u \in DOMAIN users : users'[u] = users[u]
    BY <1>0, <1>2, <1>3, UserAppended
  <2>6. ASSUME NEW e \in Staff, GetByDingTalkUserID(e.who) # 0
        PROVE  users'[GetByDingTalkUserID(e.who)] = users[GetByDingTalkUserID(e.who)]
    <3>1. PICK u : u = GetByDingTalkUserID(e.who)
      OBVIOUS
    <3>2. u \in DOMAIN users
      BY <1>0, <2>6, <3>1, PersonFound
    <3> QED
      BY <2>5, <3>1, <3>2
  <2> QED
    BY <2>2, <2>3, <2>4, <2>5, <2>6
<1>4. CASE v # 0 /\ UpdateUser(v, row) /\ n = v
  <2>1. v \in DOMAIN users /\ users[v] \in UserRow /\ <<"userid", c.who>> \in users[v].ids
    BY <1>0, <1>4, PersonFound
  <2>2. OneUserid(users[v])
    BY <2>1 DEF RowsOK
  <2>3. PICK r : r = users[v]
    OBVIOUS
  <2>4. row = Merged(r, c)
    BY <1>1, <1>4, <2>3 DEF Account
  <2>5. Told(row, c) /\ \A d : <<"userid", d>> \in row.ids <=> <<"userid", d>> \in r.ids
    BY <2>1, <2>2, <2>3, <2>4, MergedIs
  <2>6. \A d : GetByDingTalkUserID(d)' = GetByDingTalkUserID(d)
    BY <1>0, <1>2, <1>4, <2>1, <2>3, <2>5, FoundUpdated
  <2>7. users'[v] = row /\ \A u \in DOMAIN users : u # v => users'[u] = users[u]
    BY <1>0, <1>2, <1>4, <2>1, UserReplaced
  <2>8. ASSUME NEW e \in Staff, e.who # c.who, GetByDingTalkUserID(e.who) # 0
        PROVE  users'[GetByDingTalkUserID(e.who)] = users[GetByDingTalkUserID(e.who)]
    <3>1. PICK u : u = GetByDingTalkUserID(e.who)
      OBVIOUS
    <3>2. u \in DOMAIN users /\ <<"userid", e.who>> \in users[u].ids
      BY <1>0, <2>8, <3>1, PersonFound
    <3>3. e.who \in People /\ c.who \in People
      BY StaffIs
    <3>4. u # v
      BY <2>1, <2>2, <2>8, <3>2, <3>3 DEF OneUserid
    <3> QED
      BY <2>7, <3>1, <3>2, <3>4
  <2> QED
    BY <1>4, <2>5, <2>6, <2>7, <2>8
<1> QED
  BY <1>1, <1>3, <1>4

LEMMA SavePersonTracks ==
    ASSUME RowsOK, TasksOK, NEW p \in Procs, Tracks(proc[p]), SyncSavePerson(p), Alone(p)',
           UNCHANGED directory
    PROVE  Tracks(proc[p])'
<1>1. At(p, "savePerson") /\ UNCHANGED <<bonds, account, depts>>
  BY Zenon DEF SyncSavePerson
<1>2. proc[p].pc = "savePerson" /\ proc[p].pc \in SyncLabels \ {"list"} /\ ~At(p, "idle")
  BY <1>1 DEF At, SyncLabels
<1>3. PICK x, s, n, v : x = proc[p] /\ s = Sync(p) /\ n = s.done /\ v = proc[p].user
  OBVIOUS
<1>4. PICK w :
         /\ Went(p, w) /\ w.pc = "person"
         /\ w.row.listed = s.listed /\ w.row.done = n
         /\ w.row.map = s.map /\ w.row.staff = s.staff
         /\ w.row.seen = s.seen
         /\ \/ v = 0 /\ w.user = Len(users) + 1 /\ CreateUser(s.copy)
            \/ v # 0 /\ w.user = v /\ UpdateUser(v, s.copy)
  BY <1>3, SavePersonGoes
<1>5. proc'[p] = w
  BY <1>2, <1>4, WentIs
<1>6. /\ x.row = s /\ s.listed = directory /\ Mapped(s, Len(directory)) /\ n \in Nat
      /\ s.staff \subseteq Everyone /\ AllSeen(s, "savePerson") /\ SeenDone(x)
  BY <1>2, <1>3, TracksIs, SyncIs
<1>7. PICK c \in Everyone :
         /\ InHand(x, c)
         /\ \A e \in Everyone : e.who \in s.seen /\ e.who # c.who => Done(e)
  BY <1>2, <1>3, <1>6 DEF SeenDone
<1>8. c \in Staff /\ Everyone \in SUBSET Staff
  BY EveryoneIs
<1>9. v = GetByDingTalkUserID(c.who) /\ s.copy = Account(c, v)
  BY <1>2, <1>3, <1>6, <1>7, Zenon DEF InHand, PersonInHand, Account
<1>10. PICK m : m = w.user
  OBVIOUS
<1>11. /\ m = GetByDingTalkUserID(c.who)' /\ m # 0 /\ Told(users'[m], c)
       /\ \A e \in Staff : e.who # c.who =>
             /\ GetByDingTalkUserID(e.who)' = GetByDingTalkUserID(e.who)
             /\ GetByDingTalkUserID(e.who) # 0 =>
                   users'[GetByDingTalkUserID(e.who)] = users[GetByDingTalkUserID(e.who)]
  BY <1>4, <1>8, <1>9, <1>10, PersonStored
<1>12. Brought(c)'
  BY <1>11 DEF Brought
<1>13. ASSUME NEW e \in Everyone, e.who # c.who, Done(e) PROVE Done(e)'
  <2>1. PICK u : u = GetByDingTalkUserID(e.who)
    OBVIOUS
  <2>2. e \in Staff
    BY <1>8
  <2>3. u # 0 /\ Told(users[u], e) /\ PersonMirrored(e.who)
    BY <1>13, <2>1 DEF Done, Brought
  <2>4. u = GetByDingTalkUserID(e.who)' /\ users'[u] = users[u]
    BY <1>11, <1>13, <2>1, <2>2, <2>3
  <2>5. Brought(e)'
    BY <2>3, <2>4 DEF Brought
  <2>6. GetByOrgAndUser(SyncOrg, u)' = GetByOrgAndUser(SyncOrg, u)
    BY <1>1 DEF GetByOrgAndUser, BondsOf
  <2>7. PersonMirrored(e.who)'
    BY <1>1, <2>1, <2>3, <2>4, <2>6 DEF PersonMirrored
  <2> QED
    BY <2>5, <2>7 DEF Done
<1>14. Everyone' = Everyone
  BY EveryoneSame
<1>15. SeenDone(w)'
  <2>1. InHand(w, c)'
    BY <1>4, <1>10, <1>11, <1>12 DEF InHand
  <2>2. \A e \in Everyone' : e.who \in w.row.seen /\ e.who # c.who => Done(e)'
    BY <1>4, <1>7, <1>13, <1>14
  <2> QED
    BY <1>4, <1>14, <2>1, <2>2 DEF SeenDone
<1>16. w.row.listed = directory' /\ Mapped(w.row, Len(directory))'
  <2>1. Mapped(w.row, Len(directory))
    BY <1>4, <1>6 DEF Mapped
  <2>2. UNCHANGED <<depts, directory>>
    BY <1>1
  <2> QED
    BY <1>4, <1>6, <2>1, <2>2, MappedSame
<1>17. AllSeen(w.row, w.pc)'
  BY <1>3, <1>4, <1>6 DEF AllSeen
<1> QED
  BY <1>4, <1>5, <1>6, <1>14, <1>15, <1>16, <1>17, TracksPeople

HasDept(u) ==
    LET b == GetByOrgAndUser(SyncOrg, u) IN b # 0 /\ bonds[b].dept # 0

LEMMA MirroredIs ==
    ASSUME NEW d
    PROVE  PersonMirrored(d) <=> GetByDingTalkUserID(d) # 0 /\ HasDept(GetByDingTalkUserID(d))
BY Zenon DEF PersonMirrored, HasDept

LEMMA BondStored ==
    ASSUME RowsOK, NEW row \in BondRow, NEW b, NEW u, b = GetByOrgAndUser(SyncOrg, u),
           row.live, row.org = SyncOrg, row.user = u, row.dept # 0,
           (b = 0 /\ CreateBond(row)) \/ (b # 0 /\ UpdateBond(b, row))
    PROVE  /\ HasDept(u)'
           /\ \A v : HasDept(v) => HasDept(v)'
<1>0. bonds \in Seq(BondRow)
  BY DEF RowsOK
<1>1. CASE b = 0 /\ CreateBond(row)
  <2>1. PICK new : new = Len(bonds) + 1
    OBVIOUS
  <2>2. /\ DOMAIN bonds' = DOMAIN bonds \cup {new} /\ bonds'[new] = row
        /\ \A c \in DOMAIN bonds : bonds'[c] = bonds[c]
        /\ new \in Nat \ {0} /\ new \notin DOMAIN bonds
    BY <1>0, <1>1, <2>1, BondAppended
  <2>3. BondsOf(SyncOrg)' = BondsOf(SyncOrg) \cup {new}
    BY <2>2 DEF BondsOf
  <2>4. \A c \in BondsOf(SyncOrg) : c \in DOMAIN bonds /\ bonds[c].user # u
    <3>1. GetByOrgAndUser(SyncOrg, u) = 0
      BY <1>1
    <3>2. \A c \in BondsOf(SyncOrg) : bonds[c].user # u
      BY <1>0, <3>1, NoMember
    <3> QED
      BY <3>2 DEF BondsOf
  <2>5. {c \in BondsOf(SyncOrg)' : bonds'[c].user = u} = {new}
    BY <2>2, <2>3, <2>4
  <2>6. First({new}) = new
    <3>1. {new} \in SUBSET Nat /\ 0 \notin {new} /\ {new} # {}
      BY <2>2
    <3>2. First({new}) \in {new}
      BY <3>1, FirstIs
    <3> QED
      BY <3>2
  <2>7. GetByOrgAndUser(SyncOrg, u)' = new
    BY <2>5, <2>6 DEF GetByOrgAndUser
  <2>8. HasDept(u)'
    BY <2>2, <2>7 DEF HasDept
  <2>9. ASSUME NEW v, HasDept(v) PROVE HasDept(v)'
    <3>1. CASE v = u
      BY <2>8, <3>1
    <3>2. CASE v # u
      <4>1. {c \in BondsOf(SyncOrg)' : bonds'[c].user = v}
               = {c \in BondsOf(SyncOrg) : bonds[c].user = v}
        BY <2>2, <2>3, <2>4, <3>2
      <4>2. PICK c : c = GetByOrgAndUser(SyncOrg, v)
        OBVIOUS
      <4>3. GetByOrgAndUser(SyncOrg, v)' = c
        BY <4>1, <4>2 DEF GetByOrgAndUser
      <4>4. c # 0 /\ bonds[c].dept # 0
        BY <2>9, <4>2 DEF HasDept
      <4>5. bonds'[c] = bonds[c]
        BY <1>0, <2>2, <4>2, <4>4, MemberFound
      <4> QED
        BY <4>3, <4>4, <4>5 DEF HasDept
    <3> QED
      BY <3>1, <3>2
  <2> QED
    BY <2>8, <2>9
<1>2. CASE b # 0 /\ UpdateBond(b, row)
  <2>1. b \in DOMAIN bonds /\ bonds[b].live /\ bonds[b].org = SyncOrg /\ bonds[b].user = u
    BY <1>0, <1>2, MemberFound
  <2>2. /\ DOMAIN bonds' = DOMAIN bonds
        /\ \A c \in DOMAIN bonds : bonds'[c] = IF c = b THEN row ELSE bonds[c]
    BY <1>0, <1>2, BondReplaced
  <2>3. BondsOf(SyncOrg)' = BondsOf(SyncOrg)
    BY <2>1, <2>2 DEF BondsOf
  <2>4. \A v : GetByOrgAndUser(SyncOrg, v)' = GetByOrgAndUser(SyncOrg, v)
    <3> SUFFICES ASSUME NEW v
                 PROVE  GetByOrgAndUser(SyncOrg, v)' = GetByOrgAndUser(SyncOrg, v)
      OBVIOUS
    <3>1. \A c \in BondsOf(SyncOrg) : bonds'[c].user = bonds[c].user
      BY <2>1, <2>2 DEF BondsOf
    <3>2. {c \in BondsOf(SyncOrg)' : bonds'[c].user = v}
             = {c \in BondsOf(SyncOrg) : bonds[c].user = v}
      BY <2>3, <3>1
    <3> QED
      BY <3>2 DEF GetByOrgAndUser
  <2>5. bonds'[b].dept # 0
    BY <2>1, <2>2
  <2>6. HasDept(u)'
    BY <1>2, <2>4, <2>5 DEF HasDept
  <2>7. ASSUME NEW v, HasDept(v) PROVE HasDept(v)'
    <3>1. PICK c : c = GetByOrgAndUser(SyncOrg, v)
      OBVIOUS
    <3>2. c # 0 /\ bonds[c].dept # 0
      BY <2>7, <3>1 DEF HasDept
    <3>3. c \in DOMAIN bonds
      BY <1>0, <3>1, <3>2, MemberFound
    <3>4. bonds'[c].dept # 0
      BY <2>2, <2>5, <3>2, <3>3
    <3> QED
      BY <2>4, <3>1, <3>2, <3>4 DEF HasDept
  <2> QED
    BY <2>6, <2>7
<1> QED
  BY <1>1, <1>2

LEMMA BondTracks ==
    ASSUME RowsOK, TasksOK, NEW p \in Procs, Tracks(proc[p]), SyncBond(p), Alone(p)',
           UNCHANGED directory
    PROVE  Tracks(proc[p])'
<1>1. At(p, "person")
  BY Zenon DEF SyncBond
<1>2. UNCHANGED <<unmoved, depts>>
  BY Zenon DEF SyncBond
<1>3. proc[p].pc = "person" /\ proc[p].pc \in SyncLabels \ {"list"} /\ ~At(p, "idle")
  BY <1>1 DEF At, SyncLabels
<1>4. PICK x, s, n, u : x = proc[p] /\ s = Sync(p) /\ n = s.done /\ u = proc[p].user
  OBVIOUS
<1>5. PICK b : b = GetByOrgAndUser(SyncOrg, u)
  OBVIOUS
<1>6. PICK row : row = Membership(p, b)
  OBVIOUS
<1>7. /\ row \in BondRow /\ row.org = SyncOrg /\ row.user = u /\ row.live /\ row.dept # 0
  BY <1>1, <1>4, <1>5, <1>6, MembershipIs
<1>8. PICK w :
         /\ Went(p, w)
         /\ w.pc = IF b # 0 /\ row = bonds[b] THEN "people" ELSE "saveMember"
         /\ w.row.listed = s.listed /\ w.row.done = n
         /\ w.row.map = s.map /\ w.row.staff = s.staff
         /\ w.row.seen = s.seen
         /\ w.bond = b /\ w.member = row
  BY <1>4, <1>5, <1>6, BondGoes
<1>9. proc'[p] = w
  BY <1>3, <1>8, WentIs
<1>10. /\ x.row = s /\ s.listed = directory /\ Mapped(s, Len(directory)) /\ n \in Nat
       /\ s.staff \subseteq Everyone /\ AllSeen(s, "person") /\ SeenDone(x)
  BY <1>3, <1>4, TracksIs, SyncIs
<1>11. PICK c \in Everyone :
         /\ InHand(x, c)
         /\ \A e \in Everyone : e.who \in s.seen /\ e.who # c.who => Done(e)
  BY <1>3, <1>4, <1>10 DEF SeenDone
<1>12. u = GetByDingTalkUserID(c.who) /\ Brought(c)
  BY <1>3, <1>4, <1>11 DEF InHand
<1>13. w.pc \in {"people", "saveMember"}
  BY <1>8
<1>14. /\ w.row.listed = directory' /\ Mapped(w.row, Len(directory))'
       /\ Everyone' = Everyone /\ \A f : Done(f)' <=> Done(f)
  <2>1. UNCHANGED <<users, bonds, depts, directory>>
    BY <1>2 DEF unmoved
  <2>2. w.row.listed = x.row.listed /\ w.row.map = x.row.map
    BY <1>8, <1>10
  <2> QED
    BY <1>10, <2>1, <2>2, PeopleSame
<1>15. AllSeen(w.row, w.pc)'
  BY <1>4, <1>8, <1>10 DEF AllSeen
<1>16. SeenDone(w)'
  <2>1. CASE w.pc = "people"
    <3>1. b # 0 /\ bonds[b].dept # 0
      BY <1>7, <1>8, <2>1
    <3>2. HasDept(u) /\ u # 0
      BY <1>5, <1>12, <3>1 DEF HasDept, Brought
    <3>3. Done(c)
      BY <1>12, <3>2, MirroredIs DEF Done
    <3>4. \A e \in Everyone : e.who \in s.seen => Done(e)
      BY <1>11, <3>3, EveryoneIs
    <3>5. \A e \in Everyone' : e.who \in w.row.seen => Done(e)'
      BY <1>8, <1>14, <3>4
    <3> QED
      BY <2>1, <3>5 DEF SeenDone
  <2>2. CASE w.pc = "saveMember"
    <3>1. MemberInHand(w, c)
      BY <1>5, <1>7, <1>8, <1>12, Zenon DEF MemberInHand
    <3>2. InHand(w, c)
      BY <2>2, <3>1 DEF InHand
    <3>3. InHand(w, c)'
      BY <1>2, <3>2, InHandSame DEF unmoved
    <3>4. \A e \in Everyone' : e.who \in w.row.seen /\ e.who # c.who => Done(e)'
      BY <1>8, <1>11, <1>14
    <3> QED
      BY <1>14, <2>2, <3>3, <3>4 DEF SeenDone
  <2> QED
    BY <1>13, <2>1, <2>2
<1> QED
  BY <1>8, <1>9, <1>10, <1>13, <1>14, <1>15, <1>16, TracksPeople

LEMMA SaveBondTracks ==
    ASSUME RowsOK, TasksOK, NEW p \in Procs, Tracks(proc[p]), SyncSaveBond(p), Alone(p)',
           UNCHANGED directory
    PROVE  Tracks(proc[p])'
<1>1. At(p, "saveMember") /\ UNCHANGED <<users, account, depts>>
  BY Zenon DEF SyncSaveBond
<1>2. proc[p].pc = "saveMember" /\ proc[p].pc \in SyncLabels \ {"list"} /\ ~At(p, "idle")
  BY <1>1 DEF At, SyncLabels
<1>3. PICK x, s, n, b, row :
         /\ x = proc[p] /\ s = Sync(p) /\ n = s.done /\ b = proc[p].bond /\ row = proc[p].member
  OBVIOUS
<1>4. row \in BondRow /\ ((b = 0 /\ CreateBond(row)) \/ (b # 0 /\ UpdateBond(b, row)))
  BY <1>3, SaveBondGoes
<1>5. PICK w : Went(p, w) /\ w.pc = "people" /\ w.row = s
  BY <1>3, SaveBondGoes
<1>6. proc'[p] = w
  BY <1>2, <1>5, WentIs
<1>7. /\ x.row = s /\ s.listed = directory /\ Mapped(s, Len(directory)) /\ n \in Nat
      /\ s.staff \subseteq Everyone /\ AllSeen(s, "saveMember") /\ SeenDone(x)
  BY <1>2, <1>3, TracksIs, SyncIs
<1>8. PICK c \in Everyone :
         /\ InHand(x, c)
         /\ \A e \in Everyone : e.who \in s.seen /\ e.who # c.who => Done(e)
  BY <1>2, <1>3, <1>7 DEF SeenDone
<1>9. PICK u : u = GetByDingTalkUserID(c.who)
  OBVIOUS
<1>10. /\ Brought(c) /\ b = GetByOrgAndUser(SyncOrg, u)
       /\ row.org = SyncOrg /\ row.user = u /\ row.live /\ row.dept # 0
  <2>1. MemberInHand(x, c)
    BY <1>2, <1>3, <1>8 DEF InHand
  <2> QED
    BY <1>3, <1>9, <2>1, Zenon DEF MemberInHand
<1>11. HasDept(u)' /\ \A v : HasDept(v) => HasDept(v)'
  BY <1>4, <1>10, BondStored
<1>12. \A d : GetByDingTalkUserID(d)' = GetByDingTalkUserID(d)
  BY <1>1 DEF GetByDingTalkUserID
<1>13. \A e : Brought(e) => Brought(e)'
  BY <1>1, <1>12 DEF Brought
<1>14. ASSUME NEW e \in Everyone, e.who \in s.seen PROVE Done(e)'
  <2>1. CASE e.who = c.who
    <3>1. e = c
      BY <2>1, EveryoneIs
    <3>2. u # 0
      BY <1>9, <1>10 DEF Brought
    <3>3. PersonMirrored(c.who)'
      BY <1>9, <1>11, <1>12, <3>2, MirroredIs, Zenon DEF PersonMirrored, HasDept
    <3> QED
      BY <1>10, <1>13, <3>1, <3>3 DEF Done
  <2>2. CASE e.who # c.who
    <3>1. Brought(e) /\ PersonMirrored(e.who)
      BY <1>8, <1>14, <2>2 DEF Done
    <3>2. PICK v : v = GetByDingTalkUserID(e.who)
      OBVIOUS
    <3>3. v # 0 /\ HasDept(v)
      BY <3>1, <3>2, MirroredIs
    <3>4. v = GetByDingTalkUserID(e.who)' /\ HasDept(v)'
      BY <1>11, <1>12, <3>2, <3>3
    <3>5. PersonMirrored(e.who)'
      BY <3>3, <3>4, Zenon DEF PersonMirrored, HasDept
    <3> QED
      BY <1>13, <3>1, <3>5 DEF Done
  <2> QED
    BY <2>1, <2>2
<1>15. Everyone' = Everyone
  BY EveryoneSame
<1>16. SeenDone(w)'
  BY <1>5, <1>14, <1>15 DEF SeenDone
<1>17. w.row.listed = directory' /\ Mapped(w.row, Len(directory))'
  <2>1. UNCHANGED <<depts, directory>>
    BY <1>1
  <2> QED
    BY <1>5, <1>7, <2>1, MappedSame
<1>18. AllSeen(w.row, w.pc)'
  BY <1>5, <1>7 DEF AllSeen
<1> QED
  BY <1>5, <1>6, <1>7, <1>15, <1>16, <1>17, <1>18, TracksPeople

LEMMA SyncTracks ==
    ASSUME RowsOK, TasksOK, Undone, NEW p \in Procs, SyncStep(p), UNCHANGED directory, Alone(p)'
    PROVE  Tracks(proc[p])'
<1>1. CASE SyncStart(p)
  <2>1. proc'[p].pc = "list"
    BY <1>1, StartsSync DEF At
  <2> QED
    BY <2>1 DEF Tracks
<1>2. ASSUME ~SyncStart(p) PROVE Tracks(proc[p])'
  <2>1. Turn(p) /\ ~At(p, "idle")
    BY <1>2, SyncTurns, SyncTypes DEF Onward
  <2>2. Tracks(proc[p])
    BY <2>1 DEF Turn, Undone
  <2>3. \/ SyncList(p) \/ SyncDept(p) \/ SyncSaveDept(p) \/ SyncDeptsDone(p)
        \/ SyncListStaff(p) \/ NextDept(p) \/ SyncPerson(p) \/ SyncSavePerson(p)
        \/ SyncBond(p) \/ SyncSaveBond(p)
    BY <1>2, Zenon DEF SyncStep
  <2> QED
    BY <2>2, <2>3, ListTracks, DeptTracks, SaveDeptTracks, DeptsDoneTracks, ListStaffTracks,
       NextDeptTracks, PersonTracks, SavePersonTracks, BondTracks, SaveBondTracks, Zenon
<1> QED
  BY <1>1, <1>2

LEMMA UndoneStays ==
    ASSUME DirectoryTypes, Undone, [DirectoryNext]_dirVars
    PROVE  Undone'
<1>0. RowsOK /\ TasksOK
  BY DEF DirectoryTypes
<1>1. ASSUME DepartmentStep PROVE Undone'
  BY <1>0, <1>1, DepartmentsAside, UndoneElsewhere
<1>2. ASSUME NEW p \in Procs, MemberStep(p) PROVE Undone'
  BY <1>0, <1>2, MembersAside, UndoneElsewhere
<1>3. ASSUME NEW p \in Procs, SyncStep(p), UNCHANGED directory PROVE Undone'
  BY <1>0, <1>3, SyncTypes, SyncTracks, UndoneTurn
<1>4. ASSUME NEW p \in Procs, SyncEnd(p) PROVE Undone'
  <2>1. ~At(p, "idle") /\ Ends(p)
    BY <1>4 DEF SyncEnd, At
  <2>2. Turn(p) /\ proc'[p] = Idle
    BY <1>0, <2>1, EndsTask
  <2>3. ~Alone(p)'
    BY <2>2, IdleIsNoTask DEF Alone, At
  <2> QED
    BY <1>0, <2>2, <2>3, UndoneTurn
<1>5. ASSUME DirectoryChanges PROVE Undone'
  <2>1. Elsewhere
    BY <1>5 DEF DirectoryChanges, Elsewhere
  <2> QED
    BY <1>0, <2>1, UndoneElsewhere
<1>6. ASSUME UNCHANGED dirVars PROVE Undone'
  <2>1. UNCHANGED <<users, bonds, depts, directory, proc>>
    BY <1>6 DEF dirVars, vars
  <2>2. \A p \in Procs : (Alone(p)' <=> Alone(p)) /\ (At(p, "idle")' <=> At(p, "idle"))
    BY <2>1 DEF Alone, At
  <2>3. ASSUME NEW w, Tracks(w) PROVE Tracks(w)'
    <3>1. \A s, n : Mapped(s, n)' <=> Mapped(s, n)
      BY <2>1, MappedSame
    <3>2. \A i : Listed(i)' = Listed(i)
      BY <2>1, ListedSame
    <3>3. DeptInHand(w)' <=> DeptInHand(w)
      BY <2>1, <3>2, Zenon DEF DeptInHand
    <3>4. Everyone' = Everyone /\ \A e : Done(e)' <=> Done(e)
      BY <2>1, EveryoneSame, DoneSame
    <3>5. \A e : InHand(w, e)' <=> InHand(w, e)
      BY <2>1, InHandSame
    <3>6. SeenDone(w)' <=> SeenDone(w)
      BY <3>4, <3>5 DEF SeenDone
    <3>7. AllSeen(w.row, w.pc)' <=> AllSeen(w.row, w.pc)
      BY <2>1 DEF AllSeen
    <3> QED
      BY <2>1, <2>3, <3>1, <3>3, <3>4, <3>6, <3>7 DEF Tracks
  <2> QED
    BY <2>1, <2>2, <2>3 DEF Undone
<1> QED
  BY <1>1, <1>2, <1>3, <1>4, <1>5, <1>6, Zenon DEF DirectoryNext

-----------------------------------------------------------------------------
(***************************************************************************)
(* Once nothing is left to do, every synchronization finds it so.          *)
(***************************************************************************)
LEMMA CalmSame ==
    ASSUME UNCHANGED <<users, bonds, depts, directory>>
    PROVE  /\ AllDone' <=> AllDone
           /\ \A w : Calm(w)' <=> Calm(w)
<1>1. \A i : DepartmentMirrored(i)' <=> DepartmentMirrored(i)
  BY ListedSame
<1>2. Everyone' = Everyone /\ \A e : Done(e)' <=> Done(e)
  BY EveryoneSame, DoneSame
<1>3. \A s, n : Mapped(s, n)' <=> Mapped(s, n)
  BY MappedSame
<1>4. \A d : GetByDingTalkUserID(d)' = GetByDingTalkUserID(d)
  BY FoundSame
<1>5. AllDone' <=> AllDone
  BY <1>1, <1>2 DEF AllDone
<1>6. \A w : Calm(w)' <=> Calm(w)
  BY <1>2, <1>3, <1>4 DEF Calm
<1> QED
  BY <1>5, <1>6

LEMMA CalmLike ==
    ASSUME NEW w, NEW v, Calm(w), v.pc = w.pc, v.row = w.row, v.user = w.user
    PROVE  Calm(v)
BY DEF Calm

LEMMA CalmKept ==
    ASSUME TasksOK, AllCalm, UNCHANGED <<users, bonds, depts, directory>>,
           NEW q \in Procs, Kept(q)
    PROVE  ~At(q, "idle")' => Calm(proc[q])'
<1> SUFFICES ASSUME ~At(q, "idle")' PROVE Calm(proc[q])'
  OBVIOUS
<1>1. PICK w, v : w = proc[q] /\ v = proc'[q]
  OBVIOUS
<1>2. v.pc = w.pc /\ (~At(q, "idle") => v.row = w.row /\ v.user = w.user)
  BY <1>1, KeptTask
<1>3. ~At(q, "idle")
  BY <1>1, <1>2 DEF At
<1>4. Calm(w)
  BY <1>1, <1>3 DEF AllCalm
<1>5. Calm(v)
  BY <1>2, <1>3, <1>4, CalmLike
<1> QED
  BY <1>1, <1>5, CalmSame

LEMMA CalmTurn ==
    ASSUME TasksOK, AllCalm, UNCHANGED <<users, bonds, depts, directory>>,
           NEW p \in Procs, Turn(p), ~At(p, "idle")' => Calm(proc[p])'
    PROVE  AllCalm'
<1>1. \A q \in Procs \ {p} : ~At(q, "idle")' => Calm(proc[q])'
  BY CalmKept DEF Turn
<1>2. AllDone'
  BY CalmSame DEF AllCalm
<1> QED
  BY <1>1, <1>2 DEF AllCalm

LEMMA CalmElsewhere ==
    ASSUME TasksOK, AllCalm, UNCHANGED <<users, bonds, depts, directory>>, Elsewhere
    PROVE  AllCalm'
<1>1. CASE Disturbs
  <2>1. \A q \in Procs : Kept(q)
    BY <1>1, DisturbsIs DEF Kept
  <2>2. \A q \in Procs : ~At(q, "idle")' => Calm(proc[q])'
    BY <2>1, CalmKept
  <2>3. AllDone'
    BY CalmSame DEF AllCalm
  <2> QED
    BY <2>2, <2>3 DEF AllCalm
<1>2. ASSUME NEW p \in Procs, Aside(p) PROVE AllCalm'
  <2>1. ~At(p, "idle")' => Calm(proc[p])'
    <3> SUFFICES ASSUME ~At(p, "idle")' PROVE Calm(proc[p])'
      OBVIOUS
    <3>1. proc'[p].pc \in {"saveMoved", "count", "delete"}
      BY <1>2, IdleIsNoTask DEF Aside, At
    <3> QED
      BY <3>1 DEF Calm, SyncLabels
  <2> QED
    BY <1>2, <2>1, CalmTurn DEF Aside
<1> QED
  BY <1>1, <1>2 DEF Elsewhere

\* The department that comes next is here, and has the parent that is wanted.
LEMMA NothingWanted ==
    ASSUME RowsOK, TasksOK, AllDone, NEW p \in Procs, Calm(proc[p]), SyncDept(p),
           NEW d, d = GetByDingTalkDeptID(SyncOrg, Current(p).id)
    PROVE  /\ d # 0 /\ Wanted(p, d) = depts[d]
           /\ Sync(p).listed = directory /\ d = Listed(Sync(p).done + 1)
           /\ Sync(p).done < Len(directory) /\ DepartmentMirrored(Sync(p).done + 1)
<1>1. At(p, "depts") /\ More(p)
  BY Zenon DEF SyncDept
<1>2. proc[p].pc = "depts" /\ proc[p].pc \in SyncLabels \ {"list"}
  BY <1>1 DEF At, SyncLabels
<1>3. PICK s, n, m : s = Sync(p) /\ n = s.done /\ m = s.map
  OBVIOUS
<1>4. s \in Carrying /\ n \in Nat /\ m \in Maps /\ FarAs(s, "depts")
  BY <1>2, <1>3, SyncIs
<1>5. s.listed \in {directory, <<>>} /\ Mapped(s, n)
  BY <1>2, <1>3 DEF Calm, Sync
<1>6. s.listed = directory /\ n < Len(directory)
  <2>1. n < Len(s.listed)
    BY <1>1, <1>3 DEF More
  <2>2. CASE s.listed = <<>>
    BY <1>4, <2>1, <2>2
  <2> QED
    BY <1>5, <2>1, <2>2
<1>7. n + 1 \in DOMAIN directory
  BY <1>4, <1>6, DirectoryIs
<1>8. PICK c : c = directory[n + 1]
  OBVIOUS
<1>9. Current(p) = c /\ d = Listed(n + 1)
  BY <1>3, <1>6, <1>8 DEF Current, Listed, GetByDingTalkDeptID
<1>10. DepartmentMirrored(n + 1)
  BY <1>7 DEF AllDone
<1>11. PICK row : row = depts[d]
  OBVIOUS
<1>12. /\ d # 0 /\ (c.parent = 0 => row.parent = 0)
       /\ \A j \in 1 .. n : directory[j].id = c.parent => row.parent = Listed(j)
  <2>1. (n + 1) - 1 = n
    BY <1>4
  <2> QED
    BY <1>8, <1>9, <1>10, <1>11, <2>1 DEF DepartmentMirrored
<1>13. row \in DeptRow
  BY <1>9, <1>11, <1>12, DeptFound DEF RowsOK
<1>14. ParentIn(m, c.parent, row) = row.parent
  <2>1. CASE c.parent = 0
    BY <1>12, <2>1 DEF ParentIn
  <2>2. CASE c.parent # 0 /\ c.parent \in DOMAIN m
    <3>1. PICK j \in 1 .. n : directory[j].id = c.parent
      BY <1>3, <1>4, <1>6, <2>2 DEF FarAs, IdsTo
    <3>2. m[c.parent] = Listed(j)
      BY <1>3, <1>5, <3>1 DEF Mapped
    <3> QED
      BY <1>12, <2>2, <3>1, <3>2 DEF ParentIn
  <2>3. CASE c.parent # 0 /\ c.parent \notin DOMAIN m
    BY <2>3 DEF ParentIn
  <2> QED
    BY <2>1, <2>2, <2>3
<1>15. Wanted(p, d) = row
  <2>1. Wanted(p, d) = [row EXCEPT !.parent = ParentIn(m, c.parent, row)]
    BY <1>3, <1>9, <1>11, <1>12, Zenon DEF Wanted
  <2>2. [row EXCEPT !.parent = row.parent] = row
    BY <1>13 DEF DeptRow
  <2> QED
    BY <1>14, <2>1, <2>2
<1> QED
  BY <1>3, <1>6, <1>9, <1>10, <1>11, <1>12, <1>15

LEMMA CalmDept ==
    ASSUME RowsOK, TasksOK, AllDone, NEW p \in Procs, Calm(proc[p]), SyncDept(p)
    PROVE  Calm(proc'[p])
<1>1. At(p, "depts") /\ More(p)
  BY Zenon DEF SyncDept
<1>2. /\ proc[p].pc \in {"depts", "saveDept"} /\ proc[p].pc \in SyncLabels \ {"list"}
      /\ ~At(p, "idle") /\ proc[p].pc = "depts"
  BY <1>1 DEF At, SyncLabels
<1>0. PICK d : d = GetByDingTalkDeptID(SyncOrg, Current(p).id)
  OBVIOUS
<1>3. PICK s, n : s = Sync(p) /\ n = s.done
  OBVIOUS
<1>4. /\ d # 0 /\ Wanted(p, d) = depts[d] /\ s.listed = directory /\ d = Listed(n + 1)
      /\ n < Len(directory) /\ DepartmentMirrored(n + 1)
  BY <1>0, <1>3, NothingWanted
<1>5. DeptDone(p, d)
  <2>1. DeptDone(p, d) \/ ~(d # 0 /\ Wanted(p, d) = depts[d])
    BY <1>0, DeptGoes
  <2> QED
    BY <1>4, <2>1
<1>6. d \in Nat \ {0}
  BY <1>4, ListedIs
<1>7. PICK w :
         /\ Went(p, w) /\ w.pc = "depts" /\ w.row.listed = s.listed
         /\ w.row.done = n + 1 /\ w.row.map = With(s.map, Current(p).id, d)
  BY <1>1, <1>2, <1>3, <1>5, <1>6, DeptDoneGoes
<1>8. n \in Nat /\ s.map \in Maps /\ DOMAIN s.map = IdsTo(directory, n)
  BY <1>2, <1>3, <1>4, SyncIs DEF FarAs
<1>9. Mapped(s, n)
  BY <1>2, <1>3 DEF Calm, Sync
<1>10. PICK m, i, t : m = s.map /\ i = directory[n + 1].id /\ t = w.row
  OBVIOUS
<1>11. t.map = With(m, i, d)
  BY <1>3, <1>4, <1>7, <1>10 DEF Current
<1>12. PICK f : f = With(m, i, d)
  OBVIOUS
<1>13. f[i] = d /\ \A k \in DOMAIN m \ {i} : f[k] = m[k]
  BY <1>12 DEF With
<1>14. Mapped(t, n + 1)
  <2> SUFFICES ASSUME NEW j \in 1 .. (n + 1)
               PROVE  t.map[directory[j].id] = Listed(j) /\ DepartmentMirrored(j)
    BY DEF Mapped
  <2>1. CASE j = n + 1
    BY <1>4, <1>10, <1>11, <1>12, <1>13, <2>1
  <2>2. CASE j \in 1 .. n
    <3>1. directory[j].id # i
      <4>1. n + 1 \in DOMAIN directory /\ j \in DOMAIN directory /\ j # n + 1
        BY <1>4, <1>8, <2>2, DirectoryIs
      <4> QED
        BY <1>10, <4>1, DirectoryIs
    <3>2. directory[j].id \in DOMAIN m
      BY <1>8, <1>10, <2>2 DEF IdsTo
    <3>3. m[directory[j].id] = Listed(j) /\ DepartmentMirrored(j)
      BY <1>9, <1>10, <2>2 DEF Mapped
    <3> QED
      BY <1>11, <1>12, <1>13, <3>1, <3>2, <3>3
  <2> QED
    BY <1>8, <2>1, <2>2
<1>15. Calm(w)
  BY <1>4, <1>7, <1>10, <1>14 DEF Calm
<1>16. proc'[p] = w
  BY <1>2, <1>7, WentIs
<1> QED
  BY <1>15, <1>16

LEMMA CalmDeptsDone ==
    ASSUME TasksOK, NEW p \in Procs, Calm(proc[p]), SyncDeptsDone(p)
    PROVE  Calm(proc'[p])
<1>1. proc[p].pc = "depts" /\ proc[p].pc \in SyncLabels \ {"list"} /\ ~At(p, "idle")
  BY DEF SyncDeptsDone, At, SyncLabels
<1>2. PICK w : Went(p, w) /\ w.pc = "staff" /\ w.row.listed = Sync(p).listed
  BY DeptsDoneGoes
<1>3. Sync(p).listed \in {directory, <<>>}
  BY <1>1 DEF Calm, Sync
<1>4. Calm(w)
  BY <1>2, <1>3 DEF Calm
<1> QED
  BY <1>1, <1>2, <1>4, WentIs

LEMMA CalmListStaff ==
    ASSUME RowsOK, TasksOK, NEW p \in Procs, Calm(proc[p]), SyncListStaff(p)
    PROVE  Calm(proc'[p])
<1>0. At(p, "staff")
  BY Zenon DEF SyncListStaff
<1>1. proc[p].pc = "staff" /\ proc[p].pc \in SyncLabels \ {"list"} /\ ~At(p, "idle")
  BY <1>0 DEF At, SyncLabels
<1>2. PICK w : \E st \in {StaffNow(Current(p).id), {}} :
         /\ Went(p, w) /\ w.pc = "people"
         /\ w.row.listed = Sync(p).listed /\ w.row.staff = Unseen(st, Sync(p).seen)
  BY ListStaffGoes
<1>3. Sync(p).listed \in {directory, <<>>}
  BY <1>1 DEF Calm, Sync
<1>4. StaffNow(Current(p).id) \subseteq Everyone
  BY StaffNowIs
<1>5. w.row.staff \subseteq Everyone
  BY <1>2, <1>4 DEF Unseen
<1>6. Calm(w)
  BY <1>2, <1>3, <1>5 DEF Calm
<1> QED
  BY <1>1, <1>2, <1>6, WentIs

LEMMA CalmNextDept ==
    ASSUME TasksOK, NEW p \in Procs, Calm(proc[p]), NextDept(p)
    PROVE  Calm(proc'[p])
<1>0. At(p, "people")
  BY Zenon DEF NextDept
<1>1. proc[p].pc = "people" /\ proc[p].pc \in SyncLabels \ {"list"} /\ ~At(p, "idle")
  BY <1>0 DEF At, SyncLabels
<1>2. PICK w : Went(p, w) /\ w.pc = "staff" /\ w.row.listed = Sync(p).listed
  BY NextDeptGoes
<1>3. Sync(p).listed \in {directory, <<>>}
  BY <1>1 DEF Calm, Sync
<1>4. Calm(w)
  BY <1>2, <1>3 DEF Calm
<1> QED
  BY <1>1, <1>2, <1>4, WentIs

\* Everybody's account has what the directory knows.
LEMMA CalmPerson ==
    ASSUME RowsOK, TasksOK, AllDone, NEW p \in Procs, Calm(proc[p]), SyncPerson(p)
    PROVE  Calm(proc'[p])
<1>0. At(p, "people")
  BY Zenon DEF SyncPerson
<1>1. proc[p].pc = "people" /\ proc[p].pc \in SyncLabels \ {"list"} /\ ~At(p, "idle")
  BY <1>0 DEF At, SyncLabels
<1>2. PICK s : s = Sync(p)
  OBVIOUS
<1>3. s.listed \in {directory, <<>>} /\ s.staff \subseteq Everyone
  BY <1>1, <1>2 DEF Calm, Sync
<1>4. PICK w, u : \E e \in s.staff :
              /\ Went(p, w)
              /\ u = GetByDingTalkUserID(e.who) /\ w.user = u
              /\ w.pc = IF u # 0 /\ Account(e, u) = users[u] THEN "person" ELSE "savePerson"
              /\ w.row.listed = s.listed /\ w.row.staff = s.staff \ {e}
  BY <1>2, PersonGoes
<1>5. PICK e \in s.staff :
              /\ Went(p, w)
              /\ u = GetByDingTalkUserID(e.who) /\ w.user = u
              /\ w.pc = IF u # 0 /\ Account(e, u) = users[u] THEN "person" ELSE "savePerson"
              /\ w.row.listed = s.listed /\ w.row.staff = s.staff \ {e}
  BY <1>4
<1>6. e \in Everyone /\ e \in Staff
  BY <1>3, EveryoneIs
<1>7. u # 0 /\ Told(users[u], e)
  BY <1>5, <1>6 DEF AllDone, Done, Brought
<1>8. Account(e, u) = users[u]
  BY <1>5, <1>6, <1>7, AccountTold
<1>9. w.pc = "person"
  BY <1>5, <1>7, <1>8
<1>10. Calm(w)
  BY <1>3, <1>5, <1>6, <1>9 DEF Calm
<1> QED
  BY <1>1, <1>5, <1>10, WentIs

\* And everybody is a member with a department.
LEMMA CalmBond ==
    ASSUME RowsOK, TasksOK, AllDone, NEW p \in Procs, Calm(proc[p]), SyncBond(p)
    PROVE  Calm(proc'[p])
<1>0. At(p, "person")
  BY Zenon DEF SyncBond
<1>1. proc[p].pc = "person" /\ proc[p].pc \in SyncLabels \ {"list"} /\ ~At(p, "idle")
  BY <1>0 DEF At, SyncLabels
<1>2. PICK s, u : s = Sync(p) /\ u = proc[p].user
  OBVIOUS
<1>3. PICK b : b = GetByOrgAndUser(SyncOrg, u)
  OBVIOUS
<1>4. s.listed \in {directory, <<>>} /\ s.staff \subseteq Everyone
  BY <1>1, <1>2 DEF Calm, Sync
<1>5. PICK e \in Everyone : u = GetByDingTalkUserID(e.who)
  BY <1>1, <1>2 DEF Calm
<1>6. b # 0 /\ bonds[b].dept # 0
  <2>1. PersonMirrored(e.who)
    BY DEF AllDone, Done
  <2>2. HasDept(u)
    BY <1>5, <2>1, MirroredIs
  <2> QED
    BY <1>3, <2>2 DEF HasDept
<1>7. Membership(p, b) = bonds[b]
  BY <1>0, <1>2, <1>3, <1>6, MembershipIs
<1>8. PICK w :
         /\ Went(p, w)
         /\ w.pc = IF b # 0 /\ Membership(p, b) = bonds[b] THEN "people" ELSE "saveMember"
         /\ w.row.listed = s.listed /\ w.row.staff = s.staff
  BY <1>2, <1>3, BondGoes
<1>9. Calm(w)
  BY <1>4, <1>6, <1>7, <1>8 DEF Calm
<1> QED
  BY <1>1, <1>8, <1>9, WentIs

LEMMA CalmList ==
    ASSUME RowsOK, TasksOK, NEW p \in Procs, SyncList(p)
    PROVE  Calm(proc'[p])
<1>1. PICK w : \E l \in {directory, <<>>} :
         Went(p, w) /\ w.pc = "depts" /\ w.row.listed = l /\ w.row.done = 0
  BY ListGoes
<1>2. Mapped(w.row, w.row.done)
  BY <1>1 DEF Mapped
<1>3. Calm(w)
  BY <1>1, <1>2 DEF Calm
<1>4. ~At(p, "idle")
  BY DEF SyncList, At
<1> QED
  BY <1>1, <1>3, <1>4, WentIs

LEMMA CalmSync ==
    ASSUME RowsOK, TasksOK, AllCalm, NEW p \in Procs, SyncStep(p), UNCHANGED directory
    PROVE  UNCHANGED tables /\ AllCalm'
<1>1. SyncStart(p) \/ (~At(p, "idle") /\ Calm(proc[p]))
  BY SyncTurns DEF AllCalm, Onward
<1>2. ~SyncSaveDept(p) /\ ~SyncSavePerson(p) /\ ~SyncSaveBond(p)
  BY <1>1 DEF SyncStart, SyncSaveDept, SyncSavePerson, SyncSaveBond, At, Calm
<1>3. UNCHANGED <<unmoved, depts>>
  BY <1>2, Zenon DEF SyncStep, SyncStart, SyncList, SyncDept, SyncDeptsDone, SyncListStaff,
         NextDept, SyncPerson, SyncBond
<1>4. UNCHANGED tables /\ UNCHANGED <<users, bonds, depts, directory>>
  BY <1>3 DEF unmoved, tables
<1>5. Calm(proc'[p])
  <2>1. CASE SyncStart(p)
    <3>1. proc'[p].pc = "list"
      BY <2>1, StartsSync DEF At
    <3> QED
      BY <3>1 DEF Calm
  <2>2. ASSUME ~SyncStart(p) PROVE Calm(proc'[p])
    <3>1. AllDone /\ Calm(proc[p])
      BY <1>1, <2>2 DEF AllCalm
    <3>2. \/ SyncList(p) \/ SyncDept(p) \/ SyncDeptsDone(p) \/ SyncListStaff(p)
          \/ NextDept(p) \/ SyncPerson(p) \/ SyncBond(p)
      BY <1>2, <2>2, Zenon DEF SyncStep
    <3> QED
      BY <3>1, <3>2, CalmList, CalmDept, CalmDeptsDone, CalmListStaff, CalmNextDept,
         CalmPerson, CalmBond, Zenon
  <2> QED
    BY <2>1, <2>2
<1>6. PICK v : v = proc'[p]
  OBVIOUS
<1>7. Calm(v)' <=> Calm(v)
  BY <1>4, CalmSame
<1>8. Calm(proc[p])'
  BY <1>5, <1>6, <1>7
<1> QED
  BY <1>4, <1>8, SyncTypes, CalmTurn

\* An undisturbed synchronization that has come to its end has done it all.
LEMMA EndsDone ==
    ASSUME RowsOK, TasksOK, Undone, NEW p \in Procs, SyncEnd(p), proc[p].alone
    PROVE  AllCalm'
<1>1. At(p, "staff") /\ ~More(p) /\ Ends(p) /\ UNCHANGED <<unmoved, depts, directory>>
  BY DEF SyncEnd
<1>2. proc[p].pc = "staff" /\ proc[p].pc \in SyncLabels \ {"list"} /\ ~At(p, "idle")
  BY <1>1 DEF At, SyncLabels
<1>3. Tracks(proc[p]) /\ \A q \in Procs \ {p} : At(q, "idle")
  BY <1>2 DEF Undone, Alone
<1>4. PICK x, s, n : x = proc[p] /\ s = Sync(p) /\ n = s.done
  OBVIOUS
<1>5. /\ x.row = s /\ s.listed = directory /\ Mapped(s, Len(directory)) /\ n \in Nat
      /\ AllSeen(s, "staff") /\ SeenDone(x) /\ n <= Len(directory)
  BY <1>2, <1>3, <1>4, TracksIs, SyncIs
<1>6. n = Len(directory) /\ DOMAIN directory = 1 .. n
  BY <1>1, <1>4, <1>5, DirectoryIs DEF More
<1>7. \A j \in DOMAIN directory : DepartmentMirrored(j)
  BY <1>5, <1>6 DEF Mapped
<1>8. ASSUME NEW e \in Everyone PROVE Done(e)
  <2>1. PICK j \in DOMAIN directory : e \in directory[j].staff
    BY DEF Everyone
  <2>2. e.who \in s.seen
    BY <1>4, <1>5, <1>6, <2>1 DEF AllSeen
  <2> QED
    BY <1>2, <1>4, <1>5, <2>2 DEF SeenDone
<1>9. AllDone
  BY <1>7, <1>8 DEF AllDone
<1>10. AllDone'
  BY <1>1, <1>9, CalmSame DEF unmoved
<1>11. Turn(p) /\ proc'[p] = Idle
  BY <1>1, <1>2, EndsTask
<1>12. \A q \in Procs : At(q, "idle")'
  BY <1>3, <1>11, KeptTask, IdleIsNoTask DEF Turn, At
<1> QED
  BY <1>10, <1>12 DEF AllCalm

LEMMA SettledStill ==
    ASSUME Unsettles
    PROVE  settled' => settled /\ UNCHANGED tables
BY Zenon DEF Unsettles

LEMMA CalmStays ==
    ASSUME DirectoryTypes, Undone, NothingToDo, [DirectoryNext]_dirVars
    PROVE  NothingToDo'
<1>0. RowsOK /\ TasksOK
  BY DEF DirectoryTypes
<1>1. ASSUME DepartmentStep, Unsettles, UNCHANGED directory PROVE NothingToDo'
  <2>1. settled' => AllCalm /\ UNCHANGED <<users, bonds, depts, directory>>
    BY <1>1, SettledStill DEF tables, NothingToDo
  <2> QED
    BY <1>0, <1>1, <2>1, DepartmentsAside, CalmElsewhere DEF NothingToDo
<1>2. ASSUME NEW p \in Procs, MemberStep(p), Unsettles, UNCHANGED directory
      PROVE  NothingToDo'
  <2>1. settled' => AllCalm /\ UNCHANGED <<users, bonds, depts, directory>>
    BY <1>2, SettledStill DEF tables, NothingToDo
  <2> QED
    BY <1>0, <1>2, <2>1, MembersAside, CalmElsewhere DEF NothingToDo
<1>3. ASSUME NEW p \in Procs, SyncStep(p), Unsettles, UNCHANGED directory
      PROVE  NothingToDo'
  <2>1. settled' => AllCalm
    BY <1>3, SettledStill DEF NothingToDo
  <2> QED
    BY <1>0, <1>3, <2>1, CalmSync DEF NothingToDo
<1>4. ASSUME NEW p \in Procs, SyncEnd(p) PROVE NothingToDo'
  <2>1. ~At(p, "idle") /\ Ends(p) /\ UNCHANGED <<users, bonds, depts, directory>>
    BY <1>4 DEF SyncEnd, At, unmoved
  <2>2. CASE settled
    <3>1. AllCalm
      BY <2>2 DEF NothingToDo
    <3>2. Turn(p) /\ proc'[p] = Idle
      BY <1>0, <2>1, EndsTask
    <3>3. At(p, "idle")'
      BY <3>2, IdleIsNoTask DEF At
    <3> QED
      BY <1>0, <2>1, <3>1, <3>2, <3>3, CalmTurn DEF NothingToDo
  <2>3. CASE proc[p].alone
    BY <1>0, <1>4, <2>3, EndsDone DEF NothingToDo
  <2>4. CASE ~settled /\ ~proc[p].alone
    BY <1>4, <2>4 DEF SyncEnd, NothingToDo
  <2> QED
    BY <2>2, <2>3, <2>4
<1>5. ASSUME DirectoryChanges PROVE NothingToDo'
  BY <1>5 DEF DirectoryChanges, NothingToDo
<1>6. ASSUME UNCHANGED dirVars PROVE NothingToDo'
  <2>1. UNCHANGED <<users, bonds, depts, directory, proc, settled>>
    BY <1>6 DEF dirVars, vars
  <2>2. AllCalm' <=> AllCalm
    BY <2>1, CalmSame DEF AllCalm, At
  <2> QED
    BY <2>1, <2>2 DEF NothingToDo
<1> QED
  BY <1>1, <1>2, <1>3, <1>4, <1>5, <1>6, Zenon DEF DirectoryNext

-----------------------------------------------------------------------------
(***************************************************************************)
(* Together they are inductive.                                            *)
(***************************************************************************)
DirectoryIInv == DirectoryTypes /\ Undone /\ NothingToDo

LEMMA DirectoryInitHolds == DirectoryInit => DirectoryIInv
<1> SUFFICES ASSUME DirectoryInit PROVE DirectoryIInv
  OBVIOUS
<1>1. proc = [p \in Procs |-> Idle] /\ settled = FALSE
  BY Zenon DEF DirectoryInit, Init
<1>2. Undone
  BY <1>1, IdleIsNoTask DEF Undone, Alone, At
<1>3. NothingToDo
  BY <1>1 DEF NothingToDo
<1> QED
  BY <1>2, <1>3, TypesInit DEF DirectoryIInv

LEMMA DirectoryHolds == DirectorySpec => []DirectoryIInv
<1>1. DirectoryIInv /\ [DirectoryNext]_dirVars => DirectoryIInv'
  BY TypesStay, UndoneStays, CalmStays DEF DirectoryIInv
<1> QED
  BY <1>1, DirectoryInitHolds, PTL DEF DirectorySpec

\* For any directory, tables and interleaving: after an undisturbed
\* synchronization every department and everyone in it is here, until somebody
\* changes something.
THEOREM SyncAlwaysMirrors == DirectorySpec => []SyncMirrors
<1>1. DirectoryIInv => SyncMirrors
  <2> SUFFICES ASSUME AllDone, NEW i \in DOMAIN directory
               PROVE  /\ DepartmentMirrored(i)
                      /\ \A e \in directory[i].staff : PersonMirrored(e.who)
    BY DEF SyncMirrors, DirectoryIInv, NothingToDo, AllCalm
  <2> QED
    BY DEF AllDone, Done, Everyone
<1> QED
  BY <1>1, DirectoryHolds, PTL

\* And another one changes nothing, whatever it overlaps with.
THEOREM ResyncIsAlwaysIdle == DirectorySpec => ResyncIsIdle
<1>1. DirectoryIInv /\ [DirectoryNext]_dirVars
         => [settled /\ (\E p \in Procs : SyncStep(p)) => UNCHANGED tables]_dirVars
  <2> SUFFICES ASSUME DirectoryIInv, [DirectoryNext]_dirVars, settled, ~UNCHANGED dirVars,
                      NEW p \in Procs, SyncStep(p)
               PROVE  UNCHANGED tables
    OBVIOUS
  <2>1. RowsOK /\ TasksOK /\ AllCalm
    BY DEF DirectoryIInv, DirectoryTypes, NothingToDo
  <2>2. CASE UNCHANGED directory
    BY <2>1, <2>2, CalmSync
  <2>3. CASE directory' # directory
    <3>1. DirectoryChanges
      BY <2>3, Zenon DEF DirectoryNext, SyncEnd, dirVars
    <3> QED
      BY <3>1 DEF DirectoryChanges, unmoved, tables
  <2> QED
    BY <2>2, <2>3
<1> QED
  BY <1>1, DirectoryHolds, PTL DEF DirectorySpec, ResyncIsIdle
=============================================================================
