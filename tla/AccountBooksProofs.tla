------------------------- MODULE AccountBooksProofs -------------------------
(***************************************************************************)
(* The books of Account: what lots, positions, freezes and cash say of each *)
(* other, proved with the sums they compare.                               *)
(***************************************************************************)
EXTENDS AccountProofs, FiniteSetTheorems

(* Sums of integers over finite sets. *)

(* Of any finite sets, one contains no other. *)
LEMMA SmallestSet ==
    ASSUME NEW S, IsFiniteSet(S), NEW T, T \subseteq SUBSET S, T # {}
    PROVE  \E s \in T : \A u \in T : u \subseteq s => u = s
<1>1. IsWellFoundedOn(StrictSubsetOrdering(S), SUBSET S)
  BY FS_StrictSubsetOrderingWellFounded, FS_FiniteSubsetsOfFinite
<1>2. PICK s \in T : \A u \in T : ~ (<<u, s>> \in StrictSubsetOrdering(S))
  BY <1>1, WFMin
<1>3. ASSUME NEW u \in T, u \subseteq s, u # s PROVE FALSE
  <2>1. <<u, s>> \in (SUBSET S) \X (SUBSET S) OBVIOUS
  <2>2. <<u, s>> \in StrictSubsetOrdering(S) BY <1>3, <2>1 DEF StrictSubsetOrdering
  <2> QED BY <1>2, <2>2
<1> QED BY <1>3

(* The recursive function behind SumOver. *)
One(s) == CHOOSE x \in s : TRUE

Sums(g, f, S) ==
    g = [s \in SUBSET S |-> IF s = {} THEN 0 ELSE f[One(s)] + g[s \ {One(s)}]]

LEMMA SumUnfolded ==
    ASSUME NEW f, NEW S
    PROVE  SumOver(f, S) = (CHOOSE g : Sums(g, f, S))[S]
  BY DEF SumOver, SumFunctionOnSet, FoldFunctionOnSet, MapThenFoldSet, Sums, One

LEMMA OneOf == ASSUME NEW s, s # {} PROVE One(s) \in s
  BY DEF One

LEMMA SumsAt ==
    ASSUME NEW g, NEW f, NEW S, Sums(g, f, S), NEW s \in SUBSET S
    PROVE  g[s] = IF s = {} THEN 0 ELSE f[One(s)] + g[s \ {One(s)}]
  BY DEF Sums

LEMMA SumsUnique ==
    ASSUME NEW f, NEW S, IsFiniteSet(S), NEW T, NEW g, NEW h,
           Sums(g, f, S), Sums(h, f, T), NEW s, s \subseteq S, s \subseteq T
    PROVE  g[s] = h[s]
<1> DEFINE bad == {u \in SUBSET (S \cap T) : g[u] # h[u]}
<1>1. SUFFICES ASSUME bad # {} PROVE FALSE
  OBVIOUS
<1>2. PICK u \in bad : \A v \in bad : v \subseteq u => v = u
  <2>1. bad \subseteq SUBSET S OBVIOUS
  <2> HIDE DEF bad
  <2> QED BY <1>1, <2>1, SmallestSet
<1>3. u # {} BY <1>2, SumsAt
<1>4. One(u) \in u BY <1>3, OneOf
<1>5. g[u \ {One(u)}] = h[u \ {One(u)}] BY <1>2, <1>4
<1>6. g[u] = f[One(u)] + g[u \ {One(u)}] BY <1>3, SumsAt
<1>7. h[u] = f[One(u)] + h[u \ {One(u)}] BY <1>3, SumsAt
<1> QED BY <1>5, <1>6, <1>7

LEMMA SumsExist ==
    ASSUME NEW f, NEW S, IsFiniteSet(S)
    PROVE  \E g : Sums(g, f, S)
<1> DEFINE bad == {u \in SUBSET S : \A g : ~ Sums(g, f, u)}
<1>1. SUFFICES ASSUME bad # {} PROVE FALSE
  OBVIOUS
<1>2. PICK u \in bad : \A v \in bad : v \subseteq u => v = u
  <2>1. bad \subseteq SUBSET S OBVIOUS
  <2> HIDE DEF bad
  <2> QED BY <1>1, <2>1, SmallestSet
<1> DEFINE of(v) == CHOOSE g : Sums(g, f, v)
           rest(v) == v \ {One(v)}
           G == [v \in SUBSET u |-> IF v = {} THEN 0 ELSE f[One(v)] + of(rest(v))[rest(v)]]
<1>3. \A v \in SUBSET u : v # {} => Sums(of(rest(v)), f, rest(v)) /\ IsFiniteSet(rest(v))
  <2>1. SUFFICES ASSUME NEW v \in SUBSET u, v # {}
                 PROVE  Sums(of(rest(v)), f, rest(v)) /\ IsFiniteSet(rest(v))
    OBVIOUS
  <2>2. One(v) \in v BY <2>1, OneOf
  <2>3. rest(v) \subseteq u /\ rest(v) # u BY <2>2
  <2>4. rest(v) \notin bad BY <1>2, <2>3
  <2>5. rest(v) \in SUBSET S BY <1>2
  <2>6. \E g : Sums(g, f, rest(v)) BY <2>4, <2>5
  <2>7. IsFiniteSet(rest(v)) BY <2>5, FS_Subset
  <2> HIDE DEF rest
  <2> QED BY <2>6, <2>7
<1>4. ASSUME NEW v \in SUBSET u, v # {}
      PROVE  G[rest(v)] = of(rest(v))[rest(v)]
  <2>1. rest(v) \in SUBSET u OBVIOUS
  <2>2. Sums(of(rest(v)), f, rest(v)) /\ IsFiniteSet(rest(v)) BY <1>3, <1>4
  <2>3. CASE rest(v) = {}
    <3> HIDE DEF of
    <3> QED BY <2>1, <2>2, <2>3, SumsAt
  <2>4. CASE rest(v) # {}
    <3> DEFINE w == rest(v)
    <3>1. w \in SUBSET u /\ w # {} /\ Sums(of(w), f, w) /\ IsFiniteSet(w) BY <2>2, <2>4
    <3> HIDE DEF w
    <3>2. Sums(of(rest(w)), f, rest(w)) /\ IsFiniteSet(rest(w)) BY <1>3, <3>1
    <3>3. rest(w) \subseteq w OBVIOUS
    <3> HIDE DEF of
    <3>4. of(w)[rest(w)] = of(rest(w))[rest(w)]
      <4> HIDE DEF rest
      <4> QED BY <3>1, <3>2, <3>3, SumsUnique
    <3>5. of(w)[w] = f[One(w)] + of(w)[rest(w)] BY <3>1, SumsAt
    <3>6. G[w] = f[One(w)] + of(rest(w))[rest(w)] BY <3>1
    <3>7. G[w] = of(w)[w]
      <4> HIDE DEF G, rest
      <4> QED BY <3>4, <3>5, <3>6
    <3> QED BY <3>7 DEF w
  <2> QED BY <2>3, <2>4
<1>5. Sums(G, f, u)
  <2>1. \A v \in SUBSET u : v # {} => of(rest(v))[rest(v)] = G[rest(v)]
    BY <1>4
  <2>2. G = [v \in SUBSET u |-> IF v = {} THEN 0 ELSE f[One(v)] + G[rest(v)]]
    <3>1. \A v \in SUBSET u : G[v] = IF v = {} THEN 0 ELSE f[One(v)] + G[rest(v)]
      <4>1. SUFFICES ASSUME NEW v \in SUBSET u
                     PROVE  G[v] = IF v = {} THEN 0 ELSE f[One(v)] + G[rest(v)]
        OBVIOUS
      <4>2. G[v] = IF v = {} THEN 0 ELSE f[One(v)] + of(rest(v))[rest(v)] OBVIOUS
      <4>3. v # {} => of(rest(v))[rest(v)] = G[rest(v)] BY <2>1
      <4> HIDE DEF G, of, rest
      <4> QED BY <4>2, <4>3
    <3>2. DOMAIN G = SUBSET u /\ G = [v \in DOMAIN G |-> G[v]] OBVIOUS
    <3> HIDE DEF G, rest
    <3> QED BY <3>1, <3>2
  <2> HIDE DEF G
  <2> QED BY <2>2 DEF Sums
<1>6. u \in SUBSET S /\ \A g : ~ Sums(g, f, u) BY <1>2
<1> HIDE DEF G
<1> QED BY <1>5, <1>6

LEMMA SumEmpty == ASSUME NEW f PROVE SumOver(f, {}) = 0
<1>1. IsFiniteSet({}) BY FS_EmptySet
<1>2. Sums(CHOOSE g : Sums(g, f, {}), f, {}) BY <1>1, SumsExist
<1> QED BY <1>2, SumsAt, SumUnfolded

(* The equation of the recursion. *)
LEMMA SumOne ==
    ASSUME NEW f, NEW S, IsFiniteSet(S), S # {}
    PROVE  /\ One(S) \in S
           /\ SumOver(f, S) = f[One(S)] + SumOver(f, S \ {One(S)})
<1> DEFINE R == S \ {One(S)}
           g == CHOOSE h : Sums(h, f, S)
           k == CHOOSE h : Sums(h, f, R)
<1>1. IsFiniteSet(R) BY FS_Subset
<1>2. Sums(g, f, S) BY SumsExist
<1>3. Sums(k, f, R)
  <2> HIDE DEF R
  <2> QED BY <1>1, SumsExist
<1>4. SumOver(f, S) = g[S] /\ SumOver(f, R) = k[R]
  BY SumUnfolded
<1>5. R \subseteq S OBVIOUS
<1>6. g[R] = k[R]
  <2> HIDE DEF R, g, k
  <2> QED BY <1>1, <1>2, <1>3, <1>5, SumsUnique
<1>7. g[S] = f[One(S)] + g[R]
  <2> HIDE DEF g
  <2> QED BY <1>2, SumsAt
<1>8. One(S) \in S BY OneOf
<1> HIDE DEF g, k
<1> QED BY <1>4, <1>6, <1>7, <1>8

LEMMA SumType ==
    ASSUME NEW f, NEW S, IsFiniteSet(S), \A x \in S : f[x] \in Int
    PROVE  SumOver(f, S) \in Int
<1> DEFINE bad == {u \in SUBSET S : SumOver(f, u) \notin Int}
<1>1. SUFFICES ASSUME bad # {} PROVE FALSE
  OBVIOUS
<1>2. PICK u \in bad : \A v \in bad : v \subseteq u => v = u
  <2>1. bad \subseteq SUBSET S OBVIOUS
  <2> HIDE DEF bad
  <2> QED BY <1>1, <2>1, SmallestSet
<1>3. u # {} BY SumEmpty
<1>4. IsFiniteSet(u) BY FS_Subset
<1>5. One(u) \in u /\ SumOver(f, u) = f[One(u)] + SumOver(f, u \ {One(u)})
  BY <1>3, <1>4, SumOne
<1>6. SumOver(f, u \ {One(u)}) \in Int BY <1>2, <1>5
<1>7. f[One(u)] \in Int BY <1>5
<1> QED BY <1>5, <1>6, <1>7

(* The order of the additions does not matter. *)
LEMMA SumWithout ==
    ASSUME NEW f, NEW S, IsFiniteSet(S), \A x \in S : f[x] \in Int, NEW x \in S
    PROVE  /\ SumOver(f, S) = f[x] + SumOver(f, S \ {x})
           /\ SumOver(f, S \ {x}) \in Int
<1> DEFINE bad == {u \in SUBSET S :
                     \E y \in u : SumOver(f, u) # f[y] + SumOver(f, u \ {y})}
<1>0. SumOver(f, S \ {x}) \in Int
  <2>1. IsFiniteSet(S \ {x}) BY FS_Subset
  <2> QED BY <2>1, SumType
<1>1. SUFFICES ASSUME bad # {} PROVE FALSE
  BY <1>0
<1>2. PICK u \in bad : \A v \in bad : v \subseteq u => v = u
  <2>1. bad \subseteq SUBSET S OBVIOUS
  <2> HIDE DEF bad
  <2> QED BY <1>1, <2>1, SmallestSet
<1>3. PICK y \in u : SumOver(f, u) # f[y] + SumOver(f, u \ {y})
  OBVIOUS
<1> DEFINE c == One(u)
<1>4. IsFiniteSet(u) /\ u \subseteq S BY FS_Subset
<1>5. c \in u /\ SumOver(f, u) = f[c] + SumOver(f, u \ {c})
  BY <1>3, <1>4, SumOne
<1> HIDE DEF c
<1>6. y # c BY <1>3, <1>5
<1>7. u \ {c} \notin bad /\ u \ {y} \notin bad BY <1>2, <1>5, <1>3
<1>8. SumOver(f, u \ {c}) = f[y] + SumOver(f, (u \ {c}) \ {y})
  BY <1>3, <1>4, <1>6, <1>7
<1>9. SumOver(f, u \ {y}) = f[c] + SumOver(f, (u \ {y}) \ {c})
  BY <1>4, <1>5, <1>6, <1>7
<1>10. (u \ {c}) \ {y} = (u \ {y}) \ {c} OBVIOUS
<1>11. f[c] \in Int /\ f[y] \in Int BY <1>3, <1>4, <1>5
<1>12. SumOver(f, (u \ {c}) \ {y}) \in Int
  <2>1. IsFiniteSet((u \ {c}) \ {y}) BY <1>4, FS_Subset
  <2>2. \A z \in (u \ {c}) \ {y} : f[z] \in Int BY <1>4
  <2> QED BY <2>1, <2>2, SumType
<1> HIDE DEF bad
<1>13. \A m, n, k \in Int : m + (n + k) = n + (m + k) OBVIOUS
<1>14. SumOver(f, u) = f[c] + (f[y] + SumOver(f, (u \ {c}) \ {y}))
  BY <1>5, <1>8
<1>15. SumOver(f, u \ {y}) = f[c] + SumOver(f, (u \ {c}) \ {y})
  BY <1>9, <1>10
<1>16. SumOver(f, u) = f[y] + SumOver(f, u \ {y})
  BY <1>11, <1>12, <1>13, <1>14, <1>15
<1> QED BY <1>3, <1>16

(* A sum over fewer indices, when the function is zero at the others.          *)
LEMMA SumPadded ==
    ASSUME NEW S, IsFiniteSet(S), NEW T, T \subseteq S, NEW f, NEW g,
           \A x \in T : f[x] \in Int /\ g[x] = f[x],
           \A x \in S \ T : g[x] = 0
    PROVE  SumOver(g, S) = SumOver(f, T)
<1> DEFINE bad == {u \in SUBSET S : SumOver(g, u) # SumOver(f, u \cap T)}
<1>1. SUFFICES ASSUME bad # {} PROVE FALSE
  <2>1. S \cap T = T OBVIOUS
  <2> QED BY <2>1
<1>2. PICK u \in bad : \A v \in bad : v \subseteq u => v = u
  <2>1. bad \subseteq SUBSET S OBVIOUS
  <2> HIDE DEF bad
  <2> QED BY <1>1, <2>1, SmallestSet
<1> DEFINE c == One(u)
<1>3. u # {}
  <2>1. {} \cap T = {} OBVIOUS
  <2> QED BY <1>2, <2>1, SumEmpty
<1>4. IsFiniteSet(u) /\ IsFiniteSet(u \cap T) BY FS_Subset
<1>5. c \in u /\ SumOver(g, u) = g[c] + SumOver(g, u \ {c})
  BY <1>3, <1>4, SumOne
<1> HIDE DEF c
<1>6. SumOver(g, u \ {c}) = SumOver(f, (u \ {c}) \cap T) BY <1>2, <1>5
<1>7. (u \ {c}) \cap T = (u \cap T) \ {c} OBVIOUS
<1>8. \A x \in u \cap T : f[x] \in Int OBVIOUS
<1>9. CASE c \in T
  <2>1. SumOver(f, u \cap T) = f[c] + SumOver(f, (u \cap T) \ {c})
    BY <1>4, <1>5, <1>8, <1>9, SumWithout
  <2> QED BY <1>2, <1>5, <1>6, <1>7, <1>9, <2>1
<1>10. CASE c \notin T
  <2>1. (u \cap T) \ {c} = u \cap T BY <1>10
  <2>2. SumOver(f, u \cap T) \in Int BY <1>4, <1>8, SumType
  <2>3. g[c] = 0 BY <1>5, <1>10
  <2>4. SumOver(g, u) = 0 + SumOver(f, u \cap T) BY <1>5, <1>6, <1>7, <2>1, <2>3
  <2> QED BY <1>2, <2>2, <2>4
<1> QED BY <1>9, <1>10

LEMMA SumSame ==
    ASSUME NEW S, IsFiniteSet(S), NEW f, NEW g, \A x \in S : f[x] \in Int /\ g[x] = f[x]
    PROVE  SumOver(g, S) = SumOver(f, S)
<1>1. S \subseteq S /\ S \ S = {} OBVIOUS
<1> QED BY <1>1, SumPadded

LEMMA SumZero ==
    ASSUME NEW S, IsFiniteSet(S), NEW f, \A x \in S : f[x] = 0
    PROVE  SumOver(f, S) = 0
<1>1. {} \subseteq S /\ S \ {} = S OBVIOUS
<1>2. SumOver(f, S) = SumOver(f, {}) BY <1>1, SumPadded
<1> QED BY <1>2, SumEmpty

(* The sum of a sum of two functions. *)
LEMMA SumPlus ==
    ASSUME NEW S, IsFiniteSet(S), NEW f, NEW g, NEW h,
           \A x \in S : f[x] \in Int /\ g[x] \in Int /\ h[x] = f[x] + g[x]
    PROVE  SumOver(h, S) = SumOver(f, S) + SumOver(g, S)
<1> DEFINE bad == {u \in SUBSET S : SumOver(h, u) # SumOver(f, u) + SumOver(g, u)}
<1>1. SUFFICES ASSUME bad # {} PROVE FALSE
  OBVIOUS
<1>2. PICK u \in bad : \A v \in bad : v \subseteq u => v = u
  <2>1. bad \subseteq SUBSET S OBVIOUS
  <2> HIDE DEF bad
  <2> QED BY <1>1, <2>1, SmallestSet
<1> DEFINE c == One(u)
<1>3. u # {}
  <2>1. SumOver(h, {}) = SumOver(f, {}) + SumOver(g, {}) BY SumEmpty
  <2> QED BY <1>2, <2>1
<1>4. IsFiniteSet(u) /\ u \subseteq S BY FS_Subset
<1>5. c \in u /\ SumOver(h, u) = h[c] + SumOver(h, u \ {c})
  BY <1>3, <1>4, SumOne
<1> HIDE DEF c
<1>6. SumOver(h, u \ {c}) = SumOver(f, u \ {c}) + SumOver(g, u \ {c}) BY <1>2, <1>5
<1>7. /\ SumOver(f, u) = f[c] + SumOver(f, u \ {c}) /\ SumOver(f, u \ {c}) \in Int
      /\ SumOver(g, u) = g[c] + SumOver(g, u \ {c}) /\ SumOver(g, u \ {c}) \in Int
  BY <1>4, <1>5, SumWithout
<1>8. f[c] \in Int /\ g[c] \in Int /\ h[c] = f[c] + g[c] BY <1>4, <1>5
<1>9. SumOver(h, u) # SumOver(f, u) + SumOver(g, u) BY <1>2
<1> HIDE DEF bad
<1> QED BY <1>5, <1>6, <1>7, <1>8, <1>9

LEMMA SumNat ==
    ASSUME NEW S, IsFiniteSet(S), NEW f, \A x \in S : f[x] \in Nat
    PROVE  SumOver(f, S) \in Nat
<1> DEFINE bad == {u \in SUBSET S : SumOver(f, u) \notin Nat}
<1>1. SUFFICES ASSUME bad # {} PROVE FALSE
  OBVIOUS
<1>2. PICK u \in bad : \A v \in bad : v \subseteq u => v = u
  <2>1. bad \subseteq SUBSET S OBVIOUS
  <2> HIDE DEF bad
  <2> QED BY <1>1, <2>1, SmallestSet
<1>3. u # {} BY SumEmpty
<1>4. IsFiniteSet(u) BY FS_Subset
<1>5. One(u) \in u /\ SumOver(f, u) = f[One(u)] + SumOver(f, u \ {One(u)})
  BY <1>3, <1>4, SumOne
<1>6. SumOver(f, u \ {One(u)}) \in Nat BY <1>2, <1>5
<1>7. f[One(u)] \in Nat BY <1>5
<1> QED BY <1>5, <1>6, <1>7

(* No term of a sum of naturals exceeds it. *)
LEMMA SumTerm ==
    ASSUME NEW S, IsFiniteSet(S), NEW f, \A x \in S : f[x] \in Nat, NEW x \in S
    PROVE  f[x] <= SumOver(f, S)
<1>1. \A y \in S : f[y] \in Int OBVIOUS
<1>2. SumOver(f, S) = f[x] + SumOver(f, S \ {x}) BY <1>1, SumWithout
<1>3. SumOver(f, S \ {x}) \in Nat
  <2>1. IsFiniteSet(S \ {x}) BY FS_Subset
  <2> QED BY <2>1, SumNat
<1> QED BY <1>2, <1>3

LEMMA SumMonotone ==
    ASSUME NEW S, IsFiniteSet(S), NEW f, NEW g,
           \A x \in S : f[x] \in Int /\ g[x] \in Int /\ f[x] <= g[x]
    PROVE  /\ SumOver(f, S) \in Int /\ SumOver(g, S) \in Int
           /\ SumOver(f, S) <= SumOver(g, S)
           /\ SumOver(f, S) = SumOver(g, S) => \A x \in S : f[x] = g[x]
<1> DEFINE d == [x \in S |-> g[x] - f[x]]
<1>1. \A x \in S : d[x] \in Nat /\ d[x] \in Int /\ g[x] = f[x] + d[x] OBVIOUS
<1> HIDE DEF d
<1>2. SumOver(g, S) = SumOver(f, S) + SumOver(d, S) BY <1>1, SumPlus
<1>3. SumOver(d, S) \in Nat BY <1>1, SumNat
<1>4. SumOver(f, S) \in Int BY SumType
<1>5. \A x \in S : d[x] <= SumOver(d, S) BY <1>1, SumTerm
<1>6. ASSUME SumOver(f, S) = SumOver(g, S), NEW x \in S PROVE f[x] = g[x]
  <2>1. SumOver(d, S) = 0 BY <1>2, <1>3, <1>4, <1>6
  <2>2. d[x] = 0 BY <1>1, <1>5, <2>1
  <2> QED BY <1>1, <2>2
<1> QED BY <1>2, <1>3, <1>4, <1>6

(* A change of one term. *)
LEMMA SumChanged ==
    ASSUME NEW S, IsFiniteSet(S), NEW f, NEW g, NEW x \in S,
           \A y \in S : f[y] \in Int /\ g[y] \in Int,
           \A y \in S \ {x} : g[y] = f[y]
    PROVE  /\ SumOver(f, S) \in Int /\ SumOver(g, S) \in Int
           /\ SumOver(g, S) = SumOver(f, S) - f[x] + g[x]
<1>1. SumOver(f, S) = f[x] + SumOver(f, S \ {x}) /\ SumOver(f, S \ {x}) \in Int
  <2>1. \A y \in S : f[y] \in Int OBVIOUS
  <2> QED BY <2>1, SumWithout
<1>2. SumOver(g, S) = g[x] + SumOver(g, S \ {x}) /\ SumOver(g, S \ {x}) \in Int
  <2>1. \A y \in S : g[y] \in Int OBVIOUS
  <2> QED BY <2>1, SumWithout
<1>3. SumOver(g, S \ {x}) = SumOver(f, S \ {x})
  <2>1. IsFiniteSet(S \ {x}) BY FS_Subset
  <2> QED BY <2>1, SumSame
<1> QED BY <1>1, <1>2, <1>3
-----------------------------------------------------------------------------
(* The sums the books compare, over the rows of a table. *)

SharesOf(frz, l) == IF frz = Absent THEN 0 ELSE frz.lots[l]

Frozen(table, l) == SumOver([o \in OrderId |-> SharesOf(table[o], l)], OrderId)

Left(table, p) ==
    [l \in LotId |-> IF table[l] # Absent /\ table[l].position = p
                     THEN table[l].remaining ELSE 0]

LEMMA SharesType ==
    ASSUME NEW frz \in Freeze \cup {Absent}, NEW l \in LotId
    PROVE  SharesOf(frz, l) \in Nat
  BY DEF SharesOf, Freeze

LEMMA FrozenForIs ==
    ASSUME NEW table \in [OrderId -> Freeze \cup {Absent}], NEW l \in LotId
    PROVE  /\ SumOver([o \in OrderId |-> table[o].lots[l]],
                      {o \in OrderId : table[o] # Absent}) = Frozen(table, l)
           /\ Frozen(table, l) \in Nat
           /\ \A o \in OrderId : SharesOf(table[o], l) <= Frozen(table, l)
<1> DEFINE f == [o \in OrderId |-> table[o].lots[l]]
           g == [o \in OrderId |-> SharesOf(table[o], l)]
           T == {o \in OrderId : table[o] # Absent}
<1>1. \A o \in OrderId : g[o] \in Nat /\ g[o] = SharesOf(table[o], l)
  BY SharesType
<1>2. \A o \in T : f[o] \in Int /\ g[o] = f[o]
  BY <1>1 DEF SharesOf
<1>3. \A o \in OrderId \ T : g[o] = 0
  BY DEF SharesOf
<1>4. T \subseteq OrderId OBVIOUS
<1>5. Frozen(table, l) = SumOver(g, OrderId) BY DEF Frozen
<1> HIDE DEF f, g, T
<1>6. SumOver(g, OrderId) = SumOver(f, T)
  BY <1>2, <1>3, <1>4, FiniteAssumption, SumPadded
<1>7. SumOver(g, OrderId) \in Nat BY <1>1, FiniteAssumption, SumNat
<1>8. \A o \in OrderId : g[o] <= SumOver(g, OrderId)
  BY <1>1, FiniteAssumption, SumTerm
<1> QED BY <1>1, <1>5, <1>6, <1>7, <1>8 DEF f, T

LEMMA FrozenWritten ==
    ASSUME NEW table \in [OrderId -> Freeze \cup {Absent}], NEW o \in OrderId,
           NEW frz \in Freeze \cup {Absent}, NEW l \in LotId
    PROVE  Frozen([table EXCEPT ![o] = frz], l)
             = Frozen(table, l) - SharesOf(table[o], l) + SharesOf(frz, l)
<1> DEFINE after == [table EXCEPT ![o] = frz]
           f == [i \in OrderId |-> SharesOf(table[i], l)]
           g == [i \in OrderId |-> SharesOf(after[i], l)]
<1>1. \A i \in OrderId : after[i] = IF i = o THEN frz ELSE table[i]
  OBVIOUS
<1>2. \A i \in OrderId : f[i] = SharesOf(table[i], l) /\ g[i] = SharesOf(after[i], l)
  OBVIOUS
<1>3. Frozen(table, l) = SumOver(f, OrderId) /\ Frozen(after, l) = SumOver(g, OrderId)
  BY DEF Frozen
<1> HIDE DEF after, f, g
<1>4. \A i \in OrderId : f[i] \in Int /\ g[i] \in Int
  BY <1>1, <1>2, SharesType
<1>5. \A i \in OrderId \ {o} : g[i] = f[i]
  BY <1>1, <1>2
<1>6. SumOver(g, OrderId) = SumOver(f, OrderId) - f[o] + g[o]
  BY <1>4, <1>5, FiniteAssumption, SumChanged
<1> QED BY <1>1, <1>2, <1>3, <1>6 DEF after

LEMMA LeftIs ==
    ASSUME NEW p PROVE RemainingLots(p) = Left(lot, p)
  BY DEF RemainingLots, LotsOf, Left

LEMMA LeftType ==
    ASSUME TypeOK, LotsWithinBounds, NEW p
    PROVE  /\ \A l \in LotId : Left(lot, p)[l] \in Nat
           /\ SumOver(Left(lot, p), LotId) \in Nat
           /\ \A l \in LotId : Left(lot, p)[l] <= SumOver(Left(lot, p), LotId)
<1>1. \A l \in LotId : Left(lot, p)[l] \in Nat
  BY DEF Left, LotsWithinBounds, TypeOK, Lot
<1> QED BY <1>1, FiniteAssumption, SumNat, SumTerm

(* A sale of what there is takes exactly its quantity. *)
LEMMA TakesAll ==
    ASSUME NEW available, \A l \in LotId : available[l] \in Nat,
           NEW quantity \in Nat, quantity <= SumOver(available, LotId),
           NEW taken \in TakesFifo(available, quantity)
    PROVE  /\ taken \in [LotId -> Nat]
           /\ \A l \in LotId : taken[l] <= available[l]
           /\ \A l, k \in LotId : l < k /\ taken[k] > 0 => taken[l] = available[l]
           /\ SumOver(taken, LotId) = quantity
<1>1. /\ taken \in [LotId -> 0..quantity]
      /\ \A l \in LotId : taken[l] <= available[l]
      /\ \A l, k \in LotId : l < k /\ taken[k] > 0 => taken[l] = available[l]
      /\ \/ SumOver(taken, LotId) = quantity
         \/ SumOver(taken, LotId) < quantity /\ taken = available
  BY DEF TakesFifo
<1>2. taken \in [LotId -> Nat] BY <1>1
<1>3. SumOver(available, LotId) \in Nat BY FiniteAssumption, SumNat
<1>4. ~ (SumOver(available, LotId) < quantity) BY <1>3
<1> QED BY <1>1, <1>2, <1>4

(* What can be sold is left. *)
LEMMA SellableLeft ==
    ASSUME TypeOK, LotsWithinBounds, NEW p
    PROVE  /\ \A l \in LotId : SellableLots(p)[l] \in Nat /\ SellableLots(p)[l] <= Left(lot, p)[l]
           /\ Sellable(p) \in Nat
           /\ Sellable(p) <= SumOver(Left(lot, p), LotId)
<1>1. ASSUME NEW l \in LotId
      PROVE  SellableLots(p)[l] \in Nat /\ SellableLots(p)[l] <= Left(lot, p)[l]
  <2>1. CASE lot[l] # Absent /\ lot[l].position = p
    <3>1. /\ lot[l].remaining \in Nat /\ lot[l].frozen \in 0..lot[l].remaining
      BY <2>1 DEF LotsWithinBounds, TypeOK, Lot
    <3>2. NonNegative(lot[l].remaining - lot[l].frozen) \in 0..lot[l].remaining
      BY <3>1 DEF NonNegative
    <3> QED BY <2>1, <3>1, <3>2 DEF SellableLots, Left, LotsOf
  <2>2. CASE ~ (lot[l] # Absent /\ lot[l].position = p)
    BY <2>2 DEF SellableLots, Left, LotsOf
  <2> QED BY <2>1, <2>2
<1>2. \A l \in LotId : Left(lot, p)[l] \in Nat BY LeftType
<1> QED BY <1>1, <1>2, FiniteAssumption, SumNat, SumMonotone DEF Sellable
-----------------------------------------------------------------------------
(* Shares come into a position as its newest lot, or go out of its lots.       *)

Bought(p, c, n) ==
    /\ position[p] # Absent => position[p].status = "open" /\ position[p].code = c
    /\ position' = [position EXCEPT ![p] =
         [code |-> c, status |-> "open",
          quantity |-> IF position[p] = Absent THEN n ELSE position[p].quantity + n]]
    /\ \E l \in NextLot : lot' = [lot EXCEPT ![l] = NewLot(p, n)]

Sold(p, c, n, taken) ==
    /\ IsOpen(p) /\ position[p].code = c
    /\ position' = [position EXCEPT ![p] =
         [code |-> c, quantity |-> position[p].quantity - n,
          status |-> IF position[p].quantity = n THEN "closed" ELSE "open"]]
    /\ taken \in [LotId -> Nat]
    /\ \A l \in LotId : taken[l] <= Left(lot, p)[l]
    /\ SumOver(taken, LotId) = n
    /\ lot' = LotsAfterSale(taken)

(* Lots are created in order, each on the day before its shares can be sold,   *)
(* and for a position that is there.                                           *)
LotsInOrder ==
    \A l \in LotId : lot[l] # Absent =>
        /\ lot[l].sellableFrom <= today + 1
        /\ \A k \in LotId : k < l =>
             lot[k] # Absent /\ lot[k].sellableFrom <= lot[l].sellableFrom

LotsHavePositions == \A l \in LotId : lot[l] # Absent => position[lot[l].position] # Absent

LotsInv == LotsInOrder /\ LotsHavePositions

(* PositionsMatchLots, whatever was crossed. *)
PositionsFit ==
    \A p \in PositionId : position[p] # Absent =>
        /\ position[p].quantity = SumOver(Left(lot, p), LotId)
        /\ position[p].status = "open" <=> position[p].quantity > 0

LEMMA PositionsFitIs == PositionsMatchLots <=> (~ crossed => PositionsFit)
  BY LeftIs DEF PositionsMatchLots, PositionsFit

(* What a sale leaves of a lot. *)
LEMMA SaleRow ==
    ASSUME NEW row \in Lot, NEW taken \in Nat
    PROVE  /\ LotAfterSale(row, taken).remaining = row.remaining - taken
           /\ LotAfterSale(row, taken).frozen = NonNegative(row.frozen - taken)
           /\ LotAfterSale(row, taken).position = row.position
           /\ LotAfterSale(row, taken).sellableFrom = row.sellableFrom
           /\ LotAfterSale(row, taken) \in Lot
           /\ LotAfterSale(row, taken) # Absent
<1> DEFINE left == [row EXCEPT !.remaining = @ - taken]
<1>1. /\ left \in Lot /\ left.remaining = row.remaining - taken /\ left.frozen = row.frozen
      /\ left.position = row.position /\ left.sellableFrom = row.sellableFrom
  BY DEF Lot
<1>2. LotAfterSale(row, taken) = [left EXCEPT !.frozen = NonNegative(@ - taken)]
  BY DEF LotAfterSale, LotAfterRelease
<1> HIDE DEF left
<1>3. LotAfterSale(row, taken) \in Lot BY LotAfterSaleType
<1> QED BY <1>1, <1>2, <1>3, AbsentAssumption DEF Lot

LEMMA SoldLots ==
    ASSUME TypeOK, LotsWithinBounds, NEW p, NEW taken \in [LotId -> Nat],
           \A l \in LotId : taken[l] <= Left(lot, p)[l],
           lot' = LotsAfterSale(taken), NEW l \in LotId
    PROVE  /\ lot[l] = Absent => taken[l] = 0 /\ lot'[l] = Absent
           /\ lot[l] # Absent =>
                /\ lot'[l] # Absent
                /\ lot'[l].position = lot[l].position
                /\ lot'[l].sellableFrom = lot[l].sellableFrom
                /\ lot'[l].remaining = lot[l].remaining - taken[l]
                /\ lot'[l].frozen = NonNegative(lot[l].frozen - taken[l])
                /\ taken[l] > 0 => lot[l].position = p
<1>1. taken[l] > 0 => lot[l] # Absent /\ lot[l].position = p BY DEF Left
<1>2. lot'[l] = IF taken[l] > 0 THEN LotAfterSale(lot[l], taken[l]) ELSE lot[l]
  BY DEF LotsAfterSale
<1>3. taken[l] \in Nat OBVIOUS
<1>4. CASE lot[l] = Absent
  BY <1>1, <1>2, <1>3, <1>4
<1>5. CASE lot[l] # Absent /\ taken[l] > 0
  <2>1. lot[l] \in Lot BY <1>5 DEF TypeOK
  <2> QED BY <1>1, <1>2, <1>3, <1>5, <2>1, SaleRow
<1>6. CASE lot[l] # Absent /\ ~ (taken[l] > 0)
  <2>1. taken[l] = 0 BY <1>3, <1>6
  <2>2. lot[l].remaining \in Int /\ lot[l].frozen \in Nat
    BY <1>6 DEF TypeOK, Lot, LotsWithinBounds
  <2>3. lot[l].remaining - 0 = lot[l].remaining /\ NonNegative(lot[l].frozen - 0) = lot[l].frozen
    BY <2>2 DEF NonNegative
  <2> QED BY <1>2, <1>6, <2>1, <2>3
<1> QED BY <1>4, <1>5, <1>6

LEMMA BoughtLots ==
    ASSUME TypeOK, NEW p \in PositionId, NEW c \in Code, NEW n \in Nat, Bought(p, c, n)
    PROVE  \E k \in LotId :
             /\ lot[k] = Absent
             /\ \A i \in LotId : i < k => lot[i] # Absent
             /\ lot'[k] = NewLot(p, n)
             /\ NewLot(p, n) # Absent
             /\ \A i \in LotId \ {k} : lot'[i] = lot[i]
<1>1. PICK k \in NextLot : lot' = [lot EXCEPT ![k] = NewLot(p, n)]
  BY DEF Bought
<1>2. /\ k \in LotId /\ lot[k] = Absent
      /\ \A i \in LotId : i < k => lot[i] # Absent
  BY DEF NextLot
<1>3. lot \in [LotId -> Lot \cup {Absent}] BY DEF TypeOK
<1>4. NewLot(p, n) \in Lot BY AccountAssumption DEF TypeOK, NewLot, Lot
<1>5. NewLot(p, n) # Absent BY <1>4, AbsentAssumption
<1> QED BY <1>1, <1>2, <1>3, <1>5

LEMMA BoughtRow ==
    ASSUME TypeOK, NEW p \in PositionId, NEW c \in Code, NEW n \in Nat, Bought(p, c, n),
           NEW q \in PositionId
    PROVE  IF q = p
           THEN /\ position'[q] # Absent
                /\ position'[q].code = c
                /\ position'[q].status = "open"
                /\ position'[q].quantity = IF position[q] = Absent THEN n
                                           ELSE position[q].quantity + n
           ELSE position'[q] = position[q]
<1> DEFINE quantity == IF position[p] = Absent THEN n ELSE position[p].quantity + n
           row == [code |-> c, status |-> "open", quantity |-> quantity]
<1>1. quantity \in Int BY DEF TypeOK, Position
<1> HIDE DEF quantity
<1>2. row \in Position BY <1>1 DEF Position
<1>3. position' = [position EXCEPT ![p] = row] BY DEF Bought, quantity
<1> QED BY <1>2, <1>3, AbsentAssumption DEF TypeOK, quantity

(* A purchase keeps the order of the lots. *)
LEMMA BoughtKeepsLotsInv ==
    ASSUME TypeOK, LotsInv, NEW p \in PositionId, NEW c \in Code, NEW n \in Nat, Bought(p, c, n),
           today' = today
    PROVE  LotsInv'
<1>1. PICK k \in LotId :
        /\ lot[k] = Absent
        /\ \A i \in LotId : i < k => lot[i] # Absent
        /\ lot'[k] = NewLot(p, n)
        /\ NewLot(p, n) # Absent
        /\ \A i \in LotId \ {k} : lot'[i] = lot[i]
  BY BoughtLots
<1>2. NewLot(p, n).sellableFrom = today + 1 /\ NewLot(p, n).position = p
  BY DEF NewLot
<1>3. LotsInOrder'
  <2>1. SUFFICES ASSUME NEW l \in LotId, lot'[l] # Absent
                 PROVE  /\ lot'[l].sellableFrom <= today + 1
                        /\ \A i \in LotId : i < l =>
                             lot'[i] # Absent /\ lot'[i].sellableFrom <= lot'[l].sellableFrom
    BY DEF LotsInOrder
  <2>2. CASE l = k
    <3>1. today + 1 \in Int BY AccountAssumption DEF TypeOK
    <3>2. \A i \in LotId : i < k => i # k BY AccountAssumption
    <3>3. \A i \in LotId : i < k => lot[i] # Absent /\ lot[i].sellableFrom <= today + 1
      BY <1>1 DEF LotsInv, LotsInOrder
    <3> QED BY <1>1, <1>2, <2>2, <3>1, <3>2, <3>3
  <2>3. CASE l # k
    <3>1. lot[l] # Absent /\ lot'[l] = lot[l] BY <1>1, <2>1, <2>3
    <3>2. \A i \in LotId : i < l =>
            lot[i] # Absent /\ lot[i].sellableFrom <= lot[l].sellableFrom
      BY <3>1 DEF LotsInv, LotsInOrder
    <3>3. \A i \in LotId : i < l => i # k BY <1>1, <3>2
    <3> QED BY <1>1, <3>1, <3>2, <3>3 DEF LotsInv, LotsInOrder
  <2> QED BY <2>2, <2>3
<1>4. LotsHavePositions'
  <2>1. SUFFICES ASSUME NEW l \in LotId, lot'[l] # Absent
                 PROVE  position'[lot'[l].position] # Absent
    BY DEF LotsHavePositions
  <2>2. CASE lot'[l].position = p BY <2>2, BoughtRow
  <2>3. CASE lot'[l].position # p
    <3>1. lot[l] # Absent /\ lot'[l] = lot[l] BY <1>1, <1>2, <2>1, <2>3
    <3>2. position[lot[l].position] # Absent BY <3>1 DEF LotsInv, LotsHavePositions
    <3>3. lot[l].position \in PositionId BY <3>1 DEF TypeOK, Lot
    <3> QED BY <2>3, <3>1, <3>2, <3>3, BoughtRow
  <2> QED BY <2>2, <2>3
<1> QED BY <1>3, <1>4 DEF LotsInv

(* A purchase adds the same to the position and to its lots. *)
LEMMA BoughtKeepsPositions ==
    ASSUME TypeOK, LotsWithinBounds, LotsInv, PositionsFit,
           NEW p \in PositionId, NEW c \in Code, NEW n \in Nat \ {0}, Bought(p, c, n)
    PROVE  PositionsFit'
<1>1. n \in Nat OBVIOUS
<1>2. PICK k \in LotId :
        /\ lot[k] = Absent
        /\ lot'[k] = NewLot(p, n)
        /\ NewLot(p, n) # Absent
        /\ \A i \in LotId \ {k} : lot'[i] = lot[i]
  BY <1>1, BoughtLots
<1>3. NewLot(p, n).position = p /\ NewLot(p, n).remaining = n
  BY DEF NewLot
<1>4. ASSUME NEW q \in PositionId
      PROVE  /\ SumOver(Left(lot, q), LotId) \in Nat
             /\ SumOver(Left(lot', q), LotId)
                  = SumOver(Left(lot, q), LotId) + IF q = p THEN n ELSE 0
  <2>1. /\ \A l \in LotId : Left(lot, q)[l] \in Int
        /\ SumOver(Left(lot, q), LotId) \in Nat
    BY LeftType
  <2>2. Left(lot, q)[k] = 0 BY <1>2 DEF Left
  <2>3. Left(lot', q)[k] = IF q = p THEN n ELSE 0 BY <1>2, <1>3 DEF Left
  <2>4. \A l \in LotId \ {k} : Left(lot', q)[l] = Left(lot, q)[l] BY <1>2 DEF Left
  <2>5. \A l \in LotId : Left(lot, q)[l] \in Int /\ Left(lot', q)[l] \in Int
    BY <2>1, <2>3, <2>4
  <2>6. SumOver(Left(lot', q), LotId)
          = SumOver(Left(lot, q), LotId) - Left(lot, q)[k] + Left(lot', q)[k]
    BY <2>4, <2>5, FiniteAssumption, SumChanged
  <2> QED BY <2>1, <2>2, <2>3, <2>6
<1>5. SUFFICES ASSUME NEW q \in PositionId, position'[q] # Absent
               PROVE  /\ position'[q].quantity = SumOver(Left(lot', q), LotId)
                      /\ position'[q].status = "open" <=> position'[q].quantity > 0
  BY DEF PositionsFit
<1>6. CASE q # p
  <2>1. position'[q] = position[q] BY <1>6, BoughtRow, <1>1
  <2> QED BY <1>4, <1>5, <1>6, <2>1 DEF PositionsFit
<1>7. CASE q = p /\ position[p] = Absent
  <2>1. \A l \in LotId : Left(lot, p)[l] = 0
    BY <1>7 DEF Left, LotsInv, LotsHavePositions
  <2>2. SumOver(Left(lot, p), LotId) = 0 BY <2>1, FiniteAssumption, SumZero
  <2>3. position'[p].quantity = n /\ position'[p].status = "open"
    BY <1>1, <1>7, BoughtRow
  <2> QED BY <1>4, <1>7, <2>2, <2>3
<1>8. CASE q = p /\ position[p] # Absent
  <2>1. position'[p].quantity = position[p].quantity + n /\ position'[p].status = "open"
    BY <1>1, <1>8, BoughtRow
  <2>2. position[p].quantity = SumOver(Left(lot, p), LotId) BY <1>8 DEF PositionsFit
  <2> QED BY <1>4, <1>8, <2>1, <2>2
<1> QED BY <1>6, <1>7, <1>8

(* So does a sale. *)
LEMMA SoldRow ==
    ASSUME TypeOK, NEW p \in PositionId, NEW c \in Code, NEW n \in Nat, NEW taken,
           Sold(p, c, n, taken), NEW q \in PositionId
    PROVE  IF q = p
           THEN /\ position'[q] # Absent
                /\ position'[q].code = c
                /\ position'[q].quantity = position[q].quantity - n
                /\ position'[q].status = IF position[q].quantity = n THEN "closed" ELSE "open"
           ELSE position'[q] = position[q]
<1> DEFINE row == [code |-> c, quantity |-> position[p].quantity - n,
                   status |-> IF position[p].quantity = n THEN "closed" ELSE "open"]
<1>1. position[p] \in Position BY DEF TypeOK, Sold, IsOpen
<1>2. row \in Position BY <1>1 DEF Position
<1>3. position' = [position EXCEPT ![p] = row] BY DEF Sold
<1> QED BY <1>2, <1>3, AbsentAssumption DEF TypeOK

LEMMA SoldKeepsLotsInv ==
    ASSUME TypeOK, LotsWithinBounds, LotsInv, NEW p \in PositionId, NEW taken \in [LotId -> Nat],
           \A l \in LotId : taken[l] <= Left(lot, p)[l], lot' = LotsAfterSale(taken),
           \A q \in PositionId : position[q] # Absent => position'[q] # Absent,
           today' = today
    PROVE  LotsInv'
<1>1. \A l \in LotId : (lot[l] = Absent) <=> (lot'[l] = Absent)
  BY SoldLots
<1>2. \A l \in LotId : lot[l] # Absent => /\ lot'[l].position = lot[l].position
                                          /\ lot'[l].sellableFrom = lot[l].sellableFrom
  BY SoldLots
<1>3. \A l \in LotId : lot[l] # Absent => lot[l].position \in PositionId
  BY DEF TypeOK, Lot
<1>4. LotsInOrder' BY <1>1, <1>2 DEF LotsInv, LotsInOrder
<1>5. LotsHavePositions' BY <1>1, <1>2, <1>3 DEF LotsInv, LotsHavePositions
<1> QED BY <1>4, <1>5 DEF LotsInv

LEMMA SoldKeepsPositions ==
    ASSUME TypeOK, LotsWithinBounds, PositionsFit,
           NEW p \in PositionId, NEW c \in Code, NEW n \in Nat, NEW taken,
           Sold(p, c, n, taken)
    PROVE  PositionsFit'
<1>1. /\ taken \in [LotId -> Nat]
      /\ \A l \in LotId : taken[l] <= Left(lot, p)[l]
      /\ SumOver(taken, LotId) = n
      /\ lot' = LotsAfterSale(taken)
      /\ position[p] # Absent
  BY DEF Sold, IsOpen
<1>2. \A l \in LotId :
        /\ lot[l] = Absent => taken[l] = 0 /\ lot'[l] = Absent
        /\ lot[l] # Absent =>
             /\ lot'[l] # Absent
             /\ lot'[l].position = lot[l].position
             /\ lot'[l].remaining = lot[l].remaining - taken[l]
             /\ taken[l] > 0 => lot[l].position = p
  BY <1>1, SoldLots
<1>3. ASSUME NEW q \in PositionId, NEW l \in LotId
      PROVE  /\ Left(lot, q)[l] \in Nat
             /\ Left(lot', q)[l] = Left(lot, q)[l] - IF q = p THEN taken[l] ELSE 0
  <2>1. Left(lot, q)[l] \in Nat BY LeftType
  <2>2. taken[l] \in Nat BY <1>1
  <2>3. CASE lot[l] = Absent \/ lot[l].position # q
    <3>1. q = p => taken[l] = 0 BY <1>2, <2>2, <2>3
    <3>2. Left(lot, q)[l] = 0 /\ Left(lot', q)[l] = 0 BY <1>2, <2>3 DEF Left
    <3> QED BY <3>1, <3>2
  <2>4. CASE lot[l] # Absent /\ lot[l].position = q
    <3>1. q # p => taken[l] = 0 BY <1>2, <2>2, <2>4
    <3>2. Left(lot, q)[l] = lot[l].remaining /\ Left(lot', q)[l] = lot[l].remaining - taken[l]
      BY <1>2, <2>4 DEF Left
    <3> QED BY <2>1, <2>2, <3>1, <3>2
  <2> QED BY <2>1, <2>3, <2>4
<1>4. SUFFICES ASSUME NEW q \in PositionId, position'[q] # Absent
               PROVE  /\ position'[q].quantity = SumOver(Left(lot', q), LotId)
                      /\ position'[q].status = "open" <=> position'[q].quantity > 0
  BY DEF PositionsFit
<1>5. CASE q # p
  <2>1. position'[q] = position[q] BY <1>5, SoldRow
  <2>2. \A l \in LotId : Left(lot, q)[l] \in Int /\ Left(lot', q)[l] = Left(lot, q)[l]
    BY <1>3, <1>5
  <2>3. SumOver(Left(lot', q), LotId) = SumOver(Left(lot, q), LotId)
    BY <2>2, FiniteAssumption, SumSame
  <2> QED BY <1>4, <2>1, <2>3 DEF PositionsFit
<1>6. CASE q = p
  <2>1. \A l \in LotId : /\ Left(lot', p)[l] \in Int
                         /\ taken[l] \in Int
                         /\ Left(lot, p)[l] = Left(lot', p)[l] + taken[l]
                         /\ Left(lot', p)[l] \in Nat
    <3>1. SUFFICES ASSUME NEW l \in LotId
                   PROVE  /\ Left(lot', p)[l] \in Nat
                          /\ Left(lot, p)[l] = Left(lot', p)[l] + taken[l]
      BY <1>1
    <3>2. taken[l] \in Nat /\ taken[l] <= Left(lot, p)[l] BY <1>1
    <3> QED BY <1>3, <3>2
  <2>2. SumOver(Left(lot, p), LotId) = SumOver(Left(lot', p), LotId) + n
    BY <1>1, <2>1, FiniteAssumption, SumPlus
  <2>3. SumOver(Left(lot', p), LotId) \in Nat BY <2>1, FiniteAssumption, SumNat
  <2>4. position[p].quantity = SumOver(Left(lot, p), LotId) BY <1>1 DEF PositionsFit
  <2>5. /\ position'[p].quantity = position[p].quantity - n
        /\ position'[p].status = IF position[p].quantity = n THEN "closed" ELSE "open"
    BY SoldRow
  <2> QED BY <1>6, <2>2, <2>3, <2>4, <2>5
<1> QED BY <1>5, <1>6
-----------------------------------------------------------------------------
(* What a market order and a fill of a limit order bring, under what is proved *)
(* of every state.                                                             *)

Grounds == TypeOK /\ LotsWithinBounds /\ OnePositionPerCode /\ OrderInv

LEMMA GroundsHold == Spec => []Grounds
  BY Typing, LotsStayWithinBounds, OnePosition, OrderInvHolds, PTL DEF Grounds

LEMMA WrittenKeepsGrounds ==
    ASSUME Grounds, TypeOK', NEW o \in OrderId, Written(o)
    PROVE  Grounds'
<1> USE DEF Grounds
<1>1. LotsWithinBounds' BY MarketBounded, LimitBounded, ReleaseStepBounded, FillBounded DEF Written
<1>2. ASSUME LimitCommit(o) \/ ReleaseStep(o) PROVE position' = position
  BY <1>2 DEF LimitCommit, CommitLimitOrder, ReleaseStep, CommitRelease
<1>3. OnePositionPerCode'
  BY <1>2, MarketKeepsOne, FillKeepsOne, SamePositionsKeepOne DEF Written
<1>4. OrderInv' BY WrittenKeepsOrderInv
<1> QED BY <1>1, <1>3, <1>4

(* The row a purchase or a sale writes for the position it is of. *)
LEMMA RowAfterPurchase ==
    ASSUME TypeOK, NEW c \in Code, NEW n \in Nat, NEW existing \in ReadOpenPosition(c),
           NEW p \in PositionId,
           p \in IF existing = Absent THEN UnusedPositions ELSE {existing.id}
    PROVE  /\ position[p] # Absent => position[p].status = "open" /\ position[p].code = c
           /\ PositionAfterFill(c, "buy", existing, n)
                = [code |-> c, status |-> "open",
                   quantity |-> IF position[p] = Absent THEN n ELSE position[p].quantity + n]
<1>1. CASE existing = Absent
  <2>1. position[p] = Absent BY <1>1 DEF UnusedPositions
  <2>2. PositionAfterFill(c, "buy", existing, n) = [code |-> c, quantity |-> n, status |-> "open"]
    BY <1>1 DEF PositionAfterFill
  <2> QED BY <2>1, <2>2
<1>2. CASE existing # Absent
  <2>1. /\ p = existing.id /\ IsOpen(p) /\ existing.row = position[p]
        /\ position[p].code = c
    BY <1>2, ReadOpenPositionType DEF OpenPositions
  <2>2. PositionAfterFill(c, "buy", existing, n)
          = [code |-> c, quantity |-> position[p].quantity + n, status |-> "open"]
    BY <1>2, <2>1 DEF PositionAfterFill
  <2> QED BY <2>1, <2>2 DEF IsOpen
<1> QED BY <1>1, <1>2

LEMMA RowAfterSale ==
    ASSUME TypeOK, OnePositionPerCode, NEW c \in Code, NEW n \in Nat,
           NEW existing \in ReadOpenPosition(c),
           NEW p \in PositionId, IsOpen(p), position[p].code = c
    PROVE  /\ existing # Absent
           /\ existing.id = p
           /\ PositionAfterFill(c, "sell", existing, n)
                = [code |-> c, quantity |-> position[p].quantity - n,
                   status |-> IF position[p].quantity = n THEN "closed" ELSE "open"]
<1>1. p \in OpenPositions BY DEF OpenPositions
<1>2. /\ existing # Absent /\ existing.id \in OpenPositions
      /\ existing.row = position[existing.id] /\ existing.row.code = c
  BY <1>1, ReadOpenPositionType
<1>3. existing.id = p BY <1>1, <1>2 DEF OnePositionPerCode
<1>4. position[p].quantity \in Int BY DEF TypeOK, IsOpen, Position
<1>5. position[p].quantity - n = 0 <=> position[p].quantity = n BY <1>4
<1>6. PositionAfterFill(c, "sell", existing, n)
        = [code |-> c, quantity |-> position[p].quantity - n,
           status |-> IF position[p].quantity - n = 0 THEN "closed" ELSE "open"]
  BY <1>2, <1>3 DEF PositionAfterFill
<1> QED BY <1>2, <1>3, <1>5, <1>6

MarketWritten(o, row, p, price, n, taken) ==
    /\ order' = [order EXCEPT ![o] = row]
    /\ row.type = "market"
    /\ ~ IsActive(row)
    /\ freeze' = freeze
    /\ today' = today
    /\ crossed' = (crossed \/ \E l \in LotId : taken[l] > 0 /\ lot[l].frozen > 0)
    /\ cash' = cash + CashDelta(row.side, price, n)
    /\ row.filled = n
    /\ row.side = "buy" => taken = NoLots /\ Bought(p, row.code, n)
    /\ row.side = "sell" /\ n <= SumOver(Left(lot, p), LotId) => Sold(p, row.code, n, taken)

MarketGuarded(row, p, price, n, taken) ==
    /\ row.side = "buy" => AvailableCash >= EstimatedBuyCost(price, n)
    /\ row.side = "sell" =>
         /\ taken \in TakesFifo(Left(lot, p), n)
         /\ n <= Sellable(p)
         /\ n <= SumOver(Left(lot, p), LotId)

(* What the transaction of a market order writes, from reads that still hold. *)
LEMMA MarketCommitted ==
    ASSUME Grounds, NEW o \in OrderId, NEW r \in Request, NEW price \in Price,
           NEW n \in Nat \ {0}, NEW existing \in ReadOpenPosition(r.code),
           r.side = "sell" => existing # Absent,
           CommitMarketFill(o, r, cash, existing, price, n)
    PROVE  \E row \in Order, p \in PositionId, taken \in [LotId -> Nat] :
             /\ MarketWritten(o, row, p, price, n, taken)
             /\ row.side = r.side
             /\ r.side = "sell" => p = existing.id /\ taken \in TakesFifo(Left(lot, p), n)
<1> USE DEF Grounds
<1> DEFINE placed(p) ==
      [code |-> r.code, side |-> r.side, type |-> "market", limit |-> 0,
       quantity |-> r.quantity, filled |-> 0, status |-> "pending",
       opens |-> r.opens, position |-> p, created |-> today, expires |-> 0]
<1>3. PICK p \in IF existing = Absent THEN UnusedPositions ELSE {existing.id},
           taken \in [LotId -> 0..n] :
        /\ order' = [order EXCEPT ![o] =
                       [placed(p) EXCEPT !.filled = n,
                                         !.status = StatusAfterFill(placed(p), n)]]
        /\ position' = [position EXCEPT ![p] =
                          PositionAfterFill(r.code, r.side, existing, n)]
        /\ LotsOfFill(r.side, p, n, taken)
        /\ crossed' = (crossed \/ \E l \in LotId : taken[l] > 0 /\ lot[l].frozen > 0)
        /\ cash' = cash + CashDelta(r.side, price, n)
        /\ UNCHANGED <<freeze, today>>
  BY DEF CommitMarketFill
<1>4. r.code \in Code /\ r.side \in Side /\ r.quantity \in Nat BY DEF Request
<1>5. p \in PositionId
  BY <1>4, ReadOpenPositionType DEF UnusedPositions, OpenPositions
<1>6. taken \in [LotId -> Nat] OBVIOUS
<1>7. PICK status \in {"filled", "partially_filled"} : status = StatusAfterFill(placed(p), n)
  BY DEF StatusAfterFill
<1>8. PICK row \in Order :
        /\ row = [placed(p) EXCEPT !.filled = n, !.status = status]
        /\ row.type = "market" /\ row.side = r.side /\ row.code = r.code
        /\ row.status = status /\ row.filled = n
  <2>1. placed(p) \in Order BY <1>5, MarketRowType
  <2>2. /\ placed(p).type = "market" /\ placed(p).side = r.side /\ placed(p).code = r.code
    OBVIOUS
  <2> HIDE DEF placed
  <2>3. n \in Int /\ status \in OrderStatus BY DEF OrderStatus
  <2>4. [placed(p) EXCEPT !.filled = n, !.status = status] \in Order
    BY <2>1, <2>3, WrittenRowType
  <2> QED BY <2>1, <2>2, <2>4 DEF Order
<1> HIDE DEF placed
<1>9. order' = [order EXCEPT ![o] = row] BY <1>3, <1>7, <1>8
<1>10. ~ IsActive(row) BY <1>8 DEF IsActive
<1>11. ASSUME r.side = "buy" PROVE taken = NoLots /\ Bought(p, r.code, n)
  <2>1. taken = NoLots /\ \E l \in NextLot : lot' = [lot EXCEPT ![l] = NewLot(p, n)]
    BY <1>3, <1>11 DEF LotsOfFill
  <2>2. n \in Nat OBVIOUS
  <2>3. /\ position[p] # Absent => position[p].status = "open" /\ position[p].code = r.code
        /\ PositionAfterFill(r.code, "buy", existing, n)
             = [code |-> r.code, status |-> "open",
                quantity |-> IF position[p] = Absent THEN n ELSE position[p].quantity + n]
    BY <1>4, <1>5, <2>2, RowAfterPurchase
  <2> QED BY <1>3, <1>11, <2>1, <2>3 DEF Bought
<1>12. ASSUME r.side = "sell"
       PROVE  /\ p = existing.id
              /\ taken \in TakesFifo(Left(lot, p), n)
              /\ n <= SumOver(Left(lot, p), LotId) => Sold(p, r.code, n, taken)
  <2>1. /\ p = existing.id /\ IsOpen(p) /\ position[p].code = r.code
    BY <1>3, <1>4, <1>12, ReadOpenPositionType DEF OpenPositions
  <2>2. PositionAfterFill(r.code, "sell", existing, n)
             = [code |-> r.code, quantity |-> position[p].quantity - n,
                status |-> IF position[p].quantity = n THEN "closed" ELSE "open"]
    BY <1>4, <1>5, <2>1, RowAfterSale
  <2>3. taken \in TakesFifo(Left(lot, p), n) /\ lot' = LotsAfterSale(taken)
    BY <1>3, <1>12, LeftIs DEF LotsOfFill
  <2>4. \A l \in LotId : Left(lot, p)[l] \in Nat BY LeftType
  <2>5. ASSUME n <= SumOver(Left(lot, p), LotId) PROVE Sold(p, r.code, n, taken)
    <3>1. n \in Nat OBVIOUS
    <3>2. /\ \A l \in LotId : taken[l] <= Left(lot, p)[l]
          /\ SumOver(taken, LotId) = n
      BY <2>3, <2>4, <2>5, <3>1, TakesAll
    <3> QED BY <1>3, <1>6, <1>12, <2>1, <2>2, <2>3, <3>2 DEF Sold
  <2> QED BY <2>1, <2>3, <2>5
<1>13. MarketWritten(o, row, p, price, n, taken)
  BY <1>3, <1>8, <1>9, <1>10, <1>11, <1>12 DEF MarketWritten
<1> QED BY <1>5, <1>6, <1>8, <1>12, <1>13

LEMMA MarketBooks ==
    ASSUME Grounds, NEW o \in OrderId, MarketStep(o)
    PROVE  \E row \in Order, p \in PositionId, price \in Price, n \in Nat \ {0},
              taken \in [LotId -> Nat] :
                /\ MarketWritten(o, row, p, price, n, taken)
                /\ MarketGuarded(row, p, price, n, taken)
<1> USE DEF Grounds
<1>1. PICK r \in Request, price \in Price, n \in Nat \ {0} :
        /\ n <= r.quantity
        /\ SaleAllowed(r)
        /\ MarketFillAllowed(r, price, n)
        /\ \E existing \in ReadOpenPosition(r.code) :
             CommitMarketFill(o, r, cash, existing, price, n)
  BY DEF MarketStep
<1>2. PICK existing \in ReadOpenPosition(r.code) :
        CommitMarketFill(o, r, cash, existing, price, n)
  BY <1>1
<1>3. r.code \in Code /\ r.quantity \in Nat BY DEF Request
<1>4. ASSUME r.side = "sell" PROVE existing # Absent /\ existing.id = r.target
  <2>1. n \in Nat OBVIOUS
  <2> QED BY <1>1, <1>3, <1>4, <2>1, RowAfterSale DEF SaleAllowed
<1>5. PICK row \in Order, p \in PositionId, taken \in [LotId -> Nat] :
        /\ MarketWritten(o, row, p, price, n, taken)
        /\ row.side = r.side
        /\ r.side = "sell" => p = existing.id /\ taken \in TakesFifo(Left(lot, p), n)
  BY <1>2, <1>4, MarketCommitted
<1>6. ASSUME row.side = "sell"
      PROVE  n <= Sellable(p) /\ n <= SumOver(Left(lot, p), LotId)
  <2>1. r.quantity <= Sellable(p) BY <1>1, <1>4, <1>5, <1>6 DEF SaleAllowed
  <2>2. Sellable(p) \in Nat /\ Sellable(p) <= SumOver(Left(lot, p), LotId) BY SellableLeft
  <2>3. SumOver(Left(lot, p), LotId) \in Nat BY LeftType
  <2> QED BY <1>1, <1>3, <2>1, <2>2, <2>3
<1>7. row.side = "buy" => AvailableCash >= EstimatedBuyCost(price, n)
  BY <1>1, <1>5 DEF MarketFillAllowed, RiskAllowsBuy
<1>8. MarketGuarded(row, p, price, n, taken) BY <1>5, <1>6, <1>7 DEF MarketGuarded
<1> QED BY <1>5, <1>8

FillWritten(o, row, frz, p, price, n, taken) ==
    LET before == order[o]
    IN  /\ order' = [order EXCEPT ![o] = row]
        /\ freeze' = [freeze EXCEPT ![o] = frz]
        /\ today' = today
        /\ cash' = cash + CashDelta(before.side, price, n)
        /\ n <= before.quantity - before.filled
        /\ row.filled = before.filled + n
        /\ row.code = before.code /\ row.side = before.side /\ row.type = before.type
        /\ row.limit = before.limit /\ row.quantity = before.quantity
        /\ row.position = p
        /\ IsActive(row) <=> n < before.quantity - before.filled
        /\ frz = Absent <=> n = before.quantity - before.filled

PurchaseFilled(o, frz, p, n) ==
    LET before == order[o]
    IN  /\ Bought(p, before.code, n)
        /\ crossed' = crossed
        /\ frz # Absent =>
             frz = [cash |-> EstimatedBuyCost(before.limit, before.quantity - before.filled - n),
                    lots |-> NoLots]

SaleFilled(o, frz, p, n, taken) ==
    LET before == order[o]
    IN  /\ before.position # Absent => p = before.position
        /\ taken \in TakesFifo(Left(lot, p), n)
        /\ lot' = LotsAfterSale(taken)
        /\ crossed' = (crossed \/ \E l \in LotId : taken[l] > freeze[o].lots[l])
        /\ frz # Absent =>
             frz = [cash |-> 0,
                    lots |-> [l \in LotId |-> NonNegative(freeze[o].lots[l] - taken[l])]]
        /\ \E existing \in ReadOpenPosition(before.code) :
             position' = [position EXCEPT ![IF existing = Absent THEN p ELSE existing.id] =
                            PositionAfterFill(before.code, "sell", existing, n)]

LEMMA FillBooks ==
    ASSUME Grounds, NEW o \in OrderId, FillStep(o)
    PROVE  /\ order[o] \in Order /\ order[o].type = "limit"
           /\ freeze[o] \in Freeze /\ freeze[o] # Absent
           /\ order[o].filled \in 0..order[o].quantity
           /\ \E row \in Order, frz \in Freeze \cup {Absent}, p \in PositionId,
                 price \in Price, n \in Nat \ {0}, taken \in [LotId -> Nat] :
                /\ FillWritten(o, row, frz, p, price, n, taken)
                /\ Matches(order[o], price)
                /\ order[o].side = "buy" => PurchaseFilled(o, frz, p, n)
                /\ order[o].side = "sell" => SaleFilled(o, frz, p, n, taken)
<1> USE DEF Grounds
<1> DEFINE before == order[o]
<1>1. /\ before \in Order /\ freeze[o] \in Freeze /\ freeze[o] # Absent /\ IsActive(before)
      /\ before.type = "limit" /\ before.filled \in 0..before.quantity
  BY DEF FillStep, IsActive, TypeOK, OrderInv, FreezeWhileActive, OrdersSound, RowSound
<1>2. PICK price \in Price, n \in 1..(before.quantity - before.filled) :
        /\ Matches(before, price)
        /\ \E existing \in ReadOpenPosition(before.code) :
             CommitLimitFill(o, before, cash, existing, freeze[o], price, n)
  BY DEF FillStep
<1>3. /\ n \in Nat \ {0} /\ n <= before.quantity - before.filled
      /\ before.quantity \in Nat /\ before.filled \in Nat
      /\ before.code \in Code /\ before.side \in Side /\ before.limit \in Nat
  BY <1>1, <1>2 DEF Order
<1>4. PICK existing \in ReadOpenPosition(before.code) :
        CommitLimitFill(o, before, cash, existing, freeze[o], price, n)
  BY <1>2
<1>5. PICK p \in IF before.side = "sell" /\ before.position # Absent THEN {before.position}
                ELSE IF existing # Absent THEN {existing.id}
                ELSE IF before.side = "buy" THEN UnusedPositions ELSE {},
           taken \in [LotId -> 0..n] :
        /\ order' = [order EXCEPT ![o] =
                       [before EXCEPT !.filled = @ + n,
                                      !.status = StatusAfterFill(before, n),
                                      !.position = p]]
        /\ position' = [position EXCEPT ![IF existing = Absent THEN p ELSE existing.id] =
                          PositionAfterFill(before.code, before.side, existing, n)]
        /\ LotsOfFill(before.side, p, n, taken)
        /\ freeze' = IF freeze[o] = Absent THEN freeze
                     ELSE [freeze EXCEPT ![o] = FreezeAfterFill(before, freeze[o], n, taken)]
        /\ crossed' = (crossed \/ /\ before.side = "sell"
                                  /\ \E l \in LotId :
                                       taken[l] > (IF freeze[o] = Absent THEN 0
                                                   ELSE freeze[o].lots[l]))
        /\ cash' = cash + CashDelta(before.side, price, n)
        /\ UNCHANGED today
  BY <1>4 DEF CommitLimitFill
<1>6. p \in PositionId
  BY <1>1, <1>3, ReadOpenPositionType DEF UnusedPositions, OpenPositions, Order
<1>7. taken \in [LotId -> Nat] OBVIOUS
<1>8. PICK status \in {"filled", "partially_filled"} :
        /\ status = StatusAfterFill(before, n)
        /\ status = "filled" <=> n = before.quantity - before.filled
  BY <1>3 DEF StatusAfterFill
<1> HIDE DEF before
<1>9. PICK row \in Order :
        /\ row = [before EXCEPT !.filled = @ + n, !.status = status, !.position = p]
        /\ row.filled = before.filled + n /\ row.status = status /\ row.position = p
        /\ row.code = before.code /\ row.side = before.side /\ row.type = before.type
        /\ row.limit = before.limit /\ row.quantity = before.quantity
  <2>1. before.filled + n \in Int /\ status \in OrderStatus BY <1>3 DEF OrderStatus
  <2>2. PICK row : row = [before EXCEPT !.filled = @ + n, !.status = status, !.position = p]
    OBVIOUS
  <2>3. row \in Order BY <1>1, <1>6, <2>1, <2>2 DEF Order
  <2>4. /\ row.filled = before.filled + n /\ row.status = status /\ row.position = p
        /\ row.code = before.code /\ row.side = before.side /\ row.type = before.type
        /\ row.limit = before.limit /\ row.quantity = before.quantity
    BY <1>1, <2>2 DEF Order
  <2> QED BY <2>2, <2>3, <2>4
<1>10. order' = [order EXCEPT ![o] = row] BY <1>5, <1>8, <1>9
<1>11. IsActive(row) <=> n < before.quantity - before.filled
  <2>1. row # Absent BY AbsentAssumption
  <2> QED BY <1>1, <1>3, <1>8, <1>9, <2>1 DEF IsActive
<1>12. PICK frz : frz = FreezeAfterFill(before, freeze[o], n, taken) OBVIOUS
<1>13. frz \in Freeze \cup {Absent}
  <2>1. n \in Nat BY <1>3
  <2> QED BY <1>1, <1>7, <1>12, <2>1, FreezeAfterFillType
<1>14. freeze' = [freeze EXCEPT ![o] = frz] BY <1>1, <1>5, <1>12
<1>15. before.quantity - before.filled - n <= 0 <=> n = before.quantity - before.filled
  BY <1>3
<1> DEFINE bought == [cash |-> EstimatedBuyCost(before.limit, before.quantity - before.filled - n),
                      lots |-> NoLots]
           sold == [cash |-> 0,
                    lots |-> [l \in LotId |-> NonNegative(freeze[o].lots[l] - taken[l])]]
<1>16. frz = IF n = before.quantity - before.filled THEN Absent
             ELSE IF before.side = "buy" THEN bought ELSE sold
  BY <1>1, <1>12, <1>15 DEF FreezeAfterFill
<1>17. bought \in Freeze
  <2>1. EstimatedBuyCost(before.limit, before.quantity - before.filled - n) \in Int
    BY <1>3, CostType
  <2> QED BY <2>1 DEF Freeze, NoLots
<1>18. sold \in Freeze
  <2>1. \A l \in LotId : freeze[o].lots[l] - taken[l] \in Int BY <1>1, <1>7 DEF Freeze
  <2> QED BY <2>1, NonNegativeType DEF Freeze
<1>19. bought # Absent /\ sold # Absent BY <1>17, <1>18, AbsentAssumption
<1> HIDE DEF bought, sold
<1>20. frz = Absent <=> n = before.quantity - before.filled BY <1>16, <1>19
<1>21. FillWritten(o, row, frz, p, price, n, taken)
  BY <1>3, <1>5, <1>9, <1>10, <1>11, <1>14, <1>20 DEF FillWritten, before
<1>22. ASSUME before.side = "buy" PROVE PurchaseFilled(o, frz, p, n)
  <2>1. \E l \in NextLot : lot' = [lot EXCEPT ![l] = NewLot(p, n)]
    BY <1>5, <1>22 DEF LotsOfFill
  <2>2. /\ p \in IF existing = Absent THEN UnusedPositions ELSE {existing.id}
        /\ p = IF existing = Absent THEN p ELSE existing.id
    BY <1>5, <1>22
  <2>3. n \in Nat BY <1>3
  <2>4. /\ position[p] # Absent => position[p].status = "open" /\ position[p].code = before.code
        /\ PositionAfterFill(before.code, "buy", existing, n)
             = [code |-> before.code, status |-> "open",
                quantity |-> IF position[p] = Absent THEN n ELSE position[p].quantity + n]
    BY <1>3, <1>6, <2>2, <2>3, RowAfterPurchase
  <2>5. position' = [position EXCEPT ![p] = PositionAfterFill(before.code, "buy", existing, n)]
    BY <1>5, <1>22, <2>2
  <2>6. Bought(p, before.code, n) BY <2>1, <2>4, <2>5 DEF Bought
  <2>7. crossed' = crossed BY <1>5, <1>22 DEF TypeOK
  <2>8. frz # Absent => frz = bought BY <1>16, <1>22
  <2> QED BY <2>6, <2>7, <2>8 DEF PurchaseFilled, before, bought
<1>23. ASSUME before.side = "sell" PROVE SaleFilled(o, frz, p, n, taken)
  <2>1. taken \in TakesFifo(Left(lot, p), n) /\ lot' = LotsAfterSale(taken)
    BY <1>5, <1>23, LeftIs DEF LotsOfFill
  <2>2. before.position # Absent => p = before.position BY <1>5, <1>23
  <2>3. crossed' = (crossed \/ \E l \in LotId : taken[l] > freeze[o].lots[l])
    BY <1>1, <1>5, <1>23
  <2>4. frz # Absent => frz = sold BY <1>16, <1>23
  <2>5. position' = [position EXCEPT ![IF existing = Absent THEN p ELSE existing.id] =
                       PositionAfterFill(before.code, "sell", existing, n)]
    BY <1>5, <1>23
  <2> QED BY <2>1, <2>2, <2>3, <2>4, <2>5 DEF SaleFilled, before, sold
<1> QED
  BY <1>1, <1>2, <1>3, <1>6, <1>7, <1>9, <1>13, <1>21, <1>22, <1>23 DEF before
-----------------------------------------------------------------------------
(* What else changes the books: a limit order that is placed, and one that     *)
(* ends unfilled.                                                              *)
FreezeFits(row, frz) ==
    frz # Absent =>
        /\ row.side = "buy" =>
             frz = [cash |-> EstimatedBuyCost(row.limit, row.quantity - row.filled),
                    lots |-> NoLots]
        /\ row.side = "sell" => frz.cash = 0 /\ row.position \in PositionId

(* The shares a placement freezes for a sale, while the tables are as it read them. *)
FrozenRight(row, frz) ==
    row.side = "sell" =>
        /\ position[row.position] # Absent /\ position[row.position].code = row.code
        /\ SumOver(frz.lots, LotId) = row.quantity
        /\ \A l \in LotId : frz.lots[l] > 0 => /\ lot[l] # Absent
                                              /\ lot[l].position = row.position
                                              /\ lot[l].sellableFrom <= today

LimitWritten(o, row, frz) ==
    /\ order' = [order EXCEPT ![o] = row]
    /\ freeze' = [freeze EXCEPT ![o] = frz]
    /\ Placed(row)
    /\ IsActive(row)
    /\ FreezeFits(row, frz)
    /\ lot' = [l \in LotId |-> IF frz.lots[l] > 0
                               THEN [lot[l] EXCEPT !.frozen = @ + frz.lots[l]] ELSE lot[l]]
    /\ position' = position /\ today' = today /\ crossed' = crossed /\ cash' = cash

LimitGuarded(row) ==
    row.side = "buy" => AvailableCash >= EstimatedBuyCost(row.limit, row.quantity)

(* What a placement is about to freeze is right when it is read. *)
LEMMA FreezesReadRight ==
    ASSUME TypeOK, NEW r \in Request, SaleAllowed(r),
           NEW row \in LimitOrders(r), NEW frz \in LimitFreezes(row)
    PROVE  /\ row \in Order /\ frz \in Freeze
           /\ Placed(row) /\ IsActive(row)
           /\ FreezeFits(row, frz)
           /\ FrozenRight(row, frz)
           /\ LimitGuarded(row)
<1>1. row \in Order /\ frz \in Freeze
  BY LimitOrderType DEF SaleAllowed
<1>2. /\ row.code = r.code /\ row.side = r.side /\ row.type = "limit" /\ row.limit \in Price
      /\ row.quantity = r.quantity /\ row.filled = 0 /\ row.status = "pending"
      /\ row.position = r.target
  BY DEF LimitOrders
<1>3. row # Absent BY <1>1, AbsentAssumption
<1>4. IsActive(row) BY <1>2, <1>3 DEF IsActive
<1>5. ASSUME row.side = "buy"
      PROVE  /\ frz = [cash |-> EstimatedBuyCost(row.limit, row.quantity), lots |-> NoLots]
             /\ AvailableCash >= EstimatedBuyCost(row.limit, row.quantity)
  <2>1. PICK worth \in [Code -> Price] :
          /\ RiskAllowsBuy(row.code, row.limit, row.quantity, worth)
          /\ frz = [cash |-> EstimatedBuyCost(row.limit, row.quantity), lots |-> NoLots]
    BY <1>5 DEF LimitFreezes
  <2> QED BY <2>1 DEF RiskAllowsBuy
<1>6. ASSUME row.side = "sell"
      PROVE  /\ frz.cash = 0
             /\ row.position \in PositionId
             /\ position[row.position] # Absent /\ position[row.position].code = row.code
             /\ SumOver(frz.lots, LotId) = row.quantity
             /\ \A l \in LotId : frz.lots[l] > 0 => /\ lot[l] # Absent
                                                   /\ lot[l].position = row.position
                                                   /\ lot[l].sellableFrom <= today
  <2>1. /\ row.position \in PositionId /\ position[row.position] # Absent
        /\ position[row.position].code = row.code
    BY <1>2, <1>6 DEF SaleAllowed, IsOpen
  <2>2. PICK taken \in TakesFifo(SellableLots(row.position), row.quantity) :
          SumOver(taken, LotId) = row.quantity /\ frz = [cash |-> 0, lots |-> taken]
    BY <1>6 DEF LimitFreezes
  <2>3. \A l \in LotId : frz.lots[l] <= SellableLots(row.position)[l] BY <2>2 DEF TakesFifo
  <2>4. \A l \in LotId : frz.lots[l] \in Nat BY <1>1 DEF Freeze
  <2>5. \A l \in LotId : frz.lots[l] > 0 => /\ lot[l] # Absent
                                            /\ lot[l].position = row.position
                                            /\ lot[l].sellableFrom <= today
    BY <2>3, <2>4 DEF SellableLots, LotsOf
  <2> QED BY <2>1, <2>2, <2>5
<1>7. row.quantity \in Nat \ {0} /\ row.quantity - row.filled = row.quantity
  BY <1>2 DEF Request
<1>8. Placed(row) BY <1>2, <1>7 DEF Placed
<1>9. FreezeFits(row, frz) BY <1>5, <1>6, <1>7 DEF FreezeFits
<1> QED BY <1>1, <1>4, <1>5, <1>6, <1>8, <1>9 DEF FrozenRight, LimitGuarded

LEMMA LimitBooks ==
    ASSUME Grounds, NEW o \in OrderId, LimitStep(o)
    PROVE  /\ order[o] = Absent /\ freeze[o] = Absent
           /\ \E row \in Order, frz \in Freeze :
                /\ LimitWritten(o, row, frz)
                /\ FrozenRight(row, frz)
                /\ LimitGuarded(row)
<1> USE DEF Grounds
<1>1. order[o] = Absent /\ freeze[o] = Absent
  BY DEF LimitStep, OrderInv, FreezeWhileActive, IsActive
<1>2. PICK r \in Request :
        /\ SaleAllowed(r)
        /\ \E row \in LimitOrders(r) : \E frz \in LimitFreezes(row) : CommitLimitOrder(o, row, frz)
  BY DEF LimitStep
<1>3. PICK row \in LimitOrders(r) : \E frz \in LimitFreezes(row) : CommitLimitOrder(o, row, frz)
  BY <1>2
<1>4. PICK frz \in LimitFreezes(row) : CommitLimitOrder(o, row, frz)
  BY <1>3
<1>5. /\ row \in Order /\ frz \in Freeze /\ Placed(row) /\ IsActive(row)
      /\ FreezeFits(row, frz) /\ FrozenRight(row, frz) /\ LimitGuarded(row)
  BY <1>2, FreezesReadRight
<1>6. LimitWritten(o, row, frz)
  BY <1>4, <1>5 DEF LimitWritten, CommitLimitOrder
<1> QED BY <1>1, <1>5, <1>6

ReleaseWritten(o, row) ==
    /\ order' = [order EXCEPT ![o] = row]
    /\ freeze' = [freeze EXCEPT ![o] = Absent]
    /\ ~ IsActive(row)
    /\ row.side = order[o].side /\ row.type = order[o].type /\ row.limit = order[o].limit
    /\ row.filled = order[o].filled
    /\ lot' = LotsAfterRelease(order[o], freeze[o])
    /\ position' = position /\ today' = today /\ crossed' = crossed /\ cash' = cash

LEMMA ReleaseBooks ==
    ASSUME Grounds, NEW o \in OrderId, ReleaseStep(o)
    PROVE  /\ order[o] \in Order /\ freeze[o] \in Freeze /\ freeze[o] # Absent
           /\ order[o].type = "limit"
           /\ \E row \in Order : ReleaseWritten(o, row)
<1> USE DEF Grounds
<1>1. /\ order[o] \in Order /\ freeze[o] \in Freeze /\ freeze[o] # Absent
      /\ order[o].type = "limit"
  BY DEF ReleaseStep, IsActive, TypeOK, OrderInv, FreezeWhileActive, OrdersSound, RowSound
<1>2. PICK status \in {"cancelled", "expired"} :
        CommitRelease(o, order[o], freeze[o], status)
  BY DEF ReleaseStep
<1>3. PICK row : row = [order[o] EXCEPT !.status = status] OBVIOUS
<1>4. /\ row \in Order /\ row.status = status
      /\ row.side = order[o].side /\ row.type = order[o].type /\ row.limit = order[o].limit
      /\ row.filled = order[o].filled
  BY <1>1, <1>3 DEF Order, OrderStatus
<1>5. ~ IsActive(row) BY <1>4 DEF IsActive
<1>6. freeze' = [freeze EXCEPT ![o] = Absent] BY <1>1, <1>2 DEF CommitRelease
<1>7. ReleaseWritten(o, row)
  BY <1>2, <1>3, <1>4, <1>5, <1>6 DEF ReleaseWritten, CommitRelease
<1> QED BY <1>1, <1>4, <1>7
-----------------------------------------------------------------------------
(* The books.  What BooksAgree and PositionsMatchLots compare follows from an   *)
(* inductive invariant: what a freeze holds is what its order has still to buy   *)
(* or to sell, the shares that freezes hold of a lot are its frozen shares, and  *)
(* those a sale holds are of the position it names and can be sold already.      *)
FreezesFitOrders == \A o \in OrderId : FreezeFits(order[o], freeze[o])

LotsMatchFreezes ==
    \A l \in LotId : Frozen(freeze, l) = IF lot[l] = Absent THEN 0 ELSE lot[l].frozen

SaleBacked(row, frz, positions, lots, day) ==
    frz # Absent /\ row.side = "sell" =>
        /\ SumOver(frz.lots, LotId) = row.quantity - row.filled
        /\ positions[row.position] # Absent
        /\ positions[row.position].code = row.code
        /\ \A l \in LotId : frz.lots[l] > 0 =>
             /\ lots[l] # Absent
             /\ lots[l].position = row.position
             /\ lots[l].sellableFrom <= day

SalesBacked == \A o \in OrderId : SaleBacked(order[o], freeze[o], position, lot, today)

Agreement == PositionsFit /\ LotsMatchFreezes /\ SalesBacked

BooksInv == FreezesFitOrders /\ (~ crossed => LotsInv /\ Agreement)

(* Lots and positions that stay: what a step must leave of them for the lots    *)
(* that other orders froze.                                                    *)
LotStays(before, after) ==
    before # Absent =>
        /\ after # Absent
        /\ after.position = before.position
        /\ after.sellableFrom = before.sellableFrom

RowsStay ==
    /\ \A l \in LotId : LotStays(lot[l], lot'[l])
    /\ \A p \in PositionId : position[p] # Absent =>
         position'[p] # Absent /\ position'[p].code = position[p].code

LEMMA BackingKept ==
    ASSUME TypeOK, TypeOK', RowsStay, today <= today', NEW row \in Order,
           NEW frz \in Freeze \cup {Absent},
           row.position \in PositionId \/ frz = Absent \/ row.side # "sell",
           SaleBacked(row, frz, position, lot, today)
    PROVE  SaleBacked(row, frz, position', lot', today')
<1>1. SUFFICES ASSUME frz # Absent, row.side = "sell"
               PROVE  SaleBacked(row, frz, position', lot', today')
  BY DEF SaleBacked
<1>2. position'[row.position] # Absent /\ position'[row.position].code = row.code
  BY <1>1 DEF SaleBacked, RowsStay
<1>3. ASSUME NEW l \in LotId, frz.lots[l] > 0
      PROVE  lot'[l] # Absent /\ lot'[l].position = row.position /\ lot'[l].sellableFrom <= today'
  <2>1. lot[l] # Absent /\ lot[l].position = row.position /\ lot[l].sellableFrom <= today
    BY <1>1, <1>3 DEF SaleBacked
  <2>2. lot[l].sellableFrom \in Nat /\ today \in Nat /\ today' \in Nat
    BY <2>1, AccountAssumption DEF TypeOK, Lot
  <2> QED BY <2>1, <2>2 DEF RowsStay, LotStays
<1> QED BY <1>1, <1>2, <1>3 DEF SaleBacked

(* The sales that a step which writes the order o leaves backed. *)
LEMMA OthersBacked ==
    ASSUME Grounds, TypeOK', FreezesFitOrders, SalesBacked, RowsStay, today <= today',
           NEW o \in OrderId, NEW row \in Order, NEW frz \in Freeze \cup {Absent},
           order' = [order EXCEPT ![o] = row], freeze' = [freeze EXCEPT ![o] = frz],
           SaleBacked(row, frz, position', lot', today')
    PROVE  SalesBacked'
<1> USE DEF Grounds
<1>1. SUFFICES ASSUME NEW i \in OrderId
               PROVE  SaleBacked(order'[i], freeze'[i], position', lot', today')
  BY DEF SalesBacked
<1>2. CASE i = o
  <2>1. order'[i] = row /\ freeze'[i] = frz BY <1>2 DEF TypeOK
  <2> QED BY <2>1
<1>3. CASE i # o
  <2>1. order'[i] = order[i] /\ freeze'[i] = freeze[i] BY <1>3 DEF TypeOK
  <2>2. SaleBacked(order[i], freeze[i], position, lot, today) BY DEF SalesBacked
  <2>3. CASE freeze[i] = Absent BY <2>1, <2>3 DEF SaleBacked
  <2>4. CASE freeze[i] # Absent
    <3>0. order[i] \in Order
      BY <2>4 DEF Grounds, OrderInv, FreezeWhileActive, IsActive, TypeOK
    <3>1. order[i].side # "sell" \/ order[i].position \in PositionId
      BY <2>4 DEF FreezesFitOrders, FreezeFits
    <3>2. CASE order[i].side # "sell" BY <2>1, <3>2 DEF SaleBacked
    <3>3. CASE order[i].position \in PositionId
      <4>1. freeze[i] \in Freeze \cup {Absent} BY DEF TypeOK
      <4> QED BY <2>1, <2>2, <3>0, <3>3, <4>1, BackingKept DEF Grounds
    <3> QED BY <3>1, <3>2, <3>3
  <2> QED BY <2>3, <2>4
<1> QED BY <1>2, <1>3

(* Order and freeze after such a step, for what only looks at the two.          *)
LEMMA WrittenFits ==
    ASSUME TypeOK, FreezesFitOrders, NEW o \in OrderId, NEW row \in Order,
           NEW frz \in Freeze \cup {Absent},
           order' = [order EXCEPT ![o] = row], freeze' = [freeze EXCEPT ![o] = frz],
           FreezeFits(row, frz)
    PROVE  FreezesFitOrders'
<1>1. ASSUME NEW i \in OrderId PROVE FreezeFits(order'[i], freeze'[i])
  <2>1. CASE i = o
    <3>1. order'[i] = row /\ freeze'[i] = frz BY <2>1 DEF TypeOK
    <3> QED BY <3>1
  <2>2. CASE i # o
    <3>1. order'[i] = order[i] /\ freeze'[i] = freeze[i] BY <2>2 DEF TypeOK
    <3> QED BY <3>1 DEF FreezesFitOrders
  <2> QED BY <2>1, <2>2
<1> QED BY <1>1 DEF FreezesFitOrders

LEMMA LotsInvKept ==
    ASSUME TypeOK, TypeOK', LotsInv, RowsStay, today <= today',
           \A l \in LotId : lot[l] = Absent => lot'[l] = Absent
    PROVE  LotsInv'
<1>1. today \in Nat /\ today' \in Nat BY AccountAssumption DEF TypeOK
<1>2. ASSUME NEW l \in LotId, lot'[l] # Absent
      PROVE  /\ lot'[l].sellableFrom <= today' + 1
             /\ position'[lot'[l].position] # Absent
             /\ \A k \in LotId : k < l =>
                  lot'[k] # Absent /\ lot'[k].sellableFrom <= lot'[l].sellableFrom
  <2>1. lot[l] # Absent BY <1>2
  <2>2. /\ lot[l].sellableFrom <= today + 1
        /\ \A k \in LotId : k < l =>
             lot[k] # Absent /\ lot[k].sellableFrom <= lot[l].sellableFrom
    BY <2>1 DEF LotsInv, LotsInOrder
  <2>3. lot[l].sellableFrom \in Nat /\ lot[l].position \in PositionId
    BY <2>1 DEF TypeOK, Lot
  <2>4. lot'[l].position = lot[l].position /\ lot'[l].sellableFrom = lot[l].sellableFrom
    BY <2>1 DEF RowsStay, LotStays
  <2>5. position'[lot'[l].position] # Absent
    BY <2>1, <2>3, <2>4 DEF LotsInv, LotsHavePositions, RowsStay
  <2>6. ASSUME NEW k \in LotId, k < l
        PROVE  lot'[k] # Absent /\ lot'[k].sellableFrom <= lot'[l].sellableFrom
    BY <2>2, <2>4, <2>6 DEF RowsStay, LotStays
  <2> QED BY <1>1, <2>2, <2>3, <2>4, <2>5, <2>6
<1> QED BY <1>2 DEF LotsInv, LotsInOrder, LotsHavePositions

(* A step that leaves what the lots hold leaves the positions right. *)
LEMMA PositionsKept ==
    ASSUME TypeOK, LotsWithinBounds, PositionsFit, RowsStay, position' = position,
           \A l \in LotId : lot[l] = Absent => lot'[l] = Absent,
           \A l \in LotId : lot[l] # Absent => lot'[l].remaining = lot[l].remaining
    PROVE  PositionsFit'
<1>1. ASSUME NEW p \in PositionId
      PROVE  SumOver(Left(lot', p), LotId) = SumOver(Left(lot, p), LotId)
  <2>1. \A l \in LotId : Left(lot, p)[l] \in Int /\ Left(lot', p)[l] = Left(lot, p)[l]
    <3>1. \A l \in LotId : Left(lot, p)[l] \in Nat BY LeftType
    <3>2. \A l \in LotId : Left(lot', p)[l] = Left(lot, p)[l]
      BY DEF Left, RowsStay, LotStays
    <3> QED BY <3>1, <3>2
  <2> QED BY <2>1, FiniteAssumption, SumSame
<1> QED BY <1>1 DEF PositionsFit

LEMMA BoughtStays ==
    ASSUME TypeOK, NEW p \in PositionId, NEW c \in Code, NEW n \in Nat, Bought(p, c, n)
    PROVE  RowsStay
<1>1. PICK k \in LotId : /\ lot[k] = Absent
                         /\ \A i \in LotId \ {k} : lot'[i] = lot[i]
  BY BoughtLots
<1>2. \A l \in LotId : LotStays(lot[l], lot'[l])
  BY <1>1 DEF LotStays
<1>3. ASSUME NEW q \in PositionId, position[q] # Absent
      PROVE  position'[q] # Absent /\ position'[q].code = position[q].code
  <2>1. CASE q = p
    <3>1. position'[p] # Absent /\ position'[p].code = c BY BoughtRow
    <3> QED BY <1>3, <2>1, <3>1 DEF Bought
  <2>2. CASE q # p
    <3>1. position'[q] = position[q] BY <2>2, BoughtRow
    <3> QED BY <1>3, <3>1
  <2> QED BY <2>1, <2>2
<1> QED BY <1>2, <1>3 DEF RowsStay

LEMMA SoldStays ==
    ASSUME TypeOK, LotsWithinBounds, NEW p \in PositionId, NEW c \in Code, NEW n \in Nat,
           NEW taken, Sold(p, c, n, taken)
    PROVE  RowsStay
<1>1. taken \in [LotId -> Nat] /\ (\A l \in LotId : taken[l] <= Left(lot, p)[l])
      /\ lot' = LotsAfterSale(taken)
  BY DEF Sold
<1>2. \A l \in LotId : LotStays(lot[l], lot'[l])
  BY <1>1, SoldLots DEF LotStays
<1>3. ASSUME NEW q \in PositionId, position[q] # Absent
      PROVE  position'[q] # Absent /\ position'[q].code = position[q].code
  <2>1. CASE q = p
    <3>1. position'[p] # Absent /\ position'[p].code = c BY SoldRow
    <3> QED BY <1>3, <2>1, <3>1 DEF Sold
  <2>2. CASE q # p
    <3>1. position'[q] = position[q] BY <2>2, SoldRow
    <3> QED BY <1>3, <3>1
  <2> QED BY <2>1, <2>2
<1> QED BY <1>2, <1>3 DEF RowsStay

(* The shares frozen of each lot, after a purchase. *)
LEMMA BoughtKeepsFrozen ==
    ASSUME TypeOK, LotsMatchFreezes, NEW p \in PositionId, NEW c \in Code, NEW n \in Nat,
           Bought(p, c, n), \A l \in LotId : Frozen(freeze', l) = Frozen(freeze, l)
    PROVE  LotsMatchFreezes'
<1>1. PICK k \in LotId : /\ lot[k] = Absent
                         /\ lot'[k] = NewLot(p, n) /\ NewLot(p, n) # Absent
                         /\ \A i \in LotId \ {k} : lot'[i] = lot[i]
  BY BoughtLots
<1>2. NewLot(p, n).frozen = 0 BY DEF NewLot
<1>3. ASSUME NEW l \in LotId
      PROVE  Frozen(freeze', l) = IF lot'[l] = Absent THEN 0 ELSE lot'[l].frozen
  BY <1>1, <1>2 DEF LotsMatchFreezes
<1> QED BY <1>3 DEF LotsMatchFreezes

(* A market order leaves the freezes: a purchase adds a lot of which nothing is  *)
(* frozen, and a sale that crosses no other takes from lots that are not frozen.  *)
LEMMA MarketKeepsAgreement ==
    ASSUME Grounds, TypeOK', FreezesFitOrders, LotsInv, Agreement,
           NEW o \in OrderId, freeze[o] = Absent,
           NEW row \in Order, NEW p \in PositionId, NEW price, NEW n \in Nat \ {0},
           NEW taken \in [LotId -> Nat], MarketWritten(o, row, p, price, n, taken),
           row.side = "sell" => n <= SumOver(Left(lot, p), LotId), ~ crossed'
    PROVE  LotsInv' /\ Agreement'
<1> USE DEF Grounds
<1>2. freeze' = [freeze EXCEPT ![o] = Absent]
  BY DEF MarketWritten, TypeOK
<1>3. order' = [order EXCEPT ![o] = row] /\ today' = today /\ freeze' = freeze
      /\ (row.side = "buy" \/ row.side = "sell")
  BY DEF MarketWritten, Order, Side
<1>4. row.side = "buy" => Bought(p, row.code, n)
  BY DEF MarketWritten
<1>5. row.side = "sell" => Sold(p, row.code, n, taken)
  BY DEF MarketWritten
<1>6. row.code \in Code /\ n \in Nat /\ today <= today'
  BY <1>3, AccountAssumption DEF Order, TypeOK
<1>7. RowsStay
  <2>1. CASE row.side = "buy" BY <1>4, <1>6, <2>1, BoughtStays
  <2>2. CASE row.side = "sell" BY <1>5, <1>6, <2>2, SoldStays
  <2> QED BY <1>3, <2>1, <2>2
<1>8. LotsInv'
  <2>1. CASE row.side = "buy"
    BY <1>3, <1>4, <1>6, <2>1, BoughtKeepsLotsInv
  <2>2. CASE row.side = "sell"
    <3>1. taken \in [LotId -> Nat] /\ (\A l \in LotId : taken[l] <= Left(lot, p)[l])
          /\ lot' = LotsAfterSale(taken)
      BY <1>5, <2>2 DEF Sold
    <3>2. \A q \in PositionId : position[q] # Absent => position'[q] # Absent
      BY <1>7 DEF RowsStay
    <3> QED BY <1>3, <3>1, <3>2, SoldKeepsLotsInv
  <2> QED BY <1>3, <2>1, <2>2
<1>10. Agreement'
  <2>1. \A l \in LotId : ~ (taken[l] > 0 /\ lot[l].frozen > 0)
    BY DEF MarketWritten
  <2>2. PositionsFit /\ LotsMatchFreezes /\ SalesBacked
    BY DEF Agreement
  <2>3. SalesBacked'
    <3>1. SaleBacked(row, Absent, position', lot', today') BY DEF SaleBacked
    <3>2. Absent \in Freeze \cup {Absent} OBVIOUS
    <3> QED BY <1>2, <1>3, <1>6, <1>7, <2>2, <3>1, <3>2, OthersBacked
  <2>4. PositionsFit'
    <3>1. CASE row.side = "buy"
      BY <1>4, <1>6, <2>2, <3>1, BoughtKeepsPositions
    <3>2. CASE row.side = "sell"
      BY <1>5, <1>6, <2>2, <3>2, SoldKeepsPositions
    <3> QED BY <1>3, <3>1, <3>2
  <2>5. LotsMatchFreezes'
    <3>1. CASE row.side = "buy"
      BY <1>3, <1>4, <1>6, <2>2, <3>1, BoughtKeepsFrozen
    <3>2. CASE row.side = "sell"
      <4>1. (\A l \in LotId : taken[l] <= Left(lot, p)[l]) /\ lot' = LotsAfterSale(taken)
        BY <1>5, <3>2 DEF Sold
      <4>2. ASSUME NEW l \in LotId
            PROVE  Frozen(freeze', l) = IF lot'[l] = Absent THEN 0 ELSE lot'[l].frozen
        <5>1. Frozen(freeze, l) = IF lot[l] = Absent THEN 0 ELSE lot[l].frozen
          BY <2>2 DEF LotsMatchFreezes
        <5>2. CASE lot[l] = Absent BY <1>3, <4>1, <5>1, <5>2, SoldLots
        <5>3. CASE lot[l] # Absent
          <6>1. lot'[l] # Absent /\ lot'[l].frozen = NonNegative(lot[l].frozen - taken[l])
            BY <4>1, <5>3, SoldLots
          <6>2. lot[l].frozen \in Nat BY <5>3 DEF LotsWithinBounds, TypeOK, Lot
          <6>3. lot[l].frozen = 0 \/ taken[l] = 0 BY <2>1, <6>2
          <6>4. NonNegative(lot[l].frozen - taken[l]) = lot[l].frozen
            BY <6>2, <6>3 DEF NonNegative
          <6> QED BY <1>3, <5>1, <5>3, <6>1, <6>4
        <5> QED BY <5>2, <5>3
      <4> QED BY <4>2 DEF LotsMatchFreezes
    <3> QED BY <1>3, <3>1, <3>2
  <2> QED BY <2>3, <2>4, <2>5 DEF Agreement
<1> QED BY <1>8, <1>10

LEMMA MarketWrittenKeepsBooks ==
    ASSUME Grounds, TypeOK', BooksInv, NEW o \in OrderId, order[o] = Absent,
           NEW row \in Order, NEW p \in PositionId, NEW price, NEW n \in Nat \ {0},
           NEW taken \in [LotId -> Nat], MarketWritten(o, row, p, price, n, taken),
           ~ crossed /\ row.side = "sell" => n <= SumOver(Left(lot, p), LotId)
    PROVE  BooksInv'
<1>2. freeze[o] = Absent
  BY DEF Grounds, OrderInv, FreezeWhileActive, IsActive
<1>3. FreezesFitOrders'
  <2>1. FreezeFits(row, Absent) BY DEF FreezeFits
  <2>2. order' = [order EXCEPT ![o] = row] /\ freeze' = [freeze EXCEPT ![o] = Absent]
    BY <1>2 DEF MarketWritten, Grounds, TypeOK
  <2>3. Absent \in Freeze \cup {Absent} OBVIOUS
  <2> QED BY <2>1, <2>2, <2>3, WrittenFits DEF BooksInv, Grounds
<1>4. ASSUME ~ crossed' PROVE LotsInv' /\ Agreement'
  <2>1. ~ crossed BY <1>4 DEF MarketWritten
  <2> QED BY <1>2, <1>4, <2>1, MarketKeepsAgreement DEF BooksInv
<1> QED BY <1>3, <1>4 DEF BooksInv

LEMMA MarketKeepsBooks ==
    ASSUME Grounds, TypeOK', BooksInv, NEW o \in OrderId, MarketStep(o)
    PROVE  BooksInv'
<1>1. order[o] = Absent BY DEF MarketStep
<1> QED BY <1>1, MarketBooks, MarketWrittenKeepsBooks DEF MarketGuarded

(* The shares frozen of a lot when the freeze of one order is written. *)
LEMMA FrozenAfterWrite ==
    ASSUME TypeOK, NEW o \in OrderId, NEW frz \in Freeze \cup {Absent},
           freeze' = [freeze EXCEPT ![o] = frz], NEW l \in LotId
    PROVE  /\ Frozen(freeze', l) = Frozen(freeze, l) - SharesOf(freeze[o], l) + SharesOf(frz, l)
           /\ Frozen(freeze, l) \in Nat
           /\ SharesOf(freeze[o], l) \in Nat /\ SharesOf(frz, l) \in Nat
           /\ SharesOf(freeze[o], l) <= Frozen(freeze, l)
<1>1. freeze \in [OrderId -> Freeze \cup {Absent}] BY DEF TypeOK
<1>2. Frozen([freeze EXCEPT ![o] = frz], l)
        = Frozen(freeze, l) - SharesOf(freeze[o], l) + SharesOf(frz, l)
  BY <1>1, FrozenWritten
<1>3. Frozen(freeze, l) \in Nat /\ SharesOf(freeze[o], l) <= Frozen(freeze, l)
  BY <1>1, FrozenForIs
<1>4. SharesOf(freeze[o], l) \in Nat /\ SharesOf(frz, l) \in Nat
  BY <1>1, SharesType
<1> QED BY <1>2, <1>3, <1>4

(* A limit order that is placed freezes what its lots can still sell. *)
LEMMA LimitLots ==
    ASSUME TypeOK, NEW row \in Order, NEW frz \in Freeze, NEW o, LimitWritten(o, row, frz),
           FrozenRight(row, frz), NEW l \in LotId
    PROVE  /\ lot[l] = Absent => lot'[l] = Absent /\ frz.lots[l] = 0
           /\ LotStays(lot[l], lot'[l])
           /\ lot[l] # Absent => /\ lot'[l].remaining = lot[l].remaining
                                 /\ lot'[l].frozen = lot[l].frozen + frz.lots[l]
           /\ row.side = "sell" /\ frz.lots[l] > 0 =>
                /\ lot[l] # Absent /\ lot[l].position = row.position
                /\ lot[l].sellableFrom <= today
<1>1. frz.lots[l] \in Nat BY DEF Freeze
<1>2. row.side = "buy" \/ row.side = "sell" BY DEF Order, Side
<1>3. row.side = "buy" => frz.lots[l] = 0
  BY AbsentAssumption DEF LimitWritten, FreezeFits, NoLots
<1>4. ASSUME row.side = "sell", frz.lots[l] > 0
      PROVE  lot[l] # Absent /\ lot[l].position = row.position /\ lot[l].sellableFrom <= today
  BY <1>4 DEF FrozenRight
<1>5. lot'[l] = IF frz.lots[l] > 0 THEN [lot[l] EXCEPT !.frozen = @ + frz.lots[l]] ELSE lot[l]
  BY DEF LimitWritten
<1>6. CASE frz.lots[l] = 0
  BY <1>5, <1>6 DEF LotStays, TypeOK, Lot
<1>7. CASE frz.lots[l] > 0
  <2>1. lot[l] # Absent /\ lot[l].position = row.position /\ lot[l].sellableFrom <= today
    BY <1>2, <1>3, <1>4, <1>7
  <2>2. lot[l] \in Lot BY <2>1 DEF TypeOK
  <2>3. lot'[l] = [lot[l] EXCEPT !.frozen = @ + frz.lots[l]] BY <1>5, <1>7
  <2>4. /\ lot'[l] \in Lot /\ lot'[l].remaining = lot[l].remaining
        /\ lot'[l].frozen = lot[l].frozen + frz.lots[l]
        /\ lot'[l].position = lot[l].position /\ lot'[l].sellableFrom = lot[l].sellableFrom
    BY <1>1, <2>2, <2>3 DEF Lot
  <2>5. lot'[l] # Absent BY <2>4, AbsentAssumption
  <2> QED BY <2>1, <2>4, <2>5 DEF LotStays
<1> QED BY <1>1, <1>6, <1>7

LEMMA LimitKeepsAgreement ==
    ASSUME Grounds, TypeOK', FreezesFitOrders, LotsInv, Agreement,
           NEW o \in OrderId, freeze[o] = Absent,
           NEW row \in Order, NEW frz \in Freeze, LimitWritten(o, row, frz),
           FrozenRight(row, frz)
    PROVE  LotsInv' /\ Agreement'
<1> USE DEF Grounds
<1>1. freeze[o] = Absent OBVIOUS
<1>3. /\ order' = [order EXCEPT ![o] = row] /\ freeze' = [freeze EXCEPT ![o] = frz]
      /\ position' = position /\ today' = today /\ crossed' = crossed
      /\ frz \in Freeze \cup {Absent} /\ row.filled = 0 /\ row.quantity \in Nat
  BY DEF LimitWritten, Placed
<1>4. today <= today' BY <1>3, AccountAssumption DEF TypeOK
<1>5. RowsStay BY <1>3, LimitLots DEF RowsStay
<1>6. \A l \in LotId : lot[l] = Absent => lot'[l] = Absent BY LimitLots
<1>7. LotsInv' BY <1>4, <1>5, <1>6, LotsInvKept
<1>9. Agreement'
  <2>1. PositionsFit /\ LotsMatchFreezes /\ SalesBacked
    BY DEF Agreement
  <2>2. PositionsFit'
    <3>1. \A l \in LotId : lot[l] # Absent => lot'[l].remaining = lot[l].remaining
      BY LimitLots
    <3> QED BY <1>3, <1>5, <1>6, <2>1, <3>1, PositionsKept
  <2>3. SalesBacked'
    <3>1. SaleBacked(row, frz, position', lot', today')
      <4>1. SUFFICES ASSUME row.side = "sell"
                     PROVE  SaleBacked(row, frz, position', lot', today')
        BY DEF SaleBacked
      <4>2. /\ SumOver(frz.lots, LotId) = row.quantity - row.filled
            /\ position'[row.position] # Absent
            /\ position'[row.position].code = row.code
        BY <1>3, <4>1 DEF FrozenRight
      <4>3. ASSUME NEW l \in LotId, frz.lots[l] > 0
            PROVE  lot'[l] # Absent /\ lot'[l].position = row.position
                   /\ lot'[l].sellableFrom <= today'
        <5>1. /\ lot[l] # Absent /\ lot[l].position = row.position
              /\ lot[l].sellableFrom <= today /\ LotStays(lot[l], lot'[l])
          BY <4>1, <4>3, LimitLots
        <5> QED BY <1>3, <5>1 DEF LotStays
      <4> QED BY <4>2, <4>3 DEF SaleBacked
    <3> QED BY <1>3, <1>4, <1>5, <2>1, <3>1, OthersBacked
  <2>4. ASSUME NEW l \in LotId
        PROVE  Frozen(freeze', l) = IF lot'[l] = Absent THEN 0 ELSE lot'[l].frozen
    <3>1. Frozen(freeze, l) = IF lot[l] = Absent THEN 0 ELSE lot[l].frozen
      BY <2>1 DEF LotsMatchFreezes
    <3>2. Frozen(freeze', l) = Frozen(freeze, l) - SharesOf(freeze[o], l) + SharesOf(frz, l)
          /\ Frozen(freeze, l) \in Nat
      BY <1>3, FrozenAfterWrite
    <3>3. SharesOf(freeze[o], l) = 0 BY <1>1 DEF SharesOf
    <3>4. SharesOf(frz, l) = frz.lots[l] /\ frz.lots[l] \in Nat
      BY AbsentAssumption DEF SharesOf, Freeze
    <3>5. Frozen(freeze', l) = Frozen(freeze, l) + frz.lots[l] BY <3>2, <3>3, <3>4
    <3>6. lot[l] = Absent => lot'[l] = Absent /\ frz.lots[l] = 0 BY LimitLots
    <3>7. lot[l] # Absent => lot'[l] # Absent /\ lot'[l].frozen = lot[l].frozen + frz.lots[l]
      BY LimitLots DEF LotStays
    <3> QED BY <3>1, <3>5, <3>6, <3>7
  <2> QED BY <2>2, <2>3, <2>4 DEF Agreement, LotsMatchFreezes
<1> QED BY <1>7, <1>9

LEMMA LimitKeepsFits ==
    ASSUME TypeOK, FreezesFitOrders, NEW o \in OrderId,
           NEW row \in Order, NEW frz \in Freeze, LimitWritten(o, row, frz)
    PROVE  FreezesFitOrders'
<1>1. /\ order' = [order EXCEPT ![o] = row] /\ freeze' = [freeze EXCEPT ![o] = frz]
      /\ frz \in Freeze \cup {Absent} /\ FreezeFits(row, frz)
  BY DEF LimitWritten
<1> QED BY <1>1, WrittenFits

LEMMA LimitWrittenKeepsBooks ==
    ASSUME Grounds, TypeOK', BooksInv, NEW o \in OrderId, order[o] = Absent,
           NEW row \in Order, NEW frz \in Freeze, LimitWritten(o, row, frz),
           ~ crossed => FrozenRight(row, frz)
    PROVE  BooksInv'
<1>1. freeze[o] = Absent
  BY DEF Grounds, OrderInv, FreezeWhileActive, IsActive
<1>3. FreezesFitOrders' BY LimitKeepsFits DEF BooksInv, Grounds
<1>4. ASSUME ~ crossed' PROVE LotsInv' /\ Agreement'
  <2>1. ~ crossed BY <1>4 DEF LimitWritten
  <2> QED BY <1>1, <2>1, LimitKeepsAgreement DEF BooksInv
<1> QED BY <1>3, <1>4 DEF BooksInv

LEMMA LimitKeepsBooks ==
    ASSUME Grounds, TypeOK', BooksInv, NEW o \in OrderId, LimitStep(o)
    PROVE  BooksInv'
  BY LimitBooks, LimitWrittenKeepsBooks

(* The end of an order gives back the shares it froze. *)
LEMMA ReleaseLots ==
    ASSUME TypeOK, NEW row \in Order, NEW frz \in Freeze, frz # Absent,
           lot' = LotsAfterRelease(row, frz), NEW l \in LotId
    PROVE  /\ lot[l] = Absent => lot'[l] = Absent
           /\ LotStays(lot[l], lot'[l])
           /\ lot[l] # Absent =>
                /\ lot'[l].remaining = lot[l].remaining
                /\ lot'[l].frozen =
                     IF row.side = "sell" /\ lot[l].position = row.position
                     THEN NonNegative(lot[l].frozen - frz.lots[l]) ELSE lot[l].frozen
<1>1. lot'[l] = IF row.side = "sell" /\ l \in LotsOf(row.position)
                THEN LotAfterRelease(lot[l], frz.lots[l]) ELSE lot[l]
  BY DEF LotsAfterRelease
<1>2. l \in LotsOf(row.position) <=> lot[l] # Absent /\ lot[l].position = row.position
  BY DEF LotsOf
<1>3. CASE row.side = "sell" /\ l \in LotsOf(row.position)
  <2>1. lot[l] \in Lot /\ frz.lots[l] \in Nat /\ lot[l] # Absent
    BY <1>2, <1>3 DEF TypeOK, Freeze
  <2>2. lot'[l] = [lot[l] EXCEPT !.frozen = NonNegative(@ - frz.lots[l])]
    BY <1>1, <1>3 DEF LotAfterRelease
  <2>3. lot[l].frozen - frz.lots[l] \in Int BY <2>1 DEF Lot
  <2>4. NonNegative(lot[l].frozen - frz.lots[l]) \in Nat BY <2>3, NonNegativeType
  <2>5. /\ lot'[l] \in Lot /\ lot'[l].remaining = lot[l].remaining
        /\ lot'[l].frozen = NonNegative(lot[l].frozen - frz.lots[l])
        /\ lot'[l].position = lot[l].position /\ lot'[l].sellableFrom = lot[l].sellableFrom
    BY <2>1, <2>2, <2>4 DEF Lot
  <2>6. lot'[l] # Absent BY <2>5, AbsentAssumption
  <2> QED BY <1>2, <1>3, <2>1, <2>5, <2>6 DEF LotStays
<1>4. CASE ~ (row.side = "sell" /\ l \in LotsOf(row.position))
  BY <1>1, <1>2, <1>4 DEF LotStays
<1> QED BY <1>3, <1>4

LEMMA ReleaseKeepsBooks ==
    ASSUME Grounds, TypeOK', BooksInv, NEW o \in OrderId, ReleaseStep(o)
    PROVE  BooksInv'
<1> USE DEF Grounds
<1>1. order[o] \in Order /\ freeze[o] \in Freeze /\ freeze[o] # Absent BY ReleaseBooks
<1>2. PICK row \in Order : ReleaseWritten(o, row) BY ReleaseBooks
<1>3. /\ order' = [order EXCEPT ![o] = row] /\ freeze' = [freeze EXCEPT ![o] = Absent]
      /\ position' = position /\ today' = today /\ crossed' = crossed
      /\ lot' = LotsAfterRelease(order[o], freeze[o])
      /\ Absent \in Freeze \cup {Absent}
  BY <1>2 DEF ReleaseWritten
<1>4. today <= today' BY <1>3, AccountAssumption DEF TypeOK
<1>5. RowsStay BY <1>1, <1>3, ReleaseLots DEF RowsStay
<1>6. \A l \in LotId : lot[l] = Absent => lot'[l] = Absent BY <1>1, <1>3, ReleaseLots
<1>8. FreezesFitOrders'
  <2>1. FreezeFits(row, Absent) BY DEF FreezeFits
  <2> QED BY <1>3, <2>1, WrittenFits DEF BooksInv
<1>9. ASSUME ~ crossed' PROVE LotsInv' /\ Agreement'
  <2>1. PositionsFit /\ LotsMatchFreezes /\ SalesBacked
    BY <1>3, <1>9 DEF BooksInv, Agreement
  <2>5. LotsInv' BY <1>3, <1>4, <1>5, <1>6, <1>9, LotsInvKept DEF BooksInv
  <2>2. PositionsFit'
    <3>1. \A l \in LotId : lot[l] # Absent => lot'[l].remaining = lot[l].remaining
      BY <1>1, <1>3, ReleaseLots
    <3> QED BY <1>3, <1>5, <1>6, <2>1, <3>1, PositionsKept
  <2>3. SalesBacked'
    <3>1. SaleBacked(row, Absent, position', lot', today') BY DEF SaleBacked
    <3> QED BY <1>3, <1>4, <1>5, <2>1, <3>1, OthersBacked DEF BooksInv
  <2>4. ASSUME NEW l \in LotId
        PROVE  Frozen(freeze', l) = IF lot'[l] = Absent THEN 0 ELSE lot'[l].frozen
    <3>1. Frozen(freeze, l) = IF lot[l] = Absent THEN 0 ELSE lot[l].frozen
      BY <2>1 DEF LotsMatchFreezes
    <3>2. /\ Frozen(freeze', l) = Frozen(freeze, l) - SharesOf(freeze[o], l) + SharesOf(Absent, l)
          /\ Frozen(freeze, l) \in Nat /\ SharesOf(freeze[o], l) \in Nat
          /\ SharesOf(freeze[o], l) <= Frozen(freeze, l)
      BY <1>3, FrozenAfterWrite
    <3>3. SharesOf(Absent, l) = 0 /\ SharesOf(freeze[o], l) = freeze[o].lots[l]
      BY <1>1 DEF SharesOf
    <3>4. Frozen(freeze', l) = Frozen(freeze, l) - freeze[o].lots[l] BY <3>2, <3>3
    <3>5. CASE lot[l] = Absent
      <4>1. freeze[o].lots[l] = 0 BY <3>1, <3>2, <3>3, <3>5
      <4> QED BY <1>6, <3>1, <3>4, <3>5, <4>1
    <3>6. CASE lot[l] # Absent
      <4>1. /\ lot'[l] # Absent
            /\ lot'[l].frozen =
                 IF order[o].side = "sell" /\ lot[l].position = order[o].position
                 THEN NonNegative(lot[l].frozen - freeze[o].lots[l]) ELSE lot[l].frozen
        BY <1>1, <1>3, <3>6, ReleaseLots DEF LotStays
      <4>2. lot[l].frozen = Frozen(freeze, l) BY <3>1, <3>6
      <4>3. CASE order[o].side = "sell" /\ lot[l].position = order[o].position
        BY <3>2, <3>3, <3>4, <4>1, <4>2, <4>3 DEF NonNegative
      <4>4. CASE ~ (order[o].side = "sell" /\ lot[l].position = order[o].position)
        <5>1. freeze[o].lots[l] = 0
          <6>1. CASE order[o].side = "buy"
            <7>1. FreezeFits(order[o], freeze[o]) BY DEF BooksInv, FreezesFitOrders
            <7>2. freeze[o].lots = NoLots BY <1>1, <6>1, <7>1 DEF FreezeFits
            <7> QED BY <7>2 DEF NoLots
          <6>2. CASE order[o].side = "sell"
            <7>1. ~ (freeze[o].lots[l] > 0)
              BY <1>1, <2>1, <4>4, <6>2 DEF SalesBacked, SaleBacked
            <7>2. freeze[o].lots[l] \in Nat BY <1>1 DEF Freeze
            <7> QED BY <7>1, <7>2
          <6> QED BY <1>1, <6>1, <6>2 DEF Order, Side
        <5> QED BY <3>2, <3>4, <4>1, <4>2, <4>4, <5>1
      <4> QED BY <4>3, <4>4
    <3> QED BY <3>5, <3>6
  <2> QED BY <2>2, <2>3, <2>4, <2>5 DEF Agreement, LotsMatchFreezes
<1> QED BY <1>8, <1>9 DEF BooksInv

(* A purchase that fills changes no lot that anything is frozen of. *)
LEMMA PurchaseKeepsBooks ==
    ASSUME Grounds, TypeOK', BooksInv, NEW o \in OrderId,
           order[o] \in Order, order[o].side = "buy",
           freeze[o] \in Freeze, freeze[o] # Absent,
           order[o].filled \in 0..order[o].quantity,
           NEW row \in Order, NEW frz \in Freeze \cup {Absent}, NEW p \in PositionId,
           NEW price, NEW n \in Nat \ {0}, NEW taken,
           FillWritten(o, row, frz, p, price, n, taken), PurchaseFilled(o, frz, p, n)
    PROVE  BooksInv'
<1> USE DEF Grounds
<1> DEFINE c == order[o].code
<1>1. /\ order' = [order EXCEPT ![o] = row] /\ freeze' = [freeze EXCEPT ![o] = frz]
      /\ today' = today /\ row.filled = order[o].filled + n
      /\ row.side = "buy" /\ row.limit = order[o].limit /\ row.quantity = order[o].quantity
  BY DEF FillWritten
<1>2. /\ Bought(p, c, n) /\ crossed' = crossed
      /\ frz # Absent =>
           frz = [cash |-> EstimatedBuyCost(order[o].limit, order[o].quantity - order[o].filled - n),
                  lots |-> NoLots]
  BY DEF PurchaseFilled
<1>3. c \in Code /\ n \in Nat /\ today <= today'
      /\ order[o].quantity \in Nat /\ order[o].filled \in Nat
  BY <1>1, AccountAssumption DEF Order, TypeOK
<1> HIDE DEF c
<1>4. RowsStay BY <1>2, <1>3, BoughtStays
<1>6. order[o].quantity - order[o].filled - n = row.quantity - row.filled
  BY <1>1, <1>3
<1>7. FreezesFitOrders'
  <2>1. FreezeFits(row, frz) BY <1>1, <1>2, <1>6 DEF FreezeFits
  <2> QED BY <1>1, <2>1, WrittenFits DEF BooksInv
<1>8. ASSUME ~ crossed' PROVE LotsInv' /\ Agreement'
  <2>1. PositionsFit /\ LotsMatchFreezes /\ SalesBacked /\ LotsInv
    BY <1>2, <1>8 DEF BooksInv, Agreement
  <2>5. LotsInv' BY <1>1, <1>2, <1>3, <2>1, BoughtKeepsLotsInv
  <2>2. PositionsFit' BY <1>2, <1>3, <2>1, BoughtKeepsPositions
  <2>3. SalesBacked'
    <3>1. SaleBacked(row, frz, position', lot', today') BY <1>1 DEF SaleBacked
    <3> QED BY <1>1, <1>3, <1>4, <2>1, <3>1, OthersBacked DEF BooksInv
  <2>4. LotsMatchFreezes'
    <3>1. ASSUME NEW l \in LotId PROVE Frozen(freeze', l) = Frozen(freeze, l)
      <4>1. FreezeFits(order[o], freeze[o]) BY DEF BooksInv, FreezesFitOrders
      <4>2. freeze[o].lots = NoLots BY <4>1 DEF FreezeFits
      <4>3. SharesOf(freeze[o], l) = 0 BY <4>2 DEF SharesOf, NoLots
      <4>4. SharesOf(frz, l) = 0
        <5>1. frz # Absent => frz.lots = NoLots BY <1>2
        <5> QED BY <5>1 DEF SharesOf, NoLots
      <4>5. /\ Frozen(freeze', l) = Frozen(freeze, l) - SharesOf(freeze[o], l) + SharesOf(frz, l)
            /\ Frozen(freeze, l) \in Nat
        BY <1>1, FrozenAfterWrite
      <4> QED BY <4>3, <4>4, <4>5
    <3> QED BY <1>2, <1>3, <2>1, <3>1, BoughtKeepsFrozen
  <2> QED BY <2>2, <2>3, <2>4, <2>5 DEF Agreement
<1> QED BY <1>7, <1>8 DEF BooksInv

(* A sale that crosses no other takes what it froze: the position is still open *)
(* and holds at least that much.                                               *)
LEMMA BackedSale ==
    ASSUME Grounds, Agreement, NEW o \in OrderId,
           order[o] \in Order, order[o].side = "sell", order[o].position \in PositionId,
           freeze[o] \in Freeze, freeze[o] # Absent,
           order[o].filled \in 0..order[o].quantity,
           NEW n \in Nat \ {0}, n <= order[o].quantity - order[o].filled,
           NEW taken \in TakesFifo(Left(lot, order[o].position), n),
           \A l \in LotId : taken[l] <= freeze[o].lots[l]
    PROVE  /\ IsOpen(order[o].position)
           /\ position[order[o].position].code = order[o].code
           /\ taken \in [LotId -> Nat]
           /\ \A l \in LotId : taken[l] <= Left(lot, order[o].position)[l]
           /\ \A l \in LotId : freeze[o].lots[l] > 0 => lot[l] # Absent
           /\ \A l \in LotId : freeze[o].lots[l] > 0 => lot[l].sellableFrom <= today
           /\ SumOver(freeze[o].lots, LotId) = order[o].quantity - order[o].filled
           /\ SumOver(taken, LotId) = n
<1> USE DEF Grounds
<1> DEFINE p == order[o].position
           shares == freeze[o].lots
<1>1. /\ SumOver(shares, LotId) = order[o].quantity - order[o].filled
      /\ position[p] # Absent /\ position[p].code = order[o].code
      /\ \A l \in LotId : shares[l] > 0 => /\ lot[l] # Absent
                                           /\ lot[l].position = p
                                           /\ lot[l].sellableFrom <= today
  BY DEF Agreement, SalesBacked, SaleBacked
<1>2. \A l \in LotId : shares[l] \in Nat BY DEF Freeze
<1>3. ASSUME NEW l \in LotId PROVE shares[l] <= Left(lot, p)[l]
  <2>1. CASE shares[l] = 0
    BY <2>1, LeftType
  <2>2. CASE shares[l] > 0
    <3>1. lot[l] # Absent /\ lot[l].position = p BY <1>1, <2>2
    <3>2. Left(lot, p)[l] = lot[l].remaining BY <3>1 DEF Left
    <3>3. Frozen(freeze, l) = lot[l].frozen BY <3>1 DEF Agreement, LotsMatchFreezes
    <3>4. SharesOf(freeze[o], l) <= Frozen(freeze, l)
      BY FrozenForIs DEF TypeOK
    <3>5. SharesOf(freeze[o], l) = shares[l] BY DEF SharesOf
    <3>6. /\ lot[l].frozen \in 0..lot[l].remaining /\ lot[l].remaining \in 0..lot[l].quantity
          /\ lot[l].quantity \in Nat
      BY <3>1 DEF LotsWithinBounds, TypeOK, Lot
    <3> QED BY <1>2, <3>2, <3>3, <3>4, <3>5, <3>6
  <2> QED BY <1>2, <2>1, <2>2
<1> DEFINE held == Left(lot, p)
<1>4. \A l \in LotId : held[l] \in Nat BY LeftType
<1>5. SumOver(held, LotId) \in Nat BY LeftType
<1> HIDE DEF shares, held
<1>6. SumOver(shares, LotId) <= SumOver(held, LotId)
  <2>1. \A l \in LotId : shares[l] \in Int /\ held[l] \in Int /\ shares[l] <= held[l]
    BY <1>2, <1>3, <1>4 DEF held
  <2> QED BY <2>1, FiniteAssumption, SumMonotone
<1>7. order[o].quantity \in Nat /\ order[o].filled \in Nat BY DEF Order
<1>8. n <= SumOver(held, LotId) BY <1>1, <1>5, <1>6, <1>7
<1>9. /\ taken \in [LotId -> Nat] /\ \A l \in LotId : taken[l] <= held[l]
      /\ SumOver(taken, LotId) = n
  <2>1. taken \in TakesFifo(held, n) /\ n \in Nat BY DEF held
  <2> QED BY <1>4, <1>8, <2>1, TakesAll
<1>10. position[p].status = "open"
  <2>1. position[p].quantity = SumOver(held, LotId)
    BY <1>1 DEF Agreement, PositionsFit, held
  <2>2. position[p].quantity > 0 BY <1>5, <1>8, <2>1
  <2> QED BY <1>1, <2>2 DEF Agreement, PositionsFit
<1> QED BY <1>1, <1>9, <1>10 DEF IsOpen, shares, held

LEMMA SaleSells ==
    ASSUME Grounds, BooksInv, NEW o \in OrderId,
           order[o] \in Order, order[o].side = "sell",
           freeze[o] \in Freeze, freeze[o] # Absent,
           order[o].filled \in 0..order[o].quantity,
           NEW row \in Order, NEW frz \in Freeze \cup {Absent}, NEW p \in PositionId,
           NEW price, NEW n \in Nat \ {0}, NEW taken \in [LotId -> Nat],
           FillWritten(o, row, frz, p, price, n, taken), SaleFilled(o, frz, p, n, taken),
           ~ crossed'
    PROVE  /\ p = order[o].position
           /\ \A l \in LotId : taken[l] <= freeze[o].lots[l]
           /\ SumOver(freeze[o].lots, LotId) = order[o].quantity - order[o].filled
           /\ Sold(p, order[o].code, n, taken)
<1> USE DEF Grounds
<1>1. n <= order[o].quantity - order[o].filled BY DEF FillWritten
<1>2. FreezeFits(order[o], freeze[o]) BY DEF BooksInv, FreezesFitOrders
<1>3. order[o].position \in PositionId BY <1>2 DEF FreezeFits
<1>4. /\ p = order[o].position
      /\ taken \in TakesFifo(Left(lot, p), n)
      /\ lot' = LotsAfterSale(taken)
      /\ crossed' = (crossed \/ \E l \in LotId : taken[l] > freeze[o].lots[l])
  BY <1>3, AbsentAssumption DEF SaleFilled
<1>5. PICK existing \in ReadOpenPosition(order[o].code) :
        position' = [position EXCEPT ![IF existing = Absent THEN p ELSE existing.id] =
                       PositionAfterFill(order[o].code, "sell", existing, n)]
  BY DEF SaleFilled
<1>6. order[o].code \in Code /\ n \in Nat BY DEF Order
<1>7. \A l \in LotId : taken[l] <= Left(lot, p)[l] BY <1>4 DEF TakesFifo
<1>8. ~ crossed /\ \A l \in LotId : ~ (taken[l] > freeze[o].lots[l])
  BY <1>4
<1>9. Agreement BY <1>8 DEF BooksInv
<1>10. \A l \in LotId : freeze[o].lots[l] \in Nat BY DEF Freeze
<1>11. \A l \in LotId : taken[l] <= freeze[o].lots[l] BY <1>8, <1>10
<1>12. /\ IsOpen(p) /\ position[p].code = order[o].code
       /\ SumOver(freeze[o].lots, LotId) = order[o].quantity - order[o].filled
       /\ SumOver(taken, LotId) = n
  BY <1>1, <1>3, <1>4, <1>9, <1>11, BackedSale
<1>13. /\ existing # Absent /\ existing.id = p
       /\ PositionAfterFill(order[o].code, "sell", existing, n)
            = [code |-> order[o].code, quantity |-> position[p].quantity - n,
               status |-> IF position[p].quantity = n THEN "closed" ELSE "open"]
  BY <1>6, <1>12, RowAfterSale
<1>14. Sold(p, order[o].code, n, taken) BY <1>4, <1>5, <1>7, <1>12, <1>13 DEF Sold
<1> QED BY <1>4, <1>11, <1>12, <1>14

LEMMA SaleKeepsBooks ==
    ASSUME Grounds, TypeOK', BooksInv, NEW o \in OrderId,
           order[o] \in Order, order[o].side = "sell",
           freeze[o] \in Freeze, freeze[o] # Absent,
           order[o].filled \in 0..order[o].quantity,
           NEW row \in Order, NEW frz \in Freeze \cup {Absent}, NEW p \in PositionId,
           NEW price, NEW n \in Nat \ {0}, NEW taken \in [LotId -> Nat],
           FillWritten(o, row, frz, p, price, n, taken), SaleFilled(o, frz, p, n, taken)
    PROVE  BooksInv'
<1> USE DEF Grounds
<1>1. /\ order' = [order EXCEPT ![o] = row] /\ freeze' = [freeze EXCEPT ![o] = frz]
      /\ today' = today /\ row.filled = order[o].filled + n
      /\ row.side = "sell" /\ row.code = order[o].code /\ row.quantity = order[o].quantity
      /\ row.position = p /\ n <= order[o].quantity - order[o].filled
      /\ frz = Absent <=> n = order[o].quantity - order[o].filled
  BY DEF FillWritten
<1>2. FreezeFits(order[o], freeze[o]) BY DEF BooksInv, FreezesFitOrders
<1>3. order[o].position \in PositionId BY <1>2 DEF FreezeFits
<1>4. /\ p = order[o].position
      /\ taken \in TakesFifo(Left(lot, p), n)
      /\ lot' = LotsAfterSale(taken)
      /\ crossed' = (crossed \/ \E l \in LotId : taken[l] > freeze[o].lots[l])
      /\ frz # Absent =>
           frz = [cash |-> 0,
                  lots |-> [l \in LotId |-> NonNegative(freeze[o].lots[l] - taken[l])]]
  BY <1>3, AbsentAssumption DEF SaleFilled
<1>6. order[o].code \in Code /\ n \in Nat /\ today <= today'
      /\ order[o].quantity \in Nat /\ order[o].filled \in Nat
  BY <1>1, AccountAssumption DEF Order, TypeOK
<1>7. \A l \in LotId : taken[l] <= Left(lot, p)[l] BY <1>4 DEF TakesFifo
<1>9. FreezesFitOrders'
  <2>1. FreezeFits(row, frz) BY <1>1, <1>4 DEF FreezeFits
  <2> QED BY <1>1, <2>1, WrittenFits DEF BooksInv
<1>10. ASSUME ~ crossed' PROVE LotsInv' /\ Agreement'
  <2>1. ~ crossed BY <1>4, <1>10
  <2>2. PositionsFit /\ LotsMatchFreezes /\ SalesBacked /\ Agreement /\ LotsInv
    BY <2>1 DEF BooksInv, Agreement
  <2>3. \A l \in LotId : freeze[o].lots[l] \in Nat BY DEF Freeze
  <2>4. \A l \in LotId : taken[l] <= freeze[o].lots[l] BY <1>10, SaleSells
  <2>6. /\ Sold(p, order[o].code, n, taken)
        /\ SumOver(freeze[o].lots, LotId) = order[o].quantity - order[o].filled
    BY <1>10, SaleSells
  <2>5. IsOpen(p) /\ position[p].code = order[o].code /\ SumOver(taken, LotId) = n
    BY <2>6 DEF Sold
  <2>7. RowsStay BY <1>6, <2>6, SoldStays
  <2>8. PositionsFit' BY <1>6, <2>2, <2>6, SoldKeepsPositions
  <2> DEFINE before == freeze[o].lots
             after(l) == before[l] - taken[l]
  <2>9. \A l \in LotId : SharesOf(freeze[o], l) = before[l] /\ before[l] \in Nat
    BY <2>3 DEF SharesOf
  <2>10. \A l \in LotId : NonNegative(after(l)) = after(l)
    BY <2>3, <2>4 DEF NonNegative
  <2>11. frz # Absent => \A l \in LotId : frz.lots[l] = after(l)
    BY <1>4, <2>10
  <2>12. ASSUME frz = Absent, NEW l \in LotId PROVE after(l) = 0
    <3>1. SumOver(taken, LotId) = SumOver(before, LotId)
      BY <1>1, <2>5, <2>6, <2>12
    <3>2. \A i \in LotId : taken[i] \in Int /\ before[i] \in Int /\ taken[i] <= before[i]
      BY <2>3, <2>4
    <3> HIDE DEF before
    <3>3. taken[l] = before[l] BY <3>1, <3>2, FiniteAssumption, SumMonotone
    <3> QED BY <3>2, <3>3
  <2>13. \A l \in LotId : SharesOf(frz, l) = after(l)
    BY <2>11, <2>12 DEF SharesOf
  <2>14. SalesBacked'
    <3>1. SaleBacked(row, frz, position', lot', today')
      <4>1. SUFFICES ASSUME frz # Absent
                     PROVE  SaleBacked(row, frz, position', lot', today')
        BY DEF SaleBacked
      <4>2. SumOver(frz.lots, LotId) = row.quantity - row.filled
        <5> DEFINE kept == frz.lots
        <5>1. \A l \in LotId : kept[l] \in Int /\ taken[l] \in Int
                               /\ before[l] = kept[l] + taken[l]
          BY <2>3, <2>11, <4>1
        <5>2. \A l \in LotId : kept[l] \in Int BY <5>1
        <5> HIDE DEF kept, before
        <5>3. SumOver(before, LotId) = SumOver(kept, LotId) + SumOver(taken, LotId)
          BY <5>1, FiniteAssumption, SumPlus
        <5>4. SumOver(kept, LotId) \in Int BY <5>2, FiniteAssumption, SumType
        <5> QED BY <1>1, <1>6, <2>5, <2>6, <5>3, <5>4 DEF kept, before
      <4>3. position'[row.position] # Absent /\ position'[row.position].code = row.code
        BY <1>1, <2>5, <2>7 DEF RowsStay, IsOpen
      <4>4. ASSUME NEW l \in LotId, frz.lots[l] > 0
            PROVE  lot'[l] # Absent /\ lot'[l].position = row.position
                   /\ lot'[l].sellableFrom <= today'
        <5>1. before[l] > 0 BY <2>3, <2>11, <4>1, <4>4
        <5>2. lot[l] # Absent /\ lot[l].position = p /\ lot[l].sellableFrom <= today
          BY <1>4, <2>2, <5>1 DEF SalesBacked, SaleBacked
        <5> QED BY <1>1, <2>7, <5>2 DEF RowsStay, LotStays
      <4> QED BY <4>2, <4>3, <4>4 DEF SaleBacked
    <3> QED BY <1>1, <1>6, <2>2, <2>7, <3>1, OthersBacked DEF BooksInv
  <2>15. ASSUME NEW l \in LotId
         PROVE  Frozen(freeze', l) = IF lot'[l] = Absent THEN 0 ELSE lot'[l].frozen
    <3>1. Frozen(freeze, l) = IF lot[l] = Absent THEN 0 ELSE lot[l].frozen
      BY <2>2 DEF LotsMatchFreezes
    <3>2. /\ Frozen(freeze', l) = Frozen(freeze, l) - SharesOf(freeze[o], l) + SharesOf(frz, l)
          /\ Frozen(freeze, l) \in Nat /\ SharesOf(freeze[o], l) <= Frozen(freeze, l)
      BY <1>1, FrozenAfterWrite
    <3>3. Frozen(freeze', l) = Frozen(freeze, l) - taken[l]
          /\ taken[l] <= Frozen(freeze, l) /\ taken[l] \in Nat
      BY <2>4, <2>9, <2>13, <3>2
    <3>4. CASE lot[l] = Absent
      BY <1>4, <1>7, <3>1, <3>3, <3>4, SoldLots
    <3>5. CASE lot[l] # Absent
      <4>1. lot'[l] # Absent /\ lot'[l].frozen = NonNegative(lot[l].frozen - taken[l])
        BY <1>4, <1>7, <3>5, SoldLots
      <4> QED BY <3>1, <3>2, <3>3, <3>5, <4>1 DEF NonNegative
    <3> QED BY <3>4, <3>5
  <2>16. LotsInv'
    <3>1. \A q \in PositionId : position[q] # Absent => position'[q] # Absent
      BY <2>7 DEF RowsStay
    <3> QED BY <1>1, <1>4, <1>7, <2>2, <3>1, SoldKeepsLotsInv
  <2> QED BY <2>8, <2>14, <2>15, <2>16 DEF Agreement, LotsMatchFreezes
<1> QED BY <1>9, <1>10 DEF BooksInv

LEMMA FillKeepsBooks ==
    ASSUME Grounds, TypeOK', BooksInv, NEW o \in OrderId, FillStep(o)
    PROVE  BooksInv'
<1>1. /\ order[o] \in Order /\ freeze[o] \in Freeze /\ freeze[o] # Absent
      /\ order[o].filled \in 0..order[o].quantity
  BY FillBooks
<1>2. PICK row \in Order, frz \in Freeze \cup {Absent}, p \in PositionId,
           price \in Price, n \in Nat \ {0}, taken \in [LotId -> Nat] :
        /\ FillWritten(o, row, frz, p, price, n, taken)
        /\ order[o].side = "buy" => PurchaseFilled(o, frz, p, n)
        /\ order[o].side = "sell" => SaleFilled(o, frz, p, n, taken)
  BY FillBooks
<1>3. CASE order[o].side = "buy" BY <1>1, <1>2, <1>3, PurchaseKeepsBooks
<1>4. CASE order[o].side = "sell" BY <1>1, <1>2, <1>4, SaleKeepsBooks
<1> QED BY <1>1, <1>3, <1>4 DEF Order, Side

(* What the evaluator commits leaves the rows that others have read. *)
LEMMA ReleaseStays ==
    ASSUME Grounds, NEW o \in OrderId, ReleaseStep(o)
    PROVE  RowsStay
<1>1. order[o] \in Order /\ freeze[o] \in Freeze /\ freeze[o] # Absent BY ReleaseBooks
<1>2. lot' = LotsAfterRelease(order[o], freeze[o]) /\ position' = position
  BY ReleaseBooks DEF ReleaseWritten
<1> QED BY <1>1, <1>2, ReleaseLots DEF RowsStay, Grounds

LEMMA FillStays ==
    ASSUME Grounds, BooksInv, NEW o \in OrderId, FillStep(o), ~ crossed'
    PROVE  RowsStay
<1> USE DEF Grounds
<1>1. /\ order[o] \in Order /\ freeze[o] \in Freeze /\ freeze[o] # Absent
      /\ order[o].filled \in 0..order[o].quantity
  BY FillBooks
<1>2. PICK row \in Order, frz \in Freeze \cup {Absent}, p \in PositionId,
           price \in Price, n \in Nat \ {0}, taken \in [LotId -> Nat] :
        /\ FillWritten(o, row, frz, p, price, n, taken)
        /\ order[o].side = "buy" => PurchaseFilled(o, frz, p, n)
        /\ order[o].side = "sell" => SaleFilled(o, frz, p, n, taken)
  BY FillBooks
<1>3. order[o].code \in Code /\ n \in Nat BY <1>1 DEF Order
<1>4. CASE order[o].side = "buy"
  BY <1>2, <1>3, <1>4, BoughtStays DEF PurchaseFilled
<1>5. CASE order[o].side = "sell"
  <2>1. Sold(p, order[o].code, n, taken) BY <1>1, <1>2, <1>5, SaleSells
  <2> QED BY <1>3, <2>1, SoldStays
<1> QED BY <1>1, <1>4, <1>5 DEF Order, Side

(* Tables without rows agree. *)
LEMMA NothingFrozen ==
    ASSUME NEW table, \A o \in OrderId : table[o] = Absent, NEW l \in LotId
    PROVE  Frozen(table, l) = 0
<1> DEFINE f == [o \in OrderId |-> SharesOf(table[o], l)]
<1>1. \A o \in OrderId : f[o] = 0 BY DEF SharesOf
<1> HIDE DEF f
<1>2. SumOver(f, OrderId) = 0 BY <1>1, FiniteAssumption, SumZero
<1> QED BY <1>2 DEF Frozen, f

EmptyBooks ==
    /\ order = EmptyTable(OrderId) /\ freeze = EmptyTable(OrderId)
    /\ position = EmptyTable(PositionId) /\ lot = EmptyTable(LotId)

LEMMA EmptyBooksAgree == EmptyBooks => BooksInv
<1> SUFFICES ASSUME EmptyBooks PROVE BooksInv
  OBVIOUS
<1>1. \A o \in OrderId : freeze[o] = Absent BY DEF EmptyBooks, EmptyTable
<1>2. \A l \in LotId : lot[l] = Absent BY DEF EmptyBooks, EmptyTable
<1>3. \A p \in PositionId : position[p] = Absent BY DEF EmptyBooks, EmptyTable
<1>4. LotsInv BY <1>2 DEF LotsInv, LotsInOrder, LotsHavePositions
<1>5. FreezesFitOrders BY <1>1 DEF FreezesFitOrders, FreezeFits
<1>6. PositionsFit BY <1>3 DEF PositionsFit
<1>7. SalesBacked BY <1>1 DEF SalesBacked, SaleBacked
<1>8. LotsMatchFreezes BY <1>1, <1>2, NothingFrozen DEF LotsMatchFreezes
<1> QED BY <1>4, <1>5, <1>6, <1>7, <1>8 DEF BooksInv, Agreement

LEMMA EmptyBooksAgreeNext == ASSUME EmptyBooks' PROVE BooksInv'
<1>1. \A o \in OrderId : freeze'[o] = Absent BY DEF EmptyBooks, EmptyTable
<1>2. \A l \in LotId : lot'[l] = Absent BY DEF EmptyBooks, EmptyTable
<1>3. \A p \in PositionId : position'[p] = Absent BY DEF EmptyBooks, EmptyTable
<1>4. LotsInv' BY <1>2 DEF LotsInv, LotsInOrder, LotsHavePositions
<1>5. FreezesFitOrders' BY <1>1 DEF FreezesFitOrders, FreezeFits
<1>6. PositionsFit' BY <1>3 DEF PositionsFit
<1>7. SalesBacked' BY <1>1 DEF SalesBacked, SaleBacked
<1>8. LotsMatchFreezes' BY <1>1, <1>2, NothingFrozen DEF LotsMatchFreezes
<1> QED BY <1>4, <1>5, <1>6, <1>7, <1>8 DEF BooksInv, Agreement

LEMMA QuietKeepsBooks ==
    ASSUME TypeOK, TypeOK', BooksInv, QuietStep
    PROVE  BooksInv'
<1>1. /\ order' = order /\ freeze' = freeze /\ position' = position /\ lot' = lot
      /\ crossed' = crossed /\ today <= today'
  BY DEF QuietStep, tables
<1>2. today \in Nat /\ today' \in Nat BY AccountAssumption DEF TypeOK
<1>3. RowsStay BY <1>1 DEF RowsStay, LotStays
<1>5. FreezesFitOrders' BY <1>1 DEF BooksInv, FreezesFitOrders
<1>6. ASSUME ~ crossed' PROVE LotsInv' /\ Agreement'
  <2>1. PositionsFit /\ LotsMatchFreezes /\ SalesBacked
    BY <1>1, <1>6 DEF BooksInv, Agreement
  <2>2. PositionsFit' /\ LotsMatchFreezes' BY <1>1, <2>1 DEF PositionsFit, LotsMatchFreezes
  <2>3. ASSUME NEW o \in OrderId PROVE SaleBacked(order[o], freeze[o], position, lot, today')
    <3>1. SaleBacked(order[o], freeze[o], position, lot, today) BY <2>1 DEF SalesBacked
    <3>2. \A l \in LotId : lot[l] # Absent => lot[l].sellableFrom \in Nat
      BY DEF TypeOK, Lot
    <3> QED BY <1>1, <1>2, <3>1, <3>2 DEF SaleBacked
  <2>4. SalesBacked' BY <1>1, <2>3 DEF SalesBacked
  <2>5. LotsInv' BY <1>1, <1>3, <1>6, LotsInvKept DEF BooksInv
  <2> QED BY <2>2, <2>4, <2>5 DEF Agreement
<1> QED BY <1>5, <1>6 DEF BooksInv

LEMMA BooksStep ==
    ASSUME Grounds, TypeOK', BooksInv, [Next]_vars
    PROVE  BooksInv'
<1>1. TypeOK BY DEF Grounds
<1>2. CASE ResetAccount
  <2>1. EmptyBooks' BY <1>2 DEF ResetAccount, EmptyBooks
  <2> QED BY <2>1, EmptyBooksAgreeNext
<1>3. CASE QuietStep BY <1>1, <1>3, QuietKeepsBooks
<1>4. CASE \E o \in OrderId : MarketStep(o) \/ LimitStep(o) \/ ReleaseStep(o) \/ FillStep(o)
  BY <1>4, MarketKeepsBooks, LimitKeepsBooks, ReleaseKeepsBooks, FillKeepsBooks
<1> QED BY <1>1, <1>2, <1>3, <1>4, StepKinds

LEMMA BooksInvHolds == Spec => []BooksInv
<1>1. Init => BooksInv BY EmptyBooksAgree DEF Init, EmptyBooks
<1>2. Grounds /\ Grounds' /\ BooksInv /\ [Next]_vars => BooksInv'
  <2>1. Grounds' => TypeOK' BY DEF Grounds
  <2> QED BY <2>1, BooksStep
<1> QED BY <1>1, <1>2, GroundsHold, PTL DEF Spec

(* A position holds what its lots hold, and is open while that is something, as  *)
(* long as no sale consumed lots other than those frozen for it: every fill of   *)
(* commit_market_fill and commit_limit_fill changes both by the same quantity.   *)
THEOREM PositionsFollowLots == Spec => []PositionsMatchLots
<1>1. BooksInv => PositionsMatchLots BY PositionsFitIs DEF BooksInv, Agreement
<1> QED BY <1>1, BooksInvHolds, PTL

LEMMA AgreementShows ==
    ASSUME Grounds, BooksInv
    PROVE  BooksAgree
<1>1. ASSUME Grounds, BooksInv, ~ crossed PROVE FreezesMatchLots
  <2> USE DEF Grounds
  <2>1. PositionsFit /\ LotsMatchFreezes /\ LotsInv BY <1>1 DEF BooksInv, Agreement
  <2>2. ASSUME NEW l \in LotId
        PROVE  IF lot[l] # Absent /\ IsOpen(lot[l].position)
               THEN lot[l].frozen \in 0..lot[l].remaining /\ lot[l].frozen = FrozenFor(l)
               ELSE FrozenFor(l) = 0
    <3>1. FrozenFor(l) = Frozen(freeze, l)
      BY <1>1, FrozenForIs DEF FrozenFor, TypeOK
    <3>2. Frozen(freeze, l) = IF lot[l] = Absent THEN 0 ELSE lot[l].frozen
      BY <2>1 DEF LotsMatchFreezes
    <3>3. lot[l] # Absent => lot[l].frozen \in 0..lot[l].remaining
      BY <1>1 DEF LotsWithinBounds
    <3>4. ASSUME lot[l] # Absent, ~ IsOpen(lot[l].position) PROVE lot[l].frozen = 0
      <4> DEFINE p == lot[l].position
      <4>1. p \in PositionId /\ lot[l].remaining \in Int
        BY <1>1, <3>4 DEF TypeOK, Lot
      <4>2. position[p] # Absent BY <2>1, <3>4 DEF LotsInv, LotsHavePositions
      <4>3. ~ (position[p].quantity > 0) BY <2>1, <3>4, <4>1, <4>2 DEF PositionsFit, IsOpen
      <4>4. position[p].quantity = SumOver(Left(lot, p), LotId)
        BY <2>1, <4>1, <4>2 DEF PositionsFit
      <4>5. /\ Left(lot, p)[l] \in Nat /\ SumOver(Left(lot, p), LotId) \in Nat
            /\ Left(lot, p)[l] <= SumOver(Left(lot, p), LotId)
        BY <1>1, LeftType
      <4>6. Left(lot, p)[l] = lot[l].remaining BY <3>4 DEF Left
      <4> QED BY <3>3, <3>4, <4>1, <4>3, <4>4, <4>5, <4>6
    <3> QED BY <3>1, <3>2, <3>3, <3>4
  <2> QED BY <2>2 DEF FreezesMatchLots
<1>2. ASSUME Grounds, BooksInv, ~ crossed, NEW o \in OrderId, IsActive(order[o]),
             order[o].side = "sell"
      PROVE  SumOver(freeze[o].lots, LotId) = order[o].quantity - order[o].filled
  <2>1. freeze[o] # Absent BY <1>2 DEF Grounds, OrderInv, FreezeWhileActive
  <2> QED BY <1>2, <2>1 DEF BooksInv, Agreement, SalesBacked, SaleBacked
<1> QED BY <1>1, <1>2 DEF BooksAgree

(* The rebuild's comparison of freezes and lots (check_account_consistency)      *)
(* succeeds, and an open sale has frozen what it has still to sell, as long as   *)
(* no sale consumed lots other than those frozen for it.                         *)
THEOREM BooksStayInAgreement == Spec => []BooksAgree
  BY AgreementShows, GroundsHold, BooksInvHolds, PTL
-----------------------------------------------------------------------------
(* T+1.  A market sale takes the oldest lots and no more shares than can be sold *)
(* today: a lot that cannot be sold yet is younger than all of those.            *)
LEMMA MarketSaleInTime ==
    ASSUME Grounds, LotsInOrder, NEW p \in PositionId, NEW n \in Nat,
           NEW taken \in TakesFifo(Left(lot, p), n), taken \in [LotId -> Nat],
           SumOver(taken, LotId) = n, n <= Sellable(p),
           NEW l \in LotId, taken[l] > 0
    PROVE  lot[l].sellableFrom <= today
<1> USE DEF Grounds
<1> DEFINE free == SellableLots(p)
<1>1. SUFFICES ASSUME ~ (lot[l].sellableFrom <= today) PROVE FALSE
  OBVIOUS
<1>2. \A k \in LotId : free[k] \in Nat /\ free[k] <= Left(lot, p)[k]
  BY SellableLeft
<1>3. \A k \in LotId : taken[k] \in Nat /\ k \in Nat BY AccountAssumption
<1>4. taken[l] <= Left(lot, p)[l] BY DEF TakesFifo
<1>5. lot[l] # Absent BY <1>3, <1>4 DEF Left
<1>6. ASSUME NEW k \in LotId PROVE free[k] <= taken[k] /\ (k = l => free[k] = 0)
  <2>1. CASE k < l
    <3>1. taken[k] = Left(lot, p)[k] BY <2>1 DEF TakesFifo
    <3>2. k # l BY <1>3, <2>1
    <3> QED BY <1>2, <3>1, <3>2
  <2>2. CASE ~ (k < l)
    <3>1. free[k] = 0
      <4>1. SUFFICES ASSUME lot[k] # Absent, lot[k].sellableFrom <= today PROVE FALSE
        BY DEF SellableLots, LotsOf
      <4>2. k = l \/ l < k BY <1>3, <2>2
      <4>3. lot[l].sellableFrom <= lot[k].sellableFrom
        <5>1. lot[k].sellableFrom \in Nat BY <4>1 DEF TypeOK, Lot
        <5> QED BY <4>1, <4>2, <5>1 DEF LotsInOrder
      <4>4. lot[k].sellableFrom \in Nat /\ lot[l].sellableFrom \in Nat /\ today \in Nat
        BY <1>5, <4>1, AccountAssumption DEF TypeOK, Lot
      <4> QED BY <1>1, <4>1, <4>3, <4>4
    <3> QED BY <1>3, <3>1
  <2> QED BY <2>1, <2>2
<1>7. Sellable(p) = SumOver(free, LotId) BY DEF Sellable
<1> HIDE DEF free
<1>8. \A k \in LotId : free[k] \in Int /\ taken[k] \in Int /\ free[k] <= taken[k]
  BY <1>2, <1>3, <1>6
<1>9. /\ SumOver(free, LotId) \in Int /\ SumOver(taken, LotId) \in Int
      /\ SumOver(free, LotId) <= SumOver(taken, LotId)
      /\ SumOver(free, LotId) = SumOver(taken, LotId) => \A k \in LotId : free[k] = taken[k]
  BY <1>8, FiniteAssumption, SumMonotone
<1>10. free[l] = taken[l] BY <1>7, <1>9
<1> QED BY <1>3, <1>6, <1>10

NoEarlySale ==
    ~ crossed' => \A l \in LotId :
      lot[l] # Absent /\ lot'[l] # Absent /\ lot'[l].remaining < lot[l].remaining
         => lot[l].sellableFrom <= today

LEMMA NoEarlySaleStep ==
    ASSUME Grounds, BooksInv, [Next]_vars
    PROVE  NoEarlySale
<1> USE DEF Grounds
<1>1. SUFFICES ASSUME ~ crossed', NEW l \in LotId, lot[l] # Absent, lot'[l] # Absent,
                      lot'[l].remaining < lot[l].remaining
               PROVE  lot[l].sellableFrom <= today
  BY DEF NoEarlySale
<1>2. lot[l].remaining \in Int BY <1>1 DEF TypeOK, Lot
<1>3. lot'[l] # lot[l] BY <1>1, <1>2
<1>4. ASSUME NEW p \in PositionId, NEW c \in Code, NEW n \in Nat, Bought(p, c, n) PROVE FALSE
  <2>1. PICK k \in LotId : lot[k] = Absent /\ \A i \in LotId \ {k} : lot'[i] = lot[i]
    BY <1>4, BoughtLots
  <2> QED BY <1>1, <1>3, <2>1
<1>5. ASSUME NEW p \in PositionId, NEW taken \in [LotId -> Nat],
             \A k \in LotId : taken[k] <= Left(lot, p)[k], lot' = LotsAfterSale(taken)
      PROVE  taken[l] > 0
  <2>1. lot'[l].remaining = lot[l].remaining - taken[l] BY <1>1, <1>5, SoldLots
  <2> QED BY <1>1, <1>2, <1>5, <2>1
<1>6. ASSUME NEW o \in OrderId, MarketStep(o) PROVE lot[l].sellableFrom <= today
  <2>1. PICK row \in Order, p \in PositionId, price \in Price, n \in Nat \ {0},
             taken \in [LotId -> Nat] :
          MarketWritten(o, row, p, price, n, taken) /\ MarketGuarded(row, p, price, n, taken)
    BY <1>6, MarketBooks
  <2>2. row.side = "sell" /\ n \in Nat
    BY <1>4, <2>1 DEF MarketWritten, Order, Side
  <2>3. Sold(p, row.code, n, taken) /\ taken \in TakesFifo(Left(lot, p), n) /\ n <= Sellable(p)
    BY <2>1, <2>2 DEF MarketWritten, MarketGuarded
  <2>4. /\ \A k \in LotId : taken[k] <= Left(lot, p)[k]
        /\ lot' = LotsAfterSale(taken) /\ SumOver(taken, LotId) = n
    BY <2>3 DEF Sold
  <2>5. taken[l] > 0 BY <1>5, <2>4
  <2>6. ~ crossed BY <1>1, <2>1 DEF MarketWritten
  <2>7. LotsInOrder BY <2>6 DEF BooksInv, LotsInv
  <2> QED BY <2>2, <2>3, <2>4, <2>5, <2>7, MarketSaleInTime
<1>7. ASSUME NEW o \in OrderId, FillStep(o) PROVE lot[l].sellableFrom <= today
  <2>1. /\ order[o] \in Order /\ freeze[o] \in Freeze /\ freeze[o] # Absent
        /\ order[o].filled \in 0..order[o].quantity
    BY <1>7, FillBooks
  <2>2. PICK row \in Order, frz \in Freeze \cup {Absent}, p \in PositionId,
             price \in Price, n \in Nat \ {0}, taken \in [LotId -> Nat] :
          /\ FillWritten(o, row, frz, p, price, n, taken)
          /\ order[o].side = "buy" => PurchaseFilled(o, frz, p, n)
          /\ order[o].side = "sell" => SaleFilled(o, frz, p, n, taken)
    BY <1>7, FillBooks
  <2>3. order[o].side = "sell"
    <3>1. ASSUME order[o].side = "buy" PROVE FALSE
      <4>1. Bought(p, order[o].code, n) BY <2>2, <3>1 DEF PurchaseFilled
      <4>2. order[o].code \in Code /\ n \in Nat BY <2>1 DEF Order
      <4> QED BY <1>4, <4>1, <4>2
    <3> QED BY <2>1, <3>1 DEF Order, Side
  <2>4. order[o].position \in PositionId
    BY <2>1, <2>3 DEF BooksInv, FreezesFitOrders, FreezeFits
  <2>5. /\ p = order[o].position
        /\ taken \in TakesFifo(Left(lot, p), n) /\ lot' = LotsAfterSale(taken)
        /\ ~ crossed /\ \A k \in LotId : ~ (taken[k] > freeze[o].lots[k])
    BY <1>1, <2>2, <2>3, <2>4, AbsentAssumption DEF SaleFilled
  <2>6. \A k \in LotId : freeze[o].lots[k] \in Nat BY <2>1 DEF Freeze
  <2>7. \A k \in LotId : taken[k] <= freeze[o].lots[k] BY <2>5, <2>6
  <2>8. n <= order[o].quantity - order[o].filled BY <2>2 DEF FillWritten
  <2>9. Agreement BY <2>5 DEF BooksInv
  <2>10. /\ \A k \in LotId : taken[k] <= Left(lot, p)[k]
         /\ \A k \in LotId : freeze[o].lots[k] > 0 => lot[k].sellableFrom <= today
    BY <2>1, <2>3, <2>4, <2>5, <2>7, <2>8, <2>9, BackedSale
  <2>11. taken[l] > 0 BY <1>5, <2>5, <2>10
  <2> QED BY <2>6, <2>7, <2>10, <2>11
<1>8. ASSUME NEW o \in OrderId, LimitStep(o) PROVE FALSE
  <2>1. PICK row \in Order, frz \in Freeze : LimitWritten(o, row, frz) /\ FrozenRight(row, frz)
    BY <1>8, LimitBooks
  <2>2. lot'[l].remaining = lot[l].remaining BY <1>1, <2>1, LimitLots
  <2> QED BY <1>1, <1>2, <2>2
<1>9. ASSUME NEW o \in OrderId, ReleaseStep(o) PROVE FALSE
  <2>1. order[o] \in Order /\ freeze[o] \in Freeze /\ freeze[o] # Absent BY <1>9, ReleaseBooks
  <2>2. lot' = LotsAfterRelease(order[o], freeze[o])
    BY <1>9, ReleaseBooks DEF ReleaseWritten
  <2>3. lot'[l].remaining = lot[l].remaining BY <1>1, <2>1, <2>2, ReleaseLots
  <2> QED BY <1>1, <1>2, <2>3
<1>10. CASE ResetAccount BY <1>1, <1>10 DEF ResetAccount, EmptyTable
<1>11. CASE QuietStep BY <1>3, <1>11 DEF QuietStep, tables
<1> QED BY <1>6, <1>7, <1>8, <1>9, <1>10, <1>11, StepKinds

(* Shares are not sold before the trade date they became sellable, though       *)
(* consume_lots_fifo does not look at dates, as long as no sale consumed lots    *)
(* other than those frozen for it.                                              *)
THEOREM SharesAreSoldInTime == Spec => NoSaleBeforeSellable
<1>1. Grounds /\ BooksInv /\ [Next]_vars => [NoEarlySale]_vars
  BY NoEarlySaleStep
<1> QED BY <1>1, GroundsHold, BooksInvHolds, PTL DEF Spec, NoSaleBeforeSellable, NoEarlySale
-----------------------------------------------------------------------------
(* The fees.  Rounding moves an amount by half a unit at most.                  *)
LEMMA ScaledOrder ==
    ASSUME NEW a \in Nat \ {0}, NEW x \in Int, NEW y \in Int, a * x < a * y
    PROVE  x < y
<1>1. SUFFICES ASSUME y <= x PROVE FALSE
  OBVIOUS
<1>2. x - y \in Nat BY <1>1
<1>3. a * (x - y) >= 0 BY <1>2
<1>4. a * (x - y) = a * x - a * y OBVIOUS
<1> QED BY <1>3, <1>4

LEMMA Division ==
    ASSUME NEW n \in Nat
    PROVE  /\ n \div RateScale \in Nat
           /\ n % RateScale \in Nat
           /\ n % RateScale < RateScale
           /\ n = RateScale * (n \div RateScale) + (n % RateScale)
  BY FeeAssumption

LEMMA RoundedIs ==
    ASSUME NEW n \in Nat
    PROVE  \E whole \in Nat, rest \in Nat :
             /\ whole = n \div RateScale
             /\ n = RateScale * whole + rest /\ rest < RateScale
             /\ Rounded(n) = IF 2 * rest > RateScale \/ (2 * rest = RateScale /\ whole % 2 = 1)
                             THEN whole + 1 ELSE whole
<1>1. n \div RateScale \in Nat /\ n % RateScale \in Nat /\ n % RateScale < RateScale
      /\ n = RateScale * (n \div RateScale) + (n % RateScale)
  BY Division
<1> DEFINE whole == n \div RateScale
           rest == n % RateScale
<1>2. /\ whole = n \div RateScale
      /\ Rounded(n) = IF 2 * rest > RateScale \/ (2 * rest = RateScale /\ whole % 2 = 1)
                      THEN whole + 1 ELSE whole
  BY DEF Rounded
<1>3. whole \in Nat /\ rest \in Nat /\ rest < RateScale /\ n = RateScale * whole + rest
  BY <1>1
<1> HIDE DEF whole, rest
<1> QED BY <1>2, <1>3

LEMMA RoundedNear ==
    ASSUME NEW n \in Nat
    PROVE  /\ Rounded(n) \in Nat
           /\ 2 * n - RateScale <= 2 * (RateScale * Rounded(n))
           /\ 2 * (RateScale * Rounded(n)) <= 2 * n + RateScale
<1>1. PICK whole \in Nat, rest \in Nat :
        /\ n = RateScale * whole + rest /\ rest < RateScale
        /\ Rounded(n) = IF 2 * rest > RateScale \/ (2 * rest = RateScale /\ whole % 2 = 1)
                        THEN whole + 1 ELSE whole
  BY RoundedIs
<1>2. RateScale \in Nat \ {0} BY FeeAssumption
<1>3. RateScale * (whole + 1) = RateScale * whole + RateScale BY <1>2
<1>4. RateScale * whole \in Nat BY <1>2
<1>5. CASE 2 * rest > RateScale \/ (2 * rest = RateScale /\ whole % 2 = 1)
  <2>1. Rounded(n) = whole + 1 BY <1>1, <1>5
  <2>2. 2 * rest >= RateScale BY <1>2, <1>5
  <2>3. Rounded(n) \in Nat BY <2>1
  <2>4. RateScale * Rounded(n) = RateScale * whole + RateScale BY <1>3, <2>1
  <2> HIDE DEF Rounded
  <2> QED BY <1>1, <1>2, <1>4, <2>2, <2>3, <2>4
<1>6. CASE ~ (2 * rest > RateScale \/ (2 * rest = RateScale /\ whole % 2 = 1))
  <2>1. Rounded(n) = whole BY <1>1, <1>6
  <2>2. 2 * rest <= RateScale BY <1>2, <1>6
  <2> QED BY <1>1, <1>2, <1>4, <2>1, <2>2
<1> QED BY <1>5, <1>6

LEMMA RoundedMonotone ==
    ASSUME NEW m \in Nat, NEW n \in Nat, m <= n
    PROVE  Rounded(m) <= Rounded(n)
<1>1. PICK w \in Nat, r \in Nat :
        /\ m = RateScale * w + r /\ r < RateScale
        /\ Rounded(m) = IF 2 * r > RateScale \/ (2 * r = RateScale /\ w % 2 = 1)
                        THEN w + 1 ELSE w
  BY RoundedIs
<1>2. PICK v \in Nat, s \in Nat :
        /\ n = RateScale * v + s /\ s < RateScale
        /\ Rounded(n) = IF 2 * s > RateScale \/ (2 * s = RateScale /\ v % 2 = 1)
                        THEN v + 1 ELSE v
  BY RoundedIs
<1>3. RateScale \in Nat \ {0} BY FeeAssumption
<1>4. RateScale * (v + 1) = RateScale * v + RateScale BY <1>3
<1>5. RateScale * w \in Nat /\ RateScale * v \in Nat BY <1>3
<1>6. RateScale * w < RateScale * (v + 1) BY <1>1, <1>2, <1>3, <1>4, <1>5
<1>7. w < v + 1 BY <1>3, <1>6, ScaledOrder
<1>8. CASE w = v
  <2>1. r <= s BY <1>1, <1>2, <1>5, <1>8
  <2> QED BY <1>1, <1>2, <1>3, <1>8, <2>1
<1>9. CASE w < v
  BY <1>1, <1>2, <1>9
<1> QED BY <1>7, <1>8, <1>9

(* Two amounts rounded apart come to one unit more at most than rounded together. *)
LEMMA RoundedSplit ==
    ASSUME NEW m \in Nat, NEW n \in Nat
    PROVE  Rounded(m) + Rounded(n) <= Rounded(m + n) + 1
<1> DEFINE a == Rounded(m)
           b == Rounded(n)
           c == Rounded(m + n)
<1>1. a \in Nat /\ b \in Nat /\ c \in Nat
  BY RoundedNear
<1>2. 2 * (RateScale * a) <= 2 * m + RateScale /\ 2 * (RateScale * b) <= 2 * n + RateScale
  BY RoundedNear
<1>3. 2 * (m + n) - RateScale <= 2 * (RateScale * c)
  <2>1. m + n \in Nat OBVIOUS
  <2> QED BY <2>1, RoundedNear
<1> HIDE DEF a, b, c
<1>4. RateScale \in Nat \ {0} BY FeeAssumption
<1>5. RateScale * (a + b) = RateScale * a + RateScale * b BY <1>1, <1>4
<1>6. RateScale * (c + 2) = RateScale * c + 2 * RateScale BY <1>1, <1>4
<1>7. RateScale * a \in Nat /\ RateScale * b \in Nat /\ RateScale * c \in Nat BY <1>1, <1>4
<1>8. RateScale * (a + b) < RateScale * (c + 2) BY <1>2, <1>3, <1>4, <1>5, <1>6, <1>7
<1>9. a + b < c + 2 BY <1>1, <1>4, <1>8, ScaledOrder
<1> QED BY <1>1, <1>9 DEF a, b, c

LEMMA CommissionFacts ==
    ASSUME NEW m \in Nat, NEW n \in Nat
    PROVE  /\ Commission(m) \in Nat
           /\ MinCommission <= Commission(m)
           /\ m <= n => Commission(m) <= Commission(n)
           /\ Commission(m) + Commission(n) <= Commission(m + n) + MinCommission
<1> DEFINE a == Rounded(m * CommissionRate)
           b == Rounded(n * CommissionRate)
           c == Rounded((m + n) * CommissionRate)
<1>1. m * CommissionRate \in Nat /\ n * CommissionRate \in Nat
      /\ (m + n) * CommissionRate = m * CommissionRate + n * CommissionRate
  BY FeeAssumption
<1>2. (m + n) * CommissionRate \in Nat BY <1>1
<1>3. a \in Nat /\ b \in Nat /\ c \in Nat BY <1>1, <1>2, RoundedNear
<1>4. m <= n => a <= b
  <2>1. ASSUME m <= n PROVE m * CommissionRate <= n * CommissionRate
    <3>1. n - m \in Nat BY <2>1
    <3>2. (n - m) * CommissionRate \in Nat BY <3>1, FeeAssumption
    <3>3. (n - m) * CommissionRate = n * CommissionRate - m * CommissionRate BY FeeAssumption
    <3> QED BY <1>1, <3>2, <3>3
  <2> QED BY <1>1, <2>1, RoundedMonotone
<1>5. a <= c /\ b <= c
  <2>1. m * CommissionRate <= (m + n) * CommissionRate
        /\ n * CommissionRate <= (m + n) * CommissionRate
    BY <1>1
  <2> QED BY <1>1, <1>2, <2>1, RoundedMonotone
<1>6. a + b <= c + 1
  <2>1. Rounded(m * CommissionRate) + Rounded(n * CommissionRate)
          <= Rounded(m * CommissionRate + n * CommissionRate) + 1
    BY <1>1, RoundedSplit
  <2> QED BY <1>1, <2>1
<1>7. /\ Commission(m) = IF a < MinCommission THEN MinCommission ELSE a
      /\ Commission(n) = IF b < MinCommission THEN MinCommission ELSE b
      /\ Commission(m + n) = IF c < MinCommission THEN MinCommission ELSE c
  BY DEF Commission
<1>8. MinCommission \in Nat \ {0} BY FeeAssumption
<1> HIDE DEF a, b, c
<1> QED BY <1>3, <1>4, <1>5, <1>6, <1>7, <1>8

(* A sale costs the account the least commission at most. *)
LEMMA SaleCosts ==
    ASSUME NEW price \in Nat, NEW n \in Nat
    PROVE  /\ CashDelta("sell", price, n) \in Int
           /\ - MinCommission <= CashDelta("sell", price, n)
<1> DEFINE amount == price * n
           a == Rounded(amount * CommissionRate)
           b == Rounded(amount * StampTaxRate)
<1>1. amount \in Nat OBVIOUS
<1>2. CashDelta("sell", price, n) = amount - Commission(amount) - b
  BY DEF CashDelta, StampTax
<1>3. Commission(amount) = IF a < MinCommission THEN MinCommission ELSE a
  BY DEF Commission
<1> HIDE DEF amount
<1>4. /\ MinCommission \in Nat \ {0} /\ RateScale \in Nat \ {0}
      /\ CommissionRate \in Nat /\ StampTaxRate \in Nat
      /\ CommissionRate + StampTaxRate <= RateScale
  BY FeeAssumption
<1>5. amount * CommissionRate \in Nat /\ amount * StampTaxRate \in Nat
  BY <1>1, <1>4
<1>6. /\ a \in Nat /\ b \in Nat
      /\ 2 * (RateScale * a) <= 2 * (amount * CommissionRate) + RateScale
      /\ 2 * (RateScale * b) <= 2 * (amount * StampTaxRate) + RateScale
  BY <1>5, RoundedNear
<1>7. amount * CommissionRate + amount * StampTaxRate <= RateScale * amount
  <2>1. amount * (RateScale - CommissionRate - StampTaxRate) \in Nat
    <3>1. RateScale - CommissionRate - StampTaxRate \in Nat BY <1>4
    <3> QED BY <1>1, <3>1
  <2>2. amount * (RateScale - CommissionRate - StampTaxRate)
          = RateScale * amount - amount * CommissionRate - amount * StampTaxRate
    BY <1>1, <1>4
  <2>3. RateScale * amount \in Nat BY <1>1, <1>4
  <2> QED BY <1>5, <2>1, <2>2, <2>3
<1> HIDE DEF a, b
<1>8. a + b <= amount + 1
  <2>1. RateScale * (a + b) = RateScale * a + RateScale * b BY <1>4, <1>6
  <2>2. RateScale * (amount + 2) = RateScale * amount + 2 * RateScale BY <1>1, <1>4
  <2>3. RateScale * a \in Nat /\ RateScale * b \in Nat /\ RateScale * amount \in Nat
    BY <1>1, <1>4, <1>6
  <2>4. RateScale * (a + b) < RateScale * (amount + 2)
    BY <1>4, <1>5, <1>6, <1>7, <2>1, <2>2, <2>3
  <2>5. a + b < amount + 2 BY <1>1, <1>4, <1>6, <2>4, ScaledOrder
  <2> QED BY <1>1, <1>6, <2>5
<1>9. b <= amount
  <2>1. RateScale * (amount + 1) = RateScale * amount + RateScale BY <1>1, <1>4
  <2>2. RateScale * b \in Nat /\ RateScale * amount \in Nat BY <1>1, <1>4, <1>6
  <2>3. RateScale * b < RateScale * (amount + 1)
    BY <1>4, <1>5, <1>6, <1>7, <2>1, <2>2
  <2>4. b < amount + 1 BY <1>1, <1>4, <1>6, <2>3, ScaledOrder
  <2> QED BY <1>1, <1>6, <2>4
<1> QED BY <1>1, <1>2, <1>3, <1>4, <1>6, <1>8, <1>9

(* A fill of a limit purchase, with what is frozen for the rest, costs the least *)
(* commission more than was frozen for it, at most.                             *)
LEMMA PurchaseCosts ==
    ASSUME NEW limit \in Nat, NEW price \in Nat, price <= limit,
           NEW rest \in Nat, NEW n \in Nat, n <= rest
    PROVE  /\ EstimatedBuyCost(limit, rest) \in Nat
           /\ CashDelta("buy", price, n) \in Int
           /\ 0 <= CashDelta("buy", price, n) + EstimatedBuyCost(limit, rest)
           /\ EstimatedBuyCost(limit, rest - n)
                <= CashDelta("buy", price, n) + EstimatedBuyCost(limit, rest) + MinCommission
           /\ EstimatedBuyCost(limit, rest - n) <= EstimatedBuyCost(limit, rest)
<1> DEFINE paid == price * n
           most == limit * n
           later == limit * (rest - n)
<1>1. paid \in Nat /\ most \in Nat OBVIOUS
<1>2. later \in Nat
  <2>1. rest - n \in Nat OBVIOUS
  <2> QED BY <2>1
<1>3. paid <= most
  <2>1. limit - price \in Nat OBVIOUS
  <2>2. (limit - price) * n \in Nat BY <2>1
  <2>3. (limit - price) * n = most - paid OBVIOUS
  <2> QED BY <1>1, <2>2, <2>3
<1>4. limit * rest = most + later
  <2>1. rest - n \in Int OBVIOUS
  <2> QED BY <2>1
<1>5. /\ CashDelta("buy", price, n) = - paid - Commission(paid)
      /\ EstimatedBuyCost(limit, rest) = (most + later) + Commission(most + later)
      /\ EstimatedBuyCost(limit, rest - n) = later + Commission(later)
  BY <1>4 DEF CashDelta, EstimatedBuyCost
<1> HIDE DEF paid, most, later
<1>6. most + later \in Nat /\ most <= most + later /\ later <= most + later BY <1>1, <1>2
<1>7. /\ Commission(paid) \in Nat /\ Commission(most) \in Nat /\ Commission(later) \in Nat
      /\ Commission(most + later) \in Nat
      /\ Commission(paid) <= Commission(most)
      /\ Commission(most) <= Commission(most + later)
      /\ Commission(later) <= Commission(most + later)
      /\ Commission(most) + Commission(later) <= Commission(most + later) + MinCommission
  BY <1>1, <1>2, <1>3, <1>6, CommissionFacts
<1>8. MinCommission \in Nat BY FeeAssumption
<1> QED BY <1>1, <1>2, <1>3, <1>5, <1>7, <1>8

(* What the freezes hold in cash, and what ShortfallBounded allows for the fees. *)
CashOf(frz) == IF frz = Absent THEN 0 ELSE frz.cash

Held(table) == SumOver([o \in OrderId |-> CashOf(table[o])], OrderId)

Charged(row) ==
    IF row # Absent /\ (row.side = "sell" \/ row.type = "limit")
    THEN row.filled * Commission(row.limit) ELSE 0

Charges(table) == SumOver([o \in OrderId |-> Charged(table[o])], OrderId)

LEMMA HeldType ==
    ASSUME NEW table \in [OrderId -> Freeze \cup {Absent}]
    PROVE  Held(table) \in Int
<1> DEFINE f == [o \in OrderId |-> CashOf(table[o])]
<1>1. \A o \in OrderId : f[o] \in Int BY DEF CashOf, Freeze
<1>2. Held(table) = SumOver(f, OrderId) BY DEF Held
<1> HIDE DEF f
<1> QED BY <1>1, <1>2, FiniteAssumption, SumType

LEMMA HeldWritten ==
    ASSUME NEW table \in [OrderId -> Freeze \cup {Absent}], NEW o \in OrderId,
           NEW frz \in Freeze \cup {Absent}
    PROVE  /\ Held(table) \in Int
           /\ Held([table EXCEPT ![o] = frz]) = Held(table) - CashOf(table[o]) + CashOf(frz)
<1> DEFINE after == [table EXCEPT ![o] = frz]
           f == [i \in OrderId |-> CashOf(table[i])]
           g == [i \in OrderId |-> CashOf(after[i])]
<1>1. \A i \in OrderId : after[i] = IF i = o THEN frz ELSE table[i]
  OBVIOUS
<1>2. \A i \in OrderId : f[i] = CashOf(table[i]) /\ g[i] = CashOf(after[i])
  OBVIOUS
<1>3. Held(table) = SumOver(f, OrderId) /\ Held(after) = SumOver(g, OrderId)
  BY DEF Held
<1> HIDE DEF after, f, g
<1>4. \A i \in OrderId : f[i] \in Int /\ g[i] \in Int
  BY <1>1, <1>2 DEF CashOf, Freeze
<1>5. \A i \in OrderId \ {o} : g[i] = f[i]
  BY <1>1, <1>2
<1>6. SumOver(g, OrderId) = SumOver(f, OrderId) - f[o] + g[o]
  BY <1>4, <1>5, FiniteAssumption, SumChanged
<1>8. \A i \in OrderId : f[i] \in Int BY <1>4
<1>9. SumOver(f, OrderId) \in Int BY <1>8, FiniteAssumption, SumType
<1>7. f[o] = CashOf(table[o]) /\ g[o] = CashOf(frz) BY <1>1, <1>2
<1> QED BY <1>3, <1>6, <1>7, <1>9 DEF after

(* No order was filled by less than nothing. *)
FilledNat(row) == row # Absent => row.filled \in Nat

LEMMA ChargedType ==
    ASSUME NEW row \in Order \cup {Absent}, FilledNat(row)
    PROVE  Charged(row) \in Nat
<1>1. CASE row = Absent BY <1>1 DEF Charged
<1>2. CASE row # Absent
  <2>1. row.filled \in Nat /\ row.limit \in Nat BY <1>2 DEF FilledNat, Order
  <2>2. Commission(row.limit) \in Nat BY <2>1, CommissionFacts
  <2>3. row.filled * Commission(row.limit) \in Nat BY <2>1, <2>2
  <2> QED BY <2>3 DEF Charged
<1> QED BY <1>1, <1>2

LEMMA ChargesType ==
    ASSUME NEW table \in [OrderId -> Order \cup {Absent}],
           \A o \in OrderId : FilledNat(table[o])
    PROVE  Charges(table) \in Nat
<1> DEFINE f == [o \in OrderId |-> Charged(table[o])]
<1>1. \A o \in OrderId : f[o] \in Nat BY ChargedType
<1>2. Charges(table) = SumOver(f, OrderId) BY DEF Charges
<1> HIDE DEF f
<1> QED BY <1>1, <1>2, FiniteAssumption, SumNat

LEMMA ChargesWritten ==
    ASSUME NEW table \in [OrderId -> Order \cup {Absent}], NEW o \in OrderId,
           \A i \in OrderId : FilledNat(table[i]),
           NEW row \in Order, FilledNat(row)
    PROVE  /\ Charges(table) \in Nat
           /\ Charges([table EXCEPT ![o] = row]) = Charges(table) - Charged(table[o]) + Charged(row)
<1> DEFINE after == [table EXCEPT ![o] = row]
           f == [i \in OrderId |-> Charged(table[i])]
           g == [i \in OrderId |-> Charged(after[i])]
<1>1. \A i \in OrderId : after[i] = IF i = o THEN row ELSE table[i]
  OBVIOUS
<1>2. \A i \in OrderId : f[i] = Charged(table[i]) /\ g[i] = Charged(after[i])
  OBVIOUS
<1>3. Charges(table) = SumOver(f, OrderId) /\ Charges(after) = SumOver(g, OrderId)
  BY DEF Charges
<1> HIDE DEF after, f, g
<1>4. \A i \in OrderId : f[i] \in Nat BY <1>2, ChargedType
<1>5. Charged(row) \in Nat BY ChargedType
<1>6. \A i \in OrderId : f[i] \in Int /\ g[i] \in Int
  BY <1>1, <1>2, <1>4, <1>5
<1>7. \A i \in OrderId \ {o} : g[i] = f[i]
  BY <1>1, <1>2
<1>8. SumOver(g, OrderId) = SumOver(f, OrderId) - f[o] + g[o]
  BY <1>6, <1>7, FiniteAssumption, SumChanged
<1>9. SumOver(f, OrderId) \in Nat BY <1>4, FiniteAssumption, SumNat
<1>10. f[o] = Charged(table[o]) /\ g[o] = Charged(row) BY <1>1, <1>2
<1> QED BY <1>3, <1>8, <1>9, <1>10 DEF after

(* ShortfallBounded in these words: a freeze lives only with its order. *)
ShortfallInv == Held(freeze) <= cash + Charges(order)

LEMMA FrozenCashIs ==
    ASSUME TypeOK, FreezeWhileActive
    PROVE  TotalFrozenCash = Held(freeze)
<1> DEFINE T == {o \in OrderId : freeze[o] # Absent /\ order[o] # Absent
                             /\ order[o].status \in {"pending", "partially_filled"}}
           f == [o \in OrderId |-> freeze[o].cash]
           g == [o \in OrderId |-> CashOf(freeze[o])]
<1>1. \A o \in OrderId : o \in T <=> freeze[o] # Absent
  BY DEF FreezeWhileActive, IsActive
<1>2. \A o \in T : f[o] \in Int /\ g[o] = f[o]
  BY DEF TypeOK, Freeze, CashOf
<1>3. \A o \in OrderId \ T : g[o] = 0
  BY <1>1 DEF CashOf
<1>4. T \subseteq OrderId OBVIOUS
<1>5. TotalFrozenCash = SumOver(f, T) /\ Held(freeze) = SumOver(g, OrderId)
  BY DEF TotalFrozenCash, Held
<1> HIDE DEF T, f, g
<1> QED BY <1>2, <1>3, <1>4, <1>5, FiniteAssumption, SumPadded

LEMMA OrdersFilledNat ==
    ASSUME OrdersSound, NEW o \in OrderId
    PROVE  FilledNat(order[o])
  BY DEF OrdersSound, RowSound, FilledNat

LEMMA ChargesAre ==
    ASSUME TypeOK, OrdersSound
    PROVE  SumOver([o \in OrderId |-> order[o].filled * Commission(order[o].limit)],
                   {o \in OrderId : order[o] # Absent
                                    /\ (order[o].side = "sell" \/ order[o].type = "limit")})
             = Charges(order)
<1> DEFINE T == {o \in OrderId : order[o] # Absent
                                 /\ (order[o].side = "sell" \/ order[o].type = "limit")}
           f == [o \in OrderId |-> order[o].filled * Commission(order[o].limit)]
           g == [o \in OrderId |-> Charged(order[o])]
<1>1. \A o \in OrderId : Charged(order[o]) \in Nat
  BY OrdersFilledNat, ChargedType DEF TypeOK
<1>2. \A o \in T : f[o] = Charged(order[o]) /\ g[o] = Charged(order[o])
  BY DEF Charged
<1>3. \A o \in T : f[o] \in Int /\ g[o] = f[o]
  BY <1>1, <1>2
<1>4. \A o \in OrderId \ T : g[o] = 0
  BY DEF Charged
<1>5. T \subseteq OrderId OBVIOUS
<1>6. Charges(order) = SumOver(g, OrderId) BY DEF Charges
<1> HIDE DEF T, f, g
<1>7. SumOver(g, OrderId) = SumOver(f, T)
  BY <1>3, <1>4, <1>5, FiniteAssumption, SumPadded
<1> QED BY <1>6, <1>7 DEF T, f

LEMMA ShortfallIs ==
    ASSUME TypeOK, OrderInv
    PROVE  ShortfallBounded <=> ShortfallInv
  BY FrozenCashIs, ChargesAre DEF ShortfallBounded, ShortfallInv, OrderInv

(* What a write of an order, and of its freeze, does to the two sums. *)
LEMMA SumsAfterWrite ==
    ASSUME TypeOK, OrdersSound, NEW o \in OrderId, NEW row \in Order, FilledNat(row),
           NEW frz \in Freeze \cup {Absent},
           order' = [order EXCEPT ![o] = row],
           freeze' = [freeze EXCEPT ![o] = frz] \/ (freeze' = freeze /\ frz = freeze[o])
    PROVE  /\ Held(freeze) \in Int /\ Charges(order) \in Nat
           /\ Charged(order[o]) \in Nat /\ Charged(row) \in Nat
           /\ Held(freeze)' = Held(freeze) - CashOf(freeze[o]) + CashOf(frz)
           /\ Charges(order)' = Charges(order) - Charged(order[o]) + Charged(row)
<1>1. \A i \in OrderId : FilledNat(order[i]) BY OrdersFilledNat
<1>2. order \in [OrderId -> Order \cup {Absent}] /\ freeze \in [OrderId -> Freeze \cup {Absent}]
  BY DEF TypeOK
<1>3. /\ Charges(order) \in Nat
      /\ Charges([order EXCEPT ![o] = row]) = Charges(order) - Charged(order[o]) + Charged(row)
  BY <1>1, <1>2, ChargesWritten
<1>4. Charges(order)' = Charges(order') BY DEF Charges
<1>5. Held(freeze)' = Held(freeze') BY DEF Held
<1>6. /\ Held(freeze) \in Int
      /\ Held([freeze EXCEPT ![o] = frz]) = Held(freeze) - CashOf(freeze[o]) + CashOf(frz)
  BY <1>2, HeldWritten
<1>7. CashOf(freeze[o]) \in Int BY <1>2 DEF CashOf, Freeze
<1>8. Held(freeze') = Held(freeze) - CashOf(freeze[o]) + CashOf(frz)
  BY <1>6, <1>7
<1>9. Charged(row) \in Nat /\ Charged(order[o]) \in Nat
  BY <1>1, <1>2, ChargedType
<1> QED BY <1>3, <1>4, <1>5, <1>6, <1>8, <1>9

(* A market order: a purchase was affordable, a sale costs no more than what is  *)
(* allowed for it.                                                             *)
LEMMA MarketKeepsShortfall ==
    ASSUME Grounds, ShortfallInv,
           NEW o \in OrderId, NEW row \in Order, NEW p \in PositionId,
           NEW price \in Price, NEW n \in Nat \ {0}, NEW taken \in [LotId -> Nat],
           order[o] = Absent, MarketWritten(o, row, p, price, n, taken),
           row.side = "buy" => EstimatedBuyCost(price, n) <= cash - Held(freeze)
    PROVE  ShortfallInv'
<1> USE DEF Grounds
<1>1. /\ order' = [order EXCEPT ![o] = row] /\ freeze' = freeze /\ row.type = "market"
      /\ row.filled = n /\ cash' = cash + CashDelta(row.side, price, n)
  BY DEF MarketWritten
<1>2. price \in Nat /\ row.side \in Side /\ row.limit \in Nat
  BY AccountAssumption DEF Order
<1>3. FilledNat(row) BY <1>1 DEF FilledNat
<1>4. freeze[o] \in Freeze \cup {Absent} BY DEF TypeOK
<1>5. /\ Held(freeze) \in Int /\ Charges(order) \in Nat
      /\ Charged(order[o]) \in Nat /\ Charged(row) \in Nat
      /\ Held(freeze)' = Held(freeze) - CashOf(freeze[o]) + CashOf(freeze[o])
      /\ Charges(order)' = Charges(order) - Charged(order[o]) + Charged(row)
  BY <1>1, <1>3, <1>4, SumsAfterWrite DEF OrderInv
<1>6. CashOf(freeze[o]) \in Int BY <1>4 DEF CashOf, Freeze
<1>7. Charged(order[o]) = 0 BY DEF Charged
<1>8. cash \in Int BY DEF TypeOK
<1>9. Held(freeze)' = Held(freeze) BY <1>5, <1>6
<1>10. CASE row.side = "buy"
  <2>1. CashDelta("buy", price, n) = - EstimatedBuyCost(price, n)
    <3>1. price * n \in Nat BY <1>2
    <3>2. Commission(price * n) \in Int BY <3>1, CommissionType
    <3> QED BY <3>1, <3>2 DEF CashDelta, EstimatedBuyCost
  <2>2. EstimatedBuyCost(price, n) \in Int BY <1>2, CostType
  <2> QED BY <1>1, <1>5, <1>7, <1>8, <1>9, <1>10, <2>1, <2>2 DEF ShortfallInv
<1>11. CASE row.side = "sell"
  <2>1. CashDelta("sell", price, n) \in Int /\ - MinCommission <= CashDelta("sell", price, n)
    BY <1>2, SaleCosts
  <2>2. MinCommission \in Nat /\ MinCommission <= Charged(row)
    <3>1. MinCommission \in Nat /\ Commission(row.limit) \in Nat
          /\ MinCommission <= Commission(row.limit)
      BY <1>2, CommissionFacts, FeeAssumption
    <3>2. Commission(row.limit) <= n * Commission(row.limit)
      <4>1. n - 1 \in Nat OBVIOUS
      <4>2. (n - 1) * Commission(row.limit) \in Nat BY <3>1, <4>1
      <4>3. (n - 1) * Commission(row.limit) = n * Commission(row.limit) - Commission(row.limit)
        BY <3>1
      <4>4. n * Commission(row.limit) \in Nat BY <3>1
      <4> QED BY <3>1, <4>2, <4>3, <4>4
    <3>3. Charged(row) = n * Commission(row.limit)
      BY <1>1, <1>11, AbsentAssumption DEF Charged
    <3> QED BY <1>5, <3>1, <3>2, <3>3
  <2> QED BY <1>1, <1>5, <1>7, <1>8, <1>9, <1>11, <2>1, <2>2 DEF ShortfallInv
<1> QED BY <1>2, <1>10, <1>11 DEF Side

(* A limit order: what it freezes was available. *)
LEMMA LimitKeepsShortfall ==
    ASSUME Grounds, ShortfallInv,
           NEW o \in OrderId, NEW row \in Order, NEW frz \in Freeze,
           order[o] = Absent, freeze[o] = Absent, LimitWritten(o, row, frz),
           row.side = "buy" =>
             EstimatedBuyCost(row.limit, row.quantity) <= cash + Charges(order) - Held(freeze)
    PROVE  ShortfallInv'
<1> USE DEF Grounds
<1>1. /\ order' = [order EXCEPT ![o] = row] /\ freeze' = [freeze EXCEPT ![o] = frz]
      /\ row.filled = 0 /\ cash' = cash /\ FreezeFits(row, frz)
      /\ row.quantity - row.filled = row.quantity
  BY DEF LimitWritten, Placed
<1>2. FilledNat(row) BY <1>1 DEF FilledNat
<1>3. /\ Held(freeze) \in Int /\ Charges(order) \in Nat
      /\ Charged(order[o]) \in Nat /\ Charged(row) \in Nat
      /\ Held(freeze)' = Held(freeze) - CashOf(freeze[o]) + CashOf(frz)
      /\ Charges(order)' = Charges(order) - Charged(order[o]) + Charged(row)
  BY <1>1, <1>2, SumsAfterWrite DEF OrderInv
<1>4. Charged(order[o]) = 0 /\ CashOf(freeze[o]) = 0 BY DEF Charged, CashOf
<1>5. frz # Absent BY AbsentAssumption
<1>6. CashOf(frz) = frz.cash BY <1>5 DEF CashOf
<1>7. cash \in Int /\ row.side \in Side BY DEF TypeOK, Order
<1>8. CASE row.side = "buy"
  <2>1. frz.cash = EstimatedBuyCost(row.limit, row.quantity) BY <1>1, <1>5, <1>8 DEF FreezeFits
  <2>2. EstimatedBuyCost(row.limit, row.quantity) \in Int BY CostType DEF Order
  <2> QED BY <1>1, <1>3, <1>4, <1>6, <1>7, <1>8, <2>1, <2>2 DEF ShortfallInv
<1>9. CASE row.side = "sell"
  <2>1. frz.cash = 0 BY <1>1, <1>5, <1>9 DEF FreezeFits
  <2> QED BY <1>1, <1>3, <1>4, <1>6, <1>7, <2>1 DEF ShortfallInv
<1> QED BY <1>7, <1>8, <1>9 DEF Side

(* A fill or the end of a limit order frees what it held: the cash that is left  *)
(* over the freezes, with what is allowed for the fees, does not shrink.          *)
Slack == cash + Charges(order) - Held(freeze)

Relieved == Held(freeze)' <= Held(freeze) /\ Slack <= Slack'

LEMMA RelievedKeepsShortfall ==
    ASSUME Grounds, Grounds', ShortfallInv, Held(freeze) \in Int, Held(freeze)' \in Int,
           Charges(order) \in Nat, Charges(order)' \in Nat, Relieved
    PROVE  ShortfallInv'
  BY DEF Grounds, TypeOK, ShortfallInv, Relieved, Slack

LEMMA ReleaseRelieves ==
    ASSUME Grounds, FreezesFitOrders, NEW o \in OrderId, NEW row \in Order,
           order[o] \in Order, freeze[o] \in Freeze, ReleaseWritten(o, row)
    PROVE  Relieved /\ (ShortfallInv => ShortfallInv')
<1> USE DEF Grounds
<1>1. /\ order' = [order EXCEPT ![o] = row] /\ freeze' = [freeze EXCEPT ![o] = Absent]
      /\ row.side = order[o].side /\ row.type = order[o].type /\ row.limit = order[o].limit
      /\ row.filled = order[o].filled /\ cash' = cash
  BY DEF ReleaseWritten
<1>2. order[o] # Absent /\ freeze[o] # Absent /\ row # Absent BY AbsentAssumption
<1>3. FilledNat(order[o]) BY OrdersFilledNat DEF OrderInv
<1>4. FilledNat(row) BY <1>1, <1>2, <1>3 DEF FilledNat
<1>5. /\ Held(freeze) \in Int /\ Charges(order) \in Nat
      /\ Charged(order[o]) \in Nat /\ Charged(row) \in Nat
      /\ Held(freeze)' = Held(freeze) - CashOf(freeze[o]) + CashOf(Absent)
      /\ Charges(order)' = Charges(order) - Charged(order[o]) + Charged(row)
  BY <1>1, <1>4, SumsAfterWrite DEF OrderInv
<1>6. Charged(row) = Charged(order[o]) BY <1>1, <1>2 DEF Charged
<1>7. CashOf(Absent) = 0 /\ CashOf(freeze[o]) = freeze[o].cash BY <1>2 DEF CashOf
<1>8. freeze[o].cash \in Nat
  <2>1. FreezeFits(order[o], freeze[o]) BY DEF FreezesFitOrders
  <2>2. CASE order[o].side = "buy"
    <3>1. freeze[o].cash = EstimatedBuyCost(order[o].limit, order[o].quantity - order[o].filled)
      BY <1>2, <2>1, <2>2 DEF FreezeFits
    <3>2. order[o].quantity - order[o].filled \in Nat /\ order[o].limit \in Nat
      BY <1>2 DEF OrderInv, OrdersSound, RowSound, Order
    <3>3. order[o].limit * (order[o].quantity - order[o].filled) \in Nat BY <3>2
    <3>4. Commission(order[o].limit * (order[o].quantity - order[o].filled)) \in Nat
      BY <3>3, CommissionFacts
    <3> QED BY <3>1, <3>3, <3>4 DEF EstimatedBuyCost
  <2>3. CASE order[o].side = "sell"
    BY <1>2, <2>1, <2>3 DEF FreezeFits
  <2> QED BY <2>2, <2>3 DEF Order, Side
<1>9. cash \in Int BY DEF TypeOK
<1>10. Relieved BY <1>1, <1>5, <1>6, <1>7, <1>8, <1>9 DEF Relieved, Slack
<1>11. ShortfallInv => ShortfallInv'
  BY <1>1, <1>5, <1>6, <1>7, <1>8, <1>9 DEF ShortfallInv
<1> QED BY <1>10, <1>11

LEMMA FillRelieves ==
    ASSUME Grounds, FreezesFitOrders, NEW o \in OrderId, NEW row \in Order,
           NEW frz \in Freeze \cup {Absent}, NEW p \in PositionId, NEW price \in Price,
           NEW n \in Nat \ {0}, NEW taken \in [LotId -> Nat],
           order[o] \in Order, order[o].type = "limit",
           freeze[o] \in Freeze, freeze[o] # Absent,
           order[o].filled \in 0..order[o].quantity,
           FillWritten(o, row, frz, p, price, n, taken), Matches(order[o], price),
           order[o].side = "buy" => PurchaseFilled(o, frz, p, n),
           order[o].side = "sell" => SaleFilled(o, frz, p, n, taken)
    PROVE  Relieved /\ (ShortfallInv => ShortfallInv')
<1> USE DEF Grounds
<1> DEFINE before == order[o]
           rest == before.quantity - before.filled
           c == Commission(before.limit)
<1>1. /\ order' = [order EXCEPT ![o] = row] /\ freeze' = [freeze EXCEPT ![o] = frz]
      /\ cash' = cash + CashDelta(before.side, price, n)
      /\ n <= rest /\ row.filled = before.filled + n
      /\ row.side = before.side /\ row.type = "limit" /\ row.limit = before.limit
      /\ frz = Absent <=> n = rest
  BY DEF FillWritten
<1>2. before # Absent /\ row # Absent BY AbsentAssumption
<1>3. /\ before.limit \in Nat /\ before.filled \in Nat /\ rest \in Nat
      /\ before.side \in Side /\ price \in Nat
  BY AccountAssumption DEF Order
<1>4. FilledNat(row) BY <1>1, <1>3 DEF FilledNat
<1>5. /\ Held(freeze) \in Int /\ Charges(order) \in Nat
      /\ Charged(before) \in Nat /\ Charged(row) \in Nat
      /\ Held(freeze)' = Held(freeze) - CashOf(freeze[o]) + CashOf(frz)
      /\ Charges(order)' = Charges(order) - Charged(before) + Charged(row)
  BY <1>1, <1>4, SumsAfterWrite DEF OrderInv
<1>6. c \in Nat /\ MinCommission \in Nat /\ MinCommission <= c
  BY <1>3, CommissionFacts, FeeAssumption
<1>7. Charged(before) + MinCommission <= Charged(row)
  <2>1. Charged(before) = before.filled * c /\ Charged(row) = (before.filled + n) * c
    BY <1>1, <1>2 DEF Charged
  <2> HIDE DEF c
  <2>2. (before.filled + n) * c = before.filled * c + n * c BY <1>3, <1>6
  <2>3. c <= n * c
    <3>1. n - 1 \in Nat OBVIOUS
    <3>2. (n - 1) * c \in Nat BY <1>6, <3>1
    <3>3. (n - 1) * c = n * c - c BY <1>6
    <3>4. n * c \in Nat BY <1>6
    <3> QED BY <1>6, <3>2, <3>3, <3>4
  <2>4. before.filled * c \in Nat /\ n * c \in Nat BY <1>3, <1>6
  <2> QED BY <1>6, <2>1, <2>2, <2>3, <2>4
<1>8. FreezeFits(before, freeze[o]) BY DEF FreezesFitOrders
<1>9. CashOf(freeze[o]) = freeze[o].cash BY DEF CashOf
<1>10. cash \in Int BY DEF TypeOK
<1> DEFINE delta == CashDelta(before.side, price, n)
<1>11. /\ delta \in Int /\ CashOf(freeze[o]) \in Int /\ CashOf(frz) \in Int
       /\ CashOf(frz) <= CashOf(freeze[o])
       /\ CashOf(frz) <= delta + CashOf(freeze[o]) + MinCommission
  <2>1. CASE before.side = "buy"
    <3>1. freeze[o].cash = EstimatedBuyCost(before.limit, rest)
      BY <1>8, <2>1 DEF FreezeFits
    <3>2. price <= before.limit BY <2>1 DEF Matches
    <3>3. /\ EstimatedBuyCost(before.limit, rest) \in Nat
          /\ CashDelta("buy", price, n) \in Int
          /\ 0 <= CashDelta("buy", price, n) + EstimatedBuyCost(before.limit, rest)
          /\ EstimatedBuyCost(before.limit, rest - n)
               <= CashDelta("buy", price, n) + EstimatedBuyCost(before.limit, rest) + MinCommission
          /\ EstimatedBuyCost(before.limit, rest - n) <= EstimatedBuyCost(before.limit, rest)
      <4>1. n \in Nat OBVIOUS
      <4> HIDE DEF rest, before
      <4> QED BY <1>1, <1>3, <3>2, <4>1, PurchaseCosts
    <3>4. EstimatedBuyCost(before.limit, rest - n) \in Int
      BY <1>3, CostType
    <3>5. CashOf(frz) = IF frz = Absent THEN 0 ELSE EstimatedBuyCost(before.limit, rest - n)
      BY <2>1 DEF PurchaseFilled, CashOf
    <3>6. CashOf(freeze[o]) = EstimatedBuyCost(before.limit, rest) BY <1>9, <3>1
    <3>7. delta = CashDelta("buy", price, n) BY <2>1
    <3> HIDE DEF delta, rest, before
    <3> QED BY <1>6, <3>3, <3>4, <3>5, <3>6, <3>7
  <2>2. CASE before.side = "sell"
    <3>1. CashOf(freeze[o]) = 0 BY <1>8, <1>9, <2>2 DEF FreezeFits
    <3>2. CashOf(frz) = 0 BY <2>2 DEF SaleFilled, CashOf
    <3>3. delta = CashDelta("sell", price, n) BY <2>2
    <3>4. delta \in Int /\ - MinCommission <= delta BY <1>3, <3>3, SaleCosts
    <3> HIDE DEF delta
    <3> QED BY <1>6, <3>1, <3>2, <3>4
  <2> QED BY <1>3, <2>1, <2>2 DEF Side
<1>12. cash' = cash + delta BY <1>1
<1> HIDE DEF delta, rest, before, c
<1>13. Relieved
  BY <1>5, <1>6, <1>7, <1>10, <1>11, <1>12 DEF Relieved, Slack
<1>14. ShortfallInv => ShortfallInv'
  BY <1>5, <1>6, <1>7, <1>10, <1>11, <1>12 DEF ShortfallInv
<1> QED BY <1>13, <1>14

(* Empty tables hold and charge nothing. *)
LEMMA NothingHeld ==
    /\ Held(EmptyTable(OrderId)) = 0
    /\ Charges(EmptyTable(OrderId)) = 0
<1>1. \A o \in OrderId : CashOf(EmptyTable(OrderId)[o]) = 0 /\ Charged(EmptyTable(OrderId)[o]) = 0
  BY DEF EmptyTable, CashOf, Charged
<1> DEFINE f == [o \in OrderId |-> CashOf(EmptyTable(OrderId)[o])]
           g == [o \in OrderId |-> Charged(EmptyTable(OrderId)[o])]
<1>2. Held(EmptyTable(OrderId)) = SumOver(f, OrderId)
      /\ Charges(EmptyTable(OrderId)) = SumOver(g, OrderId)
  BY DEF Held, Charges
<1>3. (\A o \in OrderId : f[o] = 0) /\ (\A o \in OrderId : g[o] = 0)
  BY <1>1
<1> HIDE DEF f, g
<1> QED BY <1>2, <1>3, FiniteAssumption, SumZero

LEMMA ShortfallStep ==
    ASSUME Grounds, FreezesFitOrders, ShortfallInv, [Next]_vars
    PROVE  ShortfallInv'
<1> USE DEF Grounds
<1>1. AvailableCash = cash - Held(freeze)
  BY FrozenCashIs DEF AvailableCash, OrderInv
<1>2. /\ Held(freeze) \in Int /\ Charges(order) \in Nat /\ cash \in Int
  BY HeldType, ChargesType, OrdersFilledNat DEF TypeOK, OrderInv
<1>3. ASSUME NEW o \in OrderId, MarketStep(o) PROVE ShortfallInv'
  <2>1. PICK row \in Order, p \in PositionId, price \in Price, n \in Nat \ {0},
             taken \in [LotId -> Nat] :
          MarketWritten(o, row, p, price, n, taken) /\ MarketGuarded(row, p, price, n, taken)
    BY <1>3, MarketBooks
  <2>2. EstimatedBuyCost(price, n) \in Int BY AccountAssumption, CostType
  <2>3. row.side = "buy" => EstimatedBuyCost(price, n) <= cash - Held(freeze)
    BY <1>1, <1>2, <2>1, <2>2 DEF MarketGuarded
  <2>4. order[o] = Absent BY <1>3 DEF MarketStep
  <2> QED BY <2>1, <2>3, <2>4, MarketKeepsShortfall
<1>4. ASSUME NEW o \in OrderId, LimitStep(o) PROVE ShortfallInv'
  <2>1. order[o] = Absent /\ freeze[o] = Absent BY <1>4, LimitBooks
  <2>2. PICK row \in Order, frz \in Freeze : LimitWritten(o, row, frz) /\ LimitGuarded(row)
    BY <1>4, LimitBooks
  <2>3. EstimatedBuyCost(row.limit, row.quantity) \in Int BY CostType DEF Order
  <2>4. row.side = "buy" =>
          EstimatedBuyCost(row.limit, row.quantity) <= cash + Charges(order) - Held(freeze)
    BY <1>1, <1>2, <2>2, <2>3 DEF LimitGuarded
  <2> QED BY <2>1, <2>2, <2>4, LimitKeepsShortfall
<1>5. ASSUME NEW o \in OrderId, ReleaseStep(o) PROVE ShortfallInv'
  BY <1>5, ReleaseBooks, ReleaseRelieves
<1>6. ASSUME NEW o \in OrderId, FillStep(o) PROVE ShortfallInv'
  BY <1>6, FillBooks, FillRelieves
<1>7. CASE ResetAccount
  <2>1. /\ cash' = InitialCash /\ order' = EmptyTable(OrderId) /\ freeze' = EmptyTable(OrderId)
    BY <1>7 DEF ResetAccount
  <2>2. Held(freeze)' = Held(freeze') /\ Charges(order)' = Charges(order') BY DEF Held, Charges
  <2> QED BY <2>1, <2>2, NothingHeld, AccountAssumption DEF ShortfallInv
<1>8. CASE QuietStep
  <2>1. cash' = cash /\ order' = order /\ freeze' = freeze BY <1>8 DEF QuietStep, tables
  <2> QED BY <2>1 DEF ShortfallInv, Held, Charges
<1> QED BY <1>3, <1>4, <1>5, <1>6, <1>7, <1>8, StepKinds

LEMMA ShortfallInvHolds == Spec => []ShortfallInv
<1>1. Init => ShortfallInv
  <2>1. ASSUME Init PROVE cash \in Nat /\ Held(freeze) = 0 /\ Charges(order) = 0
    BY <2>1, NothingHeld, AccountAssumption DEF Init
  <2> QED BY <2>1 DEF ShortfallInv
<1>2. Grounds /\ BooksInv /\ ShortfallInv /\ [Next]_vars => ShortfallInv'
  BY ShortfallStep DEF BooksInv
<1> QED BY <1>1, <1>2, GroundsHold, BooksInvHolds, PTL DEF Spec

(* Partial fills and sales at the least commission can leave the account short  *)
(* of what it froze, and of zero, but by no more than the commissions that its   *)
(* limit orders and its sales account for, whatever the fees and the prices.      *)
THEOREM ShortfallStaysBounded == Spec => []ShortfallBounded
<1>1. Grounds /\ ShortfallInv => ShortfallBounded
  BY ShortfallIs DEF Grounds
<1> QED BY <1>1, GroundsHold, ShortfallInvHolds, PTL
=============================================================================
