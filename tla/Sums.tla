-------------------------------- MODULE Sums --------------------------------
(***************************************************************************)
(* Sums over finite sets and folds over lists.  SumFunctionOnSet of the    *)
(* community modules folds a set by choosing one element after another;    *)
(* the lemmas say that the order does not matter.  FoldLeft folds the      *)
(* indices of a list, the largest last; the lemmas say that it passes      *)
(* through the values of the prefixes.  Induction goes through sets of     *)
(* naturals, since the library's induction theorems take an operator.      *)
(***************************************************************************)
EXTENDS Integers, FiniteSets, FiniteSetsExt, Functions, FiniteSetTheorems,
        WellFoundedInduction, TLAPS

\* A set of naturals with 0 and with the successor of each member is Nat.
LEMMA SetInduction ==
  ASSUME NEW T, T \subseteq Nat, 0 \in T, \A n \in T : n + 1 \in T
  PROVE  T = Nat
<1> SUFFICES ASSUME Nat \ T # {} PROVE FALSE
  OBVIOUS
<1>1. IsWellFoundedOn(OpToRel(<, Nat), Nat)
  BY NatLessThanWellFounded, Zenon
<1>2. PICK x \in Nat \ T : \A y \in Nat \ T : <<y, x>> \notin OpToRel(<, Nat)
  <2>1. Nat \ T \subseteq Nat OBVIOUS
  <2> QED BY <1>1, <2>1, WFMin, Zenon
<1>3. \A y \in Nat \ T : ~(y < x)
  BY <1>2 DEF OpToRel
<1>4. x \in Nat /\ x \notin T /\ x # 0
  BY <1>2
<1>5. x - 1 \in Nat /\ x - 1 < x /\ (x - 1) + 1 = x
  BY <1>4
<1> QED BY <1>3, <1>4, <1>5

Chosen(s) == CHOOSE x \in s : TRUE

\* CHOOSE takes a member of a set that has one.
LEMMA ChosenIn ==
  ASSUME NEW s, s # {}
  PROVE  Chosen(s) \in s
  BY DEF Chosen

\* g sums f over each set in D.
Sums(g, f, D) ==
    g = [s \in D |-> IF s = {} THEN 0 ELSE f[Chosen(s)] + g[s \ {Chosen(s)}]]

\* The fold's recursive function is one that satisfies the equations of a sum.
LEMMA SumIsChosen ==
  ASSUME NEW f, NEW S
  PROVE  SumFunctionOnSet(f, S) = (CHOOSE g : Sums(g, f, SUBSET S))[S]
  BY DEF SumFunctionOnSet, FoldFunctionOnSet, MapThenFoldSet, Sums, Chosen

\* Such a function exists on the subsets of a finite set.
LEMMA SumsExist ==
  ASSUME NEW f, NEW S, IsFiniteSet(S)
  PROVE  \E g : Sums(g, f, SUBSET S)
<1> DEFINE D(n) == {s \in SUBSET S : Cardinality(s) <= n}
           T == {n \in Nat : \E g : Sums(g, f, D(n))}
<1>1. \A s \in SUBSET S : IsFiniteSet(s) /\ Cardinality(s) \in Nat
                          /\ Cardinality(s) <= Cardinality(S)
  BY FS_Subset, FS_CardinalityType
<1>2. 0 \in T
  <2> DEFINE g == [s \in D(0) |-> 0]
  <2>1. \A s \in D(0) : s = {}
    BY <1>1, FS_EmptySet
  <2>2. Sums(g, f, D(0))
    BY <2>1 DEF Sums
  <2> QED BY <2>2
<1>3. ASSUME NEW n \in T PROVE n + 1 \in T
  <2>1. PICK g : Sums(g, f, D(n))
    OBVIOUS
  <2> DEFINE h == [s \in D(n + 1) |->
                     IF s = {} THEN 0 ELSE f[Chosen(s)] + g[s \ {Chosen(s)}]]
  <2>2. ASSUME NEW s \in D(n + 1), s # {} PROVE s \ {Chosen(s)} \in D(n)
    <3>1. Chosen(s) \in s BY <2>2, ChosenIn
    <3>2. Cardinality(s \ {Chosen(s)}) = Cardinality(s) - 1
      BY <1>1, <3>1, FS_RemoveElement
    <3>3. Cardinality(s) \in Nat /\ Cardinality(s) <= n + 1 /\ n \in Nat
      BY <1>1
    <3> QED BY <3>2, <3>3
  <2>3. D(n) \subseteq D(n + 1)
    BY <1>1
  <2> HIDE DEF D
  <2>4. ASSUME NEW t \in D(n) PROVE h[t] = g[t]
    <3>1. g[t] = IF t = {} THEN 0 ELSE f[Chosen(t)] + g[t \ {Chosen(t)}]
      BY <2>1 DEF Sums
    <3>2. h[t] = IF t = {} THEN 0 ELSE f[Chosen(t)] + g[t \ {Chosen(t)}]
      BY <2>3
    <3> QED BY <3>1, <3>2
  <2> DEFINE e(s) == IF s = {} THEN 0 ELSE f[Chosen(s)] + h[s \ {Chosen(s)}]
  <2>5. ASSUME NEW s \in D(n + 1) PROVE h[s] = e(s)
    BY <2>2, <2>4
  <2>6. h = [s \in D(n + 1) |-> h[s]] OBVIOUS
  <2> HIDE DEF h
  <2>7. Sums(h, f, D(n + 1))
    BY <2>5, <2>6 DEF Sums
  <2>8. n + 1 \in Nat OBVIOUS
  <2> QED BY <2>7, <2>8
<1> HIDE DEF T
<1>4. T = Nat
  <2>1. T \subseteq Nat BY DEF T
  <2> QED BY <1>2, <1>3, <2>1, SetInduction
<1>5. Cardinality(S) \in T
  BY <1>4, FS_CardinalityType
<1>6. D(Cardinality(S)) = SUBSET S
  BY <1>1
<1> QED BY <1>5, <1>6 DEF T

\* The sum of a finite set is the value of such a function.
LEMMA SumFcnExists ==
  ASSUME NEW f, NEW S, IsFiniteSet(S)
  PROVE  \E g : Sums(g, f, SUBSET S) /\ SumFunctionOnSet(f, S) = g[S]
<1> DEFINE g == CHOOSE g : Sums(g, f, SUBSET S)
<1>1. Sums(g, f, SUBSET S)
  BY SumsExist
<1>2. SumFunctionOnSet(f, S) = g[S]
  BY SumIsChosen
<1> QED BY <1>1, <1>2

\* Two sums of the same function agree on the sets both sum over.
LEMMA SumsAgree ==
  ASSUME NEW f, NEW S, IsFiniteSet(S), NEW D, SUBSET S \subseteq D,
         NEW g, Sums(g, f, SUBSET S), NEW h, Sums(h, f, D)
  PROVE  g[S] = h[S]
<1> DEFINE T == {n \in Nat : \A s \in SUBSET S : Cardinality(s) = n => g[s] = h[s]}
<1>1. \A s \in SUBSET S : IsFiniteSet(s) /\ Cardinality(s) \in Nat
  BY FS_Subset, FS_CardinalityType
<1>2. \A s \in SUBSET S :
         /\ g[s] = IF s = {} THEN 0 ELSE f[Chosen(s)] + g[s \ {Chosen(s)}]
         /\ h[s] = IF s = {} THEN 0 ELSE f[Chosen(s)] + h[s \ {Chosen(s)}]
  BY DEF Sums
<1>3. 0 \in T
  BY <1>1, <1>2, FS_EmptySet
<1>4. ASSUME NEW n \in T PROVE n + 1 \in T
  <2> SUFFICES ASSUME NEW s \in SUBSET S, Cardinality(s) = n + 1
               PROVE  g[s] = h[s]
    OBVIOUS
  <2>1. s # {}
    <3>1. n + 1 # 0 BY n \in Nat
    <3> QED BY <3>1, FS_EmptySet
  <2>2. Chosen(s) \in s BY <2>1, ChosenIn
  <2> DEFINE t == s \ {Chosen(s)}
  <2>3. Cardinality(t) = Cardinality(s) - 1
    BY <1>1, <2>2, FS_RemoveElement
  <2>4. Cardinality(t) = n /\ t \in SUBSET S
    BY <2>3
  <2>5. g[t] = h[t]
    BY <2>4
  <2> QED BY <1>2, <2>1, <2>5
<1> HIDE DEF T
<1>5. T = Nat
  <2>1. T \subseteq Nat BY DEF T
  <2> QED BY <1>3, <1>4, <2>1, SetInduction
<1> QED BY <1>1, <1>5 DEF T

\* The sum of nothing
LEMMA SumEmpty ==
  ASSUME NEW f
  PROVE  SumFunctionOnSet(f, {}) = 0
<1>1. IsFiniteSet({}) BY FS_EmptySet
<1>2. PICK g : Sums(g, f, SUBSET {}) /\ SumFunctionOnSet(f, {}) = g[{}]
  BY <1>1, SumFcnExists
<1>3. g[{}] = 0
  BY <1>2 DEF Sums
<1> QED BY <1>2, <1>3

\* The sum of a set, by the element that is chosen first
LEMMA SumChosen ==
  ASSUME NEW f, NEW S, IsFiniteSet(S), S # {}
  PROVE  SumFunctionOnSet(f, S)
           = f[Chosen(S)] + SumFunctionOnSet(f, S \ {Chosen(S)})
<1> DEFINE t == S \ {Chosen(S)}
<1>1. PICK g : Sums(g, f, SUBSET S) /\ SumFunctionOnSet(f, S) = g[S]
  BY SumFcnExists
<1>2. IsFiniteSet(t) /\ SUBSET t \subseteq SUBSET S
  BY FS_Subset
<1>3. PICK h : Sums(h, f, SUBSET t) /\ SumFunctionOnSet(f, t) = h[t]
  BY <1>2, SumFcnExists
<1>4. h[t] = g[t]
  <2> HIDE DEF t
  <2> QED BY <1>1, <1>2, <1>3, SumsAgree
<1>5. g[S] = f[Chosen(S)] + g[t]
  BY <1>1 DEF Sums
<1> QED BY <1>1, <1>3, <1>4, <1>5

\* Sums of integers are integers, sums of naturals naturals.
LEMMA SumType ==
  ASSUME NEW f, NEW S, IsFiniteSet(S), \A x \in S : f[x] \in Int
  PROVE  /\ SumFunctionOnSet(f, S) \in Int
         /\ (\A x \in S : f[x] \in Nat) => SumFunctionOnSet(f, S) \in Nat
<1> DEFINE Sum(s) == SumFunctionOnSet(f, s)
           Good(s) == /\ Sum(s) \in Int
                      /\ (\A x \in S : f[x] \in Nat) => Sum(s) \in Nat
           T == {n \in Nat : \A s \in SUBSET S : Cardinality(s) = n => Good(s)}
<1>1. \A s \in SUBSET S : IsFiniteSet(s) /\ Cardinality(s) \in Nat
  BY FS_Subset, FS_CardinalityType
<1>2. 0 \in T
  BY <1>1, SumEmpty, FS_EmptySet
<1>3. ASSUME NEW n \in T PROVE n + 1 \in T
  <2> SUFFICES ASSUME NEW s \in SUBSET S, Cardinality(s) = n + 1
               PROVE  Good(s)
    OBVIOUS
  <2>1. s # {}
    <3>1. n + 1 # 0 BY n \in Nat
    <3> QED BY <3>1, FS_EmptySet
  <2> DEFINE c == Chosen(s)
             t == s \ {c}
  <2>2. c \in s BY <2>1, ChosenIn
  <2>3. Cardinality(t) = n /\ t \in SUBSET S
    <3>1. Cardinality(t) = Cardinality(s) - 1
      BY <1>1, <2>2, FS_RemoveElement
    <3> QED BY <3>1
  <2>4. Good(t) BY <2>3
  <2>5. Sum(s) = f[c] + Sum(t)
    BY <1>1, <2>1, SumChosen
  <2> HIDE DEF Sum, c, t
  <2> QED BY <2>2, <2>4, <2>5
<1> HIDE DEF T
<1>4. T = Nat
  <2>1. T \subseteq Nat BY DEF T
  <2> QED BY <1>2, <1>3, <2>1, SetInduction
<1>5. Good(S) BY <1>1, <1>4 DEF T
<1> QED BY <1>5

\* Zeros add up to zero.
LEMMA SumZero ==
  ASSUME NEW f, NEW S, IsFiniteSet(S), \A x \in S : f[x] = 0
  PROVE  SumFunctionOnSet(f, S) = 0
<1> DEFINE Sum(s) == SumFunctionOnSet(f, s)
           T == {n \in Nat : \A s \in SUBSET S : Cardinality(s) = n => Sum(s) = 0}
<1>1. \A s \in SUBSET S : IsFiniteSet(s) /\ Cardinality(s) \in Nat
  BY FS_Subset, FS_CardinalityType
<1>2. 0 \in T
  BY <1>1, SumEmpty, FS_EmptySet
<1>3. ASSUME NEW n \in T PROVE n + 1 \in T
  <2> SUFFICES ASSUME NEW s \in SUBSET S, Cardinality(s) = n + 1
               PROVE  Sum(s) = 0
    OBVIOUS
  <2>1. s # {}
    <3>1. n + 1 # 0 BY n \in Nat
    <3> QED BY <3>1, FS_EmptySet
  <2> DEFINE c == Chosen(s)
             t == s \ {c}
  <2>2. c \in s BY <2>1, ChosenIn
  <2>3. Cardinality(t) = n /\ t \in SUBSET S
    <3>1. Cardinality(t) = Cardinality(s) - 1
      BY <1>1, <2>2, FS_RemoveElement
    <3> QED BY <3>1
  <2>4. Sum(t) = 0 BY <2>3
  <2>5. Sum(s) = f[c] + Sum(t)
    BY <1>1, <2>1, SumChosen
  <2> HIDE DEF Sum, c, t
  <2> QED BY <2>2, <2>4, <2>5
<1> HIDE DEF T
<1>4. T = Nat
  <2>1. T \subseteq Nat BY DEF T
  <2> QED BY <1>2, <1>3, <2>1, SetInduction
<1>5. Sum(S) = 0 BY <1>1, <1>4 DEF T
<1> QED BY <1>5

\* The sum depends on the values on the set only.
LEMMA SumSame ==
  ASSUME NEW f, NEW g, NEW S, IsFiniteSet(S), \A x \in S : f[x] = g[x]
  PROVE  SumFunctionOnSet(f, S) = SumFunctionOnSet(g, S)
<1> DEFINE Fs(s) == SumFunctionOnSet(f, s)
           Gs(s) == SumFunctionOnSet(g, s)
           T == {n \in Nat : \A s \in SUBSET S : Cardinality(s) = n => Fs(s) = Gs(s)}
<1>1. \A s \in SUBSET S : IsFiniteSet(s) /\ Cardinality(s) \in Nat
  BY FS_Subset, FS_CardinalityType
<1>2. 0 \in T
  BY <1>1, SumEmpty, FS_EmptySet
<1>3. ASSUME NEW n \in T PROVE n + 1 \in T
  <2> SUFFICES ASSUME NEW s \in SUBSET S, Cardinality(s) = n + 1
               PROVE  Fs(s) = Gs(s)
    OBVIOUS
  <2>1. s # {}
    <3>1. n + 1 # 0 BY n \in Nat
    <3> QED BY <3>1, FS_EmptySet
  <2> DEFINE c == Chosen(s)
             t == s \ {c}
  <2>2. c \in s BY <2>1, ChosenIn
  <2>3. Cardinality(t) = n /\ t \in SUBSET S
    <3>1. Cardinality(t) = Cardinality(s) - 1
      BY <1>1, <2>2, FS_RemoveElement
    <3> QED BY <3>1
  <2>4. Fs(t) = Gs(t) BY <2>3
  <2>5. Fs(s) = f[c] + Fs(t) /\ Gs(s) = g[c] + Gs(t)
    BY <1>1, <2>1, SumChosen
  <2> QED BY <2>2, <2>4, <2>5
<1> HIDE DEF T
<1>4. T = Nat
  <2>1. T \subseteq Nat BY DEF T
  <2> QED BY <1>2, <1>3, <2>1, SetInduction
<1>5. Fs(S) = Gs(S) BY <1>1, <1>4 DEF T
<1> QED BY <1>5

\* Any element can be taken out first.
LEMMA SumRemove ==
  ASSUME NEW f, NEW S, IsFiniteSet(S), \A x \in S : f[x] \in Int, NEW a \in S
  PROVE  SumFunctionOnSet(f, S) = f[a] + SumFunctionOnSet(f, S \ {a})
<1> DEFINE Sum(s) == SumFunctionOnSet(f, s)
           T == {n \in Nat : \A s \in SUBSET S : Cardinality(s) = n =>
                               \A x \in s : Sum(s) = f[x] + Sum(s \ {x})}
<1>1. \A s \in SUBSET S : IsFiniteSet(s) /\ Cardinality(s) \in Nat
  BY FS_Subset, FS_CardinalityType
<1>2. \A s \in SUBSET S : Sum(s) \in Int
  BY <1>1, SumType
<1>3. 0 \in T
  BY <1>1, FS_EmptySet
<1>4. ASSUME NEW n \in T PROVE n + 1 \in T
  <2> SUFFICES ASSUME NEW s \in SUBSET S, Cardinality(s) = n + 1, NEW x \in s
               PROVE  Sum(s) = f[x] + Sum(s \ {x})
    OBVIOUS
  <2> DEFINE c == Chosen(s)
  <2>1. c \in s BY ChosenIn
  <2>2. Sum(s) = f[c] + Sum(s \ {c})
    BY <1>1, SumChosen
  <2>3. CASE x = c
    BY <2>2, <2>3
  <2>4. CASE x # c
    <3> HIDE DEF c
    <3>1. /\ Cardinality(s \ {c}) = n /\ Cardinality(s \ {x}) = n
          /\ s \ {c} \in SUBSET S /\ s \ {x} \in SUBSET S
      BY <1>1, <2>1, FS_RemoveElement
    <3>2. Sum(s \ {c}) = f[x] + Sum((s \ {c}) \ {x})
      BY <2>4, <3>1
    <3>3. Sum(s \ {x}) = f[c] + Sum((s \ {x}) \ {c})
      BY <2>1, <2>4, <3>1
    <3> DEFINE r == (s \ {c}) \ {x}
    <3>4. (s \ {x}) \ {c} = r /\ r \in SUBSET S OBVIOUS
    <3>5. f[c] \in Int /\ f[x] \in Int /\ Sum(r) \in Int
      BY <1>2, <2>1, <3>4
    <3>6. Sum(s \ {c}) = f[x] + Sum(r) /\ Sum(s \ {x}) = f[c] + Sum(r)
      BY <3>2, <3>3, <3>4
    <3> HIDE DEF Sum, r
    <3> QED BY <2>2, <3>5, <3>6
  <2> QED BY <2>3, <2>4
<1> HIDE DEF T
<1>5. T = Nat
  <2>1. T \subseteq Nat BY DEF T
  <2> QED BY <1>3, <1>4, <2>1, SetInduction
<1>6. \A x \in S : Sum(S) = f[x] + Sum(S \ {x})
  BY <1>1, <1>5 DEF T
<1> QED BY <1>6

\* The sum of a function that changed in one place
LEMMA SumChanged ==
  ASSUME NEW f, NEW g, NEW S, IsFiniteSet(S), NEW a \in S,
         \A x \in S : f[x] \in Int /\ g[x] \in Int,
         \A x \in S : x # a => g[x] = f[x]
  PROVE  SumFunctionOnSet(g, S) = SumFunctionOnSet(f, S) - f[a] + g[a]
<1> DEFINE R == S \ {a}
           sf == SumFunctionOnSet(f, R)
           sg == SumFunctionOnSet(g, R)
<1>1. IsFiniteSet(R) BY FS_Subset
<1>2. SumFunctionOnSet(f, S) = f[a] + sf
  BY SumRemove
<1>3. SumFunctionOnSet(g, S) = g[a] + sg
  BY SumRemove
<1>4. sf = sg
  BY <1>1, SumSame
<1>5. sf \in Int
  BY <1>1, SumType
<1> HIDE DEF sf, sg
<1> QED BY <1>2, <1>3, <1>4, <1>5

----------------------------------------------------------------------------
(* Folds over the indices of a list.                                       *)

\* Induction over 0 .. n
LEMMA UpTo ==
  ASSUME NEW n \in Nat, NEW S, 0 \in S, \A k \in 1 .. n : k - 1 \in S => k \in S
  PROVE  \A k \in 0 .. n : k \in S
<1> DEFINE T == {m \in Nat : m <= n => m \in S}
<1>1. 0 \in T
  OBVIOUS
<1>2. ASSUME NEW m \in T PROVE m + 1 \in T
  <2>1. m \in Nat /\ (m <= n => m \in S)
    OBVIOUS
  <2>2. ASSUME m + 1 <= n PROVE m + 1 \in S
    <3>1. m + 1 \in 1 .. n /\ (m + 1) - 1 = m /\ m \in S
      BY <2>1, <2>2
    <3> QED BY <3>1
  <2> QED BY <2>1, <2>2
<1> HIDE DEF T
<1>3. T = Nat
  <2>1. T \subseteq Nat BY DEF T
  <2> QED BY <1>1, <1>2, <2>1, SetInduction
<1> QED BY <1>3 DEF T

\* The greatest of the first n naturals, and what is left without it.
LEMMA MaxInterval ==
  ASSUME NEW n \in Nat, NEW s \in SUBSET (1 .. n), s # {}
  PROVE  /\ Max(s) \in s /\ \A x \in s : x <= Max(s)
         /\ s \ {Max(s)} \in SUBSET (1 .. n)
<1> DEFINE T == {m \in Nat : \A t \in SUBSET (1 .. m) :
                    t # {} => \E x \in t : \A y \in t : y <= x}
<1>1. 0 \in T
  <2>1. 1 .. 0 = {}
    OBVIOUS
  <2> QED BY <2>1
<1>2. ASSUME NEW m \in T PROVE m + 1 \in T
  <2> SUFFICES ASSUME NEW t \in SUBSET (1 .. m + 1), t # {}
               PROVE  \E x \in t : \A y \in t : y <= x
    OBVIOUS
  <2>1. CASE m + 1 \in t
    BY <2>1
  <2>2. CASE m + 1 \notin t
    <3>1. t \in SUBSET (1 .. m)
      BY <2>2
    <3> QED BY <3>1
  <2> QED BY <2>1, <2>2
<1> HIDE DEF T
<1>3. T = Nat
  <2>1. T \subseteq Nat BY DEF T
  <2> QED BY <1>1, <1>2, <2>1, SetInduction
<1>4. \E x \in s : \A y \in s : x >= y
  <2>1. \E x \in s : \A y \in s : y <= x
    BY <1>3 DEF T
  <2> QED BY <2>1
<1>5. Max(s) \in s /\ \A y \in s : Max(s) >= y
  BY <1>4 DEF Max
<1> QED BY <1>5

\* f folds the indices 1 to n, the largest index of a set last; H[k] is what
\* the index k does to a value.
FoldsTo(f, n, base, H) ==
  /\ f = [s \in SUBSET (1 .. n) |-> f[s]]
  /\ f[{}] = base
  /\ \A s \in SUBSET (1 .. n) : s # {} => f[s] = H[Max(s)][f[s \ {Max(s)}]]

\* Such a fold exists, and its values are those of the set the steps stay in.
LEMMA FoldExists ==
  ASSUME NEW n \in Nat, NEW V, NEW base \in V, NEW H \in [1 .. n -> [V -> V]]
  PROVE  \E f \in [SUBSET (1 .. n) -> V] : FoldsTo(f, n, base, H)
<1> DEFINE P(m) == \E f \in [SUBSET (1 .. m) -> V] : FoldsTo(f, m, base, H)
           T == {m \in Nat : m <= n => P(m)}
<1>1. 0 \in T
  <2> DEFINE f == [s \in SUBSET (1 .. 0) |-> base]
  <2>1. 1 .. 0 = {}
    OBVIOUS
  <2>2. \A s \in SUBSET (1 .. 0) : s = {}
    BY <2>1
  <2>3. f \in [SUBSET (1 .. 0) -> V] /\ f[{}] = base
    OBVIOUS
  <2>4. FoldsTo(f, 0, base, H)
    BY <2>2, <2>3 DEF FoldsTo
  <2>5. P(0)
    BY <2>3, <2>4
  <2> HIDE DEF P
  <2> QED BY <2>5
<1>2. ASSUME NEW m \in T PROVE m + 1 \in T
  <2> m \in Nat
    OBVIOUS
  <2> SUFFICES ASSUME m + 1 <= n PROVE P(m + 1)
    <3> HIDE DEF P
    <3> QED OBVIOUS
  <2>p. P(m)
    <3> HIDE DEF P
    <3> QED OBVIOUS
  <2> HIDE DEF T
  <2>1. PICK g \in [SUBSET (1 .. m) -> V] : FoldsTo(g, m, base, H)
    BY <2>p
  <2>2. H[m + 1] \in [V -> V]
    OBVIOUS
  <2> DEFINE f == [s \in SUBSET (1 .. m + 1) |->
                     IF m + 1 \in s THEN H[m + 1][g[s \ {m + 1}]] ELSE g[s]]
  <2>3. \A s \in SUBSET (1 .. m + 1) : s \ {m + 1} \in SUBSET (1 .. m)
    OBVIOUS
  <2>4. f \in [SUBSET (1 .. m + 1) -> V]
    <3>1. SUFFICES ASSUME NEW s \in SUBSET (1 .. m + 1) PROVE f[s] \in V
      OBVIOUS
    <3>2. CASE m + 1 \in s
      <4>1. g[s \ {m + 1}] \in V BY <2>3
      <4> QED BY <2>2, <3>2, <4>1
    <3>3. CASE m + 1 \notin s
      <4>1. s \in SUBSET (1 .. m) BY <3>3
      <4>2. g[s] \in V BY <4>1
      <4> QED BY <3>3, <4>2
    <3> QED BY <3>2, <3>3
  <2>5. \A s \in SUBSET (1 .. m) : f[s] = g[s]
    OBVIOUS
  <2>6. \A s \in SUBSET (1 .. m + 1) : m + 1 \in s =>
          f[s] = H[m + 1][g[s \ {m + 1}]]
    OBVIOUS
  <2> HIDE DEF f
  <2>7. ASSUME NEW s \in SUBSET (1 .. m + 1), s # {}
        PROVE  f[s] = H[Max(s)][f[s \ {Max(s)}]]
    <3>1. Max(s) \in s /\ \A x \in s : x <= Max(s)
      <4>1. m + 1 \in Nat OBVIOUS
      <4> QED BY <2>7, <4>1, MaxInterval
    <3>2. CASE m + 1 \in s
      <4> DEFINE c == Max(s)
      <4>a. c \in s /\ m + 1 <= c
        BY <3>1, <3>2
      <4> HIDE DEF c
      <4>b. \A x \in s : x \in 1 .. m + 1
        OBVIOUS
      <4>c. c \in 1 .. m + 1
        BY <4>a, <4>b
      <4>d. c = m + 1
        BY <4>a, <4>c
      <4>1. Max(s) = m + 1
        BY <4>d DEF c
      <4> QED BY <2>3, <2>5, <2>6, <3>2, <4>1
    <3>3. CASE m + 1 \notin s
      <4>1. s \in SUBSET (1 .. m) /\ s \ {Max(s)} \in SUBSET (1 .. m)
        <5>1. \A x \in s : x \in 1 .. m + 1 /\ x # m + 1
          BY <3>3
        <5>2. \A x \in s : x \in 1 .. m
          BY <5>1
        <5> QED BY <5>2
      <4>2. g[s] = H[Max(s)][g[s \ {Max(s)}]]
        BY <2>1, <2>7, <4>1 DEF FoldsTo
      <4> QED BY <2>5, <4>1, <4>2
    <3> QED BY <3>2, <3>3
  <2>8. f[{}] = base
    <3>1. {} \in SUBSET (1 .. m) OBVIOUS
    <3> QED BY <2>1, <2>5, <3>1 DEF FoldsTo
  <2>9. f = [s \in SUBSET (1 .. m + 1) |-> f[s]]
    BY <2>4
  <2>10. FoldsTo(f, m + 1, base, H)
    BY <2>7, <2>8, <2>9 DEF FoldsTo
  <2> QED BY <2>4, <2>10
<1> HIDE DEF T
<1>3. T = Nat
  <2>1. T \subseteq Nat BY DEF T
  <2> QED BY <1>1, <1>2, <2>1, SetInduction
<1> HIDE DEF P
<1>4. P(n)
  BY <1>3 DEF T
<1> QED BY <1>4 DEF P

\* f takes the steps of H as long as its values are in V.
Takes(f, n, V, base, H) ==
  /\ f[{}] = base
  /\ \A s \in SUBSET (1 .. n) : s # {} /\ f[s \ {Max(s)}] \in V =>
        f[s] = H[Max(s)][f[s \ {Max(s)}]]

\* g has the values of a fold after each prefix.
Stepwise(g, n, base, H, result) ==
  /\ g[0] = base
  /\ \A k \in 1 .. n : g[k] = H[k][g[k - 1]]
  /\ result = g[n]

\* A function that takes the steps of H as long as they stay in V is a fold:
\* its values after each prefix are in V, and the last is the result.
LEMMA FoldPrefixes ==
  ASSUME NEW n \in Nat, NEW V, NEW base \in V, NEW H \in [1 .. n -> [V -> V]],
         NEW f, Takes(f, n, V, base, H)
  PROVE  \E g \in [0 .. n -> V] : Stepwise(g, n, base, H, f[1 .. n])
<1> DEFINE g == [k \in 0 .. n |-> f[1 .. k]]
           T == {m \in Nat : m <= n => /\ g[m] \in V
                                       /\ m # 0 => g[m] = H[m][g[m - 1]]}
<1>1. g[0] = base
  <2>1. 1 .. 0 = {} OBVIOUS
  <2> QED BY <2>1 DEF Takes
<1>2. 0 \in T
  BY <1>1
<1>3. ASSUME NEW m \in T PROVE m + 1 \in T
  <2> SUFFICES ASSUME m + 1 <= n
               PROVE  g[m + 1] \in V /\ g[m + 1] = H[m + 1][g[m]]
    OBVIOUS
  <2> m \in Nat /\ m + 1 \in Nat /\ m <= n
    OBVIOUS
  <2> DEFINE s == 1 .. m + 1
  <2>1. s \in SUBSET (1 .. n) /\ s # {} /\ m + 1 \in s /\ \A x \in s : x <= m + 1
    <3>1. m + 1 \in s OBVIOUS
    <3>2. \A x \in s : x <= m + 1 /\ x \in 1 .. n OBVIOUS
    <3> HIDE DEF s
    <3> QED BY <3>1, <3>2
  <2>2. Max(s) = m + 1
    <3> HIDE DEF s
    <3>1. Max(s) \in s /\ \A x \in s : x <= Max(s)
      BY <2>1, MaxInterval
    <3>2. \A x \in s : x \in 1 .. n
      BY <2>1
    <3> DEFINE c == Max(s)
    <3>3. c \in s /\ m + 1 <= c
      BY <2>1, <3>1
    <3> HIDE DEF c
    <3>4. c \in 1 .. n /\ c <= m + 1
      BY <2>1, <3>2, <3>3
    <3>5. c = m + 1
      BY <3>3, <3>4
    <3> QED BY <3>5 DEF c
  <2>3. s \ {m + 1} = 1 .. m
    OBVIOUS
  <2>4. g[m] = f[1 .. m] /\ g[m] \in V
    OBVIOUS
  <2>5. f[s] = H[m + 1][g[m]]
    <3>1. f[s \ {Max(s)}] = g[m] BY <2>2, <2>3, <2>4
    <3> HIDE DEF s, g
    <3> QED BY <2>1, <2>2, <2>4, <3>1 DEF Takes
  <2>6. H[m + 1] \in [V -> V]
    OBVIOUS
  <2>7. g[m + 1] = f[s]
    OBVIOUS
  <2> HIDE DEF g
  <2> QED BY <2>4, <2>5, <2>6, <2>7
<1> HIDE DEF T
<1>4. T = Nat
  <2>1. T \subseteq Nat BY DEF T
  <2> QED BY <1>2, <1>3, <2>1, SetInduction
<1>5. \A k \in 0 .. n : g[k] \in V
  <2> HIDE DEF g
  <2> QED BY <1>4 DEF T
<1>6. g \in [0 .. n -> V]
  BY <1>5
<1>7. \A k \in 1 .. n : g[k] = H[k][g[k - 1]]
  <2> HIDE DEF g
  <2> QED BY <1>4 DEF T
<1>8. f[1 .. n] = g[n]
  OBVIOUS
<1> HIDE DEF g
<1> QED BY <1>1, <1>6, <1>7, <1>8 DEF Stepwise

\* A part of a set of naturals has no larger a sum.
LEMMA SumMonotone ==
  ASSUME NEW f, NEW S, IsFiniteSet(S), \A x \in S : f[x] \in Nat, NEW R \in SUBSET S
  PROVE  SumFunctionOnSet(f, R) <= SumFunctionOnSet(f, S)
<1> DEFINE Sum(s) == SumFunctionOnSet(f, s)
           T == {n \in Nat : \A s \in SUBSET S : Cardinality(s) = n =>
                               \A r \in SUBSET s : Sum(r) <= Sum(s)}
<1>1. \A s \in SUBSET S : IsFiniteSet(s) /\ Cardinality(s) \in Nat
  BY FS_Subset, FS_CardinalityType
<1>2. \A s \in SUBSET S : Sum(s) \in Nat
  <2> SUFFICES ASSUME NEW s \in SUBSET S PROVE Sum(s) \in Nat
    OBVIOUS
  <2>1. IsFiniteSet(s) /\ \A x \in s : f[x] \in Nat /\ f[x] \in Int
    BY <1>1
  <2> QED BY <2>1, SumType
<1>3. 0 \in T
  <2> SUFFICES ASSUME NEW s \in SUBSET S, Cardinality(s) = 0, NEW r \in SUBSET s
               PROVE  Sum(r) <= Sum(s)
    OBVIOUS
  <2>1. s = {}
    BY <1>1, FS_EmptySet
  <2>2. r = s
    BY <2>1
  <2> QED BY <2>2, <1>2
<1>4. ASSUME NEW n \in T PROVE n + 1 \in T
  <2> SUFFICES ASSUME NEW s \in SUBSET S, Cardinality(s) = n + 1, NEW r \in SUBSET s
               PROVE  Sum(r) <= Sum(s)
    OBVIOUS
  <2>1. CASE r = s
    BY <2>1, <1>2
  <2>2. CASE r # s
    <3>1. PICK a \in s : a \notin r
      BY <2>2
    <3> DEFINE w == s \ {a}
    <3>2. w \in SUBSET S /\ r \in SUBSET w /\ IsFiniteSet(s) /\ n \in Nat
      BY <3>1, <1>1
    <3>3. Cardinality(w) = n
      <4>1. Cardinality(w) = Cardinality(s) - 1
        BY <3>2, FS_RemoveElement
      <4> HIDE DEF w
      <4> QED BY <4>1, <3>2
    <3>4. Sum(r) <= Sum(w)
      BY <3>2, <3>3
    <3>5. Sum(s) = f[a] + Sum(w)
      BY <3>2, SumRemove
    <3> HIDE DEF w, Sum
    <3>6. Sum(r) \in Nat /\ Sum(w) \in Nat /\ Sum(s) \in Nat /\ f[a] \in Nat
      BY <1>2, <3>2
    <3> QED BY <3>4, <3>5, <3>6
  <2> QED BY <2>1, <2>2
<1>5. T = Nat
  <2>1. T \subseteq Nat /\ \A n \in T : n + 1 \in T
    BY <1>4
  <2> HIDE DEF T
  <2> QED BY <1>3, <2>1, SetInduction
<1>6. Cardinality(S) \in T
  BY <1>1, <1>5
<1> QED BY <1>6

\* A nonempty set of positive numbers up to m has a least one.
LEMMA LeastInterval ==
  ASSUME NEW m \in Nat, NEW s \in SUBSET (1 .. m), s # {}
  PROVE  \E x \in s : \A y \in s : x <= y
<1> DEFINE T == {k \in Nat : \A t \in SUBSET (1 .. k) :
                    t # {} => \E x \in t : \A y \in t : x <= y}
<1>1. 0 \in T
  <2>1. SUBSET (1 .. 0) = {{}} /\ 0 \in Nat
    OBVIOUS
  <2> QED BY <2>1
<1>2. ASSUME NEW k \in T PROVE k + 1 \in T
  <2> SUFFICES ASSUME NEW t \in SUBSET (1 .. k + 1), t # {}
               PROVE  \E x \in t : \A y \in t : x <= y
    OBVIOUS
  <2> DEFINE r == t \ {k + 1}
  <2>1. r \in SUBSET (1 .. k)
    OBVIOUS
  <2>2. CASE r = {}
    <3>1. (\A y \in t : y = k + 1) /\ k + 1 \in Nat
      BY <2>2
    <3>2. \A x, y \in t : x <= y
      BY <3>1
    <3> QED BY <3>2
  <2>3. CASE r # {}
    <3>1. PICK x \in r : \A y \in r : x <= y
      BY <2>1, <2>3
    <3>2. x \in t /\ x <= k + 1
      BY <2>1
    <3> QED BY <3>1, <3>2
  <2> QED BY <2>2, <2>3
<1>3. T = Nat
  <2>1. T \subseteq Nat /\ \A k \in T : k + 1 \in T
    BY <1>2
  <2> HIDE DEF T
  <2> QED BY <1>1, <2>1, SetInduction
<1> QED BY <1>3
=============================================================================
