-------------------------- MODULE GroupLedgerProofs --------------------------
(***************************************************************************)
(* Theorems about GroupLedger, for any number of users, expenses and       *)
(* concurrent calls: equal splits add up to their total; the splits of     *)
(* every stored expense do; the balances that are shown add up to zero     *)
(* when everybody involved is a member and nothing changes meanwhile; the  *)
(* activity feed is a trail of the expenses and memberships.               *)
(*                                                                         *)
(* The money is summed with the folds of the community modules.  Their     *)
(* recursion is handled here by induction over numbers and finite sets,    *)
(* derived from the fact that every set of numbers has a least one.        *)
(***************************************************************************)
EXTENDS GroupLedger, FiniteSetTheorems, SequenceTheorems, WellFoundedInduction,
        TLAPS

(* A set of numbers has a least one: they are well-founded. *)
LEMMA LeastOf ==
  ASSUME NEW S \in SUBSET Nat, S # {}
  PROVE  \E m \in S : \A k \in S : m <= k
PROOF
<1> DEFINE Less == OpToRel(<, Nat)
<1>1. IsWellFoundedOn(Less, Nat)
  BY NatLessThanWellFounded
<1> HIDE DEF Less
<1>2. PICK m \in S : \A k \in S : <<k, m>> \notin Less
  BY <1>1, WFMin
<1>3. ASSUME NEW k \in S PROVE m <= k
  <2>1. k \in Nat /\ m \in Nat /\ <<k, m>> \notin Less
    BY <1>2
  <2>2. ~(k < m)
    BY <2>1 DEF Less, OpToRel
  <2> QED
    BY <2>1, <2>2
<1> QED
  BY <1>3

\* Induction for a set of numbers.
LEMMA AllNumbers ==
  ASSUME NEW P \in SUBSET Nat, 0 \in P, \A n \in P : n + 1 \in P
  PROVE  P = Nat
<1> DEFINE Others == Nat \ P
<1>1. CASE Others # {}
  <2>1. PICK m \in Others : \A k \in Others : m <= k
    BY <1>1, LeastOf
  <2>2. m \in Nat /\ m # 0 /\ m \notin P
    OBVIOUS
  <2>3. m - 1 \in Nat
    BY <2>2
  <2>4. m - 1 \in P
    BY <2>1, <2>2, <2>3
  <2>5. (m - 1) + 1 = m
    BY <2>2
  <2>6. QED BY <2>2, <2>4, <2>5
<1>2. QED BY <1>1

\* Induction for a set of subsets of a finite set.
LEMMA AllSubsets ==
  ASSUME NEW S, IsFiniteSet(S), NEW P,
         \A s \in SUBSET S : (\A x \in s : s \ {x} \in P) => s \in P
  PROVE  \A s \in SUBSET S : s \in P
<1> DEFINE C == {n \in Nat : \A s \in SUBSET S : Cardinality(s) = n => s \in P}
<1>0. \A s \in SUBSET S : IsFiniteSet(s) /\ Cardinality(s) \in Nat
  BY FS_Subset, FS_CardinalityType
<1>1. 0 \in C
  <2>1. \A s \in SUBSET S : Cardinality(s) = 0 => s = {}
    BY <1>0, FS_EmptySet
  <2>2. {} \in P
    OBVIOUS
  <2>3. QED BY <2>1, <2>2
<1>2. ASSUME NEW n \in C PROVE n + 1 \in C
  <2>1. n \in Nat /\ \A s \in SUBSET S : Cardinality(s) = n => s \in P
    OBVIOUS
  <2>2. ASSUME NEW s \in SUBSET S, Cardinality(s) = n + 1, NEW x \in s
        PROVE  s \ {x} \in P
    <3>1. IsFiniteSet(s) /\ Cardinality(s \ {x}) = Cardinality(s) - 1
      BY <1>0, FS_RemoveElement
    <3>2. Cardinality(s \ {x}) = n
      BY <2>1, <2>2, <3>1
    <3>3. QED BY <2>1, <3>2
  <2>3. QED BY <2>1, <2>2
<1>3. C = Nat
  <2>1. C \in SUBSET Nat
    OBVIOUS
  <2> HIDE DEF C
  <2>2. QED BY <1>1, <1>2, <2>1, AllNumbers
<1>4. QED BY <1>0, <1>3

----------------------------------------------------------------------------
(* Sums *)

\* What SumFunctionOnSet computes for every subset of S: the sum without a
\* chosen element, and that element.
Choice(s) == CHOOSE x \in s : TRUE
Step(f, h, s) == IF s = {} THEN 0 ELSE f[Choice(s)] + h[s \ {Choice(s)}]
SumsUp(f, S, h) == h = [s \in SUBSET S |-> Step(f, h, s)]
Iterated(f, S) == CHOOSE h : SumsUp(f, S, h)
Whole(f, S) == \A x \in S : f[x] \in Int

(* The folds of the library define the sum by its recursion. *)
LEMMA SumIs ==
  ASSUME NEW f, NEW S
  PROVE  SumFunctionOnSet(f, S) = Iterated(f, S)[S]
BY DEF SumFunctionOnSet, FoldFunctionOnSet, MapThenFoldSet, Iterated, SumsUp, Step, Choice

(* What is chosen is an element. *)
LEMMA ChoiceIn ==
  ASSUME NEW s, s # {}
  PROVE  Choice(s) \in s
BY DEF Choice

\* There are such sums.
LEMMA SumsExist ==
  ASSUME NEW S, IsFiniteSet(S), NEW f, Whole(f, S)
  PROVE  SumsUp(f, S, Iterated(f, S))
<1> DEFINE Fits(h, n) ==
             \A s \in SUBSET S : Cardinality(s) <= n => h[s] = Step(f, h, s)
           Reached == {n \in Nat : \E h \in [SUBSET S -> Int] : Fits(h, n)}
<1>0. \A s \in SUBSET S : IsFiniteSet(s) /\ Cardinality(s) \in Nat
  BY FS_Subset, FS_CardinalityType
<1>1. 0 \in Reached
  <2> DEFINE h == [s \in SUBSET S |-> 0]
  <2>1. \A s \in SUBSET S : Cardinality(s) <= 0 => s = {}
    BY <1>0, FS_EmptySet
  <2>2. h \in [SUBSET S -> Int] /\ Fits(h, 0)
    BY <2>1 DEF Step
  <2> HIDE DEF h, Fits
  <2>3. QED BY <2>2
<1>2. ASSUME NEW n \in Reached PROVE n + 1 \in Reached
  <2>1. n \in Nat
    OBVIOUS
  <2>2. PICK h \in [SUBSET S -> Int] : Fits(h, n)
    OBVIOUS
  <2> DEFINE k == [s \in SUBSET S |-> IF Cardinality(s) <= n THEN h[s] ELSE Step(f, h, s)]
  <2>3. ASSUME NEW s \in SUBSET S, s # {}
        PROVE  /\ Choice(s) \in S /\ f[Choice(s)] \in Int /\ s \ {Choice(s)} \in SUBSET S
               /\ h[s \ {Choice(s)}] \in Int
               /\ Cardinality(s \ {Choice(s)}) = Cardinality(s) - 1
    <3>1. Choice(s) \in s
      BY <2>3, ChoiceIn
    <3>2. s \ {Choice(s)} \in SUBSET S /\ Choice(s) \in S
      BY <3>1
    <3>3. h[s \ {Choice(s)}] \in Int
      BY <3>2
    <3>4. IsFiniteSet(s)
      BY <1>0
    <3>5. Cardinality(s \ {Choice(s)}) = Cardinality(s) - 1
      BY <3>1, <3>4, FS_RemoveElement
    <3>6. f[Choice(s)] \in Int
      BY <3>2 DEF Whole
    <3>7. QED BY <3>2, <3>3, <3>5, <3>6
  <2>4. k \in [SUBSET S -> Int]
    <3>1. ASSUME NEW s \in SUBSET S
          PROVE  Step(f, h, s) \in Int
      <4>1. CASE s = {}
        BY <4>1 DEF Step
      <4>2. CASE s # {}
        <5>1. Step(f, h, s) = f[Choice(s)] + h[s \ {Choice(s)}]
          BY <4>2 DEF Step
        <5>2. QED BY <2>3, <4>2, <5>1
      <4>3. QED BY <4>1, <4>2
    <3>2. QED BY <3>1
  <2>5. Fits(k, n + 1)
    <3> SUFFICES ASSUME NEW s \in SUBSET S, Cardinality(s) <= n + 1
                 PROVE  k[s] = Step(f, k, s)
      OBVIOUS
    <3>1. CASE s = {}
      <4>1. Cardinality(s) = 0
        BY <3>1, FS_EmptySet
      <4>2. h[s] = 0 /\ Cardinality(s) <= n
        BY <2>1, <2>2, <3>1, <4>1 DEF Step
      <4>3. QED BY <3>1, <4>2 DEF Step
    <3>2. CASE s # {}
      <4> DEFINE r == s \ {Choice(s)}
      <4>1. r \in SUBSET S /\ Cardinality(r) <= n /\ Cardinality(s) \in Nat
        BY <1>0, <2>1, <2>3, <3>2
      <4>2. k[r] = h[r]
        BY <4>1
      <4>3. k[s] = Step(f, h, s)
        BY <2>2
      <4>4. /\ Step(f, h, s) = f[Choice(s)] + h[r]
            /\ Step(f, k, s) = f[Choice(s)] + k[r]
        BY <3>2 DEF Step
      <4> HIDE DEF k, r
      <4>5. QED BY <4>2, <4>3, <4>4
    <3>3. QED BY <3>1, <3>2
  <2> HIDE DEF k, Fits
  <2>6. \E g \in [SUBSET S -> Int] : Fits(g, n + 1)
    BY <2>4, <2>5
  <2>7. n + 1 \in Nat
    BY <2>1
  <2>8. QED BY <2>6, <2>7
<1>3. Reached = Nat
  <2>1. Reached \in SUBSET Nat
    OBVIOUS
  <2> HIDE DEF Reached
  <2>2. QED BY <1>1, <1>2, <2>1, AllNumbers
<1>4. PICK h \in [SUBSET S -> Int] : Fits(h, Cardinality(S))
  <2>1. Cardinality(S) \in Reached
    BY <1>0, <1>3
  <2> HIDE DEF Fits
  <2>2. QED BY <2>1
<1>5. SumsUp(f, S, h)
  <2>1. \A s \in SUBSET S : Cardinality(s) <= Cardinality(S)
    BY FS_Subset
  <2>2. \A s \in SUBSET S : h[s] = Step(f, h, s)
    BY <1>4, <2>1
  <2>3. h = [s \in SUBSET S |-> h[s]]
    OBVIOUS
  <2>4. QED BY <2>2, <2>3 DEF SumsUp
<1>6. QED BY <1>5 DEF Iterated

\* They are numbers.
LEMMA SumsAreWhole ==
  ASSUME NEW S, IsFiniteSet(S), NEW f, Whole(f, S), NEW h, SumsUp(f, S, h)
  PROVE  \A s \in SUBSET S : h[s] \in Int
<1> DEFINE P == {s \in SUBSET S : h[s] \in Int}
<1>1. ASSUME NEW s \in SUBSET S, \A x \in s : s \ {x} \in P
      PROVE  s \in P
  <2>1. h[s] = Step(f, h, s)
    BY DEF SumsUp
  <2>2. CASE s # {}
    <3>1. Choice(s) \in s
      BY <2>2, ChoiceIn
    <3>2. h[s \ {Choice(s)}] \in Int /\ f[Choice(s)] \in Int
      BY <1>1, <3>1 DEF Whole
    <3>3. QED BY <2>1, <2>2, <3>2 DEF Step
  <2>3. QED BY <2>1, <2>2 DEF Step
<1> HIDE DEF P
<1>2. \A s \in SUBSET S : s \in P
  BY <1>1, AllSubsets
<1>3. QED BY <1>2 DEF P

\* Any element may be taken first.
LEMMA TakeAny ==
  ASSUME NEW S, IsFiniteSet(S), NEW f, Whole(f, S), NEW h, SumsUp(f, S, h)
  PROVE  \A s \in SUBSET S : \A x \in s : h[s] = f[x] + h[s \ {x}]
<1> DEFINE P == {s \in SUBSET S : \A x \in s : h[s] = f[x] + h[s \ {x}]}
<1>1. ASSUME NEW s \in SUBSET S, \A x \in s : s \ {x} \in P
      PROVE  s \in P
  <2> SUFFICES ASSUME NEW x \in s PROVE h[s] = f[x] + h[s \ {x}]
    OBVIOUS
  <2> DEFINE c == Choice(s)
  <2>1. c \in s /\ h[s] = f[c] + h[s \ {c}]
    BY ChoiceIn DEF SumsUp, Step
  <2> HIDE DEF c
  <2>2. CASE x # c
    <3>1. h[s \ {c}] = f[x] + h[(s \ {c}) \ {x}]
      BY <1>1, <2>1, <2>2
    <3>2. h[s \ {x}] = f[c] + h[(s \ {x}) \ {c}]
      BY <1>1, <2>1, <2>2
    <3>3. (s \ {x}) \ {c} = (s \ {c}) \ {x}
      OBVIOUS
    <3>4. f[x] \in Int /\ f[c] \in Int /\ h[(s \ {c}) \ {x}] \in Int
      <4>1. (s \ {c}) \ {x} \in SUBSET S
        OBVIOUS
      <4>2. QED BY <2>1, <4>1, SumsAreWhole DEF Whole
    <3> DEFINE u == h[(s \ {c}) \ {x}]
    <3>5. h[s] = f[c] + (f[x] + u) /\ h[s \ {x}] = f[c] + u
      BY <2>1, <3>1, <3>2, <3>3
    <3>6. u \in Int
      BY <3>4
    <3> HIDE DEF u
    <3>7. QED BY <3>4, <3>5, <3>6
  <2>3. QED BY <2>1, <2>2
<1> HIDE DEF P
<1>2. \A s \in SUBSET S : s \in P
  BY <1>1, AllSubsets
<1>3. QED BY <1>2 DEF P

\* Sums of functions that agree are the same.
LEMMA SumsAgree ==
  ASSUME NEW S, IsFiniteSet(S), NEW R, NEW f, NEW g, NEW h, NEW k,
         S \subseteq R, \A x \in S : f[x] = g[x], SumsUp(f, S, h), SumsUp(g, R, k)
  PROVE  h[S] = k[S]
<1> DEFINE P == {s \in SUBSET S : h[s] = k[s]}
<1>1. ASSUME NEW s \in SUBSET S, \A x \in s : s \ {x} \in P
      PROVE  s \in P
  <2>1. h[s] = Step(f, h, s) /\ k[s] = Step(g, k, s)
    BY DEF SumsUp
  <2>2. CASE s # {}
    <3>1. Choice(s) \in s
      BY <2>2, ChoiceIn
    <3>2. h[s \ {Choice(s)}] = k[s \ {Choice(s)}] /\ f[Choice(s)] = g[Choice(s)]
      BY <1>1, <3>1
    <3>3. QED BY <2>1, <2>2, <3>2 DEF Step
  <2>3. QED BY <2>1, <2>2 DEF Step
<1> HIDE DEF P
<1>2. \A s \in SUBSET S : s \in P
  BY <1>1, AllSubsets
<1>3. QED BY <1>2 DEF P

(* The sum only depends on the values in the set. *)
LEMMA SumSame ==
  ASSUME NEW S, IsFiniteSet(S), NEW f, NEW g, Whole(f, S), \A x \in S : f[x] = g[x]
  PROVE  SumFunctionOnSet(f, S) = SumFunctionOnSet(g, S)
<1>1. Whole(g, S)
  BY DEF Whole
<1>2. SumsUp(f, S, Iterated(f, S)) /\ SumsUp(g, S, Iterated(g, S))
  BY <1>1, SumsExist
<1>3. Iterated(f, S)[S] = Iterated(g, S)[S]
  BY <1>2, SumsAgree
<1>4. QED BY <1>3, SumIs

(* The empty sum. *)
LEMMA SumNothing ==
  ASSUME NEW f
  PROVE  SumFunctionOnSet(f, {}) = 0
<1>1. SumsUp(f, {}, Iterated(f, {}))
  BY SumsExist, FS_EmptySet DEF Whole
<1>2. Iterated(f, {})[{}] = 0
  BY <1>1 DEF SumsUp, Step
<1>3. QED BY <1>2, SumIs

\* One element and the others.
LEMMA SumTakes ==
  ASSUME NEW S, IsFiniteSet(S), NEW f, Whole(f, S), NEW x \in S
  PROVE  SumFunctionOnSet(f, S) = f[x] + SumFunctionOnSet(f, S \ {x})
<1> DEFINE h == Iterated(f, S)
           R == S \ {x}
<1>1. SumsUp(f, S, h) /\ IsFiniteSet(R) /\ Whole(f, R)
  BY SumsExist, FS_RemoveElement DEF Whole
<1>2. SumsUp(f, R, Iterated(f, R))
  BY <1>1, SumsExist
<1>3. Iterated(f, R)[R] = h[R]
  BY <1>1, <1>2, SumsAgree
<1>4. h[S] = f[x] + h[R]
  BY <1>1, TakeAny
<1>5. QED BY <1>3, <1>4, SumIs

(* A sum of whole numbers is one. *)
LEMMA SumIsWhole ==
  ASSUME NEW S, IsFiniteSet(S), NEW f, Whole(f, S)
  PROVE  SumFunctionOnSet(f, S) \in Int
BY SumsExist, SumsAreWhole, SumIs

(* One more element. *)
LEMMA SumAdds ==
  ASSUME NEW S, IsFiniteSet(S), NEW f, NEW x, x \notin S, Whole(f, S \cup {x})
  PROVE  SumFunctionOnSet(f, S \cup {x}) = f[x] + SumFunctionOnSet(f, S)
<1>1. IsFiniteSet(S \cup {x}) /\ (S \cup {x}) \ {x} = S
  BY FS_AddElement
<1>2. QED BY <1>1, SumTakes

(* The sum of sums. *)
LEMMA SumPlus ==
  ASSUME NEW S, IsFiniteSet(S), NEW f, NEW g, NEW k, Whole(f, S), Whole(g, S),
         \A x \in S : k[x] = f[x] + g[x]
  PROVE  SumFunctionOnSet(k, S) = SumFunctionOnSet(f, S) + SumFunctionOnSet(g, S)
<1> DEFINE P == {s \in SUBSET S :
                   SumFunctionOnSet(k, s) = SumFunctionOnSet(f, s) + SumFunctionOnSet(g, s)}
<1>1. ASSUME NEW s \in SUBSET S
      PROVE  IsFiniteSet(s) /\ Whole(f, s) /\ Whole(g, s) /\ Whole(k, s)
  BY FS_Subset DEF Whole
<1>2. ASSUME NEW s \in SUBSET S, \A x \in s : s \ {x} \in P
      PROVE  s \in P
  <2>1. CASE s = {}
    BY <2>1, SumNothing
  <2>2. CASE s # {}
    <3>1. PICK x \in s : TRUE
      BY <2>2
    <3> DEFINE r == s \ {x}
    <3>2. r \in SUBSET S
      OBVIOUS
    <3>3. /\ SumFunctionOnSet(k, s) = k[x] + SumFunctionOnSet(k, r)
          /\ SumFunctionOnSet(f, s) = f[x] + SumFunctionOnSet(f, r)
          /\ SumFunctionOnSet(g, s) = g[x] + SumFunctionOnSet(g, r)
      BY <1>1, SumTakes
    <3>4. SumFunctionOnSet(f, r) \in Int /\ SumFunctionOnSet(g, r) \in Int
      BY <1>1, <3>2, SumIsWhole
    <3>5. f[x] \in Int /\ g[x] \in Int /\ k[x] = f[x] + g[x]
      BY <3>1 DEF Whole
    <3>6. SumFunctionOnSet(k, r) = SumFunctionOnSet(f, r) + SumFunctionOnSet(g, r)
      BY <1>2, <3>1
    <3> HIDE DEF r
    <3>7. SumFunctionOnSet(k, s) = SumFunctionOnSet(f, s) + SumFunctionOnSet(g, s)
      BY <3>3, <3>4, <3>5, <3>6
    <3>8. QED BY <3>7
  <2>3. QED BY <2>1, <2>2
<1> HIDE DEF P
<1>3. \A s \in SUBSET S : s \in P
  BY <1>2, AllSubsets
<1>4. QED BY <1>3 DEF P

\* What is zero outside of a set.
LEMMA SumWithin ==
  ASSUME NEW S, IsFiniteSet(S), NEW T \in SUBSET S, NEW f, Whole(f, S),
         \A x \in S \ T : f[x] = 0
  PROVE  SumFunctionOnSet(f, S) = SumFunctionOnSet(f, T)
<1> DEFINE D == S \ T
           P == {s \in SUBSET D :
                   SumFunctionOnSet(f, T \cup s) = SumFunctionOnSet(f, T)}
<1>1. IsFiniteSet(D) /\ IsFiniteSet(T) /\ Whole(f, T)
  BY FS_Subset DEF Whole
<1>2. SumFunctionOnSet(f, T) \in Int
  BY <1>1, SumIsWhole
<1>3. ASSUME NEW s \in SUBSET D, \A x \in s : s \ {x} \in P
      PROVE  s \in P
  <2>1. CASE s = {}
    BY <2>1
  <2>2. CASE s # {}
    <3>1. PICK x \in s : TRUE
      BY <2>2
    <3>2. IsFiniteSet(T \cup s) /\ Whole(f, T \cup s) /\ f[x] = 0
      BY <3>1, FS_Subset DEF Whole
    <3>3. SumFunctionOnSet(f, T \cup s) = f[x] + SumFunctionOnSet(f, (T \cup s) \ {x})
      BY <3>1, <3>2, SumTakes
    <3>4. (T \cup s) \ {x} = T \cup (s \ {x})
      BY <3>1
    <3>5. SumFunctionOnSet(f, T \cup (s \ {x})) = SumFunctionOnSet(f, T)
      BY <1>3, <3>1
    <3>6. SumFunctionOnSet(f, T \cup s) = SumFunctionOnSet(f, T)
      <4>1. SumFunctionOnSet(f, (T \cup s) \ {x}) = SumFunctionOnSet(f, T)
        BY <3>4, <3>5
      <4>2. f[x] = 0
        BY <3>2
      <4>3. QED BY <1>2, <3>3, <4>1, <4>2
    <3>7. QED BY <3>6
  <2>3. QED BY <2>1, <2>2
<1> HIDE DEF P, D
<1>4. \A s \in SUBSET D : s \in P
  BY <1>1, <1>3, AllSubsets
<1>5. T \cup D = S
  BY DEF D
<1>6. QED BY <1>4, <1>5 DEF P

(* Nothing but zeros. *)
LEMMA SumZero ==
  ASSUME NEW S, IsFiniteSet(S), NEW f, \A x \in S : f[x] = 0
  PROVE  SumFunctionOnSet(f, S) = 0
<1>1. Whole(f, S)
  BY DEF Whole
<1>2. SumFunctionOnSet(f, S) = SumFunctionOnSet(f, {})
  BY <1>1, SumWithin
<1>3. QED BY <1>2, SumNothing

(* Zero but for one element. *)
LEMMA SumOne ==
  ASSUME NEW S, IsFiniteSet(S), NEW f, NEW y \in S, f[y] \in Int,
         \A x \in S \ {y} : f[x] = 0
  PROVE  SumFunctionOnSet(f, S) = f[y]
<1>1. Whole(f, S) /\ IsFiniteSet(S \ {y})
  BY FS_RemoveElement DEF Whole
<1>2. SumFunctionOnSet(f, S) = f[y] + SumFunctionOnSet(f, S \ {y})
  BY <1>1, SumTakes
<1>3. SumFunctionOnSet(f, S \ {y}) = 0
  BY <1>1, SumZero
<1>4. QED BY <1>2, <1>3

\* A table whose rows add up to zero: so do the sums of its columns.
LEMMA ColumnsCancel ==
  ASSUME NEW U, IsFiniteSet(U), NEW E, IsFiniteSet(E), NEW m,
         \A e \in E : Whole(m[e], U) /\ SumFunctionOnSet(m[e], U) = 0
  PROVE  LET column == [u \in U |-> SumFunctionOnSet([e \in E |-> m[e][u]], E)]
         IN  Whole(column, U) /\ SumFunctionOnSet(column, U) = 0
<1> DEFINE entries(u) == [e \in E |-> m[e][u]]
           columns(s) == [u \in U |-> SumFunctionOnSet(entries(u), s)]
           P == {s \in SUBSET E : SumFunctionOnSet(columns(s), U) = 0}
<1>1. ASSUME NEW s \in SUBSET E, NEW u \in U
      PROVE  IsFiniteSet(s) /\ Whole(entries(u), s)
  BY FS_Subset DEF Whole
<1>2. ASSUME NEW s \in SUBSET E
      PROVE  Whole(columns(s), U)
  <2> SUFFICES ASSUME NEW u \in U PROVE SumFunctionOnSet(entries(u), s) \in Int
    BY DEF Whole
  <2> HIDE DEF entries
  <2>1. QED BY <1>1, SumIsWhole
<1>3. ASSUME NEW s \in SUBSET E, \A x \in s : s \ {x} \in P
      PROVE  s \in P
  <2>1. CASE s = {}
    <3>1. \A u \in U : columns(s)[u] = 0
      BY <2>1, SumNothing
    <3> HIDE DEF columns
    <3>2. SumFunctionOnSet(columns(s), U) = 0
      BY <3>1, SumZero
    <3>3. QED BY <3>2
  <2>2. CASE s # {}
    <3>1. PICK x \in s : TRUE
      BY <2>2
    <3> DEFINE r == s \ {x}
    <3>2. \A u \in U : columns(s)[u] = m[x][u] + columns(r)[u]
      <4> SUFFICES ASSUME NEW u \in U
                   PROVE  SumFunctionOnSet(entries(u), s)
                            = m[x][u] + SumFunctionOnSet(entries(u), r)
        OBVIOUS
      <4>1. entries(u)[x] = m[x][u]
        BY <3>1
      <4>2. IsFiniteSet(s) /\ Whole(entries(u), s)
        BY <1>1
      <4> HIDE DEF entries
      <4>3. SumFunctionOnSet(entries(u), s)
              = entries(u)[x] + SumFunctionOnSet(entries(u), r)
        BY <3>1, <4>2, SumTakes
      <4>4. QED BY <4>1, <4>3
    <3>3. Whole(m[x], U) /\ SumFunctionOnSet(m[x], U) = 0
      BY <3>1
    <3>4. r \in SUBSET E /\ r \in P
      BY <1>3, <3>1
    <3>5. Whole(columns(r), U) /\ SumFunctionOnSet(columns(r), U) = 0
      BY <1>2, <3>4
    <3> HIDE DEF columns, r
    <3>6. SumFunctionOnSet(columns(s), U)
            = SumFunctionOnSet(m[x], U) + SumFunctionOnSet(columns(r), U)
      BY <3>2, <3>3, <3>5, SumPlus
    <3>7. SumFunctionOnSet(columns(s), U) = 0
      BY <3>3, <3>5, <3>6
    <3>8. QED BY <3>7
  <2>3. QED BY <2>1, <2>2
<1>4. E \in P
  <2> HIDE DEF P
  <2>1. \A s \in SUBSET E : s \in P
    BY <1>3, AllSubsets
  <2>2. QED BY <2>1
<1>5. Whole(columns(E), U) /\ SumFunctionOnSet(columns(E), U) = 0
  BY <1>2, <1>4
<1>6. QED BY <1>5

----------------------------------------------------------------------------
(* split.util.ts and balance.util.ts *)

\* The first i participants.
FirstOf(q, i) == {q[j] : j \in 1 .. i}
Injective(q) == \A i, j \in DOMAIN q : q[i] = q[j] => i = j

(* The position of the participant at i is i. *)
LEMMA PositionIs ==
  ASSUME NEW q, Injective(q), NEW i \in DOMAIN q
  PROVE  Position(q, q[i]) = i
BY DEF Position, Injective

\* calculateEqualSplits: whatever the total and however many participants
\* there are, "the sum of every generated split is guaranteed to equal the
\* expense total exactly" (split.util.ts:8).
THEOREM EqualSplitsAddUp ==
  ASSUME NEW S, NEW q \in Seq(S), q # <<>>, Injective(q), NEW total \in Nat
  PROVE  LET s == calculateEqualSplits(total, q)
         IN  /\ DOMAIN s = Range(q) /\ \A u \in Range(q) : s[u] \in Nat
             /\ IsFiniteSet(Range(q))
             /\ sumSplitAmounts(s) = total
<1> DEFINE n == Len(q)
           d == total \div n
           r == total % n
           s == calculateEqualSplits(total, q)
           Part(i) == IF i <= r THEN i ELSE r
           Dealt == {i \in Nat : i <= n =>
                       /\ IsFiniteSet(FirstOf(q, i))
                       /\ SumFunctionOnSet(s, FirstOf(q, i)) = i * d + Part(i)}
<1>1. n \in Nat \ {0} /\ DOMAIN q = 1 .. n
  BY EmptySeq, LenProperties
<1>2. d \in Nat /\ r \in 0 .. n - 1 /\ total = n * d + r
  BY <1>1
<1>3. ASSUME NEW i \in 1 .. n
      PROVE  /\ q[i] \in Range(q)
             /\ s[q[i]] = d + (IF i <= r THEN 1 ELSE 0)
  BY <1>1, PositionIs DEF calculateEqualSplits, Range
<1>4. DOMAIN s = Range(q) /\ \A u \in Range(q) : \E i \in 1 .. n : u = q[i]
  BY <1>1 DEF calculateEqualSplits, Range
<1> HIDE DEF n, d, r, s
<1>5. \A u \in Range(q) : s[u] \in Nat
  BY <1>2, <1>3, <1>4
<1>6. 0 \in Dealt
  <2>1. FirstOf(q, 0) = {}
    BY DEF FirstOf
  <2>2. 0 * d + Part(0) = 0
    BY <1>2
  <2>3. QED BY <2>1, <2>2, SumNothing, FS_EmptySet
<1>7. ASSUME NEW i \in Dealt PROVE i + 1 \in Dealt
  <2>1. i \in Nat
    OBVIOUS
  <2>2. ASSUME i + 1 <= n
        PROVE  /\ IsFiniteSet(FirstOf(q, i + 1))
               /\ SumFunctionOnSet(s, FirstOf(q, i + 1)) = (i + 1) * d + Part(i + 1)
    <3> DEFINE F == FirstOf(q, i)
    <3>1. IsFiniteSet(F) /\ SumFunctionOnSet(s, F) = i * d + Part(i)
      BY <1>1, <2>1, <2>2
    <3>2. FirstOf(q, i + 1) = F \cup {q[i + 1]} /\ i + 1 \in 1 .. n
      BY <1>1, <2>1, <2>2 DEF FirstOf
    <3>3. q[i + 1] \notin F
      BY <1>1, <2>1, <2>2 DEF FirstOf, Injective
    <3>4. Whole(s, F \cup {q[i + 1]})
      BY <1>1, <1>3, <1>5, <2>1, <2>2 DEF FirstOf, Whole
    <3>5. s[q[i + 1]] = d + (IF i + 1 <= r THEN 1 ELSE 0)
      BY <1>3, <3>2
    <3> HIDE DEF F
    <3>6. /\ IsFiniteSet(FirstOf(q, i + 1))
          /\ SumFunctionOnSet(s, FirstOf(q, i + 1)) = s[q[i + 1]] + SumFunctionOnSet(s, F)
      <4>1. IsFiniteSet(F \cup {q[i + 1]})
        BY <3>1, FS_AddElement
      <4>2. SumFunctionOnSet(s, F \cup {q[i + 1]}) = s[q[i + 1]] + SumFunctionOnSet(s, F)
        BY <3>1, <3>3, <3>4, SumAdds
      <4>3. QED BY <3>2, <4>1, <4>2
    <3>7. (i + 1) * d = i * d + d /\ i * d \in Nat
      BY <1>2, <2>1
    <3>8. Part(i + 1) = Part(i) + (IF i + 1 <= r THEN 1 ELSE 0) /\ Part(i) \in Nat
      BY <1>2, <2>1
    <3>9. QED BY <1>2, <3>1, <3>5, <3>6, <3>7, <3>8
  <2>3. i + 1 \in Nat
    BY <2>1
  <2>4. QED BY <2>2, <2>3
<1>8. Dealt = Nat
  <2>1. Dealt \in SUBSET Nat
    OBVIOUS
  <2> HIDE DEF Dealt
  <2>2. QED BY <1>6, <1>7, <2>1, AllNumbers
<1>9. FirstOf(q, n) = Range(q)
  BY <1>1 DEF FirstOf, Range
<1>10. IsFiniteSet(Range(q)) /\ SumFunctionOnSet(s, Range(q)) = n * d + Part(n)
  BY <1>1, <1>8, <1>9
<1>11. Part(n) = r
  BY <1>1, <1>2
<1>12. sumSplitAmounts(s) = total
  BY <1>2, <1>4, <1>10, <1>11 DEF sumSplitAmounts, SumFunction
<1>13. QED BY <1>4, <1>5, <1>10, <1>12 DEF s

(* One unit more: it goes on to the next remainder, or to the next round. *)
LEMMA NextUnit ==
  ASSUME NEW n \in Nat \ {0}, NEW t \in Nat
  PROVE  LET r == t % n
             d == t \div n
         IN  /\ d \in Nat /\ r \in 0 .. n - 1
             /\ r + 1 < n => (t + 1) \div n = d /\ (t + 1) % n = r + 1
             /\ r + 1 = n => (t + 1) \div n = d + 1 /\ (t + 1) % n = 0
<1> DEFINE r == t % n
           d == t \div n
           e == (t + 1) \div n
           s == (t + 1) % n
<1>1. d \in Nat /\ r \in 0 .. n - 1 /\ t = n * d + r
  OBVIOUS
<1>2. e \in Nat /\ s \in 0 .. n - 1 /\ t + 1 = n * e + s
  OBVIOUS
<1> HIDE DEF r, d, e, s
<1>3. n * e + s = n * d + r + 1
  BY <1>1, <1>2
<1>4. n * (d + 1) = n * d + n
  BY <1>1
<1>5. ASSUME NEW a \in Nat, NEW b \in Nat, a < b PROVE n * a + n <= n * b
  <2>1. PICK k \in Nat : b = a + 1 + k
    <3>1. b - a - 1 \in Nat /\ b = a + 1 + (b - a - 1)
      BY <1>5
    <3>2. QED BY <3>1
  <2>2. n * b = n * a + n + n * k /\ n * k \in Nat
    BY <2>1
  <2>3. n * a \in Nat
    OBVIOUS
  <2>4. QED BY <2>2, <2>3
<1>6. n * d \in Nat /\ n * e \in Nat
  BY <1>1, <1>2
<1>7. e < d => FALSE
  <2>1. e < d => n * e + n <= n * d
    BY <1>1, <1>2, <1>5
  <2>2. QED BY <1>1, <1>2, <1>3, <1>6, <2>1
<1>8. d + 1 < e => FALSE
  <2>1. d + 1 < e => n * (d + 1) + n <= n * e
    BY <1>1, <1>2, <1>5
  <2>2. QED BY <1>1, <1>2, <1>3, <1>4, <1>6, <2>1
<1>9. e = d \/ e = d + 1
  BY <1>1, <1>2, <1>7, <1>8
<1>10. CASE e = d
  <2>1. s = r + 1
    BY <1>1, <1>2, <1>3, <1>6, <1>10
  <2>2. QED BY <1>1, <1>2, <1>10, <2>1 DEF r, d, e, s
<1>11. CASE e = d + 1
  <2>1. s + n = r + 1
    BY <1>1, <1>2, <1>3, <1>4, <1>6, <1>11
  <2>2. s = 0 /\ r + 1 = n
    BY <1>1, <1>2, <2>1
  <2>3. QED BY <1>1, <1>2, <1>11, <2>2 DEF r, d, e, s
<1>12. QED BY <1>9, <1>10, <1>11

\* calculateEqualSplits gives each participant what dealing the units out one
\* by one, in turn and starting with the first participant, gives.
THEOREM UnitsAreDealt ==
  ASSUME NEW S, NEW q \in Seq(S), q # <<>>, Injective(q), NEW total \in Nat,
         NEW i \in DOMAIN q
  PROVE  calculateEqualSplits(total, q)[q[i]]
           = Cardinality({unit \in 0 .. total - 1 : unit % Len(q) = i - 1})
<1> DEFINE n == Len(q)
           Owed(t) == t \div n + (IF i <= t % n THEN 1 ELSE 0)
           Dealt(t) == {unit \in 0 .. t - 1 : unit % n = i - 1}
           Right == {t \in Nat : IsFiniteSet(Dealt(t)) /\ Cardinality(Dealt(t)) = Owed(t)}
<1>1. n \in Nat \ {0} /\ DOMAIN q = 1 .. n
  BY EmptySeq, LenProperties
<1>2. \A t : calculateEqualSplits(t, q)[q[i]] = Owed(t)
  BY PositionIs DEF calculateEqualSplits, Range
<1> HIDE DEF n
<1>3. 0 \in Right
  <2>1. Dealt(0) = {}
    OBVIOUS
  <2>2. 0 \div n = 0 /\ 0 % n = 0
    BY <1>1
  <2>3. Owed(0) = 0
    BY <1>1, <2>2
  <2>4. QED BY <2>1, <2>3, FS_EmptySet
<1>4. ASSUME NEW t \in Right PROVE t + 1 \in Right
  <2>1. t \in Nat /\ IsFiniteSet(Dealt(t)) /\ Cardinality(Dealt(t)) = Owed(t)
    OBVIOUS
  <2>2. Dealt(t + 1) = IF t % n = i - 1 THEN Dealt(t) \cup {t} ELSE Dealt(t)
    BY <2>1
  <2>3. t \notin Dealt(t)
    BY <2>1
  <2>4. Owed(t) \in Nat /\ Owed(t + 1) = Owed(t) + (IF t % n = i - 1 THEN 1 ELSE 0)
    <3> DEFINE r == t % n
               d == t \div n
               e == (t + 1) \div n
               s == (t + 1) % n
    <3>1. /\ d \in Nat /\ r \in 0 .. n - 1
          /\ r + 1 < n => e = d /\ s = r + 1
          /\ r + 1 = n => e = d + 1 /\ s = 0
      BY <1>1, <2>1, NextUnit
    <3>2. i \in 1 .. n
      BY <1>1
    <3> HIDE DEF r, d, e, s
    <3>3. /\ d + (IF i <= r THEN 1 ELSE 0) \in Nat
          /\ e + (IF i <= s THEN 1 ELSE 0)
               = d + (IF i <= r THEN 1 ELSE 0) + (IF r = i - 1 THEN 1 ELSE 0)
      <4>1. CASE r + 1 < n
        BY <1>1, <3>1, <3>2, <4>1
      <4>2. CASE r + 1 = n
        BY <1>1, <3>1, <3>2, <4>2
      <4>3. QED BY <1>1, <3>1, <4>1, <4>2
    <3>4. QED BY <3>3 DEF r, d, e, s
  <2> DEFINE T == Dealt(t)
             U == Dealt(t + 1)
  <2> HIDE DEF T, U
  <2>5. IsFiniteSet(U) /\ Cardinality(U) = Owed(t + 1)
    <3>1. IsFiniteSet(T) /\ Cardinality(T) = Owed(t) /\ t \notin T
      BY <2>1, <2>3 DEF T
    <3>2. U = IF t % n = i - 1 THEN T \cup {t} ELSE T
      BY <2>2 DEF T, U
    <3> HIDE DEF Owed
    <3>3. CASE t % n = i - 1
      BY <2>4, <3>1, <3>2, <3>3, FS_AddElement
    <3>4. CASE t % n # i - 1
      BY <2>4, <3>1, <3>2, <3>4
    <3>5. QED BY <3>3, <3>4
  <2>6. t + 1 \in Nat
    BY <2>1
  <2>7. QED BY <2>5, <2>6 DEF U
<1>5. Right = Nat
  <2>1. Right \in SUBSET Nat
    OBVIOUS
  <2> HIDE DEF Right
  <2>2. QED BY <1>3, <1>4, <2>1, AllNumbers
<1>6. Cardinality(Dealt(total)) = Owed(total)
  BY <1>5
<1>7. QED BY <1>2, <1>6 DEF n

\* An expense whose users are among those whose balances are computed.
Covered(e, users) ==
  /\ e.payer \in users /\ e.total \in Int
  /\ DOMAIN e.splits \subseteq users /\ Whole(e.splits, DOMAIN e.splits)
  /\ sumSplitAmounts(e.splits) = e.total

(* What one expense adds to the balances of all users is zero. *)
LEMMA ExpenseCancels ==
  ASSUME NEW users, IsFiniteSet(users), NEW e, Covered(e, users)
  PROVE  LET row == [u \in users |-> CreditOfExpense(e, u)]
         IN  Whole(row, users) /\ SumFunctionOnSet(row, users) = 0
<1> DEFINE paid == [u \in users |-> When(e.payer = u, e.total)]
           share == [u \in users |-> Share(e.splits, u)]
           row == [u \in users |-> CreditOfExpense(e, u)]
<1>1. /\ \A u \in users : paid[u] = IF u = e.payer THEN e.total ELSE 0
      /\ e.payer \in users /\ e.total \in Int
  BY DEF Covered, When
<1>2. \A u \in users : share[u] = IF u \in DOMAIN e.splits THEN e.splits[u] ELSE 0
  BY DEF Share
<1>3. \A u \in users : row[u] = paid[u] - share[u]
  BY DEF CreditOfExpense
<1> HIDE DEF paid, share, row
<1>4. Whole(paid, users) /\ Whole(share, users) /\ Whole(row, users)
  BY <1>1, <1>2, <1>3 DEF Covered, Whole
<1>5. SumFunctionOnSet(paid, users) = e.total
  BY <1>1, SumOne
<1>6. SumFunctionOnSet(share, users) = e.total
  <2>1. SumFunctionOnSet(share, users) = SumFunctionOnSet(share, DOMAIN e.splits)
    BY <1>2, <1>4, SumWithin DEF Covered
  <2>2. IsFiniteSet(DOMAIN e.splits) /\ Whole(share, DOMAIN e.splits)
    BY <1>4, FS_Subset DEF Covered, Whole
  <2>3. SumFunctionOnSet(share, DOMAIN e.splits)
          = SumFunctionOnSet(e.splits, DOMAIN e.splits)
    BY <1>2, <2>2, SumSame DEF Covered
  <2>4. QED BY <2>1, <2>3 DEF Covered, sumSplitAmounts, SumFunction
<1>7. SumFunctionOnSet(paid, users)
        = SumFunctionOnSet(row, users) + SumFunctionOnSet(share, users)
  <2>1. \A u \in users : paid[u] = row[u] + share[u]
    BY <1>3, <1>4 DEF Whole
  <2>2. QED BY <1>4, <2>1, SumPlus
<1>8. SumFunctionOnSet(row, users) \in Int
  BY <1>4, SumIsWhole
<1>9. SumFunctionOnSet(row, users) = 0
  BY <1>1, <1>5, <1>6, <1>7, <1>8
<1>10. QED BY <1>4, <1>9 DEF row

(* What one settlement adds to the balances of all users is zero. *)
LEMMA SettlementCancels ==
  ASSUME NEW users, IsFiniteSet(users), NEW s,
         s.payer \in users, s.payee \in users, s.amount \in Int
  PROVE  LET row == [u \in users |-> CreditOfSettlement(s, u)]
         IN  Whole(row, users) /\ SumFunctionOnSet(row, users) = 0
<1> DEFINE sent == [u \in users |-> When(s.payer = u, s.amount)]
           received == [u \in users |-> When(s.payee = u, s.amount)]
           row == [u \in users |-> CreditOfSettlement(s, u)]
<1>1. /\ \A u \in users : sent[u] = IF u = s.payer THEN s.amount ELSE 0
      /\ \A u \in users : received[u] = IF u = s.payee THEN s.amount ELSE 0
  BY DEF When
<1>2. \A u \in users : row[u] = sent[u] - received[u]
  BY DEF CreditOfSettlement
<1> HIDE DEF sent, received, row
<1>3. Whole(sent, users) /\ Whole(received, users) /\ Whole(row, users)
  BY <1>1, <1>2 DEF Whole
<1>4. SumFunctionOnSet(sent, users) = s.amount
  BY <1>1, SumOne
<1>5. SumFunctionOnSet(received, users) = s.amount
  BY <1>1, SumOne
<1>6. \A u \in users : sent[u] = row[u] + received[u]
  BY <1>2, <1>3 DEF Whole
<1>7. SumFunctionOnSet(sent, users)
        = SumFunctionOnSet(row, users) + SumFunctionOnSet(received, users)
  BY <1>3, <1>6, SumPlus
<1>8. SumFunctionOnSet(row, users) \in Int
  BY <1>3, SumIsWhole
<1>9. SumFunctionOnSet(row, users) = 0
  BY <1>4, <1>5, <1>7, <1>8
<1>10. QED BY <1>3, <1>9 DEF row

\* calculateBalances: the balances of users add up to zero when everybody who
\* paid, owes, sent or received something is one of them.
THEOREM BalancesCancel ==
  ASSUME NEW users, IsFiniteSet(users), NEW rows, IsFiniteSet(DOMAIN rows),
         NEW transfers, IsFiniteSet(DOMAIN transfers),
         \A e \in DOMAIN rows : Covered(rows[e], users),
         \A s \in DOMAIN transfers :
           /\ transfers[s].payer \in users /\ transfers[s].payee \in users
           /\ transfers[s].amount \in Int
  PROVE  SumFunction(calculateBalances(rows, transfers, users)) = 0
<1> DEFINE E == DOMAIN rows
           T == DOMAIN transfers
           m == [e \in E |-> [u \in users |-> CreditOfExpense(rows[e], u)]]
           k == [s \in T |-> [u \in users |-> CreditOfSettlement(transfers[s], u)]]
           owing == [u \in users |-> SumFunctionOnSet([e \in E |-> m[e][u]], E)]
           paying == [u \in users |-> SumFunctionOnSet([s \in T |-> k[s][u]], T)]
           balances == calculateBalances(rows, transfers, users)
<1>1. \A e \in E : Whole(m[e], users) /\ SumFunctionOnSet(m[e], users) = 0
  BY ExpenseCancels
<1>2. \A s \in T : Whole(k[s], users) /\ SumFunctionOnSet(k[s], users) = 0
  BY SettlementCancels
<1>3. ASSUME NEW u \in users
      PROVE  /\ [e \in E |-> m[e][u]] = [e \in E |-> CreditOfExpense(rows[e], u)]
             /\ [s \in T |-> k[s][u]] = [s \in T |-> CreditOfSettlement(transfers[s], u)]
  OBVIOUS
<1>4. \A u \in users : balances[u] = owing[u] + paying[u]
  <2> SUFFICES ASSUME NEW u \in users PROVE balances[u] = owing[u] + paying[u]
    OBVIOUS
  <2> DEFINE f == [e \in E |-> CreditOfExpense(rows[e], u)]
             g == [s \in T |-> CreditOfSettlement(transfers[s], u)]
  <2>1. balances[u] = SumFunctionOnSet(f, E) + SumFunctionOnSet(g, T)
    <3>1. balances[u] = SumFunction(f) + SumFunction(g)
      BY DEF calculateBalances
    <3>2. DOMAIN f = E /\ DOMAIN g = T
      OBVIOUS
    <3>3. QED BY <3>1, <3>2 DEF SumFunction
  <2>2. owing[u] = SumFunctionOnSet(f, E) /\ paying[u] = SumFunctionOnSet(g, T)
    BY <1>3
  <2>3. QED BY <2>1, <2>2
<1>5. Whole(owing, users) /\ SumFunctionOnSet(owing, users) = 0
  <2> HIDE DEF m
  <2>1. QED BY <1>1, ColumnsCancel
<1>6. Whole(paying, users) /\ SumFunctionOnSet(paying, users) = 0
  <2> HIDE DEF k
  <2>1. QED BY <1>2, ColumnsCancel
<1>7. DOMAIN balances = users
  BY DEF calculateBalances
<1> HIDE DEF owing, paying, balances
<1>8. SumFunctionOnSet(balances, users) = 0
  BY <1>4, <1>5, <1>6, SumPlus
<1>9. SumFunction(balances) = 0
  BY <1>7, <1>8 DEF SumFunction
<1>10. QED BY <1>9 DEF balances

-----------------------------------------------------------------------------
(* The requests *)

(* What validation guarantees about the inputs of a call. *)
LEMMA RequestFields ==
  \A r \in Requests :
    /\ r.op = "create" =>
         /\ r.payer \in Users /\ r.total \in Amounts /\ r.type \in SplitTypes
         /\ r.participants \in SomeParticipants
    /\ r.op = "update" =>
         /\ r.expense \in Calls /\ r.payer \in Optional(Users)
         /\ r.total \in Optional(Amounts) /\ r.type \in Optional(SplitTypes)
         /\ r.participants # Absent => r.participants \in SomeParticipants
    /\ r.op = "delete" => r.expense \in Calls
    /\ r.op = "settle" => r.payer \in Users /\ r.payee \in Users /\ r.total \in Nat
PROOF
<1> SUFFICES ASSUME NEW r \in Requests
             PROVE /\ r.op = "create" =>
                        /\ r.payer \in Users /\ r.total \in Amounts
                        /\ r.type \in SplitTypes
                        /\ r.participants \in SomeParticipants
                   /\ r.op = "update" =>
                        /\ r.expense \in Calls /\ r.payer \in Optional(Users)
                        /\ r.total \in Optional(Amounts)
                        /\ r.type \in Optional(SplitTypes)
                        /\ r.participants # Absent
                             => r.participants \in SomeParticipants
                   /\ r.op = "delete" => r.expense \in Calls
                   /\ r.op = "settle" => /\ r.payer \in Users /\ r.payee \in Users
                                         /\ r.total \in Nat
  OBVIOUS
<1> r \in Inputs
  BY RequestsAssumption
<1>1. CASE r.op = "create"
  BY <1>1 DEF Inputs
<1>2. CASE r.op = "update"
  BY <1>2 DEF Inputs, Optional
<1>3. CASE r.op = "delete"
  BY <1>3 DEF Inputs
<1>4. CASE r.op = "settle"
  BY <1>4 DEF Inputs, Amounts
<1> QED
  BY <1>1, <1>2, <1>3, <1>4

(* The member that is added or removed. *)
LEMMA RequestMember ==
  \A r \in Requests : r.op \in {"add", "remove"} => r.member \in Users
PROOF
  BY RequestsAssumption DEF Inputs

-----------------------------------------------------------------------------
(* A list of distinct participants, as the names that equal splits need. *)
LEMMA NamesOfList ==
  ASSUME NEW list \in SomeParticipants, Distinct(list)
  PROVE  /\ UsersOf(list) \in Seq(Users)
         /\ UsersOf(list) # <<>>
         /\ Injective(UsersOf(list))
         /\ Range(UsersOf(list)) # {}
PROOF
<1> DEFINE names == UsersOf(list)
           Item == [user : Users, amount : Optional(Amounts)]
<1>1. list \in Seq(Item) /\ list # <<>>
  BY DEF SomeParticipants
<1> HIDE DEF Item
<1>2. Len(list) \in Nat /\ DOMAIN list = 1 .. Len(list) /\ Len(list) # 0
  BY <1>1, EmptySeq, LenProperties
<1>3. \A i \in 1 .. Len(list) : list[i].user \in Users
  <2>1. \A i \in 1 .. Len(list) : list[i] \in Item
    BY <1>1, ElementOfSeq
  <2> QED
    BY <2>1 DEF Item
<1>4. names = [i \in 1 .. Len(list) |-> list[i].user]
  BY <1>2 DEF UsersOf
<1>5. names \in [1 .. Len(list) -> Users]
  BY <1>3, <1>4
<1>6. names \in Seq(Users)
  BY <1>2, <1>5, SeqDef
<1>7. Injective(names)
  BY <1>2, <1>4 DEF Injective, Distinct
<1>8. 1 \in DOMAIN names
  BY <1>2, <1>4
<1>9. Range(names) # {}
  BY <1>8 DEF Range
<1>10. names # <<>>
  BY <1>8
<1> QED
  BY <1>6, <1>7, <1>9, <1>10

(* What each participant of an EXACT list gives. *)
LEMMA ExactSplitsTyped ==
  ASSUME NEW list \in SomeParticipants, Distinct(list),
         \A i \in DOMAIN list : list[i].amount # Absent
  PROVE  \A u \in Range(UsersOf(list)) : ExactSplits(list)[u] \in Nat
PROOF
<1> SUFFICES ASSUME NEW u \in Range(UsersOf(list))
             PROVE  ExactSplits(list)[u] \in Nat
  OBVIOUS
<1> DEFINE Item == [user : Users, amount : Optional(Amounts)]
<1>1. PICK i \in DOMAIN UsersOf(list) : u = UsersOf(list)[i]
  BY DEF Range
<1>2. i \in DOMAIN list
  BY <1>1 DEF UsersOf
<1>3. Position(UsersOf(list), u) = i
  BY <1>1, NamesOfList, PositionIs
<1>4. ExactSplits(list)[u] = list[i].amount
  BY <1>3 DEF ExactSplits
<1>5. list \in Seq(Item)
  BY DEF SomeParticipants
<1>6. list[i] \in Item
  <2> HIDE DEF Item
  <2> QED
    BY <1>2, <1>5, ElementOfSeq, LenProperties
<1>7. list[i].amount \in Amounts
  BY <1>2, <1>6 DEF Optional
<1> QED
  BY <1>4, <1>7 DEF Amounts

(* The splits that reconcileSplits accepts belong to members and add up. *)
LEMMA ReconciledSplits ==
  ASSUME NEW type, NEW total \in Amounts, NEW list \in SomeParticipants,
         NEW memberIds \in SUBSET Users,
         NEW s \in reconcileSplits(type, total, list, memberIds)
  PROVE  /\ AreSplits(s)
         /\ DOMAIN s # {}
         /\ DOMAIN s \subseteq memberIds
         /\ sumSplitAmounts(s) = total
PROOF
<1> DEFINE names == UsersOf(list)
<1>1. Distinct(list) /\ Range(names) \subseteq memberIds
  BY DEF reconcileSplits
<1>2. /\ names \in Seq(Users) /\ names # <<>> /\ Injective(names)
      /\ Range(names) # {}
  BY <1>1, NamesOfList
<1>3. total \in Nat
  BY DEF Amounts
<1>4. CASE type = "EQUAL"
  <2>1. s = calculateEqualSplits(total, names)
    BY <1>1, <1>4 DEF reconcileSplits
  <2> HIDE DEF names
  <2>2. /\ DOMAIN s = Range(names) /\ \A u \in Range(names) : s[u] \in Nat
        /\ sumSplitAmounts(s) = total
    BY <1>2, <1>3, <2>1, EqualSplitsAddUp
  <2> QED
    BY <1>1, <1>2, <2>2 DEF AreSplits
<1>5. CASE type # "EQUAL"
  <2>1. /\ s = ExactSplits(list) /\ sumSplitAmounts(s) = total
        /\ \A i \in DOMAIN list : list[i].amount # Absent
    BY <1>1, <1>5 DEF reconcileSplits
  <2>2. DOMAIN s = Range(names)
    BY <2>1 DEF ExactSplits
  <2>3. \A u \in DOMAIN s : s[u] \in Nat
    BY <1>1, <2>1, <2>2, ExactSplitsTyped
  <2> QED
    BY <1>1, <1>2, <2>1, <2>2, <2>3 DEF AreSplits
<1> QED
  BY <1>4, <1>5

(* An order of the users of some splits names each of them once. *)
LEMMA OrderIsInjective ==
  ASSUME NEW S \in SUBSET Users, S # {}, NEW q \in Orders(S)
  PROVE  q \in Seq(Users) /\ q # <<>> /\ Injective(q) /\ Range(q) = S
PROOF
<1> DEFINE n == Cardinality(S)
<1>1. IsFiniteSet(S) /\ n \in Nat
  BY UsersAssumption, FS_Subset, FS_CardinalityType
<1>2. q \in [1 .. n -> S] /\ Range(q) = S
  BY DEF Orders
<1> HIDE DEF n
<1>3. IsFiniteSet(1 .. n) /\ Cardinality(1 .. n) = n
  BY <1>1, FS_Interval
<1>4. q \in Surjection(1 .. n, S)
  BY <1>2 DEF Surjection, Range
<1>5. q \in Injection(1 .. n, S)
  BY <1>1, <1>3, <1>4, FS_SurjSameCardinalityImpliesInj DEF n
<1>6. Injective(q)
  BY <1>2, <1>5 DEF Injection, Injective, IsInjective
<1>7. q \in Seq(Users)
  BY <1>1, <1>2, SeqDef
<1>8. q # <<>>
  <2>1. q = <<>> => DOMAIN q = {}
    BY <1>1, <1>2
  <2> QED
    BY <1>2, <2>1 DEF Range
<1> QED
  BY <1>2, <1>6, <1>7, <1>8

(* The splits that an update without participants keeps or recomputes. *)
LEMMA KeptSplits ==
  ASSUME NEW type, NEW total \in Amounts, NEW splits, AreSplits(splits),
         NEW s \in keptSplits(type, total, splits)
  PROVE  /\ AreSplits(s)
         /\ DOMAIN splits # {} => DOMAIN s # {} /\ sumSplitAmounts(s) = total
PROOF
<1>1. CASE type = "EXACT"
  BY <1>1 DEF keptSplits
<1>2. CASE type # "EXACT"
  <2>1. PICK q \in Orders(DOMAIN splits) : s = calculateEqualSplits(total, q)
    BY <1>2 DEF keptSplits
  <2>2. DOMAIN s = DOMAIN splits
    BY <2>1 DEF calculateEqualSplits, Orders
  <2>3. CASE DOMAIN splits # {}
    <3>1. /\ q \in Seq(Users) /\ q # <<>> /\ Injective(q)
          /\ Range(q) = DOMAIN splits
      BY <2>1, <2>3, OrderIsInjective DEF AreSplits
    <3>2. total \in Nat
      BY DEF Amounts
    <3>3. (\A u \in Range(q) : s[u] \in Nat) /\ sumSplitAmounts(s) = total
      BY <2>1, <3>1, <3>2, EqualSplitsAddUp
    <3> QED
      BY <2>2, <2>3, <3>1, <3>3 DEF AreSplits
  <2>4. CASE DOMAIN splits = {}
    BY <2>2, <2>4 DEF AreSplits
  <2> QED
    BY <2>3, <2>4
<1> QED
  BY <1>1, <1>2

-----------------------------------------------------------------------------
(* Steps of one handler *)

(* A handler ends.  Whatever it did to the expenses, they are typed, they  *)
(* add up, and the only new one is its own.                                *)
LEMMA EndStep ==
  ASSUME IInv, NEW c \in Calls, NEW outcome \in Ends, End(c, outcome),
         UNCHANGED request,
         StoredTypeOK', SplitsMatchTotals',
         \A e \in DOMAIN expenses' :
           e \in DOMAIN expenses \/ (e = c /\ pc[c] = "write"),
         \/ UNCHANGED answer
         \/ \E shown : /\ answer' = [answer EXCEPT ![c] = shown]
                       /\ DOMAIN shown \subseteq Users
  PROVE  IInv'
PROOF
<1> USE DEF IInv, TypeOK, HandlersTypeOK, End, Goto
<1>1. /\ pc' \in [Calls -> Stages]
      /\ pc'[c] \in Ends
      /\ \A d \in Calls : d # c => /\ pc'[d] = pc[d]
                                   /\ seen'[d] = seen[d]
                                   /\ draft'[d] = draft[d]
                                   /\ answer'[d] = answer[d]
      /\ seen'[c] = NothingSeen
      /\ answer'[c] = answer[c] \/ DOMAIN answer'[c] \subseteq Users
  BY DEF Stages
<1>0. began' \in [Calls -> Nat]
  BY DEF StoredTypeOK
<1>2. \A d \in Calls : HandlerTypeOK(d)'
  <2>1. HandlerTypeOK(c)'
    <3>1. HandlerTypeOK(c)
      OBVIOUS
    <3>2. pc'[c] \notin {"splits", "members", "write"}
      BY <1>1 DEF Ends
    <3>3. AreExpenses(NoRows) /\ NothingSeen.expenses = NoRows
          /\ NothingSeen.members = {}
      BY DEF AreExpenses, NoRows, NothingSeen
    <3>4. seen'[c] \in [members : SUBSET Users, expenses : {seen'[c].expenses}]
      BY <1>1 DEF NothingSeen
    <3> QED
      BY <1>1, <3>1, <3>2, <3>3, <3>4 DEF HandlerTypeOK
  <2>2. ASSUME NEW d \in Calls, d # c PROVE HandlerTypeOK(d)'
    BY <1>1, <2>2 DEF HandlerTypeOK, Op
  <2> QED
    BY <2>1, <2>2
<1>3. TypeOK'
  BY <1>0, <1>1, <1>2
<1>4. ASSUME NEW d \in Calls, pc'[d] \in {"splits", "members", "write"}
      PROVE  /\ d # c
             /\ pc[d] = pc'[d] /\ Op(d)' = Op(d)
             /\ seen'[d] = seen[d] /\ draft'[d] = draft[d]
             /\ request'[d] = request[d]
             /\ Op(d) = "update" => /\ pc[request[d].expense] \in Ends
                                    /\ request[d].expense \notin DOMAIN expenses
                                         => request[d].expense \notin DOMAIN expenses'
  <2>1. d # c
    BY <1>1, <1>4 DEF Ends
  <2>2. Op(d) = "update" => pc[request[d].expense] \in Ends
    BY <1>1, <1>4, <2>1 DEF CreatedOnce
  <2>3. pc[c] = "write" /\ Op(d) = "update" => request[d].expense # c
    BY <2>2 DEF Ends
  <2> QED
    BY <1>1, <2>1, <2>2, <2>3 DEF Op
<1>5. DraftsMatchTotals'
  BY <1>4 DEF DraftsMatchTotals
<1>6. MissingSplitsMeanDeleted'
  BY <1>4 DEF MissingSplitsMeanDeleted
<1>7. CreatedOnce'
  <2>1. \A e \in Calls : pc[e] \in Ends => pc'[e] \in Ends
    BY <1>1
  <2>2. \A e \in DOMAIN expenses' : pc'[e] \in Ends
    BY <1>1, <2>1 DEF CreatedOnce, StoredTypeOK, AreExpenses
  <2>3. ASSUME NEW d \in Calls, pc'[d] \in {"splits", "members", "write"},
               Op(d)' = "update"
        PROVE  pc'[request'[d].expense] \in Ends
    <3>1. request[d].expense \in Calls
      BY <1>4, <2>3, RequestFields DEF Op
    <3> QED
      BY <1>4, <2>1, <2>3, <3>1
  <2> QED
    BY <2>2, <2>3 DEF CreatedOnce
<1> QED
  BY <1>3, <1>5, <1>6, <1>7

(* A handler ends without a change. *)
LEMMA RefuseStep ==
  ASSUME IInv, NEW c \in Calls, Refuse(c) \/ Fail(c)
  PROVE  IInv'
PROOF
<1>1. PICK outcome \in Ends : End(c, outcome)
  BY DEF Refuse, Fail, Ends
<1>2. UNCHANGED <<members, expenses, payments, feed, now, request, answer>>
  BY DEF Refuse, Fail, dbVars
<1>3. StoredTypeOK' /\ SplitsMatchTotals'
  BY <1>2 DEF IInv, TypeOK, StoredTypeOK, SplitsMatchTotals
<1> QED
  BY <1>1, <1>2, <1>3, EndStep

(* A handler reads and goes on. *)
LEMMA ReadStep ==
  ASSUME IInv, NEW c \in Calls, NEW stage \in Stages \ Ends, NEW sight,
         Read(c, sight, stage), pc[c] \notin Ends,
         sight \in [members : SUBSET Users, expenses : {sight.expenses}],
         AreExpenses(sight.expenses),
         Op(c) = "create" => stage # "write",
         Op(c) = "update" =>
           /\ stage \in {"splits", "members"}
           /\ pc[request[c].expense] \in Ends
           /\ request[c].expense \in DOMAIN sight.expenses
           /\ stage = "members" =>
                \/ DOMAIN sight.expenses[request[c].expense].splits # {}
                \/ request[c].expense \notin DOMAIN expenses
  PROVE  IInv'
PROOF
<1> USE DEF IInv, TypeOK, HandlersTypeOK, Read, Goto, dbVars
<1>1. /\ pc' \in [Calls -> Stages]
      /\ pc'[c] = stage /\ seen'[c] = sight
      /\ \A d \in Calls : d # c => pc'[d] = pc[d] /\ seen'[d] = seen[d]
      /\ DOMAIN seen' = Calls
  OBVIOUS
<1>0. began' \in [Calls -> Nat]
  BY DEF StoredTypeOK
<1>2. \A d \in Calls : HandlerTypeOK(d)'
  <2>1. HandlerTypeOK(c)'
    BY <1>1 DEF HandlerTypeOK, Op
  <2>2. ASSUME NEW d \in Calls, d # c PROVE HandlerTypeOK(d)'
    BY <1>1, <2>2 DEF HandlerTypeOK, Op
  <2> QED
    BY <2>1, <2>2
<1>3. StoredTypeOK' /\ SplitsMatchTotals'
  BY DEF StoredTypeOK, SplitsMatchTotals
<1>4. DraftsMatchTotals'
  BY <1>1 DEF DraftsMatchTotals, Op
<1>5. MissingSplitsMeanDeleted'
  BY <1>1 DEF MissingSplitsMeanDeleted, Op
<1>6. CreatedOnce'
  <2>1. \A e \in Calls : pc[e] \in Ends => pc'[e] \in Ends
    BY <1>1
  <2>2. \A e \in DOMAIN expenses' : pc'[e] \in Ends
    BY <2>1 DEF CreatedOnce, StoredTypeOK, AreExpenses
  <2>3. ASSUME NEW d \in Calls, pc'[d] \in {"splits", "members", "write"},
               Op(d)' = "update"
        PROVE  pc'[request'[d].expense] \in Ends
    <3>1. request[d].expense \in Calls
      BY <2>3, RequestFields DEF Op
    <3>2. pc[request[d].expense] \in Ends
      BY <1>1, <2>3 DEF CreatedOnce, Op
    <3> QED
      BY <2>1, <3>1, <3>2
  <2> QED
    BY <2>2, <2>3 DEF CreatedOnce
<1> QED
  BY <1>0, <1>1, <1>2, <1>3, <1>4, <1>5, <1>6

(* A handler has computed the expense it will write. *)
LEMMA DecideStep ==
  ASSUME IInv, NEW c \in Calls, NEW row, NEW options, Decide(c, row, options),
         pc[c] \notin Ends, Op(c) \in {"create", "update"},
         row \in [payer : Optional(Users), total : Amounts, type : SplitTypes,
                  splits : {row.splits}],
         \A s \in options : AreSplits(s),
         Op(c) = "update" => pc[request[c].expense] \in Ends,
         \A s \in options :
           \/ DOMAIN s # {} /\ sumSplitAmounts(s) = row.total
           \/ Op(c) = "update" /\ request[c].expense \notin DOMAIN expenses
  PROVE  IInv'
PROOF
<1>1. CASE ~({request[c].user, row.payer} \subseteq members /\ options # {})
  <2>1. Refuse(c)
    BY <1>1 DEF Decide
  <2> QED
    BY <2>1, RefuseStep
<1>2. CASE {request[c].user, row.payer} \subseteq members /\ options # {}
  <2> USE DEF IInv, TypeOK, HandlersTypeOK, Goto, dbVars
  <2>1. PICK s \in options :
          draft' = [draft EXCEPT ![c] = [row EXCEPT !.splits = s]]
    BY <1>2 DEF Decide
  <2>2. /\ seen' = [seen EXCEPT ![c].members = members]
        /\ pc' = [pc EXCEPT ![c] = "write"]
        /\ began' = [began EXCEPT ![c] = now]
        /\ UNCHANGED <<members, expenses, payments, feed, now, request, answer>>
    BY <1>2 DEF Decide
  <2>3. /\ pc' \in [Calls -> Stages] /\ pc'[c] = "write"
        /\ seen'[c] = [seen[c] EXCEPT !.members = members]
        /\ draft'[c] = [row EXCEPT !.splits = s]
        /\ DOMAIN seen' = Calls /\ DOMAIN draft' = Calls
        /\ \A d \in Calls : d # c => /\ pc'[d] = pc[d]
                                     /\ seen'[d] = seen[d]
                                     /\ draft'[d] = draft[d]
    BY <2>1, <2>2 DEF Stages
  <2>4. IsExpense(draft'[c])
    <3>1. row.payer \in Users
      BY <1>2 DEF StoredTypeOK
    <3>2. draft'[c].splits = s /\ draft'[c].payer = row.payer
          /\ draft'[c].total = row.total /\ draft'[c].type = row.type
          /\ draft'[c] \in [payer : Optional(Users), total : Amounts,
                            type : SplitTypes, splits : {s}]
      BY <2>3
    <3> QED
      BY <3>1, <3>2 DEF IsExpense
  <2>5. AddsUp(draft'[c])
        \/ (Op(c) = "update" /\ request[c].expense \notin DOMAIN expenses)
    <3>1. draft'[c].splits = s /\ draft'[c].total = row.total
      BY <2>3
    <3> QED
      BY <3>1 DEF AddsUp
  <2>6. \A d \in Calls : HandlerTypeOK(d)'
    <3>1. HandlerTypeOK(c)'
      <4>1. HandlerTypeOK(c)
        OBVIOUS
      <4>2. seen'[c].expenses = seen[c].expenses
            /\ seen'[c] \in [members : SUBSET Users,
                             expenses : {seen'[c].expenses}]
        BY <2>3, <4>1 DEF HandlerTypeOK, StoredTypeOK
      <4> QED
        BY <2>2, <2>3, <2>4, <4>1, <4>2 DEF HandlerTypeOK, Op
    <3>2. ASSUME NEW d \in Calls, d # c PROVE HandlerTypeOK(d)'
      BY <2>2, <2>3, <3>2 DEF HandlerTypeOK, Op
    <3> QED
      BY <3>1, <3>2
  <2>7. StoredTypeOK' /\ SplitsMatchTotals'
    BY <2>2 DEF StoredTypeOK, SplitsMatchTotals
  <2>11. began' \in [Calls -> Nat]
    BY <2>2 DEF StoredTypeOK
  <2>8. DraftsMatchTotals'
    BY <2>2, <2>3, <2>5 DEF DraftsMatchTotals, Op
  <2>9. MissingSplitsMeanDeleted'
    BY <2>2, <2>3 DEF MissingSplitsMeanDeleted, Op
  <2>10. CreatedOnce'
    <3>1. \A e \in Calls : pc[e] \in Ends => pc'[e] \in Ends
      BY <2>3
    <3>2. \A e \in DOMAIN expenses' : pc'[e] \in Ends
      BY <2>2, <3>1 DEF CreatedOnce, StoredTypeOK, AreExpenses
    <3>3. ASSUME NEW d \in Calls, pc'[d] \in {"splits", "members", "write"},
                 Op(d)' = "update"
          PROVE  pc'[request'[d].expense] \in Ends
      <4>1. request[d].expense \in Calls
        BY <2>2, <3>3, RequestFields DEF Op
      <4>2. pc[request[d].expense] \in Ends
        BY <2>2, <2>3, <3>3 DEF CreatedOnce, Op
      <4> QED
        BY <2>2, <3>1, <4>1, <4>2
    <3> QED
      BY <3>2, <3>3 DEF CreatedOnce
  <2> QED
    BY <2>2, <2>3, <2>6, <2>7, <2>8, <2>9, <2>10, <2>11
<1> QED
  BY <1>1, <1>2

-----------------------------------------------------------------------------
(* Every action keeps the invariant *)

(* Rows read without their splits are expenses whose splits are empty. *)
LEMMA RowsTyped ==
  ASSUME IInv, NEW ids
  PROVE  /\ AreExpenses(RowsOf(ids))
         /\ DOMAIN RowsOf(ids) = ids \cap DOMAIN expenses
PROOF
<1> DEFINE rows == RowsOf(ids)
<1>1. DOMAIN rows = ids \cap DOMAIN expenses
  BY DEF RowsOf
<1>2. ASSUME NEW e \in DOMAIN rows PROVE IsExpense(rows[e])
  <2>1. IsExpense(expenses[e])
    BY <1>1, <1>2 DEF IInv, TypeOK, StoredTypeOK, AreExpenses
  <2>2. rows[e] = [expenses[e] EXCEPT !.splits = NoSplits]
    BY <1>1, <1>2 DEF RowsOf
  <2>3. AreSplits(NoSplits)
    BY DEF NoSplits, AreSplits
  <2> QED
    BY <2>1, <2>2, <2>3 DEF IsExpense
<1>3. DOMAIN rows \subseteq Calls
  BY <1>1 DEF IInv, TypeOK, StoredTypeOK, AreExpenses
<1> HIDE DEF rows
<1>4. AreExpenses(rows)
  BY <1>2, <1>3 DEF AreExpenses
<1> QED
  BY <1>1, <1>4 DEF rows

(* Reading the splits of rows completes them, unless they were deleted. *)
LEMMA SplitsTyped ==
  ASSUME IInv, NEW rows, AreExpenses(rows)
  PROVE  /\ AreExpenses(WithSplits(rows))
         /\ DOMAIN WithSplits(rows) = DOMAIN rows
         /\ \A e \in DOMAIN rows :
              e \in DOMAIN expenses => DOMAIN WithSplits(rows)[e].splits # {}
PROOF
<1> DEFINE full == WithSplits(rows)
<1>1. DOMAIN full = DOMAIN rows
  BY DEF WithSplits
<1>2. ASSUME NEW e \in DOMAIN rows
      PROVE  /\ IsExpense(full[e])
             /\ e \in DOMAIN expenses => DOMAIN full[e].splits # {}
  <2>1. IsExpense(rows[e])
    BY <1>2 DEF AreExpenses
  <2>2. full[e] = [rows[e] EXCEPT !.splits = SplitsOf(e)]
    BY <1>2 DEF WithSplits
  <2>3. AreSplits(NoSplits)
    BY DEF NoSplits, AreSplits
  <2>4. AreSplits(SplitsOf(e))
    BY <2>3 DEF SplitsOf, IInv, TypeOK, StoredTypeOK, AreExpenses, IsExpense
  <2>5. e \in DOMAIN expenses => DOMAIN SplitsOf(e) # {}
    BY DEF SplitsOf, IInv, SplitsMatchTotals, AddsUp
  <2>6. full[e].splits = SplitsOf(e)
    BY <2>1, <2>2 DEF IsExpense
  <2>7. full[e] \in [payer : Users, total : Amounts, type : SplitTypes,
                     splits : {full[e].splits}]
    BY <2>1, <2>2, <2>6 DEF IsExpense
  <2> QED
    BY <2>4, <2>5, <2>6, <2>7 DEF IsExpense
<1>3. DOMAIN full \subseteq Calls
  BY <1>1 DEF AreExpenses
<1> HIDE DEF full
<1>4. AreExpenses(full)
  BY <1>1, <1>2, <1>3 DEF AreExpenses
<1> QED
  BY <1>1, <1>2, <1>4 DEF full

(* findGroupById *)
LEMMA FindGroupKeeps ==
  ASSUME IInv, NEW c \in Calls, FindGroup(c)
  PROVE  IInv'
PROOF
<1>1. CASE Refuse(c)
  BY <1>1, RefuseStep
<1>2. CASE Read(c, seen[c], NextRead(Op(c)))
  <2>1. Op(c) \in GroupFirst /\ pc[c] = "start"
    BY DEF FindGroup
  <2>2. NextRead(Op(c)) \in Stages \ Ends
        /\ (Op(c) = "create" => NextRead(Op(c)) # "write")
    BY <2>1 DEF NextRead, GroupFirst, Stages, Ends
  <2>3. Op(c) # "update" /\ pc[c] \notin Ends
    BY <2>1 DEF GroupFirst, Ends
  <2>4. HandlerTypeOK(c)
    BY DEF IInv, TypeOK, HandlersTypeOK
  <2> QED
    BY <1>2, <2>2, <2>3, <2>4, ReadStep DEF HandlerTypeOK
<1> QED
  BY <1>1, <1>2 DEF FindGroup

(* findExpenseById: the row *)
LEMMA FindExpenseKeeps ==
  ASSUME IInv, NEW c \in Calls, FindExpense(c)
  PROVE  IInv'
PROOF
<1> DEFINE id == request[c].expense
           sight == [seen[c] EXCEPT !.expenses = RowsOf({id})]
<1>1. CASE Refuse(c)
  BY <1>1, RefuseStep
<1>2. CASE id \in DOMAIN expenses /\ Read(c, sight, "splits")
  <2>1. /\ AreExpenses(RowsOf({id}))
        /\ DOMAIN RowsOf({id}) = {id}
    BY <1>2, RowsTyped
  <2>2. HandlerTypeOK(c)
    BY DEF IInv, TypeOK, HandlersTypeOK
  <2>3. sight.expenses = RowsOf({id})
        /\ sight \in [members : SUBSET Users, expenses : {sight.expenses}]
    BY <2>2 DEF HandlerTypeOK
  <2>4. pc[id] \in Ends
    BY <1>2 DEF IInv, CreatedOnce
  <2>5. "splits" \in Stages \ Ends /\ pc[c] \notin Ends
        /\ Op(c) \in {"update", "delete"}
    BY DEF Stages, Ends, FindExpense
  <2> HIDE DEF sight
  <2> QED
    BY <1>2, <2>1, <2>3, <2>4, <2>5, ReadStep
<1> QED
  BY <1>1, <1>2 DEF FindExpense

(* Its splits, and those of all expenses *)
LEMMA FindSplitsKeeps ==
  ASSUME IInv, NEW c \in Calls, FindSplits(c)
  PROVE  IInv'
PROOF
<1> DEFINE full == WithSplits(seen[c].expenses)
           sight == [seen[c] EXCEPT !.expenses = full]
           stage == IF Op(c) = "balances" THEN "payments" ELSE "members"
           id == request[c].expense
<1>1. pc[c] = "splits" /\ Read(c, sight, stage)
  BY DEF FindSplits
<1>2. HandlerTypeOK(c)
  BY DEF IInv, TypeOK, HandlersTypeOK
<1>3. /\ AreExpenses(full)
      /\ DOMAIN full = DOMAIN seen[c].expenses
      /\ \A e \in DOMAIN full :
           e \in DOMAIN expenses => DOMAIN full[e].splits # {}
  BY <1>2, SplitsTyped DEF HandlerTypeOK
<1> HIDE DEF full
<1>4. sight.expenses = full
      /\ sight \in [members : SUBSET Users, expenses : {sight.expenses}]
  BY <1>2 DEF HandlerTypeOK
<1>5. Op(c) = "update" =>
        /\ id \in DOMAIN full
        /\ pc[id] \in Ends
  BY <1>1, <1>2, <1>3 DEF HandlerTypeOK, IInv, CreatedOnce
<1>6. stage \in Stages \ Ends /\ stage # "write" /\ pc[c] \notin Ends
      /\ (Op(c) = "update" => stage = "members")
  BY <1>1 DEF Stages, Ends
<1> HIDE DEF sight, stage
<1> QED
  BY <1>1, <1>3, <1>4, <1>5, <1>6, ReadStep

(* Handlers that check something and go on with what they had seen. *)
LEMMA CheckKeeps ==
  ASSUME IInv, NEW c \in Calls, NEW stage \in Stages \ Ends,
         NEW sight, Refuse(c) \/ Read(c, sight, stage), pc[c] \notin Ends,
         Op(c) \notin {"create", "update"},
         \/ sight = seen[c]
         \/ sight = [seen[c] EXCEPT !.members = members]
         \/ sight = [seen[c] EXCEPT !.expenses = RowsOf(Calls)]
  PROVE  IInv'
PROOF
<1>1. CASE Refuse(c)
  BY <1>1, RefuseStep
<1>2. CASE Read(c, sight, stage)
  <2>1. HandlerTypeOK(c) /\ members \in SUBSET Users
    BY DEF IInv, TypeOK, HandlersTypeOK, StoredTypeOK
  <2>2. AreExpenses(RowsOf(Calls))
    BY RowsTyped
  <2>3. AreExpenses(sight.expenses)
        /\ sight \in [members : SUBSET Users, expenses : {sight.expenses}]
    BY <2>1, <2>2 DEF HandlerTypeOK
  <2> QED
    BY <1>2, <2>3, ReadStep
<1> QED
  BY <1>1, <1>2

(* What createExpense is about to write adds up. *)
LEMMA PlanCreateKeeps ==
  ASSUME IInv, NEW c \in Calls, PlanCreate(c)
  PROVE  IInv'
PROOF
<1> DEFINE r == request[c]
           row == [payer |-> r.payer, total |-> r.total, type |-> r.type,
                   splits |-> NoSplits]
           options == reconcileSplits(r.type, r.total, r.participants, members)
<1>1. pc[c] = "members" /\ Op(c) = "create" /\ Decide(c, row, options)
  BY DEF PlanCreate
<1>2. r \in Requests /\ members \in SUBSET Users
  BY DEF IInv, TypeOK, HandlersTypeOK, StoredTypeOK
<1>3. /\ r.payer \in Users /\ r.total \in Amounts /\ r.type \in SplitTypes
      /\ r.participants \in SomeParticipants
  BY <1>1, <1>2, RequestFields DEF Op
<1>4. row \in [payer : Optional(Users), total : Amounts, type : SplitTypes,
               splits : {row.splits}]
      /\ row.total = r.total
  BY <1>3 DEF Optional
<1>5. \A s \in options : /\ AreSplits(s)
                         /\ DOMAIN s # {} /\ sumSplitAmounts(s) = row.total
  BY <1>2, <1>3, <1>4, ReconciledSplits
<1>6. pc[c] \notin Ends
  BY <1>1 DEF Ends
<1> HIDE DEF row, options
<1> QED
  BY <1>1, <1>4, <1>5, <1>6, DecideStep

(* What updateExpense is about to write adds up, or its row is gone. *)
LEMMA PlanUpdateKeeps ==
  ASSUME IInv, NEW c \in Calls, PlanUpdate(c)
  PROVE  IInv'
PROOF
<1> DEFINE r == request[c]
           old == seen[c].expenses[r.expense]
           row == Merged(r, old)
           options ==
             IF r.participants # Absent
             THEN reconcileSplits(row.type, row.total, r.participants, members)
             ELSE keptSplits(row.type, row.total, old.splits)
<1>1. pc[c] = "members" /\ Op(c) = "update" /\ Decide(c, row, options)
  BY DEF PlanUpdate
<1>2. r \in Requests /\ members \in SUBSET Users
  BY DEF IInv, TypeOK, HandlersTypeOK, StoredTypeOK
<1>3. /\ r.payer \in Optional(Users) /\ r.total \in Optional(Amounts)
      /\ r.type \in Optional(SplitTypes)
      /\ r.participants # Absent => r.participants \in SomeParticipants
  BY <1>1, <1>2, RequestFields DEF Op
<1>4. IsExpense(old)
  BY <1>1 DEF IInv, TypeOK, HandlersTypeOK, HandlerTypeOK, AreExpenses
<1>5. row \in [payer : Optional(Users), total : Amounts, type : SplitTypes,
               splits : {row.splits}]
  BY <1>3, <1>4 DEF Merged, Given, Optional, IsExpense
<1>6. AreSplits(old.splits)
  BY <1>4 DEF IsExpense
<1>7. \/ DOMAIN old.splits # {}
      \/ r.expense \notin DOMAIN expenses
  BY <1>1 DEF IInv, MissingSplitsMeanDeleted
<1>8. pc[r.expense] \in Ends
  BY <1>1 DEF IInv, CreatedOnce
<1>9. row.total \in Amounts
  BY <1>5
<1>10. pc[c] \notin Ends
  BY <1>1 DEF Ends
<1> HIDE DEF row, old
<1>11. ASSUME NEW s \in options
       PROVE  /\ AreSplits(s)
              /\ \/ DOMAIN s # {} /\ sumSplitAmounts(s) = row.total
                 \/ r.expense \notin DOMAIN expenses
  <2>1. CASE r.participants # Absent
    <3>1. s \in reconcileSplits(row.type, row.total, r.participants, members)
      BY <2>1
    <3> QED
      BY <1>2, <1>3, <1>9, <2>1, <3>1, ReconciledSplits
  <2>2. CASE r.participants = Absent
    <3>1. s \in keptSplits(row.type, row.total, old.splits)
      BY <2>2
    <3> QED
      BY <1>6, <1>7, <1>9, <3>1, KeptSplits
  <2> QED
    BY <2>1, <2>2
<1> HIDE DEF options
<1> QED
  BY <1>1, <1>5, <1>8, <1>10, <1>11, DecideStep

(* The transactions *)

(* An event of the kinds that the feed has *)
LEMMA RecordTyped ==
  ASSUME StoredTypeOK, NEW c \in Calls, NEW type \in EventTypes,
         NEW expense \in Optional(Calls), NEW total \in Optional(Nat),
         NEW since \in Nat, Record(c, type, expense, total, since)
  PROVE  /\ feed' \in Seq([call : Calls, type : EventTypes,
                           expense : Optional(Calls), total : Optional(Nat),
                           at : Nat, done : Nat])
         /\ now' \in Nat
PROOF
<1>1. PICK at \in since .. now :
        feed' = Append(feed, Event(c, type, expense, total, at))
  BY DEF Record
<1>2. now \in Nat /\ at \in Nat
  BY DEF StoredTypeOK
<1>3. Event(c, type, expense, total, at) \in
        [call : Calls, type : EventTypes,
         expense : Optional(Calls), total : Optional(Nat), at : Nat, done : Nat]
  BY <1>2 DEF Event
<1>4. now' \in Nat
  BY <1>2 DEF Record
<1> QED
  BY <1>1, <1>3, <1>4 DEF StoredTypeOK

(* The times from which events are dated *)
LEMMA TimesTyped ==
  ASSUME IInv, NEW c \in Calls
  PROVE  began[c] \in Nat /\ now \in Nat
PROOF
  BY DEF IInv, TypeOK, HandlersTypeOK, StoredTypeOK

(* createExpense *)
LEMMA CreateKeeps ==
  ASSUME IInv, NEW c \in Calls, Create(c)
  PROVE  IInv'
PROOF
<1>1. CASE Fail(c)
  BY <1>1, RefuseStep
<1>2. CASE ~Fail(c)
  <2>1. /\ pc[c] = "write" /\ Op(c) = "create"
        /\ expenses' = [e \in DOMAIN expenses \cup {c} |->
                          IF e = c THEN draft[c] ELSE expenses[e]]
        /\ Record(c, "EXPENSE_ADDED", c, draft[c].total, began[c])
        /\ End(c, "ok")
        /\ UNCHANGED <<members, payments, request, answer>>
    BY <1>2 DEF Create
  <2>2. IsExpense(draft[c])
    BY <2>1 DEF IInv, TypeOK, HandlersTypeOK, HandlerTypeOK
  <2>3. AddsUp(draft[c])
    BY <2>1 DEF IInv, DraftsMatchTotals
  <2>4. DOMAIN expenses' = DOMAIN expenses \cup {c}
        /\ \A e \in DOMAIN expenses' :
             expenses'[e] = IF e = c THEN draft[c] ELSE expenses[e]
    BY <2>1
  <2>5. AreExpenses(expenses')
    BY <2>2, <2>4 DEF IInv, TypeOK, StoredTypeOK, AreExpenses
  <2>6. SplitsMatchTotals'
    BY <2>3, <2>4 DEF IInv, SplitsMatchTotals
  <2>7. StoredTypeOK
    BY DEF IInv, TypeOK
  <2>8. draft[c].total \in Optional(Nat) /\ c \in Optional(Calls)
    BY <2>2 DEF IsExpense, Optional, Amounts
  <2>9. IsFiniteSet(DOMAIN expenses')
    <3>1. IsFiniteSet(DOMAIN expenses)
      BY <2>7 DEF StoredTypeOK
    <3>2. IsFiniteSet(DOMAIN expenses \cup {c})
      BY <3>1, FS_AddElement
    <3>3. DOMAIN expenses' = DOMAIN expenses \cup {c}
      BY <2>4
    <3> QED
      BY <3>2, <3>3
  <2>10. StoredTypeOK'
    BY <2>1, <2>5, <2>7, <2>8, <2>9, RecordTyped, TimesTyped DEF StoredTypeOK, EventTypes
  <2> QED
    BY <2>1, <2>4, <2>6, <2>10, EndStep DEF Ends
<1> QED
  BY <1>1, <1>2

(* updateExpense *)
LEMMA UpdateKeeps ==
  ASSUME IInv, NEW c \in Calls, Update(c)
  PROVE  IInv'
PROOF
<1> DEFINE id == request[c].expense
<1>1. CASE Fail(c)
  BY <1>1, RefuseStep
<1>2. CASE ~Fail(c)
  <2>1. /\ pc[c] = "write" /\ Op(c) = "update" /\ id \in DOMAIN expenses
        /\ expenses' = [expenses EXCEPT ![id] = draft[c]]
        /\ Record(c, "EXPENSE_UPDATED", id, draft[c].total, began[c])
        /\ End(c, "ok")
        /\ UNCHANGED <<members, payments, request, answer>>
    BY <1>2 DEF Update, Stored
  <2>2. IsExpense(draft[c])
    BY <2>1 DEF IInv, TypeOK, HandlersTypeOK, HandlerTypeOK
  <2>3. AddsUp(draft[c])
    BY <2>1 DEF IInv, DraftsMatchTotals
  <2>4. DOMAIN expenses' = DOMAIN expenses
        /\ \A e \in DOMAIN expenses' :
             expenses'[e] = IF e = id THEN draft[c] ELSE expenses[e]
    BY <2>1
  <2>5. AreExpenses(expenses')
    BY <2>2, <2>4 DEF IInv, TypeOK, StoredTypeOK, AreExpenses
  <2>6. SplitsMatchTotals'
    BY <2>3, <2>4 DEF IInv, SplitsMatchTotals
  <2>7. StoredTypeOK /\ id \in Calls
    BY <2>1 DEF IInv, TypeOK, StoredTypeOK, AreExpenses
  <2>8. draft[c].total \in Optional(Nat) /\ id \in Optional(Calls)
    BY <2>2, <2>7 DEF IsExpense, Optional, Amounts
  <2>9. StoredTypeOK'
    BY <2>1, <2>4, <2>5, <2>7, <2>8, RecordTyped, TimesTyped DEF StoredTypeOK, EventTypes
  <2> QED
    BY <2>1, <2>4, <2>6, <2>9, EndStep DEF Ends
<1> QED
  BY <1>1, <1>2

(* deleteExpense *)
LEMMA DeleteKeeps ==
  ASSUME IInv, NEW c \in Calls, Delete(c)
  PROVE  IInv'
PROOF
<1> DEFINE id == request[c].expense
<1>1. CASE Fail(c)
  BY <1>1, RefuseStep
<1>2. CASE ~Fail(c)
  <2>1. /\ id \in DOMAIN expenses
        /\ expenses' = Restrict(expenses, DOMAIN expenses \ {id})
        /\ Record(c, "EXPENSE_DELETED", id, expenses[id].total, now)
        /\ End(c, "ok")
        /\ UNCHANGED <<members, payments, request, answer>>
    BY <1>2 DEF Delete, DeletedTotal
  <2>2. DOMAIN expenses' = DOMAIN expenses \ {id}
        /\ \A e \in DOMAIN expenses' : expenses'[e] = expenses[e]
    BY <2>1 DEF Restrict
  <2>3. AreExpenses(expenses')
    BY <2>2 DEF IInv, TypeOK, StoredTypeOK, AreExpenses
  <2>4. SplitsMatchTotals'
    BY <2>2 DEF IInv, SplitsMatchTotals
  <2>5. StoredTypeOK /\ id \in Calls /\ IsExpense(expenses[id])
    BY <2>1 DEF IInv, TypeOK, StoredTypeOK, AreExpenses
  <2>6. expenses[id].total \in Optional(Nat) /\ id \in Optional(Calls)
    BY <2>5 DEF IsExpense, Optional, Amounts
  <2>7. IsFiniteSet(DOMAIN expenses')
    <3>1. IsFiniteSet(DOMAIN expenses)
      BY <2>5 DEF StoredTypeOK
    <3>2. IsFiniteSet(DOMAIN expenses \ {id})
      BY <3>1, FS_RemoveElement
    <3>3. DOMAIN expenses' = DOMAIN expenses \ {id}
      BY <2>2
    <3> QED
      BY <3>2, <3>3
  <2>8. StoredTypeOK'
    BY <2>1, <2>3, <2>5, <2>6, <2>7, RecordTyped, TimesTyped DEF StoredTypeOK, EventTypes
  <2> QED
    BY <2>1, <2>2, <2>4, <2>8, EndStep DEF Ends
<1> QED
  BY <1>1, <1>2

(* createSettlement *)
LEMMA SettleKeeps ==
  ASSUME IInv, NEW c \in Calls, Settle(c)
  PROVE  IInv'
PROOF
<1>1. CASE Fail(c)
  BY <1>1, RefuseStep
<1>2. CASE ~Fail(c)
  <2> DEFINE sent == [payer |-> request[c].payer, payee |-> request[c].payee,
                      amount |-> request[c].total]
  <2>1. /\ Op(c) = "settle"
        /\ payments' = [p \in DOMAIN payments \cup {c} |->
                          IF p = c THEN sent ELSE payments[p]]
        /\ Record(c, "SETTLEMENT_ADDED", Absent, request[c].total, began[c])
        /\ End(c, "ok")
        /\ UNCHANGED <<members, expenses, request, answer>>
    BY <1>2 DEF Settle
  <2>2. StoredTypeOK /\ request[c] \in Requests
    BY DEF IInv, TypeOK, HandlersTypeOK
  <2>3. /\ request[c].payer \in Users /\ request[c].payee \in Users
        /\ request[c].total \in Nat
    BY <2>1, <2>2, RequestFields DEF Op
  <2>4. request[c].total \in Optional(Nat) /\ Absent \in Optional(Calls)
    BY <2>3 DEF Optional
  <2>5. sent \in [payer : Users, payee : Users, amount : Nat]
    BY <2>3
  <2>6. /\ DOMAIN payments' = DOMAIN payments \cup {c}
        /\ \A p \in DOMAIN payments' :
             payments'[p] = IF p = c THEN sent ELSE payments[p]
    BY <2>1
  <2> HIDE DEF sent
  <2>7. /\ DOMAIN payments' \subseteq Calls /\ IsFiniteSet(DOMAIN payments')
        /\ \A p \in DOMAIN payments' :
             payments'[p] \in [payer : Users, payee : Users, amount : Nat]
    <3>1. DOMAIN payments' \subseteq Calls /\ IsFiniteSet(DOMAIN payments')
      <4>1. DOMAIN payments \subseteq Calls /\ IsFiniteSet(DOMAIN payments)
        BY <2>2 DEF StoredTypeOK
      <4>2. IsFiniteSet(DOMAIN payments \cup {c})
        BY <4>1, FS_AddElement
      <4>3. DOMAIN payments' = DOMAIN payments \cup {c}
        BY <2>6
      <4> QED
        BY <4>1, <4>2, <4>3
    <3>2. ASSUME NEW p \in DOMAIN payments'
          PROVE  payments'[p] \in [payer : Users, payee : Users, amount : Nat]
      BY <2>2, <2>5, <2>6 DEF StoredTypeOK
    <3> QED
      BY <3>1, <3>2
  <2>8. StoredTypeOK'
    BY <2>1, <2>2, <2>4, <2>7, RecordTyped, TimesTyped DEF StoredTypeOK, EventTypes
  <2>9. SplitsMatchTotals'
    BY <2>1 DEF IInv, SplitsMatchTotals
  <2> QED
    BY <2>1, <2>8, <2>9, EndStep DEF Ends
<1> QED
  BY <1>1, <1>2

(* addGroupMember and removeGroupMember *)
LEMMA MembershipKeeps ==
  ASSUME IInv, NEW c \in Calls, Add(c) \/ Remove(c)
  PROVE  IInv'
PROOF
<1>1. CASE Fail(c)
  BY <1>1, RefuseStep
<1>2. CASE ~Fail(c)
  <2>0. began[c] \in Nat /\ now \in Nat
    BY TimesTyped
  <2>1. PICK next \in SUBSET Users, type \in EventTypes, since \in Nat :
          ChangeMembers(c, next, type, since)
    <3>1. CASE Add(c)
      <4>1. request[c].member \in Users
        BY <3>1, RequestMember DEF IInv, TypeOK, HandlersTypeOK, Add, Op
      <4> QED
        BY <1>2, <2>0, <3>1, <4>1 DEF Add, EventTypes, IInv, TypeOK, StoredTypeOK
    <3>2. CASE Remove(c)
      BY <1>2, <2>0, <3>2 DEF Remove, EventTypes, IInv, TypeOK, StoredTypeOK
    <3> QED
      BY <3>1, <3>2
  <2>2. StoredTypeOK /\ Absent \in Optional(Calls) /\ Absent \in Optional(Nat)
    BY DEF IInv, TypeOK, Optional
  <2>3. StoredTypeOK'
    BY <2>1, <2>2, RecordTyped, TimesTyped DEF StoredTypeOK, ChangeMembers
  <2>4. SplitsMatchTotals'
    BY <2>1 DEF IInv, SplitsMatchTotals, ChangeMembers
  <2> QED
    BY <2>1, <2>3, <2>4, EndStep DEF Ends, ChangeMembers
<1> QED
  BY <1>1, <1>2

(* deleteGroup *)
LEMMA DissolveKeeps ==
  ASSUME IInv, NEW c \in Calls, Dissolve(c)
  PROVE  IInv'
PROOF
<1>1. CASE Fail(c)
  BY <1>1, RefuseStep
<1>2. CASE ~Fail(c)
  <2>1. /\ members' = {} /\ expenses' = NoRows /\ payments' = NoRows
        /\ feed' = <<>>
        /\ End(c, "ok")
        /\ UNCHANGED <<now, request, answer>>
    BY <1>2 DEF Dissolve
  <2>2. DOMAIN NoRows = {}
    BY DEF NoRows
  <2>3. StoredTypeOK'
    BY <2>1, <2>2, TimesTyped, FS_EmptySet DEF StoredTypeOK, AreExpenses
  <2>4. SplitsMatchTotals'
    BY <2>1, <2>2 DEF SplitsMatchTotals
  <2> QED
    BY <2>1, <2>2, <2>3, <2>4, EndStep DEF Ends
<1> QED
  BY <1>1, <1>2

(* getGroupBalances answers. *)
LEMMA FindPaymentsKeeps ==
  ASSUME IInv, NEW c \in Calls, FindPayments(c)
  PROVE  IInv'
PROOF
<1> DEFINE balances ==
             calculateBalances(seen[c].expenses, payments, seen[c].members)
           shown == [u \in seen[c].members |-> toNum(balances[u])]
<1>1. /\ answer' = [answer EXCEPT ![c] = shown]
      /\ End(c, "ok")
      /\ UNCHANGED <<members, expenses, payments, feed, now, request>>
  BY DEF FindPayments, dbVars
<1>2. DOMAIN shown \subseteq Users
  BY DEF IInv, TypeOK, HandlersTypeOK, HandlerTypeOK
<1>3. StoredTypeOK' /\ SplitsMatchTotals'
  BY <1>1 DEF IInv, TypeOK, StoredTypeOK, SplitsMatchTotals
<1> HIDE DEF shown
<1> QED
  BY <1>1, <1>2, <1>3, EndStep DEF Ends

-----------------------------------------------------------------------------
(* The theorems *)

(* A group before its first expense *)
LEMMA InitIInv == Init => IInv
PROOF
<1> SUFFICES ASSUME Init PROVE IInv
  OBVIOUS
<1>1. DOMAIN NoRows = {}
  BY DEF NoRows
<1>2. StoredTypeOK
  BY <1>1, FS_EmptySet DEF Init, StoredTypeOK, AreExpenses
<1>3. ASSUME NEW c \in Calls PROVE HandlerTypeOK(c)
  BY <1>1 DEF Init, HandlerTypeOK, NothingSeen, AreExpenses
<1>4. HandlersTypeOK
  BY <1>3 DEF Init, HandlersTypeOK, Stages
<1>5. SplitsMatchTotals /\ DraftsMatchTotals /\ MissingSplitsMeanDeleted
      /\ CreatedOnce
  BY <1>1 DEF Init, SplitsMatchTotals, DraftsMatchTotals,
              MissingSplitsMeanDeleted, CreatedOnce
<1> QED
  BY <1>2, <1>4, <1>5 DEF IInv, TypeOK

(* Every step of every handler *)
LEMMA NextKeepsIInv == IInv /\ [Next]_vars => IInv'
PROOF
<1> SUFFICES ASSUME IInv, [Next]_vars PROVE IInv'
  OBVIOUS
<1>1. CASE UNCHANGED vars
  <2>1. UNCHANGED <<members, expenses, payments, feed, now, request, pc, began,
                    seen, draft, answer>>
    BY <1>1 DEF vars, dbVars
  <2>2. StoredTypeOK'
    BY <2>1 DEF IInv, TypeOK, StoredTypeOK
  <2>3. HandlersTypeOK'
    BY <2>1 DEF IInv, TypeOK, HandlersTypeOK, HandlerTypeOK, Op
  <2>4. SplitsMatchTotals' /\ DraftsMatchTotals'
    BY <2>1 DEF IInv, SplitsMatchTotals, DraftsMatchTotals, Op
  <2>5. MissingSplitsMeanDeleted' /\ CreatedOnce'
    BY <2>1 DEF IInv, MissingSplitsMeanDeleted, CreatedOnce, Op
  <2> QED
    BY <2>2, <2>3, <2>4, <2>5 DEF IInv, TypeOK
<1>3. CASE Tick
  <2>1. /\ now \in Nat /\ now' = now + 1
        /\ UNCHANGED <<members, expenses, payments, feed, request, pc, began,
                       seen, draft, answer>>
    BY <1>3 DEF Tick, IInv, TypeOK, StoredTypeOK
  <2>2. StoredTypeOK'
    BY <2>1 DEF IInv, TypeOK, StoredTypeOK
  <2>3. HandlersTypeOK'
    BY <2>1 DEF IInv, TypeOK, HandlersTypeOK, HandlerTypeOK, Op
  <2>4. SplitsMatchTotals' /\ DraftsMatchTotals'
    BY <2>1 DEF IInv, SplitsMatchTotals, DraftsMatchTotals, Op
  <2>5. MissingSplitsMeanDeleted' /\ CreatedOnce'
    BY <2>1 DEF IInv, MissingSplitsMeanDeleted, CreatedOnce, Op
  <2> QED
    BY <2>2, <2>3, <2>4, <2>5 DEF IInv, TypeOK
<1>2. ASSUME NEW c \in Calls, Handle(c)
      PROVE  IInv'
  <2>1. CASE FindGroup(c)       BY <2>1, FindGroupKeeps
  <2>2. CASE FindExpense(c)     BY <2>2, FindExpenseKeeps
  <2>3. CASE FindSplits(c)      BY <2>3, FindSplitsKeeps
  <2>4. CASE PlanCreate(c)      BY <2>4, PlanCreateKeeps
  <2>5. CASE Create(c)          BY <2>5, CreateKeeps
  <2>6. CASE PlanUpdate(c)      BY <2>6, PlanUpdateKeeps
  <2>7. CASE Update(c)          BY <2>7, UpdateKeeps
  <2>8. CASE CheckDelete(c)
    BY <2>8, CheckKeeps DEF CheckDelete, Stages, Ends
  <2>9. CASE Delete(c)          BY <2>9, DeleteKeeps
  <2>10. CASE CheckSettle(c)
    BY <2>10, CheckKeeps DEF CheckSettle, Stages, Ends
  <2>11. CASE Settle(c)         BY <2>11, SettleKeeps
  <2>12. CASE FindMembers(c)
    BY <2>12, CheckKeeps DEF FindMembers, Stages, Ends
  <2>13. CASE FindExpenses(c)
    BY <2>13, CheckKeeps DEF FindExpenses, Stages, Ends
  <2>14. CASE FindPayments(c)   BY <2>14, FindPaymentsKeeps
  <2>15. CASE CheckMembership(c)
    BY <2>15, CheckKeeps DEF CheckMembership, Stages, Ends
  <2>16. CASE Add(c) \/ Remove(c) BY <2>16, MembershipKeeps
  <2>17. CASE Dissolve(c)       BY <2>17, DissolveKeeps
  <2>18. CASE Abandon(c)        BY <2>18, RefuseStep DEF Abandon
  <2> QED
    BY <1>2, <2>1, <2>2, <2>3, <2>4, <2>5, <2>6, <2>7, <2>8, <2>9, <2>10,
       <2>11, <2>12, <2>13, <2>14, <2>15, <2>16, <2>17, <2>18 DEF Handle
<1> QED
  BY <1>1, <1>2, <1>3 DEF Next

(* The tables, the feed and what every handler holds stay well-formed,     *)
(* whatever calls run together, fail or stop.                              *)
THEOREM TypeCorrect == Spec => []TypeOK
PROOF
<1>1. IInv => TypeOK
  BY DEF IInv
<1> QED
  BY <1>1, InitIInv, NextKeepsIInv, PTL DEF Spec

(* For any calls, members and requests, the splits of every stored expense *)
(* add up to its total, although updateExpense computes them from a row    *)
(* and from splits that it read at different moments.                      *)
THEOREM ExpensesAddUp == Spec => []SplitsMatchTotals
PROOF
<1>1. IInv => SplitsMatchTotals
  BY DEF IInv
<1> QED
  BY <1>1, InitIInv, NextKeepsIInv, PTL DEF Spec

(* The inductive invariant behind both: a draft adds up unless its expense *)
(* was deleted while the handler read it, splits are missing only then,    *)
(* and an expense is in the table only once its creation has ended.        *)
THEOREM Invariance == Spec => []IInv
PROOF
  BY InitIInv, NextKeepsIInv, PTL DEF Spec

-----------------------------------------------------------------------------
(* Balances *)

(* Every step of a handler moves it. *)
LEMMA HandlerMoves ==
  ASSUME NEW c \in Calls, Handle(c)
  PROVE  \E stage : Goto(c, stage)
PROOF
<1>1. CASE Refuse(c) \/ Fail(c)
  BY <1>1 DEF Refuse, Fail, End
<1>2. CASE \E sight, stage : Read(c, sight, stage)
  BY <1>2 DEF Read
<1>3. CASE FindGroup(c) \/ FindExpense(c) \/ FindSplits(c) \/ FindMembers(c)
           \/ FindExpenses(c) \/ CheckDelete(c) \/ CheckSettle(c)
           \/ CheckMembership(c) \/ Abandon(c)
  BY <1>1, <1>2, <1>3 DEF FindGroup, FindExpense, FindSplits, FindMembers,
     FindExpenses, CheckDelete, CheckSettle, CheckMembership, Abandon
<1>4. CASE PlanCreate(c) \/ PlanUpdate(c)
  <2>1. \E row, options : Decide(c, row, options)
    BY <1>4 DEF PlanCreate, PlanUpdate
  <2> QED
    BY <1>1, <2>1 DEF Decide
<1>5. CASE FindPayments(c)
  BY <1>5 DEF FindPayments, End
<1>6. CASE Create(c) \/ Update(c) \/ Delete(c) \/ Settle(c) \/ Dissolve(c)
  <2>1. Fail(c) \/ End(c, "ok")
    BY <1>6 DEF Create, Update, Delete, Settle, Dissolve
  <2> QED
    BY <1>1, <2>1 DEF End
<1>7. CASE Add(c) \/ Remove(c)
  <2>1. Fail(c) \/ End(c, "ok")
    BY <1>7 DEF Add, Remove, ChangeMembers
  <2> QED
    BY <1>1, <2>1 DEF End
<1> QED
  BY <1>3, <1>4, <1>5, <1>6, <1>7 DEF Handle

(* Only the last read of a balance request answers. *)
LEMMA AnswerIsFindPayments ==
  ASSUME IInv, [Next]_vars, NEW c \in Calls, Answers(c)
  PROVE  FindPayments(c)
PROOF
<1>1. pc[c] = "payments" /\ pc'[c] = "ok" /\ pc \in [Calls -> Stages]
  BY DEF Answers, IInv, TypeOK, HandlersTypeOK
<1>2. ~UNCHANGED vars
  BY <1>1 DEF vars
<1>7. ~Tick
  BY <1>1 DEF Tick
<1>3. PICK d \in Calls : Handle(d)
  BY <1>2, <1>7 DEF Next
<1>4. \E stage : pc' = [pc EXCEPT ![d] = stage]
  BY <1>3, HandlerMoves DEF Goto
<1>5. d = c
  BY <1>1, <1>4
<1>6. ~Abandon(c)
  BY <1>1 DEF Abandon, Fail, End, Goto
<1> QED
  BY <1>1, <1>3, <1>5, <1>6 DEF Handle, FindGroup, FindExpense, FindSplits, PlanCreate,
     Create, PlanUpdate, Update, CheckDelete, Delete, CheckSettle, Settle,
     FindMembers, FindExpenses, CheckMembership, Add, Remove, Dissolve

(* Who is involved in each row. *)
LEMMA InvolvedHolds ==
  ASSUME NEW rows, NEW transfers
  PROVE  /\ \A e \in DOMAIN rows :
              /\ rows[e].payer \in Involved(rows, transfers)
              /\ DOMAIN rows[e].splits \subseteq Involved(rows, transfers)
         /\ \A p \in DOMAIN transfers :
              /\ transfers[p].payer \in Involved(rows, transfers)
              /\ transfers[p].payee \in Involved(rows, transfers)
PROOF
<1> DEFINE Of(e) == {rows[e].payer} \cup DOMAIN rows[e].splits
           Between(p) == {transfers[p].payer, transfers[p].payee}
           InRows == UNION {Of(e) : e \in DOMAIN rows}
           InTransfers == UNION {Between(p) : p \in DOMAIN transfers}
<1>1. Involved(rows, transfers) = InRows \cup InTransfers
  BY DEF Involved
<1>2. ASSUME NEW e \in DOMAIN rows PROVE Of(e) \subseteq InRows
  <2> HIDE DEF Of
  <2> QED
    OBVIOUS
<1>3. ASSUME NEW p \in DOMAIN transfers PROVE Between(p) \subseteq InTransfers
  <2> HIDE DEF Between
  <2> QED
    OBVIOUS
<1> HIDE DEF InRows, InTransfers
<1> QED
  BY <1>1, <1>2, <1>3

(* What a balance request shows when it saw the expenses as they are and   *)
(* as members everybody who is involved in them.                           *)
LEMMA SettledAnswerAddsUp ==
  ASSUME IInv, NEW c \in Calls, FindPayments(c), seen[c].expenses = expenses,
         Involved(expenses, payments) \subseteq seen[c].members,
         \A u \in seen[c].members :
           IsExact(calculateBalances(expenses, payments, seen[c].members)[u])
  PROVE  SumFunction(answer'[c]) = 0
PROOF
<1> DEFINE m == seen[c].members
           exact == calculateBalances(expenses, payments, m)
<1>0. answer'[c] = [u \in m |-> toNum(exact[u])]
  BY DEF FindPayments, IInv, TypeOK, HandlersTypeOK
<1>1. answer'[c] = calculateBalances(expenses, payments, m)
  <2>1. \A u \in m : toNum(exact[u]) = exact[u]
    BY DEF toNum
  <2>2. exact = [u \in m |-> exact[u]]
    BY DEF calculateBalances
  <2> HIDE DEF exact
  <2>3. answer'[c] = exact
    BY <1>0, <2>1, <2>2
  <2> QED
    BY <2>3 DEF exact
<1>2. m \in SUBSET Users
  BY DEF IInv, TypeOK, HandlersTypeOK, HandlerTypeOK
<1>3. IsFiniteSet(m)
  BY <1>2, UsersAssumption, FS_Subset
<1>4. /\ IsFiniteSet(DOMAIN expenses) /\ IsFiniteSet(DOMAIN payments)
      /\ \A e \in DOMAIN expenses : IsExpense(expenses[e]) /\ AddsUp(expenses[e])
      /\ \A p \in DOMAIN payments :
           payments[p] \in [payer : Users, payee : Users, amount : Nat]
  BY DEF IInv, TypeOK, StoredTypeOK, AreExpenses, SplitsMatchTotals
<1>5. ASSUME NEW e \in DOMAIN expenses PROVE Covered(expenses[e], m)
  <2>1. expenses[e].payer \in m /\ DOMAIN expenses[e].splits \subseteq m
    BY InvolvedHolds
  <2>2. expenses[e].total \in Int
    BY <1>4 DEF IsExpense, Amounts
  <2>3. Whole(expenses[e].splits, DOMAIN expenses[e].splits)
    BY <1>4 DEF IsExpense, AreSplits, Whole
  <2>4. sumSplitAmounts(expenses[e].splits) = expenses[e].total
    BY <1>4 DEF AddsUp
  <2> QED
    BY <2>1, <2>2, <2>3, <2>4 DEF Covered
<1>6. ASSUME NEW p \in DOMAIN payments
      PROVE  /\ payments[p].payer \in m /\ payments[p].payee \in m
             /\ payments[p].amount \in Int
  <2>1. payments[p].payer \in m /\ payments[p].payee \in m
    BY InvolvedHolds
  <2>2. payments[p].amount \in Nat
    BY <1>4
  <2> QED
    BY <2>1, <2>2
<1> HIDE DEF m
<1>7. ASSUME NEW rows, NEW transfers, NEW users,
             rows = expenses, transfers = payments, users = m
      PROVE  SumFunction(calculateBalances(rows, transfers, users)) = 0
  BY <1>3, <1>4, <1>5, <1>6, <1>7, BalancesCancel
<1> QED
  BY <1>1, <1>7

(* The balances that getGroupBalances shows add up to zero when nothing    *)
(* changed while it read, everybody involved is still a member and every   *)
(* balance is one that Number holds exactly: for any number of users,      *)
(* expenses, settlements and concurrent calls.                             *)
THEOREM BalancesAddUp == Spec => SettledBalancesAddUp
PROOF
<1> DEFINE Shown(c) ==
      /\ Answers(c)
      /\ seen[c].expenses = expenses
      /\ Involved(expenses, payments) \subseteq seen[c].members
      /\ \A u \in seen[c].members :
           IsExact(calculateBalances(expenses, payments, seen[c].members)[u])
      => SumFunction(answer'[c]) = 0
<1>1. IInv /\ [Next]_vars => [\A c \in Calls : Shown(c)]_vars
  <2> SUFFICES ASSUME IInv, [Next]_vars, NEW c \in Calls, Answers(c),
                      seen[c].expenses = expenses,
                      Involved(expenses, payments) \subseteq seen[c].members,
                      \A u \in seen[c].members :
                        IsExact(calculateBalances(expenses, payments,
                                                  seen[c].members)[u])
               PROVE  SumFunction(answer'[c]) = 0
    OBVIOUS
  <2> QED
    BY AnswerIsFindPayments, SettledAnswerAddsUp
<1> QED
  BY <1>1, Invariance, PTL DEF Spec, SettledBalancesAddUp

-----------------------------------------------------------------------------
(* The operators on the feed.  The event that follows another one is the   *)
(* least of those after it, and a new event changes what follows only for  *)
(* the one that was last.                                                  *)

(* What Following is. *)
LEMMA FollowingIsNext ==
  ASSUME NEW events \in SUBSET Nat, NEW i \in events, ~IsLast(i, events)
  PROVE  /\ Following(i, events) \in events
         /\ Following(i, events) > i
         /\ \A k \in events : k > i => Following(i, events) <= k
PROOF
<1> DEFINE later == {k \in events : k > i}
<1>1. later # {} /\ later \in SUBSET Nat
  <2>1. PICK k \in events : ~(k <= i)
    BY DEF IsLast
  <2>2. k \in Nat /\ i \in Nat
    OBVIOUS
  <2>3. k > i
    BY <2>1, <2>2
  <2> QED
    BY <2>3
<1>2. PICK j \in later : \A k \in later : j <= k
  BY <1>1, LeastOf
<1>3. j \in events /\ j > i /\ \A k \in events : k > i => j <= k
  BY <1>2
<1> QED
  BY <1>3 DEF Following

(* Nothing else than Following is the next one. *)
LEMMA FollowingIsUnique ==
  ASSUME NEW events \in SUBSET Nat, NEW i \in events, NEW j \in events, j > i,
         \A k \in events : k > i => j <= k
  PROVE  Following(i, events) = j
PROOF
<1>1. ~IsLast(i, events)
  BY DEF IsLast
<1> DEFINE f == Following(i, events)
<1>2. f \in events /\ f > i /\ \A k \in events : k > i => f <= k
  BY <1>1, FollowingIsNext
<1> HIDE DEF f
<1>3. f <= j /\ j <= f /\ f \in Nat /\ j \in Nat
  BY <1>2
<1>4. f = j
  BY <1>3
<1> QED
  BY <1>4 DEF f
(* A new event after all others. *)
LEMMA FollowingExtended ==
  ASSUME NEW events \in SUBSET Nat, NEW n \in Nat, \A k \in events : k < n,
         NEW i \in events
  PROVE  /\ ~IsLast(i, events \cup {n})
         /\ IsLast(n, events \cup {n})
         /\ Following(i, events \cup {n}) =
              IF IsLast(i, events) THEN n ELSE Following(i, events)
PROOF
<1>1. CASE IsLast(i, events)
  <2>1. \A k \in events \cup {n} : k > i => n <= k
    BY <1>1 DEF IsLast
  <2> QED
    BY <1>1, <2>1, FollowingIsUnique DEF IsLast
<1>2. CASE ~IsLast(i, events)
  <2> DEFINE j == Following(i, events)
  <2>1. j \in events /\ j > i /\ \A k \in events : k > i => j <= k
    BY <1>2, FollowingIsNext
  <2> HIDE DEF j
  <2>2. \A k \in events \cup {n} : k > i => j <= k
    BY <2>1
  <2>3. Following(i, events \cup {n}) = j
    BY <2>1, <2>2, FollowingIsUnique
  <2> QED
    BY <1>2, <2>3 DEF IsLast, j
<1> QED
  BY <1>1, <1>2

(* A transaction adds its event at the end of the feed. *)
LEMMA EventAppended ==
  ASSUME StoredTypeOK, NEW event, feed' = Append(feed, event)
  PROVE  LET n == Len(feed) + 1
         IN /\ n \in Nat /\ DOMAIN feed = 1 .. Len(feed)
            /\ DOMAIN feed' = DOMAIN feed \cup {n}
            /\ feed'[n] = event
            /\ \A i \in DOMAIN feed : i \in Nat /\ i < n /\ feed'[i] = feed[i]
PROOF
<1> DEFINE Entry == [call : Calls, type : EventTypes, expense : Optional(Calls),
                     total : Optional(Nat), at : Nat, done : Nat]
<1>1. feed \in Seq(Entry)
  BY DEF StoredTypeOK
<1> HIDE DEF Entry
<1> QED
  BY <1>1

(* The events of an expense or of a user are positions of the feed. *)
LEMMA EventsInFeed ==
  ASSUME StoredTypeOK
  PROVE  /\ \A e : EventsOn(e) \in SUBSET Nat /\ EventsOn(e) \subseteq DOMAIN feed
         /\ \A u : EventsOf(u) \in SUBSET Nat /\ EventsOf(u) \subseteq DOMAIN feed
PROOF
  BY DEF StoredTypeOK, EventsOn, EventsOf

(* The new event counts for the expense and the user that it is about. *)
LEMMA EventsAfterAppend ==
  ASSUME StoredTypeOK, NEW event, feed' = Append(feed, event), UNCHANGED request
  PROVE  LET n == Len(feed) + 1
         IN /\ \A e : EventsOn(e)' = IF event.expense = e THEN EventsOn(e) \cup {n}
                                                           ELSE EventsOn(e)
            /\ \A u : EventsOf(u)' =
                 IF /\ event.type \in {"MEMBER_ADDED", "MEMBER_REMOVED"}
                    /\ request[event.call].member = u
                 THEN EventsOf(u) \cup {n} ELSE EventsOf(u)
            /\ \A i \in DOMAIN feed : feed'[i] = feed[i]
            /\ feed'[n] = event
            /\ n \in Nat
            /\ \A i \in DOMAIN feed : i < n
PROOF
<1> DEFINE n == Len(feed) + 1
<1>1. /\ n \in Nat
      /\ DOMAIN feed' = DOMAIN feed \cup {n}
      /\ feed'[n] = event
      /\ \A i \in DOMAIN feed : i \in Nat /\ i < n /\ feed'[i] = feed[i]
      /\ n \notin DOMAIN feed
  BY EventAppended
<1> HIDE DEF n
<1>2. ASSUME NEW e
      PROVE EventsOn(e)' = IF event.expense = e THEN EventsOn(e) \cup {n}
                                                ELSE EventsOn(e)
  BY <1>1 DEF EventsOn
<1>3. ASSUME NEW u
      PROVE EventsOf(u)' =
                 IF /\ event.type \in {"MEMBER_ADDED", "MEMBER_REMOVED"}
                    /\ request[event.call].member = u
                 THEN EventsOf(u) \cup {n} ELSE EventsOf(u)
  BY <1>1 DEF EventsOf
<1> QED
  BY <1>1, <1>2, <1>3 DEF n

(* The change of an expense that was committed last.  A deletion comes     *)
(* after it, and repeats its total; without one the expense is stored with *)
(* that total.                                                             *)
LastChange(e, i) ==
  /\ feed[i].type # "EXPENSE_DELETED"
  /\ \A j \in EventsOn(e) :
       IF feed[j].type = "EXPENSE_DELETED"
       THEN j > i /\ e \notin DOMAIN expenses /\ feed[j].total = feed[i].total
       ELSE j <= i
  /\ (\A j \in EventsOn(e) : feed[j].type # "EXPENSE_DELETED")
       => e \in DOMAIN expenses /\ expenses[e].total = feed[i].total

(* The commits about an expense: it is added once and deleted at most once. *)
Trail(e) ==
  /\ EventsOn(e) = {} => e \notin DOMAIN expenses
  /\ EventsOn(e) # {} => \E i \in EventsOn(e) : LastChange(e, i)
  /\ \A i, j \in EventsOn(e) :
       i # j => feed[i].type # feed[j].type \/ feed[i].type = "EXPENSE_UPDATED"

(* Events are dated before they are committed, a deletion at its commit,   *)
(* and no event about an expense before its addition.                      *)
FeedDated ==
  /\ \A i \in DOMAIN feed :
       /\ feed[i].at <= feed[i].done /\ feed[i].done <= now
       /\ feed[i].type = "EXPENSE_DELETED" => feed[i].at = feed[i].done
  /\ \A i, j \in DOMAIN feed : i <= j => feed[i].done <= feed[j].done
  /\ \A e \in Calls : \A i, j \in EventsOn(e) :
       feed[i].type = "EXPENSE_ADDED" => feed[i].at <= feed[j].at

(* Who is about to write an update began after the addition. *)
WritersDated ==
  \A c \in Calls : pc[c] = "write" =>
    /\ began[c] <= now
    /\ Op(c) = "update" =>
         \A i \in EventsOn(request[c].expense) :
           feed[i].type = "EXPENSE_ADDED" => feed[i].at <= began[c]

(* The positions and times of the feed are numbers. *)
LEMMA FeedTimes ==
  ASSUME StoredTypeOK
  PROVE  \A i \in DOMAIN feed :
           i \in Nat /\ feed[i].at \in Nat /\ feed[i].done \in Nat
PROOF
<1> DEFINE Entry == [call : Calls, type : EventTypes, expense : Optional(Calls),
                     total : Optional(Nat), at : Nat, done : Nat]
<1>1. feed \in Seq(Entry)
  BY DEF StoredTypeOK
<1>2. ASSUME NEW i \in DOMAIN feed PROVE feed[i] \in Entry /\ i \in Nat
  <2> HIDE DEF Entry
  <2> QED
    BY <1>1
<1> QED
  BY <1>2

(* What was committed about each expense, in the order in which it is shown. *)
LEMMA TrailIsShown ==
  ASSUME StoredTypeOK, FeedDated, \A e \in Calls : Trail(e)
  PROVE  FeedTellsExpenses
PROOF
<1> SUFFICES ASSUME NEW e \in Calls
    PROVE
    /\ e \in DOMAIN expenses <=>
         /\ EventsOn(e) # {}
         /\ \A i \in EventsOn(e) : feed[i].type # "EXPENSE_DELETED"
    /\ \A i \in EventsOn(e), j \in EventsOn(e) :
         /\ i # j => feed[i].type # feed[j].type \/ feed[i].type = "EXPENSE_UPDATED"
         /\ feed[i].type = "EXPENSE_ADDED" => feed[i].at <= feed[j].at
         /\ feed[i].type = "EXPENSE_DELETED" => feed[j].at <= feed[i].at
    /\ e \in DOMAIN expenses => Tells(e, expenses[e].total)
    /\ \A i \in EventsOn(e) :
         feed[i].type = "EXPENSE_DELETED" => Tells(e, feed[i].total)
  BY DEF FeedTellsExpenses
<1>1. CASE EventsOn(e) = {}
  BY <1>1 DEF Trail
<1>2. CASE EventsOn(e) # {}
  <2> DEFINE events == EventsOn(e)
  <2>1. PICK i \in events : LastChange(e, i)
    BY <1>2 DEF Trail
  <2>2. /\ events \subseteq DOMAIN feed
        /\ \A j \in events :
             j \in Nat /\ feed[j].at \in Nat /\ feed[j].done \in Nat
    BY EventsInFeed, FeedTimes
  <2>3. /\ feed[i].type # "EXPENSE_DELETED"
        /\ \A j \in events :
             /\ feed[j].type = "EXPENSE_DELETED" =>
                  j > i /\ e \notin DOMAIN expenses /\ feed[j].total = feed[i].total
             /\ feed[j].type # "EXPENSE_DELETED" => j <= i
        /\ (\A j \in events : feed[j].type # "EXPENSE_DELETED")
             => e \in DOMAIN expenses /\ expenses[e].total = feed[i].total
    BY <2>1 DEF LastChange
  <2>4. \A j, k \in events :
          /\ feed[j].at <= feed[j].done
          /\ feed[j].type = "EXPENSE_DELETED" => feed[j].at = feed[j].done
          /\ j <= k => feed[j].done <= feed[k].done
          /\ feed[j].type = "EXPENSE_ADDED" => feed[j].at <= feed[k].at
    BY <2>2 DEF FeedDated
  <2>5. \A j, k \in events :
          j # k => feed[j].type # feed[k].type \/ feed[j].type = "EXPENSE_UPDATED"
    BY DEF Trail
  <2> HIDE DEF events
  <2>6. ASSUME NEW j \in events, NEW k \in events, feed[j].type = "EXPENSE_DELETED"
        PROVE  feed[k].at <= feed[j].at
    <3>1. CASE feed[k].type = "EXPENSE_DELETED"
      BY <2>2, <2>5, <2>6, <3>1
    <3>2. CASE feed[k].type # "EXPENSE_DELETED"
      <4>1. k <= i /\ i < j
        BY <2>2, <2>3, <2>6, <3>2
      <4>2. k <= j
        BY <2>2, <4>1
      <4>3. feed[k].at <= feed[k].done /\ feed[k].done <= feed[j].done
            /\ feed[j].at = feed[j].done
        BY <2>4, <2>6, <4>2
      <4> QED
        BY <2>2, <4>3
    <3> QED
      BY <3>1, <3>2
  <2>7. Tells(e, feed[i].total)
    <3>1. ASSUME NEW j \in events, feed[j].type = "EXPENSE_UPDATED"
          PROVE  feed[j].at <= feed[i].done
      <4>1. j <= i
        BY <2>3, <3>1
      <4>2. feed[j].at <= feed[j].done /\ feed[j].done <= feed[i].done
        BY <2>4, <4>1
      <4> QED
        BY <2>2, <4>2
    <3> QED
      BY <2>3, <3>1 DEF Tells, events
  <2>8. e \in DOMAIN expenses =>
          /\ \A j \in events : feed[j].type # "EXPENSE_DELETED"
          /\ expenses[e].total = feed[i].total
    BY <2>3
  <2>9. \A j \in events : feed[j].type = "EXPENSE_DELETED"
                            => feed[j].total = feed[i].total
    BY <2>3
  <2>10. e \in DOMAIN expenses => Tells(e, expenses[e].total)
    BY <2>7, <2>8
  <2>11. \A j \in events :
           feed[j].type = "EXPENSE_DELETED" => Tells(e, feed[j].total)
    BY <2>7, <2>9
  <2>12. e \in DOMAIN expenses <=>
           \A j \in events : feed[j].type # "EXPENSE_DELETED"
    BY <2>3, <2>8
  <2> QED
    BY <1>2, <2>4, <2>5, <2>6, <2>10, <2>11, <2>12 DEF events
<1> QED
  BY <1>1, <1>2

(* What is not recorded about an expense does not change its trail. *)
LEMMA ExpenseUntouched ==
  ASSUME NEW e, Trail(e), EventsOn(e)' = EventsOn(e),
         StoredTypeOK,
         \A i \in DOMAIN feed : feed'[i] = feed[i],
         e \in DOMAIN expenses' <=> e \in DOMAIN expenses,
         e \in DOMAIN expenses => expenses'[e].total = expenses[e].total
  PROVE  Trail(e)'
PROOF
<1> DEFINE events == EventsOn(e)
<1>1. \A i \in events : feed'[i] = feed[i]
  BY EventsInFeed
<1>2. EventsOn(e)' = events
  OBVIOUS
<1>3. ASSUME NEW i \in events, LastChange(e, i) PROVE LastChange(e, i)'
  <2>1. /\ feed[i].type # "EXPENSE_DELETED"
        /\ \A j \in events :
             IF feed[j].type = "EXPENSE_DELETED"
             THEN j > i /\ e \notin DOMAIN expenses /\ feed[j].total = feed[i].total
             ELSE j <= i
        /\ (\A j \in events : feed[j].type # "EXPENSE_DELETED")
             => e \in DOMAIN expenses /\ expenses[e].total = feed[i].total
    BY <1>3 DEF LastChange
  <2> HIDE DEF events
  <2>2. /\ feed'[i].type # "EXPENSE_DELETED"
        /\ \A j \in events :
             IF feed'[j].type = "EXPENSE_DELETED"
             THEN j > i /\ e \notin DOMAIN expenses' /\ feed'[j].total = feed'[i].total
             ELSE j <= i
        /\ (\A j \in events : feed'[j].type # "EXPENSE_DELETED")
             => e \in DOMAIN expenses' /\ expenses'[e].total = feed'[i].total
    BY <1>1, <2>1
  <2> QED
    BY <1>2, <2>2 DEF LastChange
<1>4. /\ events = {} => e \notin DOMAIN expenses
      /\ events # {} => \E i \in events : LastChange(e, i)
      /\ \A i, j \in events :
           i # j => feed[i].type # feed[j].type \/ feed[i].type = "EXPENSE_UPDATED"
  BY DEF Trail
<1> HIDE DEF events
<1>5. events # {} => \E i \in events : LastChange(e, i)'
  BY <1>3, <1>4
<1>6. \A i, j \in events :
        i # j => feed'[i].type # feed'[j].type \/ feed'[i].type = "EXPENSE_UPDATED"
  BY <1>1, <1>4
<1> QED
  BY <1>2, <1>4, <1>5, <1>6 DEF Trail

(* The creation comes first, and only an existing expense is updated or    *)
(* deleted, with its total: the trail goes on.                             *)
LEMMA ExpenseRecorded ==
  ASSUME StoredTypeOK, NEW e, Trail(e), NEW event, event.expense = e,
         feed' = Append(feed, event), UNCHANGED request,
         event.type \in {"EXPENSE_ADDED", "EXPENSE_UPDATED", "EXPENSE_DELETED"},
         IF event.type = "EXPENSE_ADDED" THEN EventsOn(e) = {}
                                         ELSE e \in DOMAIN expenses,
         IF event.type = "EXPENSE_DELETED"
         THEN e \notin DOMAIN expenses' /\ event.total = expenses[e].total
         ELSE e \in DOMAIN expenses' /\ event.total = expenses'[e].total
  PROVE  Trail(e)'
PROOF
<1> DEFINE n == Len(feed) + 1
           old == EventsOn(e)
           new == old \cup {n}
<1>1. /\ EventsOn(e)' = new
      /\ old \in SUBSET Nat /\ n \in Nat /\ \A k \in old : k < n
      /\ feed'[n] = event
      /\ \A i \in old : feed'[i] = feed[i]
  BY EventsAfterAppend, EventsInFeed
<1>2. /\ old = {} => e \notin DOMAIN expenses
      /\ old # {} => \E i \in old : LastChange(e, i)
      /\ \A i, j \in old :
           i # j => feed[i].type # feed[j].type \/ feed[i].type = "EXPENSE_UPDATED"
  BY DEF Trail
<1>3. old # {} => event.type # "EXPENSE_ADDED" /\ e \in DOMAIN expenses
  OBVIOUS
<1>4. ASSUME NEW i \in old, LastChange(e, i)
      PROVE  /\ feed[i].type # "EXPENSE_DELETED"
             /\ e \in DOMAIN expenses
             /\ \A j \in old : feed[j].type # "EXPENSE_DELETED" /\ j <= i
             /\ expenses[e].total = feed[i].total
  BY <1>3, <1>4 DEF LastChange
<1> HIDE DEF n, old
<1>5. \A j \in old : feed[j].type # "EXPENSE_DELETED"
  BY <1>2, <1>4
<1>6. \A i, j \in new :
        i # j => feed'[i].type # feed'[j].type \/ feed'[i].type = "EXPENSE_UPDATED"
  <2>1. ASSUME NEW j \in old
        PROVE  /\ feed[j].type = event.type => event.type = "EXPENSE_UPDATED"
               /\ j # n
    <3>1. e \in DOMAIN expenses /\ event.type # "EXPENSE_ADDED"
      BY <1>3
    <3>2. feed[j].type # "EXPENSE_DELETED"
      BY <1>5
    <3>3. j # n
      BY <1>1
    <3> QED
      BY <3>1, <3>2, <3>3
  <2>2. \A i, j \in old :
          i # j => feed[i].type # feed[j].type \/ feed[i].type = "EXPENSE_UPDATED"
    BY <1>2
  <2>3. ASSUME NEW i \in new, NEW j \in new, i # j
        PROVE  feed'[i].type # feed'[j].type \/ feed'[i].type = "EXPENSE_UPDATED"
    <3>1. (i = n \/ i \in old) /\ (j = n \/ j \in old)
      OBVIOUS
    <3>2. CASE i \in old /\ j \in old
      BY <1>1, <2>2, <2>3, <3>2
    <3>3. CASE i = n /\ j \in old
      BY <1>1, <2>1, <3>3
    <3>4. CASE i \in old /\ j = n
      BY <1>1, <2>1, <3>4
    <3> QED
      BY <2>3, <3>1, <3>2, <3>3, <3>4
  <2> QED
    BY <2>3
<1>7. \E i \in new :
        /\ feed'[i].type # "EXPENSE_DELETED"
        /\ \A j \in new :
             IF feed'[j].type = "EXPENSE_DELETED"
             THEN j > i /\ e \notin DOMAIN expenses' /\ feed'[j].total = feed'[i].total
             ELSE j <= i
        /\ (\A j \in new : feed'[j].type # "EXPENSE_DELETED")
             => e \in DOMAIN expenses' /\ expenses'[e].total = feed'[i].total
  <2>1. CASE event.type = "EXPENSE_DELETED"
    <3>1. old # {}
      BY <1>2, <2>1
    <3>2. PICK i \in old : LastChange(e, i)
      BY <1>2, <3>1
    <3>3. /\ feed[i].type # "EXPENSE_DELETED"
          /\ \A j \in old : feed[j].type # "EXPENSE_DELETED" /\ j <= i
          /\ expenses[e].total = feed[i].total
      BY <1>4, <3>2
    <3>4. i \in new /\ feed'[i] = feed[i] /\ n > i /\ n \in new
      BY <1>1
    <3>5. ASSUME NEW j \in new
          PROVE  IF feed'[j].type = "EXPENSE_DELETED"
                 THEN /\ j > i /\ e \notin DOMAIN expenses'
                      /\ feed'[j].total = feed'[i].total
                 ELSE j <= i
      <4>1. CASE j = n
        BY <1>1, <2>1, <3>3, <3>4, <4>1
      <4>2. CASE j \in old
        BY <1>1, <3>3, <4>2
      <4> QED
        BY <4>1, <4>2
    <3>6. feed'[n].type = "EXPENSE_DELETED"
      BY <1>1, <2>1
    <3> HIDE DEF new
    <3> QED
      BY <3>3, <3>4, <3>5, <3>6
  <2>2. CASE event.type # "EXPENSE_DELETED"
    <3>1. n \in new /\ feed'[n] = event
      BY <1>1
    <3>2. ASSUME NEW j \in new
          PROVE  feed'[j].type # "EXPENSE_DELETED" /\ j <= n
      <4>1. CASE j = n
        <5>1. feed'[j] = event
          BY <3>1, <4>1
        <5>2. j <= n
          BY <1>1, <4>1
        <5> QED
          BY <2>2, <5>1, <5>2
      <4>2. CASE j \in old
        <5>1. feed'[j] = feed[j] /\ feed[j].type # "EXPENSE_DELETED"
          BY <1>1, <1>5, <4>2
        <5>2. j \in Nat /\ n \in Nat /\ j < n
          <6>1. old \in SUBSET Nat /\ n \in Nat /\ \A k \in old : k < n
            BY <1>1
          <6> QED
            BY <4>2, <6>1
        <5>3. j <= n
          BY <5>2
        <5> QED
          BY <5>1, <5>3
      <4> QED
        BY <4>1, <4>2
    <3>3. e \in DOMAIN expenses' /\ expenses'[e].total = event.total
      BY <2>2
    <3> HIDE DEF new
    <3> QED
      BY <2>2, <3>1, <3>2, <3>3
  <2> QED
    BY <2>1, <2>2
<1>8. new # {}
  OBVIOUS
<1> HIDE DEF new
<1>9. \E i \in new : LastChange(e, i)'
  BY <1>1, <1>7 DEF LastChange
<1> QED
  BY <1>1, <1>6, <1>8, <1>9 DEF Trail

(* The user u as FeedTellsMembers sees it. *)
TellsMember(u) ==
  \A i \in EventsOf(u) :
    IF IsLast(i, EventsOf(u))
    THEN feed[i].type = "MEMBER_ADDED" <=> u \in members
    ELSE feed[Following(i, EventsOf(u))].type # feed[i].type

(* The same for a user about whom nothing is recorded... *)
LEMMA MemberUntouched ==
  ASSUME NEW u, TellsMember(u), EventsOf(u)' = EventsOf(u), StoredTypeOK,
         \A i \in DOMAIN feed : feed'[i] = feed[i],
         u \in members' <=> u \in members
  PROVE  TellsMember(u)'
PROOF
<1> DEFINE events == EventsOf(u)
<1>1. /\ EventsOf(u)' = events
      /\ events \in SUBSET Nat /\ events \subseteq DOMAIN feed
  BY EventsInFeed
<1>2. \A i \in events : ~IsLast(i, events) => Following(i, events) \in DOMAIN feed
  BY <1>1, FollowingIsNext
<1>3. \A i \in events :
        /\ IsLast(i, events) => (feed[i].type = "MEMBER_ADDED" <=> u \in members)
        /\ ~IsLast(i, events) => feed[Following(i, events)].type # feed[i].type
  BY DEF TellsMember
<1> HIDE DEF events
<1>4. ASSUME NEW i \in events
      PROVE  IF IsLast(i, events)
             THEN feed'[i].type = "MEMBER_ADDED" <=> u \in members'
             ELSE feed'[Following(i, events)].type # feed'[i].type
  <2>1. CASE IsLast(i, events)
    BY <1>1, <1>3, <2>1
  <2>2. CASE ~IsLast(i, events)
    BY <1>1, <1>2, <1>3, <2>2
  <2> QED
    BY <2>1, <2>2
<1> QED
  BY <1>1, <1>4 DEF TellsMember

(* ...and for one who is added while no member, or removed while one. *)
LEMMA MemberRecorded ==
  ASSUME StoredTypeOK, NEW u, TellsMember(u), NEW event,
         event.type \in {"MEMBER_ADDED", "MEMBER_REMOVED"},
         request[event.call].member = u,
         feed' = Append(feed, event), UNCHANGED request,
         event.type = "MEMBER_ADDED" => u \notin members /\ u \in members',
         event.type # "MEMBER_ADDED" => u \in members /\ u \notin members'
  PROVE  TellsMember(u)'
PROOF
<1> DEFINE n == Len(feed) + 1
           old == EventsOf(u)
           new == old \cup {n}
<1>1. /\ EventsOf(u)' = new
      /\ old \in SUBSET Nat /\ n \in Nat /\ \A k \in old : k < n
      /\ feed'[n] = event
      /\ \A i \in old : feed'[i] = feed[i]
  BY EventsAfterAppend, EventsInFeed
<1>2. \A i \in old : feed[i].type \in {"MEMBER_ADDED", "MEMBER_REMOVED"}
  BY DEF EventsOf
<1>3. \A i \in old :
        /\ IsLast(i, old) => (feed[i].type = "MEMBER_ADDED" <=> u \in members)
        /\ ~IsLast(i, old) => feed[Following(i, old)].type # feed[i].type
  BY DEF TellsMember
<1> HIDE DEF n, old
<1>4. IsLast(n, new)
  <2> SUFFICES ASSUME NEW k \in new PROVE k <= n
    BY DEF IsLast
  <2>1. k = n \/ (k \in old /\ k \in Nat /\ k < n)
    BY <1>1
  <2> QED
    BY <1>1, <2>1
<1>5. ASSUME NEW i \in old
      PROVE  ~IsLast(i, new) /\ feed'[Following(i, new)].type # feed'[i].type
  <2>1. ~IsLast(i, new) /\ Following(i, new) =
                             IF IsLast(i, old) THEN n ELSE Following(i, old)
    BY <1>1, FollowingExtended
  <2>2. CASE IsLast(i, old)
    BY <1>1, <1>2, <1>3, <2>1, <2>2
  <2>3. CASE ~IsLast(i, old)
    <3>1. Following(i, old) \in old
      BY <1>1, <2>3, FollowingIsNext
    <3> QED
      BY <1>1, <1>3, <2>1, <2>3, <3>1
  <2> QED
    BY <2>2, <2>3
<1>6. event.type = "MEMBER_ADDED" <=> u \in members'
  OBVIOUS
<1>7. ASSUME NEW i \in new
      PROVE  IF IsLast(i, new)
             THEN feed'[i].type = "MEMBER_ADDED" <=> u \in members'
             ELSE feed'[Following(i, new)].type # feed'[i].type
  <2>1. CASE i = n
    BY <1>1, <1>4, <1>6, <2>1
  <2>2. CASE i # n
    BY <1>5, <2>2
  <2> QED
    BY <2>1, <2>2
<1> HIDE DEF new
<1> QED
  BY <1>1, <1>7 DEF TellsMember

(* Nothing is recorded about an expense before it is created. *)
NothingBeforeCreation == \A c \in Calls : pc[c] \notin Ends => EventsOn(c) = {}

AuditInv ==
  /\ \A e \in Calls : Trail(e)
  /\ FeedDated
  /\ WritersDated
  /\ FeedTellsMembers
  /\ NothingBeforeCreation

(* A handler moves while the feed stays as it is: when it goes on to write *)
(* it begins now, after all that was committed.                            *)
LEMMA WriterBegins ==
  ASSUME IInv, FeedDated, WritersDated, NEW c \in Calls, NEW stage,
         Goto(c, stage), UNCHANGED <<feed, now, request>>
  PROVE  WritersDated'
PROOF
<1>1. /\ pc \in [Calls -> Stages] /\ began \in [Calls -> Nat] /\ now \in Nat
      /\ StoredTypeOK
  BY DEF IInv, TypeOK, HandlersTypeOK, StoredTypeOK
<1>2. \A e : EventsOn(e)' = EventsOn(e)
  BY DEF EventsOn
<1> SUFFICES ASSUME NEW d \in Calls, pc'[d] = "write"
             PROVE  /\ began'[d] <= now
                    /\ Op(d) = "update" =>
                         \A i \in EventsOn(request[d].expense) :
                           feed[i].type = "EXPENSE_ADDED" => feed[i].at <= began'[d]
  BY <1>2 DEF WritersDated, Op
<1>3. CASE d = c
  <2>1. began'[d] = now
    BY <1>1, <1>3 DEF Goto
  <2>2. ASSUME NEW i \in DOMAIN feed PROVE feed[i].at <= now
    <3>1. feed[i].at <= feed[i].done /\ feed[i].done <= now
      BY DEF FeedDated
    <3>2. feed[i].at \in Nat /\ feed[i].done \in Nat
      BY <1>1, FeedTimes
    <3> QED
      BY <1>1, <3>1, <3>2
  <2>3. EventsOn(request[d].expense) \subseteq DOMAIN feed
    BY DEF EventsOn
  <2> QED
    BY <1>1, <2>1, <2>2, <2>3
<1>4. CASE d # c
  <2>1. pc[d] = "write" /\ began'[d] = began[d]
    BY <1>1, <1>4 DEF Goto
  <2> QED
    BY <2>1 DEF WritersDated
<1> QED
  BY <1>3, <1>4

(* The parts of the trail that depend on the database only. *)
LEMMA DatabaseQuiet ==
  ASSUME AuditInv, UNCHANGED <<members, expenses, feed, request>>,
         \A c \in Calls : pc[c] \in Ends => pc'[c] \in Ends
  PROVE  /\ \A e \in Calls : Trail(e)'
         /\ FeedTellsMembers'
         /\ NothingBeforeCreation'
PROOF
<1>1. /\ \A e : EventsOn(e)' = EventsOn(e)
      /\ \A u : EventsOf(u)' = EventsOf(u)
  BY DEF EventsOn, EventsOf
<1>2. NothingBeforeCreation'
  BY <1>1 DEF AuditInv, NothingBeforeCreation
<1>3. \A e \in Calls : Trail(e)'
  BY <1>1 DEF AuditInv, Trail, LastChange
<1>4. FeedTellsMembers'
  BY <1>1 DEF AuditInv, FeedTellsMembers
<1> QED
  BY <1>2, <1>3, <1>4

(* A step of a handler that leaves the database alone. *)
LEMMA QuietStep ==
  ASSUME IInv, AuditInv, NEW c \in Calls, NEW stage, Goto(c, stage),
         pc[c] \notin Ends, UNCHANGED <<members, expenses, feed, now, request>>
  PROVE  AuditInv'
PROOF
<1>1. \A d \in Calls : pc[d] \in Ends => pc'[d] \in Ends
  BY DEF IInv, TypeOK, HandlersTypeOK, Goto
<1>2. FeedDated'
  BY DEF AuditInv, FeedDated, EventsOn
<1>3. WritersDated'
  BY WriterBegins DEF AuditInv
<1> QED
  BY <1>1, <1>2, <1>3, DatabaseQuiet DEF AuditInv

(* Time passes, or nothing happens. *)
LEMMA TimePasses ==
  ASSUME IInv, AuditInv, now' \in Nat, now <= now',
         UNCHANGED <<members, expenses, feed, request, pc, began>>
  PROVE  AuditInv'
PROOF
<1>1. now \in Nat /\ began \in [Calls -> Nat] /\ StoredTypeOK
  BY DEF IInv, TypeOK, HandlersTypeOK, StoredTypeOK
<1>2. \A i \in DOMAIN feed : feed[i].done \in Nat
  BY <1>1, FeedTimes
<1>3. FeedDated'
  <2>1. \A i \in DOMAIN feed : feed[i].done <= now'
    BY <1>1, <1>2 DEF AuditInv, FeedDated
  <2> QED
    BY <2>1 DEF AuditInv, FeedDated, EventsOn
<1>4. WritersDated'
  <2>1. \A c \in Calls : began[c] <= now => began[c] <= now'
    BY <1>1
  <2> QED
    BY <2>1 DEF AuditInv, WritersDated, EventsOn, Op
<1>5. \A c \in Calls : pc[c] \in Ends => pc'[c] \in Ends
  OBVIOUS
<1> QED
  BY <1>3, <1>4, <1>5, DatabaseQuiet DEF AuditInv

(* A recorded event is dated after the addition of its expense, and not    *)
(* after its commit.                                                       *)
LEMMA DatesKept ==
  ASSUME IInv, AuditInv, NEW c \in Calls, NEW event,
         pc[c] = "write", End(c, "ok"), feed' = Append(feed, event),
         UNCHANGED <<now, request>>,
         event.at \in Nat, event.at <= now, event.done = now,
         event.type = "EXPENSE_DELETED" => event.at = now,
         event.type = "EXPENSE_ADDED" => event.expense = c,
         event.expense \in Calls /\ event.type # "EXPENSE_ADDED" =>
           \A i \in EventsOn(event.expense) :
             feed[i].type = "EXPENSE_ADDED" => feed[i].at <= event.at
  PROVE  FeedDated' /\ WritersDated'
PROOF
<1> DEFINE n == Len(feed) + 1
<1>1. /\ n \in Nat
      /\ DOMAIN feed' = DOMAIN feed \cup {n}
      /\ feed'[n] = event
      /\ \A i \in DOMAIN feed : i \in Nat /\ i < n /\ feed'[i] = feed[i]
  BY EventAppended DEF IInv, TypeOK
<1>2. /\ \A e : EventsOn(e)' = IF event.expense = e THEN EventsOn(e) \cup {n}
                                                     ELSE EventsOn(e)
      /\ \A e : EventsOn(e) \subseteq DOMAIN feed
  BY EventsAfterAppend, EventsInFeed DEF IInv, TypeOK
<1> HIDE DEF n
<1>3. /\ pc \in [Calls -> Stages] /\ began \in [Calls -> Nat] /\ now \in Nat
      /\ \A i \in DOMAIN feed : feed[i].at \in Nat /\ feed[i].done \in Nat
  BY FeedTimes DEF IInv, TypeOK, HandlersTypeOK, StoredTypeOK
<1>4. EventsOn(c) = {}
  BY DEF AuditInv, NothingBeforeCreation, Ends
<1>5. ASSUME NEW i \in DOMAIN feed'
      PROVE  /\ feed'[i].at <= feed'[i].done /\ feed'[i].done <= now
             /\ feed'[i].type = "EXPENSE_DELETED" => feed'[i].at = feed'[i].done
  <2>1. CASE i = n
    BY <1>1, <1>3, <2>1
  <2>2. CASE i \in DOMAIN feed
    BY <1>1, <2>2 DEF AuditInv, FeedDated
  <2> QED
    BY <1>1, <2>1, <2>2
<1>6. ASSUME NEW i \in DOMAIN feed', NEW j \in DOMAIN feed', i <= j
      PROVE  feed'[i].done <= feed'[j].done
  <2>1. CASE j = n
    BY <1>1, <1>5, <2>1
  <2>2. CASE j \in DOMAIN feed
    <3>1. i \in DOMAIN feed
      BY <1>1, <1>6, <2>2
    <3> QED
      BY <1>1, <1>6, <2>2, <3>1 DEF AuditInv, FeedDated
  <2> QED
    BY <1>1, <2>1, <2>2
<1>7. ASSUME NEW e \in Calls, NEW i \in EventsOn(e)', NEW j \in EventsOn(e)',
             feed'[i].type = "EXPENSE_ADDED"
      PROVE  feed'[i].at <= feed'[j].at
  <2>1. CASE i \in EventsOn(e) /\ j \in EventsOn(e)
    BY <1>1, <1>2, <1>7, <2>1 DEF AuditInv, FeedDated
  <2>2. CASE ~(i \in EventsOn(e) /\ j \in EventsOn(e))
    <3>1. event.expense = e /\ EventsOn(e)' = EventsOn(e) \cup {n}
      BY <1>2, <2>2
    <3>2. CASE i = n
      <4>1. e = c /\ EventsOn(e) = {}
        BY <1>1, <1>4, <1>7, <3>1, <3>2
      <4>2. j = n
        BY <3>1, <4>1
      <4> QED
        BY <1>1, <3>2, <4>2
    <3>3. CASE i # n
      <4>1. i \in EventsOn(e) /\ j = n
        BY <2>2, <3>1, <3>3
      <4>2. event.type # "EXPENSE_ADDED"
        BY <1>4, <3>1, <4>1
      <4>3. feed'[i] = feed[i] /\ feed'[j] = event
        BY <1>1, <1>2, <4>1
      <4> QED
        BY <1>7, <3>1, <4>1, <4>2, <4>3
    <3> QED
      BY <3>2, <3>3
  <2> QED
    BY <2>1, <2>2
<1>8. FeedDated'
  BY <1>5, <1>6, <1>7 DEF FeedDated
<1>9. WritersDated'
  <2> SUFFICES ASSUME NEW d \in Calls, pc'[d] = "write"
               PROVE  /\ began'[d] <= now
                      /\ Op(d) = "update" =>
                           \A i \in EventsOn(request[d].expense)' :
                             feed'[i].type = "EXPENSE_ADDED"
                               => feed'[i].at <= began'[d]
    BY DEF WritersDated, Op, EventsOn
  <2>1. d # c /\ pc[d] = "write" /\ began'[d] = began[d]
    BY <1>3 DEF End, Goto
  <2>2. /\ began[d] <= now
        /\ Op(d) = "update" =>
             \A i \in EventsOn(request[d].expense) :
               feed[i].type = "EXPENSE_ADDED" => feed[i].at <= began[d]
    BY <2>1 DEF AuditInv, WritersDated
  <2>3. ASSUME Op(d) = "update", NEW i \in EventsOn(request[d].expense)',
               feed'[i].type = "EXPENSE_ADDED"
        PROVE  feed'[i].at <= began[d]
    <3>1. pc[request[d].expense] \in Ends
      BY <2>1, <2>3 DEF IInv, CreatedOnce
    <3>2. request[d].expense # c
      BY <3>1 DEF Ends
    <3>3. i # n \/ event.expense # request[d].expense
      BY <1>1, <2>3, <3>2
    <3>4. i \in EventsOn(request[d].expense)
      BY <1>2, <2>3, <3>3
    <3>5. feed'[i] = feed[i]
      BY <1>1, <1>2, <3>4
    <3> QED
      BY <2>2, <2>3, <3>4, <3>5
  <2> QED
    BY <2>1, <2>2, <2>3
<1> QED
  BY <1>8, <1>9

(* A transaction on an expense records it. *)
LEMMA ExpenseStep ==
  ASSUME IInv, AuditInv, NEW c \in Calls, NEW e \in Calls, NEW event,
         End(c, "ok"), pc[c] = "write", feed' = Append(feed, event),
         event.expense = e,
         event.type \in {"EXPENSE_ADDED", "EXPENSE_UPDATED", "EXPENSE_DELETED"},
         event.at \in Nat, event.at <= now, event.done = now,
         event.type = "EXPENSE_DELETED" => event.at = now,
         event.type = "EXPENSE_UPDATED" =>
           Op(c) = "update" /\ request[c].expense = e /\ began[c] <= event.at,
         UNCHANGED <<members, now, request>>,
         DOMAIN expenses' \in SUBSET Calls,
         \A d \in Calls : d # e =>
           /\ d \in DOMAIN expenses' <=> d \in DOMAIN expenses
           /\ d \in DOMAIN expenses => expenses'[d] = expenses[d],
         IF event.type = "EXPENSE_ADDED" THEN e = c ELSE e \in DOMAIN expenses,
         IF event.type = "EXPENSE_DELETED"
         THEN e \notin DOMAIN expenses' /\ event.total = expenses[e].total
         ELSE e \in DOMAIN expenses' /\ event.total = expenses'[e].total
  PROVE  AuditInv'
PROOF
<1>1. StoredTypeOK /\ pc \in [Calls -> Stages]
  BY DEF IInv, TypeOK, HandlersTypeOK
<1>2. /\ \A d : d # e => EventsOn(d)' = EventsOn(d)
      /\ \A u : EventsOf(u)' = EventsOf(u)
      /\ \A i \in DOMAIN feed : feed'[i] = feed[i]
  BY <1>1, EventsAfterAppend
<1>3. EventsOn(c) = {}
  BY DEF AuditInv, NothingBeforeCreation, Ends
<1>4. \A d \in Calls : Trail(d)
  BY DEF AuditInv
<1>5. Trail(e)'
  BY <1>1, <1>3, <1>4, ExpenseRecorded
<1>6. ASSUME NEW d \in Calls, d # e PROVE Trail(d)'
  BY <1>1, <1>2, <1>4, <1>6, ExpenseUntouched
<1>7. \A d \in Calls : Trail(d)'
  BY <1>5, <1>6
<1>8. ASSUME NEW u \in Users PROVE TellsMember(u)'
  <2>1. TellsMember(u)
    BY DEF AuditInv, FeedTellsMembers, TellsMember
  <2> QED
    BY <1>1, <1>2, <2>1, MemberUntouched
<1>9. FeedTellsMembers'
  BY <1>8 DEF FeedTellsMembers, TellsMember
<1>10. NothingBeforeCreation'
  <2> SUFFICES ASSUME NEW d \in Calls, pc'[d] \notin Ends
               PROVE  EventsOn(d)' = {}
    BY DEF NothingBeforeCreation
  <2>1. d # c /\ pc[d] = pc'[d]
    BY <1>1 DEF End, Goto, Ends
  <2>2. e # c => pc[e] \in Ends
    BY DEF IInv, CreatedOnce
  <2>3. d # e
    BY <2>1, <2>2
  <2> QED
    BY <1>2, <2>1, <2>3 DEF AuditInv, NothingBeforeCreation
<1>11. ASSUME event.type # "EXPENSE_ADDED", NEW i \in EventsOn(e),
              feed[i].type = "EXPENSE_ADDED"
       PROVE  feed[i].at <= event.at
  <2>1. /\ i \in DOMAIN feed /\ feed[i].at \in Nat /\ feed[i].done \in Nat
        /\ now \in Nat /\ began[c] \in Nat
    BY <1>1, <1>11, EventsInFeed, FeedTimes, TimesTyped
  <2>2. CASE event.type = "EXPENSE_UPDATED"
    <3>1. feed[i].at <= began[c] /\ began[c] <= event.at
      BY <1>11, <2>2 DEF AuditInv, WritersDated
    <3> QED
      BY <2>1, <3>1
  <2>3. CASE event.type = "EXPENSE_DELETED"
    <3>1. feed[i].at <= feed[i].done /\ feed[i].done <= now
      BY <2>1 DEF AuditInv, FeedDated
    <3> QED
      BY <2>1, <2>3, <3>1
  <2> QED
    BY <1>11, <2>2, <2>3
<1>12. FeedDated' /\ WritersDated'
  BY <1>11, DatesKept
<1> QED
  BY <1>7, <1>9, <1>10, <1>12 DEF AuditInv

(* A transaction that records something else than an expense. *)
LEMMA OtherStep ==
  ASSUME IInv, AuditInv, NEW c \in Calls, NEW event, pc[c] = "write",
         End(c, "ok"), feed' = Append(feed, event),
         event.expense = Absent, event.call = c,
         event.at \in Nat, event.at <= now, event.done = now,
         UNCHANGED <<expenses, now, request>>,
         \/ event.type = "SETTLEMENT_ADDED" /\ UNCHANGED members
         \/ /\ event.type = "MEMBER_ADDED"
            /\ request[c].member \notin members
            /\ members' = members \cup {request[c].member}
         \/ /\ event.type = "MEMBER_REMOVED"
            /\ request[c].member \in members
            /\ members' = members \ {request[c].member}
  PROVE  AuditInv'
PROOF
<1>1. StoredTypeOK /\ pc \in [Calls -> Stages]
  BY DEF IInv, TypeOK, HandlersTypeOK
<1>2. /\ \A e \in Calls : EventsOn(e)' = EventsOn(e)
      /\ \A i \in DOMAIN feed : feed'[i] = feed[i]
  BY <1>1, EventsAfterAppend, AbsentAssumption
<1>3. ASSUME NEW d \in Calls PROVE Trail(d)'
  <2>1. Trail(d)
    BY DEF AuditInv
  <2> QED
    BY <1>1, <1>2, <2>1, ExpenseUntouched
<1>4. ASSUME NEW u \in Users PROVE TellsMember(u)'
  <2>1. TellsMember(u)
    BY DEF AuditInv, FeedTellsMembers, TellsMember
  <2>2. CASE event.type # "SETTLEMENT_ADDED" /\ request[c].member = u
    BY <1>1, <2>1, <2>2, MemberRecorded
  <2>3. CASE event.type = "SETTLEMENT_ADDED" \/ request[c].member # u
    <3>1. EventsOf(u)' = EventsOf(u)
      BY <1>1, <2>3, EventsAfterAppend
    <3>2. u \in members' <=> u \in members
      BY <2>3
    <3> QED
      BY <1>1, <1>2, <2>1, <3>1, <3>2, MemberUntouched
  <2> QED
    BY <2>2, <2>3
<1>5. FeedTellsMembers'
  BY <1>4 DEF FeedTellsMembers, TellsMember
<1>6. NothingBeforeCreation'
  BY <1>1, <1>2 DEF AuditInv, NothingBeforeCreation, End, Goto, Ends
<1>7. FeedDated' /\ WritersDated'
  <2>1. event.expense \notin Calls
    BY AbsentAssumption
  <2>2. event.type \notin {"EXPENSE_ADDED", "EXPENSE_DELETED"}
    OBVIOUS
  <2> QED
    BY <2>1, <2>2, DatesKept
<1> QED
  BY <1>3, <1>5, <1>6, <1>7 DEF AuditInv

(* The audit trail is kept by every step of every handler. *)
LEMMA InitAudit == Init => AuditInv
PROOF
<1> SUFFICES ASSUME Init PROVE AuditInv
  OBVIOUS
<1>1. DOMAIN feed = {} /\ DOMAIN expenses = {}
  BY DEF Init, NoRows
<1>2. /\ \A e : EventsOn(e) = {}
      /\ \A u : EventsOf(u) = {}
  BY <1>1 DEF EventsOn, EventsOf
<1>3. \A c \in Calls : pc[c] # "write"
  BY DEF Init
<1> QED
  BY <1>1, <1>2, <1>3 DEF AuditInv, Trail, FeedDated, WritersDated,
                          FeedTellsMembers, NothingBeforeCreation

(* The event of a transaction *)
LEMMA RecordedEvent ==
  ASSUME IInv, NEW c \in Calls, NEW type, NEW expense, NEW total, NEW since \in Nat,
         Record(c, type, expense, total, since)
  PROVE  \E event :
           /\ feed' = Append(feed, event) /\ UNCHANGED now
           /\ event.call = c /\ event.type = type
           /\ event.expense = expense /\ event.total = total
           /\ event.at \in Nat /\ since <= event.at /\ event.at <= now
           /\ event.done = now
PROOF
<1>1. PICK at \in since .. now :
        feed' = Append(feed, Event(c, type, expense, total, at))
  BY DEF Record
<1>2. at \in Nat /\ since <= at /\ at <= now
  BY TimesTyped
<1> DEFINE event == Event(c, type, expense, total, at)
<1>3. /\ event.call = c /\ event.type = type
      /\ event.expense = expense /\ event.total = total
      /\ event.at = at /\ event.done = now
  BY DEF Event
<1>4. UNCHANGED now
  BY DEF Record
<1> HIDE DEF event
<1> QED
  BY <1>1, <1>2, <1>3, <1>4 DEF event

(* Every step keeps what the feed tells. *)
LEMMA NextKeepsAudit == IInv /\ AuditInv /\ [Next]_vars => AuditInv'
PROOF
<1> SUFFICES ASSUME IInv, AuditInv, [Next]_vars PROVE AuditInv'
  OBVIOUS
<1>1. /\ pc \in [Calls -> Stages] /\ request \in [Calls -> Requests]
      /\ StoredTypeOK /\ now \in Nat
  BY DEF IInv, TypeOK, HandlersTypeOK, StoredTypeOK
<1>2. CASE UNCHANGED vars
  <2>1. UNCHANGED <<members, expenses, feed, now, request, pc, began>>
    BY <1>2 DEF vars, dbVars
  <2> QED
    BY <1>1, <2>1, TimePasses
<1>10. CASE Tick
  <2>1. /\ now' = now + 1
        /\ UNCHANGED <<members, expenses, feed, request, pc, began>>
    BY <1>10 DEF Tick
  <2> QED
    BY <1>1, <2>1, TimePasses
<1>11. ASSUME NEW c \in Calls, pc[c] = "write", Fail(c) PROVE AuditInv'
  <2>1. /\ Goto(c, "failed") /\ pc[c] \notin Ends
        /\ UNCHANGED <<members, expenses, feed, now, request>>
    BY <1>11 DEF Fail, End, Ends, dbVars
  <2> QED
    BY <2>1, QuietStep
<1>3. ASSUME NEW c \in Calls, Create(c) PROVE AuditInv'
  <2>0. pc[c] = "write" /\ began[c] \in Nat
    BY <1>3, TimesTyped DEF Create
  <2>1. CASE Fail(c)
    BY <1>11, <2>0, <2>1
  <2>2. CASE ~Fail(c)
    <3>1. /\ End(c, "ok")
          /\ Record(c, "EXPENSE_ADDED", c, draft[c].total, began[c])
          /\ UNCHANGED <<members, request>>
          /\ expenses' = [e \in DOMAIN expenses \cup {c} |->
                            IF e = c THEN draft[c] ELSE expenses[e]]
      BY <1>3, <2>2 DEF Create
    <3>2. PICK event :
            /\ feed' = Append(feed, event) /\ UNCHANGED now
            /\ event.expense = c /\ event.type = "EXPENSE_ADDED"
            /\ event.total = draft[c].total
            /\ event.at \in Nat /\ event.at <= now /\ event.done = now
      BY <2>0, <3>1, RecordedEvent
    <3>3. DOMAIN expenses \in SUBSET Calls
      BY <1>1 DEF StoredTypeOK, AreExpenses
    <3>4. /\ DOMAIN expenses' \in SUBSET Calls
          /\ c \in DOMAIN expenses' /\ expenses'[c].total = draft[c].total
          /\ \A d \in Calls : d # c =>
               /\ d \in DOMAIN expenses' <=> d \in DOMAIN expenses
               /\ d \in DOMAIN expenses => expenses'[d] = expenses[d]
      BY <3>1, <3>3
    <3> QED
      BY <2>0, <3>1, <3>2, <3>4, ExpenseStep
  <2> QED
    BY <2>1, <2>2
<1>4. ASSUME NEW c \in Calls, Update(c) PROVE AuditInv'
  <2>0. pc[c] = "write" /\ Op(c) = "update" /\ began[c] \in Nat
    BY <1>4, TimesTyped DEF Update
  <2>1. CASE Fail(c)
    BY <1>11, <2>0, <2>1
  <2>2. CASE ~Fail(c)
    <3> DEFINE id == request[c].expense
    <3>1. /\ End(c, "ok")
          /\ Record(c, "EXPENSE_UPDATED", id, draft[c].total, began[c])
          /\ UNCHANGED <<members, request>> /\ id \in DOMAIN expenses
          /\ expenses' = [expenses EXCEPT ![id] = draft[c]]
      BY <1>4, <2>2 DEF Update, Stored
    <3>2. PICK event :
            /\ feed' = Append(feed, event) /\ UNCHANGED now
            /\ event.expense = id /\ event.type = "EXPENSE_UPDATED"
            /\ event.total = draft[c].total
            /\ event.at \in Nat /\ began[c] <= event.at /\ event.at <= now
            /\ event.done = now
      BY <2>0, <3>1, RecordedEvent
    <3>3. DOMAIN expenses \in SUBSET Calls
      BY <1>1 DEF StoredTypeOK, AreExpenses
    <3>5. request[c].expense = id
      OBVIOUS
    <3> HIDE DEF id
    <3>4. /\ DOMAIN expenses' \in SUBSET Calls /\ id \in Calls
          /\ id \in DOMAIN expenses' /\ expenses'[id].total = draft[c].total
          /\ \A d \in Calls : d # id =>
               /\ d \in DOMAIN expenses' <=> d \in DOMAIN expenses
               /\ d \in DOMAIN expenses => expenses'[d] = expenses[d]
      BY <3>1, <3>3
    <3> QED
      BY <2>0, <3>1, <3>2, <3>4, <3>5, ExpenseStep
  <2> QED
    BY <2>1, <2>2
<1>5. ASSUME NEW c \in Calls, Delete(c) PROVE AuditInv'
  <2>0. pc[c] = "write"
    BY <1>5 DEF Delete
  <2>1. CASE Fail(c)
    BY <1>11, <2>0, <2>1
  <2>2. CASE ~Fail(c)
    <3> DEFINE id == request[c].expense
    <3>1. /\ End(c, "ok")
          /\ Record(c, "EXPENSE_DELETED", id, expenses[id].total, now)
          /\ UNCHANGED <<members, request>> /\ id \in DOMAIN expenses
          /\ expenses' = Restrict(expenses, DOMAIN expenses \ {id})
      BY <1>5, <2>2 DEF Delete, DeletedTotal
    <3>2. PICK event :
            /\ feed' = Append(feed, event) /\ UNCHANGED now
            /\ event.expense = id /\ event.type = "EXPENSE_DELETED"
            /\ event.total = expenses[id].total
            /\ event.at \in Nat /\ now <= event.at /\ event.at <= now
            /\ event.done = now
      BY <1>1, <3>1, RecordedEvent
    <3>3. DOMAIN expenses \in SUBSET Calls
      BY <1>1 DEF StoredTypeOK, AreExpenses
    <3>5. event.at = now
      BY <1>1, <3>2
    <3> HIDE DEF id
    <3>4. /\ DOMAIN expenses' \in SUBSET Calls /\ id \in Calls
          /\ id \notin DOMAIN expenses'
          /\ \A d \in Calls : d # id =>
               /\ d \in DOMAIN expenses' <=> d \in DOMAIN expenses
               /\ d \in DOMAIN expenses => expenses'[d] = expenses[d]
      BY <3>1, <3>3 DEF Restrict
    <3> QED
      BY <2>0, <3>1, <3>2, <3>4, <3>5, ExpenseStep
  <2> QED
    BY <2>1, <2>2
<1>6. ASSUME NEW c \in Calls, Settle(c) PROVE AuditInv'
  <2>0. pc[c] = "write" /\ began[c] \in Nat
    BY <1>6, TimesTyped DEF Settle
  <2>1. CASE Fail(c)
    BY <1>11, <2>0, <2>1
  <2>2. CASE ~Fail(c)
    <3>1. /\ End(c, "ok")
          /\ Record(c, "SETTLEMENT_ADDED", Absent, request[c].total, began[c])
          /\ UNCHANGED <<members, expenses, request>>
      BY <1>6, <2>2 DEF Settle
    <3>2. PICK event :
            /\ feed' = Append(feed, event) /\ UNCHANGED now
            /\ event.expense = Absent /\ event.call = c
            /\ event.type = "SETTLEMENT_ADDED"
            /\ event.at \in Nat /\ event.at <= now /\ event.done = now
      BY <2>0, <3>1, RecordedEvent
    <3> QED
      BY <2>0, <3>1, <3>2, OtherStep
  <2> QED
    BY <2>1, <2>2
<1>7. ASSUME NEW c \in Calls, Add(c) PROVE AuditInv'
  <2>0. pc[c] = "write" /\ began[c] \in Nat
    BY <1>7, TimesTyped DEF Add
  <2>1. CASE Fail(c)
    BY <1>11, <2>0, <2>1
  <2>2. CASE ~Fail(c)
    <3>1. /\ request[c].member \notin members
          /\ ChangeMembers(c, members \cup {request[c].member}, "MEMBER_ADDED",
                           began[c])
      BY <1>7, <2>2 DEF Add
    <3>2. /\ members' = members \cup {request[c].member}
          /\ Record(c, "MEMBER_ADDED", Absent, Absent, began[c])
          /\ End(c, "ok") /\ UNCHANGED <<expenses, request>>
      BY <3>1 DEF ChangeMembers
    <3>3. PICK event :
            /\ feed' = Append(feed, event) /\ UNCHANGED now
            /\ event.expense = Absent /\ event.call = c
            /\ event.type = "MEMBER_ADDED"
            /\ event.at \in Nat /\ event.at <= now /\ event.done = now
      BY <1>1, <2>0, <3>2, RecordedEvent
    <3> QED
      BY <2>0, <3>1, <3>2, <3>3, OtherStep
  <2> QED
    BY <2>1, <2>2
<1>13. ASSUME NEW c \in Calls, Remove(c) PROVE AuditInv'
  <2>0. pc[c] = "write"
    BY <1>13 DEF Remove
  <2>1. CASE Fail(c)
    BY <1>11, <2>0, <2>1
  <2>2. CASE ~Fail(c)
    <3>1. /\ request[c].member \in members
          /\ ChangeMembers(c, members \ {request[c].member}, "MEMBER_REMOVED",
                           now)
      BY <1>13, <2>2 DEF Remove
    <3>2. /\ members' = members \ {request[c].member}
          /\ Record(c, "MEMBER_REMOVED", Absent, Absent, now)
          /\ End(c, "ok") /\ UNCHANGED <<expenses, request>>
      BY <3>1 DEF ChangeMembers
    <3>3. PICK event :
            /\ feed' = Append(feed, event) /\ UNCHANGED now
            /\ event.expense = Absent /\ event.call = c
            /\ event.type = "MEMBER_REMOVED"
            /\ event.at \in Nat /\ event.at <= now /\ event.done = now
      BY <1>1, <2>0, <3>2, RecordedEvent
    <3> QED
      BY <2>0, <3>1, <3>2, <3>3, OtherStep
  <2> QED
    BY <2>1, <2>2
<1>8. ASSUME NEW c \in Calls, Dissolve(c) PROVE AuditInv'
  <2>0. pc[c] = "write"
    BY <1>8 DEF Dissolve
  <2>1. CASE Fail(c)
    BY <1>11, <2>0, <2>1
  <2>2. CASE ~Fail(c)
    <3>1. /\ DOMAIN feed' = {} /\ DOMAIN expenses' = {}
          /\ End(c, "ok") /\ UNCHANGED <<now, request>>
      BY <1>8, <2>2 DEF Dissolve, NoRows
    <3>2. /\ \A e : EventsOn(e)' = {}
          /\ \A u : EventsOf(u)' = {}
      BY <3>1 DEF EventsOn, EventsOf
    <3>3. WritersDated'
      <4>1. \A d \in Calls : pc'[d] = "write" => pc[d] = "write" /\ began'[d] = began[d]
        BY <1>1, <3>1, TimesTyped DEF End, Goto, IInv, TypeOK, HandlersTypeOK
      <4>2. \A d \in Calls : pc[d] = "write" => began[d] <= now
        BY DEF AuditInv, WritersDated
      <4> QED
        BY <3>1, <3>2, <4>1, <4>2 DEF WritersDated
    <3> QED
      BY <3>1, <3>2, <3>3 DEF AuditInv, Trail, FeedDated, FeedTellsMembers,
                              NothingBeforeCreation
  <2> QED
    BY <2>1, <2>2
<1>9. ASSUME NEW c \in Calls, Handle(c),
             \/ FindGroup(c) \/ FindExpense(c) \/ FindSplits(c)
             \/ PlanCreate(c) \/ PlanUpdate(c) \/ CheckDelete(c) \/ CheckSettle(c)
             \/ FindMembers(c) \/ FindExpenses(c) \/ FindPayments(c)
             \/ CheckMembership(c) \/ Abandon(c)
      PROVE  AuditInv'
  <2>1. UNCHANGED <<members, expenses, feed, now, request>>
    <3>1. CASE Refuse(c) \/ Fail(c)
      BY <3>1 DEF Refuse, Fail, dbVars
    <3>2. CASE \E sight, stage : Read(c, sight, stage)
      BY <3>2 DEF Read, dbVars
    <3>3. CASE FindPayments(c)
      BY <3>3 DEF FindPayments, dbVars
    <3>4. CASE PlanCreate(c) \/ PlanUpdate(c)
      <4>1. \E row, options : Decide(c, row, options)
        BY <3>4 DEF PlanCreate, PlanUpdate
      <4> QED
        BY <3>1, <4>1 DEF Decide, dbVars
    <3> QED
      BY <1>9, <3>1, <3>2, <3>3, <3>4 DEF FindGroup, FindExpense, FindSplits,
         FindMembers, FindExpenses, CheckDelete, CheckSettle, CheckMembership,
         Abandon
  <2>2. pc[c] \notin Ends
    BY <1>9 DEF FindGroup, FindExpense, FindSplits, PlanCreate, PlanUpdate,
                CheckDelete, CheckSettle, FindMembers, FindExpenses,
                FindPayments, CheckMembership, Abandon, Ends
  <2>3. \E stage : Goto(c, stage)
    BY <1>9, HandlerMoves
  <2> QED
    BY <2>1, <2>2, <2>3, QuietStep
<1>12. ASSUME NEW c \in Calls, Handle(c) PROVE AuditInv'
  BY <1>3, <1>4, <1>5, <1>6, <1>7, <1>8, <1>9, <1>12, <1>13 DEF Handle
<1> QED
  BY <1>2, <1>10, <1>12 DEF Next

(* In the order in which the feed is shown, an expense exists exactly when *)
(* it has an event and none is its deletion, its addition is below and its *)
(* deletion above everything else, and the total is that of the newest     *)
(* update or of one that overlapped with the newer ones: whatever updates  *)
(* and deletions race on it.  Each transaction writes the row and the      *)
(* event together and fails when the row is gone, and an update is dated   *)
(* between the read of the expense and its commit.                         *)
THEOREM ExpenseFeedFaithful == Spec => []FeedTellsExpenses
PROOF
<1>1. IInv /\ AuditInv => FeedTellsExpenses
  BY TrailIsShown DEF AuditInv, IInv, TypeOK
<1> QED
  BY <1>1, InitIInv, NextKeepsIInv, InitAudit, NextKeepsAudit, PTL DEF Spec

(* In the order of the commits, additions and removals of a user alternate *)
(* in the feed and the last one says whether the user is a member, also    *)
(* when two requests of the owner add or remove the same user at once.     *)
THEOREM MemberFeedFaithful == Spec => []FeedTellsMembers
PROOF
<1>1. IInv /\ AuditInv => FeedTellsMembers
  BY DEF AuditInv
<1> QED
  BY <1>1, InitIInv, NextKeepsIInv, InitAudit, NextKeepsAudit, PTL DEF Spec
=============================================================================
