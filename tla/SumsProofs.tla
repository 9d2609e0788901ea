------------------------------ MODULE SumsProofs ------------------------------
(* Totals of naturals, as MapThenSumSet computes them, over any finite set; *)
(* and powers of two.                                                       *)
EXTENDS Sums, FiniteSetTheorems, WellFoundedInduction, TLAPS

(* The subsets of a finite set have minimal ones among them. *)
LEMMA MinimalSubset ==
  ASSUME NEW T, IsFiniteSet(T), NEW Bad \in SUBSET (SUBSET T), Bad # {}
  PROVE  \E U \in Bad : \A V \in Bad : V \subseteq U => V = U
<1>1. Bad \subseteq FiniteSubsetsOf(T)
  BY FS_FiniteSubsetsOfFinite DEF FiniteSubsetsOf
<1>2. PICK U \in Bad : \A V \in Bad : ~(<<V, U>> \in StrictSubsetOrdering(T))
  BY <1>1, FS_StrictSubsetOrderingWellFounded, WFMin, Zenon
<1>3. \A V \in Bad : V \subseteq U => V = U
  BY <1>2 DEF StrictSubsetOrdering
<1> QED
  BY <1>3

(* The element a total takes next, and the equation of a total's function. *)
Taken(S) == CHOOSE x \in S : TRUE
Totals(f, values, T) ==
  f = [S \in SUBSET T |-> IF S = {} THEN 0 ELSE values[Taken(S)] + f[S \ {Taken(S)}]]

(* A total takes an element of its set. *)
LEMMA TakenIn == ASSUME NEW S, S # {} PROVE Taken(S) \in S
BY DEF Taken

(* Total by its equation. *)
LEMMA TotalIs ==
  ASSUME NEW values, NEW T
  PROVE  Total(values, T) = (CHOOSE f : Totals(f, values, T))[T]
BY DEF Total, MapThenSumSet, MapThenFoldSet, Totals, Taken

(* What the equation says of one subset. *)
LEMMA TotalsAt ==
  ASSUME NEW f, NEW values, NEW T, Totals(f, values, T), NEW S \in SUBSET T
  PROVE  f[S] = IF S = {} THEN 0 ELSE values[Taken(S)] + f[S \ {Taken(S)}]
<1>1. f = [R \in SUBSET T |-> IF R = {} THEN 0 ELSE values[Taken(R)] + f[R \ {Taken(R)}]]
  BY DEF Totals
<1> DEFINE step(R) == IF R = {} THEN 0 ELSE values[Taken(R)] + f[R \ {Taken(R)}]
<1>2. f = [R \in SUBSET T |-> step(R)]
  BY <1>1
<1> HIDE DEF step
<1>3. f[S] = step(S)
  BY <1>2
<1> QED
  BY <1>3 DEF step

(* It has one solution at most, whichever set it is stated for. *)
LEMMA TotalsAgree ==
  ASSUME NEW values, NEW T, IsFiniteSet(T), NEW U, NEW f, NEW g,
         Totals(f, values, T), Totals(g, values, U),
         NEW S \in SUBSET (T \cap U)
  PROVE  f[S] = g[S]
<1> DEFINE Bad == {R \in SUBSET (T \cap U) : f[R] # g[R]}
<1> SUFFICES ASSUME Bad # {} PROVE FALSE
  OBVIOUS
<1>1. Bad \in SUBSET (SUBSET T)
  OBVIOUS
<1>2. PICK R \in Bad : \A V \in Bad : V \subseteq R => V = R
  <2> HIDE DEF Bad
  <2> QED
    BY <1>1, MinimalSubset
<1>3. R \in SUBSET T /\ R \in SUBSET U
  BY <1>2
<1>4. /\ f[R] = IF R = {} THEN 0 ELSE values[Taken(R)] + f[R \ {Taken(R)}]
      /\ g[R] = IF R = {} THEN 0 ELSE values[Taken(R)] + g[R \ {Taken(R)}]
  BY <1>3, TotalsAt
<1>5. R # {}
  BY <1>2, <1>4
<1>6. R \ {Taken(R)} \notin Bad
  BY <1>2, <1>5, TakenIn
<1>7. f[R \ {Taken(R)}] = g[R \ {Taken(R)}]
  BY <1>3, <1>6
<1> QED
  BY <1>2, <1>4, <1>5, <1>7

(* And it has one for every finite set. *)
LEMMA TotalsExist ==
  ASSUME NEW values, NEW T, IsFiniteSet(T)
  PROVE  \E f : Totals(f, values, T)
<1> DEFINE Has(S) == \E f : Totals(f, values, S)
           Bad == {S \in SUBSET T : ~Has(S)}
           F(S) == CHOOSE f : Totals(f, values, S)
<1>1. ASSUME NEW U \in SUBSET T, \A S \in SUBSET U : S # U => Has(S)
      PROVE  Has(U)
  <2> DEFINE step(S) == IF S = {} THEN 0
                        ELSE values[Taken(S)] + F(S \ {Taken(S)})[S \ {Taken(S)}]
             g == [S \in SUBSET U |-> step(S)]
  <2>1. ASSUME NEW S \in SUBSET U, S # U PROVE Totals(F(S), values, S) /\ IsFiniteSet(S)
    <3>1. Has(S)
      BY <1>1, <2>1
    <3> QED
      BY <3>1, FS_Subset
  <2> HIDE DEF F
  <2>2. ASSUME NEW S \in SUBSET U, S # U PROVE step(S) = F(S)[S]
    <3>1. F(S)[S] = IF S = {} THEN 0 ELSE values[Taken(S)] + F(S)[S \ {Taken(S)}]
      BY <2>1, <2>2, TotalsAt
    <3>2. CASE S = {}
      BY <3>1, <3>2
    <3>3. CASE S # {}
      <4>1. /\ S \ {Taken(S)} \in SUBSET U /\ S \ {Taken(S)} # U
            /\ S \ {Taken(S)} \in SUBSET (S \cap (S \ {Taken(S)}))
        BY <3>3, TakenIn
      <4> DEFINE R == S \ {Taken(S)}
      <4>2. /\ Totals(F(R), values, R) /\ Totals(F(S), values, S) /\ IsFiniteSet(S)
        BY <2>1, <2>2, <4>1
      <4> HIDE DEF R
      <4>3. R \in SUBSET (S \cap R)
        BY <4>1 DEF R
      <4>4. F(S)[R] = F(R)[R]
        BY <4>2, <4>3, TotalsAgree
      <4> QED
        BY <3>1, <3>3, <4>4 DEF R
    <3> QED
      BY <3>2, <3>3
  <2>3. ASSUME NEW S \in SUBSET U, S # {} PROVE g[S \ {Taken(S)}] = F(S \ {Taken(S)})[S \ {Taken(S)}]
    <3>1. S \ {Taken(S)} \in SUBSET U /\ S \ {Taken(S)} # U
      BY <2>3, TakenIn
    <3>2. step(S \ {Taken(S)}) = F(S \ {Taken(S)})[S \ {Taken(S)}]
      BY <2>2, <3>1
    <3> HIDE DEF step
    <3>3. g[S \ {Taken(S)}] = step(S \ {Taken(S)})
      BY <3>1
    <3> QED
      BY <3>2, <3>3
  <2>4. \A S \in SUBSET U :
          step(S) = IF S = {} THEN 0 ELSE values[Taken(S)] + g[S \ {Taken(S)}]
    <3> HIDE DEF g
    <3> QED
      BY <2>3
  <2>5. g = [S \in SUBSET U |-> IF S = {} THEN 0 ELSE values[Taken(S)] + g[S \ {Taken(S)}]]
    BY <2>4, Zenon
  <2>6. Totals(g, values, U)
    BY <2>5 DEF Totals
  <2> QED
    BY <2>6
<1> HIDE DEF Has
<1>2. Bad = {}
  <2> SUFFICES ASSUME Bad # {} PROVE FALSE
    OBVIOUS
  <2>1. PICK U \in Bad : \A V \in Bad : V \subseteq U => V = U
    <3>1. Bad \in SUBSET (SUBSET T)
      OBVIOUS
    <3> HIDE DEF Bad
    <3> QED
      BY <3>1, MinimalSubset
  <2>2. U \in SUBSET T /\ \A S \in SUBSET U : S # U => Has(S)
    BY <2>1
  <2> QED
    BY <1>1, <2>1, <2>2
<1>3. Has(T)
  BY <1>2
<1> QED
  BY <1>3 DEF Has

(* A total takes one element after the other. *)
LEMMA TotalStep ==
  ASSUME NEW values, NEW T, IsFiniteSet(T)
  PROVE  Total(values, T) = IF T = {} THEN 0
                           ELSE values[Taken(T)] + Total(values, T \ {Taken(T)})
<1> DEFINE F(S) == CHOOSE f : Totals(f, values, S)
           R == T \ {Taken(T)}
<1>1. IsFiniteSet(R)
  BY FS_Subset
<1>2. Totals(F(T), values, T) /\ Totals(F(R), values, R)
  <2> HIDE DEF R
  <2> QED
    BY <1>1, TotalsExist
<1>3. Total(values, T) = F(T)[T] /\ Total(values, R) = F(R)[R]
  <2> HIDE DEF R
  <2> QED
    BY TotalIs
<1> HIDE DEF F
<1>4. F(T)[T] = IF T = {} THEN 0 ELSE values[Taken(T)] + F(T)[R]
  BY <1>2, TotalsAt
<1>5. F(T)[R] = F(R)[R]
  <2>1. R \in SUBSET (T \cap R)
    OBVIOUS
  <2> HIDE DEF R
  <2> QED
    BY <1>2, <2>1, TotalsAgree
<1> QED
  BY <1>3, <1>4, <1>5

(* The total of naturals is a natural. *)
LEMMA TotalType ==
  ASSUME NEW X, NEW values \in [X -> Nat], NEW T \in SUBSET X, IsFiniteSet(T)
  PROVE  Total(values, T) \in Nat
<1> DEFINE Bad == {S \in SUBSET T : Total(values, S) \notin Nat}
<1> SUFFICES ASSUME Bad # {} PROVE FALSE
  OBVIOUS
<1>1. PICK U \in Bad : \A V \in Bad : V \subseteq U => V = U
  <2>1. Bad \in SUBSET (SUBSET T)
    OBVIOUS
  <2> HIDE DEF Bad
  <2> QED
    BY <2>1, MinimalSubset
<1>2. U \in SUBSET T /\ IsFiniteSet(U) /\ Total(values, U) \notin Nat
  BY <1>1, FS_Subset
<1>3. Total(values, U) = IF U = {} THEN 0 ELSE values[Taken(U)] + Total(values, U \ {Taken(U)})
  BY <1>2, TotalStep
<1>4. U # {} /\ Taken(U) \in U
  BY <1>2, <1>3, TakenIn
<1>5. U \ {Taken(U)} \notin Bad
  BY <1>1, <1>4
<1>6. Total(values, U \ {Taken(U)}) \in Nat
  BY <1>2, <1>5
<1>7. values[Taken(U)] \in Nat
  BY <1>2, <1>4
<1> QED
  BY <1>2, <1>3, <1>4, <1>6, <1>7

(* Any element may be taken first. *)
LEMMA TotalSplit ==
  ASSUME NEW X, NEW values \in [X -> Nat], NEW T \in SUBSET X, IsFiniteSet(T), NEW s \in T
  PROVE  Total(values, T) = values[s] + Total(values, T \ {s})
<1> DEFINE Splits(S, r) == Total(values, S) = values[r] + Total(values, S \ {r})
           Bad == {S \in SUBSET T : \E r \in S : ~Splits(S, r)}
<1>1. Bad = {}
  <2> SUFFICES ASSUME Bad # {} PROVE FALSE
    OBVIOUS
  <2>1. PICK U \in Bad : \A V \in Bad : V \subseteq U => V = U
    <3>1. Bad \in SUBSET (SUBSET T)
      OBVIOUS
    <3> HIDE DEF Bad
    <3> QED
      BY <3>1, MinimalSubset
  <2>2. PICK r \in U : ~Splits(U, r)
    BY <2>1
  <2>3. U \in SUBSET T /\ IsFiniteSet(U)
    BY <2>1, FS_Subset
  <2> DEFINE x == Taken(U)
  <2>4. x \in U
    BY <2>2, TakenIn
  <2>5. Total(values, U) = values[x] + Total(values, U \ {x})
    BY <2>2, <2>3, TotalStep
  <2> HIDE DEF x
  <2>6. x # r
    BY <2>2, <2>5
  <2>7. U \ {x} \notin Bad /\ U \ {r} \notin Bad
    BY <2>1, <2>2, <2>4
  <2> DEFINE rest == Total(values, (U \ {x}) \ {r})
  <2>8. Total(values, U \ {x}) = values[r] + rest
    BY <2>2, <2>3, <2>6, <2>7
  <2>9. Total(values, U \ {r}) = values[x] + rest
    <3>1. (U \ {r}) \ {x} = (U \ {x}) \ {r}
      OBVIOUS
    <3>2. Total(values, U \ {r}) = values[x] + Total(values, (U \ {r}) \ {x})
      BY <2>3, <2>4, <2>6, <2>7
    <3> QED
      BY <3>1, <3>2
  <2>10. rest \in Nat /\ values[x] \in Nat /\ values[r] \in Nat
    <3>1. (U \ {x}) \ {r} \in SUBSET X /\ IsFiniteSet((U \ {x}) \ {r})
      BY <2>3, FS_Subset
    <3> QED
      BY <2>2, <2>3, <2>4, <3>1, TotalType
  <2> HIDE DEF rest
  <2>11. Total(values, U) = values[r] + Total(values, U \ {r})
    BY <2>5, <2>8, <2>9, <2>10
  <2> QED
    BY <2>2, <2>11
<1>2. T \notin Bad
  BY <1>1
<1> QED
  BY <1>2

(* A total depends on the values in its set alone. *)
LEMMA TotalSame ==
  ASSUME NEW T, IsFiniteSet(T), NEW f, NEW g, \A s \in T : f[s] = g[s]
  PROVE  Total(f, T) = Total(g, T)
<1> DEFINE Bad == {S \in SUBSET T : Total(f, S) # Total(g, S)}
<1>1. Bad = {}
  <2> SUFFICES ASSUME Bad # {} PROVE FALSE
    OBVIOUS
  <2>1. PICK U \in Bad : \A V \in Bad : V \subseteq U => V = U
    <3>1. Bad \in SUBSET (SUBSET T)
      OBVIOUS
    <3> HIDE DEF Bad
    <3> QED
      BY <3>1, MinimalSubset
  <2>2. U \in SUBSET T /\ IsFiniteSet(U) /\ Total(f, U) # Total(g, U)
    BY <2>1, FS_Subset
  <2>3. /\ Total(f, U) = IF U = {} THEN 0 ELSE f[Taken(U)] + Total(f, U \ {Taken(U)})
        /\ Total(g, U) = IF U = {} THEN 0 ELSE g[Taken(U)] + Total(g, U \ {Taken(U)})
    BY <2>2, TotalStep
  <2>4. U # {} /\ Taken(U) \in U
    BY <2>2, <2>3, TakenIn
  <2>5. U \ {Taken(U)} \notin Bad
    BY <2>1, <2>4
  <2>6. Total(f, U \ {Taken(U)}) = Total(g, U \ {Taken(U)})
    BY <2>2, <2>5
  <2>7. f[Taken(U)] = g[Taken(U)]
    BY <2>2, <2>4
  <2> QED
    BY <2>2, <2>3, <2>4, <2>6, <2>7
<1> QED
  BY <1>1

(* A change of one value changes the total by as much. *)
LEMMA TotalChange ==
  ASSUME NEW T, IsFiniteSet(T), NEW f \in [T -> Nat], NEW g \in [T -> Nat], NEW s \in T,
         \A r \in T \ {s} : f[r] = g[r]
  PROVE  /\ Total(f, T) \in Nat /\ Total(f, T) >= f[s]
         /\ Total(g, T) = Total(f, T) - f[s] + g[s]
<1> DEFINE R == T \ {s}
<1>1. IsFiniteSet(R) /\ R \in SUBSET T
  BY FS_Subset
<1>2. Total(f, T) = f[s] + Total(f, R) /\ Total(g, T) = g[s] + Total(g, R)
  BY TotalSplit
<1>3. \A r \in R : f[r] = g[r]
  OBVIOUS
<1> HIDE DEF R
<1>4. Total(f, R) = Total(g, R)
  BY <1>1, <1>3, TotalSame
<1>5. Total(f, R) \in Nat
  BY <1>1, TotalType
<1> QED
  BY <1>2, <1>4, <1>5

(* A total of nothing but zeros is zero. *)
LEMMA TotalZero ==
  ASSUME NEW T, IsFiniteSet(T), NEW f, \A s \in T : f[s] = 0
  PROVE  Total(f, T) = 0
<1> DEFINE Bad == {S \in SUBSET T : Total(f, S) # 0}
<1>1. Bad = {}
  <2> SUFFICES ASSUME Bad # {} PROVE FALSE
    OBVIOUS
  <2>1. PICK U \in Bad : \A V \in Bad : V \subseteq U => V = U
    <3>1. Bad \in SUBSET (SUBSET T)
      OBVIOUS
    <3> HIDE DEF Bad
    <3> QED
      BY <3>1, MinimalSubset
  <2>2. U \in SUBSET T /\ IsFiniteSet(U) /\ Total(f, U) # 0
    BY <2>1, FS_Subset
  <2>3. Total(f, U) = IF U = {} THEN 0 ELSE f[Taken(U)] + Total(f, U \ {Taken(U)})
    BY <2>2, TotalStep
  <2>4. U # {} /\ Taken(U) \in U
    BY <2>2, <2>3, TakenIn
  <2>5. U \ {Taken(U)} \notin Bad
    BY <2>1, <2>4
  <2>6. Total(f, U \ {Taken(U)}) = 0
    BY <2>2, <2>5
  <2>7. f[Taken(U)] = 0
    BY <2>2, <2>4
  <2> QED
    BY <2>2, <2>3, <2>4, <2>6, <2>7
<1> QED
  BY <1>1

-----------------------------------------------------------------------------
(* Powers of two, by the subsets they count *)

(* A power of two is a positive natural. *)
LEMMA PowerType ==
  ASSUME NEW n \in Nat
  PROVE  2^n \in Nat /\ 2^n >= 1
<1> DEFINE S == 1..n
<1>1. IsFiniteSet(S) /\ Cardinality(S) = n
  BY FS_Interval
<1> HIDE DEF S
<1>2. /\ IsFiniteSet(SUBSET S) /\ Cardinality(SUBSET S) = 2^n
      /\ Cardinality(SUBSET S) \in Nat
  BY <1>1, FS_SUBSET, FS_CardinalityType
<1>3. Cardinality(SUBSET S) # 0
  <2>1. {} \in SUBSET S
    OBVIOUS
  <2> QED
    BY <1>2, <2>1, FS_EmptySet
<1> QED
  BY <1>2, <1>3

(* Each power of two is twice the one before: the subsets of n + 1 elements *)
(* are those of the first n, without and with the last.                     *)
LEMMA PowerStep ==
  ASSUME NEW n \in Nat
  PROVE  2^(n + 1) = 2^n + 2^n
<1> DEFINE S == 1..n
           x == n + 1
           A == SUBSET S
           B == {T \cup {x} : T \in A}
<1>1. /\ IsFiniteSet(S) /\ Cardinality(S) = n /\ x \notin S
      /\ IsFiniteSet(S \cup {x}) /\ Cardinality(S \cup {x}) = n + 1
  <2>1. IsFiniteSet(S) /\ Cardinality(S) = n /\ x \notin S
    BY FS_Interval
  <2> HIDE DEF S, x
  <2>2. IsFiniteSet(S \cup {x}) /\ Cardinality(S \cup {x}) = n + 1
    BY <2>1, FS_AddElement
  <2> QED
    BY <2>1, <2>2
<1> HIDE DEF S, x
<1>2. IsFiniteSet(A) /\ Cardinality(A) = 2^n
  BY <1>1, FS_SUBSET
<1>3. Cardinality(SUBSET (S \cup {x})) = 2^(n + 1)
  BY <1>1, FS_SUBSET
<1>4. SUBSET (S \cup {x}) = A \cup B
  <2>1. ASSUME NEW T \in SUBSET (S \cup {x}), x \in T PROVE T \in B
    <3>1. T \ {x} \in A /\ T = (T \ {x}) \cup {x}
      BY <2>1
    <3> QED
      BY <3>1
  <2>2. ASSUME NEW T \in SUBSET (S \cup {x}), x \notin T PROVE T \in A
    BY <2>2
  <2> QED
    BY <2>1, <2>2
<1>5. A \cap B = {}
  BY <1>1
<1>6. IsFiniteSet(B) /\ Cardinality(B) = Cardinality(A)
  <2> DEFINE f == [T \in A |-> T \cup {x}]
  <2>1. f \in [A -> B]
    OBVIOUS
  <2>2. \A T, U \in A : f[T] = f[U] => T = U
    <3>1. ASSUME NEW T \in A, NEW U \in A, T \cup {x} = U \cup {x} PROVE T = U
      <4>1. T = (T \cup {x}) \ {x} /\ U = (U \cup {x}) \ {x}
        BY <1>1
      <4> QED
        BY <3>1, <4>1
    <3> QED
      BY <3>1
  <2>3. \A V \in B : \E T \in A : f[T] = V
    OBVIOUS
  <2> HIDE DEF f
  <2>4. f \in Bijection(A, B)
    <3> HIDE DEF A, B
    <3>1. DOMAIN f = A
      BY <2>1
    <3>2. IsInjective(f)
      BY <2>2, <3>1 DEF IsInjective
    <3> QED
      BY <2>1, <2>3, <3>2 DEF Bijection, Injection, Surjection
  <2>5. ExistsBijection(A, B)
    BY <2>4 DEF ExistsBijection
  <2> HIDE DEF A, B
  <2> QED
    BY <1>2, <2>5, FS_Bijection
<1> HIDE DEF A, B
<1>7. Cardinality(A \cup B) = 2^n + 2^n - Cardinality({})
  BY <1>2, <1>5, <1>6, FS_Union
<1>8. 2^n \in Nat /\ Cardinality({}) = 0
  BY PowerType, FS_EmptySet
<1> DEFINE power == 2^n
<1>9. 2^(n + 1) = power + power - 0
  BY <1>3, <1>4, <1>7, <1>8
<1> HIDE DEF power
<1>10. power \in Nat
  BY <1>8 DEF power
<1>11. 2^(n + 1) = power + power
  BY <1>9, <1>10
<1> QED
  BY <1>11 DEF power
=============================================================================
