----------------------------- MODULE BEP20Proofs -----------------------------
(***************************************************************************)
(* What the operators of BEP20Ops do to balances, for any set of accounts: *)
(* a sum over accounts, as FoldFunction computes it, follows the changes   *)
(* of its summands, a transfer keeps it, and no account holds more than    *)
(* the sum.  Induction is stated of sets instead of predicates.            *)
(***************************************************************************)
EXTENDS BEP20Ops, Functions, FiniteSetTheorems, WellFoundedInduction, TLAPS

(* Induction, and sums over any finite set *)

\* A set of naturals that is not empty has a least element.
LEMMA LeastNat ==
    ASSUME NEW T \in SUBSET Nat, T # {}
    PROVE  \E n \in T : \A m \in T : n <= m
<1>1. PICK n \in T : \A m \in T : ~ (<<m, n>> \in OpToRel(<, Nat))
  BY NatLessThanWellFounded, WFMin
<1>2. \A m \in T : ~ (m < n)
  BY <1>1 DEF OpToRel
<1> QED
  BY <1>2

\* Induction over the naturals, and over the subsets of a finite set, stated of
\* a set instead of a predicate.
LEMMA InductionOnNat ==
    ASSUME NEW G, 0 \in G, \A n \in Nat : n \in G => n + 1 \in G
    PROVE  Nat \subseteq G
<1> DEFINE T == {n \in Nat : n \notin G}
<1> SUFFICES ASSUME T # {} PROVE FALSE
  OBVIOUS
<1>1. PICK n \in T : \A m \in T : n <= m
  BY LeastNat
<1>2. n \in Nat /\ n # 0 /\ n - 1 \in Nat
  OBVIOUS
<1>3. n - 1 \notin T
  BY <1>1, <1>2
<1>4. n - 1 \in G /\ (n - 1) + 1 = n
  BY <1>2, <1>3
<1> QED
  BY <1>2, <1>4

LEMMA InductionOnSubsets ==
    ASSUME NEW A, IsFiniteSet(A), NEW G, {} \in G,
           \A s \in SUBSET A : s # {} /\ (\A x \in s : s \ {x} \in G) => s \in G
    PROVE  SUBSET A \subseteq G
<1> DEFINE bad == {s \in SUBSET A : s \notin G}
           T == {Cardinality(s) : s \in bad}
<1> SUFFICES ASSUME bad # {} PROVE FALSE
  OBVIOUS
<1>1. \A s \in SUBSET A : IsFiniteSet(s) /\ Cardinality(s) \in Nat
  BY FS_Subset, FS_CardinalityType
<1>2. T \in SUBSET Nat /\ T # {}
  BY <1>1
<1>3. PICK s \in bad : \A t \in bad : Cardinality(s) <= Cardinality(t)
  <2>1. PICK n \in T : \A m \in T : n <= m
    <3> HIDE DEF T
    <3> QED
      BY <1>2, LeastNat
  <2> QED
    BY <2>1
<1>4. ASSUME NEW x \in s PROVE s \ {x} \in G
  <2>1. s \ {x} \in SUBSET A
    OBVIOUS
  <2>2. Cardinality(s \ {x}) = Cardinality(s) - 1
    BY <1>1, FS_RemoveElement
  <2>3. s \ {x} \notin bad
    BY <1>1, <1>3, <2>1, <2>2
  <2> QED
    BY <2>1, <2>3
<1> QED
  BY <1>4

\* The sum of f over a finite set, as FoldFunction computes it: Picked is taken
\* from the set, and the rest folded.
Total(f, A) == FoldFunctionOnSet(+, 0, f, A)

Picked(s) == CHOOSE x \in s : TRUE
Unfolded(f, g, s) == IF s = {} THEN 0 ELSE f[Picked(s)] + g[s \ {Picked(s)}]
IsFold(f, A, g) == g = [s \in SUBSET A |-> Unfolded(f, g, s)]

LEMMA PickedIn == \A s : s # {} => Picked(s) \in s
BY DEF Picked

LEMMA TotalIsFold == \A f, A : Total(f, A) = (CHOOSE g : IsFold(f, A, g))[A]
BY DEF Total, FoldFunctionOnSet, MapThenFoldSet, IsFold, Unfolded, Picked

\* The recursion that FoldFunction is defined by has a solution.
LEMMA FoldExists ==
    ASSUME NEW f, NEW A, IsFiniteSet(A)
    PROVE  \E g : IsFold(f, A, g)
<1> DEFINE Small(n) == {s \in SUBSET A : Cardinality(s) <= n}
           Solves(g, n) == \A s \in Small(n) : g[s] = Unfolded(f, g, s)
           G == {n \in Nat : \E g : Solves(g, n)}
<1>0. \A s \in SUBSET A : IsFiniteSet(s) /\ Cardinality(s) \in Nat
  BY FS_Subset, FS_CardinalityType
<1>1. 0 \in G
  <2> DEFINE g == [s \in SUBSET A |-> 0]
  <2>1. \A s \in Small(0) : s = {} /\ g[s] = 0
    BY <1>0, FS_EmptySet
  <2>2. Solves(g, 0)
    BY <2>1 DEF Unfolded
  <2> QED
    BY <2>2
<1>2. ASSUME NEW n \in Nat, n \in G PROVE n + 1 \in G
  <2>1. PICK h : Solves(h, n)
    BY <1>2
  <2> DEFINE g == [s \in SUBSET A |-> Unfolded(f, h, s)]
  <2>2. \A s \in Small(n) : g[s] = h[s]
    BY <2>1
  <2>3. ASSUME NEW s \in Small(n + 1), s # {}
        PROVE  s \ {Picked(s)} \in Small(n)
    <3>1. Picked(s) \in s
      BY <2>3, PickedIn
    <3>2. Cardinality(s \ {Picked(s)}) = Cardinality(s) - 1
      BY <1>0, <3>1, FS_RemoveElement
    <3> QED
      BY <1>0, <3>2
  <2>4. \A s \in Small(n + 1) : g[s] = Unfolded(f, g, s)
    <3>1. ASSUME NEW s \in Small(n + 1) PROVE Unfolded(f, h, s) = Unfolded(f, g, s)
      BY <2>2, <2>3 DEF Unfolded
    <3> QED
      BY <3>1
  <2>5. Solves(g, n + 1)
    BY <2>4
  <2> HIDE DEF Solves, g
  <2> QED
    BY <2>5
<1>3. Cardinality(A) \in G
  <2> HIDE DEF G
  <2>1. Nat \subseteq G
    BY <1>1, <1>2, InductionOnNat
  <2> QED
    BY <1>0, <2>1
<1>4. PICK g : Solves(g, Cardinality(A))
  BY <1>3
<1>5. \A s \in SUBSET A : s \in Small(Cardinality(A))
  BY FS_Subset
<1> DEFINE r == [s \in SUBSET A |-> g[s]]
<1>6. \A s \in SUBSET A : g[s] = Unfolded(f, g, s)
  BY <1>4, <1>5
<1>7. \A s \in SUBSET A : Unfolded(f, g, s) = Unfolded(f, r, s)
  BY PickedIn DEF Unfolded
<1>8. IsFold(f, A, r)
  BY <1>6, <1>7 DEF IsFold
<1> QED
  BY <1>8

\* Two solutions agree wherever both are defined.
LEMMA FoldUnique ==
    ASSUME NEW f, NEW A, IsFiniteSet(A), NEW g, NEW h,
           \A s \in SUBSET A : g[s] = Unfolded(f, g, s),
           \A s \in SUBSET A : h[s] = Unfolded(f, h, s)
    PROVE  g[A] = h[A]
<1> DEFINE G == {s \in SUBSET A : g[s] = h[s]}
<1>1. {} \in G
  BY DEF Unfolded
<1>2. ASSUME NEW s \in SUBSET A, s # {}, \A x \in s : s \ {x} \in G
      PROVE  s \in G
  BY <1>2, PickedIn DEF Unfolded
<1>3. SUBSET A \subseteq G
  <2> HIDE DEF G
  <2> QED
    BY <1>1, <1>2, InductionOnSubsets
<1> QED
  BY <1>3

\* Total takes the elements one by one.
LEMMA TotalUnfolds ==
    ASSUME NEW f, NEW A, IsFiniteSet(A)
    PROVE  Total(f, A) = IF A = {} THEN 0 ELSE f[Picked(A)] + Total(f, A \ {Picked(A)})
<1> DEFINE F(B) == CHOOSE g : IsFold(f, B, g)
<1>1. ASSUME NEW B, IsFiniteSet(B)
      PROVE  \A s \in SUBSET B : F(B)[s] = Unfolded(f, F(B), s)
  <2>1. IsFold(f, B, F(B))
    BY <1>1, FoldExists
  <2> HIDE DEF F
  <2> QED
    BY <2>1 DEF IsFold
<1>2. Total(f, A) = Unfolded(f, F(A), A)
  <2>1. Total(f, A) = F(A)[A]
    BY TotalIsFold
  <2> HIDE DEF F
  <2> QED
    BY <1>1, <2>1
<1>3. CASE A = {}
  BY <1>2, <1>3 DEF Unfolded
<1>4. CASE A # {}
  <2> DEFINE B == A \ {Picked(A)}
  <2>1. IsFiniteSet(B) /\ B \subseteq A
    BY FS_RemoveElement
  <2>2. F(A)[B] = F(B)[B]
    <3> HIDE DEF F, B
    <3>1. \A s \in SUBSET B : F(A)[s] = Unfolded(f, F(A), s)
      BY <1>1, <2>1
    <3>2. \A s \in SUBSET B : F(B)[s] = Unfolded(f, F(B), s)
      BY <1>1, <2>1
    <3> QED
      BY <2>1, <3>1, <3>2, FoldUnique
  <2>3. Total(f, B) = F(B)[B]
    BY TotalIsFold
  <2> HIDE DEF F
  <2> QED
    BY <1>2, <1>4, <2>2, <2>3 DEF Unfolded
<1> QED
  BY <1>3, <1>4

\* A sum of integers is an integer.
LEMMA TotalInt ==
    ASSUME NEW f, NEW A, IsFiniteSet(A), \A x \in A : f[x] \in Int
    PROVE  Total(f, A) \in Int
<1> DEFINE G == {s \in SUBSET A : Total(f, s) \in Int}
<1>0. \A s \in SUBSET A : IsFiniteSet(s)
  BY FS_Subset
<1>1. {} \in G
  <2>1. Total(f, {}) = 0
    BY FS_EmptySet, TotalUnfolds
  <2> QED
    BY <2>1
<1>2. ASSUME NEW s \in SUBSET A, s # {}, \A x \in s : s \ {x} \in G
      PROVE  s \in G
  <2>1. Picked(s) \in s
    BY <1>2, PickedIn
  <2>2. Total(f, s \ {Picked(s)}) \in Int /\ f[Picked(s)] \in Int
    BY <1>2, <2>1
  <2>3. Total(f, s) = f[Picked(s)] + Total(f, s \ {Picked(s)})
    BY <1>0, <1>2, TotalUnfolds
  <2> QED
    BY <2>2, <2>3
<1>3. SUBSET A \subseteq G
  <2> HIDE DEF G
  <2> QED
    BY <1>1, <1>2, InductionOnSubsets
<1> QED
  BY <1>3

\* The order in which the elements are taken does not matter.
LEMMA TotalRemove ==
    ASSUME NEW f, NEW A, IsFiniteSet(A), \A x \in A : f[x] \in Int, NEW a \in A
    PROVE  Total(f, A) = f[a] + Total(f, A \ {a})
<1> DEFINE Any(s) == \A x \in s : Total(f, s) = f[x] + Total(f, s \ {x})
           G == {s \in SUBSET A : Any(s)}
<1>0. \A s \in SUBSET A : IsFiniteSet(s) /\ Total(f, s) \in Int
  BY FS_Subset, TotalInt
<1>1. {} \in G
  OBVIOUS
<1>2. ASSUME NEW s \in SUBSET A, s # {}, \A x \in s : s \ {x} \in G
      PROVE  s \in G
  <2> DEFINE p == Picked(s)
  <2>1. p \in s /\ Total(f, s) = f[p] + Total(f, s \ {p})
    BY <1>0, <1>2, PickedIn, TotalUnfolds
  <2> HIDE DEF p
  <2>2. ASSUME NEW x \in s, x # p
        PROVE  Total(f, s) = f[x] + Total(f, s \ {x})
    <3>1. Total(f, s \ {p}) = f[x] + Total(f, (s \ {p}) \ {x})
      BY <1>2, <2>1, <2>2
    <3>2. Total(f, s \ {x}) = f[p] + Total(f, (s \ {x}) \ {p})
      BY <1>2, <2>1, <2>2
    <3> DEFINE rest == Total(f, (s \ {x}) \ {p})
    <3>3. Total(f, (s \ {p}) \ {x}) = rest
      <4>1. (s \ {p}) \ {x} = (s \ {x}) \ {p}
        OBVIOUS
      <4> QED
        BY <4>1
    <3>4. f[x] \in Int /\ f[p] \in Int /\ rest \in Int
      BY <1>0, <2>1
    <3> HIDE DEF rest, G
    <3>5. f[p] + (f[x] + rest) = f[x] + (f[p] + rest)
      BY <3>4
    <3> QED
      BY <2>1, <3>1, <3>2, <3>3, <3>5
  <2>3. Any(s)
    BY <2>1, <2>2
  <2> QED
    BY <2>3
<1>3. SUBSET A \subseteq G
  <2> HIDE DEF G
  <2> QED
    BY <1>1, <1>2, InductionOnSubsets
<1>4. Any(A)
  BY <1>3
<1> QED
  BY <1>4

\* The sum looks at nothing else than the values on the set.
LEMMA TotalSame ==
    ASSUME NEW f, NEW h, NEW A, IsFiniteSet(A), \A x \in A : f[x] = h[x]
    PROVE  Total(f, A) = Total(h, A)
<1> DEFINE G == {s \in SUBSET A : Total(f, s) = Total(h, s)}
<1>0. \A s \in SUBSET A : IsFiniteSet(s)
  BY FS_Subset
<1>1. {} \in G
  BY <1>0, TotalUnfolds
<1>2. ASSUME NEW s \in SUBSET A, s # {}, \A x \in s : s \ {x} \in G
      PROVE  s \in G
  <2>1. Picked(s) \in s
    BY <1>2, PickedIn
  <2>2. Total(f, s \ {Picked(s)}) = Total(h, s \ {Picked(s)}) /\ f[Picked(s)] = h[Picked(s)]
    BY <1>2, <2>1
  <2>3. /\ Total(f, s) = f[Picked(s)] + Total(f, s \ {Picked(s)})
        /\ Total(h, s) = h[Picked(s)] + Total(h, s \ {Picked(s)})
    BY <1>0, <1>2, TotalUnfolds
  <2> QED
    BY <2>2, <2>3
<1>3. SUBSET A \subseteq G
  <2> HIDE DEF G
  <2> QED
    BY <1>1, <1>2, InductionOnSubsets
<1> QED
  BY <1>3

\* A change at one element changes the sum by as much.
LEMMA TotalUpdate ==
    ASSUME NEW A, IsFiniteSet(A), NEW f \in [A -> Int], NEW h \in [A -> Int],
           NEW a \in A, \A x \in A \ {a} : h[x] = f[x]
    PROVE  Total(h, A) = Total(f, A) + (h[a] - f[a])
<1>1. /\ Total(f, A) = f[a] + Total(f, A \ {a})
      /\ Total(h, A) = h[a] + Total(h, A \ {a})
  BY TotalRemove
<1>2. IsFiniteSet(A \ {a})
  BY FS_RemoveElement
<1>3. Total(h, A \ {a}) = Total(f, A \ {a})
  BY <1>2, TotalSame
<1>4. Total(f, A \ {a}) \in Int
  BY <1>2, TotalInt
<1> QED
  BY <1>1, <1>3, <1>4

\* The code writes one balance at a time.
LEMMA TotalWritten ==
    ASSUME NEW A, IsFiniteSet(A), NEW f \in [A -> Int], NEW a \in A, NEW d \in Int
    PROVE  Total([f EXCEPT ![a] = @ + d], A) = Total(f, A) + d
<1> DEFINE h == [f EXCEPT ![a] = @ + d]
<1>1. /\ h \in [A -> Int] /\ h[a] - f[a] = d
      /\ \A x \in A \ {a} : h[x] = f[x]
  OBVIOUS
<1> HIDE DEF h
<1>2. Total(h, A) = Total(f, A) + (h[a] - f[a])
  BY <1>1, TotalUpdate
<1> QED
  BY <1>1, <1>2 DEF h

\* A sum of zeros.
LEMMA TotalZero ==
    ASSUME NEW f, NEW A, IsFiniteSet(A), \A x \in A : f[x] = 0
    PROVE  Total(f, A) = 0
<1> DEFINE G == {s \in SUBSET A : Total(f, s) = 0}
<1>0. \A s \in SUBSET A : IsFiniteSet(s)
  BY FS_Subset
<1>1. {} \in G
  BY <1>0, TotalUnfolds
<1>2. ASSUME NEW s \in SUBSET A, s # {}, \A x \in s : s \ {x} \in G
      PROVE  s \in G
  <2>1. Picked(s) \in s
    BY <1>2, PickedIn
  <2>2. Total(f, s \ {Picked(s)}) = 0 /\ f[Picked(s)] = 0
    BY <1>2, <2>1
  <2>3. Total(f, s) = f[Picked(s)] + Total(f, s \ {Picked(s)})
    BY <1>0, <1>2, TotalUnfolds
  <2> QED
    BY <2>2, <2>3
<1>3. SUBSET A \subseteq G
  <2> HIDE DEF G
  <2> QED
    BY <1>1, <1>2, InductionOnSubsets
<1> QED
  BY <1>3

\* Nobody, and no two accounts together, hold more than there is.
LEMMA TotalNat ==
    ASSUME NEW A, IsFiniteSet(A), NEW f, \A x \in A : f[x] \in Nat
    PROVE  Total(f, A) \in Nat
<1> DEFINE G == {s \in SUBSET A : Total(f, s) \in Nat}
<1>0. \A s \in SUBSET A : IsFiniteSet(s)
  BY FS_Subset
<1>1. {} \in G
  <2>1. Total(f, {}) = 0
    BY FS_EmptySet, TotalUnfolds
  <2> QED
    BY <2>1
<1>2. ASSUME NEW s \in SUBSET A, s # {}, \A x \in s : s \ {x} \in G
      PROVE  s \in G
  <2>1. Picked(s) \in s
    BY <1>2, PickedIn
  <2>2. Total(f, s \ {Picked(s)}) \in Nat /\ f[Picked(s)] \in Nat
    BY <1>2, <2>1
  <2>3. Total(f, s) = f[Picked(s)] + Total(f, s \ {Picked(s)})
    BY <1>0, <1>2, TotalUnfolds
  <2> QED
    BY <2>2, <2>3
<1>3. SUBSET A \subseteq G
  <2> HIDE DEF G
  <2> QED
    BY <1>1, <1>2, InductionOnSubsets
<1> QED
  BY <1>3

LEMMA WithinTotal ==
    ASSUME NEW A, IsFiniteSet(A), NEW f \in [A -> Nat]
    PROVE  /\ \A a \in A : f[a] <= Total(f, A)
           /\ \A a, b \in A : a # b => f[a] + f[b] <= Total(f, A)
<1>1. ASSUME NEW a \in A
      PROVE  /\ IsFiniteSet(A \ {a})
             /\ Total(f, A \ {a}) \in Nat
             /\ Total(f, A) = f[a] + Total(f, A \ {a})
             /\ f[a] <= Total(f, A)
  <2>1. IsFiniteSet(A \ {a})
    BY FS_RemoveElement
  <2>2. Total(f, A \ {a}) \in Nat
    BY <2>1, TotalNat
  <2>3. Total(f, A) = f[a] + Total(f, A \ {a})
    <3>1. \A x \in A : f[x] \in Int
      OBVIOUS
    <3> QED
      BY <3>1, TotalRemove
  <2> QED
    BY <2>1, <2>2, <2>3
<1>2. ASSUME NEW a \in A, NEW b \in A, a # b
      PROVE  f[a] + f[b] <= Total(f, A)
  <2>1. Total(f, A \ {a}) = f[b] + Total(f, (A \ {a}) \ {b})
    <3>1. b \in A \ {a} /\ \A x \in A \ {a} : f[x] \in Int
      BY <1>2
    <3> QED
      BY <1>1, <3>1, TotalRemove
  <2>2. Total(f, (A \ {a}) \ {b}) \in Nat
    <3>1. IsFiniteSet((A \ {a}) \ {b})
      BY <1>1, FS_RemoveElement
    <3> QED
      BY <3>1, TotalNat
  <2>3. Total(f, A) = f[a] + Total(f, A \ {a})
    BY <1>1
  <2> QED
    BY <2>1, <2>2, <2>3
<1> QED
  BY <1>1, <1>2

\* FoldFunction over balances is their total.
LEMMA FoldIsTotal ==
    ASSUME NEW S, NEW bal \in [S -> Int]
    PROVE  FoldFunction(+, 0, bal) = Total(bal, S)
<1>1. DOMAIN bal = S
  OBVIOUS
<1> QED
  BY <1>1 DEF FoldFunction, Total

-----------------------------------------------------------------------------
(* Balances *)

\* A transfer that does not revert yields balances, changes no third one, and
\* moves exactly the amount between two different accounts.
LEMMA MovedFacts ==
    ASSUME NEW S, NEW bal \in [S -> Uint], NEW from \in S, NEW to \in S,
           NEW amount \in Nat, CanMove(bal, from, to, amount)
    PROVE  /\ Moved(bal, from, to, amount) \in [S -> Uint]
           /\ \A a \in S \ {from, to} : Moved(bal, from, to, amount)[a] = bal[a]
           /\ from # to => Moved(bal, from, to, amount)[from] = bal[from] - amount
           /\ from # to => Moved(bal, from, to, amount)[to] = bal[to] + amount
           /\ from = to => Moved(bal, from, to, amount)[to] = bal[to]
<1>1. MaxUint \in Nat /\ bal[from] \in Uint /\ bal[to] \in Uint
  BY Width
<1>2. CASE from = to
  BY <1>1, <1>2 DEF CanMove, Moved, Uint
<1>3. CASE from # to
  <2>1. bal[from] - amount \in Uint /\ bal[to] + amount \in Uint
    BY <1>1, <1>3 DEF CanMove, Uint
  <2> QED
    BY <1>3, <2>1 DEF Moved
<1> QED
  BY <1>2, <1>3

\* A transfer, to oneself too, leaves the total as it is.
LEMMA MovedKeepsTotal ==
    ASSUME NEW S, IsFiniteSet(S), NEW bal \in [S -> Uint], NEW from \in S, NEW to \in S,
           NEW amount \in Nat
    PROVE  Total(Moved(bal, from, to, amount), S) = Total(bal, S)
<1> DEFINE debited == [bal EXCEPT ![from] = @ - amount]
           moved == [debited EXCEPT ![to] = @ + amount]
<1>1. bal \in [S -> Int] /\ bal[from] \in Int
  BY DEF Uint
<1>2. /\ debited \in [S -> Int]
      /\ debited[from] - bal[from] = -amount
      /\ \A x \in S \ {from} : debited[x] = bal[x]
  BY <1>1
<1>3. moved = Moved(bal, from, to, amount)
  BY DEF Moved
<1>4. /\ moved \in [S -> Int]
      /\ moved[to] - debited[to] = amount
      /\ \A x \in S \ {to} : moved[x] = debited[x]
  <2> HIDE DEF debited
  <2>1. debited[to] \in Int
    BY <1>2
  <2> QED
    BY <1>2, <2>1
<1> HIDE DEF debited, moved
<1>5. Total(debited, S) = Total(bal, S) + (debited[from] - bal[from])
  BY <1>1, <1>2, TotalUpdate
<1>6. Total(moved, S) = Total(debited, S) + (moved[to] - debited[to])
  BY <1>2, <1>4, TotalUpdate
<1>7. Total(bal, S) \in Int
  BY <1>1, TotalInt
<1> QED
  BY <1>2, <1>3, <1>4, <1>5, <1>6, <1>7

=============================================================================
