---------------------------- MODULE Ledger_proofs ----------------------------
(***************************************************************************)
(* What one posting does to a balance sheet, for any accounts and amounts, *)
(* and to the sum of its balances.  The sum is a fold over the accounts in *)
(* an unspecified order; the lemmas about it are by induction over sets.   *)
(***************************************************************************)
EXTENDS Ledger, FiniteSetsExt, FiniteSetTheorems, WellFoundedInduction, TLAPS

Solvent(sheet, A) == \A a \in A : sheet[a] >= 0

\* A posting yields a balance sheet over the same accounts.
LEMMA TransferType ==
    ASSUME NEW A, NEW sheet \in [A -> Int], NEW from \in A, NEW to \in A,
           NEW amount \in Int
    PROVE  Transfer(sheet, from, to, amount) \in [A -> Int]
BY DEF Transfer

\* The value of every account after a transfer between two different accounts.
LEMMA TransferValues ==
    ASSUME NEW A, NEW sheet \in [A -> Int], NEW from \in A, NEW to \in A,
           NEW amount \in Int, from # to
    PROVE  /\ Transfer(sheet, from, to, amount)[from] = sheet[from] - amount
           /\ Transfer(sheet, from, to, amount)[to] = sheet[to] + amount
           /\ \A a \in A \ {from, to} :
                Transfer(sheet, from, to, amount)[a] = sheet[a]
BY DEF Transfer

\* A transfer its source covers overdraws nothing.
LEMMA TransferSolvent ==
    ASSUME NEW A, NEW sheet \in [A -> Int], NEW from \in A, NEW to \in A,
           NEW amount \in Nat, Solvent(sheet, A), Covers(sheet, from, amount)
    PROVE  Solvent(Transfer(sheet, from, to, amount), A)
BY DEF Transfer, Solvent, Covers

\* Issuing credits keeps a balance sheet and overdraws nothing.
LEMMA IssueSolvent ==
    ASSUME NEW A, NEW sheet \in [A -> Int], NEW to \in A, NEW amount \in Nat,
           Solvent(sheet, A)
    PROVE  /\ Issue(sheet, to, amount) \in [A -> Int]
           /\ Solvent(Issue(sheet, to, amount), A)
BY DEF Issue, Solvent

\* A capped debit charges what was asked, or less, and never more than there is.
LEMMA ChargeBounds ==
    ASSUME NEW A, NEW sheet \in [A -> Int], NEW from \in A, NEW amount \in Nat,
           NEW allowPartial \in BOOLEAN, Solvent(sheet, A)
    PROVE  /\ Charge(sheet, from, amount, allowPartial) \in 0..amount
           /\ Covers(sheet, from, Charge(sheet, from, amount, allowPartial))
BY DEF Charge, Covers, Solvent

\* A capped debit therefore overdraws nothing either.
LEMMA CappedDebitSolvent ==
    ASSUME NEW A, NEW sheet \in [A -> Int], NEW from \in A, NEW to \in A,
           NEW amount \in Nat, NEW allowPartial \in BOOLEAN, Solvent(sheet, A)
    PROVE  /\ CappedDebit(sheet, from, to, amount, allowPartial) \in [A -> Int]
           /\ Solvent(CappedDebit(sheet, from, to, amount, allowPartial), A)
<1>1. /\ Charge(sheet, from, amount, allowPartial) \in Nat
      /\ Covers(sheet, from, Charge(sheet, from, amount, allowPartial))
  BY ChargeBounds
<1> QED
  BY <1>1, TransferType, TransferSolvent DEF CappedDebit

-----------------------------------------------------------------------------
(* Finite sets                                                             *)

\* Induction over the natural numbers, for a set.
LEMMA NatSets ==
    ASSUME NEW T \in SUBSET Nat, 0 \in T, \A n \in T : n + 1 \in T
    PROVE  T = Nat
<1> DEFINE R == OpToRel(<, Nat)
<1>1. IsWellFoundedOn(R, Nat)
  BY NatLessThanWellFounded
<1>2. \A m, n \in Nat : m < n => <<m, n>> \in R
  BY DEF OpToRel
<1> HIDE DEF R
<1>3. SUFFICES ASSUME Nat \ T # {} PROVE FALSE
  OBVIOUS
<1>4. PICK x \in Nat \ T : \A y \in Nat \ T : <<y, x>> \notin R
  BY <1>1, <1>3, WFMin
<1>5. x - 1 \in Nat /\ x - 1 < x /\ x - 1 \notin T
  BY <1>4
<1>6. <<x - 1, x>> \in R
  BY <1>2, <1>4, <1>5
<1> QED
  BY <1>4, <1>5, <1>6

\* A family of subsets that holds a set when it holds the set without any one
\* of its elements holds them all.
LEMMA SubsetFamily ==
    ASSUME NEW D, IsFiniteSet(D), NEW F \in SUBSET SUBSET D,
           \A s \in SUBSET D : (\A x \in s : s \ {x} \in F) => s \in F
    PROVE  F = SUBSET D
<1> DEFINE T == {n \in Nat : \A s \in SUBSET D : Cardinality(s) = n => s \in F}
<1>1. \A s \in SUBSET D : IsFiniteSet(s) /\ Cardinality(s) \in Nat
  BY FS_Subset, FS_CardinalityType
<1>2. 0 \in T
  BY <1>1, FS_EmptySet
<1>3. ASSUME NEW n \in T
      PROVE  n + 1 \in T
  <2> SUFFICES ASSUME NEW s \in SUBSET D, Cardinality(s) = n + 1
               PROVE  s \in F
    OBVIOUS
  <2>1. ASSUME NEW x \in s
        PROVE  s \ {x} \in F
    <3>1. IsFiniteSet(s) /\ n \in Nat
      BY <1>1
    <3>2. Cardinality(s \ {x}) = Cardinality(s) - 1
      BY <2>1, <3>1, FS_RemoveElement
    <3>3. Cardinality(s \ {x}) = n
      BY <3>1, <3>2
    <3> QED
      BY <3>3
  <2> QED
    BY <2>1
<1>4. T = Nat
  <2> HIDE DEF T
  <2> QED
    BY <1>2, <1>3, NatSets DEF T
<1> QED
  BY <1>1, <1>4

\* The image of a finite set.
LEMMA ImageFinite ==
    ASSUME NEW S, IsFiniteSet(S), NEW f, DOMAIN f = S, f = [x \in S |-> f[x]]
    PROVE  IsFiniteSet({f[x] : x \in S})
<1> DEFINE T == {f[x] : x \in S}
<1>1. f \in Surjection(S, T)
  BY DEF Surjection
<1> QED
  BY <1>1, FS_Surjection

\* A family of numbers, one for each element of a finite set, has a greatest.
LEMMA GreatestExists ==
    ASSUME NEW S, IsFiniteSet(S), S # {}, NEW f, \A x \in S : f[x] \in Int
    PROVE  \E x \in S : \A y \in S : f[y] <= f[x]
<1> DEFINE F == {s \in SUBSET S : s # {} => \E x \in s : \A y \in s : f[y] <= f[x]}
<1>1. ASSUME NEW s \in SUBSET S, \A x \in s : s \ {x} \in F, s # {}
      PROVE  \E x \in s : \A y \in s : f[y] <= f[x]
  <2>1. PICK x \in s : TRUE
    BY <1>1
  <2>2. CASE s \ {x} = {}
    BY <2>1, <2>2
  <2>3. CASE s \ {x} # {}
    <3>1. PICK m \in s \ {x} : \A y \in s \ {x} : f[y] <= f[m]
      BY <1>1, <2>1, <2>3
    <3>2. CASE f[x] <= f[m]
      BY <2>1, <3>1, <3>2
    <3>3. CASE ~(f[x] <= f[m])
      <4>1. f[x] \in Int /\ f[m] \in Int
        BY <2>1, <3>1
      <4>2. \A y \in s : f[y] <= f[x]
        BY <2>1, <3>1, <3>3, <4>1
      <4> QED
        BY <2>1, <4>2
    <3> QED
      BY <3>2, <3>3
  <2> QED
    BY <2>2, <2>3
<1>2. F = SUBSET S
  <2>1. F \in SUBSET SUBSET S
    OBVIOUS
  <2>2. \A s \in SUBSET S : (\A x \in s : s \ {x} \in F) => s \in F
    BY <1>1
  <2> HIDE DEF F
  <2> QED
    BY <2>1, <2>2, SubsetFamily
<1> QED
  BY <1>2

\* The greatest number of a finite set.
LEMMA MaxOfNumbers ==
    ASSUME NEW S \in SUBSET Int, IsFiniteSet(S), S # {}
    PROVE  Max(S) \in S /\ \A y \in S : y <= Max(S)
<1> DEFINE f == [x \in S |-> x]
<1>1. \A x \in S : f[x] \in Int /\ f[x] = x
  OBVIOUS
<1> HIDE DEF f
<1>2. \E x \in S : \A y \in S : f[y] <= f[x]
  BY <1>1, GreatestExists
<1>3. \E x \in S : \A y \in S : x >= y
  BY <1>1, <1>2
<1> QED
  BY <1>3 DEF Max

-----------------------------------------------------------------------------
(* The sum of a sheet                                                      *)

\* The element the fold takes off a set first.
Chosen(s) == CHOOSE x \in s : TRUE

\* One step of the fold that adds a function's values up.
SumStep(f, g, s) == IF s = {} THEN 0 ELSE f[Chosen(s)] + g[s \ {Chosen(s)}]

\* What the library's fold is, by its definition.
LEMMA SumUnfolds ==
    ASSUME NEW f, NEW S
    PROVE  SumFunctionOnSet(f, S) =
             (CHOOSE g : g = [s \in SUBSET S |-> SumStep(f, g, s)])[S]
BY DEF SumFunctionOnSet, FoldFunctionOnSet, MapThenFoldSet, Chosen, SumStep

LEMMA ChosenIn == \A s : s # {} => Chosen(s) \in s
BY DEF Chosen

\* There is a function that adds up the values over every subset.
LEMMA SumExists ==
    ASSUME NEW D, IsFiniteSet(D), NEW f, \A x \in D : f[x] \in Int
    PROVE  \E g \in [SUBSET D -> Int] : \A s \in SUBSET D : g[s] = SumStep(f, g, s)
<1> DEFINE Upto(n) == {s \in SUBSET D : Cardinality(s) <= n}
           T == {n \in Nat : \E g \in [Upto(n) -> Int] :
                                \A s \in Upto(n) : g[s] = SumStep(f, g, s)}
<1>1. \A s \in SUBSET D : IsFiniteSet(s) /\ Cardinality(s) \in Nat
  BY FS_Subset, FS_CardinalityType
<1>2. 0 \in T
  <2> DEFINE g == [s \in Upto(0) |-> 0]
  <2>1. \A s \in Upto(0) : s = {}
    BY <1>1, FS_EmptySet
  <2>2. \A s \in Upto(0) : g[s] = SumStep(f, g, s)
    BY <2>1 DEF SumStep
  <2>3. g \in [Upto(0) -> Int]
    OBVIOUS
  <2> HIDE DEF g, Upto
  <2> QED
    BY <2>2, <2>3
<1>3. ASSUME NEW n \in T
      PROVE  n + 1 \in T
  <2>1. PICK g \in [Upto(n) -> Int] : \A s \in Upto(n) : g[s] = SumStep(f, g, s)
    OBVIOUS
  <2> DEFINE h == [s \in Upto(n + 1) |->
                     IF Cardinality(s) <= n THEN g[s] ELSE SumStep(f, g, s)]
  <2>2. n \in Nat
    OBVIOUS
  <2>3. ASSUME NEW s \in Upto(n + 1), s # {}
        PROVE  /\ Chosen(s) \in D /\ s \ {Chosen(s)} \in Upto(n)
               /\ s \ {Chosen(s)} \in Upto(n + 1)
               /\ g[s \ {Chosen(s)}] \in Int
               /\ h[s \ {Chosen(s)}] = g[s \ {Chosen(s)}]
    <3>1. Chosen(s) \in s /\ s \in SUBSET D /\ Cardinality(s) <= n + 1
      BY <2>3, ChosenIn
    <3>2. Cardinality(s \ {Chosen(s)}) = Cardinality(s) - 1 /\ Cardinality(s) \in Nat
      BY <1>1, <3>1, FS_RemoveElement
    <3>3. s \ {Chosen(s)} \in Upto(n) /\ s \ {Chosen(s)} \in Upto(n + 1)
      BY <2>2, <3>1, <3>2
    <3>4. Cardinality(s \ {Chosen(s)}) <= n
      BY <3>3
    <3> QED
      BY <2>1, <3>1, <3>3, <3>4
  <2>4. \A s \in Upto(n + 1) : SumStep(f, g, s) \in Int /\ SumStep(f, h, s) = SumStep(f, g, s)
    <3> HIDE DEF h, Upto
    <3> QED
      BY <2>3 DEF SumStep
  <2>5. \A s \in Upto(n + 1) : Cardinality(s) <= n => s \in Upto(n)
    OBVIOUS
  <2>6. h \in [Upto(n + 1) -> Int]
    BY <2>1, <2>4, <2>5
  <2>7. \A s \in Upto(n + 1) : h[s] = SumStep(f, h, s)
    BY <2>1, <2>4, <2>5
  <2>8. n + 1 \in Nat
    BY <2>2
  <2> QED
    BY <2>6, <2>7, <2>8
<1>4. T = Nat
  <2> HIDE DEF T
  <2> QED
    BY <1>2, <1>3, NatSets DEF T
<1>5. Cardinality(D) \in T
  BY <1>1, <1>4
<1>6. Upto(Cardinality(D)) = SUBSET D
  BY <1>1, FS_Subset
<1>7. PICK g \in [SUBSET D -> Int] : \A s \in SUBSET D : g[s] = SumStep(f, g, s)
  BY <1>5, <1>6
<1> QED
  BY <1>7

\* A function that adds up the values of f over every subset of D.
Totals(g, f, D) ==
    g \in [SUBSET D -> Int] /\ \A s \in SUBSET D : g[s] = SumStep(f, g, s)

Summable(f, D) == IsFiniteSet(D) /\ \A x \in D : f[x] \in Int

\* So the sum over a finite set is that function's value.
LEMMA SumRecursion ==
    ASSUME NEW D, NEW f, Summable(f, D)
    PROVE  \E g : Totals(g, f, D) /\ SumFunctionOnSet(f, D) = g[D]
<1> USE DEF Summable, Totals
<1> DEFINE g == CHOOSE h : h = [s \in SUBSET D |-> SumStep(f, h, s)]
<1>1. \E h : h = [s \in SUBSET D |-> SumStep(f, h, s)]
  <2>1. PICK h \in [SUBSET D -> Int] : \A s \in SUBSET D : h[s] = SumStep(f, h, s)
    BY SumExists
  <2>2. h = [s \in SUBSET D |-> SumStep(f, h, s)]
    BY <2>1
  <2> QED
    BY <2>2
<1>2. g = [s \in SUBSET D |-> SumStep(f, g, s)]
  BY <1>1
<1>3. SumFunctionOnSet(f, D) = g[D]
  BY SumUnfolds
<1> HIDE DEF g
<1>4. \A s \in SUBSET D : g[s] = SumStep(f, g, s)
  BY <1>2
<1> DEFINE F == {s \in SUBSET D : g[s] \in Int}
<1>5. ASSUME NEW s \in SUBSET D, \A x \in s : s \ {x} \in F
      PROVE  s \in F
  <2>1. CASE s = {}
    BY <1>4, <2>1 DEF SumStep
  <2>2. CASE s # {}
    <3>1. Chosen(s) \in s
      BY <2>2, ChosenIn
    <3>2. g[s \ {Chosen(s)}] \in Int /\ f[Chosen(s)] \in Int
      BY <1>5, <3>1
    <3>3. g[s] = f[Chosen(s)] + g[s \ {Chosen(s)}]
      BY <1>4, <2>2 DEF SumStep
    <3> QED
      BY <3>2, <3>3
  <2> QED
    BY <2>1, <2>2
<1>6. F = SUBSET D
  <2>1. F \in SUBSET SUBSET D
    OBVIOUS
  <2>2. \A s \in SUBSET D : (\A x \in s : s \ {x} \in F) => s \in F
    BY <1>5
  <2> HIDE DEF F
  <2> QED
    BY <2>1, <2>2, SubsetFamily
<1>7. g \in [SUBSET D -> Int]
  BY <1>2, <1>6
<1> QED
  BY <1>3, <1>4, <1>7

\* It does not matter which element is taken off first.
LEMMA SumAnyElement ==
    ASSUME NEW D, NEW f, Summable(f, D), NEW g, Totals(g, f, D),
           NEW s \in SUBSET D, NEW x \in s
    PROVE  g[s] = f[x] + g[s \ {x}]
<1> USE DEF Summable, Totals
<1> DEFINE F == {t \in SUBSET D : \A y \in t : g[t] = f[y] + g[t \ {y}]}
<1>1. ASSUME NEW t \in SUBSET D, \A y \in t : t \ {y} \in F, NEW y \in t
      PROVE  g[t] = f[y] + g[t \ {y}]
  <2> DEFINE c == Chosen(t)
  <2>1. c \in t
    BY ChosenIn
  <2>2. g[t] = f[c] + g[t \ {c}]
    BY <2>1 DEF SumStep
  <2> HIDE DEF c
  <2>3. CASE c = y
    BY <2>2, <2>3
  <2>4. CASE c # y
    <3>1. g[t \ {c}] = f[y] + g[(t \ {c}) \ {y}]
      BY <1>1, <2>1, <2>4
    <3>2. g[t \ {y}] = f[c] + g[(t \ {y}) \ {c}]
      BY <1>1, <2>1, <2>4
    <3>3. (t \ {c}) \ {y} = (t \ {y}) \ {c}
      OBVIOUS
    <3>4. f[c] \in Int /\ f[y] \in Int /\ g[(t \ {y}) \ {c}] \in Int
      BY <2>1
    <3>5. g[t] = f[c] + (f[y] + g[(t \ {y}) \ {c}])
      BY <2>2, <3>1, <3>3
    <3>6. \A a, b, n \in Int : a + (b + n) = b + (a + n)
      OBVIOUS
    <3> QED
      BY <3>2, <3>4, <3>5, <3>6
  <2> QED
    BY <2>3, <2>4
<1>2. F = SUBSET D
  <2>1. F \in SUBSET SUBSET D
    OBVIOUS
  <2>2. \A t \in SUBSET D : (\A y \in t : t \ {y} \in F) => t \in F
    BY <1>1
  <2> HIDE DEF F
  <2> QED
    BY <2>1, <2>2, SubsetFamily
<1> QED
  BY <1>2

\* The sum of a function over a finite domain, when it differs from another's
\* at one argument.
LEMMA SumUpdate ==
    ASSUME NEW D, IsFiniteSet(D), NEW f \in [D -> Int], NEW d \in D, NEW v \in Int
    PROVE  /\ SumFunction(f) \in Int
           /\ SumFunction([f EXCEPT ![d] = v]) = SumFunction(f) - f[d] + v
<1> DEFINE h == [f EXCEPT ![d] = v]
<1>1. Summable(f, D)
  BY DEF Summable
<1>2. Summable(h, D)
  BY DEF Summable
<1>3. h[d] = v /\ (\A x \in D \ {d} : h[x] = f[x]) /\ DOMAIN f = D /\ DOMAIN h = D
  OBVIOUS
<1> HIDE DEF h
<1>4. PICK g : Totals(g, f, D) /\ SumFunctionOnSet(f, D) = g[D]
  BY <1>1, SumRecursion
<1>5. PICK k : Totals(k, h, D) /\ SumFunctionOnSet(h, D) = k[D]
  BY <1>2, SumRecursion
<1>6. g[D] = f[d] + g[D \ {d}]
  BY <1>1, <1>4, SumAnyElement
<1>7. k[D] = h[d] + k[D \ {d}]
  BY <1>2, <1>5, SumAnyElement
<1> DEFINE F == {s \in SUBSET D : d \notin s => g[s] = k[s]}
<1>8. ASSUME NEW s \in SUBSET D, \A x \in s : s \ {x} \in F, d \notin s
      PROVE  g[s] = k[s]
  <2>1. g[s] = SumStep(f, g, s) /\ k[s] = SumStep(h, k, s)
    BY <1>4, <1>5 DEF Totals
  <2>2. CASE s = {}
    BY <2>1, <2>2 DEF SumStep
  <2>3. CASE s # {}
    <3>1. Chosen(s) \in s
      BY <2>3, ChosenIn
    <3>2. h[Chosen(s)] = f[Chosen(s)] /\ g[s \ {Chosen(s)}] = k[s \ {Chosen(s)}]
      BY <1>3, <1>8, <3>1
    <3> QED
      BY <2>1, <2>3, <3>2 DEF SumStep
  <2> QED
    BY <2>2, <2>3
<1>9. F = SUBSET D
  <2>1. F \in SUBSET SUBSET D
    OBVIOUS
  <2>2. \A s \in SUBSET D : (\A x \in s : s \ {x} \in F) => s \in F
    BY <1>8
  <2> HIDE DEF F
  <2> QED
    BY <2>1, <2>2, SubsetFamily
<1>10. g[D \ {d}] = k[D \ {d}]
  BY <1>9
<1>11. SumFunction(f) = g[D] /\ SumFunction(h) = k[D]
  BY <1>3, <1>4, <1>5 DEF SumFunction
<1>12. g[D] \in Int /\ g[D \ {d}] \in Int /\ f[d] \in Int
  BY <1>4 DEF Totals
<1> QED
  BY <1>3, <1>6, <1>7, <1>10, <1>11, <1>12 DEF h

\* Zeros add up to zero.
LEMMA SumOfZeros ==
    ASSUME NEW D, IsFiniteSet(D)
    PROVE  SumFunction([d \in D |-> 0]) = 0
<1> DEFINE f == [d \in D |-> 0]
<1>1. Summable(f, D) /\ DOMAIN f = D /\ \A d \in D : f[d] = 0
  BY DEF Summable
<1> HIDE DEF f
<1>2. PICK g : Totals(g, f, D) /\ SumFunctionOnSet(f, D) = g[D]
  BY <1>1, SumRecursion
<1> DEFINE F == {s \in SUBSET D : g[s] = 0}
<1>3. ASSUME NEW s \in SUBSET D, \A x \in s : s \ {x} \in F
      PROVE  g[s] = 0
  <2>1. g[s] = SumStep(f, g, s)
    BY <1>2 DEF Totals
  <2>2. CASE s = {}
    BY <2>1, <2>2 DEF SumStep
  <2>3. CASE s # {}
    <3>1. Chosen(s) \in s
      BY <2>3, ChosenIn
    <3>2. f[Chosen(s)] = 0 /\ g[s \ {Chosen(s)}] = 0
      BY <1>1, <1>3, <3>1
    <3> QED
      BY <2>1, <2>3, <3>2 DEF SumStep
  <2> QED
    BY <2>2, <2>3
<1>4. F = SUBSET D
  <2>1. F \in SUBSET SUBSET D
    OBVIOUS
  <2>2. \A s \in SUBSET D : (\A x \in s : s \ {x} \in F) => s \in F
    BY <1>3
  <2> HIDE DEF F
  <2> QED
    BY <2>1, <2>2, SubsetFamily
<1>5. SumFunction(f) = g[D] /\ g[D] = 0
  BY <1>1, <1>2, <1>4 DEF SumFunction
<1> QED
  BY <1>5 DEF f

\* Issuing adds to the sum what was issued.
LEMMA IssueSum ==
    ASSUME NEW A, IsFiniteSet(A), NEW sheet \in [A -> Int], NEW to \in A,
           NEW amount \in Int
    PROVE  SumFunction(Issue(sheet, to, amount)) = SumFunction(sheet) + amount
<1>1. sheet[to] + amount \in Int /\ sheet[to] \in Int
  OBVIOUS
<1>2. Issue(sheet, to, amount) = [sheet EXCEPT ![to] = sheet[to] + amount]
  BY DEF Issue
<1>3. /\ SumFunction(sheet) \in Int
      /\ SumFunction([sheet EXCEPT ![to] = sheet[to] + amount])
            = SumFunction(sheet) - sheet[to] + (sheet[to] + amount)
  BY <1>1, SumUpdate
<1> QED
  BY <1>1, <1>2, <1>3

\* A transfer, capped or not, between two accounts leaves the sum alone.
LEMMA TransferSum ==
    ASSUME NEW A, IsFiniteSet(A), NEW sheet \in [A -> Int], NEW from \in A,
           NEW to \in A, NEW amount \in Int, from # to
    PROVE  SumFunction(Transfer(sheet, from, to, amount)) = SumFunction(sheet)
<1> DEFINE debited == [sheet EXCEPT ![from] = sheet[from] - amount]
<1>1. sheet[from] - amount \in Int /\ sheet[from] \in Int
  OBVIOUS
<1>2. /\ SumFunction(sheet) \in Int
      /\ SumFunction(debited) = SumFunction(sheet) - sheet[from] + (sheet[from] - amount)
  BY <1>1, SumUpdate
<1>3. debited \in [A -> Int]
  BY <1>1
<1>4. Transfer(sheet, from, to, amount) = [debited EXCEPT ![to] = debited[to] + amount]
  BY DEF Transfer
<1> HIDE DEF debited
<1>5. debited[to] + amount \in Int /\ debited[to] \in Int
  BY <1>3
<1>6. /\ SumFunction(debited) \in Int
      /\ SumFunction([debited EXCEPT ![to] = debited[to] + amount])
            = SumFunction(debited) - debited[to] + (debited[to] + amount)
  BY <1>3, <1>5, SumUpdate
<1> QED
  BY <1>1, <1>2, <1>4, <1>5, <1>6
=============================================================================
