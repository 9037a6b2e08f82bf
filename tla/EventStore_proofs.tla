-------------------------- MODULE EventStore_proofs --------------------------
(***************************************************************************)
(* What the journal keeps for every set of instances and any number of     *)
(* appends, failing writes, crashes and outages.  The lines of a file are  *)
(* given by a recursive function: the lemmas about them are by induction   *)
(* over its length, as the least number for which they could fail.         *)
(***************************************************************************)
EXTENDS EventStoreInv, SequenceTheorems, WellFoundedInduction, TLAPS

\* Induction over the natural numbers, for a set.
LEMMA NatSets ==
    ASSUME NEW T \in SUBSET Nat, 0 \in T, \A n \in T : n + 1 \in T
    PROVE  T = Nat
<1> DEFINE R == OpToRel(<, Nat)
<1>1. IsWellFoundedOn(R, Nat)
  BY NatLessThanWellFounded
<1>2. \A m, n \in Nat : m < n => <<m, n>> \in R
  BY DEF OpToRel
<1> HIDE DEF R
<1>3. SUFFICES ASSUME Nat \ T # {} PROVE FALSE
  OBVIOUS
<1>4. PICK x \in Nat \ T : \A y \in Nat \ T : <<y, x>> \notin R
  BY <1>1, <1>3, WFMin
<1>5. x - 1 \in Nat /\ x - 1 < x /\ x - 1 \notin T
  BY <1>4
<1>6. <<x - 1, x>> \in R
  BY <1>2, <1>4, <1>5
<1> QED
  BY <1>4, <1>5, <1>6

-----------------------------------------------------------------------------
(* The lines of a file                                                     *)

\* One step of the function that reads a file, and the functions that take it.
ReadStep(g, f, n) == IF n = 0 THEN <<>> ELSE Continue(g[n - 1], f, n)
Reads(g, f) == g = [n \in 0..Len(f) |-> ReadStep(g, f, n)]

LEMMA LinesUnfold ==
    ASSUME NEW f
    PROVE  Lines(f) = (CHOOSE g : Reads(g, f))[Len(f)]
BY DEF Lines, Reads, ReadStep

LEMMA ReadsExists ==
    ASSUME NEW f, Len(f) \in Nat
    PROVE  \E g : Reads(g, f)
<1> DEFINE T == {m \in Nat : \E g : g = [n \in 0..m |-> ReadStep(g, f, n)]}
<1>1. 0 \in T
  <2> DEFINE g == [n \in 0..0 |-> <<>>]
  <2>1. g = [n \in 0..0 |-> ReadStep(g, f, n)]
    BY DEF ReadStep
  <2> HIDE DEF g
  <2> QED
    BY <2>1
<1>2. ASSUME NEW m \in T
      PROVE  m + 1 \in T
  <2>1. PICK g : g = [n \in 0..m |-> ReadStep(g, f, n)]
    OBVIOUS
  <2> DEFINE h == [n \in 0..m + 1 |-> IF n <= m THEN g[n] ELSE ReadStep(g, f, n)]
  <2>2. m \in Nat
    OBVIOUS
  <2>3. \A n \in 0..m : h[n] = g[n]
    BY <2>2
  <2>4. \A n \in 0..m + 1 : ReadStep(h, f, n) = ReadStep(g, f, n)
    <3> SUFFICES ASSUME NEW n \in 0..m + 1
                 PROVE  ReadStep(h, f, n) = ReadStep(g, f, n)
      OBVIOUS
    <3>1. CASE n = 0
      BY <3>1 DEF ReadStep
    <3>2. CASE n # 0
      <4>1. h[n - 1] = g[n - 1]
        BY <2>2, <2>3, <3>2
      <4> HIDE DEF h
      <4> QED
        BY <3>2, <4>1 DEF ReadStep
    <3> QED
      BY <3>1, <3>2
  <2>5. \A n \in 0..m : g[n] = ReadStep(g, f, n)
    BY <2>1
  <2>6. h = [n \in 0..m + 1 |-> ReadStep(h, f, n)]
    <3>1. \A n \in 0..m + 1 : (IF n <= m THEN g[n] ELSE ReadStep(g, f, n)) = ReadStep(h, f, n)
      BY <2>2, <2>4, <2>5
    <3> DEFINE a(n) == IF n <= m THEN g[n] ELSE ReadStep(g, f, n)
               b(n) == ReadStep(h, f, n)
    <3>2. \A n \in 0..m + 1 : a(n) = b(n)
      BY <3>1
    <3>3. h = [n \in 0..m + 1 |-> a(n)]
      OBVIOUS
    <3> HIDE DEF a, h
    <3>4. h = [n \in 0..m + 1 |-> b(n)]
      <4> HIDE DEF b
      <4> QED
        BY <3>2, <3>3
    <3> QED
      BY <3>4
  <2> HIDE DEF h
  <2> QED
    BY <2>2, <2>6
<1>3. T = Nat
  <2> HIDE DEF T
  <2> QED
    BY <1>1, <1>2, NatSets DEF T
<1> QED
  BY <1>3 DEF Reads

LEMMA ReadsAt ==
    ASSUME NEW f, NEW g, Reads(g, f), NEW n \in 0..Len(f)
    PROVE  g[n] = ReadStep(g, f, n)
<1> DEFINE a(k) == ReadStep(g, f, k)
<1>1. g = [k \in 0..Len(f) |-> a(k)]
  BY DEF Reads
<1> HIDE DEF a
<1>2. g[n] = a(n)
  BY <1>1
<1> QED
  BY <1>2 DEF a

\* What is read of a file is read of every file that goes on from it.
LEMMA ReadsAgree ==
    ASSUME NEW f, NEW f2, NEW g, NEW h, Reads(g, f), Reads(h, f2),
           Len(f) \in Nat, Len(f2) \in Nat, Len(f) <= Len(f2),
           \A i \in 1..Len(f) : f[i] = f2[i]
    PROVE  \A n \in 0..Len(f) : g[n] = h[n]
<1> DEFINE T == {m \in Nat : m <= Len(f) => g[m] = h[m]}
<1>1. \A n \in 0..Len(f) : g[n] = ReadStep(g, f, n) /\ h[n] = ReadStep(h, f2, n)
  BY ReadsAt
<1>2. 0 \in T
  BY <1>1 DEF ReadStep
<1>3. ASSUME NEW m \in T
      PROVE  m + 1 \in T
  <2> SUFFICES ASSUME m + 1 <= Len(f) PROVE g[m + 1] = h[m + 1]
    OBVIOUS
  <2>1. g[m] = h[m] /\ m + 1 \in 0..Len(f) /\ m + 1 # 0 /\ (m + 1) - 1 = m
    OBVIOUS
  <2>2. g[m + 1] = Continue(g[m], f, m + 1) /\ h[m + 1] = Continue(h[m], f2, m + 1)
    BY <1>1, <2>1 DEF ReadStep
  <2>3. f[m + 1] = f2[m + 1] /\ (m + 1 > 1 => f[(m + 1) - 1] = f2[(m + 1) - 1])
    OBVIOUS
  <2> QED
    BY <2>1, <2>2, <2>3 DEF Continue
<1>4. T = Nat
  <2> HIDE DEF T
  <2> QED
    BY <1>2, <1>3, NatSets DEF T
<1> QED
  BY <1>4

\* The lines of no file, and what one more piece makes of the lines of a file.
LEMMA LinesRecursion ==
    ASSUME NEW P, NEW f \in Seq(P), NEW x \in P
    PROVE  /\ Lines(<<>>) = <<>>
           /\ Lines(Append(f, x)) =
                IF x = Newline THEN Lines(f)
                ELSE IF f # <<>> /\ Last(f) # Newline
                     THEN [Lines(f) EXCEPT ![Len(Lines(f))] = Append(@, x)]
                     ELSE Append(Lines(f), <<x>>)
<1>1. Lines(<<>>) = <<>>
  <2>1. PICK g : Reads(g, <<>>) /\ Lines(<<>>) = g[Len(<<>>)]
    BY ReadsExists, LinesUnfold
  <2>2. Len(<<>>) = 0 /\ g[0] = ReadStep(g, <<>>, 0)
    BY <2>1 DEF Reads
  <2> QED
    BY <2>1, <2>2 DEF ReadStep
<1>2. Lines(Append(f, x)) = Continue(Lines(f), Append(f, x), Len(f) + 1)
  <2> DEFINE f2 == Append(f, x)
  <2>1. /\ Len(f) \in Nat /\ Len(f2) = Len(f) + 1 /\ \A i \in 1..Len(f) : f[i] = f2[i]
    OBVIOUS
  <2> HIDE DEF f2
  <2>2. PICK g : Reads(g, f) /\ Lines(f) = g[Len(f)]
    BY <2>1, ReadsExists, LinesUnfold
  <2>3. PICK h : Reads(h, f2) /\ Lines(f2) = h[Len(f2)]
    BY <2>1, ReadsExists, LinesUnfold
  <2>4. h[Len(f)] = g[Len(f)]
    <3>1. \A n \in 0..Len(f) : g[n] = h[n]
      BY <2>1, <2>2, <2>3, ReadsAgree
    <3> QED
      BY <2>1, <3>1
  <2>5. h[Len(f) + 1] = ReadStep(h, f2, Len(f) + 1)
    BY <2>1, <2>3 DEF Reads
  <2> QED
    BY <2>1, <2>2, <2>3, <2>4, <2>5 DEF ReadStep, f2
<1>3. /\ Append(f, x)[Len(f) + 1] = x
      /\ Len(f) + 1 > 1 <=> f # <<>>
      /\ f # <<>> => Append(f, x)[(Len(f) + 1) - 1] = Last(f)
  BY DEF Last
<1> QED
  BY <1>1, <1>2, <1>3, Zenon DEF Continue

\* The lines that one more piece makes of given ones: as they were, with the
\* last one longer, or with one more.
Ends(f) == f = <<>> \/ Last(f) = Newline

Shaped(f, P) ==
    /\ Lines(f) \in Seq(Seq(P))
    /\ \A k \in 1..Len(Lines(f)) : Len(Lines(f)[k]) >= 1
    /\ ~Ends(f) => Len(Lines(f)) >= 1

\* Nothing of the lines of a file is taken back.
Longer(lines, more) ==
    /\ Len(lines) <= Len(more)
    /\ \A k \in 1..Len(lines) :
          /\ Len(lines[k]) <= Len(more[k])
          /\ \A j \in 1..Len(lines[k]) : more[k][j] = lines[k][j]

\* Every piece of a file that is not a newline is in one of its lines.
Covered(f) ==
    \A i \in 1..Len(f) : f[i] # Newline =>
        \E k \in 1..Len(Lines(f)) : \E j \in 1..Len(Lines(f)[k]) : Lines(f)[k][j] = f[i]

LEMMA OneMorePiece ==
    ASSUME NEW P, NEW f \in Seq(P), NEW x \in P, Shaped(f, P)
    PROVE  /\ Shaped(Append(f, x), P)
           /\ Longer(Lines(f), Lines(Append(f, x)))
           /\ x # Newline =>
                \E k \in 1..Len(Lines(Append(f, x))) :
                \E j \in 1..Len(Lines(Append(f, x))[k]) : Lines(Append(f, x))[k][j] = x
<1> DEFINE L == Lines(f)
           M == Lines(Append(f, x))
<1>1. L \in Seq(Seq(P)) /\ \A k \in 1..Len(L) : L[k] \in Seq(P) /\ Len(L[k]) >= 1
  BY DEF Shaped
<1>2. Last(Append(f, x)) = x /\ Append(f, x) # <<>>
  BY DEF Last
<1>3. CASE x = Newline
  <2>1. M = L
    BY <1>3, LinesRecursion
  <2>2. Ends(Append(f, x))
    BY <1>2, <1>3 DEF Ends
  <2> HIDE DEF L, M
  <2>3. Longer(L, M)
    BY <1>1, <2>1 DEF Longer
  <2>4. Shaped(Append(f, x), P)
    BY <1>1, <2>1, <2>2 DEF Shaped, L, M
  <2> QED
    BY <1>3, <2>3, <2>4 DEF L, M
<1>4. CASE x # Newline /\ ~Ends(f)
  <2> DEFINE n == Len(L)
             old == L[n]
             new == Append(old, x)
  <2>1. M = [L EXCEPT ![n] = new]
    BY <1>4, LinesRecursion DEF Ends
  <2>2. n \in 1..Len(L) /\ old \in Seq(P) /\ Len(L) \in Nat
    BY <1>1, <1>4 DEF Shaped
  <2>3. /\ new \in Seq(P)
        /\ Len(new) = Len(old) + 1
        /\ \A j \in 1..Len(old) : new[j] = old[j]
        /\ new[Len(old) + 1] = x
        /\ Len(old) \in Nat
    BY <2>2
  <2> HIDE DEF L, M, n, new
  <2>4. /\ M \in Seq(Seq(P)) /\ Len(M) = Len(L)
        /\ \A k \in 1..Len(L) : M[k] = IF k = n THEN new ELSE L[k]
    BY <1>1, <2>1, <2>2, <2>3, ExceptSeq
  <2>5. M[n] = new /\ old = L[n] /\ \A k \in 1..Len(L) : k # n => M[k] = L[k]
    BY <2>2, <2>4
  <2> HIDE DEF old
  <2>6. \A k \in 1..Len(L) : k # n => Len(M[k]) = Len(L[k]) /\ Len(L[k]) \in Nat
    <3>1. \A k \in 1..Len(L) : Len(L[k]) \in Nat
      BY <1>1
    <3> QED
      BY <2>5, <3>1, Zenon
  <2>7. Len(M[n]) = Len(old) + 1 /\ Len(L[n]) = Len(old)
    BY <2>3, <2>5
  <2>8. Longer(L, M)
    <3>1. ASSUME NEW k \in 1..Len(L)
          PROVE  Len(L[k]) <= Len(M[k]) /\ \A j \in 1..Len(L[k]) : M[k][j] = L[k][j]
      <4>1. CASE k = n
        BY <2>3, <2>5, <2>7, <4>1
      <4>2. CASE k # n
        BY <2>5, <2>6, <4>2
      <4> QED
        BY <4>1, <4>2
    <3> QED
      BY <2>2, <2>4, <3>1 DEF Longer
  <2>9. \A k \in 1..Len(M) : Len(M[k]) >= 1
    <3> SUFFICES ASSUME NEW k \in 1..Len(L) PROVE Len(M[k]) >= 1
      BY <2>4
    <3>1. CASE k = n
      <4>1. Len(M[n]) >= 1
        BY <2>3, <2>7
      <4> QED
        BY <3>1, <4>1, Zenon
    <3>2. CASE k # n
      <4>1. Len(M[k]) = Len(L[k]) /\ Len(L[k]) >= 1
        BY <1>1, <2>6, <3>2, Zenon
      <4> QED
        BY <4>1, Zenon
    <3> QED
      BY <3>1, <3>2
  <2>10. Shaped(Append(f, x), P)
    BY <2>2, <2>4, <2>9 DEF Shaped, M
  <2>11. n \in 1..Len(M) /\ Len(old) + 1 \in 1..Len(M[n]) /\ M[n][Len(old) + 1] = x
    BY <2>2, <2>3, <2>4, <2>5, <2>7
  <2> QED
    BY <2>8, <2>10, <2>11 DEF L, M
<1>5. CASE x # Newline /\ Ends(f)
  <2>1. M = Append(L, <<x>>)
    BY <1>5, LinesRecursion DEF Ends
  <2>2. <<x>> \in Seq(P) /\ Len(<<x>>) = 1 /\ <<x>>[1] = x /\ Len(L) \in Nat
    BY <1>1
  <2> HIDE DEF L, M
  <2>3. /\ M \in Seq(Seq(P)) /\ Len(M) = Len(L) + 1 /\ M[Len(L) + 1] = <<x>>
        /\ \A k \in 1..Len(L) : M[k] = L[k]
    BY <1>1, <2>1, <2>2, AppendProperties
  <2>4. \A k \in 1..Len(L) : Len(L[k]) \in Nat
    BY <1>1
  <2>5. Longer(L, M)
    BY <2>2, <2>3, <2>4 DEF Longer
  <2>6. \A k \in 1..Len(M) : Len(M[k]) >= 1
    <3>1. \A k \in 1..Len(L) : Len(M[k]) >= 1
      BY <1>1, <2>3
    <3>2. Len(M[Len(L) + 1]) = 1
      BY <2>2, <2>3
    <3>3. \A k \in 1..Len(M) : k \in 1..Len(L) \/ k = Len(L) + 1
      BY <2>2, <2>3
    <3> QED
      BY <3>1, <3>2, <3>3
  <2>7. Shaped(Append(f, x), P)
    BY <2>2, <2>3, <2>6 DEF Shaped, M
  <2>8. Len(M) \in 1..Len(M) /\ 1 \in 1..Len(M[Len(M)]) /\ M[Len(M)][1] = x
    BY <2>2, <2>3
  <2> QED
    BY <2>5, <2>7, <2>8 DEF L, M
<1> QED
  BY <1>3, <1>4, <1>5

LEMMA LongerTransitive ==
    ASSUME NEW P, NEW a \in Seq(Seq(P)), NEW b \in Seq(Seq(P)), NEW c \in Seq(Seq(P)),
           Longer(a, b), Longer(b, c)
    PROVE  Longer(a, c)
<1>1. Len(a) \in Nat /\ Len(b) \in Nat /\ Len(c) \in Nat
  OBVIOUS
<1>2. /\ \A k \in 1..Len(a) : Len(a[k]) \in Nat
      /\ \A k \in 1..Len(b) : Len(b[k]) \in Nat
      /\ \A k \in 1..Len(c) : Len(c[k]) \in Nat
  OBVIOUS
<1>3. ASSUME NEW k \in 1..Len(a)
      PROVE  Len(a[k]) <= Len(c[k]) /\ \A j \in 1..Len(a[k]) : c[k][j] = a[k][j]
  <2>1. k \in 1..Len(b) /\ k \in 1..Len(c)
    BY <1>1 DEF Longer
  <2>2. Len(a[k]) <= Len(b[k]) /\ Len(b[k]) <= Len(c[k])
    BY <2>1 DEF Longer
  <2>. DEFINE la == Len(a[k])
              lb == Len(b[k])
              lc == Len(c[k])
  <2>4. la \in Nat /\ lb \in Nat /\ lc \in Nat
    BY <1>2, <2>1, Zenon
  <2>3. ASSUME NEW j \in 1..Len(a[k])
        PROVE  c[k][j] = a[k][j]
    <3>1. j \in 1..la /\ la <= lb
      BY <2>2
    <3> HIDE DEF la, lb, lc
    <3>2. j \in 1..lb
      BY <2>4, <3>1
    <3> QED
      BY <2>1, <3>2 DEF Longer, lb
  <2>5. Len(a[k]) <= Len(c[k])
    <3>1. la <= lb /\ lb <= lc
      BY <2>2
    <3> HIDE DEF la, lb, lc
    <3>2. la <= lc
      BY <2>4, <3>1
    <3> QED
      BY <3>2 DEF la, lc
  <2> QED
    BY <2>3, <2>5, Zenon
<1> QED
  BY <1>1, <1>3 DEF Longer

LEMMA LinesShaped ==
    ASSUME NEW P, NEW f \in Seq(P)
    PROVE  Shaped(f, P) /\ Covered(f)
<1> DEFINE T == {n \in Nat : \A q \in Seq(P) : Len(q) = n => Shaped(q, P) /\ Covered(q)}
<1>1. 0 \in T
  <2> SUFFICES ASSUME NEW q \in Seq(P), Len(q) = 0 PROVE Shaped(q, P) /\ Covered(q)
    OBVIOUS
  <2>1. q = <<>>
    OBVIOUS
  <2>2. Lines(<<>>) = <<>>
    <3>1. PICK g : Reads(g, <<>>) /\ Lines(<<>>) = g[Len(<<>>)]
      BY ReadsExists, LinesUnfold
    <3>2. Len(<<>>) = 0 /\ g[0] = ReadStep(g, <<>>, 0)
      BY <3>1, ReadsAt
    <3> QED
      BY <3>1, <3>2 DEF ReadStep
  <2>3. <<>> \in Seq(Seq(P)) /\ Len(<<>>) = 0
    OBVIOUS
  <2>4. Shaped(<<>>, P)
    <3>1. Lines(<<>>) \in Seq(Seq(P)) /\ Len(Lines(<<>>)) = 0
      BY <2>2, <2>3, Zenon
    <3>2. Ends(<<>>)
      BY DEF Ends
    <3> QED
      BY <3>1, <3>2 DEF Shaped
  <2>5. Covered(<<>>)
    BY <2>3 DEF Covered
  <2> QED
    BY <2>1, <2>4, <2>5
<1>2. ASSUME NEW n \in T
      PROVE  n + 1 \in T
  <2> SUFFICES ASSUME NEW q \in Seq(P), Len(q) = n + 1 PROVE Shaped(q, P) /\ Covered(q)
    OBVIOUS
  <2>1. q # <<>>
    OBVIOUS
  <2>2. PICK r \in Seq(P), x \in P : q = Append(r, x)
    BY <2>1, SequenceEmptyOrAppend
  <2>3. Len(r) = n
    BY <2>2
  <2>4. Shaped(r, P) /\ Covered(r)
    BY <2>3
  <2>5. Shaped(q, P) /\ Longer(Lines(r), Lines(q))
    BY <2>2, <2>4, OneMorePiece
  <2>6. ASSUME NEW i \in 1..Len(q), q[i] # Newline
        PROVE  \E k \in 1..Len(Lines(q)) : \E j \in 1..Len(Lines(q)[k]) : Lines(q)[k][j] = q[i]
    <3>1. CASE i = n + 1
      <4>1. q[i] = x /\ x # Newline
        BY <2>2, <2>3, <2>6, <3>1
      <4> QED
        BY <2>2, <2>4, <4>1, OneMorePiece
    <3>2. CASE i # n + 1
      <4>1. i \in 1..Len(r) /\ q[i] = r[i]
        BY <2>2, <2>3, <3>2
      <4>a. PICK k \in 1..Len(Lines(r)) : \E j \in 1..Len(Lines(r)[k]) : Lines(r)[k][j] = q[i]
        BY <2>4, <2>6, <4>1 DEF Covered
      <4>2. PICK j \in 1..Len(Lines(r)[k]) : Lines(r)[k][j] = q[i]
        BY <4>a
      <4>3. /\ Len(Lines(r)) \in Nat /\ Len(Lines(q)) \in Nat
            /\ Len(Lines(r)[k]) \in Nat
        BY <2>4, <2>5 DEF Shaped
      <4>4. k \in 1..Len(Lines(q))
        BY <2>5, <4>3 DEF Longer
      <4>5. Len(Lines(q)[k]) \in Nat
        BY <2>5, <4>4 DEF Shaped
      <4>6. j \in 1..Len(Lines(q)[k]) /\ Lines(q)[k][j] = Lines(r)[k][j]
        BY <2>5, <4>3, <4>5 DEF Longer
      <4> QED
        BY <4>2, <4>4, <4>6
    <3> QED
      BY <3>1, <3>2
  <2> QED
    BY <2>5, <2>6 DEF Covered
<1>3. T = Nat
  <2> HIDE DEF T
  <2> QED
    BY <1>1, <1>2, NatSets DEF T
<1> QED
  BY <1>3

\* Whatever is written after a file leaves its lines in place.
LEMMA LinesGrow ==
    ASSUME NEW P, NEW f \in Seq(P), NEW more \in Seq(P)
    PROVE  Longer(Lines(f), Lines(f \o more))
<1> DEFINE T == {n \in Nat : \A q \in Seq(P) : Len(q) = n => Longer(Lines(f), Lines(f \o q))}
<1>1. 0 \in T
  <2>1. \A q \in Seq(P) : Len(q) = 0 => f \o q = f
    OBVIOUS
  <2>2. Lines(f) \in Seq(Seq(P))
    BY LinesShaped DEF Shaped
  <2>3. Longer(Lines(f), Lines(f))
    BY <2>2 DEF Longer
  <2> QED
    BY <2>1, <2>3
<1>2. ASSUME NEW n \in T
      PROVE  n + 1 \in T
  <2> SUFFICES ASSUME NEW q \in Seq(P), Len(q) = n + 1 PROVE Longer(Lines(f), Lines(f \o q))
    OBVIOUS
  <2>1. q # <<>>
    OBVIOUS
  <2>2. PICK r \in Seq(P), x \in P : q = Append(r, x)
    BY <2>1, SequenceEmptyOrAppend
  <2>3. Len(r) = n
    BY <2>2
  <2>4. Longer(Lines(f), Lines(f \o r))
    BY <2>3
  <2>5. f \o r \in Seq(P) /\ f \o q = Append(f \o r, x)
    BY <2>2
  <2>6. Shaped(f, P) /\ Shaped(f \o r, P) /\ Shaped(f \o q, P)
    <3>1. f \o q \in Seq(P)
      OBVIOUS
    <3> QED
      BY <2>5, <3>1, LinesShaped
  <2>7. Longer(Lines(f \o r), Lines(f \o q))
    BY <2>5, <2>6, OneMorePiece
  <2> QED
    BY <2>4, <2>6, <2>7, LongerTransitive DEF Shaped
<1>3. T = Nat
  <2> HIDE DEF T
  <2> QED
    BY <1>1, <1>2, NatSets DEF T
<1> QED
  BY <1>3

-----------------------------------------------------------------------------
(* Sequences of whatever there is                                          *)

LEMMA SeqTyped ==
    ASSUME NEW q, IsSeq(q)
    PROVE  /\ q \in Seq(ToSet(q))
           /\ DOMAIN q = 1..Len(q) /\ Len(q) \in Nat
<1>1. Len(q) \in Nat /\ q = [i \in 1..Len(q) |-> q[i]]
  BY DEF IsSeq
<1>2. DOMAIN q = 1..Len(q)
  BY <1>1
<1>3. \A i \in 1..Len(q) : q[i] \in ToSet(q)
  BY <1>2 DEF ToSet
<1>4. [i \in 1..Len(q) |-> q[i]] \in Seq(ToSet(q))
  BY <1>1, <1>3
<1>5. q \in Seq(ToSet(q))
  BY <1>1, <1>4, Zenon
<1> QED
  BY <1>1, <1>2, <1>5

LEMMA SeqIsSeq ==
    ASSUME NEW P, NEW q \in Seq(P)
    PROVE  IsSeq(q)
BY DEF IsSeq

\* Two of them over one set.
LEMMA SeqsOf ==
    ASSUME NEW q, IsSeq(q), NEW r, IsSeq(r)
    PROVE  \E P : q \in Seq(P) /\ r \in Seq(P)
<1> DEFINE P == ToSet(q) \union ToSet(r)
<1>1. q \in Seq(P) /\ r \in Seq(P)
  BY SeqTyped, SeqMonotonic
<1> QED
  BY <1>1

LEMMA PiecesConcat ==
    ASSUME NEW q, Pieces(q), NEW r, Pieces(r)
    PROVE  /\ Pieces(q \o r)
           /\ Len(q \o r) = Len(q) + Len(r)
           /\ \A i \in 1..Len(q) : (q \o r)[i] = q[i]
           /\ \A i \in 1..Len(r) : (q \o r)[Len(q) + i] = r[i]
<1>1. PICK P : q \in Seq(P) /\ r \in Seq(P)
  BY SeqsOf DEF Pieces
<1>2. /\ q \o r \in Seq(P) /\ Len(q \o r) = Len(q) + Len(r)
      /\ \A i \in 1..Len(q) : (q \o r)[i] = q[i]
      /\ \A i \in 1..Len(r) : (q \o r)[Len(q) + i] = r[i]
  BY <1>1, ConcatProperties
<1>3. ASSUME NEW i \in 1..Len(q \o r)
      PROVE  (q \o r)[i].part \in {"head", "tail", "newline"}
  <2>1. CASE i \in 1..Len(q)
    BY <1>2, <2>1 DEF Pieces
  <2>2. CASE i \notin 1..Len(q)
    <3>1. i - Len(q) \in 1..Len(r) /\ Len(q) + (i - Len(q)) = i
      BY <1>1, <1>2, <2>2
    <3> QED
      BY <1>2, <3>1 DEF Pieces
  <2> QED
    BY <2>1, <2>2
<1> QED
  BY <1>2, <1>3, SeqIsSeq DEF Pieces

\* A part of a sequence, and what is left of it.
LEMMA PiecesPart ==
    ASSUME NEW q, Pieces(q), NEW k \in 0..Len(q)
    PROVE  Pieces(SubSeq(q, 1, k)) /\ Pieces(SubSeq(q, k + 1, Len(q)))
           /\ Len(SubSeq(q, 1, k)) = k
           /\ \A i \in 1..k : SubSeq(q, 1, k)[i] = q[i]
<1>1. q \in Seq(ToSet(q)) /\ Len(q) \in Nat
  BY SeqTyped DEF Pieces
<1>2. /\ SubSeq(q, 1, k) \in Seq(ToSet(q)) /\ Len(SubSeq(q, 1, k)) = k
      /\ \A i \in 1..k : SubSeq(q, 1, k)[i] = q[i]
  BY <1>1
<1>3. /\ SubSeq(q, k + 1, Len(q)) \in Seq(ToSet(q))
      /\ Len(SubSeq(q, k + 1, Len(q))) = Len(q) - k
      /\ \A i \in 1..Len(q) - k : SubSeq(q, k + 1, Len(q))[i] = q[k + i]
  BY <1>1
<1>4. \A i \in 1..Len(q) - k : k + i \in 1..Len(q)
  BY <1>1
<1>5. IsSeq(SubSeq(q, 1, k)) /\ IsSeq(SubSeq(q, k + 1, Len(q)))
  BY <1>2, <1>3, SeqIsSeq
<1>6. Pieces(SubSeq(q, 1, k))
  BY <1>2, <1>5 DEF Pieces
<1>7. Pieces(SubSeq(q, k + 1, Len(q)))
  BY <1>3, <1>4, <1>5 DEF Pieces
<1> QED
  BY <1>2, <1>6, <1>7

LEMMA LineShape ==
    ASSUME NEW e
    PROVE  Pieces(LineOf(e)) /\ Len(LineOf(e)) = 3
<1> DEFINE P == {Opening(e), Closing(e), Newline}
<1>1. LineOf(e) \in Seq(P) /\ Len(LineOf(e)) = 3
  BY DEF LineOf
<1>2. \A x \in P : x.part \in {"head", "tail", "newline"}
  BY DEF Opening, Closing, Newline
<1> HIDE DEF P
<1>3. IsSeq(LineOf(e))
  BY <1>1, SeqIsSeq, Zenon
<1>4. \A i \in 1..Len(LineOf(e)) : LineOf(e)[i] \in P
  BY <1>1, ElementOfSeq
<1> QED
  BY <1>1, <1>2, <1>3, <1>4 DEF Pieces

LEMMA NothingShape == Pieces(<<>>) /\ IsSeq(<<>>) /\ Len(<<>>) = 0
BY DEF Pieces, IsSeq

LEMMA AppendShape ==
    ASSUME NEW q, IsSeq(q), NEW x
    PROVE  /\ IsSeq(Append(q, x)) /\ Len(Append(q, x)) = Len(q) + 1
           /\ \A i \in 1..Len(q) : Append(q, x)[i] = q[i]
           /\ Append(q, x)[Len(q) + 1] = x
<1>1. q \in Seq(ToSet(q) \union {x})
  BY SeqTyped, SeqMonotonic
<1>2. Append(q, x) \in Seq(ToSet(q) \union {x})
  BY <1>1
<1>3. IsSeq(Append(q, x))
  BY <1>2, SeqIsSeq
<1> QED
  BY <1>1, <1>3

\* What a reader that accepts the file gets of it: a chain, event by event what
\* the lines say.
LEMMA Verified ==
    ASSUME FileShape, NEW s \in Stores, Accepts(s)
    PROVE  LET events == Events(file) IN
           /\ IsSeq(events) /\ Chain(events) /\ KeepsPrefix(events, s)
           /\ Len(events) = Len(Lines(file))
           /\ \A k \in 1..Len(events) :
                /\ Lines(file)[k] = <<Opening(events[k]), Closing(events[k])>>
                /\ events[k].sequence = k
<1> DEFINE L == Lines(file)
           es == EventsOf(L)
<1>1. L \in Seq(Seq(ToSet(file)))
  BY SeqTyped, LinesShaped DEF FileShape, Pieces, Shaped
<1>2. DOMAIN L = 1..Len(L) /\ Len(L) \in Nat
  BY <1>1
<1>3. /\ \A k \in 1..Len(L) : IsObject(L[k])
      /\ Verifies(es) /\ KeepsPrefix(es, s) /\ Events(file) = es
  BY <1>2 DEF Accepts, Objects, Events
<1> HIDE DEF L
<1>4. es = [k \in 1..Len(L) |-> L[k][1].of]
  BY <1>2 DEF EventsOf
<1>5. Len(es) = Len(L) /\ DOMAIN es = 1..Len(L)
  BY <1>2, <1>4
<1>6. \A k \in 1..Len(L) : es[k] = L[k][1].of
  BY <1>4
<1> HIDE DEF es
<1>7. IsSeq(es)
  BY <1>2, <1>4, <1>5, <1>6 DEF IsSeq
<1>8. \A k \in 1..Len(L) : L[k] = <<Opening(es[k]), Closing(es[k])>> /\ IsEvent(es[k])
  BY <1>3, <1>6 DEF IsObject
<1>9. \A k \in 1..Len(L) : es[k].sequence = k
  BY <1>3, <1>5 DEF Verifies
<1> QED
  BY <1>3, <1>5, <1>7, <1>8, <1>9 DEF Chain, L

LEMMA Numbered ==
    ASSUME NEW events, IsSeq(events), NEW body
    PROVE  Following(events, body) # NoEvent
BY DEF Following, Event, NoEvent, IsSeq

-----------------------------------------------------------------------------
(* Types                                                                   *)

LEMMA LockStep ==
    ASSUME LockShape, [Next]_vars
    PROVE  LockShape'
<1> USE StoreAssumption
<1>1. ASSUME NEW s \in Stores, Open(s) PROVE LockShape'
  BY <1>1 DEF Open, Goto, Unlock, LockShape, Pcs
<1>2. ASSUME NEW s \in Stores, Read(s) PROVE LockShape'
  BY <1>2 DEF Read, Goto, Unlock, LockShape, Pcs
<1>3. ASSUME NEW s \in Stores, BeginAppend(s) PROVE LockShape'
  BY <1>3 DEF BeginAppend, Goto, Unlock, LockShape, Pcs
<1>4. ASSUME NEW s \in Stores, Lock(s) PROVE LockShape'
  BY <1>4 DEF Lock, Goto, Unlock, LockShape, Pcs
<1>5. ASSUME NEW s \in Stores, Build(s) PROVE LockShape'
  BY <1>5 DEF Build, Goto, Unlock, LockShape, Pcs
<1>6. ASSUME NEW s \in Stores, Refuse(s) PROVE LockShape'
  BY <1>6 DEF Refuse, Goto, Unlock, LockShape, Pcs
<1>7. ASSUME NEW s \in Stores, Write(s) PROVE LockShape'
  BY <1>7 DEF Write, Goto, Unlock, LockShape, Pcs
<1>8. ASSUME NEW s \in Stores, WriteFails(s) PROVE LockShape'
  BY <1>8 DEF WriteFails, Goto, Unlock, LockShape, Pcs
<1>9. ASSUME NEW s \in Stores, CloseHandle(s) PROVE LockShape'
  BY <1>9 DEF CloseHandle, Goto, Unlock, LockShape, Pcs
<1>10. ASSUME NEW s \in Stores, Acknowledge(s) PROVE LockShape'
  BY <1>10 DEF Acknowledge, Goto, Unlock, LockShape, Pcs
<1>11. ASSUME NEW s \in Stores, SyncFails(s) PROVE LockShape'
  BY <1>11 DEF SyncFails, Goto, Unlock, LockShape, Pcs
<1>12. ASSUME NEW s \in Stores, Crash(s) PROVE LockShape'
  BY <1>12 DEF Crash, Goto, Unlock, LockShape, Pcs
<1>13. CASE Outage
  BY <1>13 DEF Outage, Goto, Unlock, LockShape, Pcs
<1>14. CASE Damage
  BY <1>14 DEF Damage, Goto, Unlock, LockShape, Pcs
<1>15. CASE UNCHANGED vars
  BY <1>15 DEF vars, bounds, Goto, Unlock, LockShape, Pcs
<1> QED
  BY <1>1, <1>2, <1>3, <1>4, <1>5, <1>6, <1>7, <1>8, <1>9, <1>10, <1>11, <1>12, <1>13, <1>14, <1>15 DEF Next, Step, Quiet

LEMMA FileStep ==
    ASSUME FileShape, StoreShape, ChainInv, [Next]_vars
    PROVE  FileShape'
<1>a. \A s \in Stores : pc[s] = "writing" => Len(pending[s]) = 3
  BY LineShape DEF ChainInv
<1>1. ASSUME NEW s \in Stores, Open(s) PROVE FileShape'
  BY <1>1 DEF Open, FileShape
<1>2. ASSUME NEW s \in Stores, Read(s) PROVE FileShape'
  BY <1>2 DEF Read, FileShape
<1>3. ASSUME NEW s \in Stores, BeginAppend(s) PROVE FileShape'
  BY <1>3 DEF BeginAppend, FileShape
<1>4. ASSUME NEW s \in Stores, Lock(s) PROVE FileShape'
  BY <1>4 DEF Lock, FileShape
<1>5. ASSUME NEW s \in Stores, Build(s) PROVE FileShape'
  BY <1>5 DEF Build, FileShape
<1>6. ASSUME NEW s \in Stores, Refuse(s) PROVE FileShape'
  BY <1>6 DEF Refuse, FileShape
<1>7. ASSUME NEW s \in Stores, Write(s) PROVE FileShape'
  <2>1. Pieces(file \o pending[s]) /\ Len(file \o pending[s]) = Len(file) + Len(pending[s])
    BY PiecesConcat DEF FileShape, StoreShape
  <2>2. Len(pending[s]) \in Nat /\ Len(file) \in Nat
    BY DEF FileShape, StoreShape, Pieces, IsSeq
  <2> QED
    BY <1>7, <2>1, <2>2 DEF Write, FileShape
<1>8. ASSUME NEW s \in Stores, WriteFails(s) PROVE FileShape'
  <2>1. PICK k \in 0..2 : file' = file \o SubSeq(pending[s], 1, k)
    BY <1>8 DEF WriteFails
  <2>2. k \in 0..Len(pending[s])
    BY <1>8, <2>1, <1>a DEF WriteFails
  <2>3. Pieces(file') /\ Len(file') = Len(file) + k
    BY <2>1, <2>2, PiecesConcat, PiecesPart DEF FileShape, StoreShape
  <2>4. k \in Nat /\ Len(file) \in Nat
    BY <2>2 DEF FileShape, Pieces, IsSeq
  <2> QED
    BY <1>8, <2>3, <2>4 DEF WriteFails, FileShape
<1>9. ASSUME NEW s \in Stores, CloseHandle(s) PROVE FileShape'
  <2>1. PICK k \in 0..Len(pending[s]) : file' = file \o SubSeq(pending[s], 1, k)
    BY <1>9 DEF CloseHandle
  <2>2. k \in 0..Len(pending[s])
    BY <1>9, <2>1, <1>a DEF CloseHandle
  <2>3. Pieces(file') /\ Len(file') = Len(file) + k
    BY <2>1, <2>2, PiecesConcat, PiecesPart DEF FileShape, StoreShape
  <2>4. k \in Nat /\ Len(file) \in Nat
    BY <2>2 DEF FileShape, Pieces, IsSeq
  <2> QED
    BY <1>9, <2>3, <2>4 DEF CloseHandle, FileShape
<1>10. ASSUME NEW s \in Stores, Acknowledge(s) PROVE FileShape'
  <2>1. IsSeq(Append(acked, event[s])) /\ Len(file) \in Nat
    BY AppendShape DEF FileShape, Pieces, IsSeq
  <2> QED
    BY <1>10, <2>1 DEF Acknowledge, FileShape
<1>11. ASSUME NEW s \in Stores, SyncFails(s) PROVE FileShape'
  BY <1>11 DEF SyncFails, FileShape
<1>12. ASSUME NEW s \in Stores, Crash(s) PROVE FileShape'
  <2>1. PICK k \in 0..Len(pending[s]) : file' = file \o SubSeq(pending[s], 1, k)
    BY <1>12 DEF Crash
  <2>2. k \in 0..Len(pending[s])
    BY <1>12, <2>1, <1>a DEF Crash
  <2>3. Pieces(file') /\ Len(file') = Len(file) + k
    BY <2>1, <2>2, PiecesConcat, PiecesPart DEF FileShape, StoreShape
  <2>4. k \in Nat /\ Len(file) \in Nat
    BY <2>2 DEF FileShape, Pieces, IsSeq
  <2> QED
    BY <1>12, <2>3, <2>4 DEF Crash, FileShape
<1>13. CASE Outage
  <2>1. PICK n \in synced..Len(file) : file' = SubSeq(file, 1, n) /\ synced' = n
    BY <1>13 DEF Outage
  <2>2. n \in 0..Len(file) /\ Len(file) \in Nat
    BY <2>1 DEF FileShape, Pieces, IsSeq
  <2>3. Pieces(file') /\ Len(file') = n
    BY <2>1, <2>2, PiecesPart DEF FileShape
  <2> QED
    BY <1>13, <2>1, <2>2, <2>3 DEF Outage, FileShape
<1>14. CASE Damage
  <2> DEFINE kept == SubSeq(file, 1, Len(file) - 3)
             e == file[Len(file) - 1].of
  <2>1. file' \in {kept, kept \o LineOf([e EXCEPT !.body = NoStore]),
                   kept \o LineOf(Event(e.sequence, e.previous, NoStore))}
    BY <1>14 DEF Damage
  <2>2. Pieces(kept)
    <3>1. Len(file) - 3 \in 0..Len(file)
      BY <1>14 DEF Damage, FileShape, Pieces, IsSeq
    <3> QED
      BY <3>1, PiecesPart DEF FileShape
  <2> HIDE DEF kept, e
  <2>3. Pieces(file')
    BY <2>1, <2>2, LineShape, PiecesConcat
  <2>4. Len(file') \in Nat
    BY <2>3 DEF Pieces, IsSeq
  <2> QED
    BY <1>14, <2>3, <2>4 DEF Damage, FileShape
<1>15. CASE UNCHANGED vars
  BY <1>15 DEF vars, bounds, FileShape
<1> QED
  BY <1>1, <1>2, <1>3, <1>4, <1>5, <1>6, <1>7, <1>8, <1>9, <1>10, <1>11, <1>12, <1>13, <1>14, <1>15 DEF Next, Step, Quiet

LEMMA StoreStep ==
    ASSUME FileShape, StoreShape, ChainInv, [Next]_vars
    PROVE  StoreShape'
<1>a. \A s \in Stores : pc[s] = "writing" => Len(pending[s]) = 3
  BY LineShape DEF ChainInv
<1>1. ASSUME NEW s \in Stores, Open(s) PROVE StoreShape'
  <2>1. IsSeq(Events(file))
    BY <1>1, Verified DEF Open
  <2> QED
    BY <1>1, <2>1 DEF Open, StoreShape
<1>2. ASSUME NEW s \in Stores, Read(s) PROVE StoreShape'
  <2>1. IsSeq(Events(file))
    BY <1>2, Verified DEF Read
  <2> QED
    BY <1>2, <2>1 DEF Read, StoreShape
<1>3. ASSUME NEW s \in Stores, BeginAppend(s) PROVE StoreShape'
  BY <1>3 DEF BeginAppend, StoreShape
<1>4. ASSUME NEW s \in Stores, Lock(s) PROVE StoreShape'
  BY <1>4 DEF Lock, StoreShape
<1>5. ASSUME NEW s \in Stores, Build(s) PROVE StoreShape'
  <2>1. PICK new : /\ event' = [event EXCEPT ![s] = new]
                   /\ pending' = [pending EXCEPT ![s] = LineOf(new)]
    BY <1>5 DEF Build
  <2>2. IsSeq(Events(file)) /\ cache' = [cache EXCEPT ![s] = Events(file)]
    BY <1>5, Verified DEF Build
  <2>3. Pieces(LineOf(new))
    BY LineShape
  <2> QED
    BY <2>1, <2>2, <2>3 DEF StoreShape
<1>6. ASSUME NEW s \in Stores, Refuse(s) PROVE StoreShape'
  BY <1>6 DEF Refuse, StoreShape
<1>7. ASSUME NEW s \in Stores, Write(s) PROVE StoreShape'
  BY <1>7, NothingShape DEF Write, StoreShape
<1>8. ASSUME NEW s \in Stores, WriteFails(s) PROVE StoreShape'
  <2>1. PICK k \in 0..2 : pending' = [pending EXCEPT ![s] = SubSeq(pending[s], k + 1, Len(pending[s]))]
    BY <1>8 DEF WriteFails
  <2>2. Pieces(SubSeq(pending[s], k + 1, Len(pending[s])))
    <3>1. k \in 0..Len(pending[s])
      BY <1>8, <1>a DEF WriteFails
    <3> QED
      BY <3>1, PiecesPart DEF StoreShape
  <2> QED
    BY <1>8, <2>1, <2>2 DEF WriteFails, StoreShape
<1>9. ASSUME NEW s \in Stores, CloseHandle(s) PROVE StoreShape'
  BY <1>9, NothingShape DEF CloseHandle, StoreShape
<1>10. ASSUME NEW s \in Stores, Acknowledge(s) PROVE StoreShape'
  <2>1. IsSeq(Append(cache[s], event[s]))
    BY AppendShape DEF StoreShape
  <2> QED
    BY <1>10, <2>1 DEF Acknowledge, StoreShape
<1>11. ASSUME NEW s \in Stores, SyncFails(s) PROVE StoreShape'
  BY <1>11 DEF SyncFails, StoreShape
<1>12. ASSUME NEW s \in Stores, Crash(s) PROVE StoreShape'
  BY <1>12, NothingShape DEF Crash, StoreShape
<1>13. CASE Outage
  BY <1>13, NothingShape DEF Outage, StoreShape
<1>14. CASE Damage
  BY <1>14 DEF Damage, StoreShape
<1>15. CASE UNCHANGED vars
  BY <1>15 DEF vars, bounds, StoreShape
<1> QED
  BY <1>1, <1>2, <1>3, <1>4, <1>5, <1>6, <1>7, <1>8, <1>9, <1>10, <1>11, <1>12, <1>13, <1>14, <1>15 DEF Next, Step, Quiet

LEMMA EventStep ==
    ASSUME FileShape, StoreShape, LockShape, EventShape, [Next]_vars
    PROVE  EventShape'
<1>1. ASSUME NEW s \in Stores, Open(s) PROVE EventShape'
  BY <1>1 DEF Open, Goto, EventShape, StoreShape, LockShape
<1>2. ASSUME NEW s \in Stores, Read(s) PROVE EventShape'
  BY <1>2 DEF Read, Goto, EventShape, StoreShape, LockShape
<1>3. ASSUME NEW s \in Stores, BeginAppend(s) PROVE EventShape'
  BY <1>3 DEF BeginAppend, Goto, EventShape, StoreShape, LockShape
<1>4. ASSUME NEW s \in Stores, Lock(s) PROVE EventShape'
  BY <1>4 DEF Lock, Goto, EventShape, StoreShape, LockShape
<1>5. ASSUME NEW s \in Stores, Build(s) PROVE EventShape'
  <2>1. event' = [event EXCEPT ![s] = Following(Events(file), s)] /\ pc[s] = "locked"
    BY <1>5 DEF Build, Following
  <2>2. Following(Events(file), s) # NoEvent
    BY <1>5, Verified, Numbered DEF Build
  <2>3. \E q : pending' = [pending EXCEPT ![s] = q]
    BY <1>5 DEF Build
  <2>4. pc' = [pc EXCEPT ![s] = "writing"]
    BY <1>5 DEF Build, Goto
  <2> QED
    BY <2>1, <2>2, <2>3, <2>4 DEF EventShape, StoreShape, LockShape
<1>6. ASSUME NEW s \in Stores, Refuse(s) PROVE EventShape'
  BY <1>6 DEF Refuse, Goto, EventShape, StoreShape, LockShape
<1>7. ASSUME NEW s \in Stores, Write(s) PROVE EventShape'
  BY <1>7 DEF Write, Goto, EventShape, StoreShape, LockShape
<1>8. ASSUME NEW s \in Stores, WriteFails(s) PROVE EventShape'
  BY <1>8 DEF WriteFails, Goto, EventShape, StoreShape, LockShape
<1>9. ASSUME NEW s \in Stores, CloseHandle(s) PROVE EventShape'
  BY <1>9 DEF CloseHandle, Goto, EventShape, StoreShape, LockShape
<1>10. ASSUME NEW s \in Stores, Acknowledge(s) PROVE EventShape'
  BY <1>10 DEF Acknowledge, Goto, EventShape, StoreShape, LockShape
<1>11. ASSUME NEW s \in Stores, SyncFails(s) PROVE EventShape'
  BY <1>11 DEF SyncFails, Goto, EventShape, StoreShape, LockShape
<1>12. ASSUME NEW s \in Stores, Crash(s) PROVE EventShape'
  BY <1>12 DEF Crash, Goto, EventShape, StoreShape, LockShape
<1>13. CASE Outage
  BY <1>13 DEF Outage, Goto, EventShape, StoreShape, LockShape
<1>14. CASE Damage
  BY <1>14 DEF Damage, Goto, EventShape, StoreShape, LockShape
<1>15. CASE UNCHANGED vars
  BY <1>15 DEF vars, bounds, Goto, EventShape, StoreShape, LockShape
<1> QED
  BY <1>1, <1>2, <1>3, <1>4, <1>5, <1>6, <1>7, <1>8, <1>9, <1>10, <1>11, <1>12, <1>13, <1>14, <1>15 DEF Next, Step, Quiet

LEMMA CountStep ==
    ASSUME {appends, faults, crashes, outages, damages} \subseteq Nat, [Next]_vars
    PROVE  ({appends, faults, crashes, outages, damages} \subseteq Nat)'
<1>1. ASSUME NEW s \in Stores, Open(s) PROVE ({appends, faults, crashes, outages, damages} \subseteq Nat)'
  BY <1>1 DEF Open, bounds
<1>2. ASSUME NEW s \in Stores, Read(s) PROVE ({appends, faults, crashes, outages, damages} \subseteq Nat)'
  BY <1>2 DEF Read, bounds
<1>3. ASSUME NEW s \in Stores, BeginAppend(s) PROVE ({appends, faults, crashes, outages, damages} \subseteq Nat)'
  BY <1>3 DEF BeginAppend, bounds
<1>4. ASSUME NEW s \in Stores, Lock(s) PROVE ({appends, faults, crashes, outages, damages} \subseteq Nat)'
  BY <1>4 DEF Lock, bounds
<1>5. ASSUME NEW s \in Stores, Build(s) PROVE ({appends, faults, crashes, outages, damages} \subseteq Nat)'
  BY <1>5 DEF Build, bounds
<1>6. ASSUME NEW s \in Stores, Refuse(s) PROVE ({appends, faults, crashes, outages, damages} \subseteq Nat)'
  BY <1>6 DEF Refuse, bounds
<1>7. ASSUME NEW s \in Stores, Write(s) PROVE ({appends, faults, crashes, outages, damages} \subseteq Nat)'
  BY <1>7 DEF Write, bounds
<1>8. ASSUME NEW s \in Stores, WriteFails(s) PROVE ({appends, faults, crashes, outages, damages} \subseteq Nat)'
  BY <1>8 DEF WriteFails, bounds
<1>9. ASSUME NEW s \in Stores, CloseHandle(s) PROVE ({appends, faults, crashes, outages, damages} \subseteq Nat)'
  BY <1>9 DEF CloseHandle, bounds
<1>10. ASSUME NEW s \in Stores, Acknowledge(s) PROVE ({appends, faults, crashes, outages, damages} \subseteq Nat)'
  BY <1>10 DEF Acknowledge, bounds
<1>11. ASSUME NEW s \in Stores, SyncFails(s) PROVE ({appends, faults, crashes, outages, damages} \subseteq Nat)'
  BY <1>11 DEF SyncFails, bounds
<1>12. ASSUME NEW s \in Stores, Crash(s) PROVE ({appends, faults, crashes, outages, damages} \subseteq Nat)'
  BY <1>12 DEF Crash, bounds
<1>13. CASE Outage
  BY <1>13 DEF Outage, bounds
<1>14. CASE Damage
  BY <1>14 DEF Damage, bounds
<1>15. CASE UNCHANGED vars
  BY <1>15 DEF vars, bounds, bounds
<1> QED
  BY <1>1, <1>2, <1>3, <1>4, <1>5, <1>6, <1>7, <1>8, <1>9, <1>10, <1>11, <1>12, <1>13, <1>14, <1>15 DEF Next, Step, Quiet

LEMMA ShapeStep ==
    ASSUME ShapeInv, ChainInv, [Next]_vars
    PROVE  ShapeInv'
<1>1. FileShape' /\ StoreShape' /\ LockShape' /\ EventShape'
  BY FileStep, StoreStep, LockStep, EventStep DEF ShapeInv
<1>2. ({appends, faults, crashes, outages, damages} \subseteq Nat)'
  BY CountStep DEF ShapeInv
<1> QED
  BY <1>1, <1>2 DEF ShapeInv

LEMMA TypesHold ==
    ASSUME ShapeInv
    PROVE  TypeOK
<1>1. DOMAIN file = 1..Len(file)
  BY SeqTyped DEF ShapeInv, FileShape, Pieces
<1> QED
  BY <1>1 DEF ShapeInv, FileShape, StoreShape, LockShape, EventShape, Pieces, TypeOK

-----------------------------------------------------------------------------
(* The hash chain                                                          *)

LEMMA ChainNothing == Chain(<<>>)
BY DEF Chain, Verifies

LEMMA ChainAppend ==
    ASSUME NEW q, IsSeq(q), Chain(q), NEW body
    PROVE  Chain(Append(q, Following(q, body)))
<1> DEFINE e == Following(q, body)
           r == Append(q, e)
<1>1. /\ DOMAIN q = 1..Len(q) /\ Len(q) \in Nat
      /\ IsSeq(r) /\ Len(r) = Len(q) + 1
      /\ \A i \in 1..Len(q) : r[i] = q[i]
      /\ r[Len(q) + 1] = e
  BY AppendShape, SeqTyped
<1>2. DOMAIN r = 1..Len(q) + 1
  BY <1>1, SeqTyped
<1>3. /\ e.sequence = Len(q) + 1
      /\ e.previous = (IF q = <<>> THEN NoHash ELSE q[Len(q)].hash)
      /\ e.hash = Digest(Len(q) + 1, e.previous, e.body)
      /\ IsEvent(e)
  BY DEF Following, Event, Digest, IsEvent, Last
<1>4. q = <<>> <=> Len(q) = 0
  BY <1>1
<1> HIDE DEF e, r
<1>5. ASSUME NEW k \in 1..Len(q)
      PROVE  /\ r[k].sequence = k
             /\ r[k].previous = IF k = 1 THEN NoHash ELSE r[k - 1].hash
             /\ r[k].hash = Digest(k, r[k].previous, r[k].body)
             /\ IsEvent(r[k])
  <2>1. r[k] = q[k] /\ (k # 1 => r[k - 1] = q[k - 1])
    BY <1>1
  <2> QED
    BY <1>1, <2>1, Zenon DEF Chain, Verifies
<1>6. LET k == Len(q) + 1 IN
      /\ r[k].sequence = k
      /\ r[k].previous = IF k = 1 THEN NoHash ELSE r[k - 1].hash
      /\ r[k].hash = Digest(k, r[k].previous, r[k].body)
      /\ IsEvent(r[k])
  <2>1. Len(q) + 1 = 1 <=> q = <<>>
    BY <1>1, <1>4
  <2>2. q # <<>> => r[(Len(q) + 1) - 1] = q[Len(q)]
    BY <1>1, <1>4
  <2> QED
    BY <1>1, <1>3, <2>1, <2>2
<1>7. \A k \in 1..Len(q) + 1 : k \in 1..Len(q) \/ k = Len(q) + 1
  BY <1>1
<1>8. Verifies(r)
  BY <1>2, <1>5, <1>6, <1>7 DEF Verifies
<1>9. \A k \in 1..Len(q) + 1 : IsEvent(r[k])
  BY <1>5, <1>6, <1>7
<1> QED
  BY <1>2, <1>8, <1>9 DEF Chain, r, e

LEMMA ChainStep ==
    ASSUME ShapeInv, ChainInv, [Next]_vars
    PROVE  ChainInv'
<1>1. ASSUME NEW s \in Stores, Open(s) PROVE ChainInv'
  <2>1. Chain(Events(file))
    BY <1>1, Verified DEF Open, ShapeInv
  <2> QED
    BY <1>1, <2>1 DEF Open, Goto, ChainInv, ShapeInv, StoreShape, LockShape, Pcs
<1>2. ASSUME NEW s \in Stores, Read(s) PROVE ChainInv'
  <2>1. Chain(Events(file))
    BY <1>2, Verified DEF Read, ShapeInv
  <2> QED
    BY <1>2, <2>1 DEF Read, Goto, ChainInv, ShapeInv, StoreShape, LockShape, Pcs
<1>3. ASSUME NEW s \in Stores, BeginAppend(s) PROVE ChainInv'
  BY <1>3 DEF BeginAppend, Goto, ChainInv, ShapeInv, StoreShape, LockShape, Pcs
<1>4. ASSUME NEW s \in Stores, Lock(s) PROVE ChainInv'
  BY <1>4 DEF Lock, Goto, ChainInv, ShapeInv, StoreShape, LockShape, Pcs
<1>5. ASSUME NEW s \in Stores, Build(s) PROVE ChainInv'
  <2> DEFINE es == Events(file)
             new == Following(es, s)
  <2>1. Chain(es)
    BY <1>5, Verified DEF Build, ShapeInv
  <2>2. /\ cache' = [cache EXCEPT ![s] = es]
        /\ event' = [event EXCEPT ![s] = new]
        /\ pending' = [pending EXCEPT ![s] = LineOf(new)]
        /\ pc' = [pc EXCEPT ![s] = "writing"]
    BY <1>5 DEF Build, Goto, Following
  <2> HIDE DEF es
  <2>3. /\ cache'[s] = es /\ event'[s] = Following(es, s)
        /\ pending'[s] = LineOf(event'[s])
        /\ \A t \in Stores \ {s} : /\ cache'[t] = cache[t] /\ event'[t] = event[t]
                                  /\ pending'[t] = pending[t] /\ pc'[t] = pc[t]
    BY <2>2 DEF ShapeInv, StoreShape, LockShape
  <2> QED
    BY <2>1, <2>3 DEF ChainInv
<1>6. ASSUME NEW s \in Stores, Refuse(s) PROVE ChainInv'
  BY <1>6 DEF Refuse, Goto, ChainInv, ShapeInv, StoreShape, LockShape, Pcs
<1>7. ASSUME NEW s \in Stores, Write(s) PROVE ChainInv'
  BY <1>7 DEF Write, Goto, ChainInv, ShapeInv, StoreShape, LockShape, Pcs
<1>8. ASSUME NEW s \in Stores, WriteFails(s) PROVE ChainInv'
  BY <1>8 DEF WriteFails, Goto, ChainInv, ShapeInv, StoreShape, LockShape, Pcs
<1>9. ASSUME NEW s \in Stores, CloseHandle(s) PROVE ChainInv'
  BY <1>9 DEF CloseHandle, Goto, ChainInv, ShapeInv, StoreShape, LockShape, Pcs
<1>10. ASSUME NEW s \in Stores, Acknowledge(s) PROVE ChainInv'
  <2>1. Chain(Append(cache[s], event[s]))
    BY <1>10, ChainAppend DEF Acknowledge, ChainInv, ShapeInv, StoreShape
  <2> QED
    BY <1>10, <2>1 DEF Acknowledge, Goto, ChainInv, ShapeInv, StoreShape, LockShape, Pcs
<1>11. ASSUME NEW s \in Stores, SyncFails(s) PROVE ChainInv'
  BY <1>11 DEF SyncFails, Goto, ChainInv, ShapeInv, StoreShape, LockShape, Pcs
<1>12. ASSUME NEW s \in Stores, Crash(s) PROVE ChainInv'
  BY <1>12, ChainNothing DEF Crash, Goto, ChainInv, ShapeInv, StoreShape, LockShape, Pcs
<1>13. CASE Outage
  BY <1>13, ChainNothing DEF Outage, Goto, ChainInv, ShapeInv, StoreShape, LockShape, Pcs
<1>14. CASE Damage
  BY <1>14 DEF Damage, Goto, ChainInv, ShapeInv, StoreShape, LockShape, Pcs
<1>15. CASE UNCHANGED vars
  BY <1>15 DEF vars, bounds, Goto, ChainInv, ShapeInv, StoreShape, LockShape, Pcs
<1> QED
  BY <1>1, <1>2, <1>3, <1>4, <1>5, <1>6, <1>7, <1>8, <1>9, <1>10, <1>11, <1>12, <1>13, <1>14, <1>15 DEF Next, Step, Quiet

-----------------------------------------------------------------------------
(* Histories                                                               *)

LEMMA PrefixByItems ==
    ASSUME NEW q, IsSeq(q), NEW r, IsSeq(r)
    PROVE  IsPrefix(q, r) <=> Len(q) <= Len(r) /\ \A k \in 1..Len(q) : q[k] = r[k]
<1>1. PICK P : q \in Seq(P) /\ r \in Seq(P)
  BY SeqsOf
<1>2. CASE Len(q) <= Len(r)
  <2> DEFINE a == SubSeq(q, 1, Len(q))
             b == SubSeq(r, 1, Len(q))
  <2>1. /\ a \in Seq(P) /\ Len(a) = Len(q) /\ \A k \in 1..Len(q) : a[k] = q[k]
        /\ b \in Seq(P) /\ Len(b) = Len(q) /\ \A k \in 1..Len(q) : b[k] = r[k]
    BY <1>1, <1>2
  <2>2. IsPrefix(q, r) <=> a = b
    BY <1>2 DEF IsPrefix
  <2> HIDE DEF a, b
  <2>3. a = b <=> \A k \in 1..Len(q) : a[k] = b[k]
    BY <2>1, SeqEqual
  <2> QED
    BY <1>2, <2>1, <2>2, <2>3
<1>3. CASE ~(Len(q) <= Len(r))
  BY <1>3 DEF IsPrefix
<1> QED
  BY <1>2, <1>3

LEMMA PrefixTransitive ==
    ASSUME NEW q, IsSeq(q), NEW r, IsSeq(r), NEW t, IsSeq(t), IsPrefix(q, r), IsPrefix(r, t)
    PROVE  IsPrefix(q, t)
<1>1. /\ Len(q) <= Len(r) /\ \A k \in 1..Len(q) : q[k] = r[k]
      /\ Len(r) <= Len(t) /\ \A k \in 1..Len(r) : r[k] = t[k]
      /\ Len(q) \in Nat /\ Len(r) \in Nat /\ Len(t) \in Nat
  BY PrefixByItems DEF IsSeq
<1> HIDE DEF IsSeq
<1>2. \A k \in 1..Len(q) : k \in 1..Len(r) /\ q[k] = t[k]
  BY <1>1
<1>3. Len(q) <= Len(t)
  BY <1>1
<1> QED
  BY <1>2, <1>3, PrefixByItems

LEMMA PrefixAppend ==
    ASSUME NEW q, IsSeq(q), NEW r, IsSeq(r), IsPrefix(q, r), NEW x
    PROVE  IsPrefix(q, Append(r, x))
<1>1. /\ Len(q) <= Len(r) /\ \A k \in 1..Len(q) : q[k] = r[k]
      /\ Len(q) \in Nat /\ Len(r) \in Nat
  BY PrefixByItems DEF IsSeq
<1>2. /\ IsSeq(Append(r, x)) /\ Len(Append(r, x)) = Len(r) + 1
      /\ \A k \in 1..Len(r) : Append(r, x)[k] = r[k]
  BY AppendShape
<1>3. \A k \in 1..Len(q) : k \in 1..Len(r) /\ q[k] = Append(r, x)[k]
  BY <1>1, <1>2
<1>4. Len(q) <= Len(Append(r, x))
  BY <1>1, <1>2
<1> QED
  BY <1>2, <1>3, <1>4, PrefixByItems

LEMMA PrefixSelf ==
    ASSUME NEW q, IsSeq(q)
    PROVE  IsPrefix(q, q) /\ IsPrefix(<<>>, q)
<1>1. Len(q) \in Nat /\ IsSeq(<<>>) /\ Len(<<>>) = 0
  BY NothingShape DEF IsSeq
<1> QED
  BY <1>1, PrefixByItems

\* Two chains whose hashes agree are the same chain.
LEMMA SameHashes ==
    ASSUME NEW q, IsSeq(q), Chain(q), NEW r, IsSeq(r), Chain(r), Len(q) <= Len(r),
           \A k \in 1..Len(q) : q[k].hash = r[k].hash
    PROVE  IsPrefix(q, r)
<1>1. /\ DOMAIN q = 1..Len(q) /\ Len(q) \in Nat /\ DOMAIN r = 1..Len(r) /\ Len(r) \in Nat
      /\ 1..Len(q) \subseteq 1..Len(r)
  BY SeqTyped
<1>2. ASSUME NEW k \in 1..Len(q)
      PROVE  q[k] = r[k]
  <2>1. k \in 1..Len(r)
    BY <1>1
  <2>2. /\ q[k].hash = Digest(k, q[k].previous, q[k].body) /\ q[k].sequence = k
        /\ r[k].hash = Digest(k, r[k].previous, r[k].body) /\ r[k].sequence = k
        /\ IsEvent(q[k]) /\ IsEvent(r[k])
    BY <1>1, <2>1 DEF Chain, Verifies
  <2>3. q[k].previous = r[k].previous /\ q[k].body = r[k].body
    BY <2>2 DEF Digest
  <2> QED
    BY <2>2, <2>3 DEF IsEvent
<1> QED
  BY <1>1, <1>2, PrefixByItems

\* What an instance reads goes on from what it knew.
LEMMA ReadGoesOn ==
    ASSUME ShapeInv, ChainInv, NEW s \in Stores, Accepts(s)
    PROVE  IsPrefix(cache[s], Events(file))
<1> DEFINE es == Events(file)
<1>1. IsSeq(es) /\ Chain(es) /\ KeepsPrefix(es, s)
  BY Verified DEF ShapeInv
<1> HIDE DEF es
<1>2. IsSeq(cache[s]) /\ Chain(cache[s])
  BY DEF ShapeInv, StoreShape, ChainInv
<1>3. Len(cache[s]) <= Len(es) /\ DOMAIN cache[s] = 1..Len(cache[s])
  BY <1>1, <1>2, SeqTyped DEF KeepsPrefix, IsSeq
<1>4. \A k \in 1..Len(cache[s]) : cache[s][k].hash = es[k].hash
  BY <1>1, <1>3 DEF KeepsPrefix
<1> QED
  BY <1>1, <1>2, <1>3, <1>4, SameHashes DEF es

\* Most steps leave what the instances know alone.
LEMMA CacheSame ==
    ASSUME ShapeInv, UNCHANGED cache
    PROVE  \A t \in Stores : IsPrefix(cache[t], cache'[t])
BY PrefixSelf DEF ShapeInv, StoreShape

\* What an instance knows of the history only grows while its process runs.
LEMMA HistoryGrows ==
    ASSUME ShapeInv, ChainInv, [Next]_vars
    PROVE  \A t \in Stores : pc[t] # "down" /\ pc'[t] # "down" => IsPrefix(cache[t], cache'[t])
<1>1. ASSUME NEW s \in Stores, Open(s) PROVE \A t \in Stores : pc[t] # "down" /\ pc'[t] # "down" => IsPrefix(cache[t], cache'[t])
  BY <1>1, PrefixSelf DEF Open, ShapeInv, StoreShape, LockShape, Pcs, Goto
<1>2. ASSUME NEW s \in Stores, Read(s) PROVE \A t \in Stores : pc[t] # "down" /\ pc'[t] # "down" => IsPrefix(cache[t], cache'[t])
  <2>1. IsPrefix(cache[s], Events(file)) /\ cache' = [cache EXCEPT ![s] = Events(file)]
    BY <1>2, ReadGoesOn DEF Read
  <2> QED
    BY <2>1, PrefixSelf DEF ShapeInv, StoreShape, LockShape, Pcs, Goto
<1>3. ASSUME NEW s \in Stores, BeginAppend(s) PROVE \A t \in Stores : pc[t] # "down" /\ pc'[t] # "down" => IsPrefix(cache[t], cache'[t])
  BY <1>3, CacheSame DEF BeginAppend
<1>4. ASSUME NEW s \in Stores, Lock(s) PROVE \A t \in Stores : pc[t] # "down" /\ pc'[t] # "down" => IsPrefix(cache[t], cache'[t])
  BY <1>4, CacheSame DEF Lock
<1>5. ASSUME NEW s \in Stores, Build(s) PROVE \A t \in Stores : pc[t] # "down" /\ pc'[t] # "down" => IsPrefix(cache[t], cache'[t])
  <2>1. IsPrefix(cache[s], Events(file)) /\ cache' = [cache EXCEPT ![s] = Events(file)]
    BY <1>5, ReadGoesOn DEF Build
  <2> QED
    BY <2>1, PrefixSelf DEF ShapeInv, StoreShape, LockShape, Pcs, Goto
<1>6. ASSUME NEW s \in Stores, Refuse(s) PROVE \A t \in Stores : pc[t] # "down" /\ pc'[t] # "down" => IsPrefix(cache[t], cache'[t])
  BY <1>6, CacheSame DEF Refuse
<1>7. ASSUME NEW s \in Stores, Write(s) PROVE \A t \in Stores : pc[t] # "down" /\ pc'[t] # "down" => IsPrefix(cache[t], cache'[t])
  BY <1>7, CacheSame DEF Write
<1>8. ASSUME NEW s \in Stores, WriteFails(s) PROVE \A t \in Stores : pc[t] # "down" /\ pc'[t] # "down" => IsPrefix(cache[t], cache'[t])
  BY <1>8, CacheSame DEF WriteFails
<1>9. ASSUME NEW s \in Stores, CloseHandle(s) PROVE \A t \in Stores : pc[t] # "down" /\ pc'[t] # "down" => IsPrefix(cache[t], cache'[t])
  BY <1>9, CacheSame DEF CloseHandle
<1>10. ASSUME NEW s \in Stores, Acknowledge(s) PROVE \A t \in Stores : pc[t] # "down" /\ pc'[t] # "down" => IsPrefix(cache[t], cache'[t])
  <2>1. IsPrefix(cache[s], Append(cache[s], event[s]))
    BY PrefixSelf, PrefixAppend DEF ShapeInv, StoreShape
  <2> QED
    BY <1>10, <2>1, PrefixSelf DEF Acknowledge, ShapeInv, StoreShape, LockShape, Pcs, Goto
<1>11. ASSUME NEW s \in Stores, SyncFails(s) PROVE \A t \in Stores : pc[t] # "down" /\ pc'[t] # "down" => IsPrefix(cache[t], cache'[t])
  BY <1>11, CacheSame DEF SyncFails
<1>12. ASSUME NEW s \in Stores, Crash(s) PROVE \A t \in Stores : pc[t] # "down" /\ pc'[t] # "down" => IsPrefix(cache[t], cache'[t])
  BY <1>12, PrefixSelf DEF Crash, ShapeInv, StoreShape, LockShape, Pcs, Goto
<1>13. CASE Outage
  BY <1>13 DEF Outage
<1>14. CASE Damage
  BY <1>14, CacheSame DEF Damage
<1>15. CASE UNCHANGED vars
  BY <1>15, CacheSame DEF vars
<1> QED
  BY <1>1, <1>2, <1>3, <1>4, <1>5, <1>6, <1>7, <1>8, <1>9, <1>10, <1>11, <1>12, <1>13, <1>14, <1>15 DEF Next, Step, Quiet

-----------------------------------------------------------------------------
(* Durability                                                              *)

LEMMA CountsGrow ==
    ASSUME {appends, faults, crashes, outages, damages} \subseteq Nat, [Next]_vars
    PROVE  faults <= faults' /\ crashes <= crashes' /\ outages <= outages' /\ damages <= damages'
<1>1. ASSUME NEW s \in Stores, Open(s) PROVE faults <= faults' /\ crashes <= crashes' /\ outages <= outages' /\ damages <= damages'
  BY <1>1 DEF Open, bounds
<1>2. ASSUME NEW s \in Stores, Read(s) PROVE faults <= faults' /\ crashes <= crashes' /\ outages <= outages' /\ damages <= damages'
  BY <1>2 DEF Read, bounds
<1>3. ASSUME NEW s \in Stores, BeginAppend(s) PROVE faults <= faults' /\ crashes <= crashes' /\ outages <= outages' /\ damages <= damages'
  BY <1>3 DEF BeginAppend, bounds
<1>4. ASSUME NEW s \in Stores, Lock(s) PROVE faults <= faults' /\ crashes <= crashes' /\ outages <= outages' /\ damages <= damages'
  BY <1>4 DEF Lock, bounds
<1>5. ASSUME NEW s \in Stores, Build(s) PROVE faults <= faults' /\ crashes <= crashes' /\ outages <= outages' /\ damages <= damages'
  BY <1>5 DEF Build, bounds
<1>6. ASSUME NEW s \in Stores, Refuse(s) PROVE faults <= faults' /\ crashes <= crashes' /\ outages <= outages' /\ damages <= damages'
  BY <1>6 DEF Refuse, bounds
<1>7. ASSUME NEW s \in Stores, Write(s) PROVE faults <= faults' /\ crashes <= crashes' /\ outages <= outages' /\ damages <= damages'
  BY <1>7 DEF Write, bounds
<1>8. ASSUME NEW s \in Stores, WriteFails(s) PROVE faults <= faults' /\ crashes <= crashes' /\ outages <= outages' /\ damages <= damages'
  BY <1>8 DEF WriteFails, bounds
<1>9. ASSUME NEW s \in Stores, CloseHandle(s) PROVE faults <= faults' /\ crashes <= crashes' /\ outages <= outages' /\ damages <= damages'
  BY <1>9 DEF CloseHandle, bounds
<1>10. ASSUME NEW s \in Stores, Acknowledge(s) PROVE faults <= faults' /\ crashes <= crashes' /\ outages <= outages' /\ damages <= damages'
  BY <1>10 DEF Acknowledge, bounds
<1>11. ASSUME NEW s \in Stores, SyncFails(s) PROVE faults <= faults' /\ crashes <= crashes' /\ outages <= outages' /\ damages <= damages'
  BY <1>11 DEF SyncFails, bounds
<1>12. ASSUME NEW s \in Stores, Crash(s) PROVE faults <= faults' /\ crashes <= crashes' /\ outages <= outages' /\ damages <= damages'
  BY <1>12 DEF Crash, bounds
<1>13. CASE Outage
  BY <1>13 DEF Outage, bounds
<1>14. CASE Damage
  BY <1>14 DEF Damage, bounds
<1>15. CASE UNCHANGED vars
  BY <1>15 DEF vars, bounds, bounds
<1> QED
  BY <1>1, <1>2, <1>3, <1>4, <1>5, <1>6, <1>7, <1>8, <1>9, <1>10, <1>11, <1>12, <1>13, <1>14, <1>15 DEF Next, Step, Quiet

LEMMA StillUndamaged ==
    ASSUME ShapeInv, [Next]_vars, Undamaged'
    PROVE  Undamaged /\ ~Damage
<1>1. damages <= damages' /\ damages \in Nat
  BY CountsGrow DEF ShapeInv
<1>2. Damage => damages' = damages + 1
  BY DEF Damage
<1> QED
  BY <1>1, <1>2 DEF Undamaged

LEMMA StillUndisturbed ==
    ASSUME ShapeInv, [Next]_vars, Undisturbed'
    PROVE  Undisturbed /\ UNCHANGED <<faults, crashes, outages, damages>>
<1>1. faults <= faults' /\ crashes <= crashes' /\ outages <= outages' /\ damages <= damages'
  BY CountsGrow DEF ShapeInv
<1>2. {faults, crashes, outages, damages} \subseteq Nat
  BY DEF ShapeInv
<1>3. ({faults, crashes, outages, damages} \subseteq Nat)'
  BY CountStep DEF ShapeInv
<1> QED
  BY <1>1, <1>2, <1>3 DEF Undisturbed

\* What a file holds it holds when more is written.
LEMMA HoldsStays ==
    ASSUME NEW f, Pieces(f), NEW more, Pieces(more), NEW n \in 0..Len(f), NEW e, Holds(f, n, e)
    PROVE  Holds(f \o more, n, e) /\ Holds(f \o more, Len(f \o more), e)
<1>1. /\ Len(f \o more) = Len(f) + Len(more) /\ \A i \in 1..Len(f) : (f \o more)[i] = f[i]
      /\ Len(f) \in Nat /\ Len(more) \in Nat
  BY PiecesConcat DEF Pieces, IsSeq
<1>2. PICK i \in 1..n - 1 : f[i] = Opening(e) /\ f[i + 1] = Closing(e)
  BY DEF Holds
<1>3. /\ i \in 1..Len(f) /\ i + 1 \in 1..Len(f) /\ i \in 1..Len(f \o more) - 1
  BY <1>1
<1> QED
  BY <1>1, <1>2, <1>3 DEF Holds

LEMMA HoldsPart ==
    ASSUME NEW f, Pieces(f), NEW m \in 0..Len(f), NEW n \in 0..m, NEW e, Holds(f, n, e)
    PROVE  Holds(SubSeq(f, 1, m), m, e) /\ Holds(f, m, e)
<1>1. \A i \in 1..m : SubSeq(f, 1, m)[i] = f[i]
  BY PiecesPart
<1>2. PICK i \in 1..n - 1 : f[i] = Opening(e) /\ f[i + 1] = Closing(e)
  BY DEF Holds
<1>3. m \in Nat /\ n \in Nat /\ n <= m
  BY DEF Pieces, IsSeq
<1>4. i \in 1..m /\ i + 1 \in 1..m /\ i \in 1..m - 1
  BY <1>3
<1> QED
  BY <1>1, <1>2, <1>4 DEF Holds

LEMMA HoldsLine ==
    ASSUME NEW f, Pieces(f), NEW e
    PROVE  Holds(f \o LineOf(e), Len(f \o LineOf(e)), e)
<1> DEFINE line == LineOf(e)
           g == f \o line
<1>0. Len(f) \in Nat
  BY DEF Pieces, IsSeq
<1>1. Pieces(line) /\ Len(line) = 3 /\ line[1] = Opening(e) /\ line[2] = Closing(e)
  BY LineShape DEF LineOf
<1> HIDE DEF line
<1>2. /\ Len(g) = Len(f) + 3 /\ Len(f) \in Nat
      /\ \A i \in 1..3 : g[Len(f) + i] = line[i]
  <2>a. Pieces(f) /\ Pieces(line)
    BY <1>1
  <2>1. Len(g) = Len(f) + Len(line) /\ \A i \in 1..Len(line) : g[Len(f) + i] = line[i]
    BY <2>a, PiecesConcat
  <2> HIDE DEF g
  <2> QED
    BY <1>0, <1>1, <2>1
<1> HIDE DEF g
<1>3. Len(f) + 1 \in 1..Len(g) - 1 /\ (Len(f) + 1) + 1 = Len(f) + 2
  BY <1>2
<1>4. g[Len(f) + 1] = Opening(e) /\ g[Len(f) + 2] = Closing(e)
  BY <1>1, <1>2
<1>5. Holds(g, Len(g), e)
  BY <1>3, <1>4 DEF Holds
<1> QED
  BY <1>5 DEF g, line

LEMMA DurableStep ==
    ASSUME ShapeInv, ChainInv, DurableInv, [Next]_vars
    PROVE  DurableInv'
<1> SUFFICES ASSUME Undamaged'
             PROVE  DurableInv'
  BY DEF DurableInv
<1>u. Undamaged /\ ~Damage
  BY StillUndamaged
<1>a. /\ \A k \in 1..Len(acked) : Holds(file, synced, acked[k])
      /\ \A t \in Stores : pc[t] = "written" => Holds(file, Len(file), event[t])
      /\ DOMAIN acked = 1..Len(acked) /\ IsSeq(acked) /\ Len(acked) \in Nat
      /\ Pieces(file) /\ synced \in 0..Len(file) /\ Len(file) \in Nat
  BY <1>u, SeqTyped DEF DurableInv, ShapeInv, FileShape, Pieces, IsSeq
<1>g. \A more : Pieces(more) =>
         /\ \A k \in 1..Len(acked) : Holds(file \o more, synced, acked[k])
         /\ \A t \in Stores :
              pc[t] = "written" => Holds(file \o more, Len(file \o more), event[t])
  <2> SUFFICES ASSUME NEW more, Pieces(more)
               PROVE  /\ \A k \in 1..Len(acked) : Holds(file \o more, synced, acked[k])
                      /\ \A t \in Stores :
                           pc[t] = "written" => Holds(file \o more, Len(file \o more), event[t])
    OBVIOUS
  <2>1. Len(file) \in 0..Len(file)
    BY <1>a
  <2> QED
    BY <1>a, <2>1, HoldsStays
<1>l. \A s \in Stores : pc[s] = "writing" => Len(pending[s]) = 3
  BY LineShape DEF ChainInv
<1>p. \A s \in Stores : \A k \in 0..Len(pending[s]) : Pieces(SubSeq(pending[s], 1, k))
  BY PiecesPart DEF ShapeInv, StoreShape
<1>1. ASSUME NEW s \in Stores, Open(s) PROVE DurableInv'
  <2>1. /\ UNCHANGED <<file, synced, acked>>
        /\ \A t \in Stores : pc'[t] = "written" => pc[t] = "written" /\ event'[t] = event[t]
    BY <1>1 DEF Open, Goto, DurableInv, ShapeInv, StoreShape, LockShape, Pcs
  <2> QED
    BY <1>a, <2>1 DEF DurableInv
<1>2. ASSUME NEW s \in Stores, Read(s) PROVE DurableInv'
  <2>1. /\ UNCHANGED <<file, synced, acked>>
        /\ \A t \in Stores : pc'[t] = "written" => pc[t] = "written" /\ event'[t] = event[t]
    BY <1>2 DEF Read, Goto, DurableInv, ShapeInv, StoreShape, LockShape, Pcs
  <2> QED
    BY <1>a, <2>1 DEF DurableInv
<1>3. ASSUME NEW s \in Stores, BeginAppend(s) PROVE DurableInv'
  <2>1. /\ UNCHANGED <<file, synced, acked>>
        /\ \A t \in Stores : pc'[t] = "written" => pc[t] = "written" /\ event'[t] = event[t]
    BY <1>3 DEF BeginAppend, Goto, DurableInv, ShapeInv, StoreShape, LockShape, Pcs
  <2> QED
    BY <1>a, <2>1 DEF DurableInv
<1>4. ASSUME NEW s \in Stores, Lock(s) PROVE DurableInv'
  <2>1. /\ UNCHANGED <<file, synced, acked>>
        /\ \A t \in Stores : pc'[t] = "written" => pc[t] = "written" /\ event'[t] = event[t]
    BY <1>4 DEF Lock, Goto, DurableInv, ShapeInv, StoreShape, LockShape, Pcs
  <2> QED
    BY <1>a, <2>1 DEF DurableInv
<1>5. ASSUME NEW s \in Stores, Build(s) PROVE DurableInv'
  <2>1. /\ UNCHANGED <<file, synced, acked>>
        /\ \A t \in Stores : pc'[t] = "written" => pc[t] = "written" /\ event'[t] = event[t]
    BY <1>5 DEF Build, Goto, DurableInv, ShapeInv, StoreShape, LockShape, Pcs
  <2> QED
    BY <1>a, <2>1 DEF DurableInv
<1>6. ASSUME NEW s \in Stores, Refuse(s) PROVE DurableInv'
  <2>1. /\ UNCHANGED <<file, synced, acked>>
        /\ \A t \in Stores : pc'[t] = "written" => pc[t] = "written" /\ event'[t] = event[t]
    BY <1>6 DEF Refuse, Goto, DurableInv, ShapeInv, StoreShape, LockShape, Pcs
  <2> QED
    BY <1>a, <2>1 DEF DurableInv
<1>7. ASSUME NEW s \in Stores, Write(s) PROVE DurableInv'
  <2>1. /\ Pieces(LineOf(event[s])) /\ file' = file \o LineOf(event[s])
        /\ UNCHANGED <<synced, acked, event>>
    BY <1>7, LineShape DEF Write, ChainInv
  <2>2. \A k \in 1..Len(acked) : Holds(file', synced, acked[k])
    BY <1>g, <2>1
  <2>3. Holds(file', Len(file'), event[s])
    BY <1>a, <2>1, HoldsLine
  <2>4. \A t \in Stores : pc'[t] = "written" => t = s
    BY <1>7 DEF Write, Goto, DurableInv, ShapeInv, StoreShape, LockShape, Pcs
  <2> QED
    BY <1>a, <2>1, <2>2, <2>3, <2>4 DEF DurableInv
<1>8. ASSUME NEW s \in Stores, WriteFails(s) PROVE DurableInv'
  <2>a. PICK k \in 0..2 : file' = file \o SubSeq(pending[s], 1, k)
    BY <1>8 DEF WriteFails
  <2>1. k \in 0..Len(pending[s]) /\ file' = file \o SubSeq(pending[s], 1, k)
    BY <1>8, <1>l, <2>a DEF WriteFails
  <2>2. Pieces(SubSeq(pending[s], 1, k))
    BY <1>p, <2>1
  <2> DEFINE more == SubSeq(pending[s], 1, k)
  <2>3. file' = file \o more /\ Pieces(more)
    BY <2>1, <2>2
  <2> HIDE DEF more
  <2>4. /\ \A j \in 1..Len(acked) : Holds(file', synced, acked[j])
        /\ \A t \in Stores : pc[t] = "written" => Holds(file', Len(file'), event[t])
    BY <1>g, <2>3
  <2>5. /\ UNCHANGED <<synced, acked>>
        /\ \A t \in Stores : pc'[t] = "written" => pc[t] = "written" /\ event'[t] = event[t]
    BY <1>8 DEF WriteFails, Goto, DurableInv, ShapeInv, StoreShape, LockShape, Pcs
  <2> QED
    BY <1>a, <2>4, <2>5 DEF DurableInv
<1>9. ASSUME NEW s \in Stores, CloseHandle(s) PROVE DurableInv'
  <2>a. PICK k \in 0..Len(pending[s]) : file' = file \o SubSeq(pending[s], 1, k)
    BY <1>9 DEF CloseHandle
  <2>1. k \in 0..Len(pending[s]) /\ file' = file \o SubSeq(pending[s], 1, k)
    BY <1>9, <1>l, <2>a DEF CloseHandle
  <2>2. Pieces(SubSeq(pending[s], 1, k))
    BY <1>p, <2>1
  <2> DEFINE more == SubSeq(pending[s], 1, k)
  <2>3. file' = file \o more /\ Pieces(more)
    BY <2>1, <2>2
  <2> HIDE DEF more
  <2>4. /\ \A j \in 1..Len(acked) : Holds(file', synced, acked[j])
        /\ \A t \in Stores : pc[t] = "written" => Holds(file', Len(file'), event[t])
    BY <1>g, <2>3
  <2>5. /\ UNCHANGED <<synced, acked>>
        /\ \A t \in Stores : pc'[t] = "written" => pc[t] = "written" /\ event'[t] = event[t]
    BY <1>9 DEF CloseHandle, Goto, DurableInv, ShapeInv, StoreShape, LockShape, Pcs
  <2> QED
    BY <1>a, <2>4, <2>5 DEF DurableInv
<1>10. ASSUME NEW s \in Stores, Acknowledge(s) PROVE DurableInv'
  <2>1. synced' = Len(file) /\ file' = file /\ acked' = Append(acked, event[s]) /\ pc[s] = "written"
    BY <1>10 DEF Acknowledge
  <2>2. Holds(file, Len(file), event[s])
    BY <1>a, <2>1
  <2>3. \A k \in 1..Len(acked) : Holds(file, Len(file), acked[k])
    <3>1. Len(file) \in 0..Len(file) /\ synced \in 0..Len(file)
      BY <1>a
    <3> QED
      BY <1>a, <3>1, HoldsPart
  <2>4. /\ DOMAIN acked' = 1..Len(acked) + 1 /\ acked'[Len(acked) + 1] = event[s]
        /\ \A k \in 1..Len(acked) : acked'[k] = acked[k]
    BY <1>a, <2>1, AppendShape, SeqTyped
  <2>5. \A k \in 1..Len(acked) + 1 : k \in 1..Len(acked) \/ k = Len(acked) + 1
    BY <1>a
  <2>6. \A k \in DOMAIN acked' : Holds(file', synced', acked'[k])
    BY <2>1, <2>2, <2>3, <2>4, <2>5
  <2>7. \A t \in Stores : pc'[t] # "written"
    BY <1>10 DEF Acknowledge, Goto, DurableInv, ShapeInv, StoreShape, LockShape, Pcs
  <2> QED
    BY <2>6, <2>7 DEF DurableInv
<1>11. ASSUME NEW s \in Stores, SyncFails(s) PROVE DurableInv'
  <2>1. /\ UNCHANGED <<file, synced, acked>>
        /\ \A t \in Stores : pc'[t] = "written" => pc[t] = "written" /\ event'[t] = event[t]
    BY <1>11 DEF SyncFails, Goto, DurableInv, ShapeInv, StoreShape, LockShape, Pcs
  <2> QED
    BY <1>a, <2>1 DEF DurableInv
<1>12. ASSUME NEW s \in Stores, Crash(s) PROVE DurableInv'
  <2>a. PICK k \in 0..Len(pending[s]) : file' = file \o SubSeq(pending[s], 1, k)
    BY <1>12 DEF Crash
  <2>1. k \in 0..Len(pending[s]) /\ file' = file \o SubSeq(pending[s], 1, k)
    BY <1>12, <1>l, <2>a DEF Crash
  <2>2. Pieces(SubSeq(pending[s], 1, k))
    BY <1>p, <2>1
  <2> DEFINE more == SubSeq(pending[s], 1, k)
  <2>3. file' = file \o more /\ Pieces(more)
    BY <2>1, <2>2
  <2> HIDE DEF more
  <2>4. /\ \A j \in 1..Len(acked) : Holds(file', synced, acked[j])
        /\ \A t \in Stores : pc[t] = "written" => Holds(file', Len(file'), event[t])
    BY <1>g, <2>3
  <2>5. /\ UNCHANGED <<synced, acked>>
        /\ \A t \in Stores : pc'[t] = "written" => pc[t] = "written" /\ event'[t] = event[t]
    BY <1>12 DEF Crash, Goto, DurableInv, ShapeInv, StoreShape, LockShape, Pcs
  <2> QED
    BY <1>a, <2>4, <2>5 DEF DurableInv
<1>13. CASE Outage
  <2>1. PICK n \in synced..Len(file) : file' = SubSeq(file, 1, n) /\ synced' = n
    BY <1>13 DEF Outage
  <2>2. n \in 0..Len(file) /\ synced \in 0..n
    BY <1>a, <2>1
  <2>3. \A k \in 1..Len(acked) : Holds(file', synced', acked[k])
    BY <1>a, <2>1, <2>2, HoldsPart
  <2>4. UNCHANGED acked /\ \A t \in Stores : pc'[t] # "written"
    BY <1>13 DEF Outage
  <2> QED
    BY <1>a, <2>3, <2>4 DEF DurableInv
<1>14. CASE Damage
  BY <1>14, <1>u
<1>15. CASE UNCHANGED vars
  BY <1>15, <1>a DEF vars, DurableInv
<1> QED
  BY <1>1, <1>2, <1>3, <1>4, <1>5, <1>6, <1>7, <1>8, <1>9, <1>10, <1>11, <1>12, <1>13, <1>14, <1>15 DEF Next, Step, Quiet

-----------------------------------------------------------------------------
(* What is written on top of what was verified                             *)

LEMMA AppendTwo ==
    ASSUME NEW x, NEW y
    PROVE  Append(<<x>>, y) = <<x, y>>
<1> DEFINE P == {x, y}
           a == Append(<<x>>, y)
           b == <<x, y>>
<1>1. x \in P /\ y \in P
  OBVIOUS
<1> HIDE DEF P
<1>2. <<x>> \in Seq(P) /\ Len(<<x>>) = 1 /\ <<x>>[1] = x
  BY <1>1
<1>3. a \in Seq(P) /\ Len(a) = 2 /\ a[1] = x /\ a[2] = y
  BY <1>1, <1>2, AppendProperties
<1>4. b \in Seq(P) /\ Len(b) = 2 /\ b[1] = x /\ b[2] = y
  BY <1>1
<1> HIDE DEF a, b
<1>5. \A k \in 1..Len(a) : a[k] = b[k]
  BY <1>3, <1>4
<1>6. a = b
  BY <1>3, <1>4, <1>5, SeqEqual
<1> QED
  BY <1>6 DEF a, b

\* A line written after a newline is a line; after anything else it makes a line
\* that no reader accepts.
LEMMA LineAdded ==
    ASSUME NEW f, Pieces(f), NEW e
    PROVE  /\ Ends(f) => /\ Lines(f \o LineOf(e)) = Append(Lines(f), <<Opening(e), Closing(e)>>)
                         /\ Ends(f \o LineOf(e))
           /\ ~Ends(f) => /\ Len(Lines(f)) \in 1..Len(Lines(f \o LineOf(e)))
                          /\ Len(Lines(f \o LineOf(e))[Len(Lines(f))]) >= 3
<1> DEFINE P == ToSet(f) \union {Opening(e), Closing(e), Newline}
           a == Append(f, Opening(e))
           b == Append(a, Closing(e))
           c == Append(b, Newline)
<1>1. f \in Seq(P)
  BY SeqTyped, SeqMonotonic DEF Pieces
<1>2. Opening(e) \in P /\ Closing(e) \in P /\ Newline \in P
  OBVIOUS
<1>3. Opening(e) # Newline /\ Closing(e) # Newline
  BY DEF Opening, Closing, Newline
<1> HIDE DEF P
<1>4. a \in Seq(P) /\ b \in Seq(P) /\ c \in Seq(P)
  BY <1>1, <1>2
<1>5. f \o LineOf(e) = c
  BY <1>1, <1>2 DEF LineOf
<1>6. /\ a # <<>> /\ Last(a) = Opening(e) /\ b # <<>> /\ Last(b) = Closing(e)
      /\ Last(c) = Newline
  BY <1>1, <1>2 DEF Last
<1> HIDE DEF a, b, c
<1>7. Lines(c) = Lines(b)
  BY <1>2, <1>4, LinesRecursion DEF c
<1> DEFINE L == Lines(f)
           A == Lines(a)
           B == Lines(b)
<1>8. B = [A EXCEPT ![Len(A)] = Append(A[Len(A)], Closing(e))]
  BY <1>2, <1>3, <1>4, <1>6, LinesRecursion DEF b
<1>9. /\ L \in Seq(Seq(P)) /\ Len(L) \in Nat
      /\ \A k \in 1..Len(L) : Len(L[k]) >= 1 /\ Len(L[k]) \in Nat /\ L[k] \in Seq(P)
      /\ ~Ends(f) => Len(L) >= 1
  <2>1. Shaped(f, P)
    BY <1>1, LinesShaped
  <2> QED
    BY <2>1 DEF Shaped
<1>10. CASE Ends(f)
  <2>1. A = Append(L, <<Opening(e)>>)
    BY <1>1, <1>2, <1>3, <1>10, LinesRecursion DEF a, Ends
  <2> HIDE DEF L, A, B
  <2>2. /\ A \in Seq(Seq(P)) /\ Len(A) = Len(L) + 1 /\ A[Len(A)] = <<Opening(e)>>
        /\ \A k \in 1..Len(L) : A[k] = L[k]
    BY <1>2, <1>9, <2>1, AppendProperties
  <2>3. Append(A[Len(A)], Closing(e)) = <<Opening(e), Closing(e)>>
    <3>1. \A x, y : Append(<<x>>, y) = <<x, y>>
      BY AppendTwo
    <3> QED
      BY <2>2, <3>1, Zenon
  <2> DEFINE two == <<Opening(e), Closing(e)>>
             C == Append(L, two)
  <2>4. two \in Seq(P)
    BY <1>2
  <2>5. B = [A EXCEPT ![Len(A)] = two]
    BY <1>8, <2>3
  <2> HIDE DEF two
  <2>6. /\ C \in Seq(Seq(P)) /\ Len(C) = Len(L) + 1 /\ C[Len(L) + 1] = two
        /\ \A k \in 1..Len(L) : C[k] = L[k]
    BY <1>9, <2>4, AppendProperties
  <2>7. /\ B \in Seq(Seq(P)) /\ Len(B) = Len(A) /\ B[Len(A)] = two
        /\ \A k \in 1..Len(A) : k # Len(A) => B[k] = A[k]
    BY <1>9, <2>2, <2>4, <2>5, ExceptSeq
  <2> HIDE DEF C
  <2>8. \A k \in 1..Len(L) + 1 : B[k] = C[k]
    <3>1. \A k \in 1..Len(L) + 1 : k = Len(A) \/ (k \in 1..Len(L) /\ k \in 1..Len(A) /\ k # Len(A))
      BY <1>9, <2>2
    <3>2. B[Len(A)] = C[Len(A)]
      BY <2>2, <2>6, <2>7, Zenon
    <3> QED
      BY <2>2, <2>6, <2>7, <3>1, <3>2, Zenon
  <2>9. B = C
    BY <1>9, <2>2, <2>6, <2>7, <2>8, SeqEqual
  <2>10. Ends(c)
    BY <1>6 DEF Ends
  <2> QED
    BY <1>5, <1>7, <1>10, <2>9, <2>10 DEF C, two, L, B
<1>11. CASE ~Ends(f)
  <2> DEFINE n == Len(L)
  <2>1. A = [L EXCEPT ![n] = Append(L[n], Opening(e))]
    BY <1>1, <1>2, <1>3, <1>11, LinesRecursion DEF a, Ends
  <2>2. n \in 1..Len(L) /\ L[n] \in Seq(P) /\ Len(L[n]) >= 1
    BY <1>9, <1>11
  <2> HIDE DEF L, A, B, n
  <2>3. Append(L[n], Opening(e)) \in Seq(P) /\ Len(Append(L[n], Opening(e))) = Len(L[n]) + 1
    BY <1>2, <2>2
  <2>4. /\ A \in Seq(Seq(P)) /\ Len(A) = Len(L) /\ A[n] = Append(L[n], Opening(e))
    BY <1>9, <2>1, <2>2, <2>3, ExceptSeq
  <2>5. Len(A) = n
    BY <2>4 DEF n
  <2>6. A[n] \in Seq(P) /\ Len(A[n]) = Len(L[n]) + 1
    BY <2>3, <2>4, Zenon
  <2>7. Append(A[n], Closing(e)) \in Seq(P) /\ Len(Append(A[n], Closing(e))) = Len(A[n]) + 1
    BY <1>2, <2>6
  <2>8. Len(B) = Len(A) /\ B[n] = Append(A[n], Closing(e))
    <3>1. B = [A EXCEPT ![n] = Append(A[n], Closing(e))]
      BY <1>8, <2>5
    <3> QED
      BY <2>2, <2>4, <2>5, <2>7, <3>1, ExceptSeq
  <2>9. Len(B[n]) = Len(A[n]) + 1
    BY <2>7, <2>8, Zenon
  <2>10. Len(B[n]) >= 3
    BY <2>2, <2>6, <2>9
  <2> QED
    BY <1>5, <1>7, <1>11, <2>2, <2>4, <2>8, <2>10 DEF L, B, n
<1> QED
  BY <1>10, <1>11

\* The lines of a file, as the lemmas below use them.
LEMMA LinesTyped ==
    ASSUME NEW f, Pieces(f)
    PROVE  /\ DOMAIN Lines(f) = 1..Len(Lines(f)) /\ Len(Lines(f)) \in Nat
           /\ \A k \in 1..Len(Lines(f)) : Len(Lines(f)[k]) \in Nat
<1>1. Lines(f) \in Seq(Seq(ToSet(f)))
  BY SeqTyped, LinesShaped DEF Pieces, Shaped
<1> QED
  BY <1>1

LEMMA MoreLines ==
    ASSUME NEW f, Pieces(f), NEW more, Pieces(more)
    PROVE  /\ Len(Lines(f)) <= Len(Lines(f \o more))
           /\ Spoiled(f) => Spoiled(f \o more)
           /\ \A k, e : Begins(f, k, e) => Begins(f \o more, k, e)
           /\ \A events : Recorded(f, events) => Recorded(f \o more, events)
<1> DEFINE L == Lines(f)
           M == Lines(f \o more)
<1>0. Pieces(f \o more)
  BY PiecesConcat
<1>1. Longer(L, M)
  <2>1. PICK P : f \in Seq(P) /\ more \in Seq(P)
    BY SeqsOf DEF Pieces
  <2> QED
    BY <2>1, LinesGrow
<1>2. /\ DOMAIN L = 1..Len(L) /\ Len(L) \in Nat /\ \A k \in 1..Len(L) : Len(L[k]) \in Nat
      /\ DOMAIN M = 1..Len(M) /\ Len(M) \in Nat /\ \A k \in 1..Len(M) : Len(M[k]) \in Nat
  BY <1>0, LinesTyped
<1> HIDE DEF L, M
<1>3. ASSUME NEW k \in DOMAIN L
      PROVE  /\ k \in DOMAIN M /\ Len(L[k]) <= Len(M[k]) /\ Len(L[k]) \in Nat /\ Len(M[k]) \in Nat
             /\ \A j \in 1..Len(L[k]) : M[k][j] = L[k][j]
  BY <1>1, <1>2 DEF Longer
<1>4. ASSUME NEW k \in DOMAIN L, Len(L[k]) >= 2
      PROVE  M[k][1] = L[k][1] /\ M[k][2] = L[k][2] /\ Len(M[k]) >= 2
  <2>1. 1 \in 1..Len(L[k]) /\ 2 \in 1..Len(L[k])
    BY <1>3, <1>4
  <2> QED
    BY <1>3, <1>4, <2>1
<1>5. \A k \in DOMAIN L : Hopeless(L[k], k) => Hopeless(M[k], k)
  BY <1>3, <1>4 DEF Hopeless
<1>6. Spoiled(f) => Spoiled(f \o more)
  BY <1>3, <1>5 DEF Spoiled, L, M
<1>7. \A k, e : Begins(f, k, e) => Begins(f \o more, k, e)
  BY <1>3, <1>4 DEF Begins, L, M
<1>8. \A events : Recorded(f, events) => Recorded(f \o more, events)
  BY <1>6, <1>7 DEF Recorded
<1> QED
  BY <1>1, <1>6, <1>7, <1>8 DEF Longer, L, M

\* A file that a reader accepts is not spoiled: what was recorded is what it reads.
LEMMA ReaderSees ==
    ASSUME ShapeInv, NEW s \in Stores, Accepts(s)
    PROVE  /\ Recorded(file, Events(file))
           /\ \A q : IsSeq(q) /\ Recorded(file, q) => IsPrefix(q, Events(file))
<1> DEFINE es == Events(file)
           L == Lines(file)
<1>1. /\ IsSeq(es) /\ Len(es) = Len(L) /\ Len(es) \in Nat
      /\ \A k \in 1..Len(es) : L[k] = <<Opening(es[k]), Closing(es[k])>> /\ es[k].sequence = k
  BY Verified DEF ShapeInv, IsSeq
<1>2. DOMAIN L = 1..Len(es) /\ DOMAIN es = 1..Len(es)
  BY <1>1, LinesTyped, SeqTyped DEF ShapeInv, FileShape
<1> HIDE DEF es, L
<1>3. ASSUME NEW k \in 1..Len(es)
      PROVE  /\ Len(L[k]) = 2 /\ L[k][1] = Opening(es[k]) /\ L[k][2] = Closing(es[k])
             /\ L[k][1].part = "head" /\ L[k][1].of = es[k] /\ L[k][1].of.sequence = k
  <2> DEFINE two == <<Opening(es[k]), Closing(es[k])>>
  <2>1. Len(two) = 2 /\ two[1] = Opening(es[k]) /\ two[2] = Closing(es[k])
    OBVIOUS
  <2>2. L[k] = two /\ es[k].sequence = k
    BY <1>1
  <2>3. Opening(es[k]).part = "head" /\ Opening(es[k]).of = es[k]
    BY DEF Opening
  <2> HIDE DEF two
  <2> QED
    BY <2>1, <2>2, <2>3, Zenon
<1>4. \A k \in 1..Len(es) : Begins(file, k, es[k])
  BY <1>2, <1>3 DEF Begins, L
<1>5. ASSUME NEW k \in 1..Len(es)
      PROVE  ~Hopeless(L[k], k)
  <2>1. Len(L[k]) = 2 /\ L[k][1].part = "head" /\ L[k][1].of.sequence = k
    BY <1>3
  <2> QED
    BY <2>1 DEF Hopeless
<1>6. ~Spoiled(file)
  BY <1>2, <1>5 DEF Spoiled, L
<1>7. ASSUME NEW q, IsSeq(q), Recorded(file, q)
      PROVE  IsPrefix(q, es)
  <2>1. DOMAIN q = 1..Len(q) /\ Len(q) \in Nat
    BY <1>7, SeqTyped
  <2>2. \A k \in 1..Len(q) : k \in 1..Len(es) /\ L[k][1] = Opening(q[k])
    BY <1>2, <1>6, <1>7, <2>1 DEF Recorded, Begins, L
  <2>3. ASSUME NEW k \in 1..Len(q)
        PROVE  q[k] = es[k]
    <3>1. L[k][1] = Opening(q[k]) /\ L[k][1].of = es[k]
      BY <1>3, <2>2
    <3>2. Opening(q[k]).of = q[k]
      BY DEF Opening
    <3> QED
      BY <3>1, <3>2, Zenon
  <2>4. Len(q) <= Len(es)
    <3>1. CASE Len(q) = 0
      BY <1>1, <3>1
    <3>2. CASE Len(q) # 0
      <4>1. Len(q) \in 1..Len(q)
        BY <2>1, <3>2
      <4>2. Len(q) \in 1..Len(es)
        BY <2>2, <4>1
      <4> QED
        BY <1>1, <4>2
    <3> QED
      BY <3>1, <3>2
  <2> QED
    BY <1>1, <1>7, <2>3, <2>4, PrefixByItems
<1> QED
  BY <1>2, <1>4, <1>7 DEF Recorded, es

\* The line that an append writes is the next one of the history, or spoils it.
LEMMA RecordedNext ==
    ASSUME NEW f, Pieces(f), NEW q, IsSeq(q), NEW body, Recorded(f, q),
           Spoiled(f) \/ Len(Lines(f)) >= Len(q)
    PROVE  Recorded(f \o LineOf(Following(q, body)), Append(q, Following(q, body)))
<1> DEFINE e == Following(q, body)
           line == LineOf(e)
           g == f \o line
           r == Append(q, e)
<1>1. e.sequence = Len(q) + 1
  BY DEF Following, Event
<1>2. /\ IsSeq(r) /\ Len(r) = Len(q) + 1 /\ r[Len(q) + 1] = e /\ Len(q) \in Nat
      /\ \A k \in 1..Len(q) : r[k] = q[k]
  BY AppendShape DEF IsSeq
<1>3. DOMAIN r = 1..Len(q) + 1 /\ DOMAIN q = 1..Len(q)
  BY <1>2, SeqTyped
<1>4. Pieces(line) /\ Pieces(g)
  BY LineShape, PiecesConcat
<1>5. Spoiled(f) => Spoiled(g)
  BY <1>4, MoreLines
<1>6. /\ DOMAIN Lines(f) = 1..Len(Lines(f)) /\ Len(Lines(f)) \in Nat
      /\ DOMAIN Lines(g) = 1..Len(Lines(g)) /\ Len(Lines(g)) \in Nat
  BY <1>4, LinesTyped
<1>7. CASE Spoiled(f)
  BY <1>5, <1>7 DEF Recorded
<1>8. CASE ~Ends(f)
  <2>1. Len(Lines(f)) \in DOMAIN Lines(g) /\ Len(Lines(g)[Len(Lines(f))]) >= 3
    BY <1>6, <1>8, LineAdded
  <2>2. Spoiled(g)
    BY <2>1 DEF Spoiled, Hopeless
  <2> QED
    BY <2>2 DEF Recorded
<1>9. CASE ~Spoiled(f) /\ Ends(f)
  <2> DEFINE L == Lines(f)
             G == Lines(g)
             two == <<Opening(e), Closing(e)>>
  <2>1. G = Append(L, two) /\ Len(two) = 2 /\ two[1] = Opening(e) /\ two[2] = Closing(e)
    BY <1>9, LineAdded
  <2>2. Opening(e).of = e
    BY DEF Opening
  <2>3. Len(L) \in Nat /\ Len(L) >= Len(q)
    BY <1>6, <1>9
  <2>4. /\ Len(G) = Len(L) + 1 /\ G[Len(L) + 1] = two
    <3>1. L \in Seq(Seq(ToSet(f)))
      BY SeqTyped, LinesShaped DEF Pieces, Shaped
    <3> HIDE DEF L, G, two
    <3>2. L \in Seq(Seq(ToSet(f)) \union {two})
      BY <3>1, SeqMonotonic
    <3> QED
      BY <2>1, <3>2, AppendProperties
  <2>5. \A k \in 1..Len(q) : Begins(g, k, q[k])
    BY <1>3, <1>4, <1>9, MoreLines DEF Recorded
  <2>6. DOMAIN G = 1..Len(L) + 1
    BY <1>6, <2>4
  <2> HIDE DEF L, G, two
  <2>7. CASE Len(L) = Len(q)
    <3>1. G[Len(q) + 1] = two /\ Len(q) + 1 \in DOMAIN G
      BY <1>2, <2>4, <2>6, <2>7
    <3>2. Len(G[Len(q) + 1]) >= 2
      <4>1. Len(G[Len(q) + 1]) = 2
        BY <2>1, <3>1, Zenon
      <4> QED
        BY <4>1
    <3>3. Begins(g, Len(q) + 1, e)
      BY <2>1, <3>1, <3>2 DEF Begins, G
    <3>4. \A k \in 1..Len(q) + 1 : Begins(g, k, r[k])
      <4>1. \A k \in 1..Len(q) + 1 : k \in 1..Len(q) \/ k = Len(q) + 1
        BY <1>2
      <4> HIDE DEF g, r, e
      <4> QED
        BY <1>2, <2>5, <3>3, <4>1
    <3> QED
      BY <1>3, <3>4 DEF Recorded
  <2>8. CASE Len(L) # Len(q)
    <3>1. e.sequence # Len(L) + 1
      BY <1>1, <1>2, <2>3, <2>8
    <3>2. Len(L) + 1 \in DOMAIN G
      BY <2>3, <2>6
    <3>3. Len(G[Len(L) + 1]) >= 2 /\ G[Len(L) + 1][1].of = e
      <4>1. Len(G[Len(L) + 1]) = 2 /\ G[Len(L) + 1][1].of = e
        BY <2>1, <2>2, <2>4, Zenon
      <4> QED
        BY <4>1
    <3>4. Hopeless(G[Len(L) + 1], Len(L) + 1)
      BY <3>1, <3>3 DEF Hopeless
    <3>5. Spoiled(g)
      BY <3>2, <3>4 DEF Spoiled, G
    <3> QED
      BY <3>5 DEF Recorded
  <2> QED
    BY <2>7, <2>8
<1> QED
  BY <1>7, <1>8, <1>9

LEMMA RecordStep ==
    ASSUME ShapeInv, ChainInv, RecordInv, [Next]_vars
    PROVE  RecordInv'
<1> SUFFICES ASSUME Undamaged'
             PROVE  RecordInv'
  BY DEF RecordInv
<1>u. Undamaged /\ ~Damage
  BY StillUndamaged
<1>a. /\ \A t \in Stores :
           /\ Recorded(file, cache[t])
           /\ pc[t] = "writing" => Spoiled(file) \/ Len(Lines(file)) >= Len(cache[t])
           /\ pc[t] = "written" => Recorded(file, Append(cache[t], event[t]))
           /\ IsSeq(cache[t]) /\ Len(cache[t]) \in Nat
      /\ Pieces(file)
  BY <1>u DEF RecordInv, ShapeInv, FileShape, StoreShape, IsSeq
<1>g. ASSUME NEW more, Pieces(more)
      PROVE  \A t \in Stores :
               /\ Recorded(file \o more, cache[t])
               /\ pc[t] = "writing" =>
                    Spoiled(file \o more) \/ Len(Lines(file \o more)) >= Len(cache[t])
               /\ pc[t] = "written" => Recorded(file \o more, Append(cache[t], event[t]))
  <2>1. Len(Lines(file)) <= Len(Lines(file \o more))
    BY <1>a, <1>g, MoreLines
  <2>2. Len(Lines(file)) \in Nat /\ Len(Lines(file \o more)) \in Nat
    BY <1>a, <1>g, PiecesConcat, LinesTyped
  <2>3. Spoiled(file) => Spoiled(file \o more)
    BY <1>a, <1>g, MoreLines
  <2>4. \A events : Recorded(file, events) => Recorded(file \o more, events)
    BY <1>a, <1>g, MoreLines
  <2> QED
    BY <1>a, <2>1, <2>2, <2>3, <2>4
<1>l. \A s \in Stores : pc[s] = "writing" => Len(pending[s]) = 3
  BY LineShape DEF ChainInv
<1>p. \A s \in Stores : \A k \in 0..Len(pending[s]) : Pieces(SubSeq(pending[s], 1, k))
  BY PiecesPart DEF ShapeInv, StoreShape
<1>e. Recorded(file', <<>>)
  BY NothingShape, SeqTyped DEF Recorded
<1>1. ASSUME NEW s \in Stores, Open(s) PROVE RecordInv'
  <2> DEFINE es == Events(file)
  <2>1. Recorded(file, es) /\ Len(es) = Len(Lines(file)) /\ Len(es) \in Nat
    BY <1>1, ReaderSees, Verified DEF Open, ShapeInv, IsSeq
  <2>2. /\ file' = file /\ cache'[s] = es
        /\ \A t \in Stores \ {s} : cache'[t] = cache[t] /\ event'[t] = event[t] /\ pc'[t] = pc[t]
        /\ pc'[s] # "written"
    BY <1>1 DEF Open, Goto, ShapeInv, StoreShape, LockShape, Pcs
  <2> HIDE DEF es
  <2> QED
    BY <1>a, <2>1, <2>2 DEF RecordInv
<1>2. ASSUME NEW s \in Stores, Read(s) PROVE RecordInv'
  <2> DEFINE es == Events(file)
  <2>1. Recorded(file, es) /\ Len(es) = Len(Lines(file)) /\ Len(es) \in Nat
    BY <1>2, ReaderSees, Verified DEF Read, ShapeInv, IsSeq
  <2>2. /\ file' = file /\ cache'[s] = es
        /\ \A t \in Stores \ {s} : cache'[t] = cache[t] /\ event'[t] = event[t] /\ pc'[t] = pc[t]
        /\ pc'[s] # "written"
    BY <1>2 DEF Read, Goto, ShapeInv, StoreShape, LockShape, Pcs
  <2> HIDE DEF es
  <2> QED
    BY <1>a, <2>1, <2>2 DEF RecordInv
<1>3. ASSUME NEW s \in Stores, BeginAppend(s) PROVE RecordInv'
  <2>1. /\ file' = file /\ cache' = cache
        /\ \A t \in Stores : /\ pc'[t] = "writing" => pc[t] = "writing"
                             /\ pc'[t] = "written" => pc[t] = "written" /\ event'[t] = event[t]
    BY <1>3 DEF BeginAppend, Goto, ShapeInv, StoreShape, LockShape, Pcs
  <2> QED
    BY <1>a, <2>1 DEF RecordInv
<1>4. ASSUME NEW s \in Stores, Lock(s) PROVE RecordInv'
  <2>1. /\ file' = file /\ cache' = cache
        /\ \A t \in Stores : /\ pc'[t] = "writing" => pc[t] = "writing"
                             /\ pc'[t] = "written" => pc[t] = "written" /\ event'[t] = event[t]
    BY <1>4 DEF Lock, Goto, ShapeInv, StoreShape, LockShape, Pcs
  <2> QED
    BY <1>a, <2>1 DEF RecordInv
<1>5. ASSUME NEW s \in Stores, Build(s) PROVE RecordInv'
  <2> DEFINE es == Events(file)
  <2>1. Recorded(file, es) /\ Len(es) = Len(Lines(file)) /\ Len(es) \in Nat
    BY <1>5, ReaderSees, Verified DEF Build, ShapeInv, IsSeq
  <2>2. /\ file' = file /\ cache'[s] = es
        /\ \A t \in Stores \ {s} : cache'[t] = cache[t] /\ event'[t] = event[t] /\ pc'[t] = pc[t]
        /\ pc'[s] # "written"
    BY <1>5 DEF Build, Goto, ShapeInv, StoreShape, LockShape, Pcs
  <2> HIDE DEF es
  <2> QED
    BY <1>a, <2>1, <2>2 DEF RecordInv
<1>6. ASSUME NEW s \in Stores, Refuse(s) PROVE RecordInv'
  <2>1. /\ file' = file /\ cache' = cache
        /\ \A t \in Stores : /\ pc'[t] = "writing" => pc[t] = "writing"
                             /\ pc'[t] = "written" => pc[t] = "written" /\ event'[t] = event[t]
    BY <1>6 DEF Refuse, Goto, ShapeInv, StoreShape, LockShape, Pcs
  <2> QED
    BY <1>a, <2>1 DEF RecordInv
<1>7. ASSUME NEW s \in Stores, Write(s) PROVE RecordInv'
  <2> DEFINE e == Following(cache[s], s)
  <2>1. /\ Pieces(LineOf(e)) /\ file' = file \o LineOf(e)
        /\ event[s] = e /\ pc[s] = "writing" /\ UNCHANGED <<cache, event>>
    BY <1>7, LineShape DEF Write, ChainInv
  <2>2. \A t \in Stores : Recorded(file', cache[t])
    BY <1>g, <2>1
  <2>3. Recorded(file', Append(cache[s], e))
    BY <1>a, <2>1, RecordedNext
  <2> HIDE DEF e
  <2>4. \A t \in Stores : pc'[t] # "writing" /\ (pc'[t] = "written" => t = s)
    BY <1>7 DEF Write, Goto, ShapeInv, StoreShape, LockShape, Pcs
  <2> QED
    BY <2>1, <2>2, <2>3, <2>4 DEF RecordInv
<1>8. ASSUME NEW s \in Stores, WriteFails(s) PROVE RecordInv'
  <2>1. PICK k \in 0..2 : file' = file \o SubSeq(pending[s], 1, k)
    BY <1>8 DEF WriteFails
  <2>2. k \in 0..Len(pending[s])
    BY <1>8, <1>l, <2>1 DEF WriteFails
  <2> DEFINE more == SubSeq(pending[s], 1, k)
  <2>3. file' = file \o more /\ Pieces(more)
    BY <1>p, <2>1, <2>2
  <2> HIDE DEF more
  <2>4. \A t \in Stores :
           /\ Recorded(file', cache[t])
           /\ pc[t] = "writing" => Spoiled(file') \/ Len(Lines(file')) >= Len(cache[t])
           /\ pc[t] = "written" => Recorded(file', Append(cache[t], event[t]))
    BY <1>g, <2>3
  <2>5. \A t \in Stores :
           /\ cache'[t] = cache[t] \/ (cache'[t] = <<>> /\ pc'[t] = "down")
           /\ pc'[t] = "writing" => pc[t] = "writing"
           /\ pc'[t] = "written" => pc[t] = "written" /\ event'[t] = event[t]
    BY <1>8 DEF WriteFails, Goto, ShapeInv, StoreShape, LockShape, Pcs
  <2> QED
    BY <1>e, <2>4, <2>5 DEF RecordInv
<1>9. ASSUME NEW s \in Stores, CloseHandle(s) PROVE RecordInv'
  <2>1. PICK k \in 0..Len(pending[s]) : file' = file \o SubSeq(pending[s], 1, k)
    BY <1>9 DEF CloseHandle
  <2>2. k \in 0..Len(pending[s])
    BY <1>9, <1>l, <2>1 DEF CloseHandle
  <2> DEFINE more == SubSeq(pending[s], 1, k)
  <2>3. file' = file \o more /\ Pieces(more)
    BY <1>p, <2>1, <2>2
  <2> HIDE DEF more
  <2>4. \A t \in Stores :
           /\ Recorded(file', cache[t])
           /\ pc[t] = "writing" => Spoiled(file') \/ Len(Lines(file')) >= Len(cache[t])
           /\ pc[t] = "written" => Recorded(file', Append(cache[t], event[t]))
    BY <1>g, <2>3
  <2>5. \A t \in Stores :
           /\ cache'[t] = cache[t] \/ (cache'[t] = <<>> /\ pc'[t] = "down")
           /\ pc'[t] = "writing" => pc[t] = "writing"
           /\ pc'[t] = "written" => pc[t] = "written" /\ event'[t] = event[t]
    BY <1>9 DEF CloseHandle, Goto, ShapeInv, StoreShape, LockShape, Pcs
  <2> QED
    BY <1>e, <2>4, <2>5 DEF RecordInv
<1>10. ASSUME NEW s \in Stores, Acknowledge(s) PROVE RecordInv'
  <2>1. /\ file' = file /\ cache'[s] = Append(cache[s], event[s]) /\ pc[s] = "written"
        /\ \A t \in Stores \ {s} : cache'[t] = cache[t] /\ event'[t] = event[t] /\ pc'[t] = pc[t]
        /\ pc'[s] = "idle"
    BY <1>10 DEF Acknowledge, Goto, ShapeInv, StoreShape, LockShape, Pcs
  <2> QED
    BY <1>a, <2>1 DEF RecordInv
<1>11. ASSUME NEW s \in Stores, SyncFails(s) PROVE RecordInv'
  <2>1. /\ file' = file /\ cache' = cache
        /\ \A t \in Stores : /\ pc'[t] = "writing" => pc[t] = "writing"
                             /\ pc'[t] = "written" => pc[t] = "written" /\ event'[t] = event[t]
    BY <1>11 DEF SyncFails, Goto, ShapeInv, StoreShape, LockShape, Pcs
  <2> QED
    BY <1>a, <2>1 DEF RecordInv
<1>12. ASSUME NEW s \in Stores, Crash(s) PROVE RecordInv'
  <2>1. PICK k \in 0..Len(pending[s]) : file' = file \o SubSeq(pending[s], 1, k)
    BY <1>12 DEF Crash
  <2>2. k \in 0..Len(pending[s])
    BY <1>12, <1>l, <2>1 DEF Crash
  <2> DEFINE more == SubSeq(pending[s], 1, k)
  <2>3. file' = file \o more /\ Pieces(more)
    BY <1>p, <2>1, <2>2
  <2> HIDE DEF more
  <2>4. \A t \in Stores :
           /\ Recorded(file', cache[t])
           /\ pc[t] = "writing" => Spoiled(file') \/ Len(Lines(file')) >= Len(cache[t])
           /\ pc[t] = "written" => Recorded(file', Append(cache[t], event[t]))
    BY <1>g, <2>3
  <2>5. \A t \in Stores :
           /\ cache'[t] = cache[t] \/ (cache'[t] = <<>> /\ pc'[t] = "down")
           /\ pc'[t] = "writing" => pc[t] = "writing"
           /\ pc'[t] = "written" => pc[t] = "written" /\ event'[t] = event[t]
    BY <1>12 DEF Crash, Goto, ShapeInv, StoreShape, LockShape, Pcs
  <2> QED
    BY <1>e, <2>4, <2>5 DEF RecordInv
<1>13. CASE Outage
  <2>1. \A t \in Stores : cache'[t] = <<>> /\ pc'[t] = "down"
    BY <1>13 DEF Outage
  <2> QED
    BY <1>e, <2>1 DEF RecordInv
<1>14. CASE Damage
  BY <1>14, <1>u
<1>15. CASE UNCHANGED vars
  BY <1>15, <1>a DEF vars, RecordInv
<1> QED
  BY <1>1, <1>2, <1>3, <1>4, <1>5, <1>6, <1>7, <1>8, <1>9, <1>10, <1>11, <1>12, <1>13, <1>14, <1>15 DEF Next, Step, Quiet

LEMMA AgreeStep ==
    ASSUME ShapeInv, RecordInv, AgreeInv, [Next]_vars
    PROVE  AgreeInv'
<1> SUFFICES ASSUME Undamaged'
             PROVE  AgreeInv'
  BY DEF AgreeInv
<1>u. Undamaged /\ ~Damage
  BY StillUndamaged
<1>a. /\ \A t, u \in Stores :
           /\ IsPrefix(cache[t], cache[u]) \/ IsPrefix(cache[u], cache[t])
           /\ pc[t] \in {"writing", "written"} => IsPrefix(cache[u], cache[t])
      /\ \A t \in Stores : IsSeq(cache[t]) /\ Recorded(file, cache[t])
  BY <1>u DEF AgreeInv, RecordInv, ShapeInv, StoreShape
<1>e. \A t \in Stores : IsPrefix(<<>>, cache[t]) /\ IsPrefix(<<>>, <<>>)
  BY <1>a, PrefixSelf, NothingShape
<1>1. ASSUME NEW s \in Stores, Open(s) PROVE AgreeInv'
  <2> DEFINE es == Events(file)
  <2>1. /\ \A t \in Stores : IsPrefix(cache[t], es)
        /\ IsPrefix(es, es)
    BY <1>1, <1>a, ReaderSees, Verified, PrefixSelf DEF Open, ShapeInv
  <2>2. /\ cache'[s] = es /\ \A t \in Stores \ {s} : cache'[t] = cache[t]
        /\ \A t \in Stores \ {s} : pc'[t] \notin {"writing", "written"}
    BY <1>1, StoreAssumption DEF Open, Goto, ShapeInv, StoreShape, LockShape, Pcs
  <2> HIDE DEF es
  <2> QED
    BY <1>a, <2>1, <2>2 DEF AgreeInv
<1>2. ASSUME NEW s \in Stores, Read(s) PROVE AgreeInv'
  <2> DEFINE es == Events(file)
  <2>1. /\ \A t \in Stores : IsPrefix(cache[t], es)
        /\ IsPrefix(es, es)
    BY <1>2, <1>a, ReaderSees, Verified, PrefixSelf DEF Read, ShapeInv
  <2>2. /\ cache'[s] = es /\ \A t \in Stores \ {s} : cache'[t] = cache[t]
        /\ \A t \in Stores \ {s} : pc'[t] \notin {"writing", "written"}
    BY <1>2, StoreAssumption DEF Read, Goto, ShapeInv, StoreShape, LockShape, Pcs
  <2> HIDE DEF es
  <2> QED
    BY <1>a, <2>1, <2>2 DEF AgreeInv
<1>3. ASSUME NEW s \in Stores, BeginAppend(s) PROVE AgreeInv'
  <2>1. /\ UNCHANGED cache
        /\ \A t \in Stores :
             pc'[t] \in {"writing", "written"} => pc[t] \in {"writing", "written"}
    BY <1>3 DEF BeginAppend, Goto, ShapeInv, StoreShape, LockShape, Pcs
  <2> QED
    BY <1>a, <2>1 DEF AgreeInv
<1>4. ASSUME NEW s \in Stores, Lock(s) PROVE AgreeInv'
  <2>1. /\ UNCHANGED cache
        /\ \A t \in Stores :
             pc'[t] \in {"writing", "written"} => pc[t] \in {"writing", "written"}
    BY <1>4 DEF Lock, Goto, ShapeInv, StoreShape, LockShape, Pcs
  <2> QED
    BY <1>a, <2>1 DEF AgreeInv
<1>5. ASSUME NEW s \in Stores, Build(s) PROVE AgreeInv'
  <2> DEFINE es == Events(file)
  <2>1. /\ \A t \in Stores : IsPrefix(cache[t], es)
        /\ IsPrefix(es, es)
    BY <1>5, <1>a, ReaderSees, Verified, PrefixSelf DEF Build, ShapeInv
  <2>2. /\ cache'[s] = es /\ \A t \in Stores \ {s} : cache'[t] = cache[t]
        /\ \A t \in Stores \ {s} : pc'[t] \notin {"writing", "written"}
    BY <1>5, StoreAssumption DEF Build, Goto, ShapeInv, StoreShape, LockShape, Pcs
  <2> HIDE DEF es
  <2> QED
    BY <1>a, <2>1, <2>2 DEF AgreeInv
<1>6. ASSUME NEW s \in Stores, Refuse(s) PROVE AgreeInv'
  <2>1. /\ UNCHANGED cache
        /\ \A t \in Stores :
             pc'[t] \in {"writing", "written"} => pc[t] \in {"writing", "written"}
    BY <1>6 DEF Refuse, Goto, ShapeInv, StoreShape, LockShape, Pcs
  <2> QED
    BY <1>a, <2>1 DEF AgreeInv
<1>7. ASSUME NEW s \in Stores, Write(s) PROVE AgreeInv'
  <2>1. /\ UNCHANGED cache
        /\ \A t \in Stores :
             pc'[t] \in {"writing", "written"} => pc[t] \in {"writing", "written"}
    BY <1>7 DEF Write, Goto, ShapeInv, StoreShape, LockShape, Pcs
  <2> QED
    BY <1>a, <2>1 DEF AgreeInv
<1>8. ASSUME NEW s \in Stores, WriteFails(s) PROVE AgreeInv'
  <2>1. /\ UNCHANGED cache
        /\ \A t \in Stores :
             pc'[t] \in {"writing", "written"} => pc[t] \in {"writing", "written"}
    BY <1>8 DEF WriteFails, Goto, ShapeInv, StoreShape, LockShape, Pcs
  <2> QED
    BY <1>a, <2>1 DEF AgreeInv
<1>9. ASSUME NEW s \in Stores, CloseHandle(s) PROVE AgreeInv'
  <2>1. /\ UNCHANGED cache
        /\ \A t \in Stores :
             pc'[t] \in {"writing", "written"} => pc[t] \in {"writing", "written"}
    BY <1>9 DEF CloseHandle, Goto, ShapeInv, StoreShape, LockShape, Pcs
  <2> QED
    BY <1>a, <2>1 DEF AgreeInv
<1>10. ASSUME NEW s \in Stores, Acknowledge(s) PROVE AgreeInv'
  <2> DEFINE more == Append(cache[s], event[s])
  <2>1. \A t \in Stores : IsPrefix(cache[t], cache[s])
    BY <1>10, <1>a DEF Acknowledge
  <2>2. IsPrefix(more, more) /\ \A t \in Stores : IsPrefix(cache[t], more)
    BY <1>a, <2>1, AppendShape, PrefixAppend, PrefixSelf
  <2>3. /\ cache'[s] = more /\ \A t \in Stores \ {s} : cache'[t] = cache[t]
        /\ \A t \in Stores : pc'[t] \notin {"writing", "written"}
    BY <1>10, StoreAssumption DEF Acknowledge, Goto, ShapeInv, StoreShape, LockShape, Pcs
  <2> HIDE DEF more
  <2> QED
    BY <1>a, <2>2, <2>3 DEF AgreeInv
<1>11. ASSUME NEW s \in Stores, SyncFails(s) PROVE AgreeInv'
  <2>1. /\ UNCHANGED cache
        /\ \A t \in Stores :
             pc'[t] \in {"writing", "written"} => pc[t] \in {"writing", "written"}
    BY <1>11 DEF SyncFails, Goto, ShapeInv, StoreShape, LockShape, Pcs
  <2> QED
    BY <1>a, <2>1 DEF AgreeInv
<1>12. ASSUME NEW s \in Stores, Crash(s) PROVE AgreeInv'
  <2>1. /\ cache'[s] = <<>> /\ pc'[s] = "down"
        /\ \A t \in Stores \ {s} : cache'[t] = cache[t] /\ pc'[t] = pc[t]
    BY <1>12 DEF Crash, Goto, ShapeInv, StoreShape, LockShape, Pcs
  <2> QED
    BY <1>a, <1>e, <2>1 DEF AgreeInv
<1>13. CASE Outage
  <2>1. \A t \in Stores : cache'[t] = <<>> /\ pc'[t] = "down"
    BY <1>13 DEF Outage
  <2> QED
    BY <1>e, <2>1 DEF AgreeInv
<1>14. CASE Damage
  BY <1>14, <1>u
<1>15. CASE UNCHANGED vars
  BY <1>15, <1>a DEF vars, AgreeInv
<1> QED
  BY <1>1, <1>2, <1>3, <1>4, <1>5, <1>6, <1>7, <1>8, <1>9, <1>10, <1>11, <1>12, <1>13, <1>14, <1>15 DEF Next, Step, Quiet

-----------------------------------------------------------------------------
(* The journal that nothing disturbed                                      *)

LEMMA CleanReads ==
    ASSUME NEW q, IsSeq(q), NEW f, Clean(f, q)
    PROVE  /\ \A k \in DOMAIN Objects(f) : IsObject(Objects(f)[k])
           /\ Events(f) = q
<1> DEFINE L == Objects(f)
           es == EventsOf(L)
           two(k) == <<Opening(q[k]), Closing(q[k])>>
<1>1. L = [k \in 1..Len(q) |-> two(k)] /\ Chain(q) /\ Events(f) = es
  BY DEF Clean, Objects, Events
<1>2. DOMAIN q = 1..Len(q) /\ q = [i \in 1..Len(q) |-> q[i]]
  BY SeqTyped DEF IsSeq
<1>3. ASSUME NEW k \in 1..Len(q)
      PROVE  /\ IsObject(two(k)) /\ two(k)[1].of = q[k]
  <2> DEFINE o == Opening(q[k])
             c == Closing(q[k])
  <2>1. o.of = q[k] /\ IsEvent(q[k])
    BY <1>1, <1>2 DEF Opening, Chain
  <2> HIDE DEF o, c
  <2>2. Len(<<o, c>>) = 2 /\ <<o, c>>[1] = o
    OBVIOUS
  <2>3. <<o, c>> = <<Opening(o.of), Closing(o.of)>>
    BY <2>1 DEF o, c
  <2> DEFINE line == <<o, c>>
  <2>4. Len(line) = 2 /\ line[1] = o /\ line = <<Opening(o.of), Closing(o.of)>>
    BY <2>2, <2>3
  <2> HIDE DEF line
  <2>5. IsObject(line) /\ line[1].of = q[k]
    BY <2>1, <2>4, Zenon DEF IsObject
  <2> QED
    BY <2>5 DEF line, o, c
<1> HIDE DEF L, two
<1>4. DOMAIN L = 1..Len(q) /\ \A k \in 1..Len(q) : L[k] = two(k)
  BY <1>1
<1>5. \A k \in DOMAIN L : IsObject(L[k])
  BY <1>3, <1>4
<1>6. es = q
  <2> DEFINE ev(k) == L[k][1].of
  <2>1. es = [k \in 1..Len(q) |-> ev(k)]
    BY <1>4 DEF EventsOf
  <2>2. \A k \in 1..Len(q) : ev(k) = q[k]
    BY <1>3, <1>4
  <2> HIDE DEF es, ev
  <2>3. es = [k \in 1..Len(q) |-> q[k]]
    BY <2>1, <2>2
  <2> QED
    BY <1>2, <2>3, Zenon
<1> QED
  BY <1>1, <1>5, <1>6 DEF L

LEMMA CleanGrows ==
    ASSUME NEW q, IsSeq(q), NEW f, Pieces(f), Clean(f, q), NEW body
    PROVE  Clean(f \o LineOf(Following(q, body)), Append(q, Following(q, body)))
<1> DEFINE e == Following(q, body)
           g == f \o LineOf(e)
           r == Append(q, e)
           two(x) == <<Opening(x), Closing(x)>>
           L == Lines(f)
           G == Lines(g)
<1>1. Chain(r)
  BY ChainAppend DEF Clean
<1>2. /\ Len(r) = Len(q) + 1 /\ r[Len(q) + 1] = e /\ Len(q) \in Nat
      /\ \A k \in 1..Len(q) : r[k] = q[k]
  BY AppendShape DEF IsSeq
<1>3. Ends(f) /\ L = [k \in 1..Len(q) |-> two(q[k])]
  BY DEF Clean, Ends
<1>4. G = Append(L, two(e)) /\ Ends(g)
  BY <1>3, LineAdded
<1> DEFINE P == {two(q[k]) : k \in 1..Len(q)} \union {two(e)}
<1>5. two(e) \in P /\ \A k \in 1..Len(q) : two(q[k]) \in P
  OBVIOUS
<1> HIDE DEF P, two, e, r, L, G
<1>6. L \in Seq(P) /\ Len(L) = Len(q) /\ \A k \in 1..Len(q) : L[k] = two(q[k])
  BY <1>2, <1>3, <1>5
<1>7. /\ G \in Seq(P) /\ Len(G) = Len(q) + 1 /\ G[Len(q) + 1] = two(e)
      /\ \A k \in 1..Len(q) : G[k] = L[k]
  BY <1>4, <1>5, <1>6, AppendProperties
<1>8. \A k \in 1..Len(r) : G[k] = two(r[k])
  <2>1. \A k \in 1..Len(r) : k \in 1..Len(q) \/ k = Len(q) + 1
    BY <1>2
  <2> QED
    BY <1>2, <1>6, <1>7, <2>1, Zenon
<1>9. G = [k \in 1..Len(r) |-> two(r[k])]
  <2>1. DOMAIN G = 1..Len(r) /\ G = [k \in DOMAIN G |-> G[k]]
    BY <1>2, <1>7
  <2> QED
    BY <1>8, <2>1
<1> QED
  BY <1>1, <1>4, <1>9 DEF Clean, Ends, G, two, r, e

LEMMA CleanStep ==
    ASSUME ShapeInv, ChainInv, CleanInv, [Next]_vars
    PROVE  CleanInv'
<1> SUFFICES ASSUME Undisturbed'
             PROVE  CleanInv'
  BY DEF CleanInv
<1>u. Undisturbed /\ UNCHANGED <<faults, crashes, outages, damages>>
  BY StillUndisturbed
<1>n. {faults, crashes, outages, damages} \subseteq Nat
  BY DEF ShapeInv
<1>a. /\ \A t \in Stores :
           /\ pc[t] # "closing"
           /\ pc[t] \in {"writing", "written"} => cache[t] = acked
           /\ pc[t] = "written" => Clean(file, Append(acked, event[t]))
      /\ (\A t \in Stores : pc[t] # "written") => Clean(file, acked)
      /\ IsSeq(acked)
  BY <1>u DEF CleanInv, ShapeInv, FileShape
<1>1. ASSUME NEW s \in Stores, Open(s) PROVE CleanInv'
  <2>1. /\ UNCHANGED <<file, acked, event>>
        /\ \A t \in Stores : pc'[t] \in {"writing", "written", "closing"} \/ pc[t] = "written" =>
                             pc'[t] = pc[t] /\ cache'[t] = cache[t]
    BY <1>1, StoreAssumption DEF Open, Goto, ShapeInv, StoreShape, LockShape, Pcs
  <2> QED
    BY <1>a, <2>1 DEF CleanInv
<1>2. ASSUME NEW s \in Stores, Read(s) PROVE CleanInv'
  <2>1. /\ UNCHANGED <<file, acked, event>>
        /\ \A t \in Stores : pc'[t] \in {"writing", "written", "closing"} \/ pc[t] = "written" =>
                             pc'[t] = pc[t] /\ cache'[t] = cache[t]
    BY <1>2, StoreAssumption DEF Read, Goto, ShapeInv, StoreShape, LockShape, Pcs
  <2> QED
    BY <1>a, <2>1 DEF CleanInv
<1>3. ASSUME NEW s \in Stores, BeginAppend(s) PROVE CleanInv'
  <2>1. /\ UNCHANGED <<file, acked, event>>
        /\ \A t \in Stores : pc'[t] \in {"writing", "written", "closing"} \/ pc[t] = "written" =>
                             pc'[t] = pc[t] /\ cache'[t] = cache[t]
    BY <1>3, StoreAssumption DEF BeginAppend, Goto, ShapeInv, StoreShape, LockShape, Pcs
  <2> QED
    BY <1>a, <2>1 DEF CleanInv
<1>4. ASSUME NEW s \in Stores, Lock(s) PROVE CleanInv'
  <2>1. /\ UNCHANGED <<file, acked, event>>
        /\ \A t \in Stores : pc'[t] \in {"writing", "written", "closing"} \/ pc[t] = "written" =>
                             pc'[t] = pc[t] /\ cache'[t] = cache[t]
    BY <1>4, StoreAssumption DEF Lock, Goto, ShapeInv, StoreShape, LockShape, Pcs
  <2> QED
    BY <1>a, <2>1 DEF CleanInv
<1>5. ASSUME NEW s \in Stores, Build(s) PROVE CleanInv'
  <2>1. \A t \in Stores : pc[t] # "written"
    BY <1>5, StoreAssumption DEF Build, Goto, ShapeInv, StoreShape, LockShape, Pcs
  <2>2. Events(file) = acked
    BY <1>a, <2>1, CleanReads
  <2>3. /\ UNCHANGED <<file, acked>> /\ cache'[s] = acked
        /\ \A t \in Stores : pc'[t] = pc[t] \/ (t = s /\ pc'[t] = "writing")
        /\ \A t \in Stores \ {s} : cache'[t] = cache[t]
    BY <1>5, <2>2 DEF Build, Goto, ShapeInv, StoreShape, LockShape, Pcs
  <2>4. Clean(file', acked')
    BY <1>a, <2>1, <2>3
  <2>5. \A t \in Stores : /\ pc'[t] # "closing" /\ pc'[t] # "written"
                          /\ pc'[t] \in {"writing", "written"} => cache'[t] = acked'
    BY <1>a, <2>1, <2>3
  <2> QED
    BY <2>4, <2>5 DEF CleanInv
<1>6. ASSUME NEW s \in Stores, Refuse(s) PROVE CleanInv'
  <2>1. /\ UNCHANGED <<file, acked, event>>
        /\ \A t \in Stores : pc'[t] \in {"writing", "written", "closing"} \/ pc[t] = "written" =>
                             pc'[t] = pc[t] /\ cache'[t] = cache[t]
    BY <1>6, StoreAssumption DEF Refuse, Goto, ShapeInv, StoreShape, LockShape, Pcs
  <2> QED
    BY <1>a, <2>1 DEF CleanInv
<1>7. ASSUME NEW s \in Stores, Write(s) PROVE CleanInv'
  <2>1. \A t \in Stores : pc[t] # "written" /\ (pc[t] = "writing" => t = s)
    BY <1>7, StoreAssumption DEF Write, Goto, ShapeInv, StoreShape, LockShape, Pcs
  <2>2. /\ pc[s] = "writing" /\ cache[s] = acked /\ event[s] = Following(acked, s)
        /\ file' = file \o LineOf(event[s]) /\ Clean(file, acked)
    BY <1>7, <1>a, <2>1 DEF Write, ChainInv
  <2>3. Clean(file', Append(acked, event[s]))
    BY <1>a, <2>2, CleanGrows DEF ShapeInv, FileShape
  <2>4. /\ UNCHANGED <<acked, cache, event>>
        /\ \A t \in Stores : IF t = s THEN pc'[t] = "written" ELSE pc'[t] = pc[t]
    BY <1>7 DEF Write, Goto, ShapeInv, StoreShape, LockShape, Pcs
  <2>5. \A t \in Stores : /\ pc'[t] # "closing"
                          /\ pc'[t] \in {"writing", "written"} => t = s
    BY <1>a, <2>1, <2>4
  <2> QED
    BY <2>2, <2>3, <2>4, <2>5 DEF CleanInv
<1>8. ASSUME NEW s \in Stores, WriteFails(s) PROVE CleanInv'
  <2>1. faults' = faults + 1
    BY <1>8 DEF WriteFails
  <2> QED
    BY <1>n, <1>u, <2>1
<1>9. ASSUME NEW s \in Stores, CloseHandle(s) PROVE CleanInv'
  BY <1>9, <1>a DEF CloseHandle
<1>10. ASSUME NEW s \in Stores, Acknowledge(s) PROVE CleanInv'
  <2>1. \A t \in Stores : pc'[t] \notin {"writing", "written", "closing"}
    BY <1>10, <1>a, StoreAssumption DEF Acknowledge, Goto, ShapeInv, StoreShape, LockShape, Pcs
  <2>2. Clean(file', acked')
    BY <1>10, <1>a DEF Acknowledge
  <2> QED
    BY <2>1, <2>2 DEF CleanInv
<1>11. ASSUME NEW s \in Stores, SyncFails(s) PROVE CleanInv'
  <2>1. faults' = faults + 1
    BY <1>11 DEF SyncFails
  <2> QED
    BY <1>n, <1>u, <2>1
<1>12. ASSUME NEW s \in Stores, Crash(s) PROVE CleanInv'
  <2>1. crashes' = crashes + 1
    BY <1>12 DEF Crash
  <2> QED
    BY <1>n, <1>u, <2>1
<1>13. CASE Outage
  <2>1. outages' = outages + 1
    BY <1>13 DEF Outage
  <2> QED
    BY <1>n, <1>u, <2>1
<1>14. CASE Damage
  <2>1. damages' = damages + 1
    BY <1>14 DEF Damage
  <2> QED
    BY <1>n, <1>u, <2>1
<1>15. CASE UNCHANGED vars
  BY <1>15, <1>a DEF vars, CleanInv
<1> QED
  BY <1>1, <1>2, <1>3, <1>4, <1>5, <1>6, <1>7, <1>8, <1>9, <1>10, <1>11, <1>12, <1>13, <1>14, <1>15 DEF Next, Step, Quiet

-----------------------------------------------------------------------------
(* What follows                                                            *)

\* Whoever accepts the file finds the event of every record that is in it.
LEMMA HeldIsRead ==
    ASSUME ShapeInv, NEW s \in Stores, Accepts(s), NEW n \in 0..Len(file), NEW e,
           Holds(file, n, e)
    PROVE  /\ e.sequence <= Len(Events(file))
           /\ Events(file)[e.sequence] = e
<1> DEFINE es == Events(file)
           L == Lines(file)
<1>1. /\ IsSeq(es) /\ Len(es) = Len(L) /\ Len(es) \in Nat
      /\ \A k \in 1..Len(es) : L[k] = <<Opening(es[k]), Closing(es[k])>> /\ es[k].sequence = k
  BY Verified DEF ShapeInv, IsSeq
<1>2. PICK i \in 1..Len(file) : file[i] = Opening(e)
  <2>1. PICK i \in 1..n - 1 : file[i] = Opening(e)
    BY DEF Holds
  <2>2. Len(file) \in Nat
    BY DEF ShapeInv, FileShape, Pieces, IsSeq
  <2>3. i \in 1..Len(file)
    BY <2>2
  <2> QED
    BY <2>1, <2>3
<1>3. Covered(file)
  BY SeqTyped, LinesShaped DEF ShapeInv, FileShape, Pieces
<1>4. file[i] # Newline
  BY <1>2 DEF Opening, Newline
<1>5. PICK k \in 1..Len(L) : \E j \in 1..Len(L[k]) : L[k][j] = file[i]
  BY <1>3, <1>4 DEF Covered
<1>6. PICK j \in 1..Len(L[k]) : L[k][j] = file[i]
  BY <1>5
<1> HIDE DEF es, L
<1>7. es[k] = e
  <2> DEFINE o == Opening(es[k])
             c == Closing(es[k])
             line == <<o, c>>
  <2>1. Len(line) = 2 /\ line[1] = o /\ line[2] = c
    OBVIOUS
  <2>2. o.of = es[k] /\ c.part = "tail" /\ Opening(e).part = "head" /\ Opening(e).of = e
    BY DEF Opening, Closing
  <2>3. L[k] = line
    BY <1>1
  <2> HIDE DEF o, c, line
  <2>4. Len(L[k]) = 2 /\ L[k][1] = o /\ L[k][2] = c
    BY <2>1, <2>3, Zenon
  <2>5. j \in 1..2
    BY <2>4
  <2>6. L[k][j] = Opening(e)
    BY <1>2, <1>6
  <2>7. CASE j = 1
    BY <2>2, <2>4, <2>6, <2>7, Zenon
  <2>8. CASE j = 2
    <3>1. c = Opening(e)
      BY <2>4, <2>6, <2>8, Zenon
    <3>2. c.part = "head"
      BY <2>2, <3>1, Zenon
    <3> QED
      BY <2>2, <3>2
  <2> QED
    BY <2>5, <2>7, <2>8
<1>8. e.sequence = k /\ k \in 1..Len(es)
  BY <1>1, <1>7
<1> QED
  BY <1>1, <1>7, <1>8 DEF es

LEMMA Begin == Init => IInv
<1> SUFFICES ASSUME Init PROVE IInv
  OBVIOUS
<1>1. IsSeq(<<>>) /\ Pieces(<<>>) /\ Len(<<>>) = 0 /\ DOMAIN <<>> = {} /\ IsPrefix(<<>>, <<>>)
  <2>1. IsSeq(<<>>) /\ Pieces(<<>>) /\ Len(<<>>) = 0
    BY NothingShape
  <2>2. DOMAIN <<>> = 1..Len(<<>>)
    BY <2>1, SeqTyped
  <2>3. 1..0 = {}
    OBVIOUS
  <2> QED
    BY <2>1, <2>2, <2>3, PrefixSelf
<1>2. Lines(<<>>) = <<>>
  <2>1. <<>> \in Seq({0}) /\ 0 \in {0}
    OBVIOUS
  <2> QED
    BY <2>1, LinesRecursion
<1>3. ShapeInv
  BY <1>1, StoreAssumption DEF Init, ShapeInv, FileShape, StoreShape, LockShape, EventShape, Pcs
<1>4. ChainInv
  BY ChainNothing DEF Init, ChainInv
<1>5. DurableInv
  BY <1>1 DEF Init, DurableInv
<1>6. RecordInv
  BY <1>1 DEF Init, RecordInv, Recorded
<1>7. AgreeInv
  BY <1>1 DEF Init, AgreeInv
<1>8. CleanInv
  <2>1. Clean(<<>>, <<>>)
    <3>1. [k \in 1..Len(<<>>) |-> <<Opening(<<>>[k]), Closing(<<>>[k])>>] = <<>>
      BY <1>1
    <3> QED
      BY <1>2, <3>1, ChainNothing DEF Clean
  <2> QED
    BY <2>1 DEF Init, CleanInv
<1> QED
  BY <1>3, <1>4, <1>5, <1>6, <1>7, <1>8 DEF IInv

\* What is known of the journal at every step.
THEOREM Invariance == Spec => []IInv
<1>1. Init => IInv
  BY Begin
<1>2. IInv /\ [Next]_vars => IInv'
  BY ShapeStep, ChainStep, DurableStep, RecordStep, AgreeStep, CleanStep DEF IInv
<1> QED
  BY <1>1, <1>2, PTL DEF Spec

\* The lock has one holder, and pending lines and events belong to the appends
\* that are being written (EventStore.append).
THEOREM TypeCorrect == Spec => []TypeOK
<1>1. IInv => TypeOK
  BY TypesHold DEF IInv
<1> QED
  BY <1>1, Invariance, PTL

\* An append that returned survives the crashes, outages and failing appends
\* that follow (the fsync of append, under the lock).
THEOREM AppendsAreDurable == Spec => []AckedDurable
<1>1. ASSUME IInv PROVE AckedDurable
  <2> SUFFICES ASSUME damages = 0, NEW k \in DOMAIN acked
               PROVE  Holds(file, Len(file), acked[k])
    BY DEF AckedDurable, Holds
  <2>1. Holds(file, synced, acked[k])
    BY <1>1 DEF IInv, DurableInv, Undamaged
  <2>2. Pieces(file) /\ synced \in 0..Len(file) /\ Len(file) \in 0..Len(file)
    BY <1>1 DEF IInv, ShapeInv, FileShape, Pieces, IsSeq
  <2> QED
    BY <2>1, <2>2, HoldsPart
<1> QED
  BY <1>1, Invariance, PTL

\* Whoever can read the journal reads every acknowledged event, at its number
\* (_refresh_unlocked, and the order of append's verification and write).
THEOREM ReadsMissNothing == Spec => []ReadsComplete
<1>1. ASSUME IInv PROVE ReadsComplete
  <2> SUFFICES ASSUME damages = 0, NEW s \in Stores, Accepts(s), NEW k \in DOMAIN acked
               PROVE  /\ acked[k].sequence <= Len(Events(file))
                      /\ Events(file)[acked[k].sequence] = acked[k]
    BY DEF ReadsComplete
  <2>1. Holds(file, synced, acked[k]) /\ synced \in 0..Len(file)
    BY <1>1 DEF IInv, DurableInv, Undamaged, ShapeInv, FileShape
  <2> QED
    BY <1>1, <2>1, HeldIsRead DEF IInv
<1> QED
  BY <1>1, Invariance, PTL

\* No two instances ever believe in different histories: the caches that
\* _refresh_unlocked and append fill are prefixes of one another.
THEOREM OneHistory == Spec => []HistoriesAgree
<1>1. IInv => HistoriesAgree
  BY DEF IInv, AgreeInv, Undamaged, HistoriesAgree
<1> QED
  BY <1>1, Invariance, PTL

\* A journal that no failing write, crash or edit touched is readable whenever
\* its lock is free, and holds exactly what append acknowledged.
THEOREM UndisturbedIsReadable == Spec => []ReadableUndisturbed
<1>1. ASSUME IInv PROVE ReadableUndisturbed
  <2> SUFFICES ASSUME Undisturbed, holder = NoStore
               PROVE  /\ \A k \in DOMAIN Objects(file) : IsObject(Objects(file)[k])
                      /\ Verifies(Events(file)) /\ Events(file) = acked
    BY DEF ReadableUndisturbed, Undisturbed
  <2>1. \A t \in Stores : pc[t] # "written"
    BY <1>1, StoreAssumption DEF IInv, ShapeInv, LockShape
  <2>2. Clean(file, acked) /\ IsSeq(acked)
    BY <1>1, <2>1 DEF IInv, CleanInv, ShapeInv, FileShape
  <2>3. Verifies(acked)
    BY <2>2 DEF Clean, Chain
  <2>4. /\ \A k \in DOMAIN Objects(file) : IsObject(Objects(file)[k])
        /\ Events(file) = acked
    BY <2>2, CleanReads
  <2> QED
    BY <2>3, <2>4
<1> QED
  BY <1>1, Invariance, PTL

\* What an instance has verified it never sees changed while its process runs,
\* not even by an edit that recomputed the hashes (_refresh_unlocked compares
\* what it reads with what it knew).
THEOREM HistoryIsKept == Spec => HistoryNeverChanges
<1>1. ASSUME IInv, [Next]_vars
      PROVE  [\A s \in Stores :
                 pc[s] # "down" /\ pc'[s] # "down" => IsPrefix(cache[s], cache'[s])]_vars
  BY <1>1, HistoryGrows DEF IInv
<1> QED
  BY <1>1, Invariance, PTL DEF Spec, HistoryNeverChanges
=============================================================================
