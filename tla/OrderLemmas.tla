------------------------------ MODULE OrderLemmas ------------------------------
(***************************************************************************)
(* Facts about least and greatest elements, orders and sequences that the  *)
(* proofs share.  The induction theorems of the library take a predicate;  *)
(* these take a set.                                                       *)
(***************************************************************************)
EXTENDS Integers, Sequences, FiniteSets, FiniteSetsExt, SequencesExt,
        FiniteSetTheorems, SequenceTheorems, WellFoundedInduction, MessageOrder, TLAPS

\* Among finitely many numbers there is a least one.
LEMMA LeastOfFinite ==
  ASSUME NEW S \in SUBSET Nat, IsFiniteSet(S), S # {}
  PROVE  \E x \in S : \A y \in S : x <= y
  <1> DEFINE Below(x) == {y \in S : y <= x}
             T == {Below(x) : x \in S}
  <1>1. IsWellFoundedOn(StrictSubsetOrdering(S), SUBSET S)
    BY FS_StrictSubsetOrderingWellFounded, FS_FiniteSubsetsOfFinite
  <1>2. T \subseteq SUBSET S /\ T # {}
    OBVIOUS
  <1>. HIDE DEF T
  <1>3. PICK B \in T : \A C \in T : <<C, B>> \notin StrictSubsetOrdering(S)
    BY <1>1, <1>2, WFMin
  <1>4. PICK x \in S : B = Below(x)
    BY <1>3 DEF T
  <1>5. ASSUME NEW y \in S, ~(x <= y) PROVE FALSE
    <2>1. x \in Nat /\ y \in Nat /\ y < x
      BY <1>5
    <2>2. Below(y) \subseteq Below(x)
      <3>1. ASSUME NEW z \in Below(y) PROVE z \in Below(x)
        <4>1. z \in S /\ z \in Nat
          OBVIOUS
        <4>. QED BY <2>1, <4>1
      <3>. QED BY <3>1
    <2>5. x \in Below(x) /\ x \notin Below(y)
      BY <2>1
    <2>3. Below(y) \in SUBSET S /\ Below(x) \in SUBSET S /\ Below(y) \in T
      BY DEF T
    <2>. HIDE DEF Below
    <2>4. <<Below(y), Below(x)>> \in StrictSubsetOrdering(S)
      BY <2>2, <2>3, <2>5 DEF StrictSubsetOrdering
    <2>. QED BY <1>3, <1>4, <2>3, <2>4
  <1>. QED BY <1>5

\* Every set of natural numbers has a least element: the numbers of the set up
\* to any of its elements are finitely many.
LEMMA LeastNatural ==
  ASSUME NEW S \in SUBSET Nat, S # {}
  PROVE  \E x \in S : \A y \in S : x <= y
  <1>1. PICK n \in S : TRUE
    OBVIOUS
  <1> DEFINE T == {x \in S : x <= n}
  <1>2. n \in Nat /\ n \in T /\ T \in SUBSET Nat /\ \A x \in T : x <= n
    <2>1. n \in Nat
      OBVIOUS
    <2>2. n \in T
      BY <2>1
    <2>3. T \in SUBSET Nat
      OBVIOUS
    <2>. QED BY <2>1, <2>2, <2>3
  <1>. HIDE DEF T
  <1>4. IsFiniteSet(T)
    BY <1>2, FS_BoundedSetOfNaturals
  <1>3. PICK x \in T : \A y \in T : x <= y
    BY <1>2, <1>4, LeastOfFinite
  <1>5. ASSUME NEW y \in S PROVE x <= y
    BY <1>2, <1>3 DEF T
  <1>. QED BY <1>3, <1>5 DEF T

LEMMA MinOfNaturals ==
  ASSUME NEW S \in SUBSET Nat, S # {}
  PROVE  Min(S) \in S /\ \A x \in S : Min(S) <= x
  BY LeastNatural DEF Min

\* Induction on the natural numbers, for a set.
LEMMA SetInduction ==
  ASSUME NEW S, 0 \in S, \A n \in Nat : n \in S => n + 1 \in S
  PROVE  \A n \in Nat : n \in S
  <1> DEFINE T == Nat \ S
  <1>1. ASSUME T # {} PROVE FALSE
    <2>1. PICK n \in T : \A k \in T : n <= k
      BY <1>1, LeastNatural
    <2>2. n # 0 /\ n \in Nat
      OBVIOUS
    <2>3. n - 1 \in Nat /\ (n - 1) + 1 = n
      BY <2>2
    <2>4. n - 1 \in S
      BY <2>1, <2>3
    <2>. QED BY <2>3, <2>4
  <1>. QED BY <1>1

\* Finitely many numbers have a greatest one.
LEMMA MaxOfNaturals ==
  ASSUME NEW S \in SUBSET Nat, IsFiniteSet(S), S # {}
  PROVE  Max(S) \in S /\ \A x \in S : Max(S) >= x
  <1> DEFINE Above(x) == {y \in S : x <= y}
             T == {Above(x) : x \in S}
  <1>1. IsWellFoundedOn(StrictSubsetOrdering(S), SUBSET S)
    BY FS_StrictSubsetOrderingWellFounded, FS_FiniteSubsetsOfFinite
  <1>2. T \subseteq SUBSET S /\ T # {}
    OBVIOUS
  <1>. HIDE DEF T
  <1>3. PICK B \in T : \A C \in T : <<C, B>> \notin StrictSubsetOrdering(S)
    BY <1>1, <1>2, WFMin
  <1>4. PICK x \in S : B = Above(x)
    BY <1>3 DEF T
  <1>5. ASSUME NEW y \in S, ~(x >= y) PROVE FALSE
    <2>1. x \in Nat /\ y \in Nat /\ x < y
      BY <1>5
    <2>2. Above(y) \subseteq Above(x)
      <3>1. ASSUME NEW z \in Above(y) PROVE z \in Above(x)
        <4>1. z \in S /\ z \in Nat
          OBVIOUS
        <4>. QED BY <2>1, <4>1
      <3>. QED BY <3>1
    <2>5. x \in Above(x) /\ x \notin Above(y)
      BY <2>1
    <2>3. Above(y) \in SUBSET S /\ Above(x) \in SUBSET S /\ Above(y) \in T
      BY DEF T
    <2>. HIDE DEF Above
    <2>4. <<Above(y), Above(x)>> \in StrictSubsetOrdering(S)
      BY <2>2, <2>3, <2>5 DEF StrictSubsetOrdering
    <2>. QED BY <1>3, <1>4, <2>3, <2>4
  <1>. HIDE DEF Above
  <1>6. \A y \in S : x >= y
    BY <1>5
  <1>. QED BY <1>6 DEF Max

-----------------------------------------------------------------------------
(* Records in the order of their sequences.                                 *)

\* An element's rank is below the size of a finite set, and ranks grow with the
\* sequences.
LEMMA RankOf ==
  ASSUME NEW S, IsFiniteSet(S), \A x \in S : x.seq \in Nat
  PROVE  /\ Cardinality(S) \in Nat
         /\ \A m \in S : Rank(S, m.seq) \in Nat /\ Rank(S, m.seq) < Cardinality(S)
         /\ \A m, n \in S : m.seq <= n.seq => Rank(S, m.seq) <= Rank(S, n.seq)
  <1> DEFINE Before(n) == {x \in S : x.seq < n}
  <1>1. Cardinality(S) \in Nat
    BY FS_CardinalityType
  <1>2. \A n : /\ Before(n) \in SUBSET S /\ IsFiniteSet(Before(n))
               /\ Cardinality(Before(n)) \in Nat
               /\ Cardinality(Before(n)) <= Cardinality(S)
               /\ Cardinality(S) = Cardinality(Before(n)) => S = Before(n)
    <2>. TAKE n
    <2>1. Before(n) \in SUBSET S
      OBVIOUS
    <2>. HIDE DEF Before
    <2>2. /\ IsFiniteSet(Before(n))
          /\ Cardinality(Before(n)) <= Cardinality(S)
          /\ Cardinality(S) = Cardinality(Before(n)) => S = Before(n)
      BY <2>1, FS_Subset
    <2>3. Cardinality(Before(n)) \in Nat
      BY <2>2, FS_CardinalityType
    <2>. QED BY <2>1, <2>2, <2>3
  <1>3. \A m \in S : m \notin Before(m.seq)
    OBVIOUS
  <1>4. ASSUME NEW m \in S, NEW n \in S, m.seq <= n.seq
        PROVE  Before(m.seq) \in SUBSET Before(n.seq)
    <2>1. m.seq \in Nat /\ n.seq \in Nat
      OBVIOUS
    <2>2. ASSUME NEW x \in Before(m.seq) PROVE x \in Before(n.seq)
      <3>1. x \in S /\ x.seq \in Nat /\ x.seq < m.seq
        OBVIOUS
      <3>. QED BY <1>4, <2>1, <3>1
    <2>. QED BY <2>2
  <1>5. \A n : Rank(S, n) = Cardinality(Before(n))
    BY DEF Rank
  <1>. HIDE DEF Before
  <1>6. ASSUME NEW m \in S PROVE Cardinality(Before(m.seq)) < Cardinality(S)
    <2>1. S # Before(m.seq)
      BY <1>3
    <2>. QED BY <1>1, <1>2, <2>1
  <1>7. ASSUME NEW m \in S, NEW n \in S, m.seq <= n.seq
        PROVE  Cardinality(Before(m.seq)) <= Cardinality(Before(n.seq))
    BY <1>2, <1>4, <1>7, FS_Subset
  <1>. QED BY <1>1, <1>2, <1>5, <1>6, <1>7

\* The sequences of finitely many records are finitely many.
LEMMA SequencesFinite ==
  ASSUME NEW S, IsFiniteSet(S)
  PROVE  IsFiniteSet({m.seq : m \in S})
  <1> DEFINE seqs == {m.seq : m \in S}
             f == [m \in S |-> m.seq]
  <1>1. f \in Surjection(S, seqs)
    BY DEF Surjection
  <1>. HIDE DEF f
  <1>. QED BY <1>1, FS_Surjection

\* The first N records of a finite set: a lower part of it, which is not all of
\* it just when there are more than N, and is empty only with the set.
LEMMA FirstRecords ==
  ASSUME NEW S, IsFiniteSet(S), \A x \in S : x.seq \in Nat,
         \A x, y \in S : x.seq = y.seq => x = y,
         NEW N \in Nat \ {0},
         NEW page, page = {m \in S : Rank(S, m.seq) < N}
  PROVE  /\ S # {} => page # {}
         /\ \A m \in S : \A n \in page : m.seq <= n.seq => m \in page
         /\ Cardinality(S) <= N => page = S
         /\ Cardinality(S) > N => page # S
  <1>0. /\ Cardinality(S) \in Nat
        /\ \A m \in S : Rank(S, m.seq) \in Nat /\ Rank(S, m.seq) < Cardinality(S)
        /\ \A m, n \in S : m.seq <= n.seq => Rank(S, m.seq) <= Rank(S, n.seq)
    BY RankOf
  <1>1. ASSUME S # {} PROVE page # {}
    <2> DEFINE seqs == {m.seq : m \in S}
    <2>1. seqs \in SUBSET Nat /\ seqs # {}
      BY <1>1
    <2>2. PICK n \in seqs : \A k \in seqs : n <= k
      BY <2>1, LeastNatural
    <2>3. PICK m \in S : m.seq = n
      BY <2>2
    <2>4. {x \in S : x.seq < n} = {}
      <3>1. ASSUME NEW x \in S, x.seq < n PROVE FALSE
        <4>1. x.seq \in seqs /\ x.seq \in Nat /\ n \in Nat
          BY <2>1
        <4>2. n <= x.seq
          BY <2>2, <4>1
        <4>. HIDE DEF seqs
        <4>. QED BY <3>1, <4>1, <4>2
      <3>. QED BY <3>1
    <2>5. Rank(S, m.seq) = 0
      BY <2>3, <2>4, FS_EmptySet DEF Rank
    <2>. QED BY <2>3, <2>5
  <1>2. ASSUME NEW m \in S, NEW n \in page, m.seq <= n.seq PROVE m \in page
    <2>1. n \in S /\ Rank(S, n.seq) < N /\ Rank(S, m.seq) <= Rank(S, n.seq)
      BY <1>0, <1>2
    <2>2. Rank(S, m.seq) \in Nat /\ Rank(S, n.seq) \in Nat
      BY <1>0, <2>1
    <2>. QED BY <2>1, <2>2
  <1>3. ASSUME Cardinality(S) <= N PROVE page = S
    <2>1. ASSUME NEW m \in S PROVE Rank(S, m.seq) < N
      BY <1>0, <1>3
    <2>. QED BY <2>1
  <1>4. ASSUME Cardinality(S) > N, page = S PROVE FALSE
    <2> DEFINE seqs == {m.seq : m \in S}
    <2>0. S # {}
      BY <1>0, <1>4, FS_EmptySet
    <2>1. seqs \in SUBSET Nat /\ seqs # {} /\ IsFiniteSet(seqs)
      <3>1. seqs \in SUBSET Nat /\ seqs # {}
        BY <2>0
      <3>2. IsFiniteSet(seqs)
        BY SequencesFinite
      <3>. QED BY <3>1, <3>2
    <2>2. Max(seqs) \in seqs /\ \A x \in seqs : Max(seqs) >= x
      BY <2>1, MaxOfNaturals
    <2>3. PICK m \in S : m.seq = Max(seqs)
      BY <2>2
    <2> DEFINE Before == {x \in S : x.seq < m.seq}
    <2>4. Before \cup {m} = S
      <3>1. ASSUME NEW x \in S, x \notin Before PROVE x = m
        <4>1. x.seq \in seqs /\ x.seq \in Nat /\ m.seq \in Nat
          OBVIOUS
        <4>2. Max(seqs) >= x.seq /\ ~(x.seq < m.seq)
          BY <2>2, <3>1, <4>1
        <4>3. x.seq = m.seq
          BY <2>3, <4>1, <4>2
        <4>. QED BY <4>3
      <3>. QED BY <3>1
    <2>5. m \notin Before /\ Before \in SUBSET S
      BY <2>1
    <2>6. Rank(S, m.seq) = Cardinality(Before)
      BY DEF Rank
    <2>. HIDE DEF Before, seqs
    <2>7. IsFiniteSet(Before)
      BY <2>5, FS_Subset
    <2>8. Cardinality(S) = Cardinality(Before) + 1
      BY <2>4, <2>5, <2>7, FS_AddElement
    <2>9. Rank(S, m.seq) < N
      BY <1>4
    <2>10. Cardinality(Before) \in Nat
      BY <2>7, FS_CardinalityType
    <2>. QED BY <1>4, <2>6, <2>8, <2>9, <2>10
  <1>. QED BY <1>1, <1>2, <1>3, <1>4

\* A finite set of records that each have a sequence of their own.
Numbered(S) ==
  /\ IsFiniteSet(S)
  /\ \A x \in S : x.seq \in Nat
  /\ \A x, y \in S : x.seq = y.seq => x = y

LEMMA NumberedSubset ==
  ASSUME NEW S, Numbered(S), NEW T \in SUBSET S
  PROVE  Numbered(T)
  BY FS_Subset DEF Numbered

\* Ranks tell the records apart: each one from 0 is the rank of exactly one.
LEMMA RanksOnto ==
  ASSUME NEW S, Numbered(S)
  PROVE  /\ Cardinality(S) \in Nat
         /\ \A m \in S : Rank(S, m.seq) \in 0..(Cardinality(S) - 1)
         /\ \A m, n \in S : m.seq < n.seq <=> Rank(S, m.seq) < Rank(S, n.seq)
         /\ \A m, n \in S : Rank(S, m.seq) = Rank(S, n.seq) => m = n
         /\ \A r \in 0..(Cardinality(S) - 1) : \E m \in S : Rank(S, m.seq) = r
  <1>1. /\ Cardinality(S) \in Nat
        /\ \A m \in S : Rank(S, m.seq) \in Nat /\ Rank(S, m.seq) < Cardinality(S)
        /\ \A m, n \in S : m.seq <= n.seq => Rank(S, m.seq) <= Rank(S, n.seq)
    BY RankOf DEF Numbered
  <1>2. ASSUME NEW m \in S, NEW n \in S, m.seq < n.seq
        PROVE  Rank(S, m.seq) # Rank(S, n.seq)
    <2> DEFINE M == {x \in S : x.seq < m.seq}
               N == {x \in S : x.seq < n.seq}
    <2>1. m.seq \in Nat /\ n.seq \in Nat
      BY DEF Numbered
    <2>2. ASSUME NEW x \in M PROVE x \in N
      <3>1. x \in S /\ x.seq \in Nat /\ x.seq < m.seq
        BY DEF Numbered
      <3>. QED BY <1>2, <2>1, <3>1
    <2>3. m \in N /\ m \notin M
      BY <1>2, <2>1
    <2>4. IsFiniteSet(N)
      BY FS_Subset DEF Numbered
    <2>5. Rank(S, m.seq) = Cardinality(M) /\ Rank(S, n.seq) = Cardinality(N)
      BY DEF Rank
    <2>. HIDE DEF M, N
    <2>. QED BY <2>2, <2>3, <2>4, <2>5, FS_Subset
  <1>3. ASSUME NEW m \in S, NEW n \in S
        PROVE  m.seq < n.seq <=> Rank(S, m.seq) < Rank(S, n.seq)
    <2>1. m.seq \in Nat /\ n.seq \in Nat
      BY DEF Numbered
    <2>. QED BY <1>1, <1>2, <2>1
  <1>4. ASSUME NEW m \in S, NEW n \in S, Rank(S, m.seq) = Rank(S, n.seq)
        PROVE  m = n
    <2>1. m.seq \in Nat /\ n.seq \in Nat /\ ~(m.seq < n.seq) /\ ~(n.seq < m.seq)
      BY <1>2, <1>4 DEF Numbered
    <2>2. m.seq = n.seq
      BY <2>1
    <2>. QED BY <2>2 DEF Numbered
  <1>5. \A r \in 0..(Cardinality(S) - 1) : \E m \in S : Rank(S, m.seq) = r
    <2> DEFINE ranks == 0..(Cardinality(S) - 1)
               f == [m \in S |-> Rank(S, m.seq)]
    <2>1. \A m \in S : Rank(S, m.seq) \in ranks
      BY <1>1
    <2>2. f \in Injection(S, ranks)
      BY <1>4, <2>1 DEF Injection, IsInjective
    <2>3. IsFiniteSet(ranks) /\ Cardinality(ranks) = Cardinality(S)
      <3>1. 0 \in Int /\ Cardinality(S) - 1 \in Int
        BY <1>1
      <3>2. /\ IsFiniteSet(ranks)
            /\ Cardinality(ranks) = IF 0 > Cardinality(S) - 1 THEN 0
                                    ELSE (Cardinality(S) - 1) - 0 + 1
        BY <3>1, FS_Interval
      <3>. HIDE DEF ranks
      <3>. QED BY <1>1, <3>2
    <2>. HIDE DEF f, ranks
    <2>4. f \in Surjection(S, ranks)
      BY <2>2, <2>3, FS_Injection
    <2>. QED BY <2>4 DEF Surjection, f, ranks
  <1>6. \A m \in S : Rank(S, m.seq) \in 0..(Cardinality(S) - 1)
    BY <1>1
  <1>. QED BY <1>1, <1>3, <1>4, <1>5, <1>6

\* Ordering a set by sequence loses nothing, adds nothing and repeats nothing.
LEMMA BySequenceOrders ==
  ASSUME NEW S, Numbered(S)
  PROVE  /\ BySequence(S) \in Seq(S)
         /\ Len(BySequence(S)) = Cardinality(S) /\ Cardinality(S) \in Nat
         /\ DOMAIN BySequence(S) = 1..Cardinality(S)
         /\ \A i \in 1..Cardinality(S) :
              BySequence(S)[i] \in S /\ Rank(S, BySequence(S)[i].seq) = i - 1
         /\ \A m \in S : \E i \in 1..Cardinality(S) : BySequence(S)[i] = m
         /\ \A i, j \in 1..Cardinality(S) :
              i < j => BySequence(S)[i].seq < BySequence(S)[j].seq
  <1> DEFINE n == Cardinality(S)
             q == BySequence(S)
  <1>1. /\ n \in Nat
        /\ \A m \in S : Rank(S, m.seq) \in 0..(n - 1)
        /\ \A x, y \in S : x.seq < y.seq <=> Rank(S, x.seq) < Rank(S, y.seq)
        /\ \A x, y \in S : Rank(S, x.seq) = Rank(S, y.seq) => x = y
        /\ \A r \in 0..(n - 1) : \E m \in S : Rank(S, m.seq) = r
    BY RanksOnto
  <1>2. q = [i \in 1..n |-> CHOOSE m \in S : Rank(S, m.seq) = i - 1]
    BY DEF BySequence
  <1>. HIDE DEF n, q
  <1>3. ASSUME NEW i \in 1..n PROVE q[i] \in S /\ Rank(S, q[i].seq) = i - 1
    <2>1. i - 1 \in 0..(n - 1)
      BY <1>1
    <2>2. \E m \in S : Rank(S, m.seq) = i - 1
      BY <1>1, <2>1
    <2>3. q[i] = CHOOSE m \in S : Rank(S, m.seq) = i - 1
      BY <1>2
    <2>. QED BY <2>2, <2>3
  <1>4. q \in [1..n -> S] /\ DOMAIN q = 1..n
    BY <1>2, <1>3
  <1>5. q \in Seq(S) /\ Len(q) = n
    BY <1>1, <1>4
  <1>6. ASSUME NEW m \in S PROVE \E i \in 1..n : q[i] = m
    <2> DEFINE i == Rank(S, m.seq) + 1
    <2>1. i \in 1..n /\ i - 1 = Rank(S, m.seq)
      BY <1>1
    <2>2. q[i] \in S /\ Rank(S, q[i].seq) = Rank(S, m.seq)
      BY <1>3, <2>1
    <2>. QED BY <1>1, <2>1, <2>2
  <1>7. ASSUME NEW i \in 1..n, NEW j \in 1..n, i < j PROVE q[i].seq < q[j].seq
    <2>1. i - 1 < j - 1
      BY <1>1, <1>7
    <2>. QED BY <1>1, <1>3, <2>1
  <1>. QED BY <1>1, <1>3, <1>4, <1>5, <1>6, <1>7 DEF n, q

LEMMA BySequenceOfNone == BySequence({}) = <<>>
  <1>1. Cardinality({}) = 0
    BY FS_EmptySet
  <1>. QED BY <1>1 DEF BySequence

\* Without the oldest one, the others move up.
LEMMA BySequenceTail ==
  ASSUME NEW S, Numbered(S), NEW h \in S, \A m \in S : h.seq <= m.seq
  PROVE  /\ BySequence(S) # <<>>
         /\ Head(BySequence(S)) = h
         /\ Tail(BySequence(S)) = BySequence(S \ {h})
  <1> DEFINE n == Cardinality(S)
             q == BySequence(S)
             T == S \ {h}
             t == BySequence(T)
  <1>1. /\ q \in Seq(S) /\ Len(q) = n /\ n \in Nat
        /\ \A i \in 1..n : q[i] \in S /\ Rank(S, q[i].seq) = i - 1
        /\ \A m \in S : \E i \in 1..n : q[i] = m
        /\ \A i, j \in 1..n : i < j => q[i].seq < q[j].seq
    BY BySequenceOrders
  <1>2. Numbered(T)
    BY NumberedSubset
  <1>3. Cardinality(T) = n - 1
    BY FS_RemoveElement DEF Numbered
  <1>4. /\ t \in Seq(T) /\ Len(t) = n - 1 /\ n - 1 \in Nat
        /\ \A i \in 1..(n - 1) : t[i] \in T /\ Rank(T, t[i].seq) = i - 1
    BY <1>2, <1>3, BySequenceOrders
  <1>5. \A x, y \in S : Rank(S, x.seq) = Rank(S, y.seq) => x = y
    BY RanksOnto
  <1>6. ASSUME NEW m \in T PROVE Rank(T, m.seq) = Rank(S, m.seq) - 1
    <2> DEFINE A == {x \in S : x.seq < m.seq}
               B == {x \in T : x.seq < m.seq}
    <2>1. h.seq \in Nat /\ m.seq \in Nat /\ h.seq <= m.seq /\ h.seq # m.seq
      BY DEF Numbered
    <2>2. h \in A /\ B = A \ {h}
      BY <2>1
    <2>3. IsFiniteSet(A)
      BY FS_Subset DEF Numbered
    <2>4. Rank(S, m.seq) = Cardinality(A) /\ Rank(T, m.seq) = Cardinality(B)
      BY DEF Rank
    <2>. HIDE DEF A, B
    <2>. QED BY <2>2, <2>3, <2>4, FS_RemoveElement
  <1>7. Rank(S, h.seq) = 0
    <2>1. ASSUME NEW x \in S, x.seq < h.seq PROVE FALSE
      <3>1. x.seq \in Nat /\ h.seq \in Nat /\ h.seq <= x.seq
        BY DEF Numbered
      <3>. QED BY <2>1, <3>1
    <2>2. {x \in S : x.seq < h.seq} = {}
      BY <2>1
    <2>. QED BY <2>2, FS_EmptySet DEF Rank
  <1>. HIDE DEF n, q, T, t
  <1>8. 1 \in 1..n /\ q # <<>>
    BY <1>1, <1>4
  <1>9. q[1] = h
    BY <1>1, <1>5, <1>7, <1>8
  <1>10. Tail(q) \in Seq(S) /\ Len(Tail(q)) = n - 1 /\ \A i \in 1..(n - 1) : Tail(q)[i] = q[i + 1]
    BY <1>1, <1>8
  <1>11. ASSUME NEW i \in 1..(n - 1) PROVE t[i] = Tail(q)[i]
    <2>1. i + 1 \in 1..n /\ (i + 1) - 1 = i
      BY <1>1
    <2>2. q[i + 1] \in S /\ Rank(S, q[i + 1].seq) = i
      BY <1>1, <2>1
    <2>3. t[i] \in S /\ t[i] \in T /\ Rank(T, t[i].seq) = i - 1
      BY <1>4 DEF T
    <2>4. Rank(S, t[i].seq) = i
      <3>1. Rank(S, t[i].seq) \in 0..(Cardinality(S) - 1)
        BY <2>3, RanksOnto
      <3>2. Rank(T, t[i].seq) = Rank(S, t[i].seq) - 1
        BY <1>6, <2>3
      <3>. QED BY <1>1, <2>3, <3>1, <3>2 DEF n
    <2>. QED BY <1>5, <1>10, <2>2, <2>3, <2>4
  <1>12. t = Tail(q)
    <2>1. t \in Seq(S)
      BY <1>4 DEF T
    <2>. QED BY <1>4, <1>10, <1>11, <2>1, SeqEqual
  <1>13. Head(q) = h
    BY <1>1, <1>8, <1>9, HeadTailProperties
  <1>14. q = BySequence(S) /\ t = BySequence(S \ {h})
    BY DEF q, t, T
  <1>. QED BY <1>8, <1>12, <1>13, <1>14

\* What a queue in sequence order holds is a numbered set.
LEMMA QueueNumbered ==
  ASSUME NEW M, \A m \in M : m.seq \in Nat,
         NEW q \in Seq(M), \A i, j \in DOMAIN q : i < j => q[i].seq < q[j].seq
  PROVE  Numbered(ToSet(q))
  <1> DEFINE T == ToSet(q)
             n == Len(q)
  <1>1. n \in Nat /\ DOMAIN q = 1..n /\ \A i \in 1..n : q[i] \in M
    BY LenProperties, ElementOfSeq
  <1>. USE DEF ToSet
  <1>2. IsFiniteSet(1..n)
    BY <1>1, FS_Interval
  <1>3. q \in Surjection(1..n, T)
    BY <1>1, IsASeq DEF Surjection
  <1>4. IsFiniteSet(T)
    BY <1>2, <1>3, FS_Surjection
  <1>5. ASSUME NEW x \in T, NEW y \in T, x.seq = y.seq PROVE x = y
    <2>1. PICK i \in 1..n : x = q[i]
      BY <1>1
    <2>2. PICK j \in 1..n : y = q[j]
      BY <1>1
    <2>3. x.seq \in Nat /\ y.seq \in Nat
      BY <1>1, <2>1, <2>2
    <2>4. ~(i < j) /\ ~(j < i)
      BY <1>1, <1>5, <2>1, <2>2, <2>3
    <2>. QED BY <1>1, <2>1, <2>2, <2>4
  <1>6. \A x \in T : x.seq \in Nat
    BY <1>1
  <1>. QED BY <1>4, <1>5, <1>6 DEF Numbered

-----------------------------------------------------------------------------
(* Queues of messages.                                                      *)

LEMMA ElementSeqs ==
  ASSUME NEW M, \A m \in M : m.seq \in Nat, NEW q \in Seq(M)
  PROVE  \A i \in DOMAIN q : q[i] \in M /\ q[i].seq \in Nat
  <1>1. \A i \in DOMAIN q : q[i] \in M
    BY ElementOfSeq, LenProperties
  <1>. QED BY <1>1

\* A newer message at the end of a queue in sequence order.
LEMMA QueueGrows ==
  ASSUME NEW M, \A m \in M : m.seq \in Nat, NEW q \in Seq(M), NEW m \in M, NEW c \in Nat,
         m.seq > c,
         \A i, j \in DOMAIN q : i < j => q[i].seq < q[j].seq,
         \A i \in DOMAIN q : q[i].seq <= c
  PROVE  /\ \A i, j \in DOMAIN Append(q, m) :
              i < j => Append(q, m)[i].seq < Append(q, m)[j].seq
         /\ \A i \in DOMAIN Append(q, m) : Append(q, m)[i].seq <= m.seq
         /\ ToSet(Append(q, m)) = ToSet(q) \cup {m}
  <1> DEFINE r == Append(q, m)
  <1>1. /\ r \in Seq(M) /\ Len(r) = Len(q) + 1
        /\ \A i \in 1..Len(q) : r[i] = q[i]
        /\ r[Len(q) + 1] = m
    BY AppendProperties
  <1>2. /\ DOMAIN q = 1..Len(q) /\ Len(q) \in Nat /\ DOMAIN r = 1..(Len(q) + 1)
    BY <1>1, LenProperties
  <1>3. \A i \in 1..Len(q) : q[i].seq \in Nat
    BY <1>2, ElementSeqs
  <1>4. m.seq \in Nat
    OBVIOUS
  <1>. HIDE DEF r
  <1>5. ASSUME NEW i \in DOMAIN r PROVE i \in 1..Len(q) \/ i = Len(q) + 1
    BY <1>2
  <1>6. \A i \in DOMAIN r : r[i].seq <= m.seq
    BY <1>1, <1>2, <1>3, <1>4, <1>5
  <1>7. ASSUME NEW i \in DOMAIN r, NEW j \in DOMAIN r, i < j PROVE r[i].seq < r[j].seq
    <2>1. i \in 1..Len(q)
      BY <1>2, <1>7
    <2>2. CASE j \in 1..Len(q)
      BY <1>1, <1>2, <1>7, <2>1, <2>2
    <2>3. CASE j = Len(q) + 1
      BY <1>1, <1>2, <1>3, <1>4, <2>1, <2>3
    <2>. QED BY <1>5, <2>2, <2>3
  <1>8. ToSet(r) = ToSet(q) \cup {m}
    BY <1>1, <1>2 DEF ToSet
  <1>. QED BY <1>6, <1>7, <1>8 DEF r

\* Taking the front of a queue in sequence order leaves the rest of it.
LEMMA QueueShrinks ==
  ASSUME NEW M, \A m \in M : m.seq \in Nat, NEW q \in Seq(M), q # <<>>,
         \A i, j \in DOMAIN q : i < j => q[i].seq < q[j].seq
  PROVE  /\ 1 \in DOMAIN q
         /\ \A i, j \in DOMAIN Tail(q) : i < j => Tail(q)[i].seq < Tail(q)[j].seq
         /\ \A i \in DOMAIN Tail(q) : i + 1 \in DOMAIN q /\ Tail(q)[i] = q[i + 1]
         /\ ToSet(Tail(q)) = ToSet(q) \ {q[1]}
         /\ \A m \in ToSet(q) : q[1].seq <= m.seq
  <1> DEFINE r == Tail(q)
  <1>1. /\ r \in Seq(M) /\ Len(r) = Len(q) - 1
        /\ \A i \in 1..Len(r) : r[i] = q[i + 1]
    BY HeadTailProperties
  <1>2. /\ DOMAIN q = 1..Len(q) /\ Len(q) \in Nat /\ DOMAIN r = 1..(Len(q) - 1)
        /\ Len(q) - 1 \in Nat
    BY <1>1, LenProperties
  <1>3. 1 \in DOMAIN q /\ \A i \in DOMAIN r : i + 1 \in DOMAIN q /\ r[i] = q[i + 1]
    BY <1>1, <1>2
  <1>4. \A i \in DOMAIN q : q[i].seq \in Nat
    BY ElementSeqs
  <1>. HIDE DEF r
  <1>5. ASSUME NEW i \in DOMAIN r, NEW j \in DOMAIN r, i < j PROVE r[i].seq < r[j].seq
    <2>1. i + 1 < j + 1
      BY <1>2, <1>5
    <2>. QED BY <1>3, <2>1
  <1>6. ToSet(r) = ToSet(q) \ {q[1]}
    <2>1. ASSUME NEW i \in DOMAIN r PROVE r[i] \in ToSet(q) \ {q[1]}
      <3>1. i + 1 \in DOMAIN q /\ r[i] = q[i + 1] /\ 1 < i + 1
        BY <1>2, <1>3
      <3>2. q[1].seq < q[i + 1].seq /\ q[1].seq \in Nat /\ q[i + 1].seq \in Nat
        BY <1>3, <1>4, <3>1
      <3>3. q[i + 1] # q[1]
        BY <3>2
      <3>. QED BY <3>1, <3>3 DEF ToSet
    <2>2. ASSUME NEW i \in DOMAIN q, q[i] # q[1] PROVE q[i] \in ToSet(r)
      <3>1. i - 1 \in DOMAIN r /\ (i - 1) + 1 = i
        BY <1>2, <2>2
      <3>. QED BY <1>3, <3>1 DEF ToSet
    <2>. QED BY <2>1, <2>2 DEF ToSet
  <1>7. ASSUME NEW i \in DOMAIN q PROVE q[1].seq <= q[i].seq
    <2>1. i = 1 \/ 1 < i
      BY <1>2
    <2>. QED BY <1>3, <1>4, <2>1
  <1>. QED BY <1>3, <1>5, <1>6, <1>7 DEF r, ToSet

-----------------------------------------------------------------------------
(* Sequences built from the front.                                          *)

\* Induction on sequences, for a set.
LEMMA SequenceInduction ==
  ASSUME NEW S, NEW Q, <<>> \in Q,
         \A s \in Seq(S) : \A x \in S : s \in Q => Append(s, x) \in Q
  PROVE  \A s \in Seq(S) : s \in Q
  <1> DEFINE N == {n \in Nat : \A s \in Seq(S) : Len(s) = n => s \in Q}
  <1>1. 0 \in N
    <2>1. \A s \in Seq(S) : Len(s) = 0 => s = <<>>
      BY EmptySeq
    <2>. QED BY <2>1
  <1>2. ASSUME NEW n \in Nat, n \in N PROVE n + 1 \in N
    <2>1. ASSUME NEW s \in Seq(S), Len(s) = n + 1 PROVE s \in Q
      <3>1. s # <<>>
        BY <2>1, EmptySeq
      <3>2. PICK r \in Seq(S), x \in S : s = Append(r, x)
        BY <3>1, SequenceEmptyOrAppend
      <3>3. Len(r) = n
        BY <2>1, <3>2, AppendProperties, LenProperties
      <3>4. r \in Q
        BY <1>2, <3>3
      <3>. QED BY <3>2, <3>4
    <2>. QED BY <2>1
  <1>. HIDE DEF N
  <1>3. \A n \in Nat : n \in N
    BY <1>1, <1>2, SetInduction
  <1>. QED BY <1>3, LenProperties DEF N

\* A step function applied to one element after the other.
Accumulates(f, S, step, base, s) ==
  /\ f \in [0..Len(s) -> S] /\ f[0] = base
  /\ \A i \in 1..Len(s) : f[i] = step[<<f[i - 1], s[i]>>]

Agree(f, g, s) == \A i \in 0..Len(s) : f[i] = g[i]

\* Every sequence has such a function, and only one.
LEMMA AccumulatorExists ==
  ASSUME NEW S, NEW A, NEW base \in S, NEW step \in [S \X A -> S]
  PROVE  \A s \in Seq(A) : \E f : Accumulates(f, S, step, base, s)
  <1> DEFINE Q == {s \in Seq(A) : \E f : Accumulates(f, S, step, base, s)}
  <1>1. <<>> \in Q
    <2> DEFINE f == [i \in 0..0 |-> base]
    <2>1. Len(<<>>) = 0 /\ <<>> \in Seq(A)
      OBVIOUS
    <2>2. Accumulates(f, S, step, base, <<>>)
      BY <2>1 DEF Accumulates
    <2>. QED BY <2>1, <2>2
  <1>2. ASSUME NEW s \in Seq(A), NEW x \in A, s \in Q PROVE Append(s, x) \in Q
    <2>1. PICK f : Accumulates(f, S, step, base, s)
      BY <1>2
    <2> DEFINE n == Len(s)
               g == [i \in 0..(n + 1) |-> IF i <= n THEN f[i] ELSE step[<<f[n], x>>]]
    <2>2. n \in Nat /\ Append(s, x) \in Seq(A) /\ Len(Append(s, x)) = n + 1
          /\ (\A i \in 1..n : Append(s, x)[i] = s[i]) /\ Append(s, x)[n + 1] = x
      BY AppendProperties, LenProperties
    <2>3. f \in [0..n -> S] /\ f[0] = base /\ \A i \in 1..n : f[i] = step[<<f[i - 1], s[i]>>]
      BY <2>1 DEF Accumulates
    <2>. HIDE DEF n
    <2>4. step[<<f[n], x>>] \in S
      BY <2>2, <2>3
    <2>5. g \in [0..(n + 1) -> S] /\ g[0] = base
      BY <2>2, <2>3, <2>4
    <2>6. ASSUME NEW i \in 1..(n + 1) PROVE g[i] = step[<<g[i - 1], Append(s, x)[i]>>]
      <3>1. CASE i = n + 1
        <4>1. i - 1 = n /\ g[i - 1] = f[n] /\ g[i] = step[<<f[n], x>>]
          BY <2>2, <3>1
        <4>. QED BY <2>2, <3>1, <4>1
      <3>2. CASE i # n + 1
        <4>1. i \in 1..n /\ i - 1 \in 0..n /\ i \in 0..n /\ i - 1 <= n /\ i <= n
          BY <2>2, <3>2
        <4>2. g[i] = f[i] /\ g[i - 1] = f[i - 1]
          BY <2>2, <4>1
        <4>. QED BY <2>2, <2>3, <4>1, <4>2
      <3>. QED BY <3>1, <3>2
    <2>7. Accumulates(g, S, step, base, Append(s, x))
      BY <2>2, <2>5, <2>6 DEF Accumulates
    <2>. QED BY <2>2, <2>7
  <1>. HIDE DEF Q
  <1>3. \A s \in Seq(A) : s \in Q
    BY <1>1, <1>2, SequenceInduction
  <1>. QED BY <1>3 DEF Q

\* There is only one: of a sequence and of what it grows into.
LEMMA AccumulatorUnique ==
  ASSUME NEW S, NEW A, NEW T, NEW base, NEW step, NEW s \in Seq(A), NEW t \in Seq(A),
         Len(s) <= Len(t), \A i \in 1..Len(s) : s[i] = t[i],
         NEW f, NEW g, Accumulates(f, S, step, base, s), Accumulates(g, T, step, base, t)
  PROVE  Agree(f, g, s)
  <1> DEFINE N == {n \in Nat : n <= Len(s) => f[n] = g[n]}
  <1>0. Len(s) \in Nat /\ Len(t) \in Nat
    BY LenProperties
  <1>1. 0 \in N
    BY DEF Accumulates
  <1>2. ASSUME NEW n \in Nat, n \in N PROVE n + 1 \in N
    <2>1. ASSUME n + 1 <= Len(s) PROVE f[n + 1] = g[n + 1]
      <3>1. n + 1 \in 1..Len(s) /\ n + 1 \in 1..Len(t) /\ (n + 1) - 1 = n /\ f[n] = g[n]
        BY <1>0, <1>2, <2>1
      <3>2. f[n + 1] = step[<<f[n], s[n + 1]>>] /\ g[n + 1] = step[<<g[n], t[n + 1]>>]
        BY <3>1 DEF Accumulates
      <3>. QED BY <3>1, <3>2
    <2>. QED BY <2>1
  <1>. HIDE DEF N
  <1>3. \A n \in Nat : n \in N
    BY <1>1, <1>2, SetInduction
  <1>. QED BY <1>0, <1>3 DEF N, Agree

-----------------------------------------------------------------------------
(* Sequences laid end to end.                                               *)

\* The flattened sequence, element by element.
LEMMA FlattenEmpty == FlattenSeq(<<>>) = <<>>
  BY EmptySeq DEF FlattenSeq

\* The recursion of FlattenSeq is the accumulation of concatenations.
LEMMA FlattenAccumulates ==
  ASSUME NEW A, NEW ss \in Seq(Seq(A))
  PROVE  \E f : /\ Accumulates(f, Seq(A), [p \in Seq(A) \X Seq(A) |-> p[1] \o p[2]], <<>>, ss)
               /\ FlattenSeq(ss) = f[Len(ss)]
  <1> DEFINE step == [p \in Seq(A) \X Seq(A) |-> p[1] \o p[2]]
             n == Len(ss)
             G(g) == g = [i \in 1..n |-> IF i = 1 THEN ss[i] ELSE g[i - 1] \o ss[i]]
  <1>1. step \in [Seq(A) \X Seq(A) -> Seq(A)] /\ <<>> \in Seq(A)
        /\ \A a, b \in Seq(A) : step[<<a, b>>] = a \o b
    <2>1. ASSUME NEW p \in Seq(A) \X Seq(A) PROVE p[1] \o p[2] \in Seq(A)
      <3>1. p[1] \in Seq(A) /\ p[2] \in Seq(A)
        OBVIOUS
      <3>. QED BY <3>1, ConcatProperties
    <2>2. step \in [Seq(A) \X Seq(A) -> Seq(A)]
      BY <2>1
    <2>3. ASSUME NEW a \in Seq(A), NEW b \in Seq(A) PROVE step[<<a, b>>] = a \o b
      OBVIOUS
    <2>. HIDE DEF step
    <2>4. <<>> \in Seq(A)
      BY EmptySeq
    <2>. QED BY <2>2, <2>3, <2>4
  <1>2. n \in Nat /\ \A i \in 1..n : ss[i] \in Seq(A)
    BY LenProperties, ElementOfSeq
  <1>. HIDE DEF step
  <1>3. PICK f : Accumulates(f, Seq(A), step, <<>>, ss)
    BY <1>1, AccumulatorExists
  <1>4. f \in [0..n -> Seq(A)] /\ f[0] = <<>> /\ \A i \in 1..n : f[i] = f[i - 1] \o ss[i]
    <2>1. f \in [0..n -> Seq(A)] /\ f[0] = <<>> /\ \A i \in 1..n : f[i] = step[<<f[i - 1], ss[i]>>]
      BY <1>3 DEF Accumulates
    <2>. HIDE DEF n
    <2>2. ASSUME NEW i \in 1..n PROVE f[i - 1] \in Seq(A)
      BY <1>2, <2>1
    <2>. QED BY <1>1, <1>2, <2>1, <2>2
  <1>5. FlattenSeq(ss) = f[n]
    <2>1. CASE n = 0
      <3>1. ss = <<>>
        BY <2>1, EmptySeq
      <3>. QED BY <1>4, <2>1, <3>1, FlattenEmpty
    <2>2. CASE n # 0
      <3> DEFINE h == [i \in 1..n |-> f[i]]
                 c == CHOOSE g : G(g)
      <3>1. FlattenSeq(ss) = c[n]
        BY <2>2 DEF FlattenSeq
      <3>. HIDE DEF n
      <3>2. ASSUME NEW i \in 1..n
            PROVE  h[i] = IF i = 1 THEN ss[i] ELSE h[i - 1] \o ss[i]
        <4>1. CASE i = 1
          <5>1. h[i] = f[i] /\ i - 1 = 0
            BY <4>1
          <5>2. f[i] = f[i - 1] \o ss[i]
            BY <1>4
          <5>3. h[i] = <<>> \o ss[i]
            BY <1>4, <5>1, <5>2
          <5>. QED BY <1>2, <4>1, <5>3, ConcatEmptySeq
        <4>2. CASE i # 1
          <5>1. i - 1 \in 1..n
            BY <1>2, <4>2
          <5>. QED BY <1>4, <4>2, <5>1
        <4>. QED BY <4>1, <4>2
      <3>3. G(h)
        BY <3>2
      <3>. HIDE DEF h
      <3>4. G(c)
        BY <3>3
      <3>. HIDE DEF c
      <3>5. \A i \in 1..n : c[i] = IF i = 1 THEN ss[i] ELSE c[i - 1] \o ss[i]
        BY <3>4
      <3> DEFINE N == {k \in Nat : k + 1 <= n => c[k + 1] = f[k + 1]}
      <3>6. 0 \in N
        <4>1. 1 \in 1..n /\ 1 - 1 = 0
          BY <1>2, <2>2
        <4>2. c[1] = ss[1]
          BY <3>5, <4>1
        <4>3. f[1] = f[1 - 1] \o ss[1]
          BY <1>4, <4>1
        <4>4. f[1] = <<>> \o ss[1]
          BY <1>4, <4>1, <4>3
        <4>5. c[1] = f[1]
          BY <1>2, <4>1, <4>2, <4>4, ConcatEmptySeq
        <4>. QED BY <4>5
      <3>7. ASSUME NEW k \in Nat, k \in N PROVE k + 1 \in N
        <4>1. ASSUME (k + 1) + 1 <= n PROVE c[(k + 1) + 1] = f[(k + 1) + 1]
          <5> DEFINE j == (k + 1) + 1
          <5>1. j \in 1..n /\ j - 1 = k + 1 /\ k + 1 <= n /\ j # 1
            BY <1>2, <4>1
          <5>2. c[k + 1] = f[k + 1]
            BY <3>7, <5>1
          <5>. HIDE DEF j
          <5>3. c[j] = c[j - 1] \o ss[j]
            BY <3>5, <5>1
          <5>4. f[j] = f[j - 1] \o ss[j]
            BY <1>4, <5>1
          <5>5. c[j] = f[j]
            BY <5>1, <5>2, <5>3, <5>4
          <5>. QED BY <5>5 DEF j
        <4>. QED BY <4>1
      <3>. HIDE DEF N
      <3>8. \A k \in Nat : k \in N
        BY <3>6, <3>7, SetInduction
      <3>9. n - 1 \in Nat /\ (n - 1) + 1 = n
        BY <1>2, <2>2
      <3>. QED BY <1>2, <3>1, <3>8, <3>9 DEF N
    <2>. QED BY <2>1, <2>2
  <1>. QED BY <1>3, <1>5 DEF step

\* One more element adds itself at the end.
LEMMA FlattenAppend ==
  ASSUME NEW A, NEW ss \in Seq(Seq(A)), NEW s \in Seq(A)
  PROVE  /\ FlattenSeq(ss) \in Seq(A)
         /\ FlattenSeq(Append(ss, s)) = FlattenSeq(ss) \o s
  <1> DEFINE step == [p \in Seq(A) \X Seq(A) |-> p[1] \o p[2]]
             tt == Append(ss, s)
             n == Len(ss)
  <1>1. tt \in Seq(Seq(A)) /\ Len(tt) = n + 1 /\ n \in Nat /\ tt[n + 1] = s
        /\ \A i \in 1..n : tt[i] = ss[i]
    BY AppendProperties, LenProperties
  <1>. HIDE DEF tt
  <1>2. PICK f : Accumulates(f, Seq(A), step, <<>>, ss) /\ FlattenSeq(ss) = f[n]
    BY FlattenAccumulates
  <1>3. PICK g : Accumulates(g, Seq(A), step, <<>>, tt) /\ FlattenSeq(tt) = g[Len(tt)]
    BY <1>1, FlattenAccumulates
  <1>4. Agree(f, g, ss)
    <2>. HIDE DEF step
    <2>1. Len(ss) <= Len(tt) /\ \A i \in 1..Len(ss) : ss[i] = tt[i]
      BY <1>1
    <2>2. ss \in Seq(Seq(A)) /\ tt \in Seq(Seq(A))
      BY <1>1
    <2>3. Accumulates(f, Seq(A), step, <<>>, ss) /\ Accumulates(g, Seq(A), step, <<>>, tt)
      BY <1>2, <1>3
    <2>. QED BY <2>1, <2>2, <2>3, AccumulatorUnique
  <1>5. f[n] \in Seq(A) /\ f[n] = g[n]
    BY <1>1, <1>2, <1>4 DEF Accumulates, Agree
  <1>6. g[n + 1] = step[<<g[n], s>>]
    <2>1. n + 1 \in 1..Len(tt) /\ (n + 1) - 1 = n
      BY <1>1
    <2>. HIDE DEF step
    <2>. QED BY <1>1, <1>3, <2>1 DEF Accumulates
  <1>7. step[<<f[n], s>>] = f[n] \o s
    BY <1>5
  <1>. QED BY <1>1, <1>2, <1>3, <1>5, <1>6, <1>7 DEF tt

\* A sequence of something.
IsSequence(t) == \E A : t \in Seq(A)

\* Finitely many texts are written with one set of atoms.
LEMMA CommonAtoms ==
  ASSUME NEW S, NEW parts \in Seq(S), \A i \in 1..Len(parts) : IsSequence(parts[i])
  PROVE  \E A : parts \in Seq(Seq(A))
  <1> DEFINE A == UNION {Range(parts[i]) : i \in 1..Len(parts)}
             n == Len(parts)
  <1>1. ASSUME NEW i \in 1..Len(parts) PROVE parts[i] \in Seq(A)
    <2>1. PICK T : parts[i] \in Seq(T)
      BY DEF IsSequence
    <2>2. parts[i] \in Seq(Range(parts[i]))
      BY <2>1, SeqOfRange
    <2>3. Range(parts[i]) \subseteq A
      OBVIOUS
    <2>. HIDE DEF A
    <2>. QED BY <2>2, <2>3, SeqMonotonic
  <1>. HIDE DEF A
  <1>2. n \in Nat /\ parts \in [1..n -> S]
    BY LenProperties
  <1> DEFINE T == Seq(A)
  <1>3. \A i \in 1..n : parts[i] \in T
    BY <1>1
  <1>. HIDE DEF T, n
  <1>4. parts \in [1..n -> T]
    BY <1>2, <1>3
  <1>5. parts \in Seq(T)
    BY <1>2, <1>4
  <1>. QED BY <1>5 DEF T

\* Tuples are sequences.
LEMMA Tuples ==
  /\ IsSequence(<<>>)
  /\ \A x : IsSequence(<<x>>)
  /\ \A x, y, z : IsSequence(<<x, y, z>>)
  <1>1. <<>> \in Seq({})
    OBVIOUS
  <1>2. ASSUME NEW x PROVE IsSequence(<<x>>)
    <2>1. <<x>> \in Seq({x})
      OBVIOUS
    <2>. QED BY <2>1 DEF IsSequence
  <1>3. ASSUME NEW x, NEW y, NEW z PROVE IsSequence(<<x, y, z>>)
    <2>1. <<x, y, z>> \in Seq({x, y, z})
      OBVIOUS
    <2>. QED BY <2>1 DEF IsSequence
  <1>. QED BY <1>1, <1>2, <1>3 DEF IsSequence

\* What appending does to the elements.
LEMMA Appending ==
  ASSUME NEW q, IsSequence(q), NEW x
  PROVE  /\ IsSequence(Append(q, x)) /\ Len(q) \in Nat /\ Len(Append(q, x)) = Len(q) + 1
         /\ \A i \in DOMAIN q : i \in DOMAIN Append(q, x) /\ Append(q, x)[i] = q[i]
         /\ \A i \in DOMAIN Append(q, x) : i \in DOMAIN q \/ Append(q, x)[i] = x
  <1>1. PICK A : q \in Seq(A)
    BY DEF IsSequence
  <1> DEFINE B == A \cup {x}
  <1>2. q \in Seq(B) /\ x \in B
    <2>1. A \subseteq B
      OBVIOUS
    <2>. HIDE DEF B
    <2>2. q \in Seq(B)
      BY <1>1, <2>1, SeqMonotonic
    <2>. QED BY <2>2 DEF B
  <1>. HIDE DEF B
  <1>3. /\ Append(q, x) \in Seq(B) /\ Len(Append(q, x)) = Len(q) + 1
        /\ \A i \in 1..Len(q) : Append(q, x)[i] = q[i]
        /\ Append(q, x)[Len(q) + 1] = x
    BY <1>2, AppendProperties
  <1>4. DOMAIN q = 1..Len(q) /\ Len(q) \in Nat /\ DOMAIN Append(q, x) = 1..(Len(q) + 1)
    BY <1>2, <1>3, LenProperties
  <1>5. \A i \in 1..(Len(q) + 1) : i \in 1..Len(q) \/ i = Len(q) + 1
    BY <1>4
  <1>6. \A i \in 1..Len(q) : i \in 1..(Len(q) + 1)
    BY <1>4
  <1>. QED BY <1>3, <1>4, <1>5, <1>6 DEF IsSequence
=============================================================================
