--------------------------- MODULE ReleasesProofs ---------------------------
(* What the comparison of versions and the transfer budget promise.        *)
EXTENDS Releases, FiniteSetTheorems, WellFoundedInduction, TLAPS

\* A component is a number, also where a version has none.
LEMMA PartIsNat ==
  ASSUME NEW v \in Versions, NEW i \in Nat
  PROVE  Part(v, i) \in Nat
BY DEF Part, Versions

\* A version has some number of components.
LEMMA LenIsNat ==
  ASSUME NEW v \in Versions
  PROVE  Len(v.parts) \in Nat
BY DEF Versions

\* Beyond what is compared both versions count as 0.
LEMMA BeyondIsZero ==
  ASSUME NEW a \in Versions, NEW b \in Versions, NEW i \in Nat \ {0}, i \notin Compared(a, b)
  PROVE  Part(a, i) = 0 /\ Part(b, i) = 0
BY LenIsNat DEF Part, Compared

\* So a greater component is one that is compared.
LEMMA GreaterIsCompared ==
  ASSUME NEW a \in Versions, NEW b \in Versions, NEW i \in Nat \ {0}, Part(a, i) # Part(b, i)
  PROVE  i \in Compared(a, b)
BY BeyondIsZero

\* Compared components are numbers.
LEMMA ComparedIsNat ==
  ASSUME NEW a \in Versions, NEW b \in Versions, NEW i \in Compared(a, b)
  PROVE  i \in Nat \ {0}
BY LenIsNat DEF Compared

\* No version is newer than itself (newer, source.rs:104).
THEOREM NewerIsIrreflexive ==
  ASSUME NEW a \in Versions
  PROVE  ~Newer(a, a)
BY PartIsNat, ComparedIsNat DEF Newer

\* A version that is newer than one that is newer than a third is newer than the
\* third: successive offers never lead back.
THEOREM NewerIsTransitive ==
  ASSUME NEW a \in Versions, NEW b \in Versions, NEW c \in Versions, Newer(a, b), Newer(b, c)
  PROVE  Newer(a, c)
<1> DEFINE Above(u, v, i) == AgreeBelow(u, v, i) /\ Part(u, i) > Part(v, i)
<1>1. \A u, v \in Versions : SameCore(u, v) <=> \A i \in Nat \ {0} : Part(u, i) = Part(v, i)
  BY GreaterIsCompared, ComparedIsNat DEF SameCore
<1>2. \A u, v \in Versions :
        Newer(u, v) <=> \/ \E i \in Nat \ {0} : Above(u, v, i)
                        \/ SameCore(u, v) /\ ~u.pre /\ v.pre
  <2> SUFFICES ASSUME NEW u \in Versions, NEW v \in Versions
               PROVE  (\E i \in Compared(u, v) : Above(u, v, i)) <=> \E i \in Nat \ {0} : Above(u, v, i)
    BY DEF Newer
  <2>1. \A i \in Nat \ {0} : Above(u, v, i) => i \in Compared(u, v)
    BY GreaterIsCompared, PartIsNat
  <2> QED BY <2>1, ComparedIsNat
<1>3. CASE \E i \in Nat \ {0} : Above(a, b, i)
  <2>1. PICK i \in Nat \ {0} : Above(a, b, i)
    BY <1>3
  <2>2. CASE \E j \in Nat \ {0} : Above(b, c, j)
    <3>1. PICK j \in Nat \ {0} : Above(b, c, j)
      BY <2>2
    <3>2. CASE i <= j
      <4>1. Part(b, i) >= Part(c, i)
        BY <3>1, <3>2, PartIsNat DEF AgreeBelow
      <4>2. Above(a, c, i)
        BY <2>1, <3>1, <3>2, <4>1, PartIsNat DEF AgreeBelow
      <4> QED BY <4>2, <1>2
    <3>3. CASE j < i
      <4>1. Above(a, c, j)
        BY <2>1, <3>1, <3>3, PartIsNat DEF AgreeBelow
      <4> QED BY <4>1, <1>2
    <3> QED BY <3>2, <3>3
  <2>3. CASE SameCore(b, c)
    <3>1. Above(a, c, i)
      BY <2>1, <2>3, <1>1 DEF AgreeBelow
    <3> QED BY <3>1, <1>2
  <2> QED BY <2>2, <2>3, <1>2
<1>4. CASE SameCore(a, b) /\ ~a.pre /\ b.pre
  <2>1. PICK j \in Nat \ {0} : Above(b, c, j)
    BY <1>2, <1>4
  <2>2. Above(a, c, j)
    BY <2>1, <1>4, <1>1 DEF AgreeBelow
  <2> QED BY <2>2, <1>2
<1> QED BY <1>2, <1>3, <1>4

\* If two cores differ, there is a first component at which they do.
LEMMA FirstDifference ==
  ASSUME NEW a \in Versions, NEW b \in Versions, ~SameCore(a, b)
  PROVE  \E i \in Compared(a, b) : AgreeBelow(a, b, i) /\ Part(a, i) # Part(b, i)
<1> DEFINE D == {i \in Compared(a, b) : Part(a, i) # Part(b, i)}
           T == {1..i : i \in D}
           S == Compared(a, b)
<1>1. D # {} /\ D \subseteq Nat \ {0}
  BY ComparedIsNat DEF SameCore
<1>2. IsFiniteSet(S)
  <2>1. 1 \in Int /\ Len(a.parts) \in Int /\ Len(b.parts) \in Int
    BY LenIsNat
  <2> HIDE DEF S
  <2>2. IsFiniteSet(1..Len(a.parts)) /\ IsFiniteSet(1..Len(b.parts))
    BY <2>1, FS_Interval
  <2> QED BY <2>2 DEF Compared, S
<1>3. \A i \in S : 1..i \subseteq S
  BY LenIsNat DEF Compared
<1>4. T \subseteq FiniteSubsetsOf(S) /\ T # {}
  <2>1. ASSUME NEW i \in D PROVE 1..i \in FiniteSubsetsOf(S)
    <3>1. 1..i \subseteq S
      BY <1>3
    <3>2. IsFiniteSet(1..i)
      BY <3>1, <1>2, FS_Subset
    <3> QED BY <3>1, <3>2 DEF FiniteSubsetsOf
  <2> QED BY <2>1, <1>1
<1>5. IsWellFoundedOn(StrictSubsetOrdering(S), FiniteSubsetsOf(S))
  BY FS_StrictSubsetOrderingWellFounded
<1> HIDE DEF S, T
<1>6. PICK x \in T : \A y \in T : <<y, x>> \notin StrictSubsetOrdering(S)
  BY <1>4, <1>5, WFMin
<1>7. PICK i \in D : x = 1..i
  BY <1>6 DEF T
<1>8. ASSUME NEW j \in 1..(i - 1), j \in D PROVE FALSE
  <2>1. 1..j \in T
    BY <1>8 DEF T
  <2>2. 1..j \subseteq 1..i /\ 1..j # 1..i
    BY <1>1, <1>8
  <2>3. 1..j \subseteq S /\ 1..i \subseteq S
    BY <1>3, <1>8 DEF S
  <2> QED BY <1>6, <1>7, <2>1, <2>2, <2>3 DEF StrictSubsetOrdering
<1>9. AgreeBelow(a, b, i)
  BY <1>1, <1>3, <1>7, <1>8 DEF AgreeBelow, S
<1> QED BY <1>7, <1>9

\* Two versions of which neither is newer differ at most in how they are
\* spelled, or are prereleases of one core: nothing else is left unordered.
THEOREM UnorderedMeansSame ==
  ASSUME NEW a \in Versions, NEW b \in Versions, ~Newer(a, b), ~Newer(b, a)
  PROVE  SameCore(a, b) /\ a.pre = b.pre
<1>1. SameCore(a, b)
  <2> SUFFICES ASSUME ~SameCore(a, b) PROVE FALSE
    OBVIOUS
  <2>1. PICK i \in Compared(a, b) : AgreeBelow(a, b, i) /\ Part(a, i) # Part(b, i)
    BY FirstDifference
  <2>2. Compared(a, b) = Compared(b, a) /\ AgreeBelow(b, a, i)
    BY <2>1, LenIsNat DEF Compared, AgreeBelow
  <2>3. Part(a, i) > Part(b, i) \/ Part(b, i) > Part(a, i)
    BY <2>1, PartIsNat, ComparedIsNat
  <2> QED BY <2>1, <2>2, <2>3 DEF Newer
<1>2. SameCore(b, a) /\ a.pre \in BOOLEAN /\ b.pre \in BOOLEAN
  BY <1>1, LenIsNat DEF SameCore, Compared, Versions
<1> QED BY <1>1, <1>2 DEF Newer

\* What is offered is strictly newer than what runs: no check ever offers the
\* current version or one it was upgraded from.
THEOREM OffersClimb ==
  ASSUME NEW a \in Versions, NEW b \in Versions, NEW c \in Versions,
         b \in Check(b, a), c \in Check(c, b)
  PROVE  c # a /\ c # b /\ Newer(c, a)
BY NewerIsIrreflexive, NewerIsTransitive DEF Check

-----------------------------------------------------------------------------

\* Rounding up never gives less than the exact quotient.
LEMMA CeilDivBounds ==
  ASSUME NEW n \in Nat, NEW d \in Nat \ {0}
  PROVE  CeilDiv(n, d) \in Nat /\ CeilDiv(n, d) * d >= n
BY Z3 DEF CeilDiv

\* Whatever the declared size, the overall budget lies between the time to the
\* response and the maximum (TransferPolicy::budgets), and a transfer at the
\* lowest rate fits into it unless the maximum cuts it.
THEOREM BudgetIsBounded ==
  ASSUME NEW p \in Policies, PolicyIsValid(p), NEW size \in Nat
  PROVE  /\ p.response_ms <= Overall(p, size) /\ Overall(p, size) <= p.maximum_overall_ms
         /\ \/ Overall(p, size) = p.maximum_overall_ms
            \/ (Overall(p, size) - p.response_ms) * p.minimum_bytes_per_second >= size * 1000
<1> DEFINE r == p.response_ms
           m == p.maximum_overall_ms
           d == p.minimum_bytes_per_second
           body == CeilDiv(size * 1000, d)
<1>1. r \in Nat \ {0} /\ m \in Nat /\ d \in Nat \ {0} /\ m >= r
  BY DEF Policies, PolicyIsValid
<1>2. size * 1000 \in Nat
  OBVIOUS
<1>3. body \in Nat /\ body * d >= size * 1000
  BY <1>1, <1>2, CeilDivBounds
<1>4. Overall(p, size) = IF body + r < m THEN body + r ELSE m
  BY DEF Overall
<1> HIDE DEF r, m, d, body
<1>5. (body + r) - r = body
  BY <1>1, <1>3
<1>6. CASE body + r < m
  BY <1>1, <1>3, <1>4, <1>5, <1>6 DEF r, m, d
<1>7. CASE ~(body + r < m)
  BY <1>1, <1>3, <1>4, <1>7 DEF r, m, d
<1> QED BY <1>6, <1>7
=============================================================================
