------------------------------ MODULE WireProofs ------------------------------
(***************************************************************************)
(* What is read of a name and of a message, whatever the octets, and that  *)
(* what is written is read again, for every message.                       *)
(*                                                                         *)
(* A behaviour is one call, so the properties are inductive as they stand: *)
(* the call that one is about establishes it and no other begins.  The     *)
(* work is in the loops.  Each is a function from passes to states, and    *)
(* what holds before every pass is shown by induction: GoesAlong of the    *)
(* reading of a name, ItemsSoFar of the items of a message.                *)
(*                                                                         *)
(* That a message is read again rests on Stands: where the octets of a     *)
(* part stand in a buffer.  What was encoded of a name, of data, of a      *)
(* record is read as that, wherever it stands (NameReads, DataReads,       *)
(* RecordReads), and each part stands where the reader of the one before   *)
(* it ended (HeaderStands, ItemsRead).                                     *)
(***************************************************************************)
EXTENDS Algorithms, FiniteSetTheorems, TLAPS

\* A step is a call or leaves everything; what is said of the calls of one function
\* is only to be shown for those.
LEMMA Calls ==
  ASSUME [Next]_vars
  PROVE  \/ UNCHANGED <<call, result>>
         \/ EncodeMessage /\ call'.op = "marshal"
         \/ DecodeMessage /\ call'.op = "unmarshal"
         \/ DecodeName /\ call'.op = "readName"
         \/ ChaseAliases /\ call'.op = "lookupIP"
         \/ RecogniseWildcard /\ call'.op = "wildcard"
         \/ ReadPorts /\ call'.op = "ports"
         \/ ReadScanArgs /\ call'.op = "scanArgs"
         \/ RunCommand /\ call'.op = "execute"
  BY DEF Next, vars, Called, DecodeName, EncodeMessage, DecodeMessage, ChaseAliases,
         RecogniseWildcard, ReadPorts, ReadScanArgs, RunCommand

------------------------------------------------------------------------------
(* Numbers, and functions that a recursion on a number defines. *)

\* A set of natural numbers that is not empty has a minimum.
LEMMA MinOfNats ==
  ASSUME NEW S \in SUBSET Nat, S # {}
  PROVE  Min(S) \in S /\ \A y \in S : Min(S) <= y
  <1> DEFINE Below(x) == 0..(x - 1)
             T == {Below(x) : x \in S}
             Smaller == StrictSubsetOrdering(Nat)
  <1>1. T \subseteq FiniteSubsetsOf(Nat) /\ T # {}
    <2>1. ASSUME NEW x \in S PROVE Below(x) \in SUBSET Nat /\ IsFiniteSet(Below(x))
      BY FS_Interval
    <2> QED
      BY <2>1 DEF FiniteSubsetsOf
  <1>2. IsWellFoundedOn(Smaller, FiniteSubsetsOf(Nat))
    BY FS_StrictSubsetOrderingWellFounded
  <1>3. PICK I \in T : \A J \in T : ~ (<<J, I>> \in Smaller)
    <2> HIDE DEF T, Smaller
    <2> QED
      BY <1>1, <1>2, WFMin
  <1>4. PICK x \in S : I = Below(x)
    OBVIOUS
  <1>5. ASSUME NEW y \in S, y < x PROVE FALSE
    <2>1. Below(y) \subseteq Below(x) /\ y \in Below(x) /\ y \notin Below(y)
      BY <1>5
    <2>2. Below(y) \in SUBSET Nat /\ Below(x) \in SUBSET Nat
      OBVIOUS
    <2>3. <<Below(y), Below(x)>> \in Smaller
      BY <2>1, <2>2 DEF StrictSubsetOrdering
    <2> QED
      BY <1>3, <1>4, <2>3
  <1>6. \A y \in S : x <= y
    BY <1>5
  <1> QED
    BY <1>6 DEF Min

\* What holds of 0, and of n + 1 if it holds of n, holds of every number: the set of
\* those of which it does is Nat.
LEMMA Induction ==
  ASSUME NEW G, 0 \in G, \A n \in Nat : n \in G => n + 1 \in G
  PROVE  \A n \in Nat : n \in G
  <1> DEFINE Bad == {n \in Nat : n \notin G}
  <1> SUFFICES ASSUME Bad # {} PROVE FALSE
    OBVIOUS
  <1>1. PICK m \in Bad : \A n \in Bad : m <= n
    BY MinOfNats
  <1>2. m # 0 /\ m - 1 \in Nat /\ m - 1 \notin Bad
    BY <1>1
  <1>3. (m - 1) + 1 \in G
    BY <1>2
  <1> QED
    BY <1>3

\* A function on the numbers may be defined by its first value and by how each value
\* comes from the one before.
LEMMA Iterates ==
  ASSUME NEW S, NEW first \in S, NEW step \in [S -> S]
  PROVE  \E g \in [Nat -> S] :
           /\ g[0] = first
           /\ \A k \in Nat : g[k + 1] = step[g[k]]
  <1> DEFINE Begun(n) == {h \in [0..n -> S] :
                            h[0] = first /\ \A k \in 0..n : k + 1 \in 0..n => h[k + 1] = step[h[k]]}
             Exist == {n \in Nat : Begun(n) # {}}
             Agree == {k \in Nat : \A n, m \in Nat : k <= n /\ k <= m =>
                         \A h \in Begun(n), i \in Begun(m) : h[k] = i[k]}
  <1>1. \A n \in Nat : n \in Exist
    <2>1. 0 \in Exist
      <3>1. [k \in 0..0 |-> first] \in Begun(0)
        OBVIOUS
      <3> QED
        BY <3>1
    <2>2. ASSUME NEW n \in Nat, n \in Exist PROVE n + 1 \in Exist
      <3>1. PICK h \in [0..n -> S] :
              h[0] = first /\ \A k \in 0..n : k + 1 \in 0..n => h[k + 1] = step[h[k]]
        BY <2>2
      <3> DEFINE i == [k \in 0..(n + 1) |-> IF k = n + 1 THEN step[h[n]] ELSE h[k]]
      <3>2. i \in [0..(n + 1) -> S] /\ i[0] = first
        BY <3>1
      <3>3. \A k \in 0..(n + 1) : k + 1 \in 0..(n + 1) => i[k + 1] = step[i[k]]
        BY <3>1
      <3>4. i \in Begun(n + 1)
        BY <3>2, <3>3
      <3> QED
        BY <3>4
    <2> HIDE DEF Exist
    <2> QED
      BY <2>1, <2>2, Induction
  <1>2. \A k \in Nat : k \in Agree
    <2>1. 0 \in Agree
      OBVIOUS
    <2>2. ASSUME NEW k \in Nat, k \in Agree PROVE k + 1 \in Agree
      <3> SUFFICES ASSUME NEW n \in Nat, NEW m \in Nat, k + 1 <= n, k + 1 <= m,
                          NEW h \in Begun(n), NEW i \in Begun(m)
                   PROVE  h[k + 1] = i[k + 1]
        OBVIOUS
      <3>1. h[k] = i[k]
        <4>1. k <= n /\ k <= m
          OBVIOUS
        <4>2. \A x, y \in Nat : k <= x /\ k <= y =>
                \A a \in Begun(x), b \in Begun(y) : a[k] = b[k]
          BY <2>2
        <4> HIDE DEF Begun
        <4> QED
          BY <4>1, <4>2
      <3>2. h[k + 1] = step[h[k]] /\ i[k + 1] = step[i[k]]
        OBVIOUS
      <3> QED
        BY <3>1, <3>2
    <2> HIDE DEF Agree
    <2> QED
      BY <2>1, <2>2, Induction
  <1> DEFINE H(n) == CHOOSE h \in Begun(n) : TRUE
             g == [n \in Nat |-> H(n)[n]]
  <1>3. ASSUME NEW n \in Nat PROVE H(n) \in Begun(n)
    BY <1>1
  <1>4. g \in [Nat -> S]
    <2>1. ASSUME NEW n \in Nat PROVE H(n)[n] \in S
      <3>1. H(n) \in Begun(n)
        BY <1>3
      <3> HIDE DEF H
      <3> QED
        BY <3>1
    <2> QED
      BY <2>1
  <1>5. g[0] = first
    BY <1>3
  <1>6. ASSUME NEW k \in Nat PROVE g[k + 1] = step[g[k]]
    <2>1. k + 1 \in Nat /\ k <= k + 1 /\ k <= k
      OBVIOUS
    <2>2. H(k + 1) \in Begun(k + 1) /\ H(k) \in Begun(k)
      BY <1>3, <2>1
    <2>3. g[k + 1] = H(k + 1)[k + 1] /\ g[k] = H(k)[k]
      BY <2>1
    <2> HIDE DEF H, g
    <2>4. H(k + 1)[k] = H(k)[k]
      <3>1. \A x, y \in Nat : k <= x /\ k <= y =>
              \A a \in Begun(x), b \in Begun(y) : a[k] = b[k]
        BY <1>2
      <3> HIDE DEF Begun
      <3> QED
        BY <2>1, <2>2, <3>1
    <2>5. H(k + 1)[k + 1] = step[H(k + 1)[k]]
      BY <2>2
    <2> QED
      BY <2>3, <2>4, <2>5
  <1> QED
    BY <1>4, <1>5, <1>6

\* The same, where the step may depend on how many passes there were.
Numbered(g, S, first, step) ==
  g \in [Nat -> S] /\ g[0] = first /\ \A k \in Nat : g[k + 1] = step[k][g[k]]

LEMMA NumberedIterates ==
  ASSUME NEW S, NEW first \in S, NEW step, \A k \in Nat : step[k] \in [S -> S]
  PROVE  \E g : Numbered(g, S, first, step)
  <1> DEFINE P == Nat \X S
             both == [p \in P |-> <<p[1] + 1, step[p[1]][p[2]]>>]
             begin == <<0, first>>
  <1>1. \A p \in P : p[1] \in Nat /\ p[2] \in S /\ p[1] + 1 \in Nat
    OBVIOUS
  <1>2. \A p \in P : step[p[1]][p[2]] \in S
    BY <1>1
  <1>3. both \in [P -> P] /\ begin \in P
    BY <1>1, <1>2
  <1>4. \A p \in P : both[p][1] = p[1] + 1 /\ both[p][2] = step[p[1]][p[2]]
    OBVIOUS
  <1>5. begin[1] = 0 /\ begin[2] = first
    OBVIOUS
  <1> HIDE DEF both, begin, P
  <1>6. PICK h \in [Nat -> P] : h[0] = begin /\ \A k \in Nat : h[k + 1] = both[h[k]]
    BY <1>3, Iterates, Z3
  <1>7. \A k \in Nat : h[k][1] = k
    <2> DEFINE G == {k \in Nat : h[k][1] = k}
    <2>1. 0 \in G
      BY <1>5, <1>6
    <2>2. ASSUME NEW k \in Nat, k \in G PROVE k + 1 \in G
      <3>1. h[k] \in P /\ h[k][1] = k /\ h[k + 1] = both[h[k]]
        BY <1>6, <2>2
      <3>2. h[k + 1][1] = k + 1
        BY <1>4, <3>1
      <3> QED
        BY <3>2
    <2>3. \A k \in Nat : k \in G
      <3> HIDE DEF G
      <3> QED
        BY <2>1, <2>2, Induction
    <2> QED
      BY <2>3
  <1> DEFINE g == [k \in Nat |-> h[k][2]]
  <1>8. \A k \in Nat : h[k] \in P
    BY <1>6
  <1>9. g \in [Nat -> S] /\ g[0] = first
    <2>1. \A k \in Nat : h[k][2] \in S
      BY <1>1, <1>8
    <2> QED
      BY <1>5, <1>6, <2>1
  <1>10. ASSUME NEW k \in Nat PROVE g[k + 1] = step[k][g[k]]
    <2>1. h[k + 1][2] = step[h[k][1]][h[k][2]]
      BY <1>4, <1>6, <1>8
    <2>2. k + 1 \in Nat
      OBVIOUS
    <2> QED
      BY <1>7, <2>1, <2>2
  <1>11. Numbered(g, S, first, step)
    <2> HIDE DEF g
    <2> QED
      BY <1>9, <1>10 DEF Numbered
  <1> QED
    BY <1>11

\* The same for a list, where the step may depend on the place.
Unfolds(f, S, first, step, m) ==
  /\ f \in [1..m -> S]
  /\ m # 0 => f[1] = first
  /\ \A i \in 1..m : i + 1 \in 1..m => f[i + 1] = step[i][f[i]]

LEMMA ListUnfolds ==
  ASSUME NEW S, NEW first \in S, NEW step, \A i \in Nat : step[i] \in [S -> S], NEW m \in Nat
  PROVE  \E f : Unfolds(f, S, first, step, m)
  <1> DEFINE Right(f, n) == /\ n # 0 => f[1] = first
                            /\ \A i \in 1..n : i + 1 \in 1..n => f[i + 1] = step[i][f[i]]
             Exist == {n \in Nat : \E f \in [1..n -> S] : Right(f, n)}
  <1>1. 0 \in Exist
    <2>1. [i \in 1..0 |-> first] \in [1..0 -> S] /\ Right([i \in 1..0 |-> first], 0)
      OBVIOUS
    <2> QED
      BY <2>1
  <1>2. ASSUME NEW n \in Nat, n \in Exist PROVE n + 1 \in Exist
    <2>1. PICK f \in [1..n -> S] : Right(f, n)
      BY <1>2
    <2> DEFINE x == IF n = 0 THEN first ELSE step[n][f[n]]
               g == [i \in 1..(n + 1) |-> IF i = n + 1 THEN x ELSE f[i]]
    <2>2. x \in S
      <3>1. n # 0 => f[n] \in S /\ step[n] \in [S -> S]
        OBVIOUS
      <3> QED
        BY <3>1
    <2> HIDE DEF x
    <2>3. g \in [1..(n + 1) -> S]
      BY <2>2
    <2>4. g[1] = first
      BY <2>1 DEF x
    <2>5. \A i \in 1..(n + 1) : i + 1 \in 1..(n + 1) => g[i + 1] = step[i][g[i]]
      <3> SUFFICES ASSUME NEW i \in 1..(n + 1), i + 1 \in 1..(n + 1) PROVE g[i + 1] = step[i][g[i]]
        OBVIOUS
      <3>1. i \in 1..n /\ g[i] = f[i]
        OBVIOUS
      <3>2. CASE i = n
        BY <3>1, <3>2 DEF x
      <3>3. CASE i # n
        <4>1. i + 1 \in 1..n /\ g[i + 1] = f[i + 1]
          BY <3>1, <3>3
        <4> QED
          BY <2>1, <3>1, <4>1
      <3> QED
        BY <3>2, <3>3
    <2>6. n + 1 \in Nat /\ Right(g, n + 1)
      BY <2>4, <2>5
    <2> HIDE DEF g, Right
    <2> QED
      BY <2>3, <2>6
  <1>3. m \in Exist
    <2> HIDE DEF Exist
    <2> QED
      BY <1>1, <1>2, Induction
  <1> QED
    BY <1>3 DEF Unfolds

------------------------------------------------------------------------------
(* Lists. *)

\* A set of numbers up to n is finite.
LEMMA SmallIsFinite ==
  ASSUME NEW n \in Nat, NEW S \in SUBSET (1..n)
  PROVE  IsFiniteSet(S)
  <1>1. IsFiniteSet(1..n)
    BY FS_Interval
  <1> QED
    BY <1>1, FS_Subset

Increasing(list) == \A i, j \in DOMAIN list : i < j => list[i] < list[j]

\* A finite set of numbers can be put in order.
LEMMA SortedExists ==
  \A n \in Nat : \A S \in SUBSET (1..n) :
    \E list \in [1..Cardinality(S) -> S] : Increasing(list)
  <1> DEFINE G == {n \in Nat : \A S \in SUBSET (1..n) :
                     \E list \in [1..Cardinality(S) -> S] : Increasing(list)}
  <1>1. 0 \in G
    <2> SUFFICES ASSUME NEW S \in SUBSET (1..0)
                 PROVE  \E list \in [1..Cardinality(S) -> S] : Increasing(list)
      OBVIOUS
    <2>1. S = {} /\ Cardinality({}) = 0
      BY FS_EmptySet
    <2>2. <<>> \in [1..0 -> S] /\ DOMAIN <<>> = {}
      BY <2>1
    <2> QED
      BY <2>1, <2>2 DEF Increasing
  <1>2. ASSUME NEW n \in Nat, n \in G PROVE n + 1 \in G
    <2> SUFFICES ASSUME NEW S \in SUBSET (1..(n + 1))
                 PROVE  \E list \in [1..Cardinality(S) -> S] : Increasing(list)
      OBVIOUS
    <2>1. CASE n + 1 \notin S
      <3>1. S \in SUBSET (1..n)
        BY <2>1
      <3> QED
        BY <3>1, <1>2
    <2>2. CASE n + 1 \in S
      <3> DEFINE T == S \ {n + 1}
                 k == Cardinality(T)
      <3>1. IsFiniteSet(S)
        <4>1. n + 1 \in Nat
          OBVIOUS
        <4> QED
          BY <4>1, SmallIsFinite
      <3>2. k \in Nat /\ Cardinality(S) = k + 1
        <4>1. IsFiniteSet(T) /\ k = Cardinality(S) - 1
          BY <3>1, <2>2, FS_RemoveElement
        <4>2. k \in Nat /\ Cardinality(S) \in Nat
          BY <3>1, <4>1, FS_CardinalityType
        <4> QED
          BY <4>1, <4>2
      <3>3. T \in SUBSET (1..n)
        OBVIOUS
      <3>4. PICK list \in [1..k -> T] : Increasing(list)
        BY <3>3, <1>2
      <3> DEFINE longer == [i \in 1..(k + 1) |-> IF i = k + 1 THEN n + 1 ELSE list[i]]
      <3> HIDE DEF k
      <3>5. \A i \in 1..k : list[i] \in S /\ list[i] \in 1..n
        BY <3>3, <3>4
      <3>6. longer \in [1..(k + 1) -> S]
        BY <3>2, <3>5, <2>2
      <3>7. ASSUME NEW i \in 1..(k + 1), NEW j \in 1..(k + 1), i < j
            PROVE  longer[i] < longer[j]
        <4>1. i \in 1..k /\ longer[i] = list[i]
          BY <3>2, <3>7
        <4>2. CASE j = k + 1
          BY <4>1, <4>2, <3>5, <3>2
        <4>3. CASE j # k + 1
          <5>1. j \in 1..k /\ longer[j] = list[j]
            BY <3>2, <4>3
          <5> QED
            BY <4>1, <5>1, <3>4, <3>7 DEF Increasing
        <4> QED
          BY <4>2, <4>3
      <3>8. Increasing(longer)
        BY <3>6, <3>7 DEF Increasing
      <3> QED
        BY <3>2, <3>6, <3>8
    <2> QED
      BY <2>1, <2>2
  <1>3. \A n \in Nat : n \in G
    <2> HIDE DEF G
    <2> QED
      BY <1>1, <1>2, Induction
  <1> QED
    BY <1>3

\* sort.Ints: each member once, in order.
LEMMA AscendingSorts ==
  ASSUME NEW n \in Nat, NEW S \in SUBSET (1..n)
  PROVE  /\ Ascending(S) \in [1..Cardinality(S) -> S]
         /\ Increasing(Ascending(S)) /\ ToSet(Ascending(S)) = S
  <1> DEFINE k == Cardinality(S)
             list == Ascending(S)
  <1>1. IsFiniteSet(S) /\ k \in Nat
    BY SmallIsFinite, FS_CardinalityType
  <1>2. list \in [1..k -> S] /\ Increasing(list)
    BY SortedExists DEF Ascending, Increasing
  <1> HIDE DEF list
  <1>3. list \in Injection(1..k, S)
    <2>1. ASSUME NEW i \in 1..k, NEW j \in 1..k, list[i] = list[j] PROVE i = j
      <3>1. list[i] \in Int /\ list[j] \in Int
        <4>1. list[i] \in S /\ list[j] \in S
          BY <1>2
        <4>2. \A x \in S : x \in Int
          OBVIOUS
        <4> QED
          BY <4>1, <4>2
      <3>2. ~(list[i] < list[j]) /\ ~(list[j] < list[i])
        BY <2>1, <3>1
      <3>3. ~(i < j) /\ ~(j < i)
        BY <1>2, <3>2 DEF Increasing
      <3> QED
        BY <3>3
    <2> QED
      BY <1>2, <2>1 DEF Injection, IsInjective
  <1>4. Cardinality(1..k) = k
    BY <1>1, FS_Interval
  <1>5. list \in Surjection(1..k, S)
    BY <1>1, <1>3, <1>4, FS_Injection
  <1>6. ToSet(list) = S
    BY <1>2, <1>5 DEF ToSet, Surjection
  <1> QED
    BY <1>2, <1>6 DEF list

\* Two lists in order of the same numbers are the same list.
LEMMA SameList ==
  ASSUME NEW n \in Nat, NEW S \in SUBSET Int, NEW f \in [1..n -> S], NEW g \in [1..n -> S],
         Increasing(f), Increasing(g), ToSet(f) = S, ToSet(g) = S
  PROVE  f = g
  <1> DEFINE Agree(i) == \A j \in 1..n : j < i => f[j] = g[j]
  <1>1. ASSUME NEW a \in [1..n -> S], NEW b \in [1..n -> S], Increasing(a), Increasing(b),
               ToSet(b) = S, NEW m \in 1..n, \A j \in 1..n : j < m => a[j] = b[j], a[m] < b[m]
        PROVE  FALSE
    <2>1. \A i \in 1..n : a[i] \in Int /\ b[i] \in Int
      <3>1. \A i \in 1..n : a[i] \in S /\ b[i] \in S
        OBVIOUS
      <3> QED
        BY <3>1
    <2>2. PICK k \in 1..n : b[k] = a[m]
      BY <1>1 DEF ToSet
    <2>3. CASE k < m
      <3>1. a[k] = a[m] /\ a[k] < a[m]
        BY <1>1, <2>2, <2>3 DEF Increasing
      <3> QED
        BY <2>1, <3>1
    <2>4. CASE k = m
      BY <1>1, <2>1, <2>2, <2>4
    <2>5. CASE m < k
      <3>1. b[m] < b[k]
        BY <1>1, <2>5 DEF Increasing
      <3> QED
        BY <1>1, <2>1, <2>2, <3>1
    <2> QED
      BY <2>3, <2>4, <2>5
  <1>2. SUFFICES ASSUME f # g PROVE FALSE
    OBVIOUS
  <1> DEFINE Bad == {i \in 1..n : f[i] # g[i]}
  <1>3. Bad # {} /\ Bad \in SUBSET Nat
    BY <1>2
  <1>4. PICK m \in Bad : \A i \in Bad : m <= i
    <2> HIDE DEF Bad
    <2> QED
      BY <1>3, MinOfNats
  <1>5. \A j \in 1..n : j < m => f[j] = g[j]
    <2> SUFFICES ASSUME NEW j \in 1..n, j < m, j \in Bad PROVE FALSE
      OBVIOUS
    <2>1. m <= j /\ m \in Nat /\ j \in Nat
      BY <1>4
    <2> QED
      BY <2>1
  <1>6. f[m] \in Int /\ g[m] \in Int /\ f[m] # g[m] /\ m \in 1..n
    <2>1. f[m] \in S /\ g[m] \in S /\ f[m] # g[m] /\ m \in 1..n
      OBVIOUS
    <2> QED
      BY <2>1
  <1>7. f[m] < g[m] \/ g[m] < f[m]
    BY <1>6
  <1>8. CASE f[m] < g[m]
    BY <1>1, <1>5, <1>6, <1>8
  <1>9. CASE g[m] < f[m]
    BY <1>1, <1>5, <1>6, <1>9
  <1> QED
    BY <1>7, <1>8, <1>9

\* A greater number comes last.
LEMMA AscendingAppends ==
  ASSUME NEW n \in Nat, NEW S \in SUBSET (1..n)
  PROVE  Ascending(S \union {n + 1}) = Append(Ascending(S), n + 1)
  <1> DEFINE T == S \union {n + 1}
             k == Cardinality(S)
             list == Ascending(S)
             more == Append(list, n + 1)
  <1>1. list \in [1..k -> S] /\ Increasing(list) /\ ToSet(list) = S
    BY AscendingSorts
  <1>2. /\ Ascending(T) \in [1..Cardinality(T) -> T]
        /\ Increasing(Ascending(T)) /\ ToSet(Ascending(T)) = T
    <2>1. n + 1 \in Nat /\ T \in SUBSET (1..(n + 1))
      OBVIOUS
    <2> HIDE DEF T
    <2> QED
      BY <2>1, AscendingSorts
  <1>3. k \in Nat /\ Cardinality(T) = k + 1
    <2>1. IsFiniteSet(S) /\ n + 1 \notin S
      BY SmallIsFinite
    <2> QED
      BY <2>1, FS_AddElement, FS_CardinalityType
  <1> HIDE DEF list, k
  <1>4. list \in Seq(S) /\ Len(list) = k
    BY <1>1, <1>3
  <1>5. more = [i \in 1..(k + 1) |-> IF i = k + 1 THEN n + 1 ELSE list[i]]
    BY <1>3, <1>4
  <1> HIDE DEF more
  <1>6. \A i \in 1..k : list[i] \in S /\ list[i] \in 1..n
    BY <1>1
  <1>7. more \in [1..(k + 1) -> T]
    BY <1>3, <1>5, <1>6
  <1>8. Increasing(more)
    <2>1. ASSUME NEW i \in 1..(k + 1), NEW j \in 1..(k + 1), i < j PROVE more[i] < more[j]
      <3>1. i \in 1..k /\ more[i] = list[i]
        BY <1>3, <1>5, <2>1
      <3>2. CASE j = k + 1
        BY <1>3, <1>5, <1>6, <3>1, <3>2
      <3>3. CASE j # k + 1
        <4>1. j \in 1..k /\ more[j] = list[j]
          BY <1>3, <1>5, <3>3
        <4> QED
          BY <1>1, <2>1, <3>1, <4>1 DEF Increasing
      <3> QED
        BY <3>2, <3>3
    <2> QED
      BY <1>7, <2>1 DEF Increasing
  <1>9. ToSet(more) = T
    <2>1. ASSUME NEW x \in S PROVE \E i \in 1..(k + 1) : more[i] = x
      <3>1. PICK i \in 1..k : list[i] = x
        BY <1>1 DEF ToSet
      <3>2. i \in 1..(k + 1) /\ more[i] = x
        BY <1>3, <1>5, <3>1
      <3> QED
        BY <3>2
    <2>2. k + 1 \in 1..(k + 1) /\ more[k + 1] = n + 1
      BY <1>3, <1>5
    <2> QED
      BY <1>7, <2>1, <2>2 DEF ToSet
  <1>10. Ascending(T) = more
    <2>1. T \in SUBSET Int /\ k + 1 \in Nat
      BY <1>3
    <2> HIDE DEF T
    <2> QED
      BY <1>2, <1>3, <1>7, <1>8, <1>9, <2>1, SameList
  <1> QED
    BY <1>10 DEF more, list

\* E is where each of the lists ends in the one that they make.
Places(E, units, n, args) ==
  /\ E \in [0..n -> Nat] /\ E[0] = 0 /\ E[n] = Len(args)
  /\ \A i \in 1..n : E[i] = E[i - 1] + Len(units[i])
  /\ \A i \in 1..n : \A k \in 1..Len(units[i]) :
       E[i - 1] + k \in 1..E[n] /\ args[E[i - 1] + k] = units[i][k]
  /\ \A p \in 1..E[n] : \E i \in 1..n : p - E[i - 1] \in 1..Len(units[i])

LEMMA FlattenPlaces ==
  ASSUME NEW T, NEW n \in Nat, n # 0, NEW units \in [1..n -> Seq(T)]
  PROVE  FlattenSeq(units) \in Seq(T) /\ \E E : Places(E, units, n, FlattenSeq(units))
  <1> DEFINE S == Seq(T)
             step == [i \in Nat |-> [s \in S |-> IF i + 1 \in 1..n THEN s \o units[i + 1] ELSE s]]
             Is0(f) == f = [i \in 1..n |-> IF i = 1 THEN units[i] ELSE f[i - 1] \o units[i]]
             F == CHOOSE f : Is0(f)
  <1>1. n \in Nat /\ n # 0 /\ 1 \in 1..n /\ n \in 1..n
    OBVIOUS
  <1>2. (\A i \in Nat : step[i] \in [S -> S]) /\ units[1] \in S
    <2>1. ASSUME NEW i \in Nat, NEW s \in S
          PROVE  (IF i + 1 \in 1..n THEN s \o units[i + 1] ELSE s) \in S
      <3>1. i + 1 \in 1..n => units[i + 1] \in S
        OBVIOUS
      <3> QED
        BY <3>1
    <2> QED
      BY <1>1, <2>1
  <1>3. PICK g : Unfolds(g, S, units[1], step, n)
    <2> HIDE DEF S, step
    <2> QED
      BY <1>2, ListUnfolds
  <1>4. Is0(g)
    <2> DEFINE h == [i \in 1..n |-> IF i = 1 THEN units[i] ELSE g[i - 1] \o units[i]]
    <2>1. ASSUME NEW i \in 1..n PROVE g[i] = h[i]
      <3>1. CASE i = 1
        BY <1>1, <1>3, <3>1 DEF Unfolds
      <3>2. CASE i # 1
        <4>1. i - 1 \in 1..n /\ (i - 1) + 1 = i /\ i - 1 \in Nat
          BY <3>2
        <4>2. g[i] = step[i - 1][g[i - 1]] /\ g[i - 1] \in S
          BY <1>3, <4>1 DEF Unfolds
        <4> QED
          BY <3>2, <4>1, <4>2
      <3> QED
        BY <3>1, <3>2
    <2> HIDE DEF S, step
    <2> QED
      BY <1>3, <2>1 DEF Unfolds
  <1>5. Is0(F)
    <2> HIDE DEF Is0
    <2> QED
      BY <1>4
  <1>6. FlattenSeq(units) = F[n]
    <2>1. Len(units) = n
      BY <1>1
    <2> QED
      BY <1>1, <2>1 DEF FlattenSeq
  <1> HIDE DEF F
  <1>7. F[1] = units[1] /\ \A i \in 1..n : i + 1 \in 1..n => F[i + 1] = F[i] \o units[i + 1]
    <2>1. \A i \in 1..n : i + 1 \in 1..n => (i + 1) - 1 = i /\ i + 1 # 1
      OBVIOUS
    <2> QED
      BY <1>1, <1>5, <2>1
  <1> DEFINE E == [i \in 0..n |-> IF i = 0 THEN 0 ELSE Len(F[i])]
             Kept(i) == \A j \in 1..i : \A k \in 1..Len(units[j]) :
                          E[j - 1] + k \in 1..E[i] /\ F[i][E[j - 1] + k] = units[j][k]
             Covered(i) == \A p \in 1..E[i] : \E j \in 1..i : p - E[j - 1] \in 1..Len(units[j])
             G == {i \in Nat : i \in 1..n => /\ F[i] \in S /\ E[i] = E[i - 1] + Len(units[i])
                                             /\ Kept(i) /\ Covered(i)}
  <1>8. 0 \in G
    OBVIOUS
  <1>9. ASSUME NEW i \in Nat, i \in G PROVE i + 1 \in G
    <2> SUFFICES ASSUME i + 1 \in 1..n
                 PROVE  /\ F[i + 1] \in S /\ E[i + 1] = E[i] + Len(units[i + 1])
                        /\ Kept(i + 1) /\ Covered(i + 1)
      <3>1. (i + 1) - 1 = i /\ i + 1 \in Nat
        OBVIOUS
      <3> QED
        BY <3>1
    <2> DEFINE u == units[i + 1]
               l == Len(u)
    <2>1. u \in S /\ l \in Nat
      OBVIOUS
    <2>2. CASE i = 0
      <3>1. F[i + 1] = u /\ i + 1 = 1 /\ 0 \in 0..n /\ 1 \in 0..n
        BY <1>7, <2>2
      <3>2. E[0] = 0 /\ E[1] = l
        BY <3>1
      <3> HIDE DEF E
      <3>3. Kept(1) /\ Covered(1)
        <4>1. \A j \in 1..1 : j = 1 /\ j - 1 = 0
          OBVIOUS
        <4>2. 1 \in 1..1 /\ 1 - 1 = 0
          OBVIOUS
        <4>3. \A k \in 1..l : 0 + k = k /\ k - 0 = k
          OBVIOUS
        <4> QED
          BY <2>1, <3>1, <3>2, <4>1, <4>2, <4>3
      <3> QED
        BY <2>1, <3>1, <3>2, <3>3
    <2>3. CASE i # 0
      <3>1. i \in 1..n /\ F[i] \in S /\ Kept(i) /\ Covered(i)
        <4>1. i \in 1..n
          BY <2>3
        <4> HIDE DEF E, Kept, Covered, S
        <4> QED
          BY <1>9, <4>1
      <3>2. F[i + 1] = F[i] \o u
        BY <1>7, <3>1
      <3> DEFINE a == F[i]
                 b == F[i + 1]
                 m == Len(a)
      <3>3. /\ b \in S /\ m \in Nat /\ Len(b) = m + l
            /\ \A p \in 1..m : b[p] = a[p]
            /\ \A k \in 1..l : b[m + k] = u[k]
        <4>1. a \in S /\ b = a \o u
          BY <3>1, <3>2
        <4> HIDE DEF a, b, u
        <4> QED
          BY <2>1, <4>1
      <3>4. E[i] = m /\ E[i + 1] = m + l
        <4>1. i \in 0..n /\ i + 1 \in 0..n /\ i + 1 # 0
          OBVIOUS
        <4>2. E[i] = Len(F[i]) /\ E[i + 1] = Len(F[i + 1])
          <5> HIDE DEF S
          <5> QED
            BY <2>3, <4>1
        <4> QED
          BY <3>3, <4>2
      <3> HIDE DEF E, u, l, m, a, b
      <3>5. \A j \in 1..(i + 1) : j \in 1..i \/ (j = i + 1 /\ j - 1 = i)
        OBVIOUS
      <3>6. Kept(i + 1)
        <4> SUFFICES ASSUME NEW j \in 1..(i + 1), NEW k \in 1..Len(units[j])
                     PROVE  E[j - 1] + k \in 1..E[i + 1] /\ b[E[j - 1] + k] = units[j][k]
          BY DEF b
        <4>1. CASE j \in 1..i
          <5> DEFINE q == E[j - 1] + k
          <5>1. q \in 1..m /\ a[q] = units[j][k]
            BY <3>1, <3>4, <4>1 DEF a
          <5> HIDE DEF q
          <5>2. q \in 1..E[i + 1] /\ b[q] = units[j][k]
            BY <2>1, <3>3, <3>4, <5>1
          <5> QED
            BY <5>2 DEF q
        <4>2. CASE j = i + 1 /\ j - 1 = i
          <5>1. k \in 1..l /\ units[j] = u
            BY <4>2 DEF u, l
          <5>2. m + k \in 1..(m + l)
            BY <2>1, <3>3, <5>1
          <5>3. b[m + k] = u[k]
            BY <3>3, <5>1
          <5> QED
            BY <3>4, <4>2, <5>1, <5>2, <5>3
        <4> QED
          BY <3>5, <4>1, <4>2
      <3>7. Covered(i + 1)
        <4> SUFFICES ASSUME NEW p \in 1..E[i + 1]
                     PROVE  \E j \in 1..(i + 1) : p - E[j - 1] \in 1..Len(units[j])
          OBVIOUS
        <4>1. CASE p <= m
          <5>1. p \in 1..E[i]
            BY <3>3, <3>4, <4>1
          <5>2. PICK j \in 1..i : p - E[j - 1] \in 1..Len(units[j])
            BY <3>1, <5>1
          <5>3. j \in 1..(i + 1)
            OBVIOUS
          <5> QED
            BY <5>2, <5>3
        <4>2. CASE m < p
          <5>1. p - m \in 1..l
            BY <2>1, <3>3, <3>4, <4>2
          <5>2. i + 1 \in 1..(i + 1) /\ (i + 1) - 1 = i
            OBVIOUS
          <5> QED
            BY <3>4, <5>1, <5>2 DEF u, l
        <4> QED
          BY <2>1, <3>3, <3>4, <4>1, <4>2
      <3> QED
        BY <3>3, <3>4, <3>6, <3>7 DEF b, l, u
    <2> QED
      BY <2>2, <2>3
  <1>10. \A i \in Nat : i \in G
    <2> HIDE DEF G
    <2> QED
      BY <1>8, <1>9, Induction
  <1>11. \A i \in 1..n : F[i] \in S /\ E[i] = E[i - 1] + Len(units[i])
    <2> HIDE DEF E, Kept, Covered, S
    <2> QED
      BY <1>10
  <1>12. F[n] \in S /\ Kept(n) /\ Covered(n)
    <2> HIDE DEF E, Kept, Covered, S
    <2> QED
      BY <1>1, <1>10
  <1>13. E[0] = 0 /\ E[n] = Len(F[n]) /\ E \in [0..n -> Nat]
    <2>1. \A i \in 0..n : i # 0 => i \in 1..n
      OBVIOUS
    <2> QED
      BY <1>1, <1>11, <2>1
  <1> DEFINE args == FlattenSeq(units)
  <1> HIDE DEF E, S
  <1>14. \A i \in 1..n : \A k \in 1..Len(units[i]) :
           E[i - 1] + k \in 1..E[n] /\ args[E[i - 1] + k] = units[i][k]
    BY <1>6, <1>12
  <1>15. args \in Seq(T) /\ Len(args) = E[n]
    BY <1>6, <1>12, <1>13 DEF S
  <1> HIDE DEF args
  <1>16. \A i \in 1..n : E[i] = E[i - 1] + Len(units[i])
    BY <1>11
  <1> QED
    BY <1>12, <1>13, <1>14, <1>15, <1>16 DEF args, Places

------------------------------------------------------------------------------
(* Names in a message. *)

LEMMA OctetType ==
  ASSUME NEW buf \in Octets, NEW p \in 0..(Len(buf) - 1)
  PROVE  Len(buf) \in Nat /\ Octet(buf, p) \in 0..255
  <1>1. buf \in Seq(0..255) /\ Len(buf) \in Nat
    BY DEF Octets
  <1>2. p + 1 \in 1..Len(buf)
    BY <1>1
  <1>3. buf[p + 1] \in 0..255
    <2> DEFINE O == 0..255
    <2>1. buf \in Seq(O)
      BY <1>1
    <2> HIDE DEF O
    <2>2. buf[p + 1] \in O
      BY <1>2, <2>1
    <2> QED
      BY <2>2 DEF O
  <1> QED
    BY <1>1, <1>3 DEF Octet

LEMMA TargetType ==
  ASSUME NEW buf \in Octets, NEW p \in 0..(Len(buf) - 1), p + 1 \in 0..(Len(buf) - 1)
  PROVE  PointerTarget(buf, p) \in Nat
  <1> DEFINE a == Octet(buf, p)
             b == Octet(buf, p + 1)
  <1>1. a \in Nat /\ b \in Nat
    <2>1. \A o \in 0..255 : o \in Nat
      OBVIOUS
    <2> HIDE DEF a, b
    <2>2. a \in 0..255 /\ b \in 0..255
      BY OctetType DEF a, b
    <2> QED
      BY <2>1, <2>2
  <1>2. PointerTarget(buf, p) = (a % 64) * 256 + b
    BY DEF PointerTarget
  <1> HIDE DEF a, b
  <1>3. a % 64 \in Nat
    BY <1>1
  <1> QED
    BY <1>1, <1>2, <1>3

\* Where a finger goes from place p.
Follow(buf, p) ==
  IF p \notin 0..(Len(buf) - 1) THEN Len(buf)
  ELSE IF ~IsPointer(Octet(buf, p)) THEN p + 1 + Octet(buf, p)
  ELSE IF p + 1 \in 0..(Len(buf) - 1) THEN PointerTarget(buf, p) ELSE Len(buf)

LEMMA PathRuns ==
  ASSUME NEW buf \in Octets, NEW off \in Nat
  PROVE  LET at == Path(buf, off) IN
         /\ at[0] = off
         /\ \A n \in Nat : at[n] \in Nat /\ at[n + 1] = Follow(buf, at[n])
  <1> DEFINE at == Path(buf, off)
             follow == [p \in Nat |-> Follow(buf, p)]
  <1>1. Len(buf) \in Nat
    BY DEF Octets
  <1>2. ASSUME NEW p \in Nat PROVE Follow(buf, p) \in Nat
    <2>1. ASSUME p \in 0..(Len(buf) - 1) PROVE Octet(buf, p) \in Nat
      <3>1. Octet(buf, p) \in 0..255
        BY <2>1, OctetType
      <3> QED
        BY <3>1
    <2>2. p \in 0..(Len(buf) - 1) /\ p + 1 \in 0..(Len(buf) - 1) => PointerTarget(buf, p) \in Nat
      BY TargetType
    <2> QED
      BY <1>1, <2>1, <2>2 DEF Follow
  <1>3. follow \in [Nat -> Nat]
    BY <1>2
  <1> DEFINE Is0(h) == h = [n \in Nat |-> IF n = 0 THEN off ELSE follow[h[n - 1]]]
  <1>4. at = CHOOSE h : Is0(h)
    BY DEF Path, Follow
  <1> HIDE DEF at
  <1>5. PICK g \in [Nat -> Nat] : g[0] = off /\ \A n \in Nat : g[n + 1] = follow[g[n]]
    <2> DEFINE S == Nat
               first == off
    <2>1. follow \in [S -> S] /\ first \in S
      BY <1>3
    <2>2. \E g \in [Nat -> S] : g[0] = first /\ \A n \in Nat : g[n + 1] = follow[g[n]]
      <3> HIDE DEF S, first, follow
      <3> QED
        BY <2>1, Iterates
    <2> QED
      BY <2>2
  <1>6. Is0(g)
    <2> DEFINE h == [n \in Nat |-> IF n = 0 THEN off ELSE follow[g[n - 1]]]
    <2> HIDE DEF follow
    <2>1. ASSUME NEW n \in Nat PROVE g[n] = h[n]
      <3>1. CASE n = 0
        BY <3>1, <1>5
      <3>2. CASE n # 0
        <4>1. n - 1 \in Nat /\ (n - 1) + 1 = n
          BY <3>2
        <4> QED
          BY <4>1, <3>2, <1>5
      <3> QED
        BY <3>1, <3>2
    <2> QED
      BY <2>1, <1>5
  <1>7. Is0(at)
    <2> HIDE DEF Is0
    <2> QED
      BY <1>4, <1>6
  <1>8. at[0] = off
    BY <1>7
  <1>9. ASSUME NEW n \in Nat PROVE at[n + 1] = follow[at[n]]
    <2>1. n + 1 \in Nat /\ n + 1 # 0 /\ (n + 1) - 1 = n
      OBVIOUS
    <2> HIDE DEF follow
    <2> QED
      BY <1>7, <2>1
  <1>10. \A n \in Nat : at[n] \in Nat
    <2> DEFINE G == {n \in Nat : at[n] \in Nat}
    <2>1. 0 \in G
      BY <1>8
    <2>2. \A n \in Nat : n \in G => n + 1 \in G
      <3> HIDE DEF follow
      <3> QED
        BY <1>3, <1>9
    <2>3. \A n \in Nat : n \in G
      <3> HIDE DEF G
      <3> QED
        BY <2>1, <2>2, Induction
    <2> QED
      BY <2>3
  <1> QED
    BY <1>8, <1>9, <1>10 DEF at

\* The states of the loop of readName.
LabelsIn(buf) == {Slice(buf, from, to) : from \in Int, to \in Int}

NameStates(buf) ==
  [cur : Nat, jumps : Nat, origOff : Int, labels : Seq(LabelsIn(buf)), over : BOOLEAN,
   out : {Fails} \union {OkAt(Join(ls), after) : ls \in Seq(LabelsIn(buf)), after \in Int}]

NameBegins(off) ==
  [cur |-> off, jumps |-> 0, origOff |-> -1, labels |-> <<>>, over |-> FALSE, out |-> Fails]

\* What a pass does.
LEMMA PassCases ==
  ASSUME NEW buf \in Octets, NEW s \in NameStates(buf)
  PROVE  LET o == Octet(buf, s.cur)
             t == NamePass(buf, s)
         IN  /\ t \in NameStates(buf)
             /\ s.over => t = s
             /\ ~s.over /\ s.cur \notin 0..(Len(buf) - 1) => t.over /\ t.out = Fails
             /\ ~s.over /\ s.cur \in 0..(Len(buf) - 1) =>
                  /\ o = 0 => /\ t.over
                              /\ t.out = OkAt(Join(s.labels),
                                              IF s.origOff = -1 THEN s.cur + 1 ELSE s.origOff)
                  /\ o # 0 /\ IsPointer(o) =>
                       \/ /\ s.cur + 1 \notin 0..(Len(buf) - 1) \/ s.jumps = MaxJumps
                          /\ t.over /\ t.out = Fails
                       \/ /\ s.cur + 1 \in 0..(Len(buf) - 1) /\ s.jumps # MaxJumps
                          /\ ~t.over /\ t.cur = PointerTarget(buf, s.cur) /\ t.jumps = s.jumps + 1
                          /\ t.origOff = IF s.origOff = -1 THEN s.cur + 2 ELSE s.origOff
                          /\ t.labels = s.labels
                  /\ o # 0 /\ ~IsPointer(o) =>
                       \/ s.cur + 1 + o > Len(buf) /\ t.over /\ t.out = Fails
                       \/ /\ s.cur + 1 + o <= Len(buf)
                          /\ ~t.over /\ t.cur = s.cur + 1 + o /\ t.jumps = s.jumps
                          /\ t.origOff = s.origOff
                          /\ t.labels = Append(s.labels, Slice(buf, s.cur + 1, s.cur + 1 + o))
  <1> DEFINE o == Octet(buf, s.cur)
             t == NamePass(buf, s)
             Return(out) == [s EXCEPT !.over = TRUE, !.out = out]
             In == s.cur \in 0..(Len(buf) - 1)
             found == OkAt(Join(s.labels), IF s.origOff = -1 THEN s.cur + 1 ELSE s.origOff)
             jumped == [s EXCEPT !.cur = PointerTarget(buf, s.cur), !.jumps = @ + 1,
                                 !.origOff = IF @ = -1 THEN s.cur + 2 ELSE @]
             label == Slice(buf, s.cur + 1, s.cur + 1 + o)
             read == [s EXCEPT !.cur = @ + 1 + o, !.labels = Append(@, label)]
  <1>1. /\ s.cur \in Nat /\ s.jumps \in Nat /\ s.origOff \in Int /\ s.over \in BOOLEAN
        /\ s.labels \in Seq(LabelsIn(buf)) /\ Len(buf) \in Nat
    BY DEF Octets, NameStates
  <1>2. t = IF s.over THEN s
            ELSE IF ~In THEN Return(Fails)
            ELSE IF o = 0 THEN Return(found)
            ELSE IF IsPointer(o)
            THEN IF s.cur + 1 \notin 0..(Len(buf) - 1) \/ s.jumps = MaxJumps THEN Return(Fails)
                 ELSE jumped
            ELSE IF s.cur + 1 + o > Len(buf) THEN Return(Fails)
            ELSE read
    BY <1>1 DEF NamePass
  <1>3. \A out : Return(out).over = TRUE /\ Return(out).out = out
    BY DEF NameStates
  <1> DEFINE L == LabelsIn(buf)
             Outs == {Fails} \union {OkAt(Join(ls), after) : ls \in Seq(L), after \in Int}
             States == [cur : Nat, jumps : Nat, origOff : Int, labels : Seq(L), over : BOOLEAN,
                        out : Outs]
  <1>states. NameStates(buf) = States
    BY DEF NameStates
  <1>outs. Fails \in Outs /\ found \in Outs
    <2>1. (IF s.origOff = -1 THEN s.cur + 1 ELSE s.origOff) \in Int
      BY <1>1
    <2> QED
      BY <1>1, <2>1
  <1>4. Return(Fails) \in NameStates(buf) /\ Return(found) \in NameStates(buf)
    <2>1. s \in States
      BY <1>states
    <2> HIDE DEF found, L, Outs
    <2>2. Return(Fails) \in States /\ Return(found) \in States
      BY <1>outs, <2>1
    <2> QED
      BY <1>states, <2>2
  <1>5. In => o \in Nat /\ o \in 0..255
    <2>1. \A x \in 0..255 : x \in Nat
      OBVIOUS
    <2> QED
      BY <2>1, OctetType
  <1>6. ASSUME In, s.cur + 1 \in 0..(Len(buf) - 1)
        PROVE  /\ jumped \in NameStates(buf)
               /\ jumped.over = s.over /\ jumped.cur = PointerTarget(buf, s.cur)
               /\ jumped.jumps = s.jumps + 1 /\ jumped.labels = s.labels
               /\ jumped.origOff = IF s.origOff = -1 THEN s.cur + 2 ELSE s.origOff
    <2> DEFINE target == PointerTarget(buf, s.cur)
    <2>1. target \in Nat
      BY <1>6, TargetType
    <2> DEFINE back == IF s.origOff = -1 THEN s.cur + 2 ELSE s.origOff
               jumps == s.jumps + 1
    <2> HIDE DEF target, L, Outs
    <2>types. back \in Int /\ jumps \in Nat
      BY <1>1
    <2>2. jumped = [s EXCEPT !.cur = target, !.jumps = jumps, !.origOff = back]
      BY DEF target
    <2> HIDE DEF jumped, back, jumps
    <2>3. s \in States
      BY <1>states
    <2>4. jumped \in States /\ jumped.over = s.over /\ jumped.cur = target
      BY <2>types, <2>1, <2>2, <2>3
    <2>5. /\ jumped.jumps = jumps /\ jumped.labels = s.labels /\ jumped.origOff = back
      BY <2>2, <2>3
    <2> QED
      BY <1>states, <2>4, <2>5 DEF target, back, jumps
  <1>7. ASSUME In
        PROVE  /\ read \in NameStates(buf)
               /\ read.over = s.over /\ read.cur = s.cur + 1 + o /\ read.jumps = s.jumps
               /\ read.origOff = s.origOff /\ read.labels = Append(s.labels, label)
    <2>1. label \in LabelsIn(buf) /\ o \in Nat
      <3>1. s.cur + 1 \in Int /\ s.cur + 1 + o \in Int
        BY <1>1, <1>5, <1>7
      <3> QED
        BY <1>5, <1>7, <3>1 DEF LabelsIn
    <2> HIDE DEF label, o
    <2> DEFINE longer == Append(s.labels, label)
               next == s.cur + 1 + o
    <2>2. longer \in Seq(L) /\ next \in Nat
      BY <1>1, <2>1
    <2>3. read = [s EXCEPT !.cur = next, !.labels = longer]
      <3>1. s.cur + 1 + o = next
        OBVIOUS
      <3> QED
        BY <3>1
    <2>4. s \in States
      BY <1>states
    <2> HIDE DEF longer, next, L, Outs, read
    <2>5. read \in States /\ read.over = s.over /\ read.cur = next
      BY <2>2, <2>3, <2>4
    <2>6. read.jumps = s.jumps /\ read.origOff = s.origOff /\ read.labels = longer
      BY <2>3, <2>4
    <2> QED
      BY <1>states, <2>5, <2>6 DEF longer, next
  <1> HIDE DEF o, t, Return, In, found, jumped, label, read
  <1>8. t \in NameStates(buf)
    BY <1>2, <1>4, <1>6, <1>7
  <1>9. /\ s.over => t = s
        /\ ~s.over /\ ~In => t.over /\ t.out = Fails
        /\ ~s.over /\ In /\ o = 0 => t.over /\ t.out = found
    BY <1>2, <1>3
  <1>10. ASSUME ~s.over, In, o # 0, IsPointer(o)
         PROVE  \/ /\ s.cur + 1 \notin 0..(Len(buf) - 1) \/ s.jumps = MaxJumps
                   /\ t.over /\ t.out = Fails
                \/ /\ s.cur + 1 \in 0..(Len(buf) - 1) /\ s.jumps # MaxJumps
                   /\ ~t.over /\ t.cur = PointerTarget(buf, s.cur) /\ t.jumps = s.jumps + 1
                   /\ t.origOff = IF s.origOff = -1 THEN s.cur + 2 ELSE s.origOff
                   /\ t.labels = s.labels
    BY <1>1, <1>2, <1>3, <1>6, <1>10
  <1>11. ASSUME ~s.over, In, o # 0, ~IsPointer(o)
         PROVE  \/ s.cur + 1 + o > Len(buf) /\ t.over /\ t.out = Fails
                \/ /\ s.cur + 1 + o <= Len(buf)
                   /\ ~t.over /\ t.cur = s.cur + 1 + o /\ t.jumps = s.jumps
                   /\ t.origOff = s.origOff /\ t.labels = Append(s.labels, label)
    <2>1. s.cur + 1 + o \in Int /\ Len(buf) \in Int
      BY <1>1, <1>5, <1>11
    <2> QED
      BY <1>2, <1>3, <1>7, <1>11, <2>1
  <1> QED
    BY <1>8, <1>9, <1>10, <1>11 DEF o, t, In, found, label

\* The loop has a state before each of its passes.
LEMMA NameLoopRuns ==
  ASSUME NEW buf \in Octets, NEW off \in Nat
  PROVE  LET s == NameLoop(buf, off) IN
         /\ s[0] = NameBegins(off)
         /\ \A k \in Nat : s[k] \in NameStates(buf) /\ s[k + 1] = NamePass(buf, s[k])
  <1> DEFINE S == NameStates(buf)
             step == [x \in S |-> NamePass(buf, x)]
             Is0(h) == h = [k \in Nat |-> IF k = 0 THEN NameBegins(off) ELSE NamePass(buf, h[k - 1])]
             s == NameLoop(buf, off)
  <1>1. NameBegins(off) \in S
    <2>1. <<>> \in Seq(LabelsIn(buf))
      OBVIOUS
    <2> QED
      BY <2>1 DEF NameBegins, NameStates
  <1>2. \A x \in S : NamePass(buf, x) \in S
    BY PassCases
  <1>3. s = CHOOSE h : Is0(h)
    BY DEF NameLoop, NameBegins
  <1> HIDE DEF s
  <1>4. PICK g \in [Nat -> S] : g[0] = NameBegins(off) /\ \A k \in Nat : g[k + 1] = step[g[k]]
    <2> DEFINE first == NameBegins(off)
    <2>1. step \in [S -> S] /\ first \in S
      BY <1>1, <1>2
    <2>2. \E g \in [Nat -> S] : g[0] = first /\ \A k \in Nat : g[k + 1] = step[g[k]]
      <3> HIDE DEF S, step, first
      <3> QED
        BY <2>1, Iterates
    <2> QED
      BY <2>2
  <1>5. Is0(g)
    <2> DEFINE h == [k \in Nat |-> IF k = 0 THEN NameBegins(off) ELSE NamePass(buf, g[k - 1])]
    <2>1. ASSUME NEW k \in Nat PROVE g[k] = h[k]
      <3>1. CASE k = 0
        BY <3>1, <1>4
      <3>2. CASE k # 0
        <4>1. k - 1 \in Nat /\ (k - 1) + 1 = k
          BY <3>2
        <4>2. g[k] = step[g[k - 1]] /\ g[k - 1] \in S
          BY <4>1, <1>4
        <4> QED
          BY <4>2, <3>2
      <3> QED
        BY <3>1, <3>2
    <2> HIDE DEF S, step
    <2> QED
      BY <2>1, <1>4
  <1>6. Is0(s)
    <2> HIDE DEF Is0
    <2> QED
      BY <1>3, <1>5
  <1>7. s[0] = NameBegins(off)
    BY <1>6
  <1>8. ASSUME NEW k \in Nat PROVE s[k + 1] = NamePass(buf, s[k])
    <2>1. k + 1 \in Nat /\ k + 1 # 0 /\ (k + 1) - 1 = k
      OBVIOUS
    <2> QED
      BY <1>6, <2>1
  <1>9. \A k \in Nat : s[k] \in S
    <2> DEFINE G == {k \in Nat : s[k] \in S}
    <2>1. 0 \in G
      BY <1>1, <1>7
    <2>2. \A k \in Nat : k \in G => k + 1 \in G
      <3> HIDE DEF S
      <3> QED
        BY <1>2, <1>8
    <2>3. \A k \in Nat : k \in G
      <3> HIDE DEF G
      <3> QED
        BY <2>1, <2>2, Induction
    <2> QED
      BY <2>3
  <1> QED
    BY <1>7, <1>8, <1>9 DEF s

\* Between two jumps the loop goes forward, so it is over in time: a loop of pointers
\* does not keep it (wire.go:407-410).
THEOREM NameLoopEnds ==
  ASSUME NEW buf \in Octets, NEW off \in 0..Len(buf)
  PROVE  \E pass \in 0..MaxPasses(buf) : NameLoop(buf, off)[pass].over
  <1> DEFINE s == NameLoop(buf, off)
             L == Len(buf)
             D(j) == j * (L + 1)
             G == {k \in Nat : ~s[k].over => /\ s[k].jumps <= MaxJumps
                                             /\ k <= D(s[k].jumps) + s[k].cur
                                             /\ k <= D(s[k].jumps) + L}
  <1>1. L \in Nat /\ MaxJumps \in Nat /\ off \in Nat
    BY JumpsAssumption DEF Octets
  <1>2. /\ s[0] = NameBegins(off)
        /\ \A k \in Nat : s[k] \in NameStates(buf) /\ s[k + 1] = NamePass(buf, s[k])
    BY <1>1, NameLoopRuns
  <1>3. \A j \in Nat : D(j) \in Nat /\ D(j + 1) = D(j) + L + 1
    BY <1>1
  <1>4. \A j \in Nat : j <= MaxJumps => D(j) <= D(MaxJumps)
    BY <1>1
  <1>5. D(0) = 0
    BY <1>1
  <1>6. MaxPasses(buf) = D(MaxJumps) + L + 1
    BY <1>1 DEF MaxPasses
  <1> HIDE DEF s, D
  <1>7. 0 \in G
    <2>1. s[0].jumps = 0 /\ s[0].cur = off
      BY <1>2 DEF NameBegins
    <2> QED
      BY <1>1, <1>5, <2>1
  <1>8. ASSUME NEW k \in Nat, k \in G PROVE k + 1 \in G
    <2> DEFINE a == s[k]
               b == s[k + 1]
               o == Octet(buf, a.cur)
    <2>1. /\ a \in NameStates(buf) /\ b = NamePass(buf, a) /\ b \in NameStates(buf)
      <3>1. k + 1 \in Nat
        OBVIOUS
      <3> QED
        BY <1>2, <3>1
    <2>2. a.cur \in Nat /\ a.jumps \in Nat /\ b.cur \in Nat /\ b.jumps \in Nat
      BY <2>1 DEF NameStates
    <2>3. ~a.over => a.jumps <= MaxJumps /\ k <= D(a.jumps) + a.cur /\ k <= D(a.jumps) + L
      BY <1>8
    <2> HIDE DEF a, b, o
    <2>4. SUFFICES ASSUME ~b.over
                   PROVE  b.jumps <= MaxJumps /\ k + 1 <= D(b.jumps) + b.cur
                          /\ k + 1 <= D(b.jumps) + L
      BY DEF b
    <2>5. ~a.over /\ a.cur \in 0..(L - 1)
      BY <2>1, <2>4, PassCases
    <2>6. o \in Nat
      <3>1. o \in 0..255
        BY <2>5, OctetType DEF o
      <3> QED
        BY <3>1
    <2>7. D(a.jumps) \in Nat /\ D(a.jumps + 1) = D(a.jumps) + L + 1
      BY <1>3, <2>2
    <2>10. a.jumps <= MaxJumps /\ k <= D(a.jumps) + a.cur /\ k <= D(a.jumps) + L
      BY <2>3, <2>5
    <2> DEFINE d == D(a.jumps)
               e == D(b.jumps)
    <2>8. CASE IsPointer(o)
      <3>1. b.jumps = a.jumps + 1 /\ a.jumps # MaxJumps
        BY <2>1, <2>4, <2>5, <2>8, PassCases DEF o
      <3>2. e = d + L + 1 /\ d \in Nat
        BY <2>7, <3>1
      <3> HIDE DEF d, e
      <3>3. k + 1 <= e /\ b.jumps <= MaxJumps
        BY <1>1, <2>2, <2>5, <2>10, <3>1, <3>2 DEF d
      <3> QED
        BY <1>1, <2>2, <3>2, <3>3 DEF e
    <2>9. CASE ~IsPointer(o)
      <3>1. b.jumps = a.jumps /\ b.cur = a.cur + 1 + o /\ a.cur + 1 + o <= L
        BY <2>1, <2>4, <2>5, <2>9, PassCases DEF o
      <3>2. e = d /\ d \in Nat
        BY <2>7, <3>1
      <3> HIDE DEF d, e
      <3>3. k + 1 <= d + b.cur /\ k + 1 <= d + L /\ b.jumps <= MaxJumps
        BY <1>1, <2>2, <2>5, <2>6, <2>10, <3>1, <3>2 DEF d
      <3> QED
        BY <3>2, <3>3 DEF e
    <2> QED
      BY <2>8, <2>9
  <1>9. \A k \in Nat : k \in G
    <2> HIDE DEF G
    <2> QED
      BY <1>7, <1>8, Induction
  <1>10. s[MaxPasses(buf)].over
    <2> DEFINE m == D(MaxJumps) + L + 1
               d == D(MaxJumps)
    <2>1. d \in Nat
      BY <1>1, <1>3
    <2>2. m \in Nat /\ m = d + L + 1
      <3> HIDE DEF d
      <3>1. d + L + 1 \in Nat
        BY <1>1, <2>1
      <3> QED
        BY <3>1 DEF d
    <2> HIDE DEF m, d
    <2>3. SUFFICES ASSUME ~s[m].over PROVE FALSE
      BY <1>6 DEF m
    <2>4. s[m].jumps \in Nat
      <3>1. s[m] \in NameStates(buf)
        BY <1>2, <2>2
      <3> QED
        BY <3>1 DEF NameStates
    <2>5. s[m].jumps <= MaxJumps /\ m <= D(s[m].jumps) + L
      BY <1>9, <2>2, <2>3
    <2>6. D(s[m].jumps) <= d /\ D(s[m].jumps) \in Nat
      BY <1>3, <1>4, <2>4, <2>5 DEF d
    <2> QED
      BY <1>1, <2>1, <2>2, <2>5, <2>6
  <1>11. MaxPasses(buf) \in Nat
    BY <1>1, <1>3, <1>6
  <1> QED
    BY <1>10, <1>11 DEF s

\* What a path has passed in n steps: pointers, labels; and where the name ends.
JumpsTo(buf, at, n) == {i \in 0..(n - 1) : IsPointer(Octet(buf, at[i]))}

StepsTo(buf, at, n) == {i \in 1..n : i - 1 \notin JumpsTo(buf, at, n)}

LabelsTo(buf, at, n) ==
  LET steps == Ascending(StepsTo(buf, at, n))
  IN  [k \in DOMAIN steps |-> Slice(buf, at[steps[k] - 1] + 1, at[steps[k]])]

BackTo(buf, at, n) ==
  IF JumpsTo(buf, at, n) = {} THEN -1 ELSE at[Min(JumpsTo(buf, at, n))] + 2

Clear(buf, at, n) == \A i \in 0..(n - 1) : at[i] \in 0..(Len(buf) - 1) /\ Octet(buf, at[i]) # 0

LEMMA JumpsStep ==
  ASSUME NEW buf, NEW at, NEW n \in Nat
  PROVE  /\ IsFiniteSet(JumpsTo(buf, at, n)) /\ Cardinality(JumpsTo(buf, at, n)) \in Nat
         /\ IsPointer(Octet(buf, at[n])) =>
              /\ JumpsTo(buf, at, n + 1) = JumpsTo(buf, at, n) \union {n}
              /\ Cardinality(JumpsTo(buf, at, n + 1)) = Cardinality(JumpsTo(buf, at, n)) + 1
              /\ StepsTo(buf, at, n + 1) = StepsTo(buf, at, n)
         /\ ~IsPointer(Octet(buf, at[n])) =>
              /\ JumpsTo(buf, at, n + 1) = JumpsTo(buf, at, n)
              /\ StepsTo(buf, at, n + 1) = StepsTo(buf, at, n) \union {n + 1}
  <1> DEFINE J == JumpsTo(buf, at, n)
             P == IsPointer(Octet(buf, at[n]))
  <1>1. 0..((n + 1) - 1) = (0..(n - 1)) \union {n} /\ n \notin 0..(n - 1)
    OBVIOUS
  <1>2. 1..(n + 1) = (1..n) \union {n + 1} /\ n + 1 \notin 1..n
    OBVIOUS
  <1>3. J \subseteq 0..(n - 1) /\ n \notin J
    BY <1>1 DEF JumpsTo
  <1>4. IsFiniteSet(J) /\ Cardinality(J) \in Nat
    <2>1. IsFiniteSet(0..(n - 1))
      BY FS_Interval
    <2>2. IsFiniteSet(J)
      BY <1>3, <2>1, FS_Subset
    <2> QED
      BY <2>2, FS_CardinalityType
  <1>5. JumpsTo(buf, at, n + 1) = IF P THEN J \union {n} ELSE J
    BY <1>1 DEF JumpsTo
  <1>6. P => Cardinality(J \union {n}) = Cardinality(J) + 1
    BY <1>3, <1>4, FS_AddElement
  <1>7. \A i \in 1..n : i - 1 # n
    OBVIOUS
  <1>8. P => StepsTo(buf, at, n + 1) = StepsTo(buf, at, n)
    <2> SUFFICES ASSUME P PROVE StepsTo(buf, at, n + 1) = StepsTo(buf, at, n)
      OBVIOUS
    <2>1. StepsTo(buf, at, n + 1) = {i \in 1..(n + 1) : i - 1 \notin J \union {n}}
      BY <1>5 DEF StepsTo
    <2>2. (n + 1) - 1 = n
      OBVIOUS
    <2>3. {i \in 1..(n + 1) : i - 1 \notin J \union {n}} = {i \in 1..n : i - 1 \notin J}
      <3> HIDE DEF J
      <3> QED
        BY <1>2, <1>7, <2>2
    <2> QED
      BY <2>1, <2>3 DEF StepsTo
  <1>9. ~P => StepsTo(buf, at, n + 1) = StepsTo(buf, at, n) \union {n + 1}
    <2> SUFFICES ASSUME ~P PROVE StepsTo(buf, at, n + 1) = StepsTo(buf, at, n) \union {n + 1}
      OBVIOUS
    <2>1. StepsTo(buf, at, n + 1) = {i \in 1..(n + 1) : i - 1 \notin J}
      BY <1>5 DEF StepsTo
    <2>2. (n + 1) - 1 = n /\ n \notin J
      BY <1>3
    <2>3. {i \in 1..(n + 1) : i - 1 \notin J} = {i \in 1..n : i - 1 \notin J} \union {n + 1}
      <3> HIDE DEF J
      <3> QED
        BY <1>2, <2>2
    <2> QED
      BY <2>1, <2>3 DEF StepsTo
  <1> QED
    BY <1>4, <1>5, <1>6, <1>8, <1>9

LEMMA LabelsStep ==
  ASSUME NEW buf, NEW at, NEW n \in Nat
  PROVE  LabelsTo(buf, at, n + 1) =
           IF IsPointer(Octet(buf, at[n])) THEN LabelsTo(buf, at, n)
           ELSE Append(LabelsTo(buf, at, n), Slice(buf, at[n] + 1, at[n + 1]))
  <1> DEFINE S == StepsTo(buf, at, n)
             list == Ascending(S)
             Label(i) == Slice(buf, at[i - 1] + 1, at[i])
             labels == [k \in DOMAIN list |-> Label(list[k])]
  <1>1. CASE IsPointer(Octet(buf, at[n]))
    BY <1>1, JumpsStep DEF LabelsTo
  <1>2. CASE ~IsPointer(Octet(buf, at[n]))
    <2>1. StepsTo(buf, at, n + 1) = S \union {n + 1}
      BY <1>2, JumpsStep
    <2>2. S \in SUBSET (1..n)
      BY DEF StepsTo
    <2>3. Ascending(S \union {n + 1}) = Append(list, n + 1)
      BY <2>2, AscendingAppends
    <2>4. PICK k \in Nat : DOMAIN list = 1..k /\ list \in [1..k -> S]
      <3>1. IsFiniteSet(S)
        BY <2>2, SmallIsFinite
      <3> HIDE DEF S
      <3>2. Cardinality(S) \in Nat
        BY <3>1, FS_CardinalityType
      <3> QED
        BY <2>2, <3>2, AscendingSorts
    <2> DEFINE more == Append(list, n + 1)
    <2> HIDE DEF list, S
    <2>5. more = [i \in 1..(k + 1) |-> IF i = k + 1 THEN n + 1 ELSE list[i]]
      BY <2>4
    <2> HIDE DEF more
    <2>6. LabelsTo(buf, at, n + 1) = [i \in 1..(k + 1) |-> Label(more[i])]
      BY <2>1, <2>3, <2>5 DEF LabelsTo, more, S, list
    <2>7. Label(more[k + 1]) = Slice(buf, at[n] + 1, at[n + 1])
      <3>1. more[k + 1] = n + 1 /\ (n + 1) - 1 = n
        BY <2>5
      <3> QED
        BY <3>1
    <2>8. \A i \in 1..k : more[i] = list[i]
      BY <2>4, <2>5
    <2> HIDE DEF Label
    <2>9. Append(labels, Label(more[k + 1])) = [i \in 1..(k + 1) |-> Label(more[i])]
      <3>1. labels = [i \in 1..k |-> Label(list[i])]
        BY <2>4
      <3>2. Len(labels) = k /\ DOMAIN labels = 1..k
        BY <2>4, <3>1
      <3>3. Append(labels, Label(more[k + 1])) =
              [i \in 1..(k + 1) |-> IF i = k + 1 THEN Label(more[k + 1]) ELSE labels[i]]
        BY <2>4, <3>2
      <3>4. \A i \in 1..(k + 1) :
              Label(more[i]) = IF i = k + 1 THEN Label(more[k + 1]) ELSE labels[i]
        BY <2>4, <2>8, <3>1
      <3> QED
        BY <3>3, <3>4
    <2>10. labels = LabelsTo(buf, at, n)
      BY DEF LabelsTo, Label, list, S
    <2> QED
      BY <1>2, <2>6, <2>7, <2>9, <2>10
  <1> QED
    BY <1>1, <1>2

\* The offset after the name is settled by the first pointer.
LEMMA BackStep ==
  ASSUME NEW buf, NEW at, NEW n \in Nat, \A i \in Nat : at[i] \in Nat
  PROVE  BackTo(buf, at, n + 1) =
           IF ~IsPointer(Octet(buf, at[n])) \/ BackTo(buf, at, n) # -1 THEN BackTo(buf, at, n)
           ELSE at[n] + 2
  <1> DEFINE J == JumpsTo(buf, at, n)
             K == JumpsTo(buf, at, n + 1)
  <1>1. J \in SUBSET Nat /\ \A i \in J : i < n
    BY DEF JumpsTo
  <1>2. CASE ~IsPointer(Octet(buf, at[n]))
    <2>1. K = J
      BY <1>2, JumpsStep
    <2>2. BackTo(buf, at, n + 1) = BackTo(buf, at, n)
      BY <2>1 DEF BackTo
    <2> QED
      BY <1>2, <2>2
  <1>3. CASE IsPointer(Octet(buf, at[n]))
    <2>1. K = J \union {n}
      BY <1>3, JumpsStep
    <2> HIDE DEF J, K
    <2>2. K \in SUBSET Nat /\ K # {}
      BY <1>1, <2>1
    <2>3. Min(K) \in K /\ \A y \in K : Min(K) <= y
      BY <2>2, MinOfNats
    <2>4. CASE J = {}
      <3>1. Min(K) = n
        BY <2>1, <2>3, <2>4
      <3> QED
        BY <1>3, <2>2, <2>4, <3>1 DEF BackTo, J, K
    <2>5. CASE J # {}
      <3>1. Min(J) \in J /\ \A y \in J : Min(J) <= y
        BY <1>1, <2>5, MinOfNats
      <3>2. Min(K) = Min(J)
        <4>1. Min(J) \in Nat /\ Min(K) \in Nat /\ Min(J) < n /\ Min(J) \in K
          BY <1>1, <2>1, <2>2, <2>3, <3>1
        <4>2. Min(K) <= Min(J)
          BY <2>3, <4>1
        <4>3. Min(K) \in J
          BY <2>1, <2>3, <4>1, <4>2
        <4>4. Min(J) <= Min(K)
          BY <3>1, <4>3
        <4> QED
          BY <4>1, <4>2, <4>4
      <3>3. BackTo(buf, at, n) # -1 /\ BackTo(buf, at, n + 1) = BackTo(buf, at, n)
        <4>1. at[Min(J)] \in Nat
          BY <1>1, <3>1
        <4>2. at[Min(J)] + 2 # -1
          BY <4>1
        <4> QED
          BY <2>2, <2>5, <3>2, <4>2 DEF BackTo, J, K
      <3> QED
        BY <3>3
    <2> QED
      BY <2>4, <2>5
  <1> QED
    BY <1>2, <1>3

LEMMA OutsideStays ==
  ASSUME NEW buf \in Octets, NEW off \in Nat, NEW n \in Nat,
         Path(buf, off)[n] \notin 0..(Len(buf) - 1)
  PROVE  \A m \in Nat : n <= m => Path(buf, off)[m] \notin 0..(Len(buf) - 1)
  <1> DEFINE at == Path(buf, off)
             G == {d \in Nat : at[n + d] \notin 0..(Len(buf) - 1)}
  <1>1. Len(buf) \in Nat
    BY DEF Octets
  <1>2. \A m \in Nat : at[m] \in Nat /\ at[m + 1] = Follow(buf, at[m])
    BY PathRuns
  <1> HIDE DEF at
  <1>3. 0 \in G
    <2>1. n + 0 = n
      OBVIOUS
    <2> QED
      BY <2>1 DEF at
  <1>4. ASSUME NEW d \in Nat, d \in G PROVE d + 1 \in G
    <2>1. n + d \in Nat /\ n + (d + 1) = (n + d) + 1
      OBVIOUS
    <2>2. at[(n + d) + 1] = Len(buf)
      BY <1>2, <1>4, <2>1 DEF Follow
    <2> QED
      BY <1>1, <2>1, <2>2
  <1>5. \A d \in Nat : d \in G
    <2> HIDE DEF G
    <2> QED
      BY <1>3, <1>4, Induction
  <1>6. ASSUME NEW m \in Nat, n <= m PROVE at[m] \notin 0..(Len(buf) - 1)
    <2>1. m - n \in Nat /\ n + (m - n) = m
      BY <1>6
    <2>2. m - n \in G
      BY <1>5, <2>1
    <2> QED
      BY <2>1, <2>2
  <1> QED
    BY <1>6 DEF at

LEMMA PathRepeats ==
  ASSUME NEW buf \in Octets, NEW off \in Nat, NEW i \in Nat, NEW j \in Nat,
         Path(buf, off)[i] = Path(buf, off)[j]
  PROVE  \A d \in Nat : Path(buf, off)[i + d] = Path(buf, off)[j + d]
  <1> DEFINE at == Path(buf, off)
             G == {d \in Nat : at[i + d] = at[j + d]}
  <1>1. \A m \in Nat : at[m + 1] = Follow(buf, at[m])
    BY PathRuns
  <1> HIDE DEF at
  <1>2. 0 \in G
    <2>1. i + 0 = i /\ j + 0 = j
      OBVIOUS
    <2> QED
      BY <2>1 DEF at
  <1>3. ASSUME NEW d \in Nat, d \in G PROVE d + 1 \in G
    <2>1. /\ i + d \in Nat /\ i + (d + 1) = (i + d) + 1
          /\ j + d \in Nat /\ j + (d + 1) = (j + d) + 1
      OBVIOUS
    <2>2. at[(i + d) + 1] = Follow(buf, at[i + d]) /\ at[(j + d) + 1] = Follow(buf, at[j + d])
      BY <1>1, <2>1
    <2>3. at[i + d] = at[j + d]
      BY <1>3
    <2> QED
      BY <2>1, <2>2, <2>3
  <1>4. \A d \in Nat : d \in G
    <2> HIDE DEF G
    <2> QED
      BY <1>2, <1>3, Induction
  <1> QED
    BY <1>4 DEF at

\* A path that comes to a zero does not come to a place twice before, so there are no
\* more steps to it than octets.
LEMMA ZeroIsNear ==
  ASSUME NEW buf \in Octets, NEW off \in Nat, NEW n \in Nat, Clear(buf, Path(buf, off), n),
         Path(buf, off)[n] \in 0..(Len(buf) - 1), Octet(buf, Path(buf, off)[n]) = 0
  PROVE  n < Len(buf)
  <1> DEFINE at == Path(buf, off)
             Place == 0..(Len(buf) - 1)
             f == [i \in 0..n |-> at[i]]
  <1>1. Len(buf) \in Nat
    BY DEF Octets
  <1>2. \A i \in 0..(n - 1) : at[i] \in Place /\ Octet(buf, at[i]) # 0
    BY DEF Clear
  <1>3. at[n] \in Place /\ Octet(buf, at[n]) = 0
    OBVIOUS
  <1>4. \A i, j \in Nat : at[i] = at[j] => \A d \in Nat : at[i + d] = at[j + d]
    BY PathRepeats
  <1> HIDE DEF at
  <1>5. ASSUME NEW i \in 0..n, NEW j \in 0..n, i < j, at[i] = at[j] PROVE FALSE
    <2>1. /\ i \in Nat /\ j \in Nat /\ n - j \in Nat
          /\ j + (n - j) = n /\ i + (n - j) \in 0..(n - 1)
      BY <1>5
    <2> DEFINE d == n - j
    <2> HIDE DEF d
    <2>2. at[i + d] = at[j + d]
      BY <1>4, <1>5, <2>1 DEF d
    <2>3. at[i + (n - j)] = at[n]
      BY <2>1, <2>2 DEF d
    <2> QED
      BY <1>2, <1>3, <2>1, <2>3
  <1>6. SUFFICES ASSUME Len(buf) <= n PROVE FALSE
    BY <1>1
  <1>7. f \in [0..n -> Place]
    <2>1. \A i \in 0..n : i \in 0..(n - 1) \/ i = n
      OBVIOUS
    <2> HIDE DEF Place
    <2> QED
      BY <1>2, <1>3, <2>1
  <1>8. /\ IsFiniteSet(0..n) /\ Cardinality(0..n) = n + 1
        /\ IsFiniteSet(Place) /\ Cardinality(Place) = Len(buf)
    <2> DEFINE m == Len(buf)
    <2>1. m \in Nat /\ Place = 0..(m - 1)
      BY <1>1
    <2> HIDE DEF m, Place
    <2>2. IsFiniteSet(0..n) /\ Cardinality(0..n) = n + 1
      BY FS_Interval
    <2>3. IsFiniteSet(0..(m - 1)) /\ Cardinality(0..(m - 1)) = m
      BY <2>1, FS_Interval
    <2> QED
      BY <2>1, <2>2, <2>3 DEF m
  <1>9. Cardinality(Place) < Cardinality(0..n)
    BY <1>1, <1>6, <1>8
  <1>10. PICK i, j \in 0..n : i # j /\ f[i] = f[j]
    <2> HIDE DEF f, Place
    <2> QED
      BY <1>7, <1>8, <1>9, FS_PigeonHole
  <1>11. i < j \/ j < i
    BY <1>10
  <1> QED
    BY <1>5, <1>10, <1>11

\* What the path says the outcome is, when the loop is over.
FoundBy(buf, at, out) ==
  \E n \in Nat :
    /\ Clear(buf, at, n) /\ at[n] \in 0..(Len(buf) - 1) /\ Octet(buf, at[n]) = 0
    /\ Cardinality(JumpsTo(buf, at, n)) <= MaxJumps
    /\ out = OkAt(Join(LabelsTo(buf, at, n)),
                  IF BackTo(buf, at, n) = -1 THEN at[n] + 1 ELSE BackTo(buf, at, n))

StuckBy(buf, at, out) ==
  /\ out = Fails
  /\ \E n \in Nat :
       /\ Clear(buf, at, n)
       /\ \/ at[n] \notin 0..(Len(buf) - 1)
          \/ /\ at[n] \in 0..(Len(buf) - 1) /\ Octet(buf, at[n]) # 0
             /\ IsPointer(Octet(buf, at[n]))
             /\ Cardinality(JumpsTo(buf, at, n)) = MaxJumps

\* The loop is where the path is, until it is over.
GoesAlong(buf, at, k, s) ==
  /\ Clear(buf, at, k)
  /\ s.cur = at[k]
  /\ s.jumps = Cardinality(JumpsTo(buf, at, k)) /\ s.jumps <= MaxJumps
  /\ s.origOff = BackTo(buf, at, k)
  /\ s.labels = LabelsTo(buf, at, k)

LEMMA PassAlong ==
  ASSUME NEW buf \in Octets, NEW off \in Nat, NEW k \in Nat, NEW s \in NameStates(buf),
         ~s.over, GoesAlong(buf, Path(buf, off), k, s)
  PROVE  LET t == NamePass(buf, s) IN
         IF t.over THEN FoundBy(buf, Path(buf, off), t.out) \/ StuckBy(buf, Path(buf, off), t.out)
         ELSE GoesAlong(buf, Path(buf, off), k + 1, t)
  <1> DEFINE at == Path(buf, off)
             t == NamePass(buf, s)
             o == Octet(buf, at[k])
             Place == 0..(Len(buf) - 1)
  <1>1. /\ \A n \in Nat : at[n] \in Nat /\ at[n + 1] = Follow(buf, at[n])
        /\ Len(buf) \in Nat
    <2>1. \A n \in Nat : at[n] \in Nat /\ at[n + 1] = Follow(buf, at[n])
      BY PathRuns
    <2>2. Len(buf) \in Nat
      BY DEF Octets
    <2> HIDE DEF at
    <2> QED
      BY <2>1, <2>2
  <1>2. /\ Clear(buf, at, k) /\ s.cur = at[k]
        /\ s.jumps = Cardinality(JumpsTo(buf, at, k)) /\ s.jumps <= MaxJumps
        /\ s.origOff = BackTo(buf, at, k) /\ s.labels = LabelsTo(buf, at, k)
    BY DEF GoesAlong
  <1> HIDE DEF at
  <1>3. CASE at[k] \notin Place
    <2>1. t.over /\ t.out = Fails
      BY <1>2, <1>3, PassCases
    <2>2. StuckBy(buf, at, t.out)
      BY <1>2, <1>3, <2>1 DEF StuckBy
    <2> QED
      BY <2>1, <2>2 DEF at
  <1>4. CASE at[k] \in Place /\ o = 0
    <2>1. t.over /\ t.out = OkAt(Join(s.labels), IF s.origOff = -1 THEN s.cur + 1 ELSE s.origOff)
      BY <1>2, <1>4, PassCases
    <2>2. FoundBy(buf, at, t.out)
      BY <1>2, <1>4, <2>1 DEF FoundBy
    <2> QED
      BY <2>1, <2>2 DEF at
  <1>5. ASSUME at[k] \in Place, o # 0 PROVE Clear(buf, at, k + 1)
    <2>1. 0..((k + 1) - 1) = (0..(k - 1)) \union {k}
      OBVIOUS
    <2> QED
      BY <1>2, <1>5, <2>1 DEF Clear
  <1>6. k + 1 \in Nat
    OBVIOUS
  <1>7. CASE at[k] \in Place /\ o # 0 /\ IsPointer(o)
    <2>1. \/ /\ s.cur + 1 \notin Place \/ s.jumps = MaxJumps
             /\ t.over /\ t.out = Fails
          \/ /\ s.cur + 1 \in Place /\ s.jumps # MaxJumps
             /\ ~t.over /\ t.cur = PointerTarget(buf, s.cur) /\ t.jumps = s.jumps + 1
             /\ t.origOff = IF s.origOff = -1 THEN s.cur + 2 ELSE s.origOff
             /\ t.labels = s.labels
      BY <1>2, <1>7, PassCases
    <2>2. CASE s.jumps = MaxJumps
      <3>1. t.over /\ t.out = Fails
        BY <2>1, <2>2
      <3>2. StuckBy(buf, at, t.out)
        BY <1>2, <1>7, <2>2, <3>1 DEF StuckBy
      <3> QED
        BY <3>1, <3>2 DEF at
    <2>3. CASE s.cur + 1 \notin Place
      <3>1. t.over /\ t.out = Fails
        BY <2>1, <2>3
      <3>2. at[k + 1] = Len(buf)
        BY <1>1, <1>2, <1>7, <2>3 DEF Follow
      <3>3. at[k + 1] \notin Place
        BY <1>1, <3>2
      <3>4. StuckBy(buf, at, t.out)
        BY <1>5, <1>6, <1>7, <3>1, <3>3 DEF StuckBy
      <3> QED
        BY <3>1, <3>4 DEF at
    <2>4. CASE s.cur + 1 \in Place /\ s.jumps # MaxJumps
      <3>1. /\ ~t.over /\ t.cur = PointerTarget(buf, s.cur) /\ t.jumps = s.jumps + 1
            /\ t.origOff = IF s.origOff = -1 THEN s.cur + 2 ELSE s.origOff
            /\ t.labels = s.labels
        BY <2>1, <2>4
      <3>2. t.cur = at[k + 1]
        BY <1>1, <1>2, <1>7, <2>4, <3>1 DEF Follow
      <3>3. t.jumps = Cardinality(JumpsTo(buf, at, k + 1)) /\ t.jumps <= MaxJumps
        <4>1. t.jumps = Cardinality(JumpsTo(buf, at, k + 1))
          BY <1>2, <1>7, <3>1, JumpsStep
        <4>2. s.jumps \in Nat /\ MaxJumps \in Nat
          BY JumpsAssumption DEF NameStates
        <4> QED
          BY <1>2, <2>4, <3>1, <4>1, <4>2
      <3>4. t.origOff = BackTo(buf, at, k + 1)
        <4>1. BackTo(buf, at, k + 1) = IF BackTo(buf, at, k) # -1 THEN BackTo(buf, at, k)
                                       ELSE at[k] + 2
          <5>1. \A i \in Nat : at[i] \in Nat
            BY <1>1
          <5> QED
            BY <1>7, <5>1, BackStep
        <4> QED
          BY <1>2, <3>1, <4>1
      <3>5. t.labels = LabelsTo(buf, at, k + 1)
        BY <1>2, <1>7, <3>1, LabelsStep
      <3>6. GoesAlong(buf, at, k + 1, t)
        BY <1>5, <1>7, <3>2, <3>3, <3>4, <3>5 DEF GoesAlong
      <3> QED
        BY <3>1, <3>6 DEF at
    <2> QED
      BY <2>2, <2>3, <2>4
  <1>8. CASE at[k] \in Place /\ o # 0 /\ ~IsPointer(o)
    <2>1. \/ s.cur + 1 + o > Len(buf) /\ t.over /\ t.out = Fails
          \/ /\ s.cur + 1 + o <= Len(buf)
             /\ ~t.over /\ t.cur = s.cur + 1 + o /\ t.jumps = s.jumps
             /\ t.origOff = s.origOff
             /\ t.labels = Append(s.labels, Slice(buf, s.cur + 1, s.cur + 1 + o))
      BY <1>2, <1>8, PassCases
    <2>2. at[k + 1] = at[k] + 1 + o
      BY <1>1, <1>8 DEF Follow
    <2>3. CASE s.cur + 1 + o > Len(buf) /\ t.over /\ t.out = Fails
      <3>1. at[k + 1] \notin Place
        <4> DEFINE q == at[k + 1]
        <4>1. q \in Nat /\ q > Len(buf)
          BY <1>1, <1>2, <1>6, <2>2, <2>3
        <4> HIDE DEF q
        <4>2. q \notin Place
          BY <1>1, <4>1
        <4> QED
          BY <4>2 DEF q
      <3>2. StuckBy(buf, at, t.out)
        BY <1>5, <1>6, <1>8, <2>3, <3>1 DEF StuckBy
      <3> QED
        BY <2>3, <3>2 DEF at
    <2>4. CASE /\ ~t.over /\ t.cur = s.cur + 1 + o /\ t.jumps = s.jumps
               /\ t.origOff = s.origOff
               /\ t.labels = Append(s.labels, Slice(buf, s.cur + 1, s.cur + 1 + o))
      <3>1. t.cur = at[k + 1]
        BY <1>2, <2>2, <2>4
      <3>2. t.jumps = Cardinality(JumpsTo(buf, at, k + 1)) /\ t.jumps <= MaxJumps
        BY <1>2, <1>8, <2>4, JumpsStep
      <3>3. t.origOff = BackTo(buf, at, k + 1)
        <4>1. \A i \in Nat : at[i] \in Nat
          BY <1>1
        <4> QED
          BY <1>2, <1>8, <2>4, <4>1, BackStep
      <3>4. t.labels = LabelsTo(buf, at, k + 1)
        BY <1>2, <1>8, <2>2, <2>4, LabelsStep
      <3>5. GoesAlong(buf, at, k + 1, t)
        BY <1>5, <1>8, <3>1, <3>2, <3>3, <3>4 DEF GoesAlong
      <3> QED
        BY <2>4, <3>5 DEF at
    <2> QED
      BY <2>1, <2>3, <2>4
  <1> QED
    BY <1>3, <1>4, <1>7, <1>8

\* So the outcome is the path's.
LEMMA ReadNameOutcome ==
  ASSUME NEW buf \in Octets, NEW off \in 0..Len(buf)
  PROVE  \/ FoundBy(buf, Path(buf, off), ReadName(buf, off))
         \/ StuckBy(buf, Path(buf, off), ReadName(buf, off))
  <1> DEFINE at == Path(buf, off)
             s == NameLoop(buf, off)
             Settled(out) == FoundBy(buf, at, out) \/ StuckBy(buf, at, out)
             G == {k \in Nat : IF s[k].over THEN Settled(s[k].out) ELSE GoesAlong(buf, at, k, s[k])}
  <1>1. off \in Nat /\ Len(buf) \in Nat
    BY DEF Octets
  <1>2. /\ s[0] = NameBegins(off)
        /\ \A k \in Nat : s[k] \in NameStates(buf) /\ s[k + 1] = NamePass(buf, s[k])
    BY <1>1, NameLoopRuns
  <1>3. at[0] = off
    BY <1>1, PathRuns
  <1>4. ASSUME NEW k \in Nat, NEW x \in NameStates(buf), ~x.over, GoesAlong(buf, at, k, x)
        PROVE  IF NamePass(buf, x).over THEN Settled(NamePass(buf, x).out)
               ELSE GoesAlong(buf, at, k + 1, NamePass(buf, x))
    BY <1>1, <1>4, PassAlong
  <1>5. \E pass \in 0..MaxPasses(buf) : s[pass].over
    BY NameLoopEnds
  <1> DEFINE last == CHOOSE pass \in 0..MaxPasses(buf) : s[pass].over
  <1>6. ReadName(buf, off) = s[last].out /\ last \in Nat /\ s[last].over
    <2>1. last \in 0..MaxPasses(buf) /\ s[last].over
      BY <1>5
    <2> QED
      BY <2>1 DEF ReadName
  <1> HIDE DEF at, s, last, Settled
  <1>7. 0 \in G
    <2>1. /\ s[0].cur = off /\ s[0].jumps = 0 /\ s[0].origOff = -1 /\ s[0].labels = <<>>
          /\ s[0].over = FALSE
      BY <1>2 DEF NameBegins
    <2>2. 0..(0 - 1) = {} /\ 1..0 = {}
      OBVIOUS
    <2>3. JumpsTo(buf, at, 0) = {} /\ StepsTo(buf, at, 0) = {} /\ Clear(buf, at, 0)
      BY <2>2 DEF JumpsTo, StepsTo, Clear
    <2>4. BackTo(buf, at, 0) = -1 /\ Cardinality(JumpsTo(buf, at, 0)) = 0
      BY <2>3, FS_EmptySet DEF BackTo
    <2>5. LabelsTo(buf, at, 0) = <<>>
      <3>1. Ascending({}) \in [1..0 -> {}]
        <4>1. {} \in SUBSET (1..0) /\ Cardinality({}) = 0
          BY FS_EmptySet
        <4>2. Ascending({}) \in [1..Cardinality({}) -> {}]
          BY <4>1, AscendingSorts
        <4> QED
          BY <4>1, <4>2
      <3>2. DOMAIN Ascending({}) = {}
        BY <2>2, <3>1
      <3>3. DOMAIN LabelsTo(buf, at, 0) = {}
        BY <2>3, <3>2 DEF LabelsTo
      <3>4. LabelsTo(buf, at, 0) = [i \in 1..0 |-> 0]
        BY <2>2, <2>3, <3>2 DEF LabelsTo
      <3>5. <<>> = [i \in 1..0 |-> 0]
        OBVIOUS
      <3> QED
        BY <3>4, <3>5
    <2>6. GoesAlong(buf, at, 0, s[0])
      BY <1>3, <2>1, <2>3, <2>4, <2>5, JumpsAssumption DEF GoesAlong
    <2> QED
      BY <2>1, <2>6
  <1>8. ASSUME NEW k \in Nat, k \in G PROVE k + 1 \in G
    <2>1. s[k] \in NameStates(buf) /\ s[k + 1] = NamePass(buf, s[k])
      BY <1>2
    <2>2. CASE s[k].over
      <3>1. s[k + 1] = s[k]
        BY <2>1, <2>2, PassCases
      <3> QED
        BY <1>8, <2>2, <3>1
    <2>3. CASE ~s[k].over
      BY <1>4, <1>8, <2>1, <2>3
    <2> QED
      BY <2>2, <2>3
  <1>9. \A k \in Nat : k \in G
    <2> HIDE DEF G
    <2> QED
      BY <1>7, <1>8, Induction
  <1>10. Settled(s[last].out)
    BY <1>6, <1>9
  <1> QED
    BY <1>6, <1>10 DEF at, Settled

\* Each of them is what the property says: a zero is found if and only if the path
\* comes to one over at most MaxJumps pointers.
LEMMA NameIsRead ==
  ASSUME NEW buf \in Octets, NEW off \in 0..Len(buf)
  PROVE  LET at == Path(buf, off)
             Zeros == {n \in 0..Len(buf) : at[n] \in 0..(Len(buf) - 1) /\ Octet(buf, at[n]) = 0}
             n0 == Min(Zeros)
             Jumps == JumpsTo(buf, at, n0)
         IN  IF Zeros = {} \/ Cardinality(Jumps) > MaxJumps THEN ReadName(buf, off) = Fails
             ELSE ReadName(buf, off) =
                    OkAt(Join(LabelsTo(buf, at, n0)),
                         IF Jumps = {} THEN at[n0] + 1 ELSE at[Min(Jumps)] + 2)
  <1> DEFINE at == Path(buf, off)
             r == ReadName(buf, off)
             Place == 0..(Len(buf) - 1)
             Zeros == {n \in 0..Len(buf) : at[n] \in Place /\ Octet(buf, at[n]) = 0}
             n0 == Min(Zeros)
             J(n) == JumpsTo(buf, at, n)
  <1>1. off \in Nat /\ Len(buf) \in Nat
    BY DEF Octets
  <1>2. \A n \in Nat : at[n] \in Nat
    BY <1>1, PathRuns
  <1>3. FoundBy(buf, at, r) \/ StuckBy(buf, at, r)
    BY ReadNameOutcome
  <1>4. ASSUME NEW n \in Nat, Clear(buf, at, n), at[n] \in Place, Octet(buf, at[n]) = 0
        PROVE  n < Len(buf)
    BY <1>1, <1>4, ZeroIsNear
  <1>5. ASSUME NEW n \in Nat, at[n] \notin Place
        PROVE  \A m \in Nat : n <= m => at[m] \notin Place
    BY <1>1, <1>5, OutsideStays
  <1> HIDE DEF at, r
  <1>6. Zeros \in SUBSET Nat /\ \A z \in Zeros : at[z] \in Place /\ Octet(buf, at[z]) = 0
    BY <1>1
  <1>7. Zeros # {} => n0 \in Zeros /\ \A z \in Zeros : n0 <= z
    <2> HIDE DEF Zeros
    <2> QED
      BY <1>6, MinOfNats
  <1>8. ASSUME NEW n \in Nat, Clear(buf, at, n), NEW z \in Zeros PROVE n <= z
    <2>1. z \in Nat /\ Octet(buf, at[z]) = 0
      BY <1>6
    <2>2. z \notin 0..(n - 1)
      BY <1>8, <2>1 DEF Clear
    <2> QED
      BY <2>1, <2>2
  <1>9. CASE FoundBy(buf, at, r)
    <2>1. PICK n \in Nat :
            /\ Clear(buf, at, n) /\ at[n] \in Place /\ Octet(buf, at[n]) = 0
            /\ Cardinality(J(n)) <= MaxJumps
            /\ r = OkAt(Join(LabelsTo(buf, at, n)),
                        IF BackTo(buf, at, n) = -1 THEN at[n] + 1 ELSE BackTo(buf, at, n))
      BY <1>9 DEF FoundBy
    <2>2. n \in Zeros
      BY <1>1, <1>4, <2>1
    <2>3. n0 = n
      <3>1. n0 \in Zeros /\ n0 <= n
        BY <1>7, <2>2
      <3>2. n <= n0
        BY <1>8, <2>1, <3>1
      <3>3. n0 \in Nat
        BY <1>6, <3>1
      <3> HIDE DEF n0
      <3> QED
        BY <3>1, <3>2, <3>3
    <2>4. IF J(n) = {} THEN BackTo(buf, at, n) = -1
          ELSE BackTo(buf, at, n) = at[Min(J(n))] + 2 /\ BackTo(buf, at, n) # -1
      <3>1. CASE J(n) = {}
        BY <3>1 DEF BackTo
      <3>2. CASE J(n) # {}
        <4>1. J(n) \in SUBSET Nat
          BY DEF JumpsTo
        <4>2. Min(J(n)) \in Nat
          BY <3>2, <4>1, MinOfNats
        <4>3. at[Min(J(n))] \in Nat
          BY <1>2, <4>2
        <4>4. at[Min(J(n))] + 2 # -1
          BY <4>3
        <4> QED
          BY <3>2, <4>4 DEF BackTo
      <3> QED
        BY <3>1, <3>2
    <2>5. r = OkAt(Join(LabelsTo(buf, at, n)),
                   IF J(n) = {} THEN at[n] + 1 ELSE at[Min(J(n))] + 2)
      BY <2>1, <2>4
    <2>6. ~ (Cardinality(J(n)) > MaxJumps)
      <3>1. Cardinality(J(n)) \in Nat
        BY JumpsStep
      <3> QED
        BY <2>1, <3>1, JumpsAssumption
    <2> HIDE DEF Zeros, n0, J
    <2>7. Zeros # {} /\ ~ (Cardinality(J(n0)) > MaxJumps)
      BY <2>2, <2>3, <2>6
    <2>8. r = OkAt(Join(LabelsTo(buf, at, n0)),
                   IF J(n0) = {} THEN at[n0] + 1 ELSE at[Min(J(n0))] + 2)
      BY <2>3, <2>5
    <2> QED
      BY <2>7, <2>8 DEF Zeros, n0, J, at, r
  <1>10. CASE StuckBy(buf, at, r)
    <2>1. r = Fails
      BY <1>10 DEF StuckBy
    <2>2. PICK n \in Nat :
            /\ Clear(buf, at, n)
            /\ \/ at[n] \notin Place
               \/ /\ at[n] \in Place /\ Octet(buf, at[n]) # 0
                  /\ IsPointer(Octet(buf, at[n]))
                  /\ Cardinality(J(n)) = MaxJumps
      BY <1>10 DEF StuckBy
    <2>3. Zeros = {} \/ Cardinality(J(n0)) > MaxJumps
      <3> SUFFICES ASSUME Zeros # {} PROVE Cardinality(J(n0)) > MaxJumps
        OBVIOUS
      <3>1. n0 \in Zeros /\ n <= n0
        BY <1>7, <1>8, <2>2
      <3>2. n0 \in Nat /\ at[n0] \in Place /\ Octet(buf, at[n0]) = 0
        BY <1>6, <3>1
      <3>3. at[n] \in Place
        BY <1>5, <3>1, <3>2
      <3>4. IsPointer(Octet(buf, at[n])) /\ Cardinality(J(n)) = MaxJumps /\ n # n0
        BY <2>2, <3>2, <3>3
      <3> DEFINE m == n0
      <3>5. m \in Nat /\ n <= m /\ n # m
        BY <3>1, <3>2, <3>4
      <3> HIDE DEF m, n0, Zeros
      <3>6. Cardinality(J(n + 1)) = MaxJumps + 1
        BY <3>4, JumpsStep
      <3>7. J(n + 1) \subseteq J(m)
        <4>1. \A i \in 0..((n + 1) - 1) : i \in 0..(m - 1)
          BY <3>5
        <4> QED
          BY <4>1 DEF JumpsTo
      <3>8. IsFiniteSet(J(m)) /\ Cardinality(J(m)) \in Nat
        BY <3>5, JumpsStep
      <3>9. Cardinality(J(n + 1)) <= Cardinality(J(m))
        <4> HIDE DEF J
        <4> QED
          BY <3>7, <3>8, FS_Subset
      <3> HIDE DEF J
      <3>10. Cardinality(J(m)) > MaxJumps
        BY <3>6, <3>8, <3>9, JumpsAssumption
      <3> QED
        BY <3>10 DEF m
    <2> QED
      BY <2>1, <2>3 DEF at, r
  <1> QED
    BY <1>3, <1>9, <1>10

\* A name is read if and only if following its octets by hand comes to an end over at
\* most MaxJumps pointers, as what is passed, and the next field is after the first
\* pointer; whatever the octets are, a loop of pointers included (wire.go:379-422).
THEOREM NamesArePaths == Spec => []NameIsPath
  <1>1. Init => NameIsPath
    BY DEF Init, NameIsPath
  <1>2. NameIsPath /\ [Next]_vars => NameIsPath'
    <2> SUFFICES ASSUME NameIsPath, [Next]_vars PROVE NameIsPath'
      OBVIOUS
    <2>1. CASE DecodeName
      <3>1. PICK buf \in Buffers : \E off \in 0..Len(buf) :
              /\ call' = [op |-> "readName", buf |-> buf, off |-> off]
              /\ result' = ReadName(buf, off)
        BY <2>1 DEF DecodeName, Called
      <3>2. PICK off \in 0..Len(buf) :
              /\ call' = [op |-> "readName", buf |-> buf, off |-> off]
              /\ result' = ReadName(buf, off)
        BY <3>1
      <3> DEFINE b == call'.buf
                 o == call'.off
                 at == Path(b, o)
                 Zeros == {n \in 0..Len(b) : at[n] \in 0..(Len(b) - 1) /\ Octet(b, at[n]) = 0}
                 n0 == Min(Zeros)
                 Jumps == JumpsTo(b, at, n0)
      <3>3. b = buf /\ o = off
        BY <3>2
      <3> HIDE DEF b, o
      <3>4. b \in Octets /\ o \in 0..Len(b) /\ result' = ReadName(b, o)
        BY <3>2, <3>3, InputsAssumption DEF Octets
      <3>5. IF Zeros = {} \/ Cardinality(Jumps) > MaxJumps THEN ReadName(b, o) = Fails
            ELSE ReadName(b, o) = OkAt(Join(LabelsTo(b, at, n0)),
                                       IF Jumps = {} THEN at[n0] + 1 ELSE at[Min(Jumps)] + 2)
        BY <3>4, NameIsRead
      <3> HIDE DEF at, Zeros, n0
      <3>6. IF Zeros = {} \/ Cardinality(Jumps) > MaxJumps THEN result' = Fails
            ELSE result' = [ok |-> TRUE, val |-> Join(LabelsTo(b, at, n0)),
                            after |-> IF Jumps = {} THEN at[n0] + 1 ELSE at[Min(Jumps)] + 2]
        BY <3>4, <3>5 DEF OkAt
      <3> QED
        BY <3>6, Zenon DEF NameIsPath, LabelsTo, StepsTo, JumpsTo, at, Zeros, n0, b, o
    <2>2. CASE UNCHANGED <<call, result>>
      BY <2>2 DEF NameIsPath
    <2> QED
      BY <2>1, <2>2, Calls DEF NameIsPath
  <1> QED
    BY <1>1, <1>2, PTL DEF Spec

------------------------------------------------------------------------------
(* Messages. *)

\* s is what buf has from off on.
Stands(s, buf, off) ==
  /\ off \in Nat /\ off + Len(s) <= Len(buf)
  /\ \A k \in 1..Len(s) : buf[off + k] = s[k]

\* What stands somewhere does so part by part.
LEMMA StandsInParts ==
  ASSUME NEW T, NEW s \in Seq(T), NEW t \in Seq(T), NEW buf \in Seq(T), NEW off,
         Stands(s \o t, buf, off)
  PROVE  /\ Stands(s, buf, off) /\ Stands(t, buf, off + Len(s))
         /\ s \o t \in Seq(T) /\ Len(s \o t) = Len(s) + Len(t)
  <1> DEFINE w == s \o t
             m == Len(s)
             l == Len(t)
             b == Len(buf)
  <1>1. /\ w \in Seq(T) /\ m \in Nat /\ l \in Nat /\ Len(w) = m + l /\ b \in Nat
        /\ \A k \in 1..m : w[k] = s[k]
        /\ \A k \in 1..l : w[m + k] = t[k]
    OBVIOUS
  <1>2. off \in Nat /\ off + Len(w) <= b /\ \A k \in 1..Len(w) : buf[off + k] = w[k]
    BY DEF Stands
  <1> HIDE DEF w, m, l, b
  <1>3. off + m <= b /\ \A k \in 1..m : buf[off + k] = w[k]
    BY <1>1, <1>2
  <1>4. off + m \in Nat /\ (off + m) + l <= b
    BY <1>1, <1>2
  <1>5. \A k \in 1..l : buf[(off + m) + k] = w[m + k]
    <2> SUFFICES ASSUME NEW k \in 1..l PROVE buf[(off + m) + k] = w[m + k]
      OBVIOUS
    <2>1. m + k \in 1..Len(w) /\ (off + m) + k = off + (m + k)
      BY <1>1, <1>2
    <2> QED
      BY <1>2, <2>1
  <1>6. Stands(s, buf, off)
    BY <1>1, <1>2, <1>3 DEF Stands, m, b
  <1>7. Stands(t, buf, off + m)
    BY <1>1, <1>4, <1>5 DEF Stands, l, b
  <1> QED
    BY <1>1, <1>6, <1>7 DEF w, m, l

\* E is where each of the parts ends.
LaidOut(E, parts, n, buf, off) ==
  /\ E \in [0..n -> Nat] /\ E[0] = 0 /\ E[n] = Len(FlattenSeq(parts))
  /\ \A i \in 1..n : E[i] = E[i - 1] + Len(parts[i]) /\ Stands(parts[i], buf, off + E[i - 1])

LEMMA FlatIsLaidOut ==
  ASSUME NEW T, NEW n \in Nat, NEW parts \in [1..n -> Seq(T)], NEW buf \in Seq(T), NEW off,
         Stands(FlattenSeq(parts), buf, off)
  PROVE  FlattenSeq(parts) \in Seq(T) /\ \E E : LaidOut(E, parts, n, buf, off)
  <1>1. CASE n = 0
    <2>1. parts = <<>> /\ Len(parts) = 0
      BY <1>1
    <2>2. FlattenSeq(parts) = <<>>
      BY <2>1 DEF FlattenSeq
    <2> DEFINE E == [i \in 0..n |-> 0]
    <2>3. E \in [0..n -> Nat] /\ E[0] = 0 /\ E[n] = 0
      BY <1>1
    <2>4. LaidOut(E, parts, n, buf, off)
      BY <1>1, <2>2, <2>3 DEF LaidOut
    <2> QED
      BY <2>2, <2>4
  <1>2. CASE n # 0
    <2> DEFINE args == FlattenSeq(parts)
    <2>1. args \in Seq(T) /\ \E E : Places(E, parts, n, args)
      BY <1>2, FlattenPlaces
    <2>2. PICK E : Places(E, parts, n, args)
      BY <2>1
    <2> HIDE DEF args
    <2>3. E \in [0..n -> Nat] /\ E[0] = 0 /\ E[n] = Len(args)
      BY <2>2 DEF Places
    <2>4. off \in Nat /\ off + Len(args) <= Len(buf) /\ \A k \in 1..Len(args) : buf[off + k] = args[k]
      BY DEF Stands, args
    <2>5. \A j \in 0..n : E[j] <= E[n]
      <3> DEFINE G == {k \in Nat : k <= n => E[n - k] <= E[n]}
      <3>1. 0 \in G
        <4>1. n - 0 = n /\ n \in 0..n
          OBVIOUS
        <4>2. E[n] \in Nat
          BY <2>3, <4>1
        <4> QED
          BY <4>1, <4>2
      <3>2. ASSUME NEW k \in Nat, k \in G PROVE k + 1 \in G
        <4> SUFFICES ASSUME k + 1 <= n PROVE E[n - (k + 1)] <= E[n]
          OBVIOUS
        <4>1. n - k \in 1..n /\ (n - k) - 1 = n - (k + 1) /\ n - (k + 1) \in 0..n /\ n \in 0..n
          OBVIOUS
        <4>2. E[n - k] = E[n - (k + 1)] + Len(parts[n - k]) /\ Len(parts[n - k]) \in Nat
          BY <2>2, <4>1 DEF Places
        <4>3. E[n - (k + 1)] \in Nat /\ E[n] \in Nat
          BY <2>3, <4>1
        <4>4. E[n - k] <= E[n]
          BY <3>2
        <4> QED
          BY <4>2, <4>3, <4>4
      <3>3. \A k \in Nat : k \in G
        <4> HIDE DEF G
        <4> QED
          BY <3>1, <3>2, Induction
      <3> SUFFICES ASSUME NEW j \in 0..n PROVE E[j] <= E[n]
        OBVIOUS
      <3>4. n - j \in Nat /\ n - j <= n /\ n - (n - j) = j
        OBVIOUS
      <3> QED
        BY <3>3, <3>4
    <2>6. ASSUME NEW i \in 1..n
          PROVE  E[i] = E[i - 1] + Len(parts[i]) /\ Stands(parts[i], buf, off + E[i - 1])
      <3> DEFINE u == parts[i]
                 d == E[i - 1]
                 l == Len(u)
                 b == Len(buf)
                 e == E[n]
      <3>1. E[i] = d + l /\ \A k \in 1..l : d + k \in 1..e /\ args[d + k] = u[k]
        BY <2>2 DEF Places
      <3>2. d \in Nat /\ e \in Nat /\ l \in Nat /\ b \in Nat /\ u \in Seq(T)
        <4>1. i - 1 \in 0..n /\ n \in 0..n
          OBVIOUS
        <4> QED
          BY <2>3, <4>1
      <3> HIDE DEF d, u, l, b, e
      <3>3. CASE l = 0
        <4>0. d <= e
          <5>1. E[i] = d
            BY <3>1, <3>2, <3>3
          <5>2. \A j \in 0..n : E[j] <= E[n]
            BY <2>5
          <5>3. i \in 0..n
            OBVIOUS
          <5> QED
            BY <5>1, <5>2, <5>3 DEF e
        <4>1. off + d \in Nat /\ (off + d) + l <= b
          BY <3>2, <3>3, <2>3, <2>4, <4>0 DEF e, b
        <4> QED
          BY <3>1, <3>3, <4>1 DEF Stands, d, u, l, b
      <3>4. CASE l # 0
        <4>1. l \in 1..l
          BY <3>2, <3>4
        <4>2. d + l <= e
          BY <3>1, <3>2, <4>1
        <4>3. off + d \in Nat /\ (off + d) + l <= b
          BY <3>2, <2>3, <2>4, <4>2 DEF e, b
        <4>4. \A k \in 1..l : buf[(off + d) + k] = u[k]
          <5> SUFFICES ASSUME NEW k \in 1..l PROVE buf[(off + d) + k] = u[k]
            OBVIOUS
          <5>1. d + k \in 1..e /\ args[d + k] = u[k] /\ (off + d) + k = off + (d + k)
            BY <2>4, <3>1, <3>2
          <5> QED
            BY <2>3, <2>4, <5>1 DEF e
        <4> QED
          BY <3>1, <4>3, <4>4 DEF Stands, d, u, l, b
      <3> QED
        BY <3>3, <3>4
    <2>7. LaidOut(E, parts, n, buf, off)
      BY <2>3, <2>6 DEF LaidOut, args
    <2> QED
      BY <2>1, <2>7 DEF args
  <1> QED
    BY <1>1, <1>2

LEMMA OctetParts ==
  ASSUME NEW s \in Octets, NEW t \in Octets
  PROVE  /\ s \o t \in Octets /\ Len(s \o t) = Len(s) + Len(t) /\ Len(s) \in Nat /\ Len(t) \in Nat
         /\ \A buf \in Octets : \A off : Stands(s \o t, buf, off) =>
              Stands(s, buf, off) /\ Stands(t, buf, off + Len(s))
  <1> DEFINE T == 0..255
  <1>1. s \in Seq(T) /\ t \in Seq(T)
    BY DEF Octets
  <1>2. Octets = Seq(T)
    BY DEF Octets
  <1> HIDE DEF T
  <1>3. s \o t \in Seq(T) /\ Len(s \o t) = Len(s) + Len(t) /\ Len(s) \in Nat /\ Len(t) \in Nat
    BY <1>1
  <1>4. ASSUME NEW buf \in Octets, NEW off, Stands(s \o t, buf, off)
        PROVE  Stands(s, buf, off) /\ Stands(t, buf, off + Len(s))
    BY <1>1, <1>2, <1>4, StandsInParts
  <1> QED
    BY <1>2, <1>3, <1>4

LEMMA NumbersStand ==
  ASSUME NEW m \in Word16, NEW buf, NEW off
  PROVE  /\ U16(m) \in Octets /\ Len(U16(m)) = 2
         /\ Stands(U16(m), buf, off) => U16At(buf, off) = m
  <1> DEFINE a == m \div 256
             b == m % 256
  <1>1. a \in 0..255 /\ b \in 0..255 /\ 256 * a + b = m
    BY DEF Word16
  <1>2. U16(m) = <<a, b>>
    BY DEF U16
  <1> HIDE DEF a, b
  <1>3. U16(m) \in Octets /\ Len(U16(m)) = 2
    BY <1>1, <1>2 DEF Octets
  <1>4. ASSUME Stands(U16(m), buf, off) PROVE U16At(buf, off) = m
    <2>1. off \in Nat /\ buf[off + 1] = a /\ buf[off + 2] = b
      BY <1>2, <1>4 DEF Stands
    <2>2. Octet(buf, off) = a /\ Octet(buf, off + 1) = b
      BY <2>1 DEF Octet
    <2> QED
      BY <1>1, <2>2 DEF U16At
  <1> QED
    BY <1>3, <1>4

LEMMA PairsStand ==
  ASSUME NEW m \in Word32, NEW buf \in Octets, NEW off
  PROVE  /\ U32(m) \in Octets /\ Len(U32(m)) = 4
         /\ Stands(U32(m), buf, off) => U32At(buf, off) = m
  <1>1. m[1] \in Word16 /\ m[2] \in Word16 /\ m = <<m[1], m[2]>>
    BY DEF Word32
  <1> DEFINE h == U16(m[1])
             l == U16(m[2])
  <1>2. h \in Octets /\ l \in Octets /\ Len(h) = 2 /\ Len(l) = 2
    BY <1>1, NumbersStand
  <1>3. U32(m) = h \o l
    BY DEF U32
  <1> HIDE DEF h, l
  <1>4. U32(m) \in Octets /\ Len(U32(m)) = 4
    <2>1. Len(h \o l) = Len(h) + Len(l) /\ h \o l \in Octets
      BY <1>2, OctetParts
    <2> QED
      BY <1>2, <1>3, <2>1
  <1>5. ASSUME Stands(U32(m), buf, off) PROVE U32At(buf, off) = m
    <2>1. Stands(h, buf, off) /\ Stands(l, buf, off + 2)
      <3>1. Stands(h \o l, buf, off)
        BY <1>3, <1>5
      <3>2. Stands(h, buf, off) /\ Stands(l, buf, off + Len(h))
        BY <1>2, <3>1, OctetParts
      <3> QED
        BY <1>2, <3>2
    <2>2. U16At(buf, off) = m[1] /\ U16At(buf, off + 2) = m[2]
      BY <1>1, <2>1, NumbersStand DEF h, l
    <2> QED
      BY <1>1, <2>2 DEF U32At
  <1> QED
    BY <1>4, <1>5

\* The pieces between the dots, joined by dots, are the name.
LEMMA JoinOfSplit ==
  ASSUME NEW name \in Octets
  PROVE  /\ SplitAtDots(name) \in Seq(Octets) /\ SplitAtDots(name) # <<>>
         /\ Join(SplitAtDots(name)) = name
  <1> DEFINE T == 0..255
             L == Len(name)
             S == {i \in DOMAIN name : name[i] = Dot} \union {L + 1}
             ends == Ascending(S)
             c == Cardinality(S)
             From(k) == IF k = 1 THEN 1 ELSE ends[k - 1] + 1
             labels == SplitAtDots(name)
             parts == [k \in 1..c |-> <<Dot>> \o labels[k]]
             flat == FlattenSeq(parts)
  <1>1. name \in Seq(T) /\ L \in Nat /\ DOMAIN name = 1..L /\ Dot \in T
    BY DEF Octets, Dot
  <1>2. S \in SUBSET (1..(L + 1)) /\ L + 1 \in S /\ \A x \in S : x <= L => name[x] = Dot
    BY <1>1
  <1>3. ends \in [1..c -> S] /\ Increasing(ends) /\ ToSet(ends) = S /\ c \in Nat
    <2> DEFINE n == L + 1
    <2> HIDE DEF S, L
    <2>1. n \in Nat /\ S \in SUBSET (1..n)
      BY <1>1, <1>2
    <2>2. IsFiniteSet(S)
      <3> HIDE DEF n
      <3> QED
        BY <2>1, SmallIsFinite
    <2> HIDE DEF n
    <2> QED
      BY <2>1, <2>2, AscendingSorts, FS_CardinalityType
  <1>4. labels = [k \in 1..c |-> SubSeq(name, From(k), ends[k] - 1)]
    <2>1. DOMAIN ends = 1..c
      BY <1>3
    <2> QED
      BY <2>1 DEF SplitAtDots
  <1> HIDE DEF L, S, ends, c, labels, T
  <1>5. c # 0
    <2>1. \E i \in 1..c : ends[i] = L + 1
      BY <1>2, <1>3 DEF ToSet
    <2> QED
      BY <1>3, <2>1
  <1>6. \A k \in 1..c : ends[k] \in 1..(L + 1) /\ \A j \in 1..c : j < k => ends[j] < ends[k]
    BY <1>2, <1>3 DEF Increasing
  <1>7. ends[c] = L + 1
    <2>1. PICK i \in 1..c : ends[i] = L + 1
      BY <1>2, <1>3 DEF ToSet
    <2>2. c \in 1..c /\ (i # c => i < c)
      BY <1>3, <1>5
    <2> QED
      BY <1>1, <1>6, <2>1, <2>2
  <1>8. ASSUME NEW k \in 1..c
        PROVE  /\ From(k) \in 1..ends[k] /\ labels[k] \in Seq(T)
               /\ Len(labels[k]) = ends[k] - From(k)
               /\ \A j \in 1..Len(labels[k]) : labels[k][j] = name[From(k) + j - 1]
    <2> DEFINE f == From(k)
               e == ends[k]
    <2>1. e \in 1..(L + 1) /\ f \in 1..e
      <3>1. CASE k = 1
        BY <1>1, <1>6, <3>1
      <3>2. CASE k # 1
        <4>1. k - 1 \in 1..c /\ k - 1 < k
          BY <1>3, <3>2
        <4>2. ends[k - 1] \in 1..(L + 1) /\ ends[k - 1] < ends[k] /\ ends[k] \in 1..(L + 1)
          BY <1>6, <4>1
        <4> QED
          BY <1>1, <3>2, <4>2
      <3> QED
        BY <3>1, <3>2
    <2>2. labels[k] = SubSeq(name, f, e - 1)
      BY <1>4
    <2> HIDE DEF f, e, From
    <2>3. f \in Nat /\ e - 1 \in Nat /\ e - 1 <= L /\ f >= 1
      BY <1>1, <2>1
    <2>4. /\ SubSeq(name, f, e - 1) \in Seq(T) /\ Len(SubSeq(name, f, e - 1)) = e - f
          /\ \A j \in 1..(e - f) : SubSeq(name, f, e - 1)[j] = name[f + j - 1]
      BY <1>1, <2>1, <2>3 DEF L
    <2> QED
      BY <2>1, <2>2, <2>4 DEF f, e
  <1>9. labels \in [1..c -> Seq(T)] /\ labels \in Seq(Octets) /\ labels # <<>>
    <2>1. labels \in [1..c -> Seq(T)]
      BY <1>4, <1>8
    <2>2. c \in Nat /\ c # 0 /\ labels \in [1..c -> Octets]
      BY <1>3, <1>5, <2>1 DEF Octets, T
    <2>3. 1 \in DOMAIN labels
      BY <2>2
    <2> QED
      BY <2>1, <2>2, <2>3
  <1>10. ASSUME NEW k \in 1..c
         PROVE  /\ parts[k] \in Seq(T) /\ Len(parts[k]) = 1 + (ends[k] - From(k))
                /\ parts[k][1] = Dot
                /\ \A j \in 1..(ends[k] - From(k)) : parts[k][j + 1] = name[From(k) + j - 1]
    <2> DEFINE u == labels[k]
               l == ends[k] - From(k)
    <2>1. parts[k] = <<Dot>> \o u /\ u \in Seq(T) /\ Len(u) = l
      BY <1>8
    <2>2. \A j \in 1..l : u[j] = name[From(k) + j - 1]
      BY <1>8
    <2> HIDE DEF u, l, parts, From
    <2>3. /\ <<Dot>> \o u \in Seq(T) /\ Len(<<Dot>> \o u) = 1 + l /\ (<<Dot>> \o u)[1] = Dot
          /\ \A j \in 1..l : (<<Dot>> \o u)[j + 1] = u[j]
      BY <1>1, <2>1
    <2> QED
      BY <2>1, <2>2, <2>3 DEF l
  <1>11. flat \in Seq(T) /\ \E E : Places(E, parts, c, flat)
    <2>1. parts \in [1..c -> Seq(T)]
      BY <1>10
    <2> HIDE DEF parts
    <2> QED
      BY <1>3, <1>5, <2>1, FlattenPlaces
  <1>12. PICK E : Places(E, parts, c, flat)
    BY <1>11
  <1> HIDE DEF flat, parts
  <1>13. \A k \in 1..c : E[k] = ends[k] /\ From(k) = E[k - 1] + 1
    <2> DEFINE G == {k \in Nat : k \in 1..c => E[k] = ends[k] /\ From(k) = E[k - 1] + 1}
    <2>1. 0 \in G
      OBVIOUS
    <2>2. ASSUME NEW k \in Nat, k \in G PROVE k + 1 \in G
      <3> SUFFICES ASSUME k + 1 \in 1..c
                   PROVE  E[k + 1] = ends[k + 1] /\ From(k + 1) = E[k] + 1
        <4>1. k + 1 \in Nat /\ (k + 1) - 1 = k
          OBVIOUS
        <4> QED
          BY <4>1
      <3>1. E[k + 1] = E[k] + Len(parts[k + 1])
        <4>1. (k + 1) - 1 = k
          OBVIOUS
        <4> QED
          BY <1>12, <4>1 DEF Places
      <3>2. From(k + 1) = E[k] + 1
        <4>1. CASE k = 0
          BY <1>12, <4>1 DEF Places
        <4>2. CASE k # 0
          <5>1. k \in 1..c /\ (k + 1) - 1 = k /\ k + 1 # 1
            BY <1>3, <4>2
          <5>2. E[k] = ends[k]
            BY <2>2, <5>1
          <5> QED
            BY <5>1, <5>2
        <4> QED
          BY <4>1, <4>2
      <3>3. ends[k + 1] \in Int /\ E[k] \in Int
        <4>1. k \in 0..c
          BY <1>3
        <4> QED
          BY <1>6, <1>12, <4>1 DEF Places
      <3>4. Len(parts[k + 1]) = 1 + (ends[k + 1] - From(k + 1))
        BY <1>10
      <3> HIDE DEF From
      <3> QED
        BY <3>1, <3>2, <3>3, <3>4
    <2>3. \A k \in Nat : k \in G
      <3> HIDE DEF G
      <3> QED
        BY <2>1, <2>2, Induction
    <2> QED
      BY <1>3, <2>3
  <1>14. Len(flat) = L + 1
    <2>1. c \in 1..c
      BY <1>3, <1>5
    <2> QED
      BY <1>7, <1>12, <1>13, <2>1 DEF Places
  <1>15. ASSUME NEW p \in 1..L PROVE flat[p + 1] = name[p]
    <2>1. E[c] = L + 1
      BY <1>12, <1>14 DEF Places
    <2>2. p + 1 \in 1..E[c]
      BY <1>1, <2>1
    <2>3. PICK k \in 1..c : (p + 1) - E[k - 1] \in 1..Len(parts[k])
      BY <1>12, <2>2 DEF Places
    <2> DEFINE d == E[k - 1]
               q == (p + 1) - d
    <2>4. d \in Nat /\ q \in 1..Len(parts[k]) /\ p + 1 = d + q
      <3>1. k - 1 \in 0..c
        BY <1>3
      <3>2. d \in Nat
        BY <1>12, <3>1 DEF Places
      <3> HIDE DEF d
      <3> QED
        BY <2>3, <3>2 DEF d
    <2>5. flat[d + q] = parts[k][q]
      BY <1>12, <2>4 DEF Places
    <2>6. From(k) = d + 1
      BY <1>13
    <2> DEFINE e == ends[k]
    <2>7. e \in Int
      BY <1>6
    <2>8. CASE q = 1
      <3>1. d = p
        BY <2>4, <2>8
      <3>2. k # 1
        BY <1>12, <3>1 DEF Places
      <3>3. k - 1 \in 1..c
        BY <1>3, <3>2
      <3>4. ends[k - 1] = p
        BY <1>13, <3>1, <3>3
      <3>5. name[p] = Dot
        BY <1>2, <1>3, <3>3, <3>4
      <3> QED
        BY <1>10, <2>4, <2>5, <2>8, <3>5
    <2>9. CASE q # 1
      <3> DEFINE j == q - 1
      <3>1. Len(parts[k]) = 1 + (e - (d + 1)) /\ \A x \in 1..(e - (d + 1)) : parts[k][x + 1] = name[(d + 1) + x - 1]
        BY <1>10, <2>6
      <3> HIDE DEF d, q, e, From
      <3>2. j \in 1..(e - (d + 1)) /\ j + 1 = q /\ (d + 1) + j - 1 = p
        BY <2>4, <2>7, <2>9, <3>1
      <3>3. parts[k][q] = name[p]
        BY <3>1, <3>2
      <3> QED
        BY <2>4, <2>5, <3>3
    <2> QED
      BY <2>8, <2>9
  <1>16. Tail(flat) = name
    <2> DEFINE t == Tail(flat)
    <2>1. t \in Seq(T) /\ Len(t) = L /\ \A i \in 1..L : t[i] = flat[i + 1]
      BY <1>1, <1>11, <1>14
    <2> HIDE DEF t
    <2>2. \A i \in 1..L : t[i] = name[i]
      BY <1>15, <2>1
    <2>3. t = name
      BY <1>1, <2>1, <2>2 DEF L
    <2> QED
      BY <2>3 DEF t
  <1>17. Join(labels) = Tail(flat)
    <2>1. DOMAIN labels = 1..c
      BY <1>9
    <2> QED
      BY <1>9, <2>1 DEF Join, flat, parts
  <1> QED
    BY <1>9, <1>16, <1>17 DEF labels

LEMMA FlatType ==
  ASSUME NEW T, NEW n \in Nat, NEW parts \in [1..n -> Seq(T)]
  PROVE  FlattenSeq(parts) \in Seq(T)
  <1>1. CASE n = 0
    <2>1. parts = <<>> /\ Len(parts) = 0
      BY <1>1
    <2>2. FlattenSeq(parts) = <<>>
      BY <2>1 DEF FlattenSeq
    <2> QED
      BY <2>2
  <1>2. CASE n # 0
    BY <1>2, FlattenPlaces
  <1> QED
    BY <1>1, <1>2

\* Labels with their lengths before them and a zero behind are read back as a name.
LEMMA LabelsRead ==
  ASSUME NEW n \in Nat, NEW labels \in [1..n -> Octets],
         \A i \in 1..n : Len(labels[i]) \in 1..191, NEW buf \in Octets, NEW off,
         Stands(FlattenSeq([i \in 1..n |-> <<Len(labels[i])>> \o labels[i]]) \o << 0 >>, buf, off)
  PROVE  /\ ReadName(buf, off) =
              OkAt(Join(labels),
                   off + Len(FlattenSeq([i \in 1..n |-> <<Len(labels[i])>> \o labels[i]]) \o <<0>>))
         /\ FlattenSeq([i \in 1..n |-> <<Len(labels[i])>> \o labels[i]]) \o <<0>> \in Octets
  <1> DEFINE T == 0..255
             parts == [i \in 1..n |-> <<Len(labels[i])>> \o labels[i]]
             flat == FlattenSeq(parts)
             whole == flat \o <<0>>
             L == Len(buf)
             at == Path(buf, off)
             Place == 0..(L - 1)
  <1>1. Octets = Seq(T) /\ 0 \in T
    BY DEF Octets
  <1>2. ASSUME NEW i \in 1..n
        PROVE  /\ parts[i] \in Seq(T) /\ Len(parts[i]) = Len(labels[i]) + 1
               /\ parts[i][1] = Len(labels[i])
               /\ \A j \in 1..Len(labels[i]) : parts[i][j + 1] = labels[i][j]
    <2> DEFINE u == labels[i]
               l == Len(u)
    <2>1. u \in Seq(T) /\ l \in 1..191
      BY <1>1
    <2>2. l \in T
      BY <2>1
    <2>3. parts[i] = <<l>> \o u
      OBVIOUS
    <2> HIDE DEF T, parts
    <2>4. /\ <<l>> \o u \in Seq(T) /\ Len(<<l>> \o u) = l + 1 /\ (<<l>> \o u)[1] = l
          /\ \A j \in 1..l : (<<l>> \o u)[j + 1] = u[j]
      BY <2>1, <2>2
    <2> QED
      BY <2>3, <2>4
  <1>3. parts \in [1..n -> Seq(T)]
    BY <1>2
  <1>4. L \in Nat /\ buf \in Seq(T)
    BY DEF Octets
  <1> HIDE DEF T, parts
  <1>5. flat \in Seq(T) /\ <<0>> \in Seq(T) /\ Len(<<0>>) = 1
    BY <1>1, <1>3, FlatType
  <1>6. /\ Stands(flat, buf, off) /\ Stands(<<0>>, buf, off + Len(flat))
        /\ whole \in Seq(T) /\ Len(whole) = Len(flat) + 1
    <2> DEFINE z == <<0>>
    <2>1. Stands(whole, buf, off)
      BY DEF parts
    <2> HIDE DEF flat
    <2>2. flat \in Octets /\ z \in Octets /\ Len(z) = 1 /\ whole = flat \o z
      BY <1>1, <1>5
    <2> HIDE DEF whole, z
    <2>3. /\ whole \in Octets /\ Len(whole) = Len(flat) + Len(z)
          /\ Stands(flat, buf, off) /\ Stands(z, buf, off + Len(flat))
      BY <2>1, <2>2, OctetParts
    <2> QED
      BY <1>1, <2>2, <2>3 DEF z
  <1> HIDE DEF flat, whole
  <1>7. PICK E : LaidOut(E, parts, n, buf, off)
    BY <1>3, <1>4, <1>6, FlatIsLaidOut DEF flat
  <1>8. E \in [0..n -> Nat] /\ E[0] = 0 /\ E[n] = Len(flat)
    BY <1>7 DEF LaidOut, flat
  <1>9. off \in Nat /\ Octet(buf, off + E[n]) = 0 /\ off + E[n] \in Place
    <2>1. buf[(off + E[n]) + 1] = 0 /\ off + E[n] \in Nat /\ (off + E[n]) + 1 <= L /\ off \in Nat
      BY <1>5, <1>6, <1>8 DEF Stands
    <2> QED
      BY <1>4, <2>1 DEF Octet
  <1>10. ASSUME NEW i \in 1..n
         PROVE  /\ E[i - 1] \in Nat /\ E[i] \in Nat /\ E[i] = E[i - 1] + Len(labels[i]) + 1
                /\ off + E[i] <= L /\ off + E[i - 1] \in Place
                /\ Octet(buf, off + E[i - 1]) = Len(labels[i])
                /\ \A j \in 1..Len(labels[i]) : buf[(off + E[i - 1] + 1) + j] = labels[i][j]
    <2> DEFINE d == off + E[i - 1]
               l == Len(labels[i])
               e == E[i - 1]
    <2>1. i - 1 \in 0..n /\ i \in 0..n
      OBVIOUS
    <2>2. e \in Nat /\ E[i] \in Nat /\ d \in Nat /\ l \in 1..191
      BY <1>8, <1>9, <2>1
    <2>3. E[i] = e + (l + 1)
      BY <1>2, <1>7 DEF LaidOut
    <2>4. /\ d + (l + 1) <= L /\ \A k \in 1..(l + 1) : buf[d + k] = parts[i][k]
      BY <1>2, <1>7 DEF LaidOut, Stands
    <2> HIDE DEF l, e
    <2>5. d = off + e
      BY DEF e
    <2> HIDE DEF d
    <2>6. buf[d + 1] = l
      <3>1. 1 \in 1..(l + 1)
        BY <2>2
      <3> QED
        BY <1>2, <2>4, <3>1 DEF l
    <2>7. ASSUME NEW j \in 1..l PROVE buf[(d + 1) + j] = labels[i][j]
      <3>1. j + 1 \in 1..(l + 1) /\ (d + 1) + j = d + (j + 1)
        BY <2>2
      <3> QED
        BY <1>2, <2>4, <3>1 DEF l
    <2>8. off + E[i] <= L /\ d \in Place /\ E[i] = e + l + 1
      BY <1>4, <1>9, <2>2, <2>3, <2>4, <2>5
    <2> QED
      BY <2>2, <2>6, <2>7, <2>8 DEF Octet, d, l, e
  <1>20. at[0] = off /\ \A k \in Nat : at[k + 1] = Follow(buf, at[k])
    BY <1>9, PathRuns
  <1> HIDE DEF at, L
  <1>11. \A k \in 0..n : at[k] = off + E[k] /\ k <= E[k]
    <2> DEFINE G == {k \in Nat : k \in 0..n => at[k] = off + E[k] /\ k <= E[k]}
    <2>1. 0 \in G
      <3>1. off \in Nat /\ E[0] = 0 /\ at[0] = off
        BY <1>8, <1>9, <1>20
      <3>2. at[0] = off + E[0] /\ 0 <= E[0]
        BY <3>1
      <3> QED
        BY <3>2
    <2>2. ASSUME NEW k \in Nat, k \in G PROVE k + 1 \in G
      <3> SUFFICES ASSUME k + 1 \in 0..n PROVE at[k + 1] = off + E[k + 1] /\ k + 1 <= E[k + 1]
        OBVIOUS
      <3>1. k \in 0..n /\ k + 1 \in 1..n /\ (k + 1) - 1 = k
        OBVIOUS
      <3>2. at[k] = off + E[k] /\ k <= E[k]
        BY <2>2, <3>1
      <3> DEFINE l == Len(labels[k + 1])
      <3>3. /\ E[k] \in Nat /\ E[k + 1] \in Nat /\ E[k + 1] = E[k] + l + 1
            /\ off + E[k] \in Place /\ Octet(buf, off + E[k]) = l
        BY <1>10, <3>1
      <3>4. l \in 1..191
        BY <3>1
      <3>5. at[k + 1] = Follow(buf, at[k])
        BY <1>20
      <3> HIDE DEF l
      <3>6. Follow(buf, off + E[k]) = off + E[k] + 1 + l
        <4> DEFINE p == off + E[k]
        <4>1. p \in 0..(Len(buf) - 1) /\ Octet(buf, p) = l /\ ~(l >= 192)
          BY <3>3, <3>4 DEF L
        <4> HIDE DEF p
        <4>2. Follow(buf, p) = p + 1 + l
          BY <4>1 DEF Follow, IsPointer
        <4> QED
          BY <4>2 DEF p
      <3> QED
        <4> DEFINE e == E[k]
                   f == E[k + 1]
        <4>1. at[k + 1] = off + e + 1 + l /\ f = e + l + 1 /\ e \in Nat /\ k <= e
          BY <3>2, <3>3, <3>5, <3>6
        <4> HIDE DEF e, f
        <4> QED
          BY <1>9, <3>4, <4>1 DEF f
    <2>3. \A k \in Nat : k \in G
      <3> HIDE DEF G
      <3> QED
        BY <2>1, <2>2, Induction
    <2> QED
      BY <2>3
  <1> DEFINE Zeros == {k \in 0..L : at[k] \in Place /\ Octet(buf, at[k]) = 0}
  <1>12. n \in Zeros
    <2>1. n <= E[n] /\ at[n] = off + E[n] /\ E[n] \in Nat
      BY <1>8, <1>11
    <2> QED
      BY <1>4, <1>9, <2>1
  <1>13. \A k \in 0..(n - 1) : Octet(buf, at[k]) # 0 /\ ~IsPointer(Octet(buf, at[k]))
    <2> SUFFICES ASSUME NEW k \in 0..(n - 1)
                 PROVE  Octet(buf, at[k]) # 0 /\ ~IsPointer(Octet(buf, at[k]))
      OBVIOUS
    <2> DEFINE i == k + 1
    <2>1. k \in 0..n /\ i \in 1..n /\ i - 1 = k
      OBVIOUS
    <2> HIDE DEF i
    <2>2. Octet(buf, off + E[k]) = Len(labels[i]) /\ Len(labels[i]) \in 1..191
      BY <1>10, <2>1
    <2>3. at[k] = off + E[k]
      BY <1>11, <2>1
    <2> DEFINE o == Octet(buf, at[k])
    <2>4. o \in 1..191
      BY <2>2, <2>3, Zenon
    <2> HIDE DEF o
    <2>5. o # 0 /\ ~(o >= 192)
      BY <2>4
    <2> QED
      BY <2>5 DEF IsPointer, o
  <1>14. Min(Zeros) = n
    <2> DEFINE m == Min(Zeros)
    <2>1. Zeros \in SUBSET Nat /\ Zeros # {}
      BY <1>12
    <2>2. m \in Zeros /\ m <= n
      <3> HIDE DEF Zeros
      <3> QED
        BY <1>12, <2>1, MinOfNats
    <2>3. m \in Nat /\ Octet(buf, at[m]) = 0
      BY <2>2
    <2> HIDE DEF m
    <2>4. m \notin 0..(n - 1)
      BY <1>13, <2>3
    <2> QED
      BY <2>2, <2>3, <2>4 DEF m
  <1>15. JumpsTo(buf, at, n) = {}
    <2> SUFFICES ASSUME NEW i \in 0..(n - 1), IsPointer(Octet(buf, at[i])) PROVE FALSE
      BY DEF JumpsTo
    <2> QED
      BY <1>13
  <1>16. LabelsTo(buf, at, n) = labels
    <2> DEFINE S == 1..n
               same == [i \in 1..n |-> i]
               steps == Ascending(S)
    <2>1. StepsTo(buf, at, n) = S
      BY <1>15 DEF StepsTo
    <2>2. Cardinality(S) = n
      BY FS_Interval
    <2>3. steps \in [1..n -> S] /\ Increasing(steps) /\ ToSet(steps) = S
      <3>1. S \in SUBSET (1..n)
        OBVIOUS
      <3> HIDE DEF S
      <3> QED
        BY <2>2, <3>1, AscendingSorts
    <2>4. same \in [1..n -> S] /\ Increasing(same) /\ ToSet(same) = S /\ S \in SUBSET Int
      BY DEF Increasing, ToSet
    <2> HIDE DEF S, same, steps
    <2>5. steps = same
      BY <2>3, <2>4, SameList
    <2>6. LabelsTo(buf, at, n) = [k \in 1..n |-> Slice(buf, at[k - 1] + 1, at[k])]
      <3>1. DOMAIN same = 1..n /\ \A k \in 1..n : same[k] = k
        BY DEF same
      <3>2. LabelsTo(buf, at, n) =
              [k \in DOMAIN same |-> Slice(buf, at[same[k] - 1] + 1, at[same[k]])]
        BY <2>1, <2>5 DEF LabelsTo, steps
      <3> QED
        BY <3>1, <3>2
    <2>7. ASSUME NEW k \in 1..n PROVE Slice(buf, at[k - 1] + 1, at[k]) = labels[k]
      <3> DEFINE d == at[k - 1]
                 u == labels[k]
                 l == Len(u)
                 from == (d + 1) + 1
                 to == at[k]
                 v == SubSeq(buf, from, to)
      <3>1. k - 1 \in 0..n /\ k \in 0..n
        OBVIOUS
      <3>2. d = off + E[k - 1] /\ to = off + E[k]
        BY <1>11, <3>1
      <3>3. /\ E[k - 1] \in Nat /\ E[k] = E[k - 1] + l + 1 /\ off + E[k] <= L
            /\ \A j \in 1..l : buf[(d + 1) + j] = u[j]
        BY <1>10, <3>2
      <3>4. u \in Seq(T) /\ l \in 1..191
        BY <1>1
      <3> HIDE DEF d, l, to
      <3>5. from \in 1..to /\ to \in 1..L /\ to - from + 1 = l /\ d \in Nat
        <4> DEFINE e == E[k - 1]
        <4>1. e \in Nat /\ d = off + e /\ to = off + e + l + 1 /\ to <= L
          BY <1>9, <3>2, <3>3, <3>4
        <4> HIDE DEF e
        <4> QED
          BY <1>4, <1>9, <3>4, <4>1
      <3> HIDE DEF u
      <3>6. v \in Seq(T) /\ Len(v) = l /\ \A j \in 1..l : v[j] = buf[(d + 1) + j]
        <4> DEFINE f == from
        <4>0. f = (d + 1) + 1 /\ f \in 1..to /\ to - f + 1 = l
          BY <3>5
        <4> HIDE DEF f
        <4>1. /\ SubSeq(buf, f, to) \in Seq(T) /\ Len(SubSeq(buf, f, to)) = to - f + 1
              /\ \A j \in 1..(to - f + 1) : SubSeq(buf, f, to)[j] = buf[f + j - 1]
          BY <1>4, <3>5, <4>0 DEF L
        <4>2. \A j \in 1..l : f + j - 1 = (d + 1) + j
          BY <3>5, <4>0
        <4> QED
          BY <4>0, <4>1, <4>2 DEF f
      <3>7. v = u
        <4>1. \A j \in 1..l : v[j] = u[j]
          BY <3>3, <3>6
        <4> HIDE DEF v
        <4>2. Len(v) = Len(u) /\ \A j \in 1..Len(u) : v[j] = u[j]
          BY <3>6, <4>1 DEF l
        <4>3. v \in Seq(T) /\ u \in Seq(T)
          BY <3>4, <3>6
        <4> HIDE DEF T
        <4> QED
          BY <4>2, <4>3
      <3> QED
        BY <3>7 DEF Slice, v, u, d, to
    <2> QED
      BY <2>6, <2>7
  <1>17. ReadName(buf, off) = OkAt(Join(labels), off + Len(whole))
    <2>1. off \in 0..L
      BY <1>4, <1>8, <1>9
    <2>2. Cardinality(JumpsTo(buf, at, n)) = 0 /\ ~(0 > MaxJumps)
      BY <1>15, FS_EmptySet, JumpsAssumption
    <2>3. /\ Zeros # {} /\ ~(Cardinality(JumpsTo(buf, at, Min(Zeros))) > MaxJumps)
          /\ LabelsTo(buf, at, Min(Zeros)) = labels /\ JumpsTo(buf, at, Min(Zeros)) = {}
          /\ at[Min(Zeros)] = at[n]
      BY <1>12, <1>14, <1>15, <1>16, <2>2
    <2>4. ReadName(buf, off) = OkAt(Join(labels), at[n] + 1)
      <3> HIDE DEF Zeros
      <3>1. IF Zeros = {} \/ Cardinality(JumpsTo(buf, at, Min(Zeros))) > MaxJumps
            THEN ReadName(buf, off) = Fails
            ELSE ReadName(buf, off) =
                    OkAt(Join(LabelsTo(buf, at, Min(Zeros))),
                         IF JumpsTo(buf, at, Min(Zeros)) = {} THEN at[Min(Zeros)] + 1
                         ELSE at[Min(JumpsTo(buf, at, Min(Zeros)))] + 2)
        BY <2>1, NameIsRead DEF Zeros, at, L
      <3> QED
        BY <2>3, <3>1
    <2>5. at[n] + 1 = off + Len(whole)
      <3>1. n \in 0..n
        OBVIOUS
      <3>2. at[n] = off + E[n] /\ E[n] \in Nat
        BY <1>8, <1>11, <3>1
      <3> QED
        BY <1>6, <1>8, <1>9, <3>2
    <2> QED
      BY <2>4, <2>5
  <1> QED
    BY <1>1, <1>6, <1>17 DEF whole, flat, parts

\* A name that is encoded is read back wherever it stands, without its final dot.
LEMMA NameReads ==
  ASSUME NEW name \in Octets, ~EndsInDot(name), EncodeName(name).ok
  PROVE  /\ EncodeName(name) = Ok(EncodeName(name).val) /\ EncodeName(name).val \in Octets
         /\ \A buf \in Octets : \A off : Stands(EncodeName(name).val, buf, off) =>
              ReadName(buf, off) = OkAt(name, off + Len(EncodeName(name).val))
  <1>1. TrimDot(name) = name
    BY DEF TrimDot
  <1>2. CASE name = <<>>
    <2> DEFINE none == [i \in 1..0 |-> <<>>]
               parts == [i \in 1..0 |-> <<Len(none[i])>> \o none[i]]
    <2>1. EncodeName(name) = Ok(<<0>>) /\ EncodeName(name).val = <<0>>
      BY <1>1, <1>2 DEF EncodeName, Ok
    <2>2. <<0>> \in Octets
      BY DEF Octets
    <2>3. ASSUME NEW buf \in Octets, NEW off, Stands(<< 0 >>, buf, off)
          PROVE  ReadName(buf, off) = OkAt(name, off + 1)
      <3> DEFINE flat == FlattenSeq(parts)
                 n == 0
      <3>1. parts = <<>> /\ Len(parts) = 0 /\ none = <<>>
        OBVIOUS
      <3>2. flat = <<>>
        <4> HIDE DEF parts
        <4> QED
          BY <3>1 DEF FlattenSeq
      <3> DEFINE whole == FlattenSeq([i \in 1..n |-> <<Len(none[i])>> \o none[i]]) \o <<0>>
      <3>3. whole = <<0>>
        <4> HIDE DEF flat
        <4>1. flat \o <<0>> = <<0>>
          BY <3>2
        <4> QED
          BY <4>1 DEF flat
      <3>4. none \in [1..n -> Octets] /\ n \in Nat /\ \A i \in 1..n : Len(none[i]) \in 1..191
        OBVIOUS
      <3> HIDE DEF none, n
      <3>5. Stands(whole, buf, off) => ReadName(buf, off) = OkAt(Join(none), off + Len(whole))
        BY <3>4, LabelsRead
      <3> HIDE DEF whole
      <3>6. ReadName(buf, off) = OkAt(Join(none), off + 1)
        BY <2>3, <3>3, <3>5
      <3>7. Join(none) = <<>>
        BY <3>1 DEF Join
      <3> QED
        BY <1>2, <3>6, <3>7
    <2>4. Len(<<0>>) = 1
      OBVIOUS
    <2> QED
      BY <2>1, <2>2, <2>3, <2>4
  <1>3. CASE name # <<>>
    <2> DEFINE labels == SplitAtDots(name)
               n == Len(labels)
               parts == [i \in 1..n |-> <<Len(labels[i])>> \o labels[i]]
               whole == FlattenSeq(parts) \o <<0>>
    <2>1. labels \in Seq(Octets) /\ Join(labels) = name
      BY JoinOfSplit
    <2> HIDE DEF labels
    <2>2. n \in Nat /\ DOMAIN labels = 1..n /\ labels \in [1..n -> Octets]
      BY <2>1
    <2>3. ~(\E i \in 1..n : Len(labels[i]) \notin 1..MaxLabel) /\ EncodeName(name) = Ok(whole)
      BY <1>1, <1>3, <2>2 DEF EncodeName, Fails, Ok, labels
    <2>4. \A i \in 1..n : Len(labels[i]) \in 1..191
      <3>1. \A l \in 1..MaxLabel : l \in 1..191
        BY JumpsAssumption
      <3> QED
        BY <2>3, <3>1
    <2>5. EncodeName(name).val = whole
      BY <2>3 DEF Ok
    <2>6. whole \in Octets
      <3> DEFINE T == 0..255
      <3>1. Octets = Seq(T) /\ <<0>> \in Octets
        BY DEF Octets
      <3>2. ASSUME NEW i \in 1..n PROVE parts[i] \in Seq(T)
        <4> DEFINE u == labels[i]
                   l == Len(u)
        <4>1. u \in Seq(T) /\ l \in T
          BY <2>2, <2>4, <3>1
        <4>2. parts[i] = <<l>> \o u
          OBVIOUS
        <4> HIDE DEF T, parts, u, l
        <4>3. <<l>> \o u \in Seq(T)
          BY <4>1
        <4> QED
          BY <4>2, <4>3
      <3>3. parts \in [1..n -> Seq(T)]
        BY <3>2
      <3> HIDE DEF parts, T, n
      <3> DEFINE flat == FlattenSeq(parts)
                 z == <<0>>
      <3>4. flat \in Seq(T)
        BY <2>2, <3>3, FlatType
      <3>5. z \in Octets /\ flat \in Octets
        BY <3>1, <3>4
      <3> HIDE DEF z, flat
      <3>6. flat \o z \in Octets
        BY <3>5, OctetParts
      <3> QED
        BY <3>6 DEF z, flat, parts
    <2>7. ASSUME NEW buf \in Octets, NEW off, Stands(whole, buf, off)
          PROVE  ReadName(buf, off) = OkAt(name, off + Len(whole))
      <3> HIDE DEF n
      <3>1. ReadName(buf, off) = OkAt(Join(labels), off + Len(whole))
        BY <2>2, <2>4, <2>7, LabelsRead
      <3> QED
        BY <2>1, <3>1
    <2> HIDE DEF whole
    <2> QED
      BY <2>3, <2>5, <2>6, <2>7
  <1> QED
    BY <1>2, <1>3

LEMMA SliceType ==
  ASSUME NEW buf \in Octets, NEW from \in Nat, NEW to \in Nat, from <= to, to <= Len(buf)
  PROVE  /\ Slice(buf, from, to) \in Octets /\ Len(Slice(buf, from, to)) = to - from
         /\ \A k \in 1..(to - from) : Slice(buf, from, to)[k] = buf[from + k]
  <1> DEFINE T == 0..255
             f == from + 1
             v == SubSeq(buf, f, to)
             n == to - from
  <1>1. buf \in Seq(T) /\ Octets = Seq(T) /\ Len(buf) \in Nat
    BY DEF Octets
  <1>2. f \in Nat /\ f >= 1 /\ f <= to + 1 /\ to - f + 1 = n /\ n \in Nat
    OBVIOUS
  <1>3. \A k \in 1..n : f + k - 1 = from + k
    OBVIOUS
  <1> HIDE DEF T, f, n
  <1>4. v \in Seq(T) /\ Len(v) = n /\ \A k \in 1..n : v[k] = buf[f + k - 1]
    BY <1>1, <1>2
  <1>5. \A k \in 1..n : v[k] = buf[from + k]
    BY <1>3, <1>4
  <1> HIDE DEF v
  <1> QED
    BY <1>1, <1>4, <1>5 DEF Slice, v, f, n

\* What stands somewhere is what is cut out there.
LEMMA SliceStands ==
  ASSUME NEW s \in Octets, NEW buf \in Octets, NEW off, Stands(s, buf, off)
  PROVE  Slice(buf, off, off + Len(s)) = s
  <1> DEFINE T == 0..255
             to == off + Len(s)
             v == Slice(buf, off, to)
  <1>1. /\ s \in Seq(T) /\ Len(s) \in Nat /\ off \in Nat /\ to <= Len(buf)
        /\ \A k \in 1..Len(s) : buf[off + k] = s[k]
    BY DEF Octets, Stands
  <1>2. to \in Nat /\ off <= to /\ to - off = Len(s)
    BY <1>1
  <1>3. v \in Octets /\ Len(v) = Len(s) /\ \A k \in 1..Len(s) : v[k] = buf[off + k]
    <2> HIDE DEF to
    <2>1. v \in Octets /\ Len(v) = to - off /\ \A k \in 1..(to - off) : v[k] = buf[off + k]
      BY <1>1, <1>2, SliceType
    <2> QED
      BY <1>2, <2>1
  <1>4. v \in Seq(T) /\ \A k \in 1..Len(s) : v[k] = s[k]
    BY <1>1, <1>3 DEF Octets
  <1> HIDE DEF v, T
  <1>5. v = s
    BY <1>1, <1>3, <1>4
  <1> QED
    BY <1>5 DEF v

LEMMA NumberType ==
  ASSUME NEW buf \in Octets, NEW p \in Nat, p + 2 <= Len(buf)
  PROVE  U16At(buf, p) \in Word16
  <1> DEFINE a == Octet(buf, p)
             b == Octet(buf, p + 1)
  <1>1. Len(buf) \in Nat
    BY DEF Octets
  <1>2. a \in 0..255 /\ b \in 0..255
    <2>1. p \in 0..(Len(buf) - 1) /\ p + 1 \in 0..(Len(buf) - 1)
      BY <1>1
    <2> HIDE DEF a, b
    <2> QED
      BY <2>1, OctetType DEF a, b
  <1>3. U16At(buf, p) = 256 * a + b
    BY DEF U16At
  <1> HIDE DEF a, b
  <1>4. \A x, y \in 0..255 : 256 * x + y \in Word16
    BY DEF Word16
  <1>5. 256 * a + b \in Word16
    BY <1>2, <1>4
  <1> QED
    BY <1>3, <1>5

LEMMA PairType ==
  ASSUME NEW buf \in Octets, NEW p \in Nat, p + 4 <= Len(buf)
  PROVE  U32At(buf, p) \in Word32
  <1> DEFINE q == p + 2
  <1>1. Len(buf) \in Nat
    BY DEF Octets
  <1>2. q \in Nat /\ p + 2 <= Len(buf) /\ q + 2 <= Len(buf)
    BY <1>1
  <1> HIDE DEF q
  <1>3. U16At(buf, p) \in Word16 /\ U16At(buf, q) \in Word16
    BY <1>2, NumberType
  <1> QED
    BY <1>3 DEF U32At, Word32, q

LEMMA JoinType ==
  ASSUME NEW n \in Nat, NEW labels \in [1..n -> Octets]
  PROVE  Join(labels) \in Octets
  <1> DEFINE T == 0..255
             parts == [i \in 1..n |-> <<Dot>> \o labels[i]]
             flat == FlattenSeq(parts)
  <1>1. Octets = Seq(T) /\ Dot \in T
    BY DEF Octets, Dot
  <1> HIDE DEF T
  <1>2. ASSUME NEW i \in 1..n
        PROVE  parts[i] \in Seq(T) /\ Len(parts[i]) = Len(labels[i]) + 1 /\ Len(labels[i]) \in Nat
    <2> DEFINE u == labels[i]
    <2>1. parts[i] = <<Dot>> \o u /\ u \in Seq(T)
      BY <1>1
    <2> HIDE DEF parts, u
    <2>2. <<Dot>> \o u \in Seq(T) /\ Len(<<Dot>> \o u) = Len(u) + 1 /\ Len(u) \in Nat
      BY <1>1, <2>1
    <2> QED
      BY <2>1, <2>2 DEF u
  <1>3. parts \in [1..n -> Seq(T)]
    BY <1>2
  <1>4. CASE n = 0
    <2>1. labels = <<>>
      BY <1>4
    <2>2. <<>> \in Seq(T)
      OBVIOUS
    <2> QED
      BY <1>1, <2>1, <2>2 DEF Join
  <1>5. CASE n # 0
    <2>1. labels # <<>> /\ DOMAIN labels = 1..n
      BY <1>5
    <2>2. Join(labels) = Tail(flat)
      BY <2>1 DEF Join
    <2> HIDE DEF parts
    <2>3. flat \in Seq(T) /\ \E E : Places(E, parts, n, flat)
      BY <1>3, <1>5, FlattenPlaces
    <2>4. PICK E : Places(E, parts, n, flat)
      BY <2>3
    <2>5. flat # <<>>
      <3>1. 1 \in 1..n
        BY <1>5
      <3>2. 1 \in 1..Len(parts[1])
        BY <1>2, <3>1
      <3>3. E[1 - 1] + 1 \in 1..E[n] /\ E[1 - 1] = 0 /\ E[n] = Len(flat)
        BY <2>4, <3>1, <3>2 DEF Places
      <3> HIDE DEF flat
      <3>4. Len(flat) # 0
        BY <2>3, <3>3
      <3> QED
        BY <3>4
    <2> HIDE DEF flat
    <2>6. Tail(flat) \in Seq(T)
      BY <2>3, <2>5
    <2> QED
      BY <1>1, <2>2, <2>6
  <1> QED
    BY <1>4, <1>5

\* A name that is read is one, and the next field is within the message or at its end.
LEMMA NameType ==
  ASSUME NEW buf \in Octets, NEW off \in 0..Len(buf), ReadName(buf, off).ok
  PROVE  /\ ReadName(buf, off) = OkAt(ReadName(buf, off).val, ReadName(buf, off).after)
         /\ ReadName(buf, off).val \in Octets /\ ReadName(buf, off).after \in 1..Len(buf)
  <1> DEFINE L == Len(buf)
             at == Path(buf, off)
             Place == 0..(L - 1)
             Zeros == {n \in 0..L : at[n] \in Place /\ Octet(buf, at[n]) = 0}
             n0 == Min(Zeros)
             Jumps == JumpsTo(buf, at, n0)
             labels == LabelsTo(buf, at, n0)
             back == IF Jumps = {} THEN at[n0] + 1 ELSE at[Min(Jumps)] + 2
  <1>1. off \in Nat /\ L \in Nat
    BY DEF Octets
  <1>2. \A n \in Nat : at[n] \in Nat /\ at[n + 1] = Follow(buf, at[n])
    BY <1>1, PathRuns
  <1>3. \A n \in Nat : at[n] \notin Place => \A m \in Nat : n <= m => at[m] \notin Place
    BY <1>1, OutsideStays
  <1>4. ReadName(buf, off) = OkAt(Join(labels), back) /\ Zeros # {}
    <2>1. IF Zeros = {} \/ Cardinality(Jumps) > MaxJumps THEN ReadName(buf, off) = Fails
          ELSE ReadName(buf, off) = OkAt(Join(labels), back)
      <3> HIDE DEF Zeros
      <3> QED
        BY NameIsRead DEF Zeros
    <2>2. ~Fails.ok
      BY DEF Fails
    <2> HIDE DEF Zeros, Jumps, labels, back
    <2> QED
      BY <2>1, <2>2
  <1>5. n0 \in Nat /\ at[n0] \in Place /\ Octet(buf, at[n0]) = 0
    <2>1. Zeros \in SUBSET Nat
      BY <1>1
    <2>2. n0 \in Zeros
      <3> HIDE DEF Zeros
      <3> QED
        BY <1>4, <2>1, MinOfNats
    <2> QED
      BY <2>1, <2>2
  <1> HIDE DEF at, Zeros, n0
  <1>6. \A i \in 0..n0 : at[i] \in Place
    BY <1>3, <1>5
  <1>7. back \in 1..L
    <2>1. CASE Jumps = {}
      <3>1. back = at[n0] + 1
        BY <2>1
      <3> QED
        BY <1>1, <1>5, <3>1
    <2>2. CASE Jumps # {}
      <3> DEFINE i == Min(Jumps)
                 p == at[i]
      <3>1. Jumps \in SUBSET Nat
        BY <1>5 DEF JumpsTo
      <3>2. i \in Jumps
        <4> HIDE DEF Jumps
        <4> QED
          BY <2>2, <3>1, MinOfNats
      <3>3. i \in 0..(n0 - 1) /\ IsPointer(Octet(buf, p))
        BY <3>2 DEF JumpsTo
      <3>4. back = p + 2
        BY <2>2
      <3> HIDE DEF i, Jumps, back
      <3>5. i \in 0..n0 /\ i + 1 \in 0..n0 /\ i \in Nat
        BY <1>5, <3>3
      <3>6. p \in Place /\ Follow(buf, p) \in Place
        BY <1>2, <1>6, <3>5
      <3> HIDE DEF p
      <3>7. p + 1 \in Place
        <4>1. L \notin Place
          BY <1>1
        <4> QED
          BY <3>3, <3>6, <4>1 DEF Follow
      <3> QED
        BY <1>1, <3>4, <3>6, <3>7
    <2> QED
      BY <2>1, <2>2
  <1>8. Join(labels) \in Octets
    <2> DEFINE S == StepsTo(buf, at, n0)
               steps == Ascending(S)
               c == Cardinality(S)
    <2>1. S \in SUBSET (1..n0)
      BY DEF StepsTo
    <2>2. c \in Nat /\ steps \in [1..c -> S]
      <3> HIDE DEF S
      <3>1. IsFiniteSet(S)
        BY <1>5, <2>1, SmallIsFinite
      <3> QED
        BY <1>5, <2>1, <3>1, AscendingSorts, FS_CardinalityType
    <2> HIDE DEF steps, c
    <2>3. labels = [k \in 1..c |-> Slice(buf, at[steps[k] - 1] + 1, at[steps[k]])]
      <3>1. DOMAIN steps = 1..c
        BY <2>2
      <3> QED
        BY <3>1 DEF LabelsTo, steps
    <2>4. ASSUME NEW i \in S PROVE Slice(buf, at[i - 1] + 1, at[i]) \in Octets
      <3> DEFINE p == at[i - 1]
                 q == at[i]
      <3>1. i \in 1..n0 /\ i - 1 \in 0..(n0 - 1) /\ ~IsPointer(Octet(buf, p))
        BY <1>5, <2>1 DEF StepsTo, JumpsTo
      <3> HIDE DEF S
      <3>2. i - 1 \in Nat /\ (i - 1) + 1 = i /\ i - 1 \in 0..n0 /\ i \in 0..n0
        BY <1>5, <3>1
      <3>3. p \in Place /\ q \in Place /\ q = Follow(buf, p)
        BY <1>2, <1>6, <3>2
      <3> HIDE DEF p, q
      <3>4. q = p + 1 + Octet(buf, p)
        BY <3>1, <3>3 DEF Follow, p
      <3>5. Octet(buf, p) \in 0..255
        BY <3>3, OctetType
      <3>6. p + 1 \in Nat /\ q \in Nat /\ p + 1 <= q /\ q <= L
        <4> DEFINE o == Octet(buf, p)
        <4>1. o \in 0..255 /\ q = p + 1 + o /\ p \in 0..(L - 1) /\ q \in 0..(L - 1)
          BY <3>3, <3>4, <3>5
        <4> HIDE DEF o, L
        <4> QED
          BY <1>1, <4>1
      <3>7. Slice(buf, p + 1, q) \in Octets
        <4> DEFINE f == p + 1
        <4>1. f \in Nat /\ f <= q
          BY <3>6
        <4> HIDE DEF f
        <4>2. Slice(buf, f, q) \in Octets
          BY <3>6, <4>1, SliceType
        <4> QED
          BY <4>2 DEF f
      <3> QED
        BY <3>7 DEF p, q
    <2> HIDE DEF S
    <2>5. labels \in [1..c -> Octets]
      BY <2>2, <2>3, <2>4
    <2> HIDE DEF labels
    <2> QED
      BY <2>2, <2>5, JoinType
  <1> HIDE DEF back, labels
  <1> QED
    BY <1>4, <1>7, <1>8 DEF OkAt

\* Parts of one length are where one would look for them.
LEMMA EqualParts ==
  ASSUME NEW n \in Nat, NEW c \in Nat, NEW parts \in [1..n -> Octets],
         \A i \in 1..n : Len(parts[i]) = c
  PROVE  /\ FlattenSeq(parts) \in Octets /\ Len(FlattenSeq(parts)) = c * n
         /\ \A buf \in Octets : \A off : Stands(FlattenSeq(parts), buf, off) =>
              \A i \in 1..n : Stands(parts[i], buf, off + c * (i - 1))
  <1> DEFINE T == 0..255
             flat == FlattenSeq(parts)
             D(j) == c * j
  <1>1. Octets = Seq(T)
    BY DEF Octets
  <1>2. D(0) = 0 /\ \A j \in Nat : D(j + 1) = D(j) + c
    OBVIOUS
  <1> HIDE DEF T, D
  <1>3. flat \in Octets
    BY <1>1, FlatType
  <1>4. ASSUME NEW buf \in Octets, NEW off, Stands(flat, buf, off)
        PROVE  Len(flat) = D(n) /\ \A i \in 1..n : Stands(parts[i], buf, off + D(i - 1))
    <2>1. PICK E : LaidOut(E, parts, n, buf, off)
      BY <1>1, <1>4, FlatIsLaidOut
    <2>2. /\ E[0] = 0 /\ E[n] = Len(flat)
          /\ \A i \in 1..n : E[i] = E[i - 1] + c /\ Stands(parts[i], buf, off + E[i - 1])
      BY <2>1 DEF LaidOut
    <2> HIDE DEF flat
    <2>3. \A i \in 0..n : E[i] = D(i)
      <3> DEFINE G == {i \in Nat : i \in 0..n => E[i] = D(i)}
      <3>1. 0 \in G
        BY <1>2, <2>2
      <3>2. ASSUME NEW i \in Nat, i \in G PROVE i + 1 \in G
        <4> SUFFICES ASSUME i + 1 \in 0..n PROVE E[i + 1] = D(i + 1)
          OBVIOUS
        <4>1. i \in 0..n /\ i + 1 \in 1..n /\ (i + 1) - 1 = i
          OBVIOUS
        <4> DEFINE k == i + 1
        <4>2. E[k] = E[k - 1] + c
          BY <2>2, <4>1
        <4>3. E[i + 1] = E[i] + c
          BY <4>1, <4>2
        <4> QED
          BY <1>2, <3>2, <4>1, <4>3
      <3>3. \A i \in Nat : i \in G
        <4> HIDE DEF G
        <4> QED
          BY <3>1, <3>2, Induction
      <3> QED
        BY <3>3
    <2>4. ASSUME NEW i \in 1..n PROVE Stands(parts[i], buf, off + D(i - 1))
      <3>1. i - 1 \in 0..n
        OBVIOUS
      <3>2. E[i - 1] = D(i - 1)
        BY <2>3, <3>1
      <3>3. Stands(parts[i], buf, off + E[i - 1])
        BY <2>2
      <3> QED
        BY <3>2, <3>3
    <2>5. n \in 0..n
      OBVIOUS
    <2>6. Len(flat) = D(n)
      BY <2>2, <2>3, <2>5
    <2> QED
      BY <2>4, <2>6
  <1>5. Stands(flat, flat, 0)
    <2> HIDE DEF flat
    <2>1. Len(flat) \in Nat
      BY <1>1, <1>3
    <2>2. \A k \in 1..Len(flat) : 0 + k = k
      BY <2>1
    <2> QED
      BY <2>1, <2>2 DEF Stands
  <1>6. Len(flat) = D(n)
    BY <1>3, <1>4, <1>5
  <1> HIDE DEF flat
  <1>7. /\ flat \in Octets /\ Len(flat) = D(n)
        /\ \A buf \in Octets : \A off : Stands(flat, buf, off) =>
             \A i \in 1..n : Stands(parts[i], buf, off + D(i - 1))
    BY <1>3, <1>4, <1>6
  <1> QED
    BY <1>7 DEF flat, D

LEMMA StandsAlone ==
  ASSUME NEW s \in Octets
  PROVE  Stands(s, s, 0)
  <1>1. Len(s) \in Nat
    BY DEF Octets
  <1>2. \A k \in 1..Len(s) : 0 + k = k
    BY <1>1
  <1> QED
    BY <1>1, <1>2 DEF Stands

\* The loop of decodeTXT has a value before each of its passes.
TextStates(rdata) ==
  {Fails} \union [ok : {TRUE}, val : Seq(Octets), after : 0..Len(rdata)]

LEMMA TextPassType ==
  ASSUME NEW rdata \in Octets, NEW texts \in Seq(Octets), NEW after \in 0..Len(rdata)
  PROVE  TextPass(rdata, OkAt(texts, after)) \in TextStates(rdata)
  <1> DEFINE done == OkAt(texts, after)
             o == Octet(rdata, after)
             end == after + 1 + o
             t == TextPass(rdata, done)
  <1>1. done.after = after /\ done.val = texts /\ Len(rdata) \in Nat
    BY DEF OkAt, Octets
  <1>2. t = IF after >= Len(rdata) THEN done
            ELSE IF end > Len(rdata) THEN Fails
            ELSE OkAt(Append(texts, Slice(rdata, after + 1, end)), end)
    BY <1>1 DEF TextPass
  <1>5. Fails \in TextStates(rdata) /\ done \in TextStates(rdata)
    BY DEF TextStates, OkAt
  <1>6. SUFFICES t \in TextStates(rdata)
    OBVIOUS
  <1> HIDE DEF t, done
  <1>3. CASE after >= Len(rdata) \/ end > Len(rdata)
    BY <1>2, <1>3, <1>5
  <1>4. CASE ~(after >= Len(rdata)) /\ ~(end > Len(rdata))
    <2> DEFINE f == after + 1
    <2>1. o \in 0..255
      <3>1. after \in 0..(Len(rdata) - 1)
        BY <1>1, <1>4
      <3> QED
        BY <3>1, OctetType
    <2> HIDE DEF o
    <2>2. f \in Nat /\ end \in Nat /\ f <= end /\ end <= Len(rdata)
      BY <1>1, <1>4, <2>1
    <2>3. t = OkAt(Append(texts, Slice(rdata, f, end)), end)
      BY <1>2, <1>4 DEF o
    <2> HIDE DEF f, end
    <2>4. Slice(rdata, f, end) \in Octets
      BY <2>2, SliceType
    <2>5. Append(texts, Slice(rdata, f, end)) \in Seq(Octets) /\ end \in 0..Len(rdata)
      BY <1>1, <2>2, <2>4
    <2>6. OkAt(Append(texts, Slice(rdata, f, end)), end) \in TextStates(rdata)
      BY <2>5 DEF TextStates, OkAt
    <2> QED
      BY <2>3, <2>6
  <1> QED
    BY <1>3, <1>4

LEMMA TextLoopRuns ==
  ASSUME NEW rdata \in Octets
  PROVE  LET s == TextLoop(rdata) IN
         /\ s[0] = OkAt(<<>>, 0)
         /\ \A k \in Nat : /\ s[k] \in TextStates(rdata)
                           /\ s[k + 1] = IF s[k].ok THEN TextPass(rdata, s[k]) ELSE Fails
  <1> DEFINE S == TextStates(rdata)
             Pass(x) == IF x.ok THEN TextPass(rdata, x) ELSE Fails
             first == OkAt(<<>>, 0)
             Is0(h) == h = [k \in Nat |-> IF k = 0 THEN first ELSE Pass(h[k - 1])]
             s == TextLoop(rdata)
  <1>1. first \in S
    <2>1. <<>> \in Seq(Octets) /\ 0 \in 0..Len(rdata)
      BY DEF Octets
    <2> QED
      BY <2>1 DEF TextStates, OkAt
  <1>2. \A x \in S : Pass(x) \in S
    <2> SUFFICES ASSUME NEW x \in S, x.ok PROVE TextPass(rdata, x) \in S
      BY DEF TextStates
    <2>3. ~Fails.ok
      BY DEF Fails
    <2>1. x \in [ok : {TRUE}, val : Seq(Octets), after : 0..Len(rdata)]
      BY <2>3 DEF TextStates
    <2>2. x = OkAt(x.val, x.after) /\ x.val \in Seq(Octets) /\ x.after \in 0..Len(rdata)
      BY <2>1 DEF OkAt
    <2> QED
      BY <2>2, TextPassType
  <1>3. s = CHOOSE h : Is0(h)
    BY DEF TextLoop, Then
  <1> HIDE DEF s, Pass
  <1> HIDE DEF S, first
  <1>10. PICK step \in [S -> S] : \A x \in S : step[x] = Pass(x)
    <2> DEFINE f == [x \in S |-> Pass(x)]
    <2>1. f \in [S -> S] /\ \A x \in S : f[x] = Pass(x)
      BY <1>2
    <2> QED
      BY <2>1
  <1>4. PICK g \in [Nat -> S] : g[0] = first /\ \A k \in Nat : g[k + 1] = step[g[k]]
    BY <1>1, Iterates, Z3
  <1>5. Is0(g)
    <2> DEFINE h == [k \in Nat |-> IF k = 0 THEN first ELSE Pass(g[k - 1])]
    <2>1. ASSUME NEW k \in Nat PROVE g[k] = h[k]
      <3>1. CASE k = 0
        BY <3>1, <1>4
      <3>2. CASE k # 0
        <4>1. k - 1 \in Nat /\ (k - 1) + 1 = k
          BY <3>2
        <4>2. g[k] = step[g[k - 1]] /\ g[k - 1] \in S
          BY <4>1, <1>4
        <4> QED
          BY <1>10, <4>2, <3>2
      <3> QED
        BY <3>1, <3>2
    <2> QED
      BY <2>1, <1>4
  <1>6. Is0(s)
    <2> HIDE DEF Is0
    <2> QED
      BY <1>3, <1>5
  <1>7. s[0] = first
    BY <1>6
  <1>8. ASSUME NEW k \in Nat PROVE s[k + 1] = Pass(s[k])
    <2>1. k + 1 \in Nat /\ k + 1 # 0 /\ (k + 1) - 1 = k
      OBVIOUS
    <2> QED
      BY <1>6, <2>1
  <1>9. \A k \in Nat : s[k] \in S
    <2> DEFINE G == {k \in Nat : s[k] \in S}
    <2>1. 0 \in G
      BY <1>1, <1>7
    <2>2. \A k \in Nat : k \in G => k + 1 \in G
      BY <1>2, <1>8
    <2>3. \A k \in Nat : k \in G
      <3> HIDE DEF G
      <3> QED
        BY <2>1, <2>2, Induction
    <2> QED
      BY <2>3
  <1> QED
    BY <1>7, <1>8, <1>9 DEF s, S, first, Pass

\* An octet with the length and then a text are what they stand for.
LEMMA CountedStands ==
  ASSUME NEW u \in Octets, Len(u) <= 255
  PROVE  /\ <<Len(u)>> \o u \in Octets /\ Len(<<Len(u)>> \o u) = Len(u) + 1 /\ Len(u) \in 0..255
         /\ \A buf \in Octets : \A off : Stands(<<Len(u)>> \o u, buf, off) =>
              /\ Octet(buf, off) = Len(u) /\ Slice(buf, off + 1, off + 1 + Len(u)) = u
              /\ off \in Nat /\ off + 1 + Len(u) <= Len(buf)
  <1> DEFINE l == Len(u)
             z == <<l>>
  <1>1. l \in 0..255
    <2>1. l \in Nat
      BY DEF Octets
    <2> HIDE DEF l
    <2>2. l <= 255
      BY DEF l
    <2> QED
      BY <2>1, <2>2
  <1>2. z \in Octets /\ Len(z) = 1 /\ z[1] = l
    <2> HIDE DEF l
    <2> QED
      BY <1>1 DEF Octets
  <1> HIDE DEF z
  <1>3. z \o u \in Octets /\ Len(z \o u) = 1 + l
    BY <1>2, OctetParts
  <1>4. ASSUME NEW buf \in Octets, NEW off, Stands(z \o u, buf, off)
        PROVE  /\ Octet(buf, off) = l /\ Slice(buf, off + 1, off + 1 + l) = u
               /\ off \in Nat /\ off + 1 + l <= Len(buf)
    <2> DEFINE f == off + 1
    <2>1. Stands(z, buf, off) /\ Stands(u, buf, f)
      BY <1>2, <1>4, OctetParts
    <2>2. off \in Nat /\ buf[off + 1] = l
      BY <1>2, <2>1 DEF Stands
    <2> HIDE DEF f, l
    <2>3. Slice(buf, f, f + l) = u
      BY <2>1, SliceStands DEF l
    <2>4. f + l <= Len(buf)
      BY <2>1 DEF Stands, l
    <2> QED
      BY <2>2, <2>3, <2>4 DEF f, Octet
  <1>5. Len(z \o u) = l + 1
    BY <1>1, <1>3
  <1> QED
    BY <1>1, <1>3, <1>4, <1>5 DEF z

LEMMA TextsRead ==
  ASSUME NEW n \in Nat, NEW texts \in [1..n -> Octets], \A i \in 1..n : Len(texts[i]) <= 255
  PROVE  LET d == FlattenSeq([i \in 1..n |-> <<Len(texts[i])>> \o texts[i]]) IN
         d \in Octets /\ DecodeTXT(d) = Ok(texts)
  <1> DEFINE parts == [i \in 1..n |-> <<Len(texts[i])>> \o texts[i]]
             d == FlattenSeq(parts)
             L == Len(d)
             s == TextLoop(d)
             Read(k) == [i \in 1..k |-> texts[i]]
  <1>1. parts \in [1..n -> Octets]
    <2>1. ASSUME NEW i \in 1..n PROVE <<Len(texts[i])>> \o texts[i] \in Octets
      <3> DEFINE u == texts[i]
      <3>1. u \in Octets /\ Len(u) <= 255
        OBVIOUS
      <3> HIDE DEF u
      <3>2. <<Len(u)>> \o u \in Octets
        BY <3>1, CountedStands
      <3> QED
        BY <3>2 DEF u
    <2> QED
      BY <2>1
  <1> HIDE DEF d
  <1>2. d \in Octets
    <2> HIDE DEF parts
    <2> QED
      BY <1>1, FlatType DEF Octets, d
  <1>3. Stands(d, d, 0) /\ L \in Nat
    BY <1>2, StandsAlone DEF Octets
  <1>4. PICK E : LaidOut(E, parts, n, d, 0)
    <2> HIDE DEF parts
    <2> QED
      BY <1>1, <1>2, <1>3, FlatIsLaidOut DEF Octets, d
  <1>5. /\ E \in [0..n -> Nat] /\ E[0] = 0 /\ E[n] = L
        /\ \A i \in 1..n : E[i] = E[i - 1] + Len(parts[i]) /\ Stands(parts[i], d, 0 + E[i - 1])
    BY <1>4 DEF LaidOut, d
  <1>6. /\ s[0] = OkAt(<<>>, 0)
        /\ \A k \in Nat : s[k + 1] = IF s[k].ok THEN TextPass(d, s[k]) ELSE Fails
    BY <1>2, TextLoopRuns
  <1> HIDE DEF s, L
  <1>7. ASSUME NEW k \in 0..(n - 1)
        PROVE  /\ E[k] \in Nat /\ E[k + 1] \in Nat /\ E[k] < E[k + 1] /\ E[k + 1] <= L
               /\ E[k + 1] = E[k] + 1 + Octet(d, E[k])
               /\ Slice(d, E[k] + 1, E[k + 1]) = texts[k + 1]
    <2> DEFINE i == k + 1
               e == E[k]
               u == texts[i]
    <2>1. i \in 1..n /\ i - 1 = k /\ k \in 0..n /\ i \in 0..n
      OBVIOUS
    <2>2. e \in Nat /\ E[i] \in Nat
      BY <1>5, <2>1
    <2> HIDE DEF i, e
    <2>3. u \in Octets /\ Len(u) <= 255 /\ parts[i] = <<Len(u)>> \o u
      BY <2>1
    <2>4. 0 + E[i - 1] = e
      BY <2>1, <2>2 DEF e
    <2> HIDE DEF u, parts
    <2>5. E[i] = e + Len(<<Len(u)>> \o u) /\ Stands(<<Len(u)>> \o u, d, e)
      <3>1. E[i] = E[i - 1] + Len(parts[i]) /\ Stands(parts[i], d, 0 + E[i - 1])
        BY <1>5, <2>1
      <3> QED
        BY <2>1, <2>3, <2>4, <3>1 DEF e
    <2>6. /\ Len(u) \in 0..255 /\ E[i] = e + (Len(u) + 1) /\ Octet(d, e) = Len(u)
          /\ Slice(d, e + 1, e + 1 + Len(u)) = u /\ e + 1 + Len(u) <= L
      BY <1>2, <2>3, <2>5, CountedStands DEF L
    <2> DEFINE l == Len(u)
               f == E[i]
    <2> HIDE DEF l, f
    <2>7. f = e + 1 + l /\ e < f /\ f <= L
      BY <2>2, <2>6 DEF l, f
    <2> QED
      BY <2>2, <2>6, <2>7 DEF l, f, i, e, u
  <1> HIDE DEF parts
  <1>8. \A k \in 0..n : s[k] = OkAt(Read(k), E[k]) /\ k <= E[k]
    <2> DEFINE G == {k \in Nat : k \in 0..n => s[k] = OkAt(Read(k), E[k]) /\ k <= E[k]}
    <2>1. 0 \in G
      <3>1. Read(0) = <<>>
        OBVIOUS
      <3> HIDE DEF Read
      <3>2. s[0] = OkAt(Read(0), E[0]) /\ 0 <= E[0]
        BY <1>5, <1>6, <3>1
      <3> QED
        BY <3>2
    <2>2. ASSUME NEW k \in Nat, k \in G PROVE k + 1 \in G
      <3> SUFFICES ASSUME k + 1 \in 0..n
                   PROVE  s[k + 1] = OkAt(Read(k + 1), E[k + 1]) /\ k + 1 <= E[k + 1]
        OBVIOUS
      <3>1. k \in 0..n /\ k \in 0..(n - 1)
        OBVIOUS
      <3>2. s[k] = OkAt(Read(k), E[k]) /\ k <= E[k]
        BY <2>2, <3>1
      <3> DEFINE e == E[k]
                 f == E[k + 1]
                 u == texts[k + 1]
      <3>3. /\ e \in Nat /\ f \in Nat /\ e < f /\ f <= L /\ e + 1 + Octet(d, e) = f
            /\ Slice(d, e + 1, f) = u
        BY <1>7, <3>1
      <3>4. s[k + 1] = TextPass(d, s[k])
        <4>1. s[k].ok
          BY <3>2 DEF OkAt
        <4> QED
          BY <1>6, <4>1
      <3>5. Append(Read(k), u) = Read(k + 1)
        <4>1. k + 1 \in 1..n /\ texts \in [1..n -> Octets]
          OBVIOUS
        <4>2. Read(k) \in Seq(Octets) /\ Len(Read(k)) = k
          <5>1. Read(k) \in [1..k -> Octets]
            BY <4>1
          <5> HIDE DEF Read
          <5> QED
            BY <5>1
        <4> DEFINE r == Read(k)
                   v == Append(r, u)
                   w == Read(k + 1)
        <4>3. \A i \in 1..k : r[i] = texts[i]
          OBVIOUS
        <4>4. w \in Seq(Octets) /\ Len(w) = k + 1 /\ \A i \in 1..(k + 1) : w[i] = texts[i]
          <5>1. w \in [1..(k + 1) -> Octets] /\ \A i \in 1..(k + 1) : w[i] = texts[i]
            BY <4>1
          <5> DEFINE m == k + 1
          <5>2. m \in Nat
            OBVIOUS
          <5> HIDE DEF w, m
          <5>3. w \in Seq(Octets) /\ Len(w) = m
            BY <5>1, <5>2 DEF m
          <5> QED
            BY <5>1, <5>3 DEF m
        <4> HIDE DEF Read
        <4>5. r \in Seq(Octets) /\ u \in Octets /\ k = Len(r)
          BY <4>1, <4>2
        <4> HIDE DEF r
        <4>6. /\ v \in Seq(Octets) /\ Len(v) = k + 1 /\ v[k + 1] = u
              /\ \A i \in 1..k : v[i] = r[i]
          <5> HIDE DEF u
          <5> QED
            BY <4>5
        <4>7. \A i \in 1..(k + 1) : v[i] = w[i]
          <5> SUFFICES ASSUME NEW i \in 1..(k + 1) PROVE v[i] = w[i]
            OBVIOUS
          <5>1. CASE i = k + 1
            BY <4>4, <4>6, <5>1
          <5>2. CASE i # k + 1
            <6>1. i \in 1..k
              BY <5>2
            <6> QED
              BY <4>3, <4>4, <4>6, <6>1
          <5> QED
            BY <5>1, <5>2
        <4> HIDE DEF v, w
        <4>8. v = w
          BY <4>4, <4>6, <4>7
        <4> QED
          BY <4>8 DEF v, w, r
      <3> HIDE DEF e, f, u, Read
      <3>6. TextPass(d, OkAt(Read(k), e)) = OkAt(Append(Read(k), u), f)
        <4>1. ~(e >= L) /\ ~(f > L)
          BY <1>3, <3>3
        <4>2. OkAt(Read(k), e).val = Read(k) /\ OkAt(Read(k), e).after = e
          BY DEF OkAt
        <4> QED
          BY <3>3, <4>1, <4>2 DEF TextPass, L
      <3> QED
        BY <3>2, <3>3, <3>4, <3>5, <3>6 DEF e, f
    <2>3. \A k \in Nat : k \in G
      <3> HIDE DEF G
      <3> QED
        BY <2>1, <2>2, Induction
    <2> QED
      BY <2>3
  <1>9. Read(n) = texts
    OBVIOUS
  <1> HIDE DEF Read
  <1>10. s[n] = OkAt(texts, L) /\ n <= L
    <2>1. n \in 0..n
      OBVIOUS
    <2> QED
      BY <1>5, <1>8, <1>9, <2>1
  <1>11. \A j \in Nat : s[n + j] = OkAt(texts, L)
    <2> DEFINE G == {j \in Nat : s[n + j] = OkAt(texts, L)}
    <2>1. 0 \in G
      <3>1. n + 0 = n
        OBVIOUS
      <3> QED
        BY <1>10, <3>1
    <2>2. ASSUME NEW j \in Nat, j \in G PROVE j + 1 \in G
      <3>1. n + j \in Nat /\ n + (j + 1) = (n + j) + 1 /\ s[n + j] = OkAt(texts, L)
        BY <2>2
      <3>2. s[(n + j) + 1] = TextPass(d, OkAt(texts, L))
        <4>1. s[n + j].ok
          BY <3>1 DEF OkAt
        <4> QED
          BY <1>6, <3>1, <4>1
      <3>3. TextPass(d, OkAt(texts, L)) = OkAt(texts, L)
        <4>1. OkAt(texts, L).after = L /\ L >= L
          BY <1>3 DEF OkAt
        <4> QED
          BY <4>1 DEF TextPass, L
      <3> QED
        BY <3>1, <3>2, <3>3
    <2>3. \A j \in Nat : j \in G
      <3> HIDE DEF G
      <3> QED
        BY <2>1, <2>2, Induction
    <2> QED
      BY <2>3
  <1>12. s[L] = OkAt(texts, L)
    <2>1. L - n \in Nat /\ n + (L - n) = L
      BY <1>3, <1>10
    <2> QED
      BY <1>11, <2>1
  <1>13. DecodeTXT(d) = Ok(texts)
    BY <1>12 DEF DecodeTXT, Then, OkAt, s, L
  <1> QED
    BY <1>2, <1>13 DEF d, parts

(* The data of a record, type by type. *)

LEMMA WordsRead ==
  ASSUME NEW w \in Nat, NEW words \in [1..w -> Word16], NEW name \in Octets, ~EndsInDot(name),
         EncodeName(name).ok
  PROVE  LET d == FlattenSeq([i \in 1..w |-> U16(words[i])]) \o EncodeName(name).val IN
         /\ d \in Octets /\ Len(d) >= 2 * w /\ [i \in 1..w |-> U16At(d, 2 * (i - 1))] = words
         /\ \A buf \in Octets : \A start : Stands(d, buf, start) =>
              \E after : ReadName(buf, start + 2 * w) = OkAt(name, after)
  <1> DEFINE parts == [i \in 1..w |-> U16(words[i])]
             flat == FlattenSeq(parts)
             v == EncodeName(name).val
             d == flat \o v
             W == 2 * w
  <1>1. \A m \in Word16 : U16(m) \in Octets /\ Len(U16(m)) = 2
    BY NumbersStand
  <1>2. parts \in [1..w -> Octets] /\ \A i \in 1..w : Len(parts[i]) = 2
    BY <1>1
  <1>3. /\ v \in Octets
        /\ \A buf \in Octets : \A off : Stands(v, buf, off) =>
             ReadName(buf, off) = OkAt(name, off + Len(v))
    BY NameReads
  <1>4. /\ flat \in Octets /\ Len(flat) = W
        /\ \A buf \in Octets : \A off : Stands(flat, buf, off) =>
             \A i \in 1..w : Stands(parts[i], buf, off + 2 * (i - 1))
    <2> DEFINE c == 2
    <2>1. c \in Nat /\ \A i \in 1..w : Len(parts[i]) = c
      BY <1>2
    <2> HIDE DEF parts, c
    <2>2. /\ flat \in Octets /\ Len(flat) = c * w
          /\ \A buf \in Octets : \A off : Stands(flat, buf, off) =>
               \A i \in 1..w : Stands(parts[i], buf, off + c * (i - 1))
      BY <1>2, <2>1, EqualParts
    <2> QED
      BY <2>2 DEF c
  <1>5. W \in Nat
    OBVIOUS
  <1> HIDE DEF v, flat, W
  <1>6. /\ d \in Octets /\ Len(d) = W + Len(v) /\ Len(v) \in Nat
        /\ \A buf \in Octets : \A off : Stands(d, buf, off) =>
              Stands(flat, buf, off) /\ Stands(v, buf, off + W)
    BY <1>3, <1>4, OctetParts
  <1> HIDE DEF d
  <1>7. ASSUME NEW i \in 1..w PROVE U16At(d, 2 * (i - 1)) = words[i]
    <2> DEFINE p == 2 * (i - 1)
    <2>1. Stands(flat, d, 0)
      BY <1>6, StandsAlone
    <2>2. Stands(parts[i], d, 0 + p)
      BY <1>4, <1>6, <2>1
    <2>3. 0 + p = p
      OBVIOUS
    <2>4. words[i] \in Word16 /\ parts[i] = U16(words[i])
      OBVIOUS
    <2> HIDE DEF p, parts
    <2>5. Stands(U16(words[i]), d, p)
      BY <2>2, <2>3, <2>4
    <2>6. U16At(d, p) = words[i]
      BY <2>4, <2>5, NumbersStand
    <2> QED
      BY <2>6 DEF p
  <1>8. [i \in 1..w |-> U16At(d, 2 * (i - 1))] = words
    BY <1>7
  <1>9. ASSUME NEW buf \in Octets, NEW start, Stands(d, buf, start)
        PROVE  \E after : ReadName(buf, start + W) = OkAt(name, after)
    BY <1>3, <1>6, <1>9
  <1>10. Len(d) >= W
    BY <1>5, <1>6
  <1> QED
    BY <1>6, <1>8, <1>9, <1>10 DEF d, flat, parts, v, W

LEMMA StartOfAuthorityReads ==
  ASSUME NEW mname \in Octets, NEW rname \in Octets, ~EndsInDot(mname), ~EndsInDot(rname),
         NEW numbers \in [1..5 -> Word32],
         EncodeAll(<<EncodeName(mname), EncodeName(rname)>>).ok
  PROVE  LET names == EncodeAll(<<EncodeName(mname), EncodeName(rname)>>)
             d == names.val \o FlattenSeq([i \in 1..5 |-> U32(numbers[i])])
         IN  /\ d \in Octets
             /\ \A buf \in Octets : \A start : Stands(d, buf, start) =>
                  \E m, r \in Nat :
                    /\ ReadName(buf, start) = OkAt(mname, m)
                    /\ ReadName(buf, m) = OkAt(rname, r) /\ r + 20 <= Len(buf)
                    /\ [i \in 1..5 |-> U32At(buf, r + 4 * (i - 1))] = numbers
  <1> DEFINE a == EncodeName(mname)
             b == EncodeName(rname)
             items == <<a, b>>
             both == [i \in 1..2 |-> items[i].val]
             front == FlattenSeq(both)
             parts == [i \in 1..5 |-> U32(numbers[i])]
             flat == FlattenSeq(parts)
             d == front \o flat
             L(s) == Len(s)
  <1>1. a.ok /\ b.ok /\ EncodeAll(items) = Ok(front)
    <2> HIDE DEF a, b
    <2>1. DOMAIN items = 1..2 /\ items[1] = a /\ items[2] = b
      OBVIOUS
    <2> HIDE DEF items
    <2>2. ~Fails.ok
      BY DEF Fails
    <2>3. ~(\E i \in DOMAIN items : ~items[i].ok)
      BY <2>2 DEF EncodeAll, items, a, b
    <2>4. EncodeAll(items) = Ok(FlattenSeq([i \in 1..2 |-> items[i].val]))
      BY <2>1, <2>3 DEF EncodeAll
    <2>5. a.ok /\ b.ok
      <3>1. 1 \in DOMAIN items /\ 2 \in DOMAIN items
        BY <2>1
      <3> QED
        BY <2>1, <2>3, <3>1
    <2> QED
      BY <2>4, <2>5
  <1>2. /\ a.val \in Octets
        /\ \A buf \in Octets : \A off : Stands(a.val, buf, off) =>
             ReadName(buf, off) = OkAt(mname, off + L(a.val))
    BY <1>1, NameReads
  <1>3. /\ b.val \in Octets
        /\ \A buf \in Octets : \A off : Stands(b.val, buf, off) =>
             ReadName(buf, off) = OkAt(rname, off + L(b.val))
    BY <1>1, NameReads
  <1>4. /\ parts \in [1..5 -> Octets] /\ \A i \in 1..5 : Len(parts[i]) = 4
        /\ \A i \in 1..5 : parts[i] = U32(numbers[i]) /\ numbers[i] \in Word32
    <2>1. \A m \in Word32 : U32(m) \in Octets /\ Len(U32(m)) = 4
      <3> DEFINE none == <<>>
      <3>1. none \in Octets
        BY DEF Octets
      <3> HIDE DEF none
      <3> QED
        BY <3>1, PairsStand
    <2> QED
      BY <2>1
  <1>5. both[1] = a.val /\ both[2] = b.val /\ both \in [1..2 -> Octets]
    <2> HIDE DEF a, b
    <2>1. \A i \in 1..2 : i = 1 \/ i = 2
      OBVIOUS
    <2>2. items[1] = a /\ items[2] = b
      OBVIOUS
    <2> QED
      BY <1>2, <1>3, <2>1, <2>2
  <1> HIDE DEF a, b, items, both, parts
  <1>6. /\ flat \in Octets /\ Len(flat) = 20
        /\ \A buf \in Octets : \A off : Stands(flat, buf, off) =>
             \A i \in 1..5 : Stands(parts[i], buf, off + 4 * (i - 1))
    <2> DEFINE c == 4
               n == 5
    <2>1. n \in Nat /\ c \in Nat /\ c * n = 20 /\ parts \in [1..n -> Octets]
          /\ \A i \in 1..n : Len(parts[i]) = c
      BY <1>4
    <2> HIDE DEF c, n
    <2>2. /\ flat \in Octets /\ Len(flat) = c * n
          /\ \A buf \in Octets : \A off : Stands(flat, buf, off) =>
               \A i \in 1..n : Stands(parts[i], buf, off + c * (i - 1))
      BY <2>1, EqualParts
    <2> HIDE DEF flat
    <2>3. Len(flat) = 20
      BY <2>1, <2>2
    <2> QED
      BY <2>2, <2>3 DEF c, n
  <1> HIDE DEF flat
  <1>7. front \in Octets
    <2> DEFINE n == 2
    <2>1. n \in Nat /\ both \in [1..n -> Octets]
      BY <1>5
    <2> HIDE DEF n
    <2> QED
      BY <2>1, FlatType DEF Octets
  <1> HIDE DEF front
  <1>8. /\ d \in Octets
        /\ \A buf \in Octets : \A off : Stands(d, buf, off) =>
              Stands(front, buf, off) /\ Stands(flat, buf, off + Len(front))
    BY <1>6, <1>7, OctetParts
  <1> HIDE DEF d
  <1>9. ASSUME NEW buf \in Octets, NEW start, Stands(d, buf, start)
        PROVE  \E m, r \in Nat :
                 /\ ReadName(buf, start) = OkAt(mname, m)
                 /\ ReadName(buf, m) = OkAt(rname, r) /\ r + 20 <= Len(buf)
                 /\ [i \in 1..5 |-> U32At(buf, r + 4 * (i - 1))] = numbers
    <2>1. Stands(front, buf, start) /\ Stands(flat, buf, start + Len(front))
      BY <1>8, <1>9
    <2>2. PICK E : LaidOut(E, both, 2, buf, start)
      <3> DEFINE n == 2
      <3>1. n \in Nat /\ both \in [1..n -> Octets] /\ n = 2
        BY <1>5
      <3> HIDE DEF n
      <3>2. \E E : LaidOut(E, both, n, buf, start)
        BY <2>1, <3>1, FlatIsLaidOut DEF Octets, front
      <3> QED
        BY <3>1, <3>2
    <2>3. /\ E[0] = 0 /\ E[1] \in Nat /\ E[2] = Len(front)
          /\ E[1] = E[0] + Len(a.val) /\ E[2] = E[1] + Len(b.val)
          /\ Stands(a.val, buf, start + E[0]) /\ Stands(b.val, buf, start + E[1])
      <3>1. E \in [0..2 -> Nat] /\ 1 \in 0..2 /\ 1 - 1 = 0 /\ 2 - 1 = 1 /\ 1 \in 1..2 /\ 2 \in 1..2
        BY <2>2 DEF LaidOut
      <3> HIDE DEF front
      <3>2. /\ E[0] = 0 /\ E[2] = Len(FlattenSeq(both))
            /\ \A i \in 1..2 : E[i] = E[i - 1] + Len(both[i]) /\ Stands(both[i], buf, start + E[i - 1])
        BY <2>2 DEF LaidOut
      <3>3. E[1] = E[0] + Len(both[1]) /\ Stands(both[1], buf, start + E[0])
        BY <3>1, <3>2
      <3>4. E[2] = E[1] + Len(both[2]) /\ Stands(both[2], buf, start + E[1])
        BY <3>1, <3>2
      <3>5. E[1] \in Nat
        BY <3>1
      <3> QED
        BY <1>5, <3>2, <3>3, <3>4, <3>5 DEF front
    <2> DEFINE la == Len(a.val)
               lb == Len(b.val)
               m == start + la
               r == m + lb
    <2>4. la \in Nat /\ lb \in Nat /\ start \in Nat
      <3>1. start \in Nat
        BY <2>1 DEF Stands
      <3> QED
        BY <1>2, <1>3, <3>1 DEF Octets
    <2>5. start + E[0] = start /\ start + E[1] = m /\ start + Len(front) = r
      <3> HIDE DEF la, lb
      <3> DEFINE x == E[0]
                 y == E[1]
                 z == Len(front)
      <3>1. x = 0 /\ y = x + la /\ z = y + lb
        BY <2>3 DEF la, lb
      <3> HIDE DEF x, y, z
      <3>2. start + x = start /\ start + y = m /\ start + z = r
        BY <2>4, <3>1
      <3> QED
        BY <3>2 DEF x, y, z
    <2>6. Stands(a.val, buf, start) /\ Stands(b.val, buf, m) /\ Stands(flat, buf, r)
      BY <2>1, <2>3, <2>5
    <2>7. ReadName(buf, start) = OkAt(mname, m)
      BY <1>2, <2>6
    <2>8. ReadName(buf, m) = OkAt(rname, r)
      <3> HIDE DEF m
      <3> QED
        BY <1>3, <2>6
    <2>9. r + 20 <= Len(buf)
      <3> HIDE DEF r
      <3> QED
        BY <1>6, <2>6 DEF Stands
    <2>10. ASSUME NEW i \in 1..5 PROVE U32At(buf, r + 4 * (i - 1)) = numbers[i]
      <3> DEFINE p == r + 4 * (i - 1)
      <3> HIDE DEF r
      <3>1. Stands(parts[i], buf, p)
        BY <1>6, <2>6
      <3> HIDE DEF p
      <3>2. Stands(U32(numbers[i]), buf, p) /\ numbers[i] \in Word32
        BY <1>4, <3>1
      <3>3. U32At(buf, p) = numbers[i]
        BY <3>2, PairsStand
      <3> QED
        BY <3>3 DEF p
    <2> HIDE DEF r, m
    <2>11. [i \in 1..5 |-> U32At(buf, r + 4 * (i - 1))] = numbers
      BY <2>10
    <2>12. m \in Nat /\ r \in Nat
      <3> HIDE DEF la, lb
      <3> QED
        BY <2>4 DEF m, r
    <2> QED
      BY <2>7, <2>8, <2>9, <2>11, <2>12
  <1> QED
    BY <1>1, <1>8, <1>9 DEF Ok, d, flat, front, parts, both, items, a, b

\* The names in the data of a record.
DataNames(type, data) ==
  IF type \in DOMAIN Words THEN {data.name}
  ELSE IF type = SOA THEN {data.mname, data.rname} ELSE {}

LEMMA WordsOfTypes ==
  /\ DOMAIN Words = {NS, CNAME, PTR, MX, SRV} /\ \A t \in DOMAIN Words : Words[t] \in Nat
  /\ \A t \in DOMAIN Words : t \notin {A, AAAA, TXT, CAA, SOA}
  BY DEF Words, A, NS, CNAME, SOA, PTR, MX, TXT, AAAA, SRV, CAA

\* The data of an address record that can be encoded is four or sixteen octets.
LEMMA FourReadAgain ==
  ASSUME NEW ip \in Octets, IsV4(ip)
  PROVE  LET d == SubSeq(ip, 13, 16) IN d \in Octets /\ Len(d) = 4 /\ V4Prefix \o d = ip
  <1> DEFINE p == SubSeq(ip, 1, 12)
             d == SubSeq(ip, 13, 16)
             w == p \o d
  <1>1. Len(ip) = 16 /\ p = V4Prefix
    BY DEF IsV4
  <1>2. p = Slice(ip, 0, 12) /\ d = Slice(ip, 12, 16)
    <2>1. 0 + 1 = 1 /\ 12 + 1 = 13
      OBVIOUS
    <2> QED
      BY <2>1 DEF Slice
  <1> HIDE DEF p, d
  <1>3. p \in Octets /\ Len(p) = 12 /\ \A k \in 1..12 : p[k] = ip[k]
    <2> DEFINE a == 0
               b == 12
    <2>1. a \in Nat /\ b \in Nat /\ a <= b /\ b <= Len(ip) /\ p = Slice(ip, a, b) /\ b - a = 12
      BY <1>1, <1>2
    <2> HIDE DEF a, b
    <2>2. p \in Octets /\ Len(p) = b - a /\ \A k \in 1..(b - a) : p[k] = ip[a + k]
      BY <2>1, SliceType
    <2>3. p \in Octets /\ Len(p) = 12 /\ \A k \in 1..12 : p[k] = ip[a + k]
      BY <2>1, <2>2
    <2> QED
      BY <2>3 DEF a
  <1>4. d \in Octets /\ Len(d) = 4 /\ \A k \in 1..4 : d[k] = ip[12 + k]
    <2> DEFINE a == 12
               b == 16
    <2>1. a \in Nat /\ b \in Nat /\ a <= b /\ b <= Len(ip) /\ d = Slice(ip, a, b) /\ b - a = 4
      BY <1>1, <1>2
    <2> HIDE DEF a, b
    <2>2. d \in Octets /\ Len(d) = b - a /\ \A k \in 1..(b - a) : d[k] = ip[a + k]
      BY <2>1, SliceType
    <2>3. d \in Octets /\ Len(d) = 4 /\ \A k \in 1..4 : d[k] = ip[a + k]
      BY <2>1, <2>2
    <2> QED
      BY <2>3 DEF a
  <1>5. /\ w \in Octets /\ Len(w) = Len(p) + Len(d)
        /\ Stands(w, w, 0) => Stands(p, w, 0) /\ Stands(d, w, 0 + Len(p))
    BY <1>3, <1>4, OctetParts
  <1> HIDE DEF w
  <1>6. Stands(p, w, 0) /\ Stands(d, w, 12) /\ Len(w) = 16
    <2>1. Stands(w, w, 0)
      BY <1>5, StandsAlone
    <2> DEFINE x == Len(p)
               y == Len(d)
    <2>2. x = 12 /\ y = 4 /\ Len(w) = x + y /\ Stands(p, w, 0) /\ Stands(d, w, 0 + x)
      BY <1>3, <1>4, <1>5, <2>1
    <2> HIDE DEF x, y
    <2>3. 0 + x = 12 /\ x + y = 16
      BY <2>2
    <2> QED
      BY <2>2, <2>3
  <1>7. ASSUME NEW i \in 1..16 PROVE w[i] = ip[i]
    <2>1. CASE i \in 1..12
      <3>1. 0 + i = i
        OBVIOUS
      <3>2. w[0 + i] = p[i]
        BY <1>3, <1>6, <2>1 DEF Stands
      <3> QED
        BY <1>3, <2>1, <3>1, <3>2
    <2>2. CASE i \notin 1..12
      <3> DEFINE k == i - 12
      <3>1. k \in 1..4 /\ 12 + k = i
        BY <2>2
      <3> HIDE DEF k
      <3>2. w[12 + k] = d[k]
        BY <1>4, <1>6, <3>1 DEF Stands
      <3> QED
        BY <1>4, <3>1, <3>2
    <2> QED
      BY <2>1, <2>2
  <1>8. w = ip
    <2> DEFINE T == 0..255
    <2>1. w \in Seq(T) /\ ip \in Seq(T) /\ Len(w) = 16 /\ Len(ip) = 16
      BY <1>1, <1>5, <1>6 DEF Octets
    <2> HIDE DEF T
    <2> QED
      BY <1>7, <2>1
  <1> QED
    BY <1>1, <1>4, <1>8 DEF w, d

\* The CAA data d holds these three.
Certifies(d, flag, tag, value) ==
  /\ d \in Octets /\ Len(d) >= 2 /\ 2 + Octet(d, 1) <= Len(d)
  /\ Octet(d, 0) = flag /\ Slice(d, 2, 2 + Octet(d, 1)) = tag
  /\ Slice(d, 2 + Octet(d, 1), Len(d)) = value

LEMMA CertificationReads ==
  ASSUME NEW flag \in 0..255, NEW tag \in Octets, NEW value \in Octets, Len(tag) < 256
  PROVE  Certifies(<<flag, Len(tag) % 256>> \o tag \o value, flag, tag, value)
  <1> DEFINE l == Len(tag)
             v == Len(value)
             h == <<flag, l % 256>>
             f == h \o tag
             d == f \o value
  <1>1. l \in Nat /\ l < 256 /\ l % 256 = l /\ v \in Nat
    <2>1. l \in Nat /\ v \in Nat
      BY DEF Octets
    <2> HIDE DEF l, v
    <2>2. l < 256
      BY DEF l
    <2> QED
      BY <2>1, <2>2
  <1>2. h = <<flag, l>> /\ h \in Octets /\ Len(h) = 2
    <2>1. h = <<flag, l>>
      BY <1>1
    <2> HIDE DEF l, h
    <2>2. l \in 0..255
      BY <1>1
    <2> QED
      BY <2>1, <2>2 DEF Octets
  <1>3. h[1] = flag /\ h[2] = l
    BY <1>2
  <1> HIDE DEF h
  <1>4. f \in Octets /\ Len(f) = 2 + l
    <2>1. h \o tag \in Octets /\ Len(h \o tag) = Len(h) + Len(tag)
      BY <1>2, OctetParts
    <2> QED
      BY <1>2, <2>1
  <1>5. /\ d \in Octets /\ Len(d) = Len(f) + v
        /\ \A buf \in Octets : \A off : Stands(d, buf, off) =>
             Stands(f, buf, off) /\ Stands(value, buf, off + Len(f))
    <2> HIDE DEF f
    <2> QED
      BY <1>4, OctetParts
  <1> HIDE DEF d
  <1>6. Stands(f, d, 0) /\ Stands(value, d, 0 + Len(f))
    BY <1>5, StandsAlone
  <1>7. Stands(h, d, 0) /\ Stands(tag, d, 0 + Len(h))
    BY <1>2, <1>5, <1>6, OctetParts
  <1> HIDE DEF f
  <1>8. 0 + Len(h) = 2 /\ 0 + Len(f) = 2 + l /\ Len(d) = (2 + l) + v
    BY <1>1, <1>2, <1>4, <1>5
  <1>9. Octet(d, 0) = flag /\ Octet(d, 1) = l
    <2>1. d[0 + 1] = h[1] /\ d[0 + 2] = h[2]
      BY <1>2, <1>7 DEF Stands
    <2>2. 0 + 1 = 1 /\ 0 + 2 = 2 /\ 1 + 1 = 2
      OBVIOUS
    <2> QED
      BY <1>3, <2>1, <2>2 DEF Octet
  <1>10. Slice(d, 2, 2 + l) = tag
    BY <1>5, <1>7, <1>8, SliceStands DEF l
  <1>11. Slice(d, 2 + l, (2 + l) + v) = value
    BY <1>5, <1>6, <1>8, SliceStands DEF v
  <1>12. Len(d) >= 2 /\ 2 + l <= Len(d)
    BY <1>1, <1>8
  <1> HIDE DEF l, v
  <1>13. Certifies(d, flag, tag, value)
    BY <1>5, <1>8, <1>9, <1>10, <1>11, <1>12 DEF Certifies
  <1> QED
    BY <1>13 DEF d, f, h, l

LEMMA AllEncoded ==
  ASSUME NEW items, EncodeAll(items).ok
  PROVE  /\ EncodeAll(items) = Ok(FlattenSeq([i \in DOMAIN items |-> items[i].val]))
         /\ \A i \in DOMAIN items : items[i].ok
  <1>1. ~Fails.ok
    BY DEF Fails
  <1>2. ~(\E i \in DOMAIN items : ~items[i].ok)
    BY <1>1 DEF EncodeAll
  <1> QED
    BY <1>2 DEF EncodeAll

LEMMA TextDataReads ==
  ASSUME NEW data \in Seq(Octets), EncodeData(TXT, data).ok
  PROVE  LET e == EncodeData(TXT, data) IN
         e = Ok(e.val) /\ e.val \in Octets /\ DecodeTXT(e.val) = Ok(data)
  <1> DEFINE n == Len(data)
             items == [i \in DOMAIN data |-> IF Len(data[i]) > 255 THEN Fails
                                             ELSE Ok(<<Len(data[i])>> \o data[i])]
             parts == [i \in 1..n |-> <<Len(data[i])>> \o data[i]]
             e == EncodeData(TXT, data)
  <1>1. n \in Nat /\ data \in [1..n -> Octets] /\ DOMAIN data = 1..n
    OBVIOUS
  <1>2. e = EncodeAll(items)
    <2> HIDE DEF items
    <2>1. TXT \notin DOMAIN Words /\ TXT \notin {A, AAAA, CAA, SOA}
      BY WordsOfTypes DEF TXT, A, AAAA, CAA, SOA
    <2> QED
      BY <2>1 DEF EncodeData, items
  <1> HIDE DEF e, n
  <1>3. e = Ok(FlattenSeq([i \in 1..n |-> items[i].val])) /\ \A i \in 1..n : items[i].ok
    <2>1. DOMAIN items = 1..n
      BY <1>1
    <2>2. e.ok
      BY DEF e
    <2> HIDE DEF items
    <2> QED
      BY <1>2, <2>1, <2>2, AllEncoded
  <1>4. ASSUME NEW i \in 1..n PROVE Len(data[i]) <= 255 /\ items[i].val = <<Len(data[i])>> \o data[i]
    <2> DEFINE u == data[i]
               l == Len(u)
               c == <<l>> \o u
    <2>1. l \in Nat
      BY <1>1 DEF Octets
    <2>2. items[i] = IF l > 255 THEN Fails ELSE Ok(c)
      BY <1>1
    <2>3. items[i].ok
      BY <1>3
    <2> HIDE DEF items, l, u, c
    <2>4. ~Fails.ok /\ Ok(c).val = c
      BY DEF Fails, Ok
    <2>5. ~(l > 255)
      BY <2>2, <2>3, <2>4
    <2>6. l <= 255 /\ items[i].val = c
      BY <2>1, <2>2, <2>4, <2>5
    <2> QED
      BY <2>6 DEF l, u, c
  <1>5. [i \in 1..n |-> items[i].val] = parts
    BY <1>4
  <1> HIDE DEF parts, items
  <1>6. e = Ok(FlattenSeq(parts))
    BY <1>3, <1>5
  <1>7. FlattenSeq(parts) \in Octets /\ DecodeTXT(FlattenSeq(parts)) = Ok(data)
    BY <1>1, <1>4, TextsRead DEF parts
  <1>8. Ok(FlattenSeq(parts)).val = FlattenSeq(parts)
    BY DEF Ok
  <1> QED
    BY <1>6, <1>7, <1>8 DEF e

LEMMA WordDataReads ==
  ASSUME NEW type \in DOMAIN Words,
         NEW data \in [words : [1..Words[type] -> Word16], name : Octets],
         EncodeData(type, data).ok, ~EndsInDot(data.name)
  PROVE  LET e == EncodeData(type, data) IN
         /\ e = Ok(e.val) /\ e.val \in Octets
         /\ \A buf \in Octets : \A start : Stands(e.val, buf, start) =>
              ReadData(buf, type, start, e.val) = Ok(data)
  <1> DEFINE words == data.words
             name == data.name
             e == EncodeData(type, data)
             w == Words[type]
             n == EncodeName(name)
             parts == [i \in 1..w |-> U16(words[i])]
             flat == FlattenSeq(parts)
             d == flat \o n.val
  <1>1. w \in Nat /\ type \in DOMAIN Words /\ type \notin {A, AAAA, TXT, CAA, SOA}
    BY WordsOfTypes
  <1>2. /\ data # NoData /\ words \in [1..w -> Word16] /\ name \in Octets
        /\ data = [words |-> words, name |-> name] /\ ~EndsInDot(name)
    <2> DEFINE V == [1..Words[type] -> Word16]
    <2> HIDE DEF V
    <2>1. data \in [words : V, name : Octets]
      BY DEF V
    <2>2. data # NoData
      BY <2>1 DEF NoData
    <2> QED
      BY <2>1, <2>2 DEF V
  <1>3. [i \in DOMAIN words |-> U16(words[i])] = parts
    BY <1>2
  <1>4. e = Then(n, LAMBDA x : Ok(FlattenSeq([i \in DOMAIN words |-> U16(words[i])]) \o x.val))
    BY <1>1, <1>2 DEF EncodeData
  <1> HIDE DEF parts, words, name
  <1>5. e = IF n.ok THEN Ok(d) ELSE Fails
    BY <1>3, <1>4 DEF Then
  <1>6. n.ok /\ e = Ok(d) /\ Ok(d).val = d
    <2>1. ~Fails.ok
      BY DEF Fails
    <2>2. e.ok
      BY DEF e
    <2> HIDE DEF e, n, d
    <2> QED
      BY <1>5, <2>1, <2>2 DEF Ok
  <1>7. /\ d \in Octets /\ Len(d) >= 2 * w /\ [i \in 1..w |-> U16At(d, 2 * (i - 1))] = words
        /\ \A buf \in Octets : \A start : Stands(d, buf, start) =>
             \E after : ReadName(buf, start + 2 * w) = OkAt(name, after)
    <2> HIDE DEF w
    <2> QED
      BY <1>1, <1>2, <1>6, WordsRead DEF parts, w
  <1> HIDE DEF d, flat, e, n
  <1>8. ASSUME NEW buf \in Octets, NEW start, Stands(d, buf, start)
        PROVE  ReadData(buf, type, start, d) = Ok(data)
    <2>1. PICK after : ReadName(buf, start + 2 * w) = OkAt(name, after)
      BY <1>7, <1>8
    <2> DEFINE r == ReadName(buf, start + 2 * w)
               W == 2 * w
               again == [i \in 1..w |-> U16At(d, 2 * (i - 1))]
    <2>2. W \in Nat /\ Len(d) \in Nat /\ ~(Len(d) < W)
      <3>1. Len(d) \in Nat /\ Len(d) >= W
        BY <1>7 DEF Octets
      <3>2. W \in Nat
        BY <1>1
      <3> HIDE DEF W
      <3> QED
        BY <3>1, <3>2
    <2>3. ReadData(buf, type, start, d) =
            IF Len(d) < W THEN Fails
            ELSE Then(r, LAMBDA x : Ok([words |-> again, name |-> x.val]))
      <3> HIDE DEF w
      <3> QED
        BY <1>1 DEF ReadData, w
    <2>4. r.ok /\ r.val = name
      BY <2>1 DEF OkAt
    <2> HIDE DEF W, r, again
    <2>5. ReadData(buf, type, start, d) = Ok([words |-> again, name |-> name])
      BY <2>2, <2>3, <2>4 DEF Then
    <2> QED
      BY <1>2, <1>7, <2>5 DEF again
  <1> QED
    BY <1>6, <1>7, <1>8 DEF e

LEMMA CertificationDataReads ==
  ASSUME NEW data \in [flag : 0..255, tag : Octets, value : Octets], Len(data.tag) < 256
  PROVE  LET e == EncodeData(CAA, data) IN
         /\ e = Ok(e.val) /\ e.val \in Octets
         /\ \A buf, start : ReadData(buf, CAA, start, e.val) = Ok(data)
  <1> DEFINE e == EncodeData(CAA, data)
             flag == data.flag
             tag == data.tag
             value == data.value
             d == <<flag, Len(tag) % 256>> \o tag \o value
             o == Octet(d, 1)
  <1>1. CAA \notin DOMAIN Words /\ CAA \notin {A, AAAA, TXT, SOA}
    BY WordsOfTypes DEF A, AAAA, TXT, CAA, SOA
  <1>2. /\ flag \in 0..255 /\ tag \in Octets /\ value \in Octets /\ data # NoData
        /\ data = [flag |-> flag, tag |-> tag, value |-> value]
    BY DEF NoData
  <1>3. e = Ok(d) /\ Ok(d).val = d
    <2>1. e = Ok(d)
      BY <1>1, <1>2 DEF EncodeData
    <2> HIDE DEF e, d
    <2> QED
      BY <2>1 DEF Ok
  <1> HIDE DEF flag, tag, value
  <1>4. /\ d \in Octets /\ Len(d) >= 2 /\ 2 + o <= Len(d) /\ Octet(d, 0) = flag
        /\ Slice(d, 2, 2 + o) = tag /\ Slice(d, 2 + o, Len(d)) = value
    <2>1. flag \in 0..255 /\ tag \in Octets /\ value \in Octets /\ Len(tag) < 256
      BY <1>2 DEF tag
    <2>2. Certifies(d, flag, tag, value)
      BY <2>1, CertificationReads
    <2> HIDE DEF d
    <2> QED
      BY <2>2 DEF Certifies
  <1> HIDE DEF d, e
  <1>5. ASSUME NEW buf, NEW start PROVE ReadData(buf, CAA, start, d) = Ok(data)
    <2> DEFINE l == Len(d)
               x == 2 + o
    <2>1. ReadData(buf, CAA, start, d) =
            IF l < 2 \/ x > l THEN Fails
            ELSE Ok([flag |-> Octet(d, 0), tag |-> Slice(d, 2, x), value |-> Slice(d, x, l)])
      BY <1>1 DEF ReadData
    <2>2. l \in Nat /\ ~(l < 2) /\ ~(x > l)
      <3>1. l \in Nat /\ l >= 2 /\ x <= l
        BY <1>4 DEF Octets
      <3>2. o \in 0..255
        <4>1. 2 \in 1..l /\ 1 + 1 = 2
          <5> HIDE DEF l, x
          <5> QED
            BY <3>1
        <4> DEFINE T == 0..255
        <4>2. d \in Seq(T)
          BY <1>4 DEF Octets
        <4> HIDE DEF T
        <4>3. d[2] \in T
          BY <4>1, <4>2
        <4> USE DEF T
        <4> QED
          BY <4>1, <4>3 DEF Octet
      <3> HIDE DEF l, o
      <3> QED
        BY <3>1, <3>2
    <2> HIDE DEF l, x, o
    <2> QED
      BY <1>2, <1>4, <2>1, <2>2 DEF l, x
  <1> QED
    BY <1>3, <1>4, <1>5 DEF e

LEMMA AuthorityDataReads ==
  ASSUME NEW data \in [mname : Octets, rname : Octets, numbers : [1..5 -> Word32]],
         EncodeData(SOA, data).ok, ~EndsInDot(data.mname), ~EndsInDot(data.rname)
  PROVE  LET e == EncodeData(SOA, data) IN
         /\ e = Ok(e.val) /\ e.val \in Octets
         /\ \A buf \in Octets : \A start : Stands(e.val, buf, start) =>
              ReadData(buf, SOA, start, e.val) = Ok(data)
  <1> DEFINE e == EncodeData(SOA, data)
             mname == data.mname
             rname == data.rname
             numbers == data.numbers
             names == EncodeAll(<<EncodeName(mname), EncodeName(rname)>>)
             flat == FlattenSeq([i \in 1..5 |-> U32(numbers[i])])
             d == names.val \o flat
  <1>1. SOA \notin DOMAIN Words /\ SOA \notin {A, AAAA, TXT, CAA}
    BY WordsOfTypes DEF A, AAAA, TXT, CAA, SOA
  <1>2. /\ mname \in Octets /\ rname \in Octets /\ numbers \in [1..5 -> Word32] /\ data # NoData
        /\ data = [mname |-> mname, rname |-> rname, numbers |-> numbers]
    <2> DEFINE N == [1..5 -> Word32]
    <2> HIDE DEF N
    <2>1. data \in [mname : Octets, rname : Octets, numbers : N]
      BY DEF N
    <2>2. data # NoData
      BY <2>1 DEF NoData
    <2>3. /\ mname \in Octets /\ rname \in Octets /\ numbers \in N
          /\ data = [mname |-> mname, rname |-> rname, numbers |-> numbers]
      BY <2>1
    <2> QED
      BY <2>2, <2>3 DEF N
  <1>3. e = IF names.ok THEN Ok(d) ELSE Fails
    <2>1. DOMAIN numbers = 1..5
      BY <1>2
    <2>2. e = Then(names, LAMBDA x :
                Ok(x.val \o FlattenSeq([i \in DOMAIN numbers |-> U32(numbers[i])])))
      BY <1>1, <1>2 DEF EncodeData
    <2> QED
      BY <2>1, <2>2 DEF Then
  <1> HIDE DEF mname, rname, numbers, names, flat
  <1>4. names.ok /\ e = Ok(d) /\ Ok(d).val = d
    <2>1. ~Fails.ok
      BY DEF Fails
    <2>2. e.ok
      BY DEF e
    <2> HIDE DEF e, d
    <2> QED
      BY <1>3, <2>1, <2>2 DEF Ok
  <1>5. /\ d \in Octets
        /\ \A buf \in Octets : \A start : Stands(d, buf, start) =>
             \E m, r \in Nat :
               /\ ReadName(buf, start) = OkAt(mname, m)
               /\ ReadName(buf, m) = OkAt(rname, r) /\ r + 20 <= Len(buf)
               /\ [i \in 1..5 |-> U32At(buf, r + 4 * (i - 1))] = numbers
    <2>1. ~EndsInDot(mname) /\ ~EndsInDot(rname) /\ EncodeAll(<<EncodeName(mname), EncodeName(rname)>>).ok
      BY <1>4 DEF mname, rname, names
    <2> HIDE DEF d
    <2> QED
      BY <1>2, <2>1, StartOfAuthorityReads DEF d, names, flat
  <1> HIDE DEF d, e
  <1>6. ASSUME NEW buf \in Octets, NEW start, Stands(d, buf, start)
        PROVE  ReadData(buf, SOA, start, d) = Ok(data)
    <2>1. PICK m, r \in Nat :
            /\ ReadName(buf, start) = OkAt(mname, m)
            /\ ReadName(buf, m) = OkAt(rname, r) /\ r + 20 <= Len(buf)
            /\ [i \in 1..5 |-> U32At(buf, r + 4 * (i - 1))] = numbers
      BY <1>5, <1>6
    <2>2. ReadData(buf, SOA, start, d) =
            Then(OkAt(mname, m), LAMBDA x : Then(ReadName(buf, x.after), LAMBDA y :
              IF y.after + 20 > Len(buf) THEN Fails
              ELSE Ok([mname |-> x.val, rname |-> y.val,
                       numbers |-> [i \in 1..5 |-> U32At(buf, y.after + 4 * (i - 1))]])))
      BY <1>1, <2>1 DEF ReadData
    <2>3. \A v, w : OkAt(v, w).ok /\ OkAt(v, w).val = v /\ OkAt(v, w).after = w
      BY DEF OkAt
    <2>4. ReadData(buf, SOA, start, d) =
            IF r + 20 > Len(buf) THEN Fails
            ELSE Ok([mname |-> mname, rname |-> rname,
                     numbers |-> [i \in 1..5 |-> U32At(buf, r + 4 * (i - 1))]])
      <3> HIDE DEF mname, rname
      <3> DEFINE Numbers(p) == [i \in 1..5 |-> U32At(buf, p + 4 * (i - 1))]
      <3>1. ReadData(buf, SOA, start, d) =
              Then(OkAt(mname, m), LAMBDA x : Then(ReadName(buf, x.after), LAMBDA y :
                IF y.after + 20 > Len(buf) THEN Fails
                ELSE Ok([mname |-> x.val, rname |-> y.val, numbers |-> Numbers(y.after)])))
        BY <2>2
      <3> HIDE DEF Numbers
      <3>2. ReadData(buf, SOA, start, d) =
              IF r + 20 > Len(buf) THEN Fails
              ELSE Ok([mname |-> mname, rname |-> rname, numbers |-> Numbers(r)])
        BY <2>1, <2>3, <3>1 DEF Then
      <3> QED
        BY <3>2 DEF Numbers
    <2> HIDE DEF mname, rname, numbers
    <2>5. ~(r + 20 > Len(buf))
      <3> DEFINE b == Len(buf)
      <3>1. b \in Nat /\ r + 20 <= b
        BY <2>1 DEF Octets
      <3> HIDE DEF b
      <3>2. ~(r + 20 > b)
        BY <3>1
      <3> QED
        BY <3>2 DEF b
    <2> QED
      BY <1>2, <2>1, <2>4, <2>5
  <1> QED
    BY <1>4, <1>5, <1>6 DEF e

\* What the encoder made of the data of a record, the decoder reads as that data.
DataReadsBack(e, type, data) ==
  /\ e = Ok(e.val) /\ e.val \in Octets
  /\ \A buf \in Octets : \A start : Stands(e.val, buf, start) =>
       ReadData(buf, type, start, e.val) = Ok(data)

LEMMA DataReads ==
  ASSUME NEW type, NEW data \in DataOf(type), EncodeData(type, data).ok,
         \A name \in DataNames(type, data) : ~EndsInDot(name),
         type = CAA => Len(data.tag) < 256
  PROVE  DataReadsBack(EncodeData(type, data), type, data)
  <1> DEFINE e == EncodeData(type, data)
  <1> SUFFICES /\ e = Ok(e.val) /\ e.val \in Octets
               /\ \A buf \in Octets : \A start : Stands(e.val, buf, start) =>
                    ReadData(buf, type, start, e.val) = Ok(data)
    <2> HIDE DEF e
    <2> QED
      BY DEF DataReadsBack, e
  <1>0. /\ ~Fails.ok /\ e.ok
        /\ \A v : Ok(v).val = v
    BY DEF Fails, Ok
  <1>1. CASE type = A
    <2> DEFINE d == SubSeq(data, 13, 16)
    <2>1. A \notin DOMAIN Words /\ A \notin {AAAA, TXT, CAA, SOA}
      BY WordsOfTypes DEF A, AAAA, TXT, CAA, SOA
    <2>2. data \in Octets
      BY <1>1, <2>1 DEF DataOf
    <2>3. e = IF IsV4(data) THEN Ok(d) ELSE Fails
      BY <1>1, <2>1 DEF EncodeData
    <2> HIDE DEF d, e
    <2>4. IsV4(data) /\ e = Ok(d) /\ e.val = d
      BY <1>0, <2>3
    <2>5. d \in Octets /\ Len(d) = 4 /\ V4Prefix \o d = data
      BY <2>2, <2>4, FourReadAgain DEF d
    <2>6. \A buf, start : ReadData(buf, A, start, d) = Ok(data)
      BY <2>1, <2>5 DEF ReadData
    <2> QED
      BY <1>1, <2>4, <2>5, <2>6 DEF e
  <1>2. CASE type = AAAA
    <2>1. AAAA \notin DOMAIN Words /\ AAAA \notin {A, TXT, CAA, SOA}
      BY WordsOfTypes DEF A, AAAA, TXT, CAA, SOA
    <2>2. data \in Octets
      BY <1>2, <2>1 DEF DataOf
    <2>3. e = IF Len(data) = 16 THEN Ok(data) ELSE Fails
      BY <1>2, <2>1 DEF EncodeData
    <2> HIDE DEF e
    <2>4. Len(data) = 16 /\ e = Ok(data) /\ e.val = data
      BY <1>0, <2>3
    <2>5. \A buf, start : ReadData(buf, AAAA, start, data) = Ok(data)
      BY <2>1, <2>4 DEF ReadData
    <2> QED
      BY <1>2, <2>2, <2>4, <2>5 DEF e
  <1>3. CASE type = TXT
    <2>1. TXT \notin DOMAIN Words /\ TXT \notin {A, AAAA, CAA, SOA}
      BY WordsOfTypes DEF A, AAAA, TXT, CAA, SOA
    <2>2. data \in Seq(Octets)
      BY <1>3, <2>1 DEF DataOf
    <2>3. e = Ok(e.val) /\ e.val \in Octets /\ DecodeTXT(e.val) = Ok(data)
      BY <1>3, <2>2, TextDataReads
    <2> DEFINE d == e.val
    <2> HIDE DEF d
    <2>4. \A buf, start : ReadData(buf, TXT, start, d) = DecodeTXT(d)
      BY <2>1 DEF ReadData
    <2> QED
      BY <1>3, <2>3, <2>4 DEF d
  <1>4. CASE type \in DOMAIN Words
    <2>1. type \notin {A, AAAA, TXT, CAA, SOA}
      BY <1>4, WordsOfTypes
    <2> DEFINE Holds == [words : [1..Words[type] -> Word16], name : Octets]
    <2>2. data \in {NoData} \union Holds
      BY <1>4, <2>1 DEF DataOf
    <2>3. data # NoData
      <3> SUFFICES ASSUME data = NoData PROVE FALSE
        OBVIOUS
      <3>1. e = Fails
        BY <2>1 DEF EncodeData
      <3> HIDE DEF e
      <3> QED
        BY <1>0, <3>1
    <2>4. data \in Holds
      BY <2>2, <2>3
    <2>5. ~EndsInDot(data.name)
      BY <1>4 DEF DataNames
    <2> QED
      BY <1>0, <1>4, <2>4, <2>5, WordDataReads
  <1>5. CASE type = CAA
    <2>1. CAA \notin DOMAIN Words /\ CAA \notin {A, AAAA, TXT, SOA}
      BY WordsOfTypes DEF A, AAAA, TXT, CAA, SOA
    <2> DEFINE Holds == [flag : 0..255, tag : Octets, value : Octets]
    <2>2. data \in {NoData} \union Holds
      BY <1>5, <2>1 DEF DataOf
    <2>3. data # NoData
      <3> SUFFICES ASSUME data = NoData PROVE FALSE
        OBVIOUS
      <3>1. e = Fails
        BY <1>5, <2>1 DEF EncodeData
      <3> HIDE DEF e
      <3> QED
        BY <1>0, <3>1
    <2> QED
      BY <1>5, <2>2, <2>3, CertificationDataReads
  <1>6. CASE type = SOA
    <2>1. SOA \notin DOMAIN Words /\ SOA \notin {A, AAAA, TXT, CAA}
      BY WordsOfTypes DEF A, AAAA, TXT, CAA, SOA
    <2> DEFINE Holds == [mname : Octets, rname : Octets, numbers : [1..5 -> Word32]]
    <2>2. data \in {NoData} \union Holds
      BY <1>6, <2>1 DEF DataOf
    <2>3. data # NoData
      <3> SUFFICES ASSUME data = NoData PROVE FALSE
        OBVIOUS
      <3>1. e = Fails
        BY <1>6, <2>1 DEF EncodeData
      <3> HIDE DEF e
      <3> QED
        BY <1>0, <3>1
    <2>4. ~EndsInDot(data.mname) /\ ~EndsInDot(data.rname)
      BY <1>6, <2>1 DEF DataNames
    <2> QED
      BY <1>0, <1>6, <2>2, <2>3, <2>4, AuthorityDataReads
  <1>7. CASE type \notin DOMAIN Words /\ type \notin {A, AAAA, TXT, CAA, SOA}
    <2>1. e = Fails
      BY <1>7 DEF EncodeData
    <2> HIDE DEF e
    <2> QED
      BY <1>0, <2>1
  <1> QED
    BY <1>1, <1>2, <1>3, <1>4, <1>5, <1>6, <1>7

\* s is a name, the fixed part of a record and its data: where it stands, they do.
RecordOf(s, n, t, c, l, z, d) ==
  /\ s \in Octets /\ Len(s) = Len(n) + 10 + Len(d)
  /\ \A buf \in Octets : \A off : Stands(s, buf, off) =>
       /\ off \in Nat /\ Stands(n, buf, off) /\ Stands(t, buf, off + Len(n))
       /\ Stands(l, buf, off + Len(n) + 4) /\ Stands(z, buf, off + Len(n) + 8)
       /\ Stands(d, buf, off + Len(n) + 10)

LEMMA RecordParts ==
  ASSUME NEW n \in Octets, NEW t \in Octets, NEW c \in Octets, NEW l \in Octets, NEW z \in Octets,
         NEW d \in Octets, Len(t) = 2, Len(c) = 2, Len(l) = 4, Len(z) = 2
  PROVE  RecordOf(n \o t \o c \o l \o z \o d, n, t, c, l, z, d)
  <1> DEFINE s1 == n \o t
             s2 == s1 \o c
             s3 == s2 \o l
             s4 == s3 \o z
             s == s4 \o d
             m == Len(n)
             k == Len(d)
  <1>1. /\ s1 \in Octets /\ Len(s1) = m + 2 /\ m \in Nat /\ k \in Nat
        /\ \A buf \in Octets : \A off : Stands(s1, buf, off) =>
             Stands(n, buf, off) /\ Stands(t, buf, off + m)
    <2>1. k \in Nat
      BY DEF Octets
    <2>2. /\ s1 \in Octets /\ Len(s1) = Len(n) + Len(t) /\ Len(n) \in Nat
          /\ \A buf \in Octets : \A off : Stands(s1, buf, off) =>
               Stands(n, buf, off) /\ Stands(t, buf, off + Len(n))
      BY OctetParts
    <2> QED
      BY <2>1, <2>2
  <1> HIDE DEF s1
  <1>2. /\ s2 \in Octets /\ Len(s2) = Len(s1) + 2
        /\ \A buf \in Octets : \A off : Stands(s2, buf, off) =>
             Stands(s1, buf, off) /\ Stands(c, buf, off + Len(s1))
    <2>1. s1 \in Octets
      BY <1>1
    <2>2. /\ s2 \in Octets /\ Len(s2) = Len(s1) + Len(c)
          /\ \A buf \in Octets : \A off : Stands(s2, buf, off) =>
               Stands(s1, buf, off) /\ Stands(c, buf, off + Len(s1))
      BY <2>1, OctetParts
    <2> QED
      BY <2>2
  <1> HIDE DEF s2
  <1>3. /\ s3 \in Octets /\ Len(s3) = Len(s2) + 4
        /\ \A buf \in Octets : \A off : Stands(s3, buf, off) =>
             Stands(s2, buf, off) /\ Stands(l, buf, off + Len(s2))
    <2>1. s2 \in Octets
      BY <1>2
    <2>2. /\ s3 \in Octets /\ Len(s3) = Len(s2) + Len(l)
          /\ \A buf \in Octets : \A off : Stands(s3, buf, off) =>
               Stands(s2, buf, off) /\ Stands(l, buf, off + Len(s2))
      BY <2>1, OctetParts
    <2> QED
      BY <2>2
  <1> HIDE DEF s3
  <1>4. /\ s4 \in Octets /\ Len(s4) = Len(s3) + 2
        /\ \A buf \in Octets : \A off : Stands(s4, buf, off) =>
             Stands(s3, buf, off) /\ Stands(z, buf, off + Len(s3))
    <2>1. s3 \in Octets
      BY <1>3
    <2>2. /\ s4 \in Octets /\ Len(s4) = Len(s3) + Len(z)
          /\ \A buf \in Octets : \A off : Stands(s4, buf, off) =>
               Stands(s3, buf, off) /\ Stands(z, buf, off + Len(s3))
      BY <2>1, OctetParts
    <2> QED
      BY <2>2
  <1> HIDE DEF s4
  <1>5. /\ s \in Octets /\ Len(s) = Len(s4) + k
        /\ \A buf \in Octets : \A off : Stands(s, buf, off) =>
             Stands(s4, buf, off) /\ Stands(d, buf, off + Len(s4))
    BY <1>4, OctetParts
  <1> HIDE DEF s
  <1> DEFINE l1 == Len(s1)
             l2 == Len(s2)
             l3 == Len(s3)
             l4 == Len(s4)
  <1>6. l2 = m + 4 /\ l3 = m + 8 /\ l4 = m + 10 /\ Len(s) = m + 10 + k
    <2>1. l1 = m + 2 /\ l2 = l1 + 2 /\ l3 = l2 + 4 /\ l4 = l3 + 2 /\ Len(s) = l4 + k
      BY <1>1, <1>2, <1>3, <1>4, <1>5
    <2>2. m \in Nat /\ k \in Nat
      BY <1>1
    <2> HIDE DEF l1, l2, l3, l4, m, k
    <2> QED
      BY <2>1, <2>2
  <1>7. ASSUME NEW buf \in Octets, NEW off, Stands(s, buf, off)
        PROVE  /\ off \in Nat /\ Stands(n, buf, off) /\ Stands(t, buf, off + m)
               /\ Stands(l, buf, off + m + 4) /\ Stands(z, buf, off + m + 8)
               /\ Stands(d, buf, off + m + 10)
    <2>1. Stands(s4, buf, off) /\ Stands(d, buf, off + l4)
      BY <1>5, <1>7
    <2>2. Stands(s3, buf, off) /\ Stands(z, buf, off + l3)
      BY <1>4, <2>1
    <2>3. Stands(s2, buf, off) /\ Stands(l, buf, off + l2)
      BY <1>3, <2>2
    <2>4. Stands(s1, buf, off)
      BY <1>2, <2>3
    <2>5. Stands(n, buf, off) /\ Stands(t, buf, off + m)
      BY <1>1, <2>4
    <2>6. off \in Nat
      BY <2>5 DEF Stands
    <2> HIDE DEF l2, l3, l4, m
    <2>7. m \in Nat
      BY <1>1 DEF m
    <2>8. off + l4 = off + m + 10 /\ off + l3 = off + m + 8 /\ off + l2 = off + m + 4
      BY <1>6, <2>6, <2>7
    <2> QED
      BY <2>1, <2>2, <2>3, <2>5, <2>6, <2>8
  <1>8. RecordOf(s, n, t, c, l, z, d)
    BY <1>5, <1>6, <1>7 DEF RecordOf
  <1> QED
    BY <1>8 DEF s, s4, s3, s2, s1

\* The fields of this record are not too small for it, and no name in it ends in a dot.
RecordFits(rr) ==
  LET d == EncodeData(rr.type, rr.data) IN
  d.ok => Len(d.val) < 65536 /\ (rr.type = CAA => Len(rr.data.tag) < 256)

NoDots(rr) == \A name \in {rr.name} \union DataNames(rr.type, rr.data) : ~EndsInDot(name)

ReadItem(isQuestion, buf, off) ==
  IF isQuestion THEN ReadQuestion(buf, off) ELSE ReadRecord(buf, off)

\* What the encoder made of an item, the decoder reads as that item, wherever it stands.
ReadsBack(e, isQuestion, item) ==
  /\ e = Ok(e.val) /\ e.val \in Octets
  /\ \A buf \in Octets : \A off : Stands(e.val, buf, off) =>
       ReadItem(isQuestion, buf, off) = OkAt(item, off + Len(e.val))

LEMMA QuestionReads ==
  ASSUME NEW q \in [name : Octets, type : Word16], EncodeQuestion(q).ok, ~EndsInDot(q.name)
  PROVE  ReadsBack(EncodeQuestion(q), TRUE, q)
  <1> DEFINE e == EncodeQuestion(q)
             name == q.name
             type == q.type
             n == EncodeName(name)
             v == n.val
             t == U16(type)
             c == U16(ClassIN)
             s1 == v \o t
             s == s1 \o c
             m == Len(v)
  <1>0. ~Fails.ok /\ \A x : Ok(x).val = x
    BY DEF Fails, Ok
  <1>1. name \in Octets /\ type \in Word16 /\ q = [name |-> name, type |-> type]
    OBVIOUS
  <1>2. n.ok /\ e = Ok(s)
    <2>1. e = IF n.ok THEN Ok(s) ELSE Fails
      BY DEF EncodeQuestion, Then
    <2>2. e.ok
      OBVIOUS
    <2> HIDE DEF e, n, s
    <2> QED
      BY <1>0, <2>1, <2>2
  <1>3. /\ v \in Octets
        /\ \A buf \in Octets : \A off : Stands(v, buf, off) => ReadName(buf, off) = OkAt(name, off + m)
    BY <1>1, <1>2, NameReads
  <1>4. t \in Octets /\ Len(t) = 2 /\ \A buf, off : Stands(t, buf, off) => U16At(buf, off) = type
    BY <1>1, NumbersStand
  <1>5. c \in Octets /\ Len(c) = 2
    <2>1. ClassIN \in Word16
      BY DEF ClassIN, Word16
    <2> QED
      BY <2>1, NumbersStand
  <1> HIDE DEF e, name, type, n, v, t, c
  <1>6. /\ s1 \in Octets /\ Len(s1) = m + 2 /\ m \in Nat
        /\ \A buf \in Octets : \A off : Stands(s1, buf, off) =>
             Stands(v, buf, off) /\ Stands(t, buf, off + m)
    <2>1. /\ s1 \in Octets /\ Len(s1) = Len(v) + Len(t) /\ Len(v) \in Nat
          /\ \A buf \in Octets : \A off : Stands(s1, buf, off) =>
               Stands(v, buf, off) /\ Stands(t, buf, off + Len(v))
      BY <1>3, <1>4, OctetParts
    <2> QED
      BY <1>4, <2>1
  <1> HIDE DEF s1
  <1>7. /\ s \in Octets /\ Len(s) = m + 4
        /\ \A buf \in Octets : \A off : Stands(s, buf, off) => Stands(s1, buf, off)
    <2>1. /\ s \in Octets /\ Len(s) = Len(s1) + Len(c)
          /\ \A buf \in Octets : \A off : Stands(s, buf, off) => Stands(s1, buf, off)
      BY <1>5, <1>6, OctetParts
    <2> DEFINE a == Len(s1)
               b == Len(c)
    <2>2. a = m + 2 /\ b = 2 /\ m \in Nat
      BY <1>5, <1>6
    <2> HIDE DEF a, b, m
    <2>3. a + b = m + 4
      BY <2>2
    <2> QED
      BY <2>1, <2>3 DEF a, b
  <1> HIDE DEF s
  <1>8. ASSUME NEW buf \in Octets, NEW off, Stands(s, buf, off)
        PROVE  ReadQuestion(buf, off) = OkAt(q, off + Len(s))
    <2> DEFINE p == off + m
               b == Len(buf)
    <2>1. off \in Nat /\ off + Len(s) <= b /\ b \in Nat
      BY <1>8 DEF Stands, Octets
    <2>2. Stands(s1, buf, off)
      BY <1>7, <1>8
    <2>3. Stands(v, buf, off) /\ Stands(t, buf, p)
      BY <1>6, <2>2
    <2>4. ReadName(buf, off) = OkAt(name, p) /\ U16At(buf, p) = type
      BY <1>3, <1>4, <2>3
    <2> HIDE DEF b
    <2>5. p + 4 = off + Len(s) /\ ~(p + 4 > b)
      <3> DEFINE L == Len(s)
      <3>1. L = m + 4 /\ off + L <= b /\ m \in Nat
        BY <1>6, <1>7, <2>1
      <3> HIDE DEF L, m
      <3>2. p + 4 = off + L /\ ~(p + 4 > b)
        BY <2>1, <3>1
      <3> QED
        BY <3>2 DEF L
    <2> HIDE DEF p
    <2>6. OkAt(name, p).ok /\ OkAt(name, p).val = name /\ OkAt(name, p).after = p
      BY DEF OkAt
    <2>7. ReadQuestion(buf, off) =
            IF p + 4 > b THEN Fails
            ELSE OkAt([name |-> name, type |-> U16At(buf, p)], p + 4)
      BY <2>4, <2>6 DEF ReadQuestion, Then, b
    <2> QED
      BY <1>1, <2>4, <2>5, <2>7
  <1>9. e.val = s
    BY <1>0, <1>2
  <1> QED
    BY <1>2, <1>7, <1>8, <1>9 DEF ReadsBack, ReadItem, e

LEMMA RecordReads ==
  ASSUME NEW rr, IsRecord(rr), EncodeRecord(rr).ok, RecordFits(rr), NoDots(rr)
  PROVE  ReadsBack(EncodeRecord(rr), FALSE, rr)
  <1> DEFINE r == EncodeRecord(rr)
             name == rr.name
             type == rr.type
             ttl == rr.ttl
             data == rr.data
             en == EncodeName(name)
             ed == EncodeData(type, data)
             n == en.val
             d == ed.val
             t == U16(type)
             c == U16(ClassIN)
             l == U32(ttl)
             k == Len(d)
             z == U16(k % 65536)
             s == n \o t \o c \o l \o z \o d
             m == Len(n)
  <1>0. ~Fails.ok /\ \A x : Ok(x).val = x
    BY DEF Fails, Ok
  <1>1. /\ name \in Octets /\ type \in Word16 /\ ttl \in Word32 /\ data \in DataOf(type)
        /\ rr = [name |-> name, type |-> type, ttl |-> ttl, data |-> data]
    <2> DEFINE D == DataOf(rr.type)
    <2>1. rr \in [name : Octets, type : Word16, ttl : Word32, data : D]
      BY DEF IsRecord
    <2> HIDE DEF D
    <2>2. /\ name \in Octets /\ type \in Word16 /\ ttl \in Word32 /\ data \in D
          /\ rr = [name |-> name, type |-> type, ttl |-> ttl, data |-> data]
      BY <2>1
    <2> QED
      BY <2>2 DEF D
  <1>2. en.ok /\ ed.ok /\ r = Ok(s)
    <2>1. r = IF en.ok THEN IF ed.ok THEN Ok(s) ELSE Fails ELSE Fails
      BY DEF EncodeRecord, Then
    <2>2. r.ok
      OBVIOUS
    <2> HIDE DEF r, en, ed, s
    <2> QED
      BY <1>0, <2>1, <2>2
  <1>3. ~EndsInDot(name) /\ \A x \in DataNames(type, data) : ~EndsInDot(x)
    BY DEF NoDots
  <1>4. k < 65536 /\ (type = CAA => Len(data.tag) < 256)
    BY <1>2 DEF RecordFits
  <1>5. /\ n \in Octets
        /\ \A buf \in Octets : \A off : Stands(n, buf, off) => ReadName(buf, off) = OkAt(name, off + m)
    BY <1>1, <1>2, <1>3, NameReads
  <1>6. /\ d \in Octets
        /\ \A buf \in Octets : \A off : Stands(d, buf, off) => ReadData(buf, type, off, d) = Ok(data)
    <2>1. data \in DataOf(type) /\ ed.ok
      BY <1>1, <1>2
    <2> HIDE DEF type, data
    <2>2. DataReadsBack(EncodeData(type, data), type, data)
      BY <1>3, <1>4, <2>1, DataReads
    <2> HIDE DEF ed
    <2> QED
      BY <2>2 DEF DataReadsBack, ed
  <1>7. t \in Octets /\ Len(t) = 2 /\ \A buf, off : Stands(t, buf, off) => U16At(buf, off) = type
    BY <1>1, NumbersStand
  <1>8. c \in Octets /\ Len(c) = 2
    <2>1. ClassIN \in Word16
      BY DEF ClassIN, Word16
    <2> QED
      BY <2>1, NumbersStand
  <1>9. /\ l \in Octets /\ Len(l) = 4
        /\ \A buf \in Octets : \A off : Stands(l, buf, off) => U32At(buf, off) = ttl
    <2> HIDE DEF n, ttl
    <2> QED
      BY <1>1, <1>5, PairsStand
  <1>10. z \in Octets /\ Len(z) = 2 /\ \A buf, off : Stands(z, buf, off) => U16At(buf, off) = k
    <2>1. k \in Nat
      BY <1>6 DEF Octets
    <2> HIDE DEF k
    <2>2. k % 65536 = k /\ k \in Word16
      BY <1>4, <2>1 DEF Word16
    <2> QED
      BY <2>2, NumbersStand
  <1> HIDE DEF r, name, type, ttl, data, en, ed, n, d, t, c, l, z
  <1>11. RecordOf(s, n, t, c, l, z, d)
    BY <1>5, <1>6, <1>7, <1>8, <1>9, <1>10, RecordParts
  <1> HIDE DEF s
  <1>12. s \in Octets /\ Len(s) = m + 10 + k /\ m \in Nat /\ k \in Nat
    <2>1. m \in Nat /\ k \in Nat
      BY <1>5, <1>6 DEF Octets
    <2> QED
      BY <1>11, <2>1 DEF RecordOf
  <1>13. ASSUME NEW buf \in Octets, NEW off, Stands(s, buf, off)
         PROVE  ReadRecord(buf, off) = OkAt(rr, off + Len(s))
    <2> DEFINE p == off + m
               start == p + 10
               end == start + k
               b == Len(buf)
    <2>1. off \in Nat /\ off + Len(s) <= b /\ b \in Nat
      BY <1>13 DEF Stands, Octets
    <2>2. /\ Stands(n, buf, off) /\ Stands(t, buf, p) /\ Stands(l, buf, p + 4)
          /\ Stands(z, buf, p + 8) /\ Stands(d, buf, start)
      BY <1>11, <1>13 DEF RecordOf
    <2> HIDE DEF b
    <2>3. end = off + Len(s) /\ ~(end > b) /\ ~(p + 10 > b)
      <3> DEFINE L == Len(s)
      <3>1. L = m + 10 + k /\ off + L <= b /\ m \in Nat /\ k \in Nat
        BY <1>12, <2>1
      <3> HIDE DEF L, m, k
      <3>2. end = off + L /\ ~(end > b) /\ ~(p + 10 > b)
        BY <2>1, <3>1
      <3> QED
        BY <3>2 DEF L
    <2>4. Slice(buf, start, end) = d
      BY <1>6, <2>2, SliceStands
    <2> HIDE DEF start, p
    <2>5. ReadName(buf, off) = OkAt(name, p)
      BY <1>5, <2>2 DEF p
    <2>6. /\ U16At(buf, p) = type /\ U32At(buf, p + 4) = ttl /\ U16At(buf, p + 8) = k
          /\ ReadData(buf, type, start, d) = Ok(data)
      BY <1>6, <1>7, <1>9, <1>10, <2>2
    <2>7. OkAt(name, p).ok /\ OkAt(name, p).val = name /\ OkAt(name, p).after = p
          /\ Ok(data).ok /\ Ok(data).val = data
      BY DEF OkAt, Ok
    <2>8. ReadRecord(buf, off) = ReadRest(buf, name, p)
      BY <2>3, <2>5, <2>7 DEF ReadRecord, Then, b
    <2>9. ReadRest(buf, name, p) = OkAt([name |-> name, type |-> type, ttl |-> ttl, data |-> data], end)
      <3>1. p + 10 = start
        BY DEF start
      <3> HIDE DEF k
      <3> QED
        BY <2>3, <2>4, <2>6, <2>7, <3>1 DEF ReadRest, Then, b
    <2> QED
      BY <1>1, <2>3, <2>8, <2>9
  <1>14. r.val = s
    BY <1>0, <1>2
  <1> QED
    BY <1>2, <1>12, <1>13, <1>14 DEF ReadsBack, ReadItem, r

(* What is decoded is a message: it can be encoded again. *)

\* The data that is read is data of the record's type.
DataTyped(r, type) == r = Ok(r.val) /\ r.val \in DataOf(type)

LEMMA WordDataTyped ==
  ASSUME NEW type \in DOMAIN Words, NEW buf \in Octets, NEW start \in Nat, NEW d \in Octets,
         start + Len(d) <= Len(buf), ReadData(buf, type, start, d).ok
  PROVE  DataTyped(ReadData(buf, type, start, d), type)
  <1> DEFINE r == ReadData(buf, type, start, d)
             w == Words[type]
             W == 2 * w
             L == Len(d)
             n == ReadName(buf, start + W)
             words == [i \in 1..w |-> U16At(d, 2 * (i - 1))]
             data == [words |-> words, name |-> n.val]
  <1>0. ~Fails.ok /\ \A x : Ok(x).val = x
    BY DEF Fails, Ok
  <1>1. w \in Nat /\ type \notin {A, AAAA, TXT, CAA, SOA}
    BY WordsOfTypes
  <1>2. r = IF L < W THEN Fails ELSE Then(n, LAMBDA x : Ok([words |-> words, name |-> x.val]))
    <2> HIDE DEF w, L
    <2> QED
      BY <1>1 DEF ReadData, w, L
  <1>3. r = IF L < W THEN Fails ELSE IF n.ok THEN Ok(data) ELSE Fails
    <2> HIDE DEF r, W, L, n, words
    <2> QED
      BY <1>2 DEF Then
  <1>4. r.ok
    OBVIOUS
  <1> HIDE DEF r
  <1>5. ~(L < W) /\ n.ok /\ r = Ok(data) /\ r.val = data
    <2> HIDE DEF W, L, n, data
    <2> QED
      BY <1>0, <1>3, <1>4
  <1>6. L \in Nat /\ W \in Nat /\ W <= L
    <2>1. L \in Nat /\ W \in Nat
      BY <1>1 DEF Octets
    <2> HIDE DEF L, W
    <2> QED
      BY <1>5, <2>1
  <1>7. n.val \in Octets
    <2> DEFINE off == start + W
    <2>1. off \in 0..Len(buf)
      <3> DEFINE b == Len(buf)
      <3>1. b \in Nat /\ start + L <= b
        BY DEF Octets
      <3> HIDE DEF b, W, L
      <3>2. off \in 0..b
        BY <1>6, <3>1
      <3> QED
        BY <3>2 DEF b
    <2> HIDE DEF off
    <2> QED
      BY <1>5, <2>1, NameType DEF off
  <1>8. words \in [1..w -> Word16]
    <2> SUFFICES ASSUME NEW i \in 1..w PROVE U16At(d, 2 * (i - 1)) \in Word16
      OBVIOUS
    <2> DEFINE p == 2 * (i - 1)
    <2>1. p \in Nat /\ p + 2 <= L
      <3> HIDE DEF L, w
      <3> QED
        BY <1>1, <1>6
    <2> HIDE DEF p
    <2> QED
      BY <2>1, NumberType DEF p
  <1> HIDE DEF words, n
  <1>9. data \in DataOf(type)
    <2> DEFINE V == [1..w -> Word16]
    <2> HIDE DEF V
    <2>1. data \in [words : V, name : Octets]
      BY <1>7, <1>8 DEF V
    <2> HIDE DEF data
    <2> QED
      BY <1>1, <2>1 DEF DataOf, V
  <1> HIDE DEF data
  <1>10. DataTyped(r, type)
    BY <1>5, <1>9 DEF DataTyped
  <1> QED
    BY <1>10 DEF r

LEMMA CertificationDataTyped ==
  ASSUME NEW buf, NEW start, NEW d \in Octets, ReadData(buf, CAA, start, d).ok
  PROVE  DataTyped(ReadData(buf, CAA, start, d), CAA)
  <1> DEFINE r == ReadData(buf, CAA, start, d)
             L == Len(d)
             o == Octet(d, 1)
             x == 2 + o
             flag == Octet(d, 0)
             tag == Slice(d, 2, x)
             value == Slice(d, x, L)
             data == [flag |-> flag, tag |-> tag, value |-> value]
  <1>0. ~Fails.ok /\ \A v : Ok(v).val = v
    BY DEF Fails, Ok
  <1>1. CAA \notin DOMAIN Words /\ CAA \notin {A, AAAA, TXT, SOA}
    BY WordsOfTypes DEF A, AAAA, TXT, CAA, SOA
  <1>2. r = IF L < 2 \/ x > L THEN Fails ELSE Ok(data)
    BY <1>1 DEF ReadData
  <1>3. r.ok
    OBVIOUS
  <1> HIDE DEF r
  <1>4. ~(L < 2) /\ ~(x > L) /\ r = Ok(data) /\ r.val = data
    <2> HIDE DEF L, x, data
    <2> QED
      BY <1>0, <1>2, <1>3
  <1>5. L \in Nat /\ 2 <= L
    <2>1. L \in Nat
      BY DEF Octets
    <2> HIDE DEF L
    <2> QED
      BY <1>4, <2>1
  <1>6. o \in 0..255 /\ flag \in 0..255
    <2>1. 1 \in 0..(Len(d) - 1) /\ 0 \in 0..(Len(d) - 1)
      <3> HIDE DEF L
      <3>1. 1 \in 0..(L - 1) /\ 0 \in 0..(L - 1)
        BY <1>5
      <3> QED
        BY <3>1 DEF L
    <2> QED
      BY <2>1, OctetType
  <1>7. x \in Nat /\ 2 <= x /\ x <= L
    <2> HIDE DEF L, o
    <2> QED
      BY <1>4, <1>5, <1>6
  <1>8. tag \in Octets /\ value \in Octets
    <2> DEFINE z == 2
    <2>1. z \in Nat /\ z <= x /\ L <= L /\ L \in Nat
      BY <1>5, <1>7
    <2> HIDE DEF z, x
    <2> QED
      BY <1>7, <2>1, SliceType DEF z
  <1> HIDE DEF flag, tag, value
  <1>9. data \in DataOf(CAA)
    <2>1. data \in [flag : 0..255, tag : Octets, value : Octets]
      BY <1>6, <1>8
    <2> HIDE DEF data
    <2> QED
      BY <1>1, <2>1 DEF DataOf
  <1> HIDE DEF data
  <1>10. DataTyped(r, CAA)
    BY <1>4, <1>9 DEF DataTyped
  <1> QED
    BY <1>10 DEF r

LEMMA AuthorityDataTyped ==
  ASSUME NEW buf \in Octets, NEW start \in 0..Len(buf), NEW d, ReadData(buf, SOA, start, d).ok
  PROVE  DataTyped(ReadData(buf, SOA, start, d), SOA)
  <1> DEFINE e == ReadData(buf, SOA, start, d)
             m == ReadName(buf, start)
             r == ReadName(buf, m.after)
             p == r.after
             b == Len(buf)
             numbers == [i \in 1..5 |-> U32At(buf, p + 4 * (i - 1))]
             data == [mname |-> m.val, rname |-> r.val, numbers |-> numbers]
  <1>0. ~Fails.ok /\ \A v : Ok(v).val = v
    BY DEF Fails, Ok
  <1>1. SOA \notin DOMAIN Words /\ SOA \notin {A, AAAA, TXT, CAA}
    BY WordsOfTypes DEF A, AAAA, TXT, CAA, SOA
  <1>2. e = IF ~m.ok THEN Fails ELSE IF ~r.ok THEN Fails
            ELSE IF p + 20 > b THEN Fails ELSE Ok(data)
    BY <1>1 DEF ReadData, Then
  <1>3. e.ok
    OBVIOUS
  <1> HIDE DEF e
  <1>4. m.ok /\ r.ok /\ ~(p + 20 > b) /\ e = Ok(data) /\ e.val = data
    <2> HIDE DEF m, r, p, b, data
    <2> QED
      BY <1>0, <1>2, <1>3
  <1>5. m.val \in Octets /\ m.after \in 0..b
    <2>1. m.val \in Octets /\ m.after \in 1..b
      BY <1>4, NameType
    <2> HIDE DEF m
    <2> QED
      BY <2>1
  <1>6. r.val \in Octets /\ p \in 1..b
    <2> HIDE DEF m
    <2> QED
      BY <1>4, <1>5, NameType
  <1>7. b \in Nat
    BY DEF Octets
  <1> HIDE DEF b, p, m, r
  <1>8. numbers \in [1..5 -> Word32]
    <2> SUFFICES ASSUME NEW i \in 1..5 PROVE U32At(buf, p + 4 * (i - 1)) \in Word32
      OBVIOUS
    <2> DEFINE q == p + 4 * (i - 1)
    <2>1. q \in Nat /\ q + 4 <= b
      BY <1>4, <1>6, <1>7
    <2> HIDE DEF q
    <2> QED
      BY <2>1, PairType DEF q, b
  <1> HIDE DEF numbers
  <1>9. data \in DataOf(SOA)
    <2> DEFINE V == [1..5 -> Word32]
    <2> HIDE DEF V
    <2>1. data \in [mname : Octets, rname : Octets, numbers : V]
      BY <1>5, <1>6, <1>8 DEF V
    <2> HIDE DEF data
    <2> QED
      BY <1>1, <2>1 DEF DataOf, V
  <1> HIDE DEF data
  <1>10. DataTyped(e, SOA)
    BY <1>4, <1>9 DEF DataTyped
  <1> QED
    BY <1>10 DEF e

LEMMA DataIsTyped ==
  ASSUME NEW type, NEW buf \in Octets, NEW start \in Nat, NEW d \in Octets,
         start + Len(d) <= Len(buf), ReadData(buf, type, start, d).ok
  PROVE  DataTyped(ReadData(buf, type, start, d), type)
  <1> DEFINE r == ReadData(buf, type, start, d)
  <1>0. ~Fails.ok /\ r.ok /\ \A v : Ok(v).val = v
    BY DEF Fails, Ok
  <1>1. CASE type = A
    <2> DEFINE p == [i \in 1..10 |-> 0]
               q == <<255, 255>>
               v == V4Prefix \o d
    <2>1. A \notin DOMAIN Words /\ A \notin {AAAA, TXT, CAA, SOA}
      BY WordsOfTypes DEF A, AAAA, TXT, CAA, SOA
    <2>2. r = IF Len(d) = 4 THEN Ok(v) ELSE Fails
      BY <1>1, <2>1 DEF ReadData
    <2>3. V4Prefix \in Octets
      <3> DEFINE n == 10
      <3>1. p \in [1..n -> 0..255] /\ n \in Nat
        OBVIOUS
      <3> HIDE DEF p, n
      <3>2. p \in Octets
        BY <3>1 DEF Octets
      <3>3. q \in Octets
        BY DEF Octets
      <3> HIDE DEF q
      <3>4. p \o q \in Octets
        BY <3>2, <3>3, OctetParts
      <3> QED
        BY <3>4 DEF V4Prefix, p, q
    <2>4. v \in Octets
      BY <2>3, OctetParts
    <2> HIDE DEF r, v
    <2>5. r = Ok(v) /\ r.val = v
      BY <1>0, <2>2
    <2>6. v \in DataOf(type)
      BY <1>1, <2>1, <2>4 DEF DataOf
    <2>7. DataTyped(r, type)
      BY <2>5, <2>6 DEF DataTyped
    <2> QED
      BY <2>7 DEF r
  <1>2. CASE type = AAAA
    <2>1. AAAA \notin DOMAIN Words /\ AAAA \notin {A, TXT, CAA, SOA}
      BY WordsOfTypes DEF A, AAAA, TXT, CAA, SOA
    <2>2. r = IF Len(d) = 16 THEN Ok(d) ELSE Fails
      BY <1>2, <2>1 DEF ReadData
    <2> HIDE DEF r
    <2>3. r = Ok(d) /\ r.val = d
      BY <1>0, <2>2
    <2>4. d \in DataOf(type)
      BY <1>2, <2>1 DEF DataOf
    <2>5. DataTyped(r, type)
      BY <2>3, <2>4 DEF DataTyped
    <2> QED
      BY <2>5 DEF r
  <1>3. CASE type = TXT
    <2> DEFINE s == TextLoop(d)[Len(d)]
    <2>1. TXT \notin DOMAIN Words /\ TXT \notin {A, AAAA, CAA, SOA}
      BY WordsOfTypes DEF A, AAAA, TXT, CAA, SOA
    <2>2. r = IF s.ok THEN Ok(s.val) ELSE Fails
      <3>1. r = DecodeTXT(d)
        BY <1>3, <2>1 DEF ReadData
      <3> QED
        BY <3>1 DEF DecodeTXT, Then
    <2>3. s \in TextStates(d)
      <3>1. Len(d) \in Nat
        BY DEF Octets
      <3> QED
        BY <3>1, TextLoopRuns
    <2> HIDE DEF r, s
    <2>4. s.ok /\ r = Ok(s.val) /\ r.val = s.val
      BY <1>0, <2>2
    <2>5. s.val \in Seq(Octets)
      <3>1. s \in [ok : {TRUE}, val : Seq(Octets), after : 0..Len(d)]
        BY <1>0, <2>3, <2>4 DEF TextStates
      <3> QED
        BY <3>1
    <2>6. s.val \in DataOf(type)
      BY <1>3, <2>1, <2>5 DEF DataOf
    <2>7. DataTyped(r, type)
      BY <2>4, <2>6 DEF DataTyped
    <2> QED
      BY <2>7 DEF r
  <1>4. CASE type \in DOMAIN Words
    BY <1>4, WordDataTyped
  <1>5. CASE type = CAA
    BY <1>5, CertificationDataTyped
  <1>6. CASE type = SOA
    <2>1. start \in 0..Len(buf)
      <3> DEFINE l == Len(d)
                 b == Len(buf)
      <3>1. l \in Nat /\ b \in Nat /\ start + l <= b
        BY DEF Octets
      <3> HIDE DEF l, b
      <3>2. start \in 0..b
        BY <3>1
      <3> QED
        BY <3>2 DEF b
    <2> QED
      BY <1>6, <2>1, AuthorityDataTyped
  <1>7. CASE type \notin DOMAIN Words /\ type \notin {A, AAAA, TXT, CAA, SOA}
    <2>1. r = Ok(NoData)
      BY <1>7 DEF ReadData
    <2> HIDE DEF r
    <2>2. r.val = NoData
      BY <1>0, <2>1
    <2>3. NoData \in DataOf(type)
      BY <1>7 DEF DataOf
    <2>4. DataTyped(r, type)
      BY <2>1, <2>2, <2>3 DEF DataTyped
    <2> QED
      BY <2>4 DEF r
  <1> QED
    BY <1>1, <1>2, <1>3, <1>4, <1>5, <1>6, <1>7

Questions == [name : Octets, type : Word16]

Item(isQuestion, x) == IF isQuestion THEN x \in Questions ELSE IsRecord(x)

\* The item that is read is one, and the next is looked for in the message.
ItemTyped(r, isQuestion, buf) ==
  r = OkAt(r.val, r.after) /\ Item(isQuestion, r.val) /\ r.after \in 0..Len(buf)

LEMMA QuestionTyped ==
  ASSUME NEW buf \in Octets, NEW off \in 0..Len(buf), ReadQuestion(buf, off).ok
  PROVE  ItemTyped(ReadQuestion(buf, off), TRUE, buf)
  <1> DEFINE r == ReadQuestion(buf, off)
             n == ReadName(buf, off)
             p == n.after
             b == Len(buf)
             t == U16At(buf, p)
             q == [name |-> n.val, type |-> t]
  <1>0. ~Fails.ok /\ \A v, w : OkAt(v, w).val = v /\ OkAt(v, w).after = w
    BY DEF Fails, OkAt
  <1>1. r = IF n.ok THEN IF p + 4 > b THEN Fails ELSE OkAt(q, p + 4) ELSE Fails
    BY DEF ReadQuestion, Then
  <1>2. r.ok
    OBVIOUS
  <1> HIDE DEF r
  <1>3. n.ok /\ ~(p + 4 > b) /\ r = OkAt(q, p + 4)
    <2> HIDE DEF n, p, b, q
    <2> QED
      BY <1>0, <1>1, <1>2
  <1>4. n.val \in Octets /\ p \in 1..b
    BY <1>3, NameType
  <1>5. b \in Nat
    BY DEF Octets
  <1> HIDE DEF n, p, b
  <1>6. p \in Nat /\ p + 2 <= b /\ p + 4 \in 0..b
    BY <1>3, <1>4, <1>5
  <1>7. t \in Word16
    BY <1>6, NumberType DEF b
  <1> HIDE DEF t
  <1>8. q \in Questions
    BY <1>4, <1>7 DEF Questions
  <1> HIDE DEF q
  <1>9. r.val = q /\ r.after = p + 4
    BY <1>0, <1>3
  <1>10. ItemTyped(r, TRUE, buf)
    BY <1>3, <1>6, <1>8, <1>9 DEF ItemTyped, Item, b
  <1> QED
    BY <1>10 DEF r

LEMMA RecordTyped ==
  ASSUME NEW buf \in Octets, NEW off \in 0..Len(buf), ReadRecord(buf, off).ok
  PROVE  ItemTyped(ReadRecord(buf, off), FALSE, buf)
  <1> DEFINE r == ReadRecord(buf, off)
             n == ReadName(buf, off)
             p == n.after
             b == Len(buf)
             start == p + 10
             k == U16At(buf, p + 8)
             end == start + k
             type == U16At(buf, p)
             ttl == U32At(buf, p + 4)
             d == Slice(buf, start, end)
             data == ReadData(buf, type, start, d)
             rr == [name |-> n.val, type |-> type, ttl |-> ttl, data |-> data.val]
  <1>0. ~Fails.ok /\ \A v, w : OkAt(v, w).val = v /\ OkAt(v, w).after = w
    BY DEF Fails, OkAt
  <1>1. r = IF ~n.ok THEN Fails ELSE IF start > b THEN Fails ELSE IF end > b THEN Fails
            ELSE IF ~data.ok THEN Fails ELSE OkAt(rr, end)
    BY DEF ReadRecord, ReadRest, Then
  <1>2. r.ok
    OBVIOUS
  <1> HIDE DEF r
  <1>3. n.ok /\ ~(start > b) /\ ~(end > b) /\ data.ok /\ r = OkAt(rr, end)
    <2> HIDE DEF n, p, b, start, k, end, type, ttl, d, data, rr
    <2> QED
      BY <1>0, <1>1, <1>2
  <1>4. n.val \in Octets /\ p \in 1..b
    BY <1>3, NameType
  <1>5. b \in Nat
    BY DEF Octets
  <1> HIDE DEF n, p, b
  <1>6. p \in Nat /\ p + 2 <= b /\ p + 4 \in Nat /\ (p + 4) + 4 <= b /\ p + 8 \in Nat
        /\ (p + 8) + 2 <= b /\ start \in Nat
    BY <1>3, <1>4, <1>5
  <1>7. type \in Word16 /\ k \in Word16 /\ ttl \in Word32
    BY <1>6, NumberType, PairType DEF b
  <1> HIDE DEF type, k, ttl, start
  <1>8. start <= end /\ end \in Nat /\ end <= b /\ start + (end - start) = end
    <2>1. k \in Nat
      BY <1>7 DEF Word16
    <2> QED
      BY <1>3, <1>5, <1>6, <2>1
  <1> HIDE DEF end
  <1>9. d \in Octets /\ start + Len(d) <= b
    <2>1. d \in Octets /\ Len(d) = end - start
      BY <1>6, <1>8, SliceType DEF b
    <2> HIDE DEF d
    <2> QED
      BY <1>8, <2>1
  <1> HIDE DEF d
  <1>10. DataTyped(data, type)
    BY <1>3, <1>6, <1>9, DataIsTyped DEF b
  <1> HIDE DEF data
  <1>11. IsRecord(rr)
    <2> DEFINE v == data.val
               D == DataOf(type)
    <2>1. v \in D
      BY <1>10 DEF DataTyped
    <2> HIDE DEF v, D
    <2>2. rr = [name |-> n.val, type |-> type, ttl |-> ttl, data |-> v]
      BY DEF v
    <2> HIDE DEF rr
    <2>3. rr \in [name : Octets, type : Word16, ttl : Word32, data : D] /\ rr.type = type
      BY <1>4, <1>7, <2>1, <2>2
    <2> QED
      BY <2>3 DEF IsRecord, D
  <1> HIDE DEF rr
  <1>12. r.val = rr /\ r.after = end /\ end \in 0..b
    BY <1>0, <1>3, <1>5, <1>8
  <1>13. ItemTyped(r, FALSE, buf)
    BY <1>3, <1>11, <1>12 DEF ItemTyped, Item, b
  <1> QED
    BY <1>13 DEF r

(* The loop over the questions and the records. *)

\* An item of either kind.
AnyItem ==
  Questions \union
  UNION {[name : Octets, type : {t}, ttl : Word32, data : DataOf(t)] : t \in Word16}

ItemStates(buf) == {Fails} \union [ok : {TRUE}, val : Seq(AnyItem), after : 0..Len(buf)]

LEMMA ItemsAreAny ==
  ASSUME NEW isQuestion, NEW x, Item(isQuestion, x)
  PROVE  x \in AnyItem
  <1>1. CASE isQuestion
    BY <1>1 DEF Item, AnyItem
  <1>2. CASE ~isQuestion
    <2> DEFINE t == x.type
               D == DataOf(t)
    <2> HIDE DEF D
    <2>1. x \in [name : Octets, type : Word16, ttl : Word32, data : D]
      BY <1>2 DEF Item, IsRecord, D
    <2>2. t \in Word16 /\ x \in [name : Octets, type : {t}, ttl : Word32, data : D]
      BY <2>1
    <2> QED
      BY <2>2 DEF AnyItem, D
  <1> QED
    BY <1>1, <1>2

LEMMA ItemPassType ==
  ASSUME NEW buf, NEW isQuestion, NEW items, NEW after
  PROVE  LET r == ReadItem(isQuestion, buf, after) IN
         ItemPass(buf, isQuestion, OkAt(items, after)) =
           IF r.ok THEN OkAt(Append(items, r.val), r.after) ELSE Fails
  <1> DEFINE r == ReadItem(isQuestion, buf, after)
  <1>1. OkAt(items, after).val = items /\ OkAt(items, after).after = after
    BY DEF OkAt
  <1> QED
    BY <1>1 DEF ItemPass, ReadItem, Then

LEMMA ItemIsTyped ==
  ASSUME NEW buf \in Octets, NEW isQuestion \in BOOLEAN, NEW after \in 0..Len(buf),
         ReadItem(isQuestion, buf, after).ok
  PROVE  ItemTyped(ReadItem(isQuestion, buf, after), isQuestion, buf)
  BY QuestionTyped, RecordTyped DEF ReadItem

LEMMA ItemLoopRuns ==
  ASSUME NEW buf \in Octets, 12 <= Len(buf), NEW questions \in Nat
  PROVE  LET s == ItemLoop(buf, questions) IN
         /\ s[0] = OkAt(<<>>, 12)
         /\ \A k \in Nat :
              /\ s[k] \in ItemStates(buf)
              /\ s[k + 1] = IF s[k].ok THEN ItemPass(buf, k + 1 <= questions, s[k]) ELSE Fails
  <1> DEFINE S == ItemStates(buf)
             Pass(k, x) == IF x.ok THEN ItemPass(buf, k + 1 <= questions, x) ELSE Fails
             first == OkAt(<<>>, 12)
             Is0(h) == h = [i \in Nat |->
                              IF i = 0 THEN first
                              ELSE Then(h[i - 1], LAMBDA done : ItemPass(buf, i <= questions, done))]
             s == ItemLoop(buf, questions)
  <1>1. first \in S
    <2>1. <<>> \in Seq(AnyItem) /\ 12 \in 0..Len(buf)
      <3> DEFINE b == Len(buf)
      <3>1. b \in Nat /\ 12 <= b
        BY DEF Octets
      <3> HIDE DEF b
      <3>2. 12 \in 0..b
        BY <3>1
      <3> QED
        BY <3>2 DEF b
    <2> QED
      BY <2>1 DEF ItemStates, OkAt
  <1>2. ASSUME NEW k \in Nat, NEW x \in S PROVE Pass(k, x) \in S
    <2> DEFINE isQuestion == k + 1 <= questions
               r == ReadItem(isQuestion, buf, x.after)
    <2>0. ~Fails.ok /\ Fails \in S
      BY DEF Fails, ItemStates
    <2>1. CASE ~x.ok
      BY <2>0, <2>1
    <2>2. CASE x.ok
      <3>1. x \in [ok : {TRUE}, val : Seq(AnyItem), after : 0..Len(buf)]
        BY <2>0, <2>2 DEF ItemStates
      <3>2. x = OkAt(x.val, x.after) /\ x.val \in Seq(AnyItem) /\ x.after \in 0..Len(buf)
        BY <3>1 DEF OkAt
      <3>3. isQuestion \in BOOLEAN
        OBVIOUS
      <3> HIDE DEF isQuestion
      <3>4. Pass(k, x) = IF r.ok THEN OkAt(Append(x.val, r.val), r.after) ELSE Fails
        <4>1. ItemPass(buf, isQuestion, OkAt(x.val, x.after)) =
                IF r.ok THEN OkAt(Append(x.val, r.val), r.after) ELSE Fails
          BY <3>2, ItemPassType
        <4> QED
          BY <2>2, <3>2, <4>1 DEF isQuestion
      <3>5. CASE r.ok
        <4>1. ItemTyped(r, isQuestion, buf)
          BY <3>2, <3>3, <3>5, ItemIsTyped
        <4> HIDE DEF r, Pass
        <4>2. r.val \in AnyItem /\ r.after \in 0..Len(buf)
          BY <4>1, ItemsAreAny DEF ItemTyped
        <4> DEFINE v == Append(x.val, r.val)
        <4>3. v \in Seq(AnyItem)
          BY <3>2, <4>2
        <4> HIDE DEF v
        <4>4. OkAt(v, r.after) \in S
          BY <4>2, <4>3 DEF ItemStates, OkAt
        <4> QED
          BY <3>4, <3>5, <4>4 DEF v
      <3>6. CASE ~r.ok
        BY <2>0, <3>4, <3>6
      <3> QED
        BY <3>5, <3>6
    <2> QED
      BY <2>1, <2>2
  <1>3. s = CHOOSE h : Is0(h)
    BY DEF ItemLoop
  <1> HIDE DEF s, Pass
  <1> HIDE DEF S, first
  <1>4. PICK step : \A k \in Nat : step[k] \in [S -> S] /\ \A x \in S : step[k][x] = Pass(k, x)
    <2> DEFINE f == [k \in Nat |-> [x \in S |-> Pass(k, x)]]
    <2>1. \A k \in Nat : f[k] \in [S -> S] /\ \A x \in S : f[k][x] = Pass(k, x)
      BY <1>2
    <2> QED
      BY <2>1
  <1>5. PICK g \in [Nat -> S] : g[0] = first /\ \A k \in Nat : g[k + 1] = step[k][g[k]]
    <2>1. \A k \in Nat : step[k] \in [S -> S]
      BY <1>4
    <2>2. PICK g : Numbered(g, S, first, step)
      BY <1>1, <2>1, NumberedIterates
    <2>3. g \in [Nat -> S] /\ g[0] = first /\ \A k \in Nat : g[k + 1] = step[k][g[k]]
      BY <2>2 DEF Numbered
    <2> QED
      BY <2>3
  <1>6. \A h : Is0(h) <=> h = [i \in Nat |-> IF i = 0 THEN first ELSE Pass(i - 1, h[i - 1])]
    <2>1. ASSUME NEW h, NEW i \in Nat, i # 0
          PROVE  Then(h[i - 1], LAMBDA done : ItemPass(buf, i <= questions, done)) = Pass(i - 1, h[i - 1])
      <3>1. (i - 1) + 1 = i
        OBVIOUS
      <3> QED
        BY <3>1 DEF Then, Pass
    <2> QED
      BY <2>1
  <1> HIDE DEF Is0
  <1>7. Is0(g)
    <2> DEFINE h == [k \in Nat |-> IF k = 0 THEN first ELSE Pass(k - 1, g[k - 1])]
    <2>1. ASSUME NEW k \in Nat PROVE g[k] = h[k]
      <3>1. CASE k = 0
        BY <3>1, <1>5
      <3>2. CASE k # 0
        <4>1. k - 1 \in Nat /\ (k - 1) + 1 = k
          BY <3>2
        <4>2. g[k] = step[k - 1][g[k - 1]] /\ g[k - 1] \in S
          BY <4>1, <1>5
        <4> QED
          BY <1>4, <4>1, <4>2, <3>2
      <3> QED
        BY <3>1, <3>2
    <2>2. g = h
      BY <2>1, <1>5
    <2> QED
      BY <2>2, <1>6
  <1>8. Is0(s)
    BY <1>3, <1>7
  <1>9. s[0] = first
    BY <1>6, <1>8
  <1>10. ASSUME NEW k \in Nat PROVE s[k + 1] = Pass(k, s[k])
    <2>1. k + 1 \in Nat /\ k + 1 # 0 /\ (k + 1) - 1 = k
      OBVIOUS
    <2> QED
      BY <1>6, <1>8, <2>1
  <1>11. \A k \in Nat : s[k] \in S
    <2> DEFINE G == {k \in Nat : s[k] \in S}
    <2>1. 0 \in G
      BY <1>1, <1>9
    <2>2. ASSUME NEW k \in Nat, k \in G PROVE k + 1 \in G
      <3>1. s[k] \in S /\ s[k + 1] = Pass(k, s[k])
        BY <1>10, <2>2
      <3>2. Pass(k, s[k]) \in S
        BY <1>2, <3>1
      <3> QED
        BY <3>1, <3>2
    <2>3. \A k \in Nat : k \in G
      <3> HIDE DEF G
      <3> QED
        BY <2>1, <2>2, Induction
    <2> QED
      BY <2>3
  <1> QED
    BY <1>9, <1>10, <1>11 DEF s, S, first, Pass

\* One more item of a list.
LEMMA AppendNext ==
  ASSUME NEW T, NEW n \in Nat, NEW f \in [1..n -> T], NEW k \in 0..(n - 1)
  PROVE  /\ [i \in 1..k |-> f[i]] \in Seq(T)
         /\ Append([i \in 1..k |-> f[i]], f[k + 1]) = [i \in 1..(k + 1) |-> f[i]]
  <1> DEFINE m == k + 1
             r == [i \in 1..k |-> f[i]]
             w == [i \in 1..m |-> f[i]]
             u == f[m]
             v == Append(r, u)
  <1>1. k \in Nat /\ m \in Nat /\ m \in 1..n /\ u \in T
    OBVIOUS
  <1>2. r \in Seq(T) /\ Len(r) = k /\ \A i \in 1..k : r[i] = f[i]
    <2>1. r \in [1..k -> T]
      OBVIOUS
    <2>2. \A i \in 1..k : r[i] = f[i]
      OBVIOUS
    <2> HIDE DEF r
    <2> QED
      BY <1>1, <2>1, <2>2
  <1>3. w \in Seq(T) /\ Len(w) = m /\ \A i \in 1..m : w[i] = f[i]
    <2>1. w \in [1..m -> T]
      OBVIOUS
    <2>2. \A i \in 1..m : w[i] = f[i]
      OBVIOUS
    <2> HIDE DEF w, m
    <2> QED
      BY <1>1, <2>1, <2>2
  <1> HIDE DEF r, w, u
  <1>4. v \in Seq(T) /\ Len(v) = k + 1 /\ v[k + 1] = u /\ \A i \in 1..k : v[i] = r[i]
    BY <1>1, <1>2
  <1> HIDE DEF v
  <1>5. ASSUME NEW i \in 1..m PROVE v[i] = w[i]
    <2>1. CASE i = m
      BY <1>3, <1>4, <2>1 DEF u
    <2>2. CASE i # m
      <3>1. i \in 1..k
        BY <2>2
      <3> QED
        BY <1>2, <1>3, <1>4, <3>1
    <2> QED
      BY <2>1, <2>2
  <1>6. v = w
    BY <1>3, <1>4, <1>5
  <1> QED
    BY <1>2, <1>6 DEF v, r, w, u

\* The parts stand one after the other; E is where each ends.
Row(E, parts, n, buf, off) ==
  /\ E \in [0..n -> Nat] /\ E[0] = 0
  /\ \A i \in 1..n : E[i] = E[i - 1] + Len(parts[i]) /\ Stands(parts[i], buf, off + E[i - 1])

LEMMA RowOfRows ==
  ASSUME NEW buf \in Octets, NEW n1 \in Nat, NEW n2 \in Nat, NEW p1 \in [1..n1 -> Octets],
         NEW p2 \in [1..n2 -> Octets], NEW off \in Nat, NEW parts,
         Stands(FlattenSeq(p1), buf, off), Stands(FlattenSeq(p2), buf, off + Len(FlattenSeq(p1))),
         parts = [i \in 1..(n1 + n2) |-> IF i <= n1 THEN p1[i] ELSE p2[i - n1]]
  PROVE  \E E : Row(E, parts, n1 + n2, buf, off)
  <1> DEFINE n == n1 + n2
             l == Len(FlattenSeq(p1))
  <1>1. PICK F : LaidOut(F, p1, n1, buf, off)
    BY FlatIsLaidOut DEF Octets
  <1>2. PICK G : LaidOut(G, p2, n2, buf, off + l)
    BY FlatIsLaidOut DEF Octets
  <1>3. /\ F \in [0..n1 -> Nat] /\ F[0] = 0 /\ F[n1] = l
        /\ \A i \in 1..n1 : F[i] = F[i - 1] + Len(p1[i]) /\ Stands(p1[i], buf, off + F[i - 1])
    BY <1>1 DEF LaidOut
  <1>4. /\ G \in [0..n2 -> Nat] /\ G[0] = 0
        /\ \A i \in 1..n2 : G[i] = G[i - 1] + Len(p2[i]) /\ Stands(p2[i], buf, off + l + G[i - 1])
    BY <1>2 DEF LaidOut
  <1>5. l \in Nat
    <2>1. n1 \in 0..n1
      OBVIOUS
    <2> HIDE DEF l
    <2> QED
      BY <1>3, <2>1
  <1> HIDE DEF l
  <1> DEFINE E == [i \in 0..n |-> IF i <= n1 THEN F[i] ELSE l + G[i - n1]]
  <1>6. /\ E \in [0..n -> Nat] /\ E[0] = 0
        /\ \A i \in 0..n1 : E[i] = F[i]
        /\ \A j \in 0..n2 : E[n1 + j] = l + G[j]
    <2>1. \A i \in 0..n1 : i \in 0..n /\ i <= n1 /\ F[i] \in Nat
      BY <1>3
    <2>2. \A i \in 0..n : i <= n1 => i \in 0..n1
      OBVIOUS
    <2>3. \A i \in 0..n : ~(i <= n1) => i - n1 \in 0..n2
      OBVIOUS
    <2>4. \A j \in 0..n2 : G[j] \in Nat /\ l + G[j] \in Nat
      BY <1>4, <1>5
    <2>5. \A i \in 0..n : E[i] \in Nat
      BY <2>1, <2>2, <2>3, <2>4
    <2>6. \A i \in 0..n1 : E[i] = F[i]
      BY <2>1
    <2>7. ASSUME NEW j \in 0..n2 PROVE E[n1 + j] = l + G[j]
      <3>1. CASE j = 0
        <4>1. n1 + j = n1 /\ n1 \in 0..n1
          BY <3>1
        <4> QED
          BY <1>3, <1>4, <1>5, <2>6, <3>1, <4>1
      <3>2. CASE j # 0
        <4>1. n1 + j \in 0..n /\ ~(n1 + j <= n1) /\ (n1 + j) - n1 = j
          BY <3>2
        <4> QED
          BY <4>1
      <3> QED
        BY <3>1, <3>2
    <2>8. 0 \in 0..n1
      OBVIOUS
    <2> QED
      BY <1>3, <2>5, <2>6, <2>7, <2>8
  <1> HIDE DEF E
  <1>7. ASSUME NEW i \in 1..n
        PROVE  E[i] = E[i - 1] + Len(parts[i]) /\ Stands(parts[i], buf, off + E[i - 1])
    <2>1. CASE i <= n1
      <3>1. i \in 1..n1 /\ i \in 0..n1 /\ i - 1 \in 0..n1 /\ parts[i] = p1[i]
        BY <2>1
      <3> QED
        BY <1>3, <1>6, <3>1
    <2>2. CASE ~(i <= n1)
      <3> DEFINE j == i - n1
      <3>1. j \in 1..n2 /\ j \in 0..n2 /\ j - 1 \in 0..n2 /\ n1 + j = i /\ n1 + (j - 1) = i - 1
        BY <2>2
      <3>2. parts[i] = p2[j]
        BY <2>2
      <3> HIDE DEF j
      <3> DEFINE g == G[j]
                 h == G[j - 1]
                 e == E[i]
                 f == E[i - 1]
                 c == Len(parts[i])
      <3>3. e = l + g /\ f = l + h /\ g \in Nat /\ h \in Nat
        BY <1>4, <1>6, <3>1
      <3>4. g = h + c /\ Stands(parts[i], buf, off + l + h)
        BY <1>4, <3>1, <3>2
      <3>5. c \in Nat
        <4>1. parts[i] \in Octets
          BY <3>1, <3>2
        <4> QED
          BY <4>1 DEF Octets
      <3> HIDE DEF e, f, g, h, c
      <3>6. e = f + c /\ off + l + h = off + f
        BY <1>5, <3>3, <3>4, <3>5
      <3> QED
        BY <3>4, <3>6 DEF e, f, c
    <2> QED
      BY <2>1, <2>2
  <1>8. Row(E, parts, n, buf, off)
    BY <1>6, <1>7 DEF Row
  <1> QED
    BY <1>8

\* Items that stand one after the other behind the header are all read.
LEMMA ItemsRead ==
  ASSUME NEW buf \in Octets, NEW n \in Nat, NEW items \in [1..n -> AnyItem],
         NEW encoded \in [1..n -> Octets], NEW questions \in Nat,
         \A i \in 1..n : \A off : Stands(encoded[i], buf, off) =>
           ReadItem(i <= questions, buf, off) = OkAt(items[i], off + Len(encoded[i])),
         NEW E, Row(E, encoded, n, buf, 12), 12 <= Len(buf)
  PROVE  ReadItems(buf, questions, n).ok /\ ReadItems(buf, questions, n).val = items
  <1> DEFINE s == ItemLoop(buf, questions)
             Read(k) == [i \in 1..k |-> items[i]]
  <1>2. /\ E \in [0..n -> Nat] /\ E[0] = 0
        /\ \A i \in 1..n : E[i] = E[i - 1] + Len(encoded[i]) /\ Stands(encoded[i], buf, 12 + E[i - 1])
    BY DEF Row
  <1>4. /\ s[0] = OkAt(<<>>, 12)
        /\ \A k \in Nat :
             s[k + 1] = IF s[k].ok THEN ItemPass(buf, k + 1 <= questions, s[k]) ELSE Fails
    BY ItemLoopRuns
  <1> HIDE DEF s
  <1>5. \A k \in 0..n : s[k] = OkAt(Read(k), 12 + E[k])
    <2> DEFINE G == {k \in Nat : k \in 0..n => s[k] = OkAt(Read(k), 12 + E[k])}
    <2>1. 0 \in G
      <3>1. Read(0) = <<>> /\ 12 + 0 = 12
        OBVIOUS
      <3> HIDE DEF Read
      <3>2. s[0] = OkAt(Read(0), 12 + E[0])
        BY <1>2, <1>4, <3>1
      <3> QED
        BY <3>2
    <2>2. ASSUME NEW k \in Nat, k \in G PROVE k + 1 \in G
      <3> SUFFICES ASSUME k + 1 \in 0..n
                   PROVE  s[k + 1] = OkAt(Read(k + 1), 12 + E[k + 1])
        OBVIOUS
      <3> DEFINE m == k + 1
                 p == 12 + E[k]
                 isQuestion == m <= questions
                 r == ReadItem(isQuestion, buf, p)
                 l == Len(encoded[m])
      <3>1. k \in 0..n /\ k \in 0..(n - 1) /\ m \in 1..n /\ m - 1 = k
        OBVIOUS
      <3>2. s[k] = OkAt(Read(k), p)
        BY <2>2, <3>1
      <3>3. s[m] = ItemPass(buf, isQuestion, OkAt(Read(k), p))
        <4>1. s[k].ok
          BY <3>2 DEF OkAt
        <4> QED
          BY <1>4, <3>2, <4>1
      <3>4. E[m] = E[k] + l /\ Stands(encoded[m], buf, p)
        BY <1>2, <3>1
      <3>5. r = OkAt(items[m], p + l)
        BY <3>1, <3>4
      <3>6. p + l = 12 + E[m]
        <4> DEFINE e == E[k]
                   f == E[m]
        <4>1. e \in Nat /\ f = e + l /\ l \in Nat
          <5>1. e \in Nat
            BY <1>2, <3>1
          <5>2. encoded[m] \in Octets
            BY <3>1
          <5>3. l \in Nat
            BY <5>2 DEF Octets
          <5> QED
            BY <3>4, <5>1, <5>3
        <4> HIDE DEF e, f, l
        <4>2. 12 + e + l = 12 + f
          BY <4>1
        <4> QED
          BY <4>2 DEF e, f
      <3>7. Append(Read(k), items[m]) = Read(m)
        BY <3>1, AppendNext
      <3> HIDE DEF Read, m, p, isQuestion, l
      <3>8. r.ok /\ r.val = items[m] /\ r.after = 12 + E[m]
        BY <3>5, <3>6 DEF OkAt
      <3> HIDE DEF r
      <3>9. s[m] = OkAt(Append(Read(k), r.val), r.after)
        BY <3>3, <3>8, ItemPassType DEF r
      <3>10. s[m] = OkAt(Read(m), 12 + E[m])
        BY <3>7, <3>8, <3>9
      <3> QED
        BY <3>10 DEF m
    <2>3. \A k \in Nat : k \in G
      <3> HIDE DEF G
      <3> QED
        BY <2>1, <2>2, Induction
    <2> QED
      BY <2>3
  <1>6. Read(n) = items
    OBVIOUS
  <1> HIDE DEF Read
  <1>7. \A k \in 0..n : s[k].ok
    <2>1. \A v, w : OkAt(v, w).ok
      BY DEF OkAt
    <2> QED
      BY <1>5, <2>1
  <1>8. (CHOOSE i \in 0..n : i = n \/ ~s[i].ok) = n
    <2>1. n \in 0..n
      OBVIOUS
    <2> QED
      BY <1>7, <2>1
  <1>9. ReadItems(buf, questions, n) = s[n]
    <2>1. ReadItems(buf, questions, n) = s[CHOOSE i \in 0..n : i = n \/ ~s[i].ok]
      BY DEF ReadItems, s
    <2> QED
      BY <1>8, <2>1
  <1>10. s[n] = OkAt(items, 12 + E[n])
    <2>1. n \in 0..n
      OBVIOUS
    <2> QED
      BY <1>5, <1>6, <2>1
  <1> QED
    BY <1>9, <1>10 DEF OkAt

(* The header of a message. *)

LEMMA SectionsEnd ==
  ASSUME NEW buf
  PROVE  LET u == SectionEnds(buf) IN
         /\ u[0] = 0 /\ u[1] = u[0] + U16At(buf, 4) /\ u[2] = u[1] + U16At(buf, 6)
         /\ u[3] = u[2] + U16At(buf, 8) /\ u[4] = u[3] + U16At(buf, 10)
  <1> DEFINE c(s) == U16At(buf, 2 + 2 * s)
             Is0(h) == h = [s \in 0..4 |-> IF s = 0 THEN 0 ELSE h[s - 1] + c(s)]
             c1 == 0 + c(1)
             c2 == c1 + c(2)
             c3 == c2 + c(3)
             c4 == c3 + c(4)
             g == [s \in 0..4 |-> IF s = 0 THEN 0 ELSE IF s = 1 THEN c1 ELSE IF s = 2 THEN c2
                                  ELSE IF s = 3 THEN c3 ELSE c4]
             u == SectionEnds(buf)
  <1>1. u = CHOOSE h : Is0(h)
    BY DEF SectionEnds
  <1>2. c(1) = U16At(buf, 4) /\ c(2) = U16At(buf, 6) /\ c(3) = U16At(buf, 8) /\ c(4) = U16At(buf, 10)
    OBVIOUS
  <1> HIDE DEF u, c
  <1>3. Is0(g)
    <2> DEFINE h == [s \in 0..4 |-> IF s = 0 THEN 0 ELSE g[s - 1] + c(s)]
    <2>1. g[0] = 0 /\ g[1] = c1 /\ g[2] = c2 /\ g[3] = c3 /\ g[4] = c4
      <3> HIDE DEF c1, c2, c3, c4
      <3> QED
        OBVIOUS
    <2>2. ASSUME NEW s \in 0..4 PROVE g[s] = h[s]
      <3>1. s = 0 \/ s = 1 \/ s = 2 \/ s = 3 \/ s = 4
        OBVIOUS
      <3> HIDE DEF g
      <3>2. s = 0 => g[s] = h[s]
        BY <2>1
      <3>3. s = 1 => g[s] = h[s]
        BY <2>1
      <3>4. s = 2 => g[s] = h[s]
        BY <2>1
      <3>5. s = 3 => g[s] = h[s]
        BY <2>1
      <3>6. s = 4 => g[s] = h[s]
        BY <2>1
      <3> QED
        BY <3>1, <3>2, <3>3, <3>4, <3>5, <3>6
    <2> QED
      BY <2>2
  <1>4. Is0(u)
    <2> HIDE DEF Is0
    <2> QED
      BY <1>1, <1>3
  <1>5. \A s \in 0..4 : u[s] = IF s = 0 THEN 0 ELSE u[s - 1] + c(s)
    BY <1>4
  <1>6. u[0] = 0 /\ u[1] = u[0] + c(1) /\ u[2] = u[1] + c(2) /\ u[3] = u[2] + c(3) /\ u[4] = u[3] + c(4)
    BY <1>5
  <1> QED
    BY <1>2, <1>6 DEF u

\* Every flag is read from the bit it was written to.
FlagsOf(w, m) ==
  /\ HasBit(w, 32768) = m.response /\ (w \div 2048) % 16 = m.opcode
  /\ HasBit(w, 1024) = m.authoritative /\ HasBit(w, 512) = m.truncated
  /\ HasBit(w, 256) = m.recursionDesired /\ HasBit(w, 128) = m.recursionAvailable
  /\ w % 16 = m.rcode

LEMMA FlagsRead ==
  ASSUME NEW m, m.response \in BOOLEAN, m.opcode \in 0..15, m.authoritative \in BOOLEAN,
         m.truncated \in BOOLEAN, m.recursionDesired \in BOOLEAN,
         m.recursionAvailable \in BOOLEAN, m.rcode \in 0..15
  PROVE  FlagWord(m) \in Word16 /\ FlagsOf(FlagWord(m), m)
  <1> DEFINE one(p) == IF p THEN 1 ELSE 0
             a == one(m.response)
             o == m.opcode
             b == one(m.authoritative)
             c == one(m.truncated)
             d == one(m.recursionDesired)
             e == one(m.recursionAvailable)
             r == m.rcode
             w == FlagWord(m)
  <1>1. /\ a \in 0..1 /\ b \in 0..1 /\ c \in 0..1 /\ d \in 0..1 /\ e \in 0..1
        /\ o \in 0..15 /\ r \in 0..15
    OBVIOUS
  <1>2. /\ Bit(m.response, 32768) = 32768 * a /\ Bit(m.authoritative, 1024) = 1024 * b
        /\ Bit(m.truncated, 512) = 512 * c /\ Bit(m.recursionDesired, 256) = 256 * d
        /\ Bit(m.recursionAvailable, 128) = 128 * e
    BY DEF Bit
  <1>3. o % 16 = o /\ r % 16 = r
    BY <1>1
  <1>4. w = 32768 * a + o * 2048 + 1024 * b + 512 * c + 256 * d + 128 * e + r
    BY <1>2, <1>3 DEF FlagWord
  <1>5. \A p \in BOOLEAN : (one(p) = 1) = p
    OBVIOUS
  <1> HIDE DEF a, o, b, c, d, e, r, w
  <1>6. w \in Word16
    BY <1>1, <1>4 DEF Word16
  <1>7. (w \div 32768) % 2 = a
    <2>1. w \div 32768 = a
      BY <1>1, <1>4
    <2> QED
      BY <1>1, <2>1
  <1>8. (w \div 2048) % 16 = o
    <2>1. w \div 2048 = 16 * a + o
      BY <1>1, <1>4
    <2> QED
      BY <1>1, <2>1
  <1>9. (w \div 1024) % 2 = b
    <2>1. w \div 1024 = 2 * (16 * a + o) + b
      BY <1>1, <1>4
    <2> QED
      BY <1>1, <2>1
  <1>10. (w \div 512) % 2 = c
    <2>1. w \div 512 = 2 * (32 * a + 2 * o + b) + c
      BY <1>1, <1>4
    <2> QED
      BY <1>1, <2>1
  <1>11. (w \div 256) % 2 = d
    <2>1. w \div 256 = 2 * (64 * a + 4 * o + 2 * b + c) + d
      BY <1>1, <1>4
    <2> QED
      BY <1>1, <2>1
  <1>12. (w \div 128) % 2 = e
    <2>1. w \div 128 = 2 * (128 * a + 8 * o + 4 * b + 2 * c + d) + e
      BY <1>1, <1>4
    <2> QED
      BY <1>1, <2>1
  <1>13. w % 16 = r
    <2>1. w = 16 * (2048 * a + 128 * o + 64 * b + 32 * c + 16 * d + 8 * e) + r
      BY <1>1, <1>4
    <2> QED
      BY <1>1, <2>1
  <1>14. /\ HasBit(w, 32768) = m.response /\ HasBit(w, 1024) = m.authoritative
         /\ HasBit(w, 512) = m.truncated /\ HasBit(w, 256) = m.recursionDesired
         /\ HasBit(w, 128) = m.recursionAvailable
    BY <1>5, <1>7, <1>9, <1>10, <1>11, <1>12 DEF HasBit, a, b, c, d, e
  <1>15. FlagsOf(w, m)
    BY <1>8, <1>13, <1>14 DEF FlagsOf, o, r
  <1> QED
    BY <1>6, <1>15 DEF w

\* Where the fields of the header and the items behind it stand.
HeaderOf(s, h1, h2, h3, h4, h5, h6, qs, rrs) ==
  /\ s \in Octets /\ 12 <= Len(s)
  /\ Stands(h1, s, 0) /\ Stands(h2, s, 2) /\ Stands(h3, s, 4) /\ Stands(h4, s, 6)
  /\ Stands(h5, s, 8) /\ Stands(h6, s, 10) /\ Stands(qs, s, 12) /\ Stands(rrs, s, 12 + Len(qs))

\* w is s and one field more.
FieldAdded(w, s, t, l, k) ==
  /\ w \in Octets /\ Len(w) = l + k
  /\ \A buf \in Octets : Stands(w, buf, 0) => Stands(s, buf, 0) /\ Stands(t, buf, l)

LEMMA NextField ==
  ASSUME NEW s \in Octets, NEW t \in Octets, NEW l \in Nat, NEW k \in Nat, Len(s) = l, Len(t) = k
  PROVE  FieldAdded(s \o t, s, t, l, k)
  <1>1. /\ s \o t \in Octets /\ Len(s \o t) = Len(s) + Len(t)
        /\ \A buf \in Octets : \A off : Stands(s \o t, buf, off) =>
             Stands(s, buf, off) /\ Stands(t, buf, off + Len(s))
    BY OctetParts
  <1>2. 0 + l = l
    OBVIOUS
  <1> DEFINE w == s \o t
  <1> HIDE DEF w
  <1>3. \A buf \in Octets : Stands(w, buf, 0) => Stands(s, buf, 0) /\ Stands(t, buf, 0 + l)
    BY <1>1 DEF w
  <1>4. FieldAdded(w, s, t, l, k)
    BY <1>1, <1>2, <1>3 DEF FieldAdded, w
  <1> QED
    BY <1>4 DEF w

LEMMA HeaderStands ==
  ASSUME NEW h1 \in Octets, NEW h2 \in Octets, NEW h3 \in Octets, NEW h4 \in Octets,
         NEW h5 \in Octets, NEW h6 \in Octets, NEW qs \in Octets, NEW rrs \in Octets,
         Len(h1) = 2, Len(h2) = 2, Len(h3) = 2, Len(h4) = 2, Len(h5) = 2, Len(h6) = 2
  PROVE  HeaderOf(h1 \o h2 \o h3 \o h4 \o h5 \o h6 \o qs \o rrs, h1, h2, h3, h4, h5, h6, qs, rrs)
  <1> DEFINE s1 == h1 \o h2
             s2 == s1 \o h3
             s3 == s2 \o h4
             s4 == s3 \o h5
             s5 == s4 \o h6
             s6 == s5 \o qs
             s == s6 \o rrs
             lq == Len(qs)
             lr == Len(rrs)
  <1>0. lq \in Nat /\ lr \in Nat
    BY DEF Octets
  <1> HIDE DEF lq, lr
  <1>1. /\ s1 \in Octets /\ Len(s1) = 4
        /\ \A buf \in Octets : Stands(s1, buf, 0) => Stands(h1, buf, 0) /\ Stands(h2, buf, 2)
    <2> DEFINE l == 2
               k == 2
    <2>1. l \in Nat /\ k \in Nat /\ Len(h1) = l /\ Len(h2) = k /\ l + k = 4 /\ h1 \in Octets
      BY DEF Octets
    <2> HIDE DEF l, k
    <2>2. FieldAdded(s1, h1, h2, l, k)
      BY <2>1, NextField
    <2> HIDE DEF s1
    <2> QED
      BY <2>1, <2>2 DEF FieldAdded, l
  <1> HIDE DEF s1
  <1>2. /\ s2 \in Octets /\ Len(s2) = 6
        /\ \A buf \in Octets : Stands(s2, buf, 0) => Stands(s1, buf, 0) /\ Stands(h3, buf, 4)
    <2> DEFINE l == 4
               k == 2
    <2>1. l \in Nat /\ k \in Nat /\ Len(s1) = l /\ Len(h3) = k /\ l + k = 6 /\ s1 \in Octets
      BY <1>1
    <2> HIDE DEF l, k
    <2>2. FieldAdded(s2, s1, h3, l, k)
      BY <2>1, NextField
    <2> HIDE DEF s2
    <2> QED
      BY <2>1, <2>2 DEF FieldAdded, l
  <1> HIDE DEF s2
  <1>3. /\ s3 \in Octets /\ Len(s3) = 8
        /\ \A buf \in Octets : Stands(s3, buf, 0) => Stands(s2, buf, 0) /\ Stands(h4, buf, 6)
    <2> DEFINE l == 6
               k == 2
    <2>1. l \in Nat /\ k \in Nat /\ Len(s2) = l /\ Len(h4) = k /\ l + k = 8 /\ s2 \in Octets
      BY <1>2
    <2> HIDE DEF l, k
    <2>2. FieldAdded(s3, s2, h4, l, k)
      BY <2>1, NextField
    <2> HIDE DEF s3
    <2> QED
      BY <2>1, <2>2 DEF FieldAdded, l
  <1> HIDE DEF s3
  <1>4. /\ s4 \in Octets /\ Len(s4) = 10
        /\ \A buf \in Octets : Stands(s4, buf, 0) => Stands(s3, buf, 0) /\ Stands(h5, buf, 8)
    <2> DEFINE l == 8
               k == 2
    <2>1. l \in Nat /\ k \in Nat /\ Len(s3) = l /\ Len(h5) = k /\ l + k = 10 /\ s3 \in Octets
      BY <1>3
    <2> HIDE DEF l, k
    <2>2. FieldAdded(s4, s3, h5, l, k)
      BY <2>1, NextField
    <2> HIDE DEF s4
    <2> QED
      BY <2>1, <2>2 DEF FieldAdded, l
  <1> HIDE DEF s4
  <1>5. /\ s5 \in Octets /\ Len(s5) = 12
        /\ \A buf \in Octets : Stands(s5, buf, 0) => Stands(s4, buf, 0) /\ Stands(h6, buf, 10)
    <2> DEFINE l == 10
               k == 2
    <2>1. l \in Nat /\ k \in Nat /\ Len(s4) = l /\ Len(h6) = k /\ l + k = 12 /\ s4 \in Octets
      BY <1>4
    <2> HIDE DEF l, k
    <2>2. FieldAdded(s5, s4, h6, l, k)
      BY <2>1, NextField
    <2> HIDE DEF s5
    <2> QED
      BY <2>1, <2>2 DEF FieldAdded, l
  <1> HIDE DEF s5
  <1>6. /\ s6 \in Octets /\ Len(s6) = 12 + lq
        /\ \A buf \in Octets : Stands(s6, buf, 0) => Stands(s5, buf, 0) /\ Stands(qs, buf, 12)
    <2> DEFINE l == 12
    <2>1. l \in Nat /\ Len(s5) = l /\ s5 \in Octets
      BY <1>5
    <2> HIDE DEF l
    <2>2. FieldAdded(s6, s5, qs, l, lq)
      BY <1>0, <2>1, NextField DEF lq
    <2> HIDE DEF s6
    <2> QED
      BY <2>1, <2>2 DEF FieldAdded, l
  <1> HIDE DEF s6
  <1>7. /\ s \in Octets /\ Len(s) = 12 + lq + lr
        /\ \A buf \in Octets : Stands(s, buf, 0) => Stands(s6, buf, 0) /\ Stands(rrs, buf, 12 + lq)
    <2> DEFINE l == 12 + lq
    <2>1. l \in Nat /\ Len(s6) = l /\ s6 \in Octets
      BY <1>0, <1>6
    <2> HIDE DEF l
    <2>2. FieldAdded(s, s6, rrs, l, lr)
      BY <1>0, <1>6, <2>1, NextField DEF lr
    <2> HIDE DEF s
    <2> QED
      BY <2>1, <2>2 DEF FieldAdded, l
  <1> HIDE DEF s
  <1>8. 12 <= Len(s)
    <2> DEFINE L == Len(s)
    <2>1. L = 12 + lq + lr
      BY <1>7
    <2> HIDE DEF L
    <2>2. 12 <= L
      BY <1>0, <2>1
    <2> QED
      BY <2>2 DEF L
  <1>9. Stands(s, s, 0)
    BY <1>7, StandsAlone
  <1>10. Stands(s6, s, 0) /\ Stands(rrs, s, 12 + lq)
    BY <1>7, <1>9
  <1>11. Stands(s5, s, 0) /\ Stands(qs, s, 12)
    BY <1>6, <1>7, <1>10
  <1>12. Stands(s4, s, 0) /\ Stands(h6, s, 10)
    BY <1>5, <1>7, <1>11
  <1>13. Stands(s3, s, 0) /\ Stands(h5, s, 8)
    BY <1>4, <1>7, <1>12
  <1>14. Stands(s2, s, 0) /\ Stands(h4, s, 6)
    BY <1>3, <1>7, <1>13
  <1>15. Stands(s1, s, 0) /\ Stands(h3, s, 4)
    BY <1>2, <1>7, <1>14
  <1>16. Stands(h1, s, 0) /\ Stands(h2, s, 2)
    BY <1>1, <1>7, <1>15
  <1>17. HeaderOf(s, h1, h2, h3, h4, h5, h6, qs, rrs)
    BY <1>7, <1>8, <1>10, <1>11, <1>12, <1>13, <1>14, <1>15, <1>16 DEF HeaderOf, lq
  <1> QED
    BY <1>17 DEF s, s6, s5, s4, s3, s2, s1

(* The lists of a message. *)

LEMMA ListStandsAlone ==
  ASSUME NEW T, NEW s \in Seq(T)
  PROVE  Stands(s, s, 0)
  <1> DEFINE b == Len(s)
  <1>1. b \in Nat
    OBVIOUS
  <1> HIDE DEF b
  <1>2. 0 + b <= b /\ \A k \in 1..b : 0 + k = k
    BY <1>1
  <1> QED
    BY <1>2 DEF Stands, b

LEMMA SectionStands ==
  ASSUME NEW T, NEW s \in Seq(T), NEW w \in Seq(T), NEW off, Stands(s, w, off)
  PROVE  SubSeq(w, off + 1, off + Len(s)) = s
  <1> DEFINE l == Len(s)
             b == Len(w)
             v == SubSeq(w, off + 1, off + l)
  <1>1. /\ off \in Nat /\ off + l <= b /\ l \in Nat /\ b \in Nat
        /\ \A k \in 1..l : w[off + k] = s[k]
    BY DEF Stands
  <1>2. v \in Seq(T) /\ Len(v) = l /\ \A k \in 1..l : v[k] = w[off + k]
    <2> DEFINE from == off + 1
               to == off + l
    <2>1. /\ from \in Nat /\ to \in Nat /\ to <= b /\ from >= 1 /\ from <= to + 1
          /\ (to - from) + 1 = l /\ \A k \in 1..l : (from + k) - 1 = off + k
      <3> HIDE DEF l, b
      <3> QED
        BY <1>1
    <2> HIDE DEF from, to, l
    <2>2. SubSeq(w, from, to) \in Seq(T)
      BY <2>1 DEF b
    <2>3. Len(SubSeq(w, from, to)) = l
      BY <2>1 DEF b
    <2>4. \A k \in 1..l : SubSeq(w, from, to)[k] = w[(from + k) - 1]
      BY <2>1 DEF b
    <2> QED
      BY <2>1, <2>2, <2>3, <2>4 DEF from, to
  <1> HIDE DEF v
  <1>3. v = s
    BY <1>1, <1>2
  <1> QED
    BY <1>3 DEF v

\* Three lists in one, and all that is in it is in T.
ThreeIn(r, a, b, c, T) ==
  /\ r \in Seq(T) /\ a \in Seq(T) /\ b \in Seq(T) /\ c \in Seq(T)
  /\ Len(r) = Len(a) + Len(b) + Len(c)
  /\ Stands(a, r, 0) /\ Stands(b, r, Len(a)) /\ Stands(c, r, Len(a) + Len(b))

LEMMA ThreeLists ==
  ASSUME NEW T, NEW a \in Seq(T), NEW b \in Seq(T), NEW c \in Seq(T)
  PROVE  ThreeIn(a \o b \o c, a, b, c, T)
  <1> DEFINE d == a \o b
             r == d \o c
             la == Len(a)
             lb == Len(b)
             lc == Len(c)
  <1>1. /\ d \in Seq(T) /\ Len(d) = la + lb /\ la \in Nat /\ lb \in Nat /\ lc \in Nat
    OBVIOUS
  <1>2. \A w \in Seq(T) : \A off : Stands(d, w, off) => Stands(a, w, off) /\ Stands(b, w, off + la)
    BY StandsInParts
  <1> HIDE DEF d
  <1>3. /\ r \in Seq(T) /\ Len(r) = Len(d) + lc
    <2>1. d \in Seq(T)
      BY <1>1
    <2>2. d \o c \in Seq(T) /\ Len(d \o c) = Len(d) + Len(c)
      BY <2>1
    <2> QED
      BY <2>2 DEF r, lc
  <1>4. \A w \in Seq(T) : \A off : Stands(r, w, off) => Stands(d, w, off) /\ Stands(c, w, off + Len(d))
    BY <1>1, StandsInParts
  <1> HIDE DEF r
  <1>5. Stands(d, r, 0) /\ Stands(c, r, 0 + Len(d))
    BY <1>3, <1>4, ListStandsAlone
  <1>6. Stands(a, r, 0) /\ Stands(b, r, 0 + la)
    BY <1>2, <1>3, <1>5
  <1> HIDE DEF la, lb, lc
  <1> DEFINE ld == Len(d)
  <1>7. ld = la + lb
    BY <1>1
  <1> HIDE DEF ld
  <1>8. 0 + la = la /\ 0 + ld = la + lb /\ ld + lc = la + lb + lc
    BY <1>1, <1>7
  <1>9. Len(r) = la + lb + lc
    BY <1>3, <1>8 DEF ld
  <1>10. Stands(b, r, la) /\ Stands(c, r, la + lb)
    BY <1>5, <1>6, <1>8 DEF ld
  <1>11. ThreeIn(r, a, b, c, T)
    BY <1>3, <1>6, <1>9, <1>10 DEF ThreeIn, la, lb, lc
  <1> QED
    BY <1>11 DEF r, d

LEMMA MessageLists ==
  ASSUME NEW m, IsMessage(m)
  PROVE  /\ m.questions \in Seq(Questions)
         /\ ThreeIn(RecordsOf(m), m.answers, m.authority, m.additional, AnyItem)
         /\ \A i \in 1..Len(RecordsOf(m)) :
              RecordsOf(m)[i] \in ToSet(RecordsOf(m)) /\ IsRecord(RecordsOf(m)[i])
  <1> DEFINE a == m.answers
             b == m.authority
             c == m.additional
             r == RecordsOf(m)
             T == ToSet(a) \union ToSet(b) \union ToSet(c)
             A1 == ToSet(a)
             B1 == ToSet(b)
             C1 == ToSet(c)
  <1>1. /\ m.questions \in Seq(Questions) /\ a \in Seq(A1) /\ b \in Seq(B1) /\ c \in Seq(C1)
        /\ \A rr \in ToSet(r) : IsRecord(rr)
    <2> HIDE DEF A1, B1, C1, r
    <2>1. /\ m \in [id : Word16, response : BOOLEAN, opcode : 0..15, authoritative : BOOLEAN,
                    truncated : BOOLEAN, recursionDesired : BOOLEAN, recursionAvailable : BOOLEAN,
                    rcode : 0..15, questions : Seq(Questions), answers : Seq(A1),
                    authority : Seq(B1), additional : Seq(C1)]
          /\ \A rr \in ToSet(r) : IsRecord(rr)
      BY DEF IsMessage, Questions, A1, B1, C1, r
    <2> QED
      BY <2>1
  <1>2. a \in Seq(T) /\ b \in Seq(T) /\ c \in Seq(T)
    <2>1. A1 \subseteq T /\ B1 \subseteq T /\ C1 \subseteq T
      OBVIOUS
    <2> HIDE DEF A1, B1, C1, T
    <2> QED
      BY <1>1, <2>1
  <1> HIDE DEF T, A1, B1, C1, a, b, c
  <1>3. ThreeIn(r, a, b, c, T)
    BY <1>2, ThreeLists DEF RecordsOf, a, b, c
  <1> HIDE DEF r
  <1>4. r \in Seq(T) /\ Len(r) \in Nat
    BY <1>3 DEF ThreeIn
  <1>5. \A i \in 1..Len(r) : r[i] \in ToSet(r) /\ IsRecord(r[i])
    <2>1. \A i \in 1..Len(r) : r[i] \in ToSet(r)
      BY <1>4 DEF ToSet
    <2> QED
      BY <1>1, <2>1
  <1>6. \A i \in 1..Len(r) : r[i] \in AnyItem
    <2> SUFFICES ASSUME NEW i \in 1..Len(r) PROVE r[i] \in AnyItem
      OBVIOUS
    <2>1. Item(FALSE, r[i])
      BY <1>5 DEF Item
    <2> QED
      BY <2>1, ItemsAreAny
  <1>7. ASSUME NEW s \in Seq(T), NEW off, Stands(s, r, off) PROVE s \in Seq(AnyItem)
    <2> DEFINE l == Len(s)
               k == Len(r)
    <2>1. l \in Nat /\ k \in Nat /\ off \in Nat /\ off + l <= k /\ \A i \in 1..l : r[off + i] = s[i]
      BY <1>4, <1>7 DEF Stands
    <2>2. ASSUME NEW i \in 1..l PROVE s[i] \in AnyItem
      <3>1. off + i \in 1..k
        <4> HIDE DEF l, k
        <4> QED
          BY <2>1
      <3> QED
        BY <1>6, <2>1, <3>1
    <2> QED
      BY <2>2
  <1>8. r \in Seq(AnyItem) /\ a \in Seq(AnyItem) /\ b \in Seq(AnyItem) /\ c \in Seq(AnyItem)
    <2>1. r \in Seq(AnyItem)
      BY <1>4, <1>6
    <2>2. \A s \in Seq(T) : \A off : Stands(s, r, off) => s \in Seq(AnyItem)
      BY <1>7
    <2> QED
      BY <1>2, <1>3, <2>1, <2>2 DEF ThreeIn
  <1>9. ThreeIn(r, a, b, c, AnyItem)
    BY <1>3, <1>8 DEF ThreeIn
  <1> QED
    BY <1>1, <1>5, <1>9 DEF r, a, b, c

LEMMA RecordsAreClear ==
  ASSUME NEW m, DotsTrimmed(m), Fits(m), NEW rr \in ToSet(RecordsOf(m))
  PROVE  NoDots(rr) /\ RecordFits(rr)
  <1> DEFINE records == ToSet(RecordsOf(m))
  <1>1. RecordFits(rr)
    BY DEF Fits, RecordFits
  <1>2. \A name \in NamesOf(m) : ~EndsInDot(name)
    BY DEF DotsTrimmed
  <1>3. NamesOf(m) = {q.name : q \in ToSet(m.questions)} \union {x.name : x \in records}
          \union {x.data.name : x \in {y \in records : y.type \in DOMAIN Words}}
          \union UNION {{x.data.mname, x.data.rname} : x \in {y \in records : y.type = SOA}}
    BY DEF NamesOf, RecordsOf
  <1> HIDE DEF records
  <1>4. rr \in records
    BY DEF records
  <1>5. rr.name \in NamesOf(m)
    BY <1>3, <1>4
  <1>6. DataNames(rr.type, rr.data) \subseteq NamesOf(m)
    BY <1>3, <1>4 DEF DataNames
  <1> QED
    BY <1>1, <1>2, <1>5, <1>6 DEF NoDots

LEMMA QuestionsAreClear ==
  ASSUME NEW m, DotsTrimmed(m), NEW q \in ToSet(m.questions)
  PROVE  ~EndsInDot(q.name)
  BY DEF DotsTrimmed, NamesOf

\* The list is encoded item by item, and each is read back wherever it stands.
EncodedAs(e, p, isQuestion, list) ==
  /\ e = Ok(FlattenSeq(p)) /\ p \in [1..Len(list) -> Octets]
  /\ \A i \in 1..Len(list) : \A buf \in Octets : \A off : Stands(p[i], buf, off) =>
       ReadItem(isQuestion, buf, off) = OkAt(list[i], off + Len(p[i]))

LEMMA ListEncoded ==
  ASSUME NEW T, NEW list \in Seq(T), NEW isQuestion, NEW items, DOMAIN items = 1..Len(list),
         EncodeAll(items).ok,
         \A i \in 1..Len(list) : items[i].ok => ReadsBack(items[i], isQuestion, list[i])
  PROVE  \E p : EncodedAs(EncodeAll(items), p, isQuestion, list)
  <1> DEFINE n == Len(list)
             p == [i \in 1..n |-> items[i].val]
  <1>1. EncodeAll(items) = Ok(FlattenSeq(p)) /\ \A i \in 1..n : items[i].ok
    <2>1. DOMAIN items = 1..n
      OBVIOUS
    <2> HIDE DEF n, p
    <2>2. /\ EncodeAll(items) = Ok(FlattenSeq([i \in DOMAIN items |-> items[i].val]))
          /\ \A i \in DOMAIN items : items[i].ok
      BY AllEncoded
    <2> QED
      BY <2>1, <2>2 DEF p
  <1>2. \A i \in 1..n : ReadsBack(items[i], isQuestion, list[i])
    BY <1>1
  <1>3. \A i \in 1..n : p[i] = items[i].val
    OBVIOUS
  <1>4. p \in [1..n -> Octets]
    BY <1>2 DEF ReadsBack
  <1> HIDE DEF p
  <1>5. ASSUME NEW i \in 1..n, NEW buf \in Octets, NEW off, Stands(p[i], buf, off)
        PROVE  ReadItem(isQuestion, buf, off) = OkAt(list[i], off + Len(p[i]))
    <2>1. /\ p[i] = items[i].val
          /\ \A w \in Octets : \A at : Stands(items[i].val, w, at) =>
               ReadItem(isQuestion, w, at) = OkAt(list[i], at + Len(items[i].val))
      BY <1>2, <1>3 DEF ReadsBack
    <2> QED
      BY <1>5, <2>1
  <1>6. EncodedAs(EncodeAll(items), p, isQuestion, list)
    BY <1>1, <1>4, <1>5 DEF EncodedAs
  <1> QED
    BY <1>6

\* The lists of questions and of records of a message, one after the other.
Joined(q, r) == [i \in 1..(Len(q) + Len(r)) |-> IF i <= Len(q) THEN q[i] ELSE r[i - Len(q)]]

LEMMA JoinedStands ==
  ASSUME NEW T, NEW q \in Seq(T), NEW r \in Seq(T)
  PROVE  /\ Joined(q, r) \in Seq(T) /\ Len(Joined(q, r)) = Len(q) + Len(r)
         /\ Stands(q, Joined(q, r), 0) /\ Stands(r, Joined(q, r), Len(q))
  <1> DEFINE l == Len(q)
             k == Len(r)
             w == Joined(q, r)
  <1>1. l \in Nat /\ k \in Nat /\ l + k \in Nat
    OBVIOUS
  <1>2. /\ \A i \in 1..l : q[i] \in T
        /\ \A i \in 1..k : r[i] \in T
    OBVIOUS
  <1>3. w = [i \in 1..(l + k) |-> IF i <= l THEN q[i] ELSE r[i - l]]
    BY DEF Joined
  <1> HIDE DEF l, k, w
  <1>4. ASSUME NEW i \in 1..(l + k)
        PROVE  /\ i \in 1..l => w[i] = q[i]
               /\ i \notin 1..l => i - l \in 1..k /\ w[i] = r[i - l]
    BY <1>1, <1>3
  <1>5. \A i \in 1..(l + k) : w[i] \in T
    BY <1>2, <1>4
  <1>6. w \in Seq(T) /\ Len(w) = l + k
    <2>1. w \in [1..(l + k) -> T]
      BY <1>3, <1>5
    <2> QED
      BY <1>1, <2>1
  <1>7. Stands(q, w, 0)
    <2>1. 0 + l <= l + k /\ \A i \in 1..l : 0 + i = i /\ i \in 1..(l + k)
      BY <1>1
    <2> QED
      BY <1>4, <1>6, <2>1 DEF Stands, l
  <1>8. Stands(r, w, l)
    <2>1. \A i \in 1..k : l + i \in 1..(l + k) /\ l + i \notin 1..l /\ (l + i) - l = i
      BY <1>1
    <2>2. \A i \in 1..k : w[l + i] = r[i]
      BY <1>4, <2>1
    <2>3. l + k <= Len(w)
      BY <1>1, <1>6
    <2> QED
      BY <1>1, <2>2, <2>3 DEF Stands, k
  <1> QED
    BY <1>6, <1>7, <1>8 DEF l, k, w

LEMMA MessageItemsRead ==
  ASSUME NEW buf \in Octets, 12 <= Len(buf),
         NEW q \in Seq(AnyItem), NEW r \in Seq(AnyItem), NEW e, NEW d, NEW p1, NEW p2,
         EncodedAs(e, p1, TRUE, q), EncodedAs(d, p2, FALSE, r),
         Stands(FlattenSeq(p1), buf, 12), Stands(FlattenSeq(p2), buf, 12 + Len(FlattenSeq(p1)))
  PROVE  LET read == ReadItems(buf, Len(q), Len(q) + Len(r)) IN
         read.ok /\ read.val = Joined(q, r)
  <1> DEFINE l == Len(q)
             k == Len(r)
             n == l + k
             items == Joined(q, r)
             parts == [i \in 1..(l + k) |-> IF i <= l THEN p1[i] ELSE p2[i - l]]
  <1>1. l \in Nat /\ k \in Nat /\ n \in Nat
    OBVIOUS
  <1>2. p1 \in [1..l -> Octets] /\ p2 \in [1..k -> Octets]
    BY DEF EncodedAs
  <1>3. items \in [1..n -> AnyItem]
    <2>1. items \in Seq(AnyItem) /\ Len(items) = n
      BY JoinedStands
    <2> HIDE DEF items, n
    <2> QED
      BY <2>1
  <1>4. items = [i \in 1..(l + k) |-> IF i <= l THEN q[i] ELSE r[i - l]]
    BY DEF Joined
  <1>5. /\ \A i \in 1..l : \A w \in Octets : \A off : Stands(p1[i], w, off) =>
             ReadItem(TRUE, w, off) = OkAt(q[i], off + Len(p1[i]))
        /\ \A i \in 1..k : \A w \in Octets : \A off : Stands(p2[i], w, off) =>
             ReadItem(FALSE, w, off) = OkAt(r[i], off + Len(p2[i]))
    BY DEF EncodedAs
  <1> HIDE DEF l, k, items
  <1>6. \E E : Row(E, parts, l + k, buf, 12)
    <2>1. \A at \in Nat : \A ps :
            /\ Stands(FlattenSeq(p1), buf, at) /\ Stands(FlattenSeq(p2), buf, at + Len(FlattenSeq(p1)))
            /\ ps = [i \in 1..(l + k) |-> IF i <= l THEN p1[i] ELSE p2[i - l]]
            => \E E : Row(E, ps, l + k, buf, at)
      BY <1>1, <1>2, RowOfRows
    <2> QED
      BY <2>1
  <1>7. ASSUME NEW i \in 1..n
        PROVE  /\ parts[i] \in Octets
               /\ \A off : Stands(parts[i], buf, off) =>
                    ReadItem(i <= l, buf, off) = OkAt(items[i], off + Len(parts[i]))
    <2>1. CASE i <= l
      <3>1. i \in 1..l /\ parts[i] = p1[i] /\ items[i] = q[i] /\ (i <= l) = TRUE
        BY <1>1, <1>4, <2>1
      <3> HIDE DEF parts
      <3> QED
        BY <1>2, <1>5, <3>1
    <2>2. CASE ~(i <= l)
      <3>1. i - l \in 1..k /\ parts[i] = p2[i - l] /\ items[i] = r[i - l] /\ (i <= l) = FALSE
        BY <1>1, <1>4, <2>2
      <3> HIDE DEF parts
      <3> QED
        BY <1>2, <1>5, <3>1
    <2> QED
      BY <2>1, <2>2
  <1>8. parts \in [1..n -> Octets]
    BY <1>7
  <1> HIDE DEF parts
  <1>9. PICK E : Row(E, parts, n, buf, 12)
    BY <1>6
  <1> HIDE DEF n
  <1>10. ReadItems(buf, l, n).ok /\ ReadItems(buf, l, n).val = items
    BY <1>1, <1>3, <1>7, <1>8, <1>9, ItemsRead
  <1> QED
    BY <1>10 DEF l, k, n, items

LEMMA QuestionsAny ==
  ASSUME NEW q \in Seq(Questions)
  PROVE  q \in Seq(AnyItem)
  <1> DEFINE n == Len(q)
  <1>1. n \in Nat /\ \A i \in 1..n : q[i] \in Questions
    OBVIOUS
  <1>2. ASSUME NEW i \in 1..n PROVE q[i] \in AnyItem
    <2>1. Item(TRUE, q[i])
      BY <1>1 DEF Item
    <2> QED
      BY <2>1, ItemsAreAny
  <1> QED
    BY <1>2

EncodedQuestions(m) == EncodeAll([i \in DOMAIN m.questions |-> EncodeQuestion(m.questions[i])])
EncodedRecords(m) == EncodeAll([i \in DOMAIN RecordsOf(m) |-> EncodeRecord(RecordsOf(m)[i])])

Fields(m) ==
  U16(m.id) \o U16(FlagWord(m)) \o U16(Len(m.questions) % 65536) \o U16(Len(m.answers) % 65536)
    \o U16(Len(m.authority) % 65536) \o U16(Len(m.additional) % 65536)
    \o EncodedQuestions(m).val \o EncodedRecords(m).val

LEMMA MarshalParts ==
  ASSUME NEW m, Marshal(m).ok
  PROVE  EncodedQuestions(m).ok /\ EncodedRecords(m).ok /\ Marshal(m) = Ok(Fields(m))
  <1>1. ~Fails.ok
    BY DEF Fails
  <1> DEFINE q == EncodedQuestions(m)
             r == EncodedRecords(m)
             All(v, w) == Ok(U16(m.id) \o U16(FlagWord(m)) \o U16(Len(m.questions) % 65536)
                              \o U16(Len(m.answers) % 65536) \o U16(Len(m.authority) % 65536)
                              \o U16(Len(m.additional) % 65536) \o v \o w)
  <1>2. Marshal(m) = IF q.ok THEN (IF r.ok THEN All(q.val, r.val) ELSE Fails) ELSE Fails
    BY DEF Marshal, Then, EncodedQuestions, EncodedRecords
  <1> HIDE DEF q, r, All
  <1>3. q.ok /\ r.ok
    BY <1>1, <1>2
  <1>4. Marshal(m) = All(q.val, r.val)
    BY <1>2, <1>3
  <1>5. Marshal(m) = Ok(Fields(m))
    BY <1>4 DEF Fields, All, q, r
  <1> QED
    BY <1>3, <1>5 DEF q, r

LEMMA MessageEncoded ==
  ASSUME NEW m, IsMessage(m), DotsTrimmed(m), Fits(m), Marshal(m).ok
  PROVE  /\ \E p : EncodedAs(EncodedQuestions(m), p, TRUE, m.questions)
         /\ \E p : EncodedAs(EncodedRecords(m), p, FALSE, RecordsOf(m))
  <1> DEFINE q == m.questions
             r == RecordsOf(m)
             qs == [i \in DOMAIN q |-> EncodeQuestion(q[i])]
             rs == [i \in DOMAIN r |-> EncodeRecord(r[i])]
  <1>1. EncodeAll(qs).ok /\ EncodeAll(rs).ok
    <2>1. EncodedQuestions(m) = EncodeAll(qs) /\ EncodedRecords(m) = EncodeAll(rs)
      BY DEF EncodedQuestions, EncodedRecords
    <2>2. EncodedQuestions(m).ok /\ EncodedRecords(m).ok
      BY MarshalParts
    <2> QED
      BY <2>1, <2>2
  <1>2. /\ q \in Seq(Questions) /\ r \in Seq(AnyItem)
        /\ \A i \in 1..Len(r) : r[i] \in ToSet(r) /\ IsRecord(r[i])
    BY MessageLists DEF ThreeIn
  <1>3. ASSUME NEW i \in 1..Len(r), rs[i].ok PROVE ReadsBack(rs[i], FALSE, r[i])
    <2> DEFINE x == r[i]
    <2>1. rs[i] = EncodeRecord(x)
      BY <1>2
    <2>2. x \in ToSet(RecordsOf(m)) /\ IsRecord(x)
      BY <1>2
    <2>3. NoDots(x) /\ RecordFits(x)
      BY <2>2, RecordsAreClear
    <2> HIDE DEF x
    <2>4. EncodeRecord(x).ok
      BY <1>3, <2>1
    <2>5. ReadsBack(EncodeRecord(x), FALSE, x)
      BY <2>2, <2>3, <2>4, RecordReads
    <2> QED
      BY <2>1, <2>5 DEF x
  <1>4. ASSUME NEW i \in 1..Len(q), qs[i].ok PROVE ReadsBack(qs[i], TRUE, q[i])
    <2> DEFINE x == q[i]
    <2>1. qs[i] = EncodeQuestion(x)
      BY <1>2
    <2>2. x \in ToSet(m.questions) /\ x \in [name : Octets, type : Word16]
      <3>1. x \in Questions
        BY <1>2
      <3>2. x \in ToSet(q)
        BY <1>2 DEF ToSet
      <3> QED
        BY <3>1, <3>2 DEF Questions
    <2>3. ~EndsInDot(x.name)
      BY <2>2, QuestionsAreClear
    <2> HIDE DEF x
    <2>4. EncodeQuestion(x).ok
      BY <1>4, <2>1
    <2>5. ReadsBack(EncodeQuestion(x), TRUE, x)
      BY <2>2, <2>3, <2>4, QuestionReads
    <2> QED
      BY <2>1, <2>5 DEF x
  <1>5. DOMAIN qs = 1..Len(q) /\ DOMAIN rs = 1..Len(r)
    BY <1>2
  <1>6. EncodeAll(qs) = EncodedQuestions(m) /\ EncodeAll(rs) = EncodedRecords(m)
    BY DEF EncodedQuestions, EncodedRecords
  <1> HIDE DEF qs, rs, r, q
  <1>7. \E p : EncodedAs(EncodeAll(qs), p, TRUE, q)
    BY <1>1, <1>2, <1>4, <1>5, ListEncoded
  <1>8. \E p : EncodedAs(EncodeAll(rs), p, FALSE, r)
    BY <1>1, <1>2, <1>3, <1>5, ListEncoded
  <1> QED
    BY <1>6, <1>7, <1>8 DEF q, r

\* The numbers in the header, as Unmarshal reads them.
CountsOf(buf, m) ==
  /\ U16At(buf, 0) = m.id /\ U16At(buf, 2) = FlagWord(m)
  /\ U16At(buf, 4) = Len(m.questions) /\ U16At(buf, 6) = Len(m.answers)
  /\ U16At(buf, 8) = Len(m.authority) /\ U16At(buf, 10) = Len(m.additional)

\* What is encoded of a message, where it stands.
LEMMA EncodedMessage ==
  ASSUME NEW m, IsMessage(m), DotsTrimmed(m), Fits(m), Marshal(m).ok
  PROVE  LET buf == Marshal(m).val
             q == EncodedQuestions(m)
             r == EncodedRecords(m)
         IN  /\ buf \in Octets /\ 12 <= Len(buf) /\ CountsOf(buf, m)
             /\ Stands(q.val, buf, 12) /\ Stands(r.val, buf, 12 + Len(q.val))
  <1> DEFINE buf == Marshal(m).val
             q == EncodedQuestions(m).val
             r == EncodedRecords(m).val
             f == FlagWord(m)
             c1 == Len(m.questions)
             c2 == Len(m.answers)
             c3 == Len(m.authority)
             c4 == Len(m.additional)
  <1>1. buf = U16(m.id) \o U16(f) \o U16(c1 % 65536) \o U16(c2 % 65536) \o U16(c3 % 65536)
                \o U16(c4 % 65536) \o q \o r
    <2>1. Marshal(m) = Ok(Fields(m))
      BY MarshalParts
    <2>2. buf = Fields(m)
      BY <2>1 DEF Ok
    <2> QED
      BY <2>2 DEF Fields
  <1>2. m.id \in Word16 /\ f \in Word16
    <2>1. /\ m.id \in Word16 /\ m.response \in BOOLEAN /\ m.opcode \in 0..15
          /\ m.authoritative \in BOOLEAN /\ m.truncated \in BOOLEAN
          /\ m.recursionDesired \in BOOLEAN /\ m.recursionAvailable \in BOOLEAN
          /\ m.rcode \in 0..15
      <3> DEFINE A1 == ToSet(m.answers)
                 B1 == ToSet(m.authority)
                 C1 == ToSet(m.additional)
                 Q1 == Seq([name : Octets, type : Word16])
      <3> HIDE DEF A1, B1, C1, Q1
      <3>1. m \in [id : Word16, response : BOOLEAN, opcode : 0..15, authoritative : BOOLEAN,
                   truncated : BOOLEAN, recursionDesired : BOOLEAN, recursionAvailable : BOOLEAN,
                   rcode : 0..15, questions : Q1, answers : Seq(A1),
                   authority : Seq(B1), additional : Seq(C1)]
        BY DEF IsMessage, Q1, A1, B1, C1
      <3> QED
        BY <3>1
    <2> QED
      BY <2>1, FlagsRead
  <1>3. c1 \in Nat /\ c2 \in Nat /\ c3 \in Nat /\ c4 \in Nat
    BY MessageLists DEF ThreeIn
  <1>4. c1 < 65536 /\ c2 < 65536 /\ c3 < 65536 /\ c4 < 65536
    BY DEF Fits
  <1>5. q \in Octets /\ r \in Octets
    <2>1. PICK p : EncodedAs(EncodedQuestions(m), p, TRUE, m.questions)
      BY MessageEncoded
    <2>2. PICK t : EncodedAs(EncodedRecords(m), t, FALSE, RecordsOf(m))
      BY MessageEncoded
    <2>3. q = FlattenSeq(p) /\ r = FlattenSeq(t)
      BY <2>1, <2>2 DEF EncodedAs, Ok
    <2>4. ASSUME NEW list \in Seq(AnyItem), NEW e, NEW isQuestion, NEW x, EncodedAs(e, x, isQuestion, list)
          PROVE  FlattenSeq(x) \in Octets
      <3> DEFINE n == Len(list)
      <3>1. n \in Nat /\ x \in [1..n -> Octets]
        BY <2>4 DEF EncodedAs
      <3> HIDE DEF n
      <3> QED
        BY <3>1, FlatType DEF Octets
    <2>5. m.questions \in Seq(AnyItem) /\ RecordsOf(m) \in Seq(AnyItem)
      BY MessageLists, QuestionsAny DEF ThreeIn
    <2> QED
      BY <2>1, <2>2, <2>3, <2>4, <2>5
  <1> HIDE DEF buf, q, r, f, c1, c2, c3, c4
  <1>6. /\ c1 % 65536 = c1 /\ c2 % 65536 = c2 /\ c3 % 65536 = c3 /\ c4 % 65536 = c4
        /\ c1 \in Word16 /\ c2 \in Word16 /\ c3 \in Word16 /\ c4 \in Word16
    BY <1>3, <1>4 DEF Word16
  <1> DEFINE i == m.id
             h1 == U16(i)
             h2 == U16(f)
             h3 == U16(c1)
             h4 == U16(c2)
             h5 == U16(c3)
             h6 == U16(c4)
  <1>7. /\ h1 \in Octets /\ h2 \in Octets /\ h3 \in Octets /\ h4 \in Octets /\ h5 \in Octets /\ h6 \in Octets
        /\ Len(h1) = 2 /\ Len(h2) = 2 /\ Len(h3) = 2 /\ Len(h4) = 2 /\ Len(h5) = 2 /\ Len(h6) = 2
    <2>1. ASSUME NEW w \in Word16 PROVE U16(w) \in Octets /\ Len(U16(w)) = 2
      BY NumbersStand
    <2> QED
      BY <1>2, <1>6, <2>1
  <1>8. buf = h1 \o h2 \o h3 \o h4 \o h5 \o h6 \o q \o r
    BY <1>1, <1>6
  <1>9. HeaderOf(buf, h1, h2, h3, h4, h5, h6, q, r)
    <2> HIDE DEF h1, h2, h3, h4, h5, h6
    <2> QED
      BY <1>5, <1>7, <1>8, HeaderStands
  <1>10. /\ U16At(buf, 0) = i /\ U16At(buf, 2) = f /\ U16At(buf, 4) = c1 /\ U16At(buf, 6) = c2
         /\ U16At(buf, 8) = c3 /\ U16At(buf, 10) = c4
    <2>1. ASSUME NEW w \in Word16, NEW off, Stands(U16(w), buf, off) PROVE U16At(buf, off) = w
      BY <2>1, NumbersStand
    <2>2. /\ Stands(U16(i), buf, 0) /\ Stands(U16(f), buf, 2) /\ Stands(U16(c1), buf, 4)
          /\ Stands(U16(c2), buf, 6) /\ Stands(U16(c3), buf, 8) /\ Stands(U16(c4), buf, 10)
      BY <1>9 DEF HeaderOf
    <2> QED
      BY <1>2, <1>6, <2>1, <2>2
  <1>11. CountsOf(buf, m)
    BY <1>10 DEF CountsOf, f, c1, c2, c3, c4
  <1> HIDE DEF h1, h2, h3, h4, h5, h6
  <1>12. /\ buf \in Octets /\ 12 <= Len(buf)
         /\ Stands(q, buf, 12) /\ Stands(r, buf, 12 + Len(q))
    BY <1>9 DEF HeaderOf
  <1> QED
    BY <1>11, <1>12 DEF buf, q, r

\* The message that is made of the header of buf and the items.
SectionOf(items, from, to) == SubSeq(items, from + 1, to)

Decoded(buf, u, items) ==
  [id |-> U16At(buf, 0), response |-> HasBit(U16At(buf, 2), 32768),
   opcode |-> (U16At(buf, 2) \div 2048) % 16, authoritative |-> HasBit(U16At(buf, 2), 1024),
   truncated |-> HasBit(U16At(buf, 2), 512), recursionDesired |-> HasBit(U16At(buf, 2), 256),
   recursionAvailable |-> HasBit(U16At(buf, 2), 128), rcode |-> U16At(buf, 2) % 16,
   questions |-> SectionOf(items, u[0], u[1]), answers |-> SectionOf(items, u[1], u[2]),
   authority |-> SectionOf(items, u[2], u[3]), additional |-> SectionOf(items, u[3], u[4])]

LEMMA UnmarshalParts ==
  ASSUME NEW buf
  PROVE  LET u == SectionEnds(buf)
             read == ReadItems(buf, u[1], u[4])
         IN  Unmarshal(buf) = IF Len(buf) < 12 \/ ~read.ok THEN Fails ELSE Ok(Decoded(buf, u, read.val))
  <1> DEFINE u == SectionEnds(buf)
             read == ReadItems(buf, u[1], u[4])
             flags == U16At(buf, 2)
             items == read.val
             Section(s) == SubSeq(items, u[s - 1] + 1, u[s])
             message == [id |-> U16At(buf, 0), response |-> HasBit(flags, 32768),
                 opcode |-> (flags \div 2048) % 16, authoritative |-> HasBit(flags, 1024),
                 truncated |-> HasBit(flags, 512), recursionDesired |-> HasBit(flags, 256),
                 recursionAvailable |-> HasBit(flags, 128), rcode |-> flags % 16,
                 questions |-> Section(1), answers |-> Section(2), authority |-> Section(3),
                 additional |-> Section(4)]
  <1>1. Unmarshal(buf) = IF Len(buf) < 12 THEN Fails ELSE IF read.ok THEN Ok(message) ELSE Fails
    BY DEF Unmarshal, Then
  <1>2. message = Decoded(buf, u, items)
    <2>1. /\ Section(1) = SectionOf(items, u[0], u[1]) /\ Section(2) = SectionOf(items, u[1], u[2])
          /\ Section(3) = SectionOf(items, u[2], u[3]) /\ Section(4) = SectionOf(items, u[3], u[4])
      <3>1. 1 - 1 = 0 /\ 2 - 1 = 1 /\ 3 - 1 = 2 /\ 4 - 1 = 3
        OBVIOUS
      <3> HIDE DEF u, items
      <3> QED
        BY <3>1 DEF SectionOf
    <2> HIDE DEF Section, u, items
    <2> QED
      BY <2>1 DEF Decoded
  <1> HIDE DEF message, u, read
  <1>3. Unmarshal(buf) = IF Len(buf) < 12 \/ ~read.ok THEN Fails ELSE Ok(Decoded(buf, u, read.val))
    BY <1>1, <1>2
  <1> QED
    BY <1>3 DEF u, read

LEMMA FieldsOfMessage ==
  ASSUME NEW m, IsMessage(m)
  PROVE  /\ m = [id |-> m.id, response |-> m.response, opcode |-> m.opcode,
                 authoritative |-> m.authoritative, truncated |-> m.truncated,
                 recursionDesired |-> m.recursionDesired,
                 recursionAvailable |-> m.recursionAvailable, rcode |-> m.rcode,
                 questions |-> m.questions, answers |-> m.answers,
                 authority |-> m.authority, additional |-> m.additional]
         /\ m.id \in Word16 /\ m.response \in BOOLEAN /\ m.opcode \in 0..15
         /\ m.authoritative \in BOOLEAN /\ m.truncated \in BOOLEAN
         /\ m.recursionDesired \in BOOLEAN /\ m.recursionAvailable \in BOOLEAN
         /\ m.rcode \in 0..15
  <1> DEFINE A1 == ToSet(m.answers)
             B1 == ToSet(m.authority)
             C1 == ToSet(m.additional)
             Q1 == Seq([name : Octets, type : Word16])
             AS == Seq(A1)
             BS == Seq(B1)
             CS == Seq(C1)
  <1>1. m \in [id : Word16, response : BOOLEAN, opcode : 0..15, authoritative : BOOLEAN,
               truncated : BOOLEAN, recursionDesired : BOOLEAN, recursionAvailable : BOOLEAN,
               rcode : 0..15, questions : Q1, answers : AS, authority : BS, additional : CS]
    BY DEF IsMessage
  <1> HIDE DEF AS, BS, CS, Q1
  <1> QED
    BY <1>1

LEMMA MessageReads ==
  ASSUME NEW m, IsMessage(m), DotsTrimmed(m), Fits(m), Marshal(m).ok
  PROVE  Unmarshal(Marshal(m).val) = Ok(m)
  <1> DEFINE buf == Marshal(m).val
             q == EncodedQuestions(m)
             r == EncodedRecords(m)
             u == SectionEnds(buf)
             qs == m.questions
             rs == RecordsOf(m)
             an == m.answers
             au == m.authority
             ad == m.additional
             items == Joined(qs, rs)
             read == ReadItems(buf, u[1], u[4])
             l == Len(qs)
             la == Len(an)
             lb == Len(au)
             lc == Len(ad)
  <1>1. /\ buf \in Octets /\ 12 <= Len(buf) /\ CountsOf(buf, m)
        /\ Stands(q.val, buf, 12) /\ Stands(r.val, buf, 12 + Len(q.val))
    BY EncodedMessage
  <1>2. PICK p1 : EncodedAs(q, p1, TRUE, qs)
    BY MessageEncoded
  <1>3. PICK p2 : EncodedAs(r, p2, FALSE, rs)
    BY MessageEncoded
  <1>4. /\ qs \in Seq(AnyItem) /\ ThreeIn(rs, an, au, ad, AnyItem)
    BY MessageLists, QuestionsAny
  <1>5. /\ u[0] = 0 /\ u[1] = u[0] + U16At(buf, 4) /\ u[2] = u[1] + U16At(buf, 6)
        /\ u[3] = u[2] + U16At(buf, 8) /\ u[4] = u[3] + U16At(buf, 10)
    BY SectionsEnd
  <1>6. /\ U16At(buf, 0) = m.id /\ U16At(buf, 2) = FlagWord(m)
        /\ U16At(buf, 4) = l /\ U16At(buf, 6) = la /\ U16At(buf, 8) = lb /\ U16At(buf, 10) = lc
    BY <1>1 DEF CountsOf
  <1> HIDE DEF buf, q, r, u, qs, rs, an, au, ad, items, read
  <1>7. /\ rs \in Seq(AnyItem) /\ an \in Seq(AnyItem) /\ au \in Seq(AnyItem) /\ ad \in Seq(AnyItem)
        /\ Len(rs) = la + lb + lc
        /\ Stands(an, rs, 0) /\ Stands(au, rs, la) /\ Stands(ad, rs, la + lb)
    BY <1>4 DEF ThreeIn
  <1>8. l \in Nat /\ la \in Nat /\ lb \in Nat /\ lc \in Nat
    BY <1>4, <1>7
  <1> HIDE DEF l, la, lb, lc
  <1>9. u[0] = 0 /\ u[1] = l /\ u[2] = l + la /\ u[3] = l + (la + lb) /\ u[4] = l + Len(rs)
    BY <1>5, <1>6, <1>7, <1>8
  <1>10. read.ok /\ read.val = items
    <2>1. q.val = FlattenSeq(p1) /\ r.val = FlattenSeq(p2)
      BY <1>2, <1>3 DEF EncodedAs, Ok
    <2>2. Stands(FlattenSeq(p1), buf, 12) /\ Stands(FlattenSeq(p2), buf, 12 + Len(FlattenSeq(p1)))
      BY <1>1, <2>1
    <2>3. ReadItems(buf, Len(qs), Len(qs) + Len(rs)).ok
          /\ ReadItems(buf, Len(qs), Len(qs) + Len(rs)).val = items
      BY <1>1, <1>2, <1>3, <1>4, <1>7, <2>2, MessageItemsRead DEF items
    <2> QED
      BY <1>9, <2>3 DEF read, l
  <1>11. /\ items \in Seq(AnyItem) /\ Len(items) = l + Len(rs)
         /\ Stands(qs, items, 0) /\ Stands(rs, items, l)
    BY <1>4, <1>7, JoinedStands DEF items, l
  <1>12. Stands(an, items, l) /\ Stands(au, items, l + la) /\ Stands(ad, items, l + (la + lb))
    <2>1. ASSUME NEW s, NEW off, Stands(s, rs, off), s \in Seq(AnyItem)
          PROVE  Stands(s, items, l + off)
      <3> DEFINE k == Len(s)
                 n == Len(rs)
                 w == Len(items)
      <3>1. /\ off \in Nat /\ off + k <= n /\ k \in Nat /\ n \in Nat /\ w = l + n
            /\ \A i \in 1..k : rs[off + i] = s[i]
            /\ \A i \in 1..n : items[l + i] = rs[i]
        BY <1>7, <1>11, <2>1 DEF Stands
      <3> HIDE DEF k, n, w
      <3>2. l + off \in Nat /\ (l + off) + k <= w
        BY <1>8, <3>1
      <3>3. \A i \in 1..k : off + i \in 1..n /\ (l + off) + i = l + (off + i)
        BY <1>8, <3>1
      <3>4. \A i \in 1..k : items[(l + off) + i] = s[i]
        BY <3>1, <3>3
      <3> QED
        BY <3>2, <3>4 DEF Stands, k, w
    <2>2. Stands(an, items, l + 0)
      BY <1>7, <2>1
    <2>3. l + 0 = l
      BY <1>8
    <2> QED
      BY <1>7, <2>1, <2>2, <2>3
  <1>13. /\ SectionOf(items, u[0], u[1]) = qs /\ SectionOf(items, u[1], u[2]) = an
         /\ SectionOf(items, u[2], u[3]) = au /\ SectionOf(items, u[3], u[4]) = ad
    <2>1. ASSUME NEW s \in Seq(AnyItem), NEW off, Stands(s, items, off), NEW to, to = off + Len(s)
          PROVE  SectionOf(items, off, to) = s
      BY <1>11, <2>1, SectionStands DEF SectionOf
    <2>2. /\ u[1] = u[0] + Len(qs) /\ u[2] = u[1] + Len(an) /\ u[3] = u[2] + Len(au)
          /\ u[4] = u[3] + Len(ad)
      <3>1. /\ l = 0 + l /\ l + la = l + la /\ l + (la + lb) = (l + la) + lb
            /\ l + (la + lb + lc) = (l + (la + lb)) + lc
        BY <1>8
      <3> QED
        BY <1>7, <1>9, <3>1 DEF l, la, lb, lc
    <2> QED
      BY <1>4, <1>7, <1>9, <1>11, <1>12, <2>1, <2>2
  <1>14. FlagsOf(U16At(buf, 2), m)
    BY <1>6, FieldsOfMessage, FlagsRead
  <1>15. Decoded(buf, u, items) =
           [id |-> m.id, response |-> m.response, opcode |-> m.opcode,
            authoritative |-> m.authoritative, truncated |-> m.truncated,
            recursionDesired |-> m.recursionDesired,
            recursionAvailable |-> m.recursionAvailable, rcode |-> m.rcode,
            questions |-> qs, answers |-> an, authority |-> au, additional |-> ad]
    BY <1>6, <1>13, <1>14 DEF Decoded, FlagsOf
  <1>16. Decoded(buf, u, items) = m
    BY <1>15, FieldsOfMessage DEF qs, an, au, ad
  <1>17. ~(Len(buf) < 12)
    <2> DEFINE w == Len(buf)
    <2>1. w \in Nat /\ 12 <= w
      BY <1>1 DEF Octets
    <2> HIDE DEF w
    <2>2. ~(w < 12)
      BY <2>1
    <2> QED
      BY <2>2 DEF w
  <1>18. Unmarshal(buf) = IF Len(buf) < 12 \/ ~read.ok THEN Fails ELSE Ok(Decoded(buf, u, read.val))
    BY UnmarshalParts DEF u, read
  <1>19. Unmarshal(buf) = Ok(m)
    BY <1>10, <1>16, <1>17, <1>18
  <1> QED
    BY <1>19 DEF buf

(* What is decoded is a message. *)

\* k items have been read, the first of them questions.
ItemsSoFar(x, k, questions, buf) ==
  /\ x = OkAt(x.val, x.after) /\ x.val \in Seq(AnyItem) /\ Len(x.val) = k
  /\ x.after \in 0..Len(buf)
  /\ \A i \in 1..k : Item(i <= questions, x.val[i])

LEMMA NextItem ==
  ASSUME NEW buf \in Octets, NEW questions \in Nat, NEW k \in Nat, NEW x, NEW y,
         ItemsSoFar(x, k, questions, buf),
         y = ItemPass(buf, k + 1 <= questions, x), y.ok
  PROVE  ItemsSoFar(y, k + 1, questions, buf)
  <1> DEFINE v == x.val
             a == x.after
             isQuestion == k + 1 <= questions
             r == ReadItem(isQuestion, buf, a)
             w == Append(v, r.val)
  <1>1. /\ x = OkAt(v, a) /\ v \in Seq(AnyItem) /\ Len(v) = k /\ a \in 0..Len(buf)
        /\ \A i \in 1..k : Item(i <= questions, v[i])
    BY DEF ItemsSoFar
  <1>2. isQuestion \in BOOLEAN
    OBVIOUS
  <1> HIDE DEF v, a
  <1>3. y = ItemPass(buf, isQuestion, OkAt(v, a))
    BY <1>1
  <1> HIDE DEF isQuestion
  <1>4. y = IF r.ok THEN OkAt(w, r.after) ELSE Fails
    BY <1>3, ItemPassType
  <1>5. r.ok /\ y = OkAt(w, r.after)
    <2>1. ~Fails.ok
      BY DEF Fails
    <2> HIDE DEF r, w
    <2> QED
      BY <1>4, <2>1
  <1>6. Item(isQuestion, r.val) /\ r.after \in 0..Len(buf)
    BY <1>1, <1>2, <1>5, ItemIsTyped DEF ItemTyped
  <1> HIDE DEF r
  <1>7. r.val \in AnyItem
    BY <1>6, ItemsAreAny
  <1> DEFINE z == r.val
  <1> HIDE DEF z
  <1>8. /\ w \in Seq(AnyItem) /\ Len(w) = k + 1 /\ w[k + 1] = z
        /\ \A i \in 1..k : w[i] = v[i]
    <2> DEFINE l == Len(v)
    <2>1. v \in Seq(AnyItem) /\ l \in Nat /\ z \in AnyItem /\ w = Append(v, z)
      BY <1>1, <1>7 DEF z
    <2> HIDE DEF w
    <2>2. /\ w \in Seq(AnyItem) /\ Len(w) = l + 1 /\ w[l + 1] = z
          /\ \A i \in 1..l : w[i] = v[i]
      BY <2>1
    <2> QED
      BY <1>1, <2>2 DEF l
  <1>9. \A i \in 1..(k + 1) : Item(i <= questions, w[i])
    <2> SUFFICES ASSUME NEW i \in 1..(k + 1) PROVE Item(i <= questions, w[i])
      OBVIOUS
    <2> HIDE DEF w
    <2>1. CASE i = k + 1
      BY <1>6, <1>8, <2>1 DEF isQuestion, z
    <2>2. CASE i # k + 1
      <3>1. i \in 1..k
        BY <2>2
      <3> QED
        BY <1>1, <1>8, <3>1
    <2> QED
      BY <2>1, <2>2
  <1> HIDE DEF w
  <1>10. y.val = w /\ y.after = r.after /\ y = OkAt(y.val, y.after)
    <2>1. y = OkAt(w, r.after)
      BY <1>5
    <2>2. \A u, p : OkAt(u, p).val = u /\ OkAt(u, p).after = p
      BY DEF OkAt
    <2>3. y.val = w /\ y.after = r.after
      BY <2>1, <2>2
    <2> QED
      BY <2>1, <2>3
  <1> QED
    BY <1>6, <1>8, <1>9, <1>10 DEF ItemsSoFar

LEMMA ItemsDecoded ==
  ASSUME NEW buf \in Octets, 12 <= Len(buf), NEW questions \in Nat, NEW total \in Nat,
         ReadItems(buf, questions, total).ok
  PROVE  ItemsSoFar(ReadItems(buf, questions, total), total, questions, buf)
  <1> DEFINE s == ItemLoop(buf, questions)
             c == CHOOSE i \in 0..total : i = total \/ ~s[i].ok
  <1>1. /\ s[0] = OkAt(<<>>, 12)
        /\ \A k \in Nat :
             s[k + 1] = IF s[k].ok THEN ItemPass(buf, k + 1 <= questions, s[k]) ELSE Fails
    BY ItemLoopRuns
  <1>2. ReadItems(buf, questions, total) = s[c]
    BY DEF ReadItems
  <1> HIDE DEF s
  <1>3. c \in 0..total /\ (c = total \/ ~s[c].ok)
    <2>1. total \in 0..total
      OBVIOUS
    <2> QED
      BY <2>1
  <1> HIDE DEF c
  <1>4. c = total /\ s[total].ok
    BY <1>2, <1>3
  <1> DEFINE G == {k \in Nat : s[k].ok => ItemsSoFar(s[k], k, questions, buf)}
  <1>5. 0 \in G
    <2> DEFINE b == Len(buf)
    <2>1. 12 \in 0..b
      <3>1. b \in Nat /\ 12 <= b
        BY DEF Octets
      <3> HIDE DEF b
      <3> QED
        BY <3>1
    <2> HIDE DEF b
    <2>2. s[0].val = <<>> /\ s[0].after = 12 /\ s[0] = OkAt(s[0].val, s[0].after)
      BY <1>1 DEF OkAt
    <2>3. <<>> \in Seq(AnyItem) /\ Len(<<>>) = 0
      OBVIOUS
    <2>4. ItemsSoFar(s[0], 0, questions, buf)
      BY <2>1, <2>2, <2>3 DEF ItemsSoFar, b
    <2> QED
      BY <2>4
  <1>6. ASSUME NEW k \in Nat, k \in G PROVE k + 1 \in G
    <2> SUFFICES ASSUME s[k + 1].ok PROVE ItemsSoFar(s[k + 1], k + 1, questions, buf)
      OBVIOUS
    <2>1. ~Fails.ok
      BY DEF Fails
    <2>2. s[k].ok /\ s[k + 1] = ItemPass(buf, k + 1 <= questions, s[k])
      BY <1>1, <2>1
    <2>3. ItemsSoFar(s[k], k, questions, buf)
      BY <1>6, <2>2
    <2> QED
      BY <2>2, <2>3, NextItem
  <1>7. \A k \in Nat : k \in G
    <2> HIDE DEF G
    <2> QED
      BY <1>5, <1>6, Induction
  <1> QED
    BY <1>2, <1>4, <1>7

\* v is the items after the first from, n of them.
IsSection(v, T, items, from, n) ==
  /\ v \in Seq(T) /\ Len(v) = n
  /\ \A i \in 1..n : from + i \in 1..Len(items) /\ v[i] = items[from + i]

LEMMA SectionTyped ==
  ASSUME NEW T, NEW items \in Seq(T), NEW from \in Nat, NEW to \in Nat, from <= to, to <= Len(items)
  PROVE  IsSection(SectionOf(items, from, to), T, items, from, to - from)
  <1> DEFINE b == Len(items)
             v == SectionOf(items, from, to)
             first == from + 1
             l == to - from
  <1>1. /\ b \in Nat /\ first \in Nat /\ first >= 1 /\ first <= to + 1 /\ (to - first) + 1 = l
        /\ l \in Nat /\ \A k \in 1..l : (first + k) - 1 = from + k /\ from + k \in 1..b
    <2>1. b \in Nat /\ to <= b
      OBVIOUS
    <2> HIDE DEF b
    <2> QED
      BY <2>1
  <1> HIDE DEF first, l
  <1>2. SubSeq(items, first, to) \in Seq(T)
    BY <1>1
  <1>3. Len(SubSeq(items, first, to)) = l
    BY <1>1
  <1>4. \A k \in 1..l : SubSeq(items, first, to)[k] = items[(first + k) - 1]
    BY <1>1
  <1>5. v = SubSeq(items, first, to)
    BY DEF SectionOf, first
  <1> HIDE DEF v, b
  <1>6. v \in Seq(T) /\ Len(v) = l /\ \A k \in 1..l : from + k \in 1..b /\ v[k] = items[from + k]
    BY <1>1, <1>2, <1>3, <1>4, <1>5
  <1> QED
    BY <1>6 DEF v, b, l, IsSection

\* A section of what has been decoded.
LEMMA SectionOfItems ==
  ASSUME NEW questions \in Nat, NEW total \in Nat, NEW buf, NEW x,
         ItemsSoFar(x, total, questions, buf),
         NEW from \in Nat, NEW to \in Nat, from <= to, to <= total
  PROVE  LET v == SectionOf(x.val, from, to) IN
         /\ v \in Seq(AnyItem)
         /\ from = 0 /\ to = questions => v \in Seq(Questions)
         /\ questions <= from => \A i \in 1..Len(v) : IsRecord(v[i])
  <1> DEFINE items == x.val
             v == SectionOf(items, from, to)
             n == to - from
  <1>1. /\ items \in Seq(AnyItem) /\ Len(items) = total
        /\ \A i \in 1..total : Item(i <= questions, items[i])
    BY DEF ItemsSoFar
  <1> HIDE DEF items
  <1>2. /\ v \in Seq(AnyItem) /\ Len(v) = n
        /\ \A i \in 1..n : from + i \in 1..total /\ v[i] = items[from + i]
    <2>1. items \in Seq(AnyItem) /\ to <= Len(items) /\ Len(items) = total
      BY <1>1
    <2> HIDE DEF v, n
    <2>2. IsSection(SectionOf(items, from, to), AnyItem, items, from, to - from)
      BY <2>1, SectionTyped
    <2>3. IsSection(v, AnyItem, items, from, n)
      BY <2>2 DEF v, n
    <2> QED
      BY <2>1, <2>3 DEF IsSection
  <1> HIDE DEF v
  <1>3. ASSUME from = 0, to = questions PROVE v \in Seq(Questions)
    <2>1. ASSUME NEW i \in 1..n PROVE v[i] \in Questions
      <3>1. from + i = i /\ i <= questions
        BY <1>3
      <3>2. i \in 1..total /\ v[i] = items[i]
        BY <1>2, <3>1
      <3>3. Item(i <= questions, items[i])
        BY <1>1, <3>2
      <3> QED
        BY <3>1, <3>2, <3>3 DEF Item
    <2> HIDE DEF n
    <2> QED
      BY <1>2, <2>1
  <1>4. ASSUME questions <= from, NEW i \in 1..n PROVE IsRecord(v[i])
    <2>1. ~(from + i <= questions)
      BY <1>4
    <2>2. Item(from + i <= questions, items[from + i]) /\ v[i] = items[from + i]
      BY <1>1, <1>2
    <2> QED
      BY <2>1, <2>2 DEF Item
  <1> QED
    BY <1>2, <1>3, <1>4 DEF v, items

LEMMA ListOf ==
  ASSUME NEW S, NEW T, NEW s \in Seq(S), \A i \in 1..Len(s) : s[i] \in T
  PROVE  s \in Seq(T)
  OBVIOUS

LEMMA WellFormed ==
  ASSUME NEW m, NEW a \in Seq(AnyItem), NEW b \in Seq(AnyItem), NEW c \in Seq(AnyItem),
         NEW q \in Seq(Questions),
         m = [id |-> m.id, response |-> m.response, opcode |-> m.opcode,
              authoritative |-> m.authoritative, truncated |-> m.truncated,
              recursionDesired |-> m.recursionDesired,
              recursionAvailable |-> m.recursionAvailable, rcode |-> m.rcode,
              questions |-> q, answers |-> a, authority |-> b, additional |-> c],
         m.id \in Word16, m.response \in BOOLEAN, m.opcode \in 0..15,
         m.authoritative \in BOOLEAN, m.truncated \in BOOLEAN,
         m.recursionDesired \in BOOLEAN, m.recursionAvailable \in BOOLEAN, m.rcode \in 0..15,
         \A i \in 1..Len(a) : IsRecord(a[i]),
         \A i \in 1..Len(b) : IsRecord(b[i]),
         \A i \in 1..Len(c) : IsRecord(c[i])
  PROVE  IsMessage(m)
  <1> DEFINE A1 == ToSet(a)
             B1 == ToSet(b)
             C1 == ToSet(c)
             Q1 == Seq([name : Octets, type : Word16])
             T == {x \in AnyItem : IsRecord(x)}
             r == a \o b \o c
  <1>1. m.questions = q /\ m.answers = a /\ m.authority = b /\ m.additional = c
    OBVIOUS
  <1>2. ASSUME NEW s \in Seq(AnyItem) PROVE s \in Seq(ToSet(s))
    <2>1. \A i \in 1..Len(s) : s[i] \in ToSet(s)
      BY DEF ToSet
    <2> QED
      BY <2>1, ListOf
  <1>3. a \in Seq(A1) /\ b \in Seq(B1) /\ c \in Seq(C1) /\ q \in Q1
    BY <1>2 DEF Questions
  <1>4. ASSUME NEW s \in Seq(AnyItem), \A i \in 1..Len(s) : IsRecord(s[i]) PROVE s \in Seq(T)
    <2>1. \A i \in 1..Len(s) : s[i] \in T
      <3> SUFFICES ASSUME NEW i \in 1..Len(s) PROVE s[i] \in AnyItem /\ IsRecord(s[i])
        OBVIOUS
      <3> QED
        BY <1>4
    <2> HIDE DEF T
    <2> QED
      BY <2>1, ListOf
  <1>5. a \in Seq(T) /\ b \in Seq(T) /\ c \in Seq(T)
    BY <1>4
  <1>6. \A rr \in ToSet(r) : IsRecord(rr)
    <2>1. r \in Seq(T)
      <3> HIDE DEF T
      <3> QED
        BY <1>5, ThreeLists DEF ThreeIn
    <2> HIDE DEF r
    <2>2. \A i \in DOMAIN r : r[i] \in T
      <3> HIDE DEF T
      <3> QED
        BY <2>1
    <2> QED
      BY <2>2 DEF ToSet
  <1>7. \A rr \in ToSet(RecordsOf(m)) : IsRecord(rr)
    BY <1>1, <1>6 DEF RecordsOf
  <1> DEFINE AS == Seq(A1)
             BS == Seq(B1)
             CS == Seq(C1)
  <1> HIDE DEF AS, BS, CS, Q1
  <1>8. m \in [id : Word16, response : BOOLEAN, opcode : 0..15, authoritative : BOOLEAN,
               truncated : BOOLEAN, recursionDesired : BOOLEAN, recursionAvailable : BOOLEAN,
               rcode : 0..15, questions : Q1, answers : AS, authority : BS, additional : CS]
    <2>1. a \in AS /\ b \in BS /\ c \in CS
      BY <1>3 DEF AS, BS, CS
    <2> QED
      BY <1>3, <2>1
  <1> QED
    BY <1>1, <1>7, <1>8 DEF IsMessage, AS, BS, CS, Q1

\* Whatever is received, what it is decoded to is a message: every field has its width,
\* every record the data of its type, and no octet outside of the buffer is read
\* (wire.go:198-262).
THEOREM DecodedAreMessages ==
  ASSUME NEW buf \in Octets, Unmarshal(buf).ok
  PROVE  Unmarshal(buf) = Ok(Unmarshal(buf).val) /\ IsMessage(Unmarshal(buf).val)
  <1> DEFINE u == SectionEnds(buf)
             read == ReadItems(buf, u[1], u[4])
             m == Decoded(buf, u, read.val)
             c1 == U16At(buf, 4)
             c2 == U16At(buf, 6)
             c3 == U16At(buf, 8)
             c4 == U16At(buf, 10)
             w == Len(buf)
  <1>1. ~(w < 12) /\ read.ok /\ Unmarshal(buf) = Ok(m)
    <2>1. ~Fails.ok
      BY DEF Fails
    <2>2. Unmarshal(buf) = IF w < 12 \/ ~read.ok THEN Fails ELSE Ok(m)
      BY UnmarshalParts
    <2> HIDE DEF w, read, m
    <2> QED
      BY <2>1, <2>2
  <1>2. /\ u[0] = 0 /\ u[1] = u[0] + c1 /\ u[2] = u[1] + c2 /\ u[3] = u[2] + c3 /\ u[4] = u[3] + c4
    BY SectionsEnd
  <1> HIDE DEF u
  <1>3. w \in Nat
    BY DEF Octets
  <1> HIDE DEF w
  <1>4. 12 <= w
    BY <1>1, <1>3
  <1>5. ASSUME NEW off \in {0, 2, 4, 6, 8, 10} PROVE U16At(buf, off) \in Word16
    <2>1. off \in Nat /\ off + 2 <= w
      BY <1>3, <1>4
    <2> QED
      BY <2>1, NumberType DEF w
  <1>6. c1 \in Nat /\ c2 \in Nat /\ c3 \in Nat /\ c4 \in Nat
    BY <1>5 DEF Word16
  <1> HIDE DEF c1, c2, c3, c4
  <1>7. /\ u[0] \in Nat /\ u[1] \in Nat /\ u[2] \in Nat /\ u[3] \in Nat /\ u[4] \in Nat
        /\ u[0] <= u[1] /\ u[1] <= u[2] /\ u[2] <= u[3] /\ u[3] <= u[4]
    BY <1>2, <1>6
  <1>8. ItemsSoFar(read, u[4], u[1], buf)
    BY <1>1, <1>4, <1>7, ItemsDecoded DEF w
  <1> HIDE DEF read
  <1> DEFINE items == read.val
             q == SectionOf(items, u[0], u[1])
             a == SectionOf(items, u[1], u[2])
             b == SectionOf(items, u[2], u[3])
             c == SectionOf(items, u[3], u[4])
  <1>9. q \in Seq(Questions)
    BY <1>2, <1>7, <1>8, SectionOfItems
  <1>10. /\ a \in Seq(AnyItem) /\ \A i \in 1..Len(a) : IsRecord(a[i])
         /\ b \in Seq(AnyItem) /\ \A i \in 1..Len(b) : IsRecord(b[i])
         /\ c \in Seq(AnyItem) /\ \A i \in 1..Len(c) : IsRecord(c[i])
    <2>1. ASSUME NEW from \in Nat, NEW to \in Nat, from <= to, to <= u[4], u[1] <= from
          PROVE  LET v == SectionOf(items, from, to) IN
                 v \in Seq(AnyItem) /\ \A i \in 1..Len(v) : IsRecord(v[i])
      BY <1>7, <1>8, <2>1, SectionOfItems
    <2>2. u[1] <= u[3] /\ u[2] <= u[4] /\ u[1] <= u[1] /\ u[4] <= u[4]
      BY <1>7
    <2> HIDE DEF items
    <2> QED
      BY <1>7, <2>1, <2>2
  <1> DEFINE f == U16At(buf, 2)
  <1>11. /\ m.id \in Word16 /\ m.response \in BOOLEAN /\ m.opcode \in 0..15
         /\ m.authoritative \in BOOLEAN /\ m.truncated \in BOOLEAN
         /\ m.recursionDesired \in BOOLEAN /\ m.recursionAvailable \in BOOLEAN
         /\ m.rcode \in 0..15
    <2>1. f \in Word16 /\ U16At(buf, 0) \in Word16
      BY <1>5
    <2> HIDE DEF f
    <2>2. (f \div 2048) % 16 \in 0..15 /\ f % 16 \in 0..15
      BY <2>1 DEF Word16
    <2>3. \A k : HasBit(f, k) \in BOOLEAN
      BY DEF HasBit
    <2> HIDE DEF q, a, b, c
    <2> DEFINE i == U16At(buf, 0)
               d(n, k) == HasBit(n, k)
               o == (f \div 2048) % 16
               e == f % 16
    <2>4. m = [id |-> i, response |-> d(f, 32768), opcode |-> o, authoritative |-> d(f, 1024),
               truncated |-> d(f, 512), recursionDesired |-> d(f, 256),
               recursionAvailable |-> d(f, 128), rcode |-> e,
               questions |-> q, answers |-> a, authority |-> b, additional |-> c]
      BY DEF Decoded, q, a, b, c, f
    <2> HIDE DEF i, o, e, d, m
    <2>5. /\ m.id = i /\ m.response = d(f, 32768) /\ m.opcode = o /\ m.authoritative = d(f, 1024)
          /\ m.truncated = d(f, 512) /\ m.recursionDesired = d(f, 256)
          /\ m.recursionAvailable = d(f, 128) /\ m.rcode = e
      BY <2>4
    <2> QED
      BY <2>1, <2>2, <2>3, <2>5 DEF i, o, e, d
  <1>12. m = [id |-> m.id, response |-> m.response, opcode |-> m.opcode,
              authoritative |-> m.authoritative, truncated |-> m.truncated,
              recursionDesired |-> m.recursionDesired,
              recursionAvailable |-> m.recursionAvailable, rcode |-> m.rcode,
              questions |-> q, answers |-> a, authority |-> b, additional |-> c]
    BY DEF Decoded
  <1> HIDE DEF m, q, a, b, c
  <1>13. IsMessage(m)
    BY <1>9, <1>10, <1>11, <1>12, WellFormed
  <1>14. Unmarshal(buf).val = m
    BY <1>1 DEF Ok
  <1> QED
    BY <1>1, <1>13, <1>14

\* What is encoded is decoded to the same message, and what was received, whatever its
\* octets are, is encoded to octets that are decoded to it again; except for names that
\* end in a dot and for what does not fit the fields for counts and lengths
\* (wire.go:20-22).
THEOREM MessagesRoundTrip == Spec => []RoundTrip
  <1>1. Init => RoundTrip
    BY DEF Init, RoundTrip
  <1>2. RoundTrip /\ [Next]_vars => RoundTrip'
    <2> SUFFICES ASSUME RoundTrip, [Next]_vars PROVE RoundTrip'
      OBVIOUS
    <2>1. CASE EncodeMessage
      <3>1. PICK m \in Messages : call' = [op |-> "marshal", msg |-> m] /\ result' = Marshal(m)
        BY <2>1 DEF EncodeMessage, Called
      <3>2. IsMessage(m)
        BY MessagesAssumption
      <3>3. call'.op = "marshal" /\ call'.msg = m
        BY <3>1
      <3>4. Marshal(m).ok /\ DotsTrimmed(m) /\ Fits(m) => Unmarshal(Marshal(m).val) = Ok(m)
        BY <3>2, MessageReads
      <3> QED
        BY <3>1, <3>3, <3>4 DEF RoundTrip
    <2>2. CASE DecodeMessage
      <3>1. PICK buf \in Datagrams : call' = [op |-> "unmarshal", buf |-> buf] /\ result' = Unmarshal(buf)
        BY <2>2 DEF DecodeMessage, Called
      <3>2. call'.op = "unmarshal"
        BY <3>1
      <3> DEFINE r == Unmarshal(buf)
                 m == r.val
      <3>3. buf \in Octets
        BY MessagesAssumption
      <3>4. r.ok => r = Ok(m) /\ IsMessage(m)
        BY <3>3, DecodedAreMessages
      <3> HIDE DEF r
      <3>5. r.ok /\ DotsTrimmed(m) /\ Fits(m) /\ Marshal(m).ok => Unmarshal(Marshal(m).val) = r
        BY <3>4, MessageReads
      <3>6. result' = r
        BY <3>1 DEF r
      <3> QED
        BY <3>2, <3>5, <3>6 DEF RoundTrip
    <2>3. CASE UNCHANGED <<call, result>>
      BY <2>3 DEF RoundTrip
    <2> QED
      BY <2>1, <2>2, <2>3, Calls DEF RoundTrip
  <1> QED
    BY <1>1, <1>2, PTL DEF Spec
==============================================================================
