---------------------------- MODULE DispatchProofs ----------------------------
(***************************************************************************)
(* Proofs about Dispatch and WsHandshake, for any requests, bases, answers *)
(* and timeout: where a request goes, with which URI and headers, how long *)
(* it takes, and what was agreed when a tunnel stands.  What FlattenSeq    *)
(* makes of a sequence of lines is proved for all of them, by induction    *)
(* over sets of numbers.                                                   *)
(***************************************************************************)
EXTENDS Dispatch, FiniteSetTheorems, WellFoundedInduction, TLAPS

(***************************************************************************)
(* Lists of lists: what FlattenSeq makes of them.                          *)
(***************************************************************************)

\* A set of numbers that has 0 and the successor of each of its members has them all.
LEMMA NatClosed == ASSUME NEW S, 0 \in S, \A n \in S \cap Nat : n + 1 \in S PROVE Nat \subseteq S
<1> SUFFICES ASSUME Nat \ S # {} PROVE FALSE
  OBVIOUS
<1>1. \A x, y \in Nat : y < x => <<y, x>> \in OpToRel(<, Nat)
  BY DEF OpToRel
<1>2. IsWellFoundedOn(OpToRel(<, Nat), Nat)
  BY NatLessThanWellFounded
<1>3. \E r : IsWellFoundedOn(r, Nat) /\ \A x, y \in Nat : y < x => <<y, x>> \in r
  BY <1>1, <1>2
<1>4. PICK n \in Nat \ S : \A m \in Nat \ S : ~(m < n)
  BY <1>3, WFMin
<1>5. n # 0 /\ n - 1 \in Nat /\ n - 1 \in S /\ n - 1 + 1 = n
  BY <1>4
<1> QED
  BY <1>4, <1>5

\* FlattenSeq adds the lists one by one.
LEMMA Flattening ==
    ASSUME NEW S, NEW seqs \in Seq(Seq(S))
    PROVE  \E flat \in [1..Len(seqs) -> Seq(S)] :
               /\ FlattenSeq(seqs) = IF Len(seqs) = 0 THEN <<>> ELSE flat[Len(seqs)]
               /\ \A i \in 1..Len(seqs) : flat[i] = IF i = 1 THEN seqs[i] ELSE flat[i - 1] \o seqs[i]
<1> DEFINE N == Len(seqs)
           Is(f) == f = [i \in 1..N |-> IF i = 1 THEN seqs[i] ELSE f[i - 1] \o seqs[i]]
           K == {n \in 0..N : \E f \in [1..n -> Seq(S)] :
                      \A i \in 1..n : f[i] = IF i = 1 THEN seqs[i] ELSE f[i - 1] \o seqs[i]}
<1>1. N \in Nat /\ (N = 0 => seqs = <<>>) /\ \A i \in 1..N : seqs[i] \in Seq(S)
  OBVIOUS
<1>2. N \in K
  <2> DEFINE T == K \cup {n \in Nat : n > N}
  <2>1. 0 \in T
    <3>1. [i \in 1..0 |-> <<>>] \in [1..0 -> Seq(S)]
      OBVIOUS
    <3>2. 0 \in 0..N /\ \A i : i \notin 1..0
      BY <1>1
    <3>3. 0 \in K
      BY <3>1, <3>2
    <3> QED
      BY <3>3
  <2>2. ASSUME NEW n \in T \cap Nat PROVE n + 1 \in T
    <3> SUFFICES ASSUME n \in K, n + 1 \in 0..N PROVE n + 1 \in K
      <4> HIDE DEF K
      <4>1. n \in Nat /\ (n \in K \/ n > N)
        OBVIOUS
      <4>2. n \in K => n \in 0..N
        BY DEF K
      <4> QED
        BY <1>1, <4>1, <4>2
    <3>1. PICK f \in [1..n -> Seq(S)] :
               \A i \in 1..n : f[i] = IF i = 1 THEN seqs[i] ELSE f[i - 1] \o seqs[i]
      OBVIOUS
    <3> DEFINE x == IF n = 0 THEN seqs[1] ELSE f[n] \o seqs[n + 1]
               g == [i \in 1..(n + 1) |-> IF i = n + 1 THEN x ELSE f[i]]
    <3>2. x \in Seq(S)
      <4>1. CASE n = 0
        BY <1>1, <4>1
      <4>2. CASE n # 0
        <5>1. f[n] \in Seq(S) /\ seqs[n + 1] \in Seq(S)
          BY <1>1, <3>1, <4>2
        <5> QED
          BY <4>2, <5>1
      <4> QED
        BY <4>1, <4>2
    <3>3. g \in [1..(n + 1) -> Seq(S)]
      <4> HIDE DEF x
      <4> QED
        BY <1>1, <3>1, <3>2
    <3>4. ASSUME NEW i \in 1..(n + 1)
          PROVE  g[i] = IF i = 1 THEN seqs[i] ELSE g[i - 1] \o seqs[i]
      <4>1. CASE i = n + 1
        <5>1. g[i] = x
          BY <4>1
        <5>2. n # 0 => g[i - 1] = f[n]
          BY <4>1
        <5> HIDE DEF g
        <5> QED
          BY <4>1, <5>1, <5>2
      <4>2. CASE i # n + 1
        <5>1. i \in 1..n /\ g[i] = f[i] /\ (i # 1 => g[i - 1] = f[i - 1])
          BY <4>2
        <5> HIDE DEF g
        <5> QED
          BY <3>1, <5>1
      <4> QED
        BY <4>1, <4>2
    <3> QED
      BY <3>3, <3>4
  <2> HIDE DEF T
  <2>3. N \in T
    BY <1>1, <2>1, <2>2, NatClosed
  <2> QED
    BY <1>1, <2>3 DEF T
<1>3. PICK f \in [1..N -> Seq(S)] : \A i \in 1..N : f[i] = IF i = 1 THEN seqs[i] ELSE f[i - 1] \o seqs[i]
  BY <1>2
<1>4. Is(f)
  BY <1>1, <1>3
<1> DEFINE flat == CHOOSE g : Is(g)
<1>5. Is(flat)
  <2> HIDE DEF Is
  <2> QED
    BY <1>4
<1>6. FlattenSeq(seqs) = IF N = 0 THEN seqs ELSE flat[N]
  BY DEF FlattenSeq
<1> HIDE DEF flat
<1> DEFINE T == {n \in Nat : n \in 1..N => flat[n] = f[n]}
<1>7. ASSUME NEW n \in T PROVE n + 1 \in T
  <2> SUFFICES ASSUME n + 1 \in 1..N PROVE flat[n + 1] = f[n + 1]
    OBVIOUS
  <2>1. n \in Nat /\ n + 1 - 1 = n /\ (n \in 1..N => flat[n] = f[n])
    OBVIOUS
  <2> HIDE DEF T
  <2>2. PICK i \in 1..N : i = n + 1
    OBVIOUS
  <2>3. flat[i] = IF i = 1 THEN seqs[i] ELSE flat[i - 1] \o seqs[i]
    BY <1>5
  <2>4. f[i] = IF i = 1 THEN seqs[i] ELSE f[i - 1] \o seqs[i]
    BY <1>3
  <2>5. i # 1 => i - 1 = n /\ n \in 1..N
    BY <1>1, <2>1, <2>2
  <2> QED
    BY <2>1, <2>2, <2>3, <2>4, <2>5
<1>8. Nat \subseteq T
  <2>1. 0 \in T
    OBVIOUS
  <2> HIDE DEF T
  <2> QED
    BY <1>7, <2>1, NatClosed
<1>9. FlattenSeq(seqs) = IF N = 0 THEN <<>> ELSE f[N]
  <2>1. N \in 1..N => flat[N] = f[N]
    BY <1>1, <1>8
  <2> HIDE DEF T
  <2> QED
    BY <1>1, <1>6, <2>1
<1> QED
  BY <1>3, <1>9

\* A flattened list is its lists, one after the other.
LEMMA OfferJoins ==
    ASSUME NEW S, NEW lines \in Seq(Seq(S))
    PROVE  FlattenSeq(lines) \in Seq(S) /\ Joins(lines, FlattenSeq(lines))
<1> DEFINE N == Len(lines)
<1>1. PICK flat \in [1..N -> Seq(S)] :
           /\ FlattenSeq(lines) = IF N = 0 THEN <<>> ELSE flat[N]
           /\ \A i \in 1..N : flat[i] = IF i = 1 THEN lines[i] ELSE flat[i - 1] \o lines[i]
  BY Flattening
<1> DEFINE size(l) == IF l = 0 THEN 0 ELSE Len(flat[l])
           list == FlattenSeq(lines)
<1>2. N \in Nat /\ \A l \in 1..N : lines[l] \in Seq(S) /\ flat[l] \in Seq(S)
  OBVIOUS
<1>3. ASSUME NEW l \in 1..N
      PROVE  /\ size(l) = size(l - 1) + Len(lines[l])
             /\ \A i \in 1..Len(lines[l]) : flat[l][size(l - 1) + i] = lines[l][i]
             /\ l # 1 => \A i \in 1..size(l - 1) : flat[l][i] = flat[l - 1][i]
  <2>1. flat[l] = IF l = 1 THEN lines[l] ELSE flat[l - 1] \o lines[l]
    BY <1>1
  <2>2. CASE l = 1
    <3>1. flat[l] = lines[l] /\ size(l - 1) = 0 /\ size(l) = Len(lines[l])
      BY <2>1, <2>2
    <3> HIDE DEF size
    <3> QED
      BY <1>2, <2>2, <3>1
  <2>3. CASE l # 1
    <3>1. l - 1 \in 1..N /\ flat[l] = flat[l - 1] \o lines[l]
      <4>1. l - 1 \in 1..N
        BY <1>2, <2>3
      <4>2. flat[l] = flat[l - 1] \o lines[l]
        BY <2>1, <2>3
      <4> QED
        BY <4>1, <4>2
    <3>2. size(l - 1) = Len(flat[l - 1]) /\ size(l) = Len(flat[l])
      <4>1. l - 1 # 0 /\ l # 0
        BY <1>2, <2>3
      <4> QED
        BY <4>1
    <3>3. flat[l - 1] \in Seq(S) /\ lines[l] \in Seq(S)
      BY <1>2, <3>1
    <3> HIDE DEF size
    <3>4. \A s, t \in Seq(S) : /\ Len(s \o t) = Len(s) + Len(t)
                               /\ \A i \in 1..Len(s) : (s \o t)[i] = s[i]
                               /\ \A i \in 1..Len(t) : (s \o t)[Len(s) + i] = t[i]
      OBVIOUS
    <3> DEFINE s == flat[l - 1]
               t == lines[l]
    <3>5. flat[l] = s \o t /\ size(l - 1) = Len(s) /\ size(l) = Len(flat[l]) /\ s \in Seq(S) /\ t \in Seq(S)
      BY <3>1, <3>2, <3>3
    <3> HIDE DEF s, t
    <3>6. /\ size(l) = size(l - 1) + Len(t)
          /\ \A i \in 1..Len(t) : flat[l][size(l - 1) + i] = t[i]
          /\ \A i \in 1..size(l - 1) : flat[l][i] = s[i]
      <4>1. /\ Len(s \o t) = Len(s) + Len(t)
            /\ \A i \in 1..Len(s) : (s \o t)[i] = s[i]
            /\ \A i \in 1..Len(t) : (s \o t)[Len(s) + i] = t[i]
        BY <3>4, <3>5
      <4> QED
        BY <3>5, <4>1
    <3> QED
      BY <3>6 DEF s, t
  <2> QED
    BY <2>2, <2>3
<1>4. \A l \in 0..N : size(l) \in Nat
  BY <1>2
<1> HIDE DEF size
<1>5. \A m \in 1..N : \A l \in 1..m : size(l) <= size(m) /\ \A i \in 1..size(l) : flat[m][i] = flat[l][i]
  <2> DEFINE P(m) == \A l \in 1..m : size(l) <= size(m) /\ \A i \in 1..size(l) : flat[m][i] = flat[l][i]
             T == {m \in Nat : m \in 1..N => P(m)}
  <2>1. 0 \in T
    OBVIOUS
  <2>2. ASSUME NEW m \in T PROVE m + 1 \in T
    <3> SUFFICES ASSUME NEW n \in 1..N, n = m + 1, NEW l \in 1..n
                 PROVE  size(l) <= size(n) /\ \A i \in 1..size(l) : flat[n][i] = flat[l][i]
      OBVIOUS
    <3>1. m \in Nat /\ m = n - 1 /\ (m \in 1..N => P(m)) /\ m \in 0..N /\ l \in 0..N
      BY <1>2
    <3> HIDE DEF T
    <3>2. CASE l = n
      BY <1>4, <3>1, <3>2
    <3>3. CASE l # n
      <4>1. m \in 1..N /\ l \in 1..m /\ n # 1
        BY <1>2, <3>1, <3>3
      <4>2. size(l) <= size(m) /\ \A i \in 1..size(l) : flat[m][i] = flat[l][i]
        BY <3>1, <4>1
      <4>3. size(n) = size(m) + Len(lines[n]) /\ \A i \in 1..size(m) : flat[n][i] = flat[m][i]
        <5>1. size(n) = size(n - 1) + Len(lines[n])
              /\ \A i \in 1..size(n - 1) : flat[n][i] = flat[n - 1][i]
          BY <1>3, <4>1
        <5>2. n - 1 = m
          BY <3>1
        <5> QED
          BY <5>1, <5>2
      <4>4. Len(lines[n]) \in Nat /\ size(m) \in Nat /\ size(l) \in Nat
        BY <1>2, <1>4, <3>1
      <4> QED
        BY <4>2, <4>3, <4>4
    <3> QED
      BY <3>2, <3>3
  <2> HIDE DEF T
  <2>3. Nat \subseteq T
    BY <2>1, <2>2, NatClosed
  <2>4. \A m \in 1..N : m \in T
    BY <1>2, <2>3
  <2> QED
    BY <2>4 DEF T
<1>6. list \in Seq(S) /\ size(N) = Len(list) /\ size(0) = 0 /\ (N # 0 => list = flat[N] /\ N \in 1..N)
  BY <1>1, <1>2 DEF size
<1> HIDE DEF list
<1> DEFINE ends == [l \in 0..N |-> size(l)]
<1>7. ends \in [0..N -> 0..Len(list)]
  <2>1. \A l \in 0..N : size(l) \in 0..Len(list)
    BY <1>2, <1>4, <1>5, <1>6
  <2> QED
    BY <2>1
<1>8. ends[0] = 0 /\ ends[N] = Len(list)
  BY <1>2, <1>6
<1>9. ASSUME NEW l \in 1..N
      PROVE  /\ ends[l] = ends[l - 1] + Len(lines[l])
             /\ \A i \in 1..Len(lines[l]) : list[ends[l - 1] + i] = lines[l][i]
  <2>1. ends[l] = size(l) /\ ends[l - 1] = size(l - 1) /\ size(l) \in Nat /\ size(l - 1) \in Nat
    BY <1>2, <1>4
  <2> HIDE DEF ends
  <2>2. Len(lines[l]) \in Nat /\ N \in 1..N /\ l \in 1..N
    BY <1>2
  <2>3. size(l) = size(l - 1) + Len(lines[l])
        /\ \A i \in 1..Len(lines[l]) : flat[l][size(l - 1) + i] = lines[l][i]
    BY <1>3
  <2>4. \A i \in 1..size(l) : list[i] = flat[l][i]
    BY <1>5, <1>6, <2>2
  <2>5. \A i \in 1..Len(lines[l]) : size(l - 1) + i \in 1..size(l)
    BY <2>1, <2>2, <2>3
  <2> QED
    BY <2>1, <2>3, <2>4, <2>5
<1> HIDE DEF ends
<1>10. Joins(lines, list)
  BY <1>7, <1>8, <1>9 DEF Joins
<1> QED
  BY <1>6, <1>10 DEF list

\* The members of a list, and of several.
Members(list) == {list[i] : i \in 1..Len(list)}
AllMembers(lines) == UNION {Members(lines[l]) : l \in 1..Len(lines)}

\* It has the members of its lists and no others.
LEMMA JoinedTokens ==
    ASSUME NEW S, NEW lines \in Seq(Seq(S)), NEW list \in Seq(S), Joins(lines, list)
    PROVE  AllMembers(lines) = Members(list)
<1> DEFINE N == Len(lines)
<1>1. PICK ends \in [0..N -> 0..Len(list)] :
          /\ ends[0] = 0 /\ ends[N] = Len(list)
          /\ \A l \in 1..N : /\ ends[l] = ends[l - 1] + Len(lines[l])
                             /\ \A i \in 1..Len(lines[l]) : list[ends[l - 1] + i] = lines[l][i]
  BY DEF Joins
<1>2. N \in Nat /\ Len(list) \in Nat /\ \A l \in 1..N : Len(lines[l]) \in Nat
  OBVIOUS
<1>3. \A l \in 0..N : ends[l] \in 0..Len(list)
  BY <1>1
<1>4. ASSUME NEW l \in 1..N, NEW i \in 1..Len(lines[l])
      PROVE  \E j \in 1..Len(list) : list[j] = lines[l][i]
  <2>1. l - 1 \in 0..N /\ l \in 0..N
    BY <1>2
  <2>2. ends[l] \in 0..Len(list) /\ ends[l - 1] \in 0..Len(list)
    BY <1>3, <2>1
  <2>3. ends[l - 1] + i \in 1..Len(list)
    BY <1>1, <1>2, <2>2
  <2> QED
    BY <1>1, <2>3
<1>5. ASSUME NEW j \in 1..Len(list)
      PROVE  \E l \in 1..N : \E i \in 1..Len(lines[l]) : list[j] = lines[l][i]
  <2> DEFINE T == {n \in Nat : n \in 0..N /\ j <= ends[n] => \E l \in 1..N : ends[l - 1] < j /\ j <= ends[l]}
  <2>1. 0 \in T
    BY <1>1
  <2>2. ASSUME NEW n \in T PROVE n + 1 \in T
    <3> SUFFICES ASSUME NEW m \in 0..N, m = n + 1, j <= ends[m]
                 PROVE  \E l \in 1..N : ends[l - 1] < j /\ j <= ends[l]
      OBVIOUS
    <3>1. n \in Nat /\ n = m - 1 /\ n \in 0..N /\ m \in 1..N
      BY <1>2
    <3>2. n \in T => (j <= ends[n] => \E l \in 1..N : ends[l - 1] < j /\ j <= ends[l])
      BY <3>1
    <3> HIDE DEF T
    <3>3. ends[n] \in Nat /\ j \in Nat
      BY <1>2, <1>3, <3>1
    <3> QED
      BY <3>1, <3>2, <3>3
  <2>3. N \in T
    <3> HIDE DEF T
    <3> QED
      BY <1>2, <2>1, <2>2, NatClosed
  <2>4. PICK l \in 1..N : ends[l - 1] < j /\ j <= ends[l]
    BY <1>1, <1>2, <2>3
  <2>5. l - 1 \in 0..N /\ l \in 0..N
    BY <1>2
  <2>6. ends[l] \in Nat /\ ends[l - 1] \in Nat /\ ends[l] = ends[l - 1] + Len(lines[l])
    BY <1>1, <1>2, <1>3, <2>5
  <2>7. j - ends[l - 1] \in 1..Len(lines[l]) /\ ends[l - 1] + (j - ends[l - 1]) = j
    BY <1>2, <2>4, <2>6
  <2>8. list[ends[l - 1] + (j - ends[l - 1])] = lines[l][j - ends[l - 1]]
    BY <1>1, <2>7
  <2> QED
    BY <2>7, <2>8
<1>6. \A x, y : x \in Members(y) <=> \E i \in 1..Len(y) : x = y[i]
  BY DEF Members
<1>7. \A x : x \in AllMembers(lines) <=> \E l \in 1..N : x \in Members(lines[l])
  BY DEF AllMembers
<1>8. ASSUME NEW x \in AllMembers(lines) PROVE x \in Members(list)
  <2>1. PICK l \in 1..N : x \in Members(lines[l])
    BY <1>7
  <2>2. PICK i \in 1..Len(lines[l]) : x = lines[l][i]
    BY <1>6, <2>1
  <2> QED
    BY <1>4, <1>6, <2>2
<1>9. ASSUME NEW x \in Members(list) PROVE x \in AllMembers(lines)
  <2>1. PICK j \in 1..Len(list) : x = list[j]
    BY <1>6
  <2>2. PICK l \in 1..N : \E i \in 1..Len(lines[l]) : list[j] = lines[l][i]
    BY <1>5
  <2> QED
    BY <1>6, <1>7, <2>1, <2>2
<1> QED
  BY <1>8, <1>9

\* A list without duplicates has as many members as it is long.
LEMMA Distinct ==
    ASSUME NEW S, NEW list \in Seq(S),
           \A i, j \in 1..Len(list) : i # j => list[i] # list[j]
    PROVE  Cardinality({list[i] : i \in 1..Len(list)}) = Len(list)
<1> DEFINE T == {list[i] : i \in 1..Len(list)}
           N == Len(list)
<1>1. N \in Nat /\ list \in [1..N -> T]
  OBVIOUS
<1>2. list \in Surjection(1..N, T)
  BY <1>1 DEF Surjection
<1>3. list \in Injection(1..N, T)
  BY <1>1 DEF Injection, IsInjective
<1> HIDE DEF T, N
<1>4. IsFiniteSet(1..N) /\ Cardinality(1..N) = N
  <2>1. N \in Int /\ 1 \in Int /\ (1 > N => N = 0)
    BY <1>1
  <2>2. IsFiniteSet(1..N) /\ Cardinality(1..N) = IF 1 > N THEN 0 ELSE N - 1 + 1
    BY <2>1, FS_Interval
  <2> QED
    BY <2>1, <2>2
<1>5. Cardinality(T) = Cardinality(1..N)
  BY <1>2, <1>3, <1>4, FS_Surjection
<1> QED
  BY <1>4, <1>5 DEF T, N

(***************************************************************************)
(* The composed URI.                                                       *)
(***************************************************************************)

\* The parameters of both, whichever is left out.
LEMMA Parameters ==
    ASSUME NEW S, NEW q, q \subseteq Seq(S), NEW s, s \subseteq Seq(S)
    PROVE  Both(q, s) = IF q = {} /\ s = {} THEN {} ELSE Pairs(OrEmpty(q), OrEmpty(s))
<1>1. \A b \in Seq(S) : b \o <<>> = b /\ <<>> \o b = b
  OBVIOUS
<1>2. Pairs({<<>>}, s) = s
  BY <1>1 DEF Pairs
<1>3. Pairs(q, {<<>>}) = q
  <2>1. \A x : x \in Pairs(q, {<<>>}) <=> \E b \in q : x = b \o <<>>
    BY DEF Pairs
  <2>2. \A x : x \in Pairs(q, {<<>>}) <=> x \in q
    BY <1>1, <2>1
  <2> QED
    BY <2>2
<1>4. Both(q, s) = IF q = {} THEN s ELSE IF s = {} THEN q ELSE Pairs(q, s)
  BY DEF Both, Pairs
<1>5. OrEmpty(q) = (IF q = {} THEN {<<>>} ELSE q) /\ OrEmpty(s) = IF s = {} THEN {<<>>} ELSE s
  BY DEF OrEmpty
<1> QED
  BY <1>2, <1>3, <1>4, <1>5

\* A query that is left out changes nothing.
LEMMA Sole == \A q : Both(q, {}) = q /\ Both({}, q) = q
BY DEF Both

\* A path has trailing slashes from some place on.
LEMMA Trailing ==
    ASSUME NEW S, NEW p \in Seq(S)
    PROVE  \E k \in 0..Len(p) : /\ k # 0 => p[k] # Empty
                               /\ \A i \in (k + 1)..Len(p) : p[i] = Empty
<1> DEFINE N == Len(p)
           Cut(n) == \E k \in 0..n : /\ k # 0 => p[k] # Empty
                                     /\ \A i \in (k + 1)..n : p[i] = Empty
           T == {n \in Nat : n \in 0..N => Cut(n)}
<1>1. N \in Nat
  OBVIOUS
<1>2. Cut(0)
  OBVIOUS
<1>3. 0 \in T
  BY <1>2
<1>4. ASSUME NEW n \in T PROVE n + 1 \in T
  <2> SUFFICES ASSUME n + 1 \in 0..N PROVE Cut(n + 1)
    OBVIOUS
  <2>1. n \in Nat /\ n \in 0..N
    BY <1>1
  <2>2. PICK k \in 0..n : /\ k # 0 => p[k] # Empty
                         /\ \A i \in (k + 1)..n : p[i] = Empty
    BY <2>1
  <2> HIDE DEF T
  <2>3. CASE p[n + 1] = Empty
    <3>1. \A i \in (k + 1)..(n + 1) : i \in (k + 1)..n \/ i = n + 1
      BY <2>1
    <3> QED
      BY <2>1, <2>2, <2>3, <3>1
  <2>4. CASE p[n + 1] # Empty
    <3>1. n + 1 \in 0..(n + 1) /\ \A i : i \notin (n + 1 + 1)..(n + 1)
      BY <2>1
    <3> QED
      BY <2>4, <3>1
  <2> QED
    BY <2>3, <2>4
<1> HIDE DEF T
<1>5. Nat \subseteq T
  BY <1>3, <1>4, NatClosed
<1>6. N \in T /\ N \in 0..N
  BY <1>1, <1>5
<1> QED
  BY <1>6 DEF T

\* What is trimmed are the trailing slashes.
LEMMA Trims ==
    ASSUME NEW S, NEW p \in Seq(S), NEW k \in 0..Len(p), k # 0 => p[k] # Empty,
           \A i \in (k + 1)..Len(p) : p[i] = Empty
    PROVE  Trim(p) = SubSeq(p, 1, k)
<1> DEFINE T == {0} \cup {i \in 1..Len(p) : p[i] # Empty}
<1>1. k \in Nat /\ Len(p) \in Nat /\ k <= Len(p)
  OBVIOUS
<1>2. k \in T /\ \A x \in T : x \in Nat /\ x <= k
  BY <1>1
<1> HIDE DEF T
<1>3. \A x \in T : (\A y \in T : x >= y) => x = k
  BY <1>1, <1>2
<1>4. k \in T /\ \A y \in T : k >= y
  BY <1>1, <1>2
<1>5. Max(T) = k
  BY <1>3, <1>4 DEF Max
<1> QED
  BY <1>5 DEF Trim, T

\* With or without the shortcuts, a composed URI extends the base.
LEMMA Composes ==
    ASSUME NEW S, NEW base, base.path \in Seq(S), base.query \subseteq Seq(S),
           NEW path \in Seq(S), NEW query, query \subseteq Seq(S),
           NEW override \in BOOLEAN, NEW asked \in Seq(S),
           \/ path = Root /\ asked = <<>> /\ ~override
           \/ path # Root /\ path # <<>> /\ asked = path
    PROVE  Extends(Compose(base, path, query, override), base, asked, query)
<1> DEFINE u == Compose(base, path, query, override)
           j == Joined(base, path, query, override)
<1>1. j.query = Both(base.query, query)
      /\ j.path = IF ~override /\ path = Root THEN base.path
                  ELSE IF base.path = Root THEN path ELSE Trim(base.path) \o path
  BY DEF Joined
<1> HIDE DEF j
<1>2. u.query = Both(base.query, query) /\ u.path = j.path
  <2>1. CASE ~override /\ path = Root /\ query = {}
    <3>1. u = base /\ j.path = base.path /\ query = {}
      BY <1>1, <2>1 DEF Compose
    <3>2. Both(base.query, {}) = base.query
      BY Sole
    <3> QED
      BY <3>1, <3>2
  <2>2. CASE ~(~override /\ path = Root /\ query = {}) /\ ~override /\ base = [path |-> Root, query |-> {}]
    <3>1. base.path = Root /\ base.query = {}
      BY <2>2
    <3>2. u = [path |-> path, query |-> query]
      BY <2>2 DEF Compose
    <3>3. j.path = path
      BY <1>1, <3>1
    <3>4. Both({}, query) = query
      BY Sole
    <3> QED
      BY <3>1, <3>2, <3>3, <3>4
  <2>3. CASE ~(~override /\ path = Root /\ query = {}) /\ ~(~override /\ base = [path |-> Root, query |-> {}])
    <3>1. u = j
      BY <2>3 DEF Compose, j
    <3> QED
      BY <1>1, <3>1
  <2> QED
    BY <2>1, <2>2, <2>3
<1> HIDE DEF u
<1>3. asked = <<>> => u.path = base.path
  BY <1>1, <1>2
<1>4. ASSUME asked # <<>>
      PROVE  \E k \in 0..Len(base.path) :
                 /\ u.path = SubSeq(base.path, 1, k) \o asked
                 /\ k # 0 => base.path[k] # Empty
                 /\ \A i \in (k + 1)..Len(base.path) : base.path[i] = Empty
  <2>1. PICK k \in 0..Len(base.path) : /\ k # 0 => base.path[k] # Empty
                                      /\ \A i \in (k + 1)..Len(base.path) : base.path[i] = Empty
    BY Trailing
  <2>2. CASE base.path = Root
    <3>1. Len(base.path) = 1 /\ base.path[1] = Empty /\ k \in Nat
      BY <2>2 DEF Root
    <3>2. k = 0
      BY <2>1, <3>1
    <3>3. SubSeq(base.path, 1, 0) = <<>>
      OBVIOUS
    <3>4. u.path = asked /\ <<>> \o asked = asked
      BY <1>1, <1>2, <1>4, <2>2
    <3> QED
      BY <2>1, <3>2, <3>3, <3>4
  <2>3. CASE base.path # Root
    <3>1. u.path = Trim(base.path) \o asked
      BY <1>1, <1>2, <1>4, <2>3
    <3> QED
      BY <2>1, <3>1, Trims
  <2> QED
    BY <2>2, <2>3
<1>5. u.query = IF base.query = {} /\ query = {} THEN {} ELSE Pairs(OrEmpty(base.query), OrEmpty(query))
  <2>1. ASSUME NEW q, q = base.query
        PROVE  Both(q, query) = IF q = {} /\ query = {} THEN {} ELSE Pairs(OrEmpty(q), OrEmpty(query))
    <3>1. q \subseteq Seq(S) /\ query \subseteq Seq(S)
      BY <2>1
    <3> QED
      BY <3>1, Parameters
  <2> QED
    BY <1>2, <2>1
<1>6. Extends(u, base, asked, query)
  BY <1>3, <1>4, <1>5 DEF Extends
<1> QED
  BY <1>6 DEF u

USE DEF wsVars, http, vars

(***************************************************************************)
(* The inductive invariant.                                                *)
(***************************************************************************)

\* The time that is left to a request is bounded by what it is waiting for.
Budget == IF body = "none" THEN Timeout ELSE 2 * Timeout
Timed ==
    /\ elapsed \in Nat /\ timer \in Nat
    /\ stage \in {"new", "body", "sending", "dialing", "done", "dropped"}
    /\ stage = "new" => elapsed = 0 /\ body = "none"
    /\ stage = "body" => body = "none" /\ elapsed + timer <= Timeout
    /\ stage \in {"sending", "dialing"} => elapsed + timer <= Budget
    /\ stage \in {"done", "dropped"} => elapsed <= Budget

\* Where a request is says what was sent so far, and a body is collected only for
\* the syncing mock of the execution layer.
Placed ==
    /\ stage \in {"new", "body"} => reached = {} /\ forwarded = {} /\ returned = {}
    /\ stage = "new" => counted = 0
    /\ stage \in {"body", "sending", "dialing"} => ~Local(req)
    /\ stage = "body" => /\ IsFor("el", req, conf.flags)
                         /\ req.method = "POST" /\ conf.flags.syncing
    /\ stage = "sending" => reached \in {{"mev"}, {"beacon"}, {"el"}}
    /\ stage = "dialing" => reached = {"ws"}
    /\ reached = {} => forwarded = {}

\* What every request and every base is like.
Inputs ==
    /\ req.path \in Words \ {Empty} /\ req.query \subseteq Seq(Words)
    /\ req.headers.protocol \in Seq(Seq(Subprotocols))
    /\ \A i \in 1..Len(req.headers.key) : req.headers.key[i] # "fresh"
    /\ conf.base.path \in Seq(Words) /\ conf.base.query \subseteq Seq(Words)

\* Nothing is composed before something is sent.
Composed == UriWhole /\ (reached = {} => uri = {})

\* A handshake is what a valid request for a tunnel makes of its headers, and the
\* relay stands only once the request is answered.
Shaken ==
    /\ \A h \in forwarded : h.upgrade # <<>> => h = Handshake(req) /\ Valid(req) /\ IsWs(req)
    /\ stage = "dialing" => forwarded = {Handshake(req)} /\ Valid(req)
    /\ relay # "none" => stage = "done"
    /\ SwitchAgreed

IInv == Timed /\ Placed /\ RoutedOnce /\ HopsStay /\ Inputs /\ Composed /\ Shaken

(***************************************************************************)
(* The steps of a request.                                                 *)
(***************************************************************************)

\* What stays and what crosses, line by line.
LEMMA StripCrosses ==
    ASSUME NEW h, NEW n \in Names
    PROVE  Strip(h)[n] = IF Crosses(h, n) THEN h[n] ELSE <<>>
<1>1. n \in Nominated(h) <=> \E i \in 1..Len(h.connection) : n \in h.connection[i]
  BY DEF Nominated
<1>2. n \in HopByHop \cup Nominated(h) <=> ~Crosses(h, n)
  BY <1>1 DEF Crosses, HopByHop
<1> QED
  BY <1>2 DEF Strip

\* What is forwarded over HTTP asks for no tunnel, and a handshake does.
LEMMA Tunnels == \A h, r : Strip(h).upgrade = <<>> /\ Handshake(r).upgrade # <<>>
BY DEF Strip, Handshake, Names, HopByHop

\* An answer that is made without an upstream.
LEMMA Mocks ==
    ASSUME MockCl
    PROVE  /\ stage = "new" /\ stage' = "done" /\ ~Local(req) /\ counted' = counted + 1 /\ timer' = 0
           /\ status' \in {200, 206, 503}
           /\ UNCHANGED <<req, forwarded, returned, wsVars, client, cut, conf, http, elapsed>>
BY DEF MockCl, Dispatched, Respond, Here

\* A call to an upstream over HTTP.
LEMMA Sends ==
    ASSUME NEW upstream, NEW path, NEW override, Send(upstream, path, override)
    PROVE  /\ stage' = "sending" /\ timer' = Timeout /\ reached' = {upstream}
           /\ forwarded' = {Strip(req.headers)}
           /\ UNCHANGED <<req, status, counted, returned, wsVars, client, cut, conf, back, elapsed>>
BY DEF Send, Cleared

\* A call whose URI cannot be composed.
LEMMA Fails ==
    ASSUME NEW path, NEW override \in BOOLEAN, ComposeFails(path, override)
    PROVE  /\ stage' = "done" /\ status' = 502 /\ counted' = counted + 1 /\ timer' = 0
           /\ override \/ conf.base # [path |-> Root, query |-> {}]
           /\ UNCHANGED <<req, forwarded, returned, wsVars, client, cut, conf, reached, uri, back, elapsed>>
BY DEF ComposeFails, Spared, Respond, Here

\* What is not answered here has an upstream that it is for.
LEMMA Meant ==
    ASSUME ~Local(req)
    PROVE  /\ Target(req) = "ws" => IsFor("ws", req, conf.flags)
           /\ Target(req) = "el" => IsFor("el", req, conf.flags)
           /\ Target(req) = "cl" /\ ~MockHealth(req) /\ ~MockSubscription(req) =>
                  IsFor(IF ToRelay(req) THEN "mev" ELSE "beacon", req, conf.flags)
BY DEF Local, Target, ClPaths, IsFor, MockHealth, MockSubscription, ToRelay

\* A probe and what is mocked is for no upstream.
LEMMA Nobody ==
    ASSUME Local(req) \/ MockHealth(req) \/ MockSubscription(req), NEW up
    PROVE  ~IsFor(up, req, conf.flags)
BY DEF Local, IsFor, MockHealth, MockSubscription

\* What becomes of a request that is forwarded to an upstream.
Passed(up) ==
    \/ /\ stage' = "sending" /\ timer' = Timeout /\ reached' = {up}
       /\ forwarded' = {Strip(req.headers)}
       /\ UNCHANGED <<status, counted>>
    \/ /\ stage' = "done" /\ status' = 502 /\ counted' = counted + 1 /\ timer' = 0
       /\ up = "mev" \/ conf.base # [path |-> Root, query |-> {}]
       /\ UNCHANGED <<forwarded, reached, uri>>

LEMMA Passes ==
    ASSUME NEW up, NEW path, NEW override \in BOOLEAN, Forward(up, path, override), override => up = "mev"
    PROVE  Passed(up) /\ UNCHANGED <<req, returned, wsVars, client, cut, conf, back, elapsed>>
BY Sends, Fails DEF Forward, Passed

\* A request that is forwarded at once.
LEMMA Forwards ==
    ASSUME ForwardCl \/ ForwardEl
    PROVE  /\ stage = "new" /\ ~Local(req)
           /\ \E up \in {"mev", "beacon", "el"} : IsFor(up, req, conf.flags) /\ Passed(up)
           /\ UNCHANGED <<req, returned, wsVars, client, cut, conf, body, back, elapsed>>
<1>1. CASE ForwardEl
  <2>1. stage = "new" /\ ~Local(req) /\ Target(req) = "el" /\ UNCHANGED body
        /\ Forward("el", Path(req.path), FALSE)
    BY <1>1 DEF ForwardEl, Dispatched
  <2>2. Passed("el") /\ UNCHANGED <<req, returned, wsVars, client, cut, conf, back, elapsed>>
    BY <2>1, Passes
  <2> QED
    BY <2>1, <2>2, Meant
<1>2. CASE ForwardCl
  <2>1. /\ stage = "new" /\ ~Local(req) /\ Target(req) = "cl" /\ UNCHANGED body
        /\ ~MockHealth(req) /\ ~MockSubscription(req)
    BY <1>2 DEF ForwardCl, Dispatched
  <2>2. CASE ToRelay(req)
    <3>1. Forward("mev", Builder, TRUE)
      BY <1>2, <2>2 DEF ForwardCl
    <3>2. Passed("mev") /\ UNCHANGED <<req, returned, wsVars, client, cut, conf, back, elapsed>>
      BY <3>1, Passes
    <3> QED
      BY <2>1, <2>2, <3>2, Meant
  <2>3. CASE ~ToRelay(req)
    <3>1. Forward("beacon", Path(req.path), FALSE)
      BY <1>2, <2>3 DEF ForwardCl
    <3>2. Passed("beacon") /\ UNCHANGED <<req, returned, wsVars, client, cut, conf, back, elapsed>>
      BY <3>1, Passes
    <3> QED
      BY <2>1, <2>3, <3>2, Meant
  <2> QED
    BY <2>2, <2>3
<1> QED
  BY <1>1, <1>2

\* A request for a tunnel.
LEMMA Tunnelled ==
    ASSUME StartWs
    PROVE  /\ stage = "new" /\ ~Local(req) /\ IsFor("ws", req, conf.flags)
           /\ UNCHANGED <<req, returned, wsVars, client, cut, conf, body, back, elapsed>>
           /\ \/ /\ stage' = "done" /\ counted' = counted + 1 /\ timer' = 0
                 /\ \/ status' = 400
                    \/ status' = 502 /\ conf.base # [path |-> Root, query |-> {}]
                 /\ UNCHANGED <<forwarded, reached, uri>>
              \/ /\ stage' = "dialing" /\ timer' = Timeout /\ reached' = {"ws"}
                 /\ forwarded' = {Handshake(req)} /\ Valid(req)
                 /\ UNCHANGED <<status, counted>>
<1>1. stage = "new" /\ ~Local(req) /\ Target(req) = "ws" /\ UNCHANGED <<conf, body, back, elapsed>>
  BY DEF StartWs, Dispatched
<1>2. IsFor("ws", req, conf.flags)
  BY <1>1, Meant
<1>3. CASE Rejected /\ UNCHANGED <<reached, uri>>
  BY <1>1, <1>2, <1>3 DEF Rejected, Respond
<1>4. CASE ComposeFails(Path(req.path), FALSE)
  <2>1. /\ conf.base # [path |-> Root, query |-> {}] /\ Respond(502)
        /\ UNCHANGED <<req, forwarded, returned, wsVars, client, cut, reached, uri>>
    BY <1>4 DEF ComposeFails, Spared, Here
  <2> QED
    BY <1>1, <1>2, <2>1 DEF Respond
<1>5. CASE Dial /\ reached' = {"ws"}
  BY <1>1, <1>2, <1>5 DEF Dial
<1> QED
  BY <1>3, <1>4, <1>5 DEF StartWs

\* Time only passes while it is left.
LEMMA TimedStep ==
    ASSUME Timed, [Next]_vars
    PROVE  Timed'
<1> USE TimeoutAssumption DEF Timed, Budget
<1>1. Timeout \in Nat
  BY TimeoutAssumption
<1>2. CASE Probe \/ MockCl
  <2>1. stage = "new" /\ stage' = "done" /\ UNCHANGED <<elapsed, body>> /\ (timer' = timer \/ timer' = 0)
    BY <1>2, Mocks DEF Probe
  <2> QED
    BY <1>1, <2>1
<1>3. CASE ForwardCl \/ ForwardEl
  <2>1. stage = "new" /\ UNCHANGED <<elapsed, body>>
    BY <1>3, Forwards
  <2>2. (stage' = "sending" /\ timer' = Timeout) \/ (stage' = "done" /\ timer' = 0)
    BY <1>3, Forwards DEF Passed
  <2> QED
    BY <1>1, <2>1, <2>2
<1>4. CASE Collect
  <2>1. stage = "new" /\ stage' = "body" /\ UNCHANGED <<elapsed, body>> /\ timer' = Timeout
    BY <1>4 DEF Collect, Dispatched, Here
  <2> QED
    BY <1>1, <2>1
<1>5. CASE StartWs
  <2>1. stage = "new" /\ UNCHANGED <<elapsed, body>>
    BY <1>5, Tunnelled
  <2>2. CASE stage' = "done" /\ timer' = 0
    BY <1>1, <2>1, <2>2
  <2>3. CASE stage' = "dialing" /\ timer' = Timeout
    BY <1>1, <2>1, <2>3
  <2>4. (stage' = "done" /\ timer' = 0) \/ (stage' = "dialing" /\ timer' = Timeout)
    BY <1>5, Tunnelled
  <2> QED
    BY <2>2, <2>3, <2>4
<1>6. CASE Collected
  <2>1. stage = "body"
    BY <1>6 DEF Collected
  <2>2. CASE body' = "other" /\ Send("el", Path(req.path), FALSE)
    <3>1. stage' = "sending" /\ timer' = Timeout /\ UNCHANGED elapsed
      BY <2>2, Sends
    <3>2. elapsed \in Nat /\ timer \in Nat /\ elapsed + timer <= Timeout
      BY <2>1
    <3>3. elapsed' + timer' <= 2 * Timeout
      BY <1>1, <3>1, <3>2
    <3> QED
      BY <1>1, <2>2, <3>1, <3>2, <3>3
  <2>3. CASE body' \in {"calls", "notifications", "other"} /\ stage' = "done" /\ timer' = 0 /\ Here
    BY <1>1, <2>1, <2>3 DEF Here
  <2> QED
    BY <1>6, <2>2, <2>3 DEF Collected, Respond, Forward, ComposeFails
<1>7. CASE BodyFails \/ BodyTimesOut
  BY <1>7 DEF BodyFails, BodyTimesOut, Respond, Here
<1>8. CASE UpstreamAnswers \/ UpstreamFails \/ UpstreamTimesOut
  BY <1>8 DEF UpstreamAnswers, UpstreamFails, UpstreamTimesOut, Respond, Here
<1>9. CASE Handshaking
  BY <1>9 DEF Handshaking, Answered, DialFails, Upgraded, BridgeEnds, RelayCut, Respond
<1>10. CASE ClientLeaves \/ Deadline \/ Drop \/ Tick \/ UNCHANGED vars
  BY <1>10 DEF ClientLeaves, Deadline, Drop, Tick, Waiting
<1> QED
  BY <1>2, <1>3, <1>5, <1>6, <1>8, <1>9, <1>10, <1>4, <1>7 DEF Next, Dispatching, Stutter

\* No two upstreams are the same, and none is no upstream.
LEMMA Singles ==
    /\ {"mev"} # {"ws"} /\ {"beacon"} # {"ws"} /\ {"el"} # {"ws"}
    /\ {"mev"} # {} /\ {"beacon"} # {} /\ {"el"} # {} /\ {"ws"} # {}
<1>1. \A x, y : (x # y => {x} # {y}) /\ {x} # {}
  OBVIOUS
<1>2. "mev" # "ws" /\ "beacon" # "ws" /\ "el" # "ws"
  OBVIOUS
<1> QED
  BY <1>1, <1>2

\* Why a request may be answered without a call.
Excused(b, code) ==
    IF \E up \in Upstreams : IsFor(up, req, conf.flags)
    THEN \/ b \in Unforwarded /\ code \in {200, 204, 400, 408, 413}
         \/ IsFor("ws", req, conf.flags) /\ code = 400
         \/ /\ code = 502
            /\ IsFor("mev", req, conf.flags) \/ conf.base # [path |-> Root, query |-> {}]
    ELSE code \in {200, 206, 503}

\* A request that is answered before a call is excused.
LEMMA AnsweredHere ==
    ASSUME Placed, RoutedOnce, stage \in {"new", "body"}, stage' = "done",
           UNCHANGED <<req, conf, reached, forwarded>>,
           counted' = (IF Local(req) THEN counted ELSE counted + 1),
           body' # "none" => /\ IsFor("el", req, conf.flags)
                             /\ req.method = "POST" /\ conf.flags.syncing,
           Excused(body', status')
    PROVE  Placed' /\ RoutedOnce'
<1>1. reached = {} /\ forwarded = {} /\ counted = 0
  BY DEF Placed, RoutedOnce
<1>2. Placed'
  BY <1>1 DEF Placed
<1>3. (counted = IF stage = "done" /\ ~Local(req) THEN 1 ELSE 0)'
  BY <1>1
<1>4. (reached = {"ws"} <=> forwarded # {} /\ \A h \in forwarded : h.upgrade # <<>>)'
  BY <1>1, Singles
<1> QED
  BY <1>1, <1>2, <1>3, <1>4 DEF RoutedOnce, Excused

\* A request is called for at the upstream it is for.
LEMMA CalledAt ==
    ASSUME Placed, RoutedOnce, stage \in {"new", "body"},
           NEW up, IsFor(up, req, conf.flags), reached' = {up},
           \/ stage' = "dialing" /\ up = "ws" /\ forwarded' = {Handshake(req)}
           \/ stage' = "sending" /\ up \in {"mev", "beacon", "el"} /\ forwarded' = {Strip(req.headers)},
           UNCHANGED <<req, conf, counted>>, ~Local(req),
           body' \notin Unforwarded,
           body' # "none" => /\ IsFor("el", req, conf.flags)
                             /\ req.method = "POST" /\ conf.flags.syncing
    PROVE  Placed' /\ RoutedOnce'
<1>1. reached' # {} /\ (reached' = {"ws"} <=> up = "ws")
  BY Singles
<1>2. Placed'
  BY <1>1 DEF Placed
<1>3. (reached = {"ws"} <=> forwarded # {} /\ \A h \in forwarded : h.upgrade # <<>>)'
  BY <1>1, Tunnels
<1>4. counted' = 0
  BY DEF RoutedOnce
<1> QED
  BY <1>1, <1>2, <1>3, <1>4 DEF RoutedOnce

\* Where a request goes follows from what it is.
LEMMA RoutedStep ==
    ASSUME Timed, Placed, RoutedOnce, [Next]_vars
    PROVE  Placed' /\ RoutedOnce'
<1>0. stage = "new" => body \notin Unforwarded /\ body = "none"
  BY DEF Timed, Unforwarded
<1>1. CASE Probe
  <2>1. /\ stage = "new" /\ stage' = "done" /\ Local(req) /\ status' \in {200, 503}
        /\ UNCHANGED <<req, conf, reached, forwarded, counted, body>>
    BY <1>1 DEF Probe
  <2>2. Excused(body', status')
    BY <2>1, Nobody DEF Excused
  <2> QED
    BY <1>0, <2>1, <2>2, AnsweredHere
<1>2. CASE MockCl
  <2>1. MockHealth(req) \/ MockSubscription(req)
    BY <1>2 DEF MockCl
  <2>2. Excused(body', status')
    BY <1>2, <2>1, Mocks, Nobody DEF Excused
  <2> QED
    BY <1>0, <1>2, <2>2, Mocks, AnsweredHere
<1>3. CASE ForwardCl \/ ForwardEl
  <2>1. stage = "new" /\ ~Local(req) /\ UNCHANGED <<req, conf, body>>
    BY <1>3, Forwards
  <2>2. PICK up \in {"mev", "beacon", "el"} : IsFor(up, req, conf.flags) /\ Passed(up)
    BY <1>3, Forwards
  <2>3. CASE stage' = "sending"
    BY <1>0, <2>1, <2>2, <2>3, CalledAt DEF Passed
  <2>4. CASE stage' # "sending"
    <3>1. Excused(body', status')
      BY <2>2, <2>4 DEF Passed, Excused, Upstreams
    <3> QED
      BY <1>0, <2>1, <2>2, <2>4, <3>1, AnsweredHere DEF Passed
  <2> QED
    BY <2>3, <2>4
<1>4. CASE Collect
  <2>1. /\ stage = "new" /\ stage' = "body" /\ ~Local(req) /\ Target(req) = "el"
        /\ req.method = "POST" /\ conf.flags.syncing
        /\ UNCHANGED <<req, status, counted, forwarded, returned, conf, body, reached>>
    BY <1>4 DEF Collect, Dispatched, Inspects, Here
  <2>2. IsFor("el", req, conf.flags)
    BY <2>1, Meant
  <2> QED
    BY <2>1, <2>2 DEF Placed, RoutedOnce
<1>5. CASE StartWs
  <2>1. /\ stage = "new" /\ ~Local(req) /\ IsFor("ws", req, conf.flags)
        /\ UNCHANGED <<req, conf, body>>
    BY <1>5, Tunnelled
  <2>2. CASE /\ stage' = "done" /\ counted' = counted + 1
             /\ status' = 400 \/ (status' = 502 /\ conf.base # [path |-> Root, query |-> {}])
             /\ UNCHANGED <<forwarded, reached>>
    <3>1. Excused(body', status')
      BY <2>1, <2>2 DEF Excused, Upstreams
    <3> QED
      BY <1>0, <2>1, <2>2, <3>1, AnsweredHere
  <2>3. CASE stage' = "dialing" /\ reached' = {"ws"} /\ forwarded' = {Handshake(req)} /\ UNCHANGED counted
    BY <1>0, <2>1, <2>3, CalledAt
  <2> QED
    BY <1>5, <2>2, <2>3, Tunnelled
<1>6. CASE Collected \/ BodyFails \/ BodyTimesOut
  <2>1. /\ stage = "body" /\ ~Local(req) /\ IsFor("el", req, conf.flags)
        /\ req.method = "POST" /\ conf.flags.syncing
    BY <1>6 DEF Collected, BodyFails, BodyTimesOut, Placed
  <2>2. CASE /\ body' \in Unforwarded /\ Here
             /\ \E code \in {200, 204, 400, 408, 413} : Respond(code)
    <3>1. /\ stage' = "done" /\ counted' = counted + 1 /\ status' \in {200, 204, 400, 408, 413}
          /\ UNCHANGED <<req, conf, reached, forwarded>>
      BY <2>2 DEF Here, Respond
    <3>2. Excused(body', status')
      BY <2>1, <2>2, <3>1 DEF Excused, Upstreams
    <3> QED
      BY <2>1, <3>1, <3>2, AnsweredHere
  <2>3. CASE body' = "other" /\ Forward("el", Path(req.path), FALSE)
    <3>1. Passed("el") /\ UNCHANGED <<req, conf>>
      BY <2>3, Passes
    <3>2. CASE stage' = "sending"
      BY <2>1, <2>3, <3>1, <3>2, CalledAt DEF Passed, Unforwarded
    <3>3. CASE stage' # "sending"
      <4>1. Excused(body', status')
        BY <2>1, <3>1, <3>3 DEF Passed, Excused, Upstreams
      <4> QED
        BY <2>1, <3>1, <3>3, <4>1, AnsweredHere DEF Passed
    <3> QED
      BY <3>2, <3>3
  <2>4. CASE Collected
    <3>1. \/ body' = "calls" /\ Respond(200) /\ Here
          \/ body' = "notifications" /\ Respond(204) /\ Here
          \/ body' = "other" /\ Forward("el", Path(req.path), FALSE)
      BY <2>4 DEF Collected
    <3>2. CASE body' = "calls" /\ Respond(200) /\ Here
      BY <2>2, <3>2 DEF Unforwarded
    <3>3. CASE body' = "notifications" /\ Respond(204) /\ Here
      BY <2>2, <3>3 DEF Unforwarded
    <3> QED
      BY <2>3, <3>1, <3>2, <3>3
  <2>5. CASE BodyFails \/ BodyTimesOut
    <3>1. "broken" \in Unforwarded /\ {400, 408, 413} \subseteq {200, 204, 400, 408, 413}
      BY DEF Unforwarded
    <3> QED
      BY <2>2, <2>5, <3>1 DEF BodyFails, BodyTimesOut
  <2> QED
    BY <1>6, <2>4, <2>5
<1>7. CASE UpstreamAnswers \/ UpstreamFails \/ UpstreamTimesOut
  <2>1. /\ stage = "sending" /\ stage' = "done" /\ counted' = counted + 1
        /\ UNCHANGED <<req, conf, reached, forwarded, body>>
    BY <1>7 DEF UpstreamAnswers, UpstreamFails, UpstreamTimesOut, Respond, Here
  <2>2. reached' # {} /\ ~Local(req) /\ counted = 0
    BY <2>1, Singles DEF Placed, RoutedOnce
  <2> QED
    BY <2>1, <2>2 DEF Placed, RoutedOnce
<1>8. CASE Handshaking
  <2>1. UNCHANGED <<req, conf, reached, forwarded, body>>
    BY <1>8 DEF Handshaking, Answered, DialFails, Upgraded, BridgeEnds, RelayCut
  <2>2. CASE stage = "dialing"
    <3>1. \/ stage' = "done" /\ counted' = counted + 1
          \/ UNCHANGED <<stage, status, counted, returned>>
      BY <1>8, <2>2 DEF Handshaking, Answered, DialFails, Upgraded, BridgeEnds, RelayCut, Respond
    <3> QED
      BY <2>1, <2>2, <3>1, Singles DEF Placed, RoutedOnce
  <2>3. CASE stage # "dialing"
    <3>1. UNCHANGED <<stage, status, counted, returned>>
      BY <1>8, <2>3 DEF Handshaking, Answered, DialFails, Upgraded, BridgeEnds, RelayCut
    <3> QED
      BY <2>1, <3>1 DEF Placed, RoutedOnce
  <2> QED
    BY <2>2, <2>3
<1>9. CASE ClientLeaves \/ Deadline \/ Tick \/ UNCHANGED vars
  <2>1. UNCHANGED <<req, conf, reached, forwarded, returned, body, stage, status, counted>>
    BY <1>9 DEF ClientLeaves, Deadline, Tick
  <2> QED
    BY <2>1 DEF Placed, RoutedOnce
<1>10. CASE Drop
  <2>1. stage \in {"body", "sending", "dialing"} /\ stage' = "dropped"
        /\ UNCHANGED <<req, conf, reached, forwarded, returned, body, status, counted>>
    BY <1>10 DEF Drop, Waiting
  <2> QED
    BY <2>1 DEF Placed, RoutedOnce
<1> QED
  BY <1>1, <1>2, <1>3, <1>4, <1>5, <1>6, <1>7, <1>8, <1>9, <1>10 DEF Next, Dispatching, Stutter

\* What crosses is decided when a message is passed on.
LEMMA HopsStep ==
    ASSUME Placed, HopsStay, [Next]_vars
    PROVE  HopsStay'
<1>1. ASSUME NEW h, forwarded' = {Strip(req.headers)}, UNCHANGED <<req, returned>>, returned = {}
      PROVE  HopsStay'
  BY <1>1, StripCrosses DEF HopsStay
<1>2. CASE UNCHANGED <<req, forwarded, returned, back, reached>>
  BY <1>2 DEF HopsStay
<1>3. CASE ForwardCl \/ ForwardEl
  BY <1>1, <1>2, <1>3, Forwards DEF Placed, Passed
<1>4. CASE StartWs
  BY <1>2, <1>4, Tunnelled DEF HopsStay
<1>5. CASE Collected
  <2>1. CASE Send("el", Path(req.path), FALSE)
    BY <1>1, <1>5, <2>1, Sends DEF Placed, Collected
  <2>2. CASE Here
    BY <1>2, <2>2 DEF Here
  <2> QED
    BY <1>5, <2>1, <2>2 DEF Collected, Forward, ComposeFails
<1>6. CASE UpstreamAnswers
  <2>1. PICK h \in Answers : back' = {h} /\ returned' = {Strip(h)}
    BY <1>6 DEF UpstreamAnswers
  <2>2. UNCHANGED <<req, forwarded, reached>>
    BY <1>6 DEF UpstreamAnswers
  <2>3. \A r \in returned', b \in back', n \in Names : r[n] = IF Crosses(b, n) THEN b[n] ELSE <<>>
    BY <2>1, StripCrosses
  <2> QED
    BY <2>2, <2>3 DEF HopsStay
<1>7. CASE Handshaking
  <2>1. CASE stage = "dialing"
    <3>1. reached' = {"ws"}
      BY <1>7, <2>1 DEF Placed, Handshaking
    <3> QED
      BY <3>1 DEF HopsStay
  <2>2. CASE stage # "dialing"
    BY <1>2, <1>7, <2>2 DEF Handshaking, Answered, DialFails, Upgraded, BridgeEnds, RelayCut
  <2> QED
    BY <2>1, <2>2
<1>8. CASE Probe \/ MockCl \/ Collect \/ BodyFails \/ BodyTimesOut \/ UpstreamFails \/ UpstreamTimesOut
  BY <1>2, <1>8, Mocks DEF Probe, Collect, BodyFails, BodyTimesOut, UpstreamFails, UpstreamTimesOut, Here
<1>9. CASE ClientLeaves \/ Deadline \/ Drop \/ Tick \/ UNCHANGED vars
  BY <1>2, <1>9 DEF ClientLeaves, Deadline, Drop, Tick
<1> QED
  BY <1>3, <1>4, <1>5, <1>6, <1>7, <1>8, <1>9 DEF Next, Dispatching, Stutter

(***************************************************************************)
(* The URI and the handshake.                                              *)
(***************************************************************************)

\* The segment of the override is not the empty one.
LEMMA Segments == "builder" # Empty
BY Zenon DEF Empty

\* The fields of a handshake.
LEMMA Handshakes ==
    ASSUME NEW r, NEW h, h = Handshake(r)
    PROVE  /\ h.protocol = OneLine(Offer(r.headers))
           /\ h.extensions = <<>> /\ h.version = <<"13">>
           /\ h.key = (IF Extended(r) THEN <<"fresh">> ELSE r.headers.key)
           /\ h.host = <<"upstream">> /\ h.te = <<>> /\ h.upgrade = <<"websocket">>
BY DEF Handshake, Strip, Names, HopByHop

\* The offer and its tokens.
LEMMA Lines ==
    ASSUME NEW h, h.protocol \in Seq(Seq(Subprotocols))
    PROVE  /\ Offer(h) \in Seq(Subprotocols) /\ Joins(h.protocol, Offer(h))
           /\ Tokens(h) = {Offer(h)[i] : i \in 1..Len(Offer(h))}
           /\ Tokens(h) = {} <=> Offer(h) = <<>>
<1>1. Offer(h) \in Seq(Subprotocols) /\ Joins(h.protocol, Offer(h))
  BY OfferJoins DEF Offer
<1>2. Tokens(h) = {Offer(h)[i] : i \in 1..Len(Offer(h))}
  <2>1. AllMembers(h.protocol) = Members(Offer(h))
    BY <1>1, JoinedTokens
  <2>2. Tokens(h) = AllMembers(h.protocol)
    BY DEF Tokens, AllMembers, Members
  <2> QED
    BY <2>1, <2>2 DEF Members
<1>3. Tokens(h) = {} <=> Offer(h) = <<>>
  <2>1. CASE Offer(h) = <<>>
    BY <1>2, <2>1
  <2>2. CASE Offer(h) # <<>>
    <3>1. 1 \in 1..Len(Offer(h))
      BY <1>1, <2>2
    <3> QED
      BY <1>2, <2>2, <3>1
  <2> QED
    BY <2>1, <2>2
<1> QED
  BY <1>1, <1>2, <1>3

\* A URI that is composed for a request extends its base.
LEMMA ComposedNew ==
    ASSUME Inputs, NEW up, NEW path, NEW override \in BOOLEAN,
           uri' = {Compose(conf.base, path, req.query, override)}, reached' = {up},
           UNCHANGED <<req, conf>>,
           \/ up = "mev" /\ path = Builder
           \/ up # "mev" /\ path = Path(req.path) /\ ~override
    PROVE  Composed'
<1> DEFINE u == Compose(conf.base, path, req.query, override)
           asked == IF up = "mev" THEN Builder ELSE IF req.path = "root" THEN <<>> ELSE <<req.path>>
<1>1. path \in Seq(Words) /\ asked \in Seq(Words)
  <2>1. Builder \in Seq(Words) /\ Root \in Seq(Words) /\ <<>> \in Seq(Words)
    BY WordsAssumption DEF Builder, Root
  <2>2. <<req.path>> \in Seq(Words)
    BY DEF Inputs
  <2> QED
    BY <2>1, <2>2 DEF Path
<1>2. \/ path = Root /\ asked = <<>> /\ ~override
      \/ path # Root /\ path # <<>> /\ asked = path
  <2>1. \A c, d : <<c>> # <<>> /\ (<<c>> = <<d>> => c = d)
    OBVIOUS
  <2>2. Builder # Root /\ Builder # <<>> /\ <<req.path>> # Root
    BY <2>1, Segments DEF Builder, Root, Inputs
  <2> QED
    BY <2>1, <2>2 DEF Path
<1>3. Extends(u, conf.base, asked, req.query)
  BY <1>1, <1>2, Composes DEF Inputs
<1>4. asked = Asked'
  <2>1. {up} = {"mev"} <=> up = "mev"
    OBVIOUS
  <2> QED
    BY <2>1 DEF Asked
<1> HIDE DEF u
<1>5. UriWhole'
  BY <1>3, <1>4 DEF UriWhole, u
<1> QED
  BY <1>5 DEF Composed

\* A request reaches an upstream with the URI that is composed for it, or nothing
\* is sent.
LEMMA Sending ==
    ASSUME [Next]_vars
    PROVE  /\ UNCHANGED <<req, conf>>
           /\ \/ UNCHANGED <<uri, reached>>
              \/ \E up \in {"mev", "beacon", "el", "ws"}, path \in {Builder, Path(req.path)}, override \in BOOLEAN :
                     /\ uri' = {Compose(conf.base, path, req.query, override)} /\ reached' = {up}
                     /\ \/ up = "mev" /\ path = Builder
                        \/ up # "mev" /\ path = Path(req.path) /\ ~override
<1> DEFINE Sent == \E up \in {"mev", "beacon", "el", "ws"}, path \in {Builder, Path(req.path)}, override \in BOOLEAN :
                     /\ uri' = {Compose(conf.base, path, req.query, override)} /\ reached' = {up}
                     /\ \/ up = "mev" /\ path = Builder
                        \/ up # "mev" /\ path = Path(req.path) /\ ~override
<1>1. ASSUME NEW up \in {"beacon", "el", "ws"}, uri' = {Compose(conf.base, Path(req.path), req.query, FALSE)},
             reached' = {up}
      PROVE  Sent
  BY <1>1
<1>2. ASSUME Send("mev", Builder, TRUE) PROVE Sent /\ UNCHANGED <<req, conf>>
  BY <1>2 DEF Send
<1>3. ASSUME NEW up \in {"beacon", "el"}, Send(up, Path(req.path), FALSE) PROVE Sent /\ UNCHANGED <<req, conf>>
  <2>1. uri' = {Compose(conf.base, Path(req.path), req.query, FALSE)} /\ reached' = {up} /\ UNCHANGED <<req, conf>>
    BY <1>3 DEF Send
  <2> HIDE DEF Sent
  <2> QED
    BY <1>1, <2>1
<1> HIDE DEF Sent
<1>4. CASE ForwardCl \/ ForwardEl
  <2>1. \A path, override : ComposeFails(path, override) => UNCHANGED <<req, conf, uri, reached>>
    BY DEF ComposeFails, Here
  <2>2. UNCHANGED <<req, conf>> /\ (UNCHANGED <<uri, reached>> \/ Sent)
    BY <1>2, <1>3, <1>4, <2>1 DEF ForwardCl, ForwardEl, Forward
  <2> QED
    BY <2>2 DEF Sent
<1>5. CASE StartWs
  <2>1. UNCHANGED <<req, conf>>
    BY <1>5, Tunnelled
  <2>2. UNCHANGED <<uri, reached>> \/ Sent
    BY <1>1, <1>5, Fails DEF StartWs
  <2> QED
    BY <2>1, <2>2 DEF Sent
<1>6. CASE Collected
  <2>1. UNCHANGED <<req, conf>> /\ (UNCHANGED <<uri, reached>> \/ Sent)
    BY <1>3, <1>6, Fails DEF Collected, Here, Forward
  <2> QED
    BY <2>1 DEF Sent
<1>7. CASE Probe \/ MockCl \/ Collect \/ BodyFails \/ BodyTimesOut
  BY <1>7 DEF Probe, MockCl, Collect, BodyFails, BodyTimesOut, Here
<1>8. CASE UpstreamAnswers \/ UpstreamFails \/ UpstreamTimesOut
  BY <1>8 DEF UpstreamAnswers, UpstreamFails, UpstreamTimesOut, Here
<1>9. CASE Handshaking
  BY <1>9 DEF Handshaking, Answered, DialFails, Upgraded, BridgeEnds, RelayCut
<1>10. CASE ClientLeaves \/ Deadline \/ Drop \/ Tick \/ UNCHANGED vars
  BY <1>10 DEF ClientLeaves, Deadline, Drop, Tick
<1> QED
  BY <1>4, <1>5, <1>6, <1>7, <1>8, <1>9, <1>10 DEF Next, Dispatching, Stutter

\* What is composed stays whole.
LEMMA ComposedStep ==
    ASSUME Inputs, Composed, [Next]_vars
    PROVE  Inputs' /\ Composed'
<1>1. UNCHANGED <<req, conf>>
  BY Sending
<1>2. Inputs'
  BY <1>1 DEF Inputs
<1>3. CASE UNCHANGED <<uri, reached>>
  BY <1>1, <1>2, <1>3 DEF Composed, UriWhole, Asked
<1>4. CASE ~UNCHANGED <<uri, reached>>
  <2>1. PICK up \in {"mev", "beacon", "el", "ws"}, path \in {Builder, Path(req.path)}, override \in BOOLEAN :
            /\ uri' = {Compose(conf.base, path, req.query, override)} /\ reached' = {up}
            /\ \/ up = "mev" /\ path = Builder
               \/ up # "mev" /\ path = Path(req.path) /\ ~override
    BY <1>4, Sending
  <2> QED
    BY <1>1, <1>2, <2>1, ComposedNew
<1> QED
  BY <1>2, <1>3, <1>4

\* What was made of a valid request is what the client offered.
LEMMA OfferShown ==
    ASSUME Inputs, Shaken
    PROVE  OfferForwarded
<1> SUFFICES ASSUME NEW h \in forwarded, h.upgrade # <<>>
             PROVE  LET offer == IF h.protocol = <<>> THEN <<>> ELSE h.protocol[1]
                    IN  /\ IsWs(req) /\ "bad" \notin Tokens(req.headers)
                        /\ Joins(req.headers.protocol, offer)
                        /\ Cardinality(Tokens(req.headers)) = Len(offer)
                        /\ Len(h.protocol) = IF offer = <<>> THEN 0 ELSE 1
                        /\ h.extensions = <<>> /\ h.version = <<"13">>
                        /\ Len(h.key) = 1 /\ (h.key[1] = "fresh" <=> Extended(req))
                        /\ h.host = <<"upstream">> /\ h.te = <<>>
  BY DEF OfferForwarded
<1> DEFINE list == Offer(req.headers)
           offer == IF h.protocol = <<>> THEN <<>> ELSE h.protocol[1]
<1>1. h = Handshake(req) /\ Valid(req) /\ IsWs(req)
  BY DEF Shaken
<1>2. /\ h.protocol = OneLine(list) /\ h.extensions = <<>> /\ h.version = <<"13">>
      /\ h.key = (IF Extended(req) THEN <<"fresh">> ELSE req.headers.key)
      /\ h.host = <<"upstream">> /\ h.te = <<>>
  BY <1>1, Handshakes
<1>3. /\ list \in Seq(Subprotocols) /\ Joins(req.headers.protocol, list)
      /\ Tokens(req.headers) = {list[i] : i \in 1..Len(list)}
  BY Lines DEF Inputs
<1>4. \A i, j \in 1..Len(list) : list[i] # "bad" /\ (i # j => list[i] # list[j])
  BY <1>1 DEF Valid, ValidOffer
<1>5. ~Extended(req) => Len(req.headers.key) = 1
  BY <1>1 DEF Valid
<1> HIDE DEF list
<1>6. Cardinality(Tokens(req.headers)) = Len(list)
  BY <1>3, <1>4, Distinct
<1>7. offer = list /\ Len(h.protocol) = IF list = <<>> THEN 0 ELSE 1
  BY <1>2 DEF OneLine
<1>8. "bad" \notin Tokens(req.headers)
  BY <1>3, <1>4
<1>9. Len(h.key) = 1 /\ (h.key[1] = "fresh" <=> Extended(req))
  BY <1>2, <1>5 DEF Inputs
<1> QED
  BY <1>1, <1>2, <1>3, <1>6, <1>7, <1>8, <1>9

\* Two lines are too many for the handler.
LEMMA Short == ASSUME NEW S, NEW s \in Seq(S), Len(s) <= 1 PROVE s = <<>> \/ Len(s) = 1
<1>1. Len(s) \in Nat /\ (Len(s) = 0 => s = <<>>)
  OBVIOUS
<1>2. \A n \in Nat : n <= 1 => n = 0 \/ n = 1
  OBVIOUS
<1> QED
  BY <1>1, <1>2

\* What Tungstenite and the handler accept is what the client offered.
LEMMA Agreed ==
    ASSUME Inputs, Shaken, stage = "dialing", NEW p \in Picks, Accepted(p), Negotiated(p)
    PROVE  /\ ~p.extensions
           /\ Len(p.protocols) = IF Tokens(req.headers) = {} THEN 0 ELSE 1
           /\ \A i \in 1..Len(p.protocols) : p.protocols[i] \in Tokens(req.headers)
<1> DEFINE list == Offer(req.headers)
           offer == CHOOSE s \in {h.protocol : h \in forwarded} : TRUE
<1>1. /\ list \in Seq(Subprotocols) /\ Tokens(req.headers) = {list[i] : i \in 1..Len(list)}
      /\ Tokens(req.headers) = {} <=> list = <<>>
  BY Lines DEF Inputs
<1>2. offer = OneLine(list)
  <2>1. {h.protocol : h \in forwarded} = {OneLine(list)}
    BY Handshakes DEF Shaken
  <2> QED
    BY <2>1
<1>3. /\ offer = <<>> => p.protocols = <<>>
      /\ offer # <<>> => p.protocols # <<>> /\ \E i \in 1..Len(offer[1]) : offer[1][i] = p.protocols[1]
  BY DEF Accepted, Contains
<1>4. ~p.extensions
  BY DEF Negotiated
<1>5. p.protocols = <<>> \/ Len(p.protocols) = 1
  <2>1. p.protocols \in Seq(Subprotocols)
    BY PicksAssumption
  <2>2. Len(p.protocols) <= 1
    BY DEF Negotiated
  <2> QED
    BY <2>1, <2>2, Short
<1> HIDE DEF list, offer
<1>6. CASE list = <<>>
  <2>1. p.protocols = <<>> /\ Tokens(req.headers) = {}
    BY <1>1, <1>2, <1>3, <1>6 DEF OneLine
  <2> QED
    BY <1>4, <2>1
<1>7. CASE list # <<>>
  <2>1. offer # <<>> /\ offer[1] = list
    BY <1>2, <1>7 DEF OneLine
  <2>2. Len(p.protocols) = 1 /\ p.protocols[1] \in Tokens(req.headers)
    <3>1. p.protocols # <<>> /\ \E i \in 1..Len(list) : list[i] = p.protocols[1]
      BY <1>3, <2>1
    <3>2. PICK i \in 1..Len(list) : list[i] = p.protocols[1]
      BY <3>1
    <3>3. list[i] \in Tokens(req.headers)
      BY <1>1
    <3>4. Len(p.protocols) = 1
      BY <1>5, <3>1
    <3> QED
      BY <3>2, <3>3, <3>4
  <2> QED
    BY <1>1, <1>7, <1>4, <2>2
<1> QED
  BY <1>6, <1>7

\* What leaves the headers and the relay alone keeps the handshake.
LEMMA Kept ==
    ASSUME Shaken, UNCHANGED <<req, forwarded, returned, picked, relay>>,
           stage' = "dialing" => stage = "dialing",
           relay # "none" => stage' = "done" /\ status' = status
    PROVE  Shaken'
<1>1. /\ (\A h \in forwarded : h.upgrade # <<>> => h = Handshake(req) /\ Valid(req) /\ IsWs(req))'
      /\ (stage = "dialing" => forwarded = {Handshake(req)} /\ Valid(req))'
      /\ (relay # "none" => stage = "done")'
  BY DEF Shaken
<1>2. SwitchAgreed'
  BY DEF Shaken, SwitchAgreed
<1> QED
  BY <1>1, <1>2 DEF Shaken

\* Plain headers are no handshake.
LEMMA Stripped ==
    ASSUME Shaken, forwarded' = {Strip(req.headers)}, stage # "done", stage' = "sending",
           UNCHANGED <<req, returned, picked, relay>>
    PROVE  Shaken'
<1>1. relay = "none"
  BY DEF Shaken
<1>2. \A h \in forwarded' : h.upgrade = <<>>
  BY Tunnels
<1>3. SwitchAgreed'
  BY <1>1 DEF SwitchAgreed
<1> QED
  BY <1>1, <1>2, <1>3 DEF Shaken

\* The relay stands on what was agreed.
LEMMA Stands ==
    ASSUME Inputs, Shaken, stage = "dialing", NEW p \in Picks, Accepted(p), Negotiated(p),
           picked' = {p}, relay' = "waiting", stage' = "done",
           status' = (IF Extended(req) THEN 200 ELSE 101),
           returned' = {[NoHeaders EXCEPT !.protocol = OneLine(p.protocols)]},
           UNCHANGED <<req, forwarded>>
    PROVE  Shaken'
<1> DEFINE b == [NoHeaders EXCEPT !.protocol = OneLine(p.protocols)]
<1>1. b.protocol = OneLine(p.protocols)
  BY DEF NoHeaders, Names
<1>2. /\ ~p.extensions
      /\ Len(p.protocols) = IF Tokens(req.headers) = {} THEN 0 ELSE 1
      /\ \A i \in 1..Len(p.protocols) : p.protocols[i] \in Tokens(req.headers)
  BY Agreed
<1>3. p \in picked' /\ b \in returned' /\ req' = req
  OBVIOUS
<1> HIDE DEF b
<1>4. SwitchAgreed'
  BY <1>1, <1>2, <1>3 DEF SwitchAgreed
<1>5. /\ (\A h \in forwarded : h.upgrade # <<>> => h = Handshake(req) /\ Valid(req) /\ IsWs(req))'
      /\ stage' # "dialing" /\ (relay # "none" => stage = "done")'
  BY DEF Shaken
<1> QED
  BY <1>4, <1>5 DEF Shaken

\* A handshake is made once, of a valid request, and its relay started once.
LEMMA ShakenStep ==
    ASSUME Inputs, Shaken, [Next]_vars
    PROVE  Shaken'
<1>1. relay # "none" => stage = "done"
  BY DEF Shaken
<1>2. CASE ForwardCl \/ ForwardEl
  <2>1. stage = "new" /\ UNCHANGED <<req, returned, picked, relay>>
    BY <1>2, Forwards
  <2>2. CASE stage' = "sending" /\ forwarded' = {Strip(req.headers)}
    BY <2>1, <2>2, Stripped
  <2>3. CASE stage' = "done" /\ UNCHANGED forwarded
    BY <1>1, <2>1, <2>3, Kept
  <2> QED
    BY <1>2, <2>2, <2>3, Forwards DEF Passed
<1>3. CASE StartWs
  <2>1. CASE stage' = "dialing"
    <3>1. stage = "new" /\ Valid(req) /\ IsWs(req) /\ forwarded' = {Handshake(req)}
          /\ UNCHANGED <<req, returned, picked, relay>>
      BY <1>3, <2>1, Tunnelled DEF StartWs, Dispatched, Target
    <3>2. relay' = "none" /\ SwitchAgreed'
      BY <1>1, <3>1 DEF SwitchAgreed
    <3> QED
      BY <3>1, <3>2 DEF Shaken, Valid, Extended, Upgrades, IsWs
  <2>2. CASE stage' # "dialing"
    <3>1. stage = "new" /\ UNCHANGED <<req, forwarded, returned, picked, relay>>
      BY <1>3, <2>2, Tunnelled
    <3> QED
      BY <1>1, <2>2, <3>1, Kept
  <2> QED
    BY <2>1, <2>2
<1>4. CASE Collected
  <2>1. CASE Send("el", Path(req.path), FALSE)
    BY <1>4, <2>1, Sends, Stripped DEF Collected
  <2>2. CASE Here /\ \E code \in {200, 204, 502} : Respond(code)
    BY <1>1, <1>4, <2>2, Kept DEF Collected, Here, Respond
  <2>3. CASE ComposeFails(Path(req.path), FALSE)
    BY <2>2, <2>3 DEF ComposeFails
  <2>4. \/ (Respond(200) \/ Respond(204)) /\ Here
        \/ Forward("el", Path(req.path), FALSE)
    BY <1>4 DEF Collected
  <2> QED
    BY <2>1, <2>2, <2>3, <2>4 DEF Forward
<1>5. CASE Probe \/ MockCl \/ Collect \/ BodyFails \/ BodyTimesOut
  <2>1. /\ stage # "done" /\ stage' # "dialing"
        /\ UNCHANGED <<req, forwarded, returned, picked, relay>>
    BY <1>5, Mocks DEF Probe, Collect, Dispatched, BodyFails, BodyTimesOut, Here, Respond
  <2> QED
    BY <1>1, <2>1, Kept
<1>6. CASE UpstreamAnswers \/ UpstreamFails \/ UpstreamTimesOut
  <2>1. stage # "done" /\ stage' # "dialing" /\ UNCHANGED <<req, forwarded, picked, relay>>
    BY <1>6 DEF UpstreamAnswers, UpstreamFails, UpstreamTimesOut, Here, Respond
  <2>2. relay' = "none" /\ SwitchAgreed'
    BY <1>1, <2>1 DEF SwitchAgreed
  <2> QED
    BY <2>1, <2>2 DEF Shaken
<1>7. CASE Handshaking
  <2>1. ASSUME NEW p \in Picks, Answered(p) PROVE Shaken'
    <3>1. CASE Accepted(p) /\ Negotiated(p)
      BY <2>1, <3>1, Stands DEF Answered, Respond
    <3>2. CASE ~(Accepted(p) /\ Negotiated(p))
      <4>1. stage = "dialing" /\ stage' = "done" /\ UNCHANGED <<req, forwarded, relay>>
        BY <2>1, <3>2 DEF Answered, Respond
      <4>2. relay' = "none" /\ SwitchAgreed'
        BY <1>1, <4>1 DEF SwitchAgreed
      <4> QED
        BY <4>1, <4>2 DEF Shaken
    <3> QED
      BY <3>1, <3>2
  <2>2. CASE DialFails
    <3>1. stage = "dialing" /\ stage' = "done" /\ UNCHANGED <<req, forwarded, returned, picked, relay>>
      BY <2>2 DEF DialFails, Respond
    <3> QED
      BY <1>1, <3>1, Kept
  <2>3. CASE Upgraded \/ BridgeEnds \/ RelayCut
    <3>1. relay # "none" /\ UNCHANGED <<req, stage, status, forwarded, returned, picked>>
      BY <2>3 DEF Upgraded, BridgeEnds, RelayCut
    <3>2. SwitchAgreed'
      BY <3>1 DEF Shaken, SwitchAgreed
    <3> QED
      BY <1>1, <3>1, <3>2 DEF Shaken
  <2> QED
    BY <1>7, <2>1, <2>2, <2>3 DEF Handshaking
<1>8. CASE ClientLeaves \/ Deadline \/ Tick \/ UNCHANGED vars
  <2>1. UNCHANGED <<req, stage, status, forwarded, returned, picked, relay>>
    BY <1>8 DEF ClientLeaves, Deadline, Tick
  <2> QED
    BY <1>1, <2>1, Kept
<1>9. CASE Drop
  <2>1. stage # "done" /\ stage' # "dialing" /\ UNCHANGED <<req, forwarded, returned, picked, relay>>
    BY <1>9 DEF Drop, Waiting
  <2> QED
    BY <1>1, <2>1, Kept
<1> QED
  BY <1>2, <1>3, <1>4, <1>5, <1>6, <1>7, <1>8, <1>9 DEF Next, Dispatching, Stutter

(***************************************************************************)
(* The theorems.                                                           *)
(***************************************************************************)

\* What a request and a base are like, to begin with.
LEMMA InputsInit == Init => Inputs
BY CasesAssumption DEF Init, Inputs

\* No handshake has been made, and no URI composed.
LEMMA ShakenInit == Init => Shaken /\ Composed
<1> SUFFICES ASSUME Init PROVE Shaken /\ Composed
  OBVIOUS
<1>1. Start
  BY DEF Init
<1>2. SwitchAgreed /\ UriWhole
  BY <1>1 DEF Start, SwitchAgreed, UriWhole
<1> QED
  BY <1>1, <1>2 DEF Start, Shaken, Composed

\* A request starts with nothing sent.
LEMMA InvInit == Init => IInv
<1> SUFFICES ASSUME Init PROVE IInv
  OBVIOUS
<1>1. Start
  BY DEF Init
<1>2. Timed
  BY <1>1 DEF Start, Timed
<1>3. Placed
  BY <1>1 DEF Start, Placed
<1>4. RoutedOnce
  <2>1. reached = {} /\ forwarded = {} /\ body = "none" /\ stage = "new" /\ counted = 0
    BY <1>1 DEF Start
  <2> QED
    BY <2>1, Singles DEF RoutedOnce, Unforwarded
<1>5. HopsStay
  BY <1>1 DEF Start, HopsStay
<1> QED
  BY <1>2, <1>3, <1>4, <1>5, InputsInit, ShakenInit DEF IInv

\* The inductive invariant: the time that is left, where a request is, where it
\* went and what it took along, and what its handshake says.
THEOREM Invariant == Spec => []IInv
<1>1. IInv /\ [Next]_vars => IInv'
  BY TimedStep, RoutedStep, HopsStep, ComposedStep, ShakenStep DEF IInv
<1> QED
  BY InvInit, <1>1, PTL DEF Spec

\* A request reaches the upstream it is for and no other.  One that is answered
\* without a call is for nobody, was taken by the mock, or could not be read,
\* offered or addressed.  Each proxied request that is answered is counted once.
THEOREM Routed == Spec => []RoutedOnce
<1>1. IInv => RoutedOnce
  BY DEF IInv
<1> QED
  BY <1>1, Invariant, PTL

\* Fields of one hop stay behind in both directions, and all others cross.
THEOREM Hops == Spec => []HopsStay
<1>1. IInv => HopsStay
  BY DEF IInv
<1> QED
  BY <1>1, Invariant, PTL

\* No answer takes more than two timeouts, and only one without a collected body.
THEOREM Timely == Spec => []InTime
<1>1. IInv => InTime
  <2> SUFFICES ASSUME Timed PROVE InTime
    BY DEF IInv
  <2> QED
    BY TimeoutAssumption DEF Timed, Budget, InTime
<1> QED
  BY <1>1, Invariant, PTL

\* The URI keeps the base and what was asked for, whichever way it was composed.
THEOREM Addressed == Spec => []UriWhole
<1>1. IInv => UriWhole
  BY DEF IInv, Composed
<1> QED
  BY <1>1, Invariant, PTL

\* The upstream of a tunnel is offered what the client offers, and all of it.
THEOREM Offering == Spec => []OfferForwarded
<1>1. IInv => OfferForwarded
  BY OfferShown DEF IInv
<1> QED
  BY <1>1, Invariant, PTL

\* A tunnel stands on what the client offered and the upstream picked.
THEOREM Switching == Spec => []SwitchAgreed
<1>1. IInv => SwitchAgreed
  BY DEF IInv, Shaken
<1> QED
  BY <1>1, Invariant, PTL
=============================================================================
