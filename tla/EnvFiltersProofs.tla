-------------------------- MODULE EnvFiltersProofs --------------------------
(***************************************************************************)
(* For names and tokens of any letters and any length: what                *)
(* determine_filter_type makes of a token matches the names that the token *)
(* is documented to select.                                                *)
(***************************************************************************)
EXTENDS EnvFilters, SequenceTheorems, TLAPS

-----------------------------------------------------------------------------
(* Parts of a sequence                                                     *)

\* t is its first i letters, s, and its letters behind the j-th.
Joined(t, i, s, j) == t = SubSeq(t, 1, i) \o s \o SubSeq(t, j + 1, Len(t))

LEMMA EmptyLen ==
    ASSUME NEW L, NEW s \in Seq(L)
    PROVE  s = <<>> <=> Len(s) = 0
  BY EmptySeq

\* That is so where s is the segment between the two.
LEMMA Around ==
    ASSUME NEW L, NEW t \in Seq(L), NEW s \in Seq(L), NEW i \in 0 .. Len(t), NEW j \in 0 .. Len(t)
    PROVE  /\ i + Len(s) = j /\ SubSeq(t, i + 1, j) = s
           <=> i <= j /\ Joined(t, i, s, j)
  <1> DEFINE b == SubSeq(t, 1, i)
             a == SubSeq(t, j + 1, Len(t))
             bs == b \o s
             u == bs \o a
             m == SubSeq(t, i + 1, j)
  <1>1. b \in Seq(L) /\ Len(b) = i /\ \A x \in 1 .. i : b[x] = t[x]
    BY SubSeqProperties
  <1>2. a \in Seq(L) /\ Len(a) = Len(t) - j /\ \A x \in 1 .. Len(a) : a[x] = t[j + x]
    BY SubSeqProperties
  <1>3. i <= j => m \in Seq(L) /\ Len(m) = j - i /\ \A x \in 1 .. (j - i) : m[x] = t[i + x]
    BY SubSeqProperties
  <1> HIDE DEF a, b, m
  <1>b. /\ bs \in Seq(L) /\ Len(bs) = i + Len(s)
        /\ \A x \in 1 .. i : bs[x] = t[x]
        /\ \A x \in 1 .. Len(s) : bs[i + x] = s[x]
    <2>1. bs \in Seq(L) /\ Len(bs) = Len(b) + Len(s)
          /\ \A x \in 1 .. (Len(b) + Len(s)) : bs[x] = IF x <= Len(b) THEN b[x] ELSE s[x - Len(b)]
      BY <1>1, ConcatProperties
    <2> HIDE DEF bs
    <2>2. Len(s) \in Nat /\ i \in Nat
      OBVIOUS
    <2>3. \A x \in 1 .. Len(s) : bs[i + x] = s[x]
      <3> SUFFICES ASSUME NEW x \in 1 .. Len(s) PROVE bs[i + x] = s[x]
        OBVIOUS
      <3> DEFINE y == i + x
      <3>1. y \in 1 .. (Len(b) + Len(s)) /\ ~(y <= Len(b)) /\ y - Len(b) = x
        BY <1>1, <2>2
      <3> HIDE DEF y
      <3> QED
        BY <2>1, <3>1 DEF y
    <2> QED
      BY <1>1, <2>1, <2>2, <2>3
  <1> HIDE DEF bs
  <1>4. /\ u \in Seq(L) /\ Len(u) = i + Len(s) + (Len(t) - j)
        /\ \A x \in 1 .. i : u[x] = t[x]
        /\ \A x \in 1 .. Len(s) : u[i + x] = s[x]
        /\ \A x \in 1 .. (Len(t) - j) : u[i + Len(s) + x] = t[j + x]
    <2>1. u \in Seq(L) /\ Len(u) = Len(bs) + Len(a)
          /\ \A x \in 1 .. (Len(bs) + Len(a)) : u[x] = IF x <= Len(bs) THEN bs[x] ELSE a[x - Len(bs)]
      <3>1. bs \in Seq(L) /\ a \in Seq(L)
        BY <1>2, <1>b
      <3> QED
        BY <3>1, ConcatProperties
    <2> HIDE DEF u
    <2>2. \A x \in 1 .. (Len(t) - j) : u[i + Len(s) + x] = t[j + x]
      <3> SUFFICES ASSUME NEW x \in 1 .. (Len(t) - j) PROVE u[i + Len(s) + x] = t[j + x]
        OBVIOUS
      <3> DEFINE y == i + Len(s) + x
      <3>1. Len(s) \in Nat /\ Len(t) \in Nat
        OBVIOUS
      <3>2. y \in 1 .. (Len(bs) + Len(a)) /\ ~(y <= Len(bs)) /\ y - Len(bs) = x
        BY <1>2, <1>b, <2>1, <3>1
      <3> HIDE DEF y
      <3>3. u[y] = a[x]
        BY <2>1, <3>2
      <3> QED
        BY <1>2, <3>3 DEF y
    <2>3. \A x \in 1 .. (i + Len(s)) : u[x] = bs[x]
      BY <1>2, <1>b, <2>1
    <2>4. \A x \in 1 .. i : u[x] = t[x]
      BY <1>b, <2>3
    <2>5. \A x \in 1 .. Len(s) : u[i + x] = s[x]
      <3> SUFFICES ASSUME NEW x \in 1 .. Len(s) PROVE u[i + x] = s[x]
        OBVIOUS
      <3>1. i + x \in 1 .. (i + Len(s))
        OBVIOUS
      <3> QED
        BY <1>b, <2>3, <3>1
    <2>6. Len(u) = i + Len(s) + (Len(t) - j)
      BY <1>2, <1>b, <2>1
    <2> QED
      BY <2>1, <2>2, <2>4, <2>5, <2>6
  <1> HIDE DEF u
  <1>5. ASSUME i + Len(s) = j, m = s
        PROVE  i <= j /\ t = u
    <2>1. i <= j /\ Len(u) = Len(t)
      <3>1. Len(s) \in Nat /\ Len(t) \in Nat /\ i \in Nat /\ j \in Nat
        OBVIOUS
      <3>2. Len(u) = i + Len(s) + (Len(t) - j)
        BY <1>4
      <3> DEFINE n == Len(t)
                 k == Len(s)
                 l == Len(u)
      <3> HIDE DEF n, k, l
      <3>3. k \in Nat /\ n \in Nat /\ l = i + k + (n - j) /\ i + k = j
        BY <1>5, <3>1, <3>2 DEF n, k, l
      <3> QED
        BY <3>1, <3>3 DEF n, l
    <2>2. \A x \in 1 .. Len(t) : u[x] = t[x]
      <3> SUFFICES ASSUME NEW x \in 1 .. Len(t) PROVE u[x] = t[x]
        OBVIOUS
      <3>1. CASE x <= i
        BY <1>4, <3>1
      <3>2. CASE i < x /\ x <= j
        <4>1. x - i \in 1 .. Len(s) /\ x = i + (x - i)
          BY <1>5, <3>2
        <4> QED
          BY <1>3, <1>4, <1>5, <2>1, <4>1
      <3>3. CASE j < x
        <4>1. x - j \in 1 .. (Len(t) - j) /\ x = j + (x - j)
          BY <3>3
        <4> QED
          BY <1>4, <1>5, <4>1
      <3> QED
        BY <3>1, <3>2, <3>3
    <2>3. u \in Seq(L) /\ \A x \in 1 .. Len(u) : u[x] = t[x]
      BY <1>4, <2>1, <2>2
    <2>4. u = t
      BY <2>1, <2>3, SeqEqual
    <2> QED
      BY <2>1, <2>4
  <1>6. ASSUME i <= j, t = u
        PROVE  i + Len(s) = j /\ m = s
    <2>1. i + Len(s) = j
      <3>1. Len(u) = Len(t) /\ Len(u) = i + Len(s) + (Len(t) - j)
        BY <1>4, <1>6
      <3>2. Len(t) \in Nat /\ Len(s) \in Nat
        OBVIOUS
      <3> QED
        BY <3>1, <3>2
    <2>2. \A x \in 1 .. Len(s) : m[x] = s[x]
      BY <1>3, <1>4, <1>6, <2>1
    <2> QED
      BY <1>3, <1>6, <2>1, <2>2, SeqEqual
  <1> QED
    BY <1>5, <1>6 DEF Joined, a, b, m, bs, u

-----------------------------------------------------------------------------
(* What a token selects, by the place at which its stem occurs             *)

\* The stem stands behind the first i letters of the name.
Occurs(v, name, i) == SubSeq(name, i + 1, i + Len(v)) = v

\* A place the stars of the token allow.
Allowed(token, name, i) == /\ i # 0 => token[1] = Star
                           /\ i + Len(Stem(token)) # Len(name) => token[Len(token)] = Star

LEMMA StemType ==
    ASSUME NEW L, NEW token \in Seq(L), token # <<>>
    PROVE  Stem(token) \in Seq(L) /\ Len(token) \in Nat \ {0}
  <1>1. Len(token) \in Nat \ {0}
    BY EmptySeq
  <1> DEFINE p == IF token[1] = Star THEN 2 ELSE 1
             q == IF token[Len(token)] = Star THEN Len(token) - 1 ELSE Len(token)
  <1>2. p \in Int /\ q \in Int /\ \A x \in p .. q : token[x] \in L
    BY <1>1
  <1> HIDE DEF p, q
  <1>3. SubSeq(token, p, q) \in Seq(L)
    BY <1>2, SubSeqProperties
  <1> QED
    BY <1>1, <1>3 DEF Stem, p, q

LEMMA SelectsPlace ==
    ASSUME NEW L, NEW token \in Seq(L), token # <<>>, token \notin Specials, NEW name \in Seq(L)
    PROVE  Selects(token, name) <=>
             \E i \in 0 .. Len(name) : /\ i + Len(Stem(token)) <= Len(name)
                                       /\ Occurs(Stem(token), name, i)
                                       /\ Allowed(token, name, i)
  <1> DEFINE v == Stem(token)
             N == Len(name)
             Whole(i, j) == /\ i <= j
                            /\ SubSeq(name, 1, i) # <<>> => token[1] = Star
                            /\ SubSeq(name, j + 1, N) # <<>> => token[Len(token)] = Star
                            /\ Joined(name, i, v, j)
             Place(i) == i + Len(v) <= N /\ Occurs(v, name, i) /\ Allowed(token, name, i)
  <1>1. v \in Seq(L) /\ Len(v) \in Nat /\ N \in Nat
    BY StemType
  <1>2. token # AllLayers
    BY DEF Specials
  <1>3. Selects(token, name) <=> \E i, j \in 0 .. N : Whole(i, j)
    BY <1>2 DEF Selects, Joined
  <1> HIDE DEF v, N
  <1>4. ASSUME NEW i \in 0 .. N, NEW j \in 0 .. N
        PROVE  /\ SubSeq(name, 1, i) = <<>> <=> i = 0
               /\ SubSeq(name, j + 1, N) = <<>> <=> j = N
    <2>1. /\ SubSeq(name, 1, i) \in Seq(L) /\ Len(SubSeq(name, 1, i)) = i
          /\ SubSeq(name, j + 1, N) \in Seq(L) /\ Len(SubSeq(name, j + 1, N)) = N - j
      BY <1>1, SubSeqProperties DEF N
    <2>2. SubSeq(name, 1, i) = <<>> <=> Len(SubSeq(name, 1, i)) = 0
      BY <2>1, EmptyLen
    <2>3. SubSeq(name, j + 1, N) = <<>> <=> Len(SubSeq(name, j + 1, N)) = 0
      BY <2>1, EmptyLen
    <2>4. N - j = 0 <=> j = N
      BY <1>1
    <2> QED
      BY <2>1, <2>2, <2>3, <2>4
  <1>5. ASSUME NEW i \in 0 .. N, NEW j \in 0 .. N, Whole(i, j)
        PROVE  Place(i)
    <2>1. i + Len(v) = j /\ SubSeq(name, i + 1, j) = v
      <3>1. i <= j /\ Joined(name, i, v, j)
        BY <1>5
      <3> QED
        BY <1>1, <3>1, Around DEF N
    <2>2. i # 0 => token[1] = Star
      BY <1>4, <1>5
    <2>3. j # N => token[Len(token)] = Star
      BY <1>4, <1>5
    <2> QED
      BY <1>1, <2>1, <2>2, <2>3 DEF Occurs, Allowed, v, N
  <1>6. ASSUME NEW i \in 0 .. N, Place(i)
        PROVE  \E j \in 0 .. N : Whole(i, j)
    <2> DEFINE j == i + Len(v)
    <2>1. j \in 0 .. N /\ i <= j
      BY <1>1, <1>6
    <2>2. SubSeq(name, i + 1, j) = v
      BY <1>6 DEF Occurs
    <2>3. (i # 0 => token[1] = Star) /\ (j # N => token[Len(token)] = Star)
      BY <1>6 DEF Allowed, v, N
    <2>4. i + Len(v) = j
      OBVIOUS
    <2> HIDE DEF j
    <2>5. Joined(name, i, v, j)
      BY <1>1, <2>1, <2>2, <2>4, Around DEF N
    <2>6. Whole(i, j)
      BY <1>4, <2>1, <2>3, <2>5
    <2> QED
      BY <2>1, <2>6
  <1>7. (\E i, j \in 0 .. N : Whole(i, j)) <=> \E i \in 0 .. N : Place(i)
    BY <1>5, <1>6
  <1> QED
    BY <1>3, <1>7 DEF v, N


-----------------------------------------------------------------------------
(* What determine_filter_type makes of a token                             *)

\* A lone star becomes the prefix of no letters.
TypeOf(token) ==
    IF token[1] = Star
    THEN IF token[Len(token)] = Star
         THEN IF Len(token) = 1 THEN "prefix" ELSE "substring"
         ELSE "suffix"
    ELSE IF token[Len(token)] = Star THEN "prefix" ELSE "fullname"

\* The value that is stored is the stem.
LEMMA FilterOfToken ==
    ASSUME NEW L, NEW token \in Seq(L), token # <<>>, token \notin Specials, Distinguished(token)
    PROVE  DetermineFilterType(token) = [type |-> TypeOf(token), value |-> Stem(token)]
  <1> DEFINE n == Len(token)
  <1>1. n \in Nat \ {0} /\ Head(token) = token[1]
    BY StemType
  <1>2. n = 2 => token[n] # Star
    BY DEF Distinguished
  <1>3. SubSeq(token, 1, n) = token
    BY SubSeqFull
  <1>4. Tail(token) = SubSeq(token, 2, n)
    <2>1. Tail(token) \in Seq(L) /\ Len(Tail(token)) = n - 1
          /\ \A x \in 1 .. (n - 1) : Tail(token)[x] = token[x + 1]
      BY <1>1
    <2>2. SubSeq(token, 2, n) \in Seq(L) /\ Len(SubSeq(token, 2, n)) = n - 1
          /\ \A x \in 1 .. (n - 1) : SubSeq(token, 2, n)[x] = token[x + 1]
      <3>1. \A x \in 2 .. n : token[x] \in L
        BY <1>1
      <3>2. /\ SubSeq(token, 2, n) \in Seq(L)
            /\ Len(SubSeq(token, 2, n)) = IF 2 <= n THEN n - 2 + 1 ELSE 0
            /\ \A x \in 1 .. (n - 2 + 1) : SubSeq(token, 2, n)[x] = token[2 + x - 1]
        BY <1>1, <3>1, SubSeqProperties
      <3>3. n - 2 + 1 = n - 1 /\ \A x \in 1 .. (n - 1) : 2 + x - 1 = x + 1
        BY <1>1
      <3>4. ~(2 <= n) => n - 1 = 0
        <4>1. n \in Nat /\ n # 0
          BY <1>1
        <4> HIDE DEF n
        <4> QED
          BY <4>1
      <3> QED
        BY <3>2, <3>3, <3>4
    <2> QED
      BY <2>1, <2>2, SeqEqual
  <1>5. Front(token) = SubSeq(token, 1, n - 1)
    BY DEF Front
  <1>6. n = 1 => SubSeq(token, 1, n - 1) = SubSeq(token, 2, n - 1)
    BY SubSeqEmpty
  <1> HIDE DEF n
  <1>7. CASE token[1] = Star /\ token[n] = Star
    <2>1. CASE n = 1
      BY <1>1, <1>5, <1>6, <1>7, <2>1 DEF DetermineFilterType, TypeOf, Stem, n
    <2>2. CASE n # 1
      BY <1>1, <1>2, <1>7, <2>2 DEF DetermineFilterType, TypeOf, Stem, n
    <2> QED
      BY <2>1, <2>2
  <1>8. CASE token[1] = Star /\ token[n] # Star
    BY <1>1, <1>4, <1>8 DEF DetermineFilterType, TypeOf, Stem, n
  <1>9. CASE token[1] # Star /\ token[n] = Star
    BY <1>1, <1>2, <1>5, <1>9 DEF DetermineFilterType, TypeOf, Stem, n
  <1>10. CASE token[1] # Star /\ token[n] # Star
    BY <1>1, <1>3, <1>10 DEF DetermineFilterType, TypeOf, Stem, n
  <1> QED
    BY <1>7, <1>8, <1>9, <1>10

LEMMA MatchesPlace ==
    ASSUME NEW L, NEW name \in Seq(L), NEW v \in Seq(L),
           NEW type \in {"substring", "suffix", "prefix", "fullname"}
    PROVE  FilterMatches(name, [type |-> type, value |-> v]) <=>
             \E i \in 0 .. Len(name) :
               /\ i + Len(v) <= Len(name) /\ Occurs(v, name, i)
               /\ i # 0 => type \in {"substring", "suffix"}
               /\ i + Len(v) # Len(name) => type \in {"substring", "prefix"}
  <1> DEFINE N == Len(name)
             k == Len(v)
             Place(i) == /\ i + k <= N /\ Occurs(v, name, i)
                         /\ i # 0 => type \in {"substring", "suffix"}
                         /\ i + k # N => type \in {"substring", "prefix"}
  <1>1. N \in Nat /\ k \in Nat
    OBVIOUS
  <1>2. \A s \in Int : SegmentMatches(name, s, v) <=> Occurs(v, name, s - 1)
    <2> SUFFICES ASSUME NEW s \in Int
                 PROVE  SegmentMatches(name, s, v) <=> Occurs(v, name, s - 1)
      OBVIOUS
    <2>1. s = (s - 1) + 1 /\ s + k - 1 = (s - 1) + k
      BY <1>1
    <2> QED
      BY <2>1 DEF SegmentMatches, Occurs
  <1> HIDE DEF N, k
  <1>3. FilterMatches(name, [type |-> type, value |-> v]) <=>
          /\ k <= N
          /\ type = "substring" => \E s \in 1 .. (N - k + 1) : SegmentMatches(name, s, v)
          /\ type = "suffix" => SegmentMatches(name, N - k + 1, v)
          /\ type = "prefix" => SegmentMatches(name, 1, v)
          /\ type = "fullname" => N = k /\ SegmentMatches(name, 1, v)
    BY DEF FilterMatches, N, k
  <1>4. CASE type = "substring"
    <2>1. ASSUME NEW s \in 1 .. (N - k + 1), SegmentMatches(name, s, v)
          PROVE  \E i \in 0 .. N : Place(i)
      <3>1. s - 1 \in 0 .. N /\ (s - 1) + k <= N
        BY <1>1, <2>1
      <3> QED
        BY <1>2, <1>4, <2>1, <3>1
    <2>2. ASSUME NEW i \in 0 .. N, Place(i)
          PROVE  k <= N /\ \E s \in 1 .. (N - k + 1) : SegmentMatches(name, s, v)
      <3>1. k <= N /\ i + 1 \in 1 .. (N - k + 1) /\ (i + 1) - 1 = i
        BY <1>1, <2>2
      <3> QED
        BY <1>2, <2>2, <3>1
    <2> QED
      BY <1>3, <1>4, <2>1, <2>2 DEF N, k
  <1>5. CASE type = "suffix"
    <2>1. ASSUME NEW i \in 0 .. N, Place(i)
          PROVE  k <= N /\ SegmentMatches(name, N - k + 1, v)
      <3>1. i = N - k /\ k <= N
        BY <1>1, <1>5, <2>1
      <3> QED
        BY <1>1, <1>2, <2>1, <3>1
    <2>2. ASSUME k <= N, SegmentMatches(name, N - k + 1, v)
          PROVE  \E i \in 0 .. N : Place(i)
      <3>1. N - k \in 0 .. N /\ (N - k) + k = N /\ (N - k + 1) - 1 = N - k
        BY <1>1, <2>2
      <3> QED
        BY <1>1, <1>2, <1>5, <2>2, <3>1
    <2> QED
      BY <1>3, <1>5, <2>1, <2>2 DEF N, k
  <1>6. CASE type \in {"prefix", "fullname"}
    <2>1. SegmentMatches(name, 1, v) <=> Occurs(v, name, 0)
      BY <1>2
    <2>2. (\E i \in 0 .. N : Place(i)) <=> Place(0)
      BY <1>1, <1>6
    <2> QED
      BY <1>1, <1>3, <1>6, <2>1, <2>2 DEF N, k
  <1> QED
    BY <1>4, <1>5, <1>6


-----------------------------------------------------------------------------
(* The theorems                                                            *)

\* determine_filter_type and one turn of check_name_matches_filter_environment_var: for
\* every token but one of two letters that ends with a star, the filter made of it matches
\* a name exactly when the name is the token with text in place of the stars at its ends.
\* (A lone star, for which the code prepares a type of its own that it then overwrites,
\* comes out right: it is the prefix of no letters.)
THEOREM FilterMeansToken ==
    ASSUME NEW L, NEW token \in Seq(L), token # <<>>, NEW name \in Seq(L), Distinguished(token)
    PROVE  FilterMatches(name, DetermineFilterType(token)) <=> Selects(token, name)
  <1>1. CASE token \in Specials
    <2>1. DetermineFilterType(token) = [type |-> "special", value |-> token]
      BY <1>1 DEF DetermineFilterType
    <2>2. FilterMatches(name, [type |-> "special", value |-> token]) <=> token = AllLayers
      BY DEF FilterMatches
    <2>3. Selects(token, name) <=> token = AllLayers
      BY <1>1 DEF Selects
    <2> QED
      BY <2>1, <2>2, <2>3
  <1>2. CASE token \notin Specials
    <2> DEFINE v == Stem(token)
               type == TypeOf(token)
               Starts == token[1] = Star
               Ends == token[Len(token)] = Star
    <2>1. DetermineFilterType(token) = [type |-> type, value |-> v]
      BY <1>2, FilterOfToken
    <2>2. v \in Seq(L) /\ Len(v) \in Nat /\ Len(name) \in Nat /\ Len(token) \in Nat \ {0}
      BY StemType
    <2>3. type \in {"substring", "suffix", "prefix", "fullname"}
      BY DEF TypeOf
    <2>4. /\ type \in {"substring", "suffix"} <=> Starts /\ (Ends => Len(token) # 1)
          /\ type \in {"substring", "prefix"} <=> Ends
      BY DEF TypeOf
    <2>5. Len(token) = 1 /\ Ends => Starts /\ Len(v) = 0
      <3> SUFFICES ASSUME Len(token) = 1, Ends PROVE Starts /\ Len(v) = 0
        OBVIOUS
      <3>1. v = SubSeq(token, 2, 0)
        BY DEF Stem
      <3>2. SubSeq(token, 2, 0) = <<>>
        BY SubSeqEmpty
      <3> QED
        BY <3>1, <3>2
    <2>6. FilterMatches(name, [type |-> type, value |-> v]) <=>
            \E i \in 0 .. Len(name) :
              /\ i + Len(v) <= Len(name) /\ Occurs(v, name, i)
              /\ i # 0 => type \in {"substring", "suffix"}
              /\ i + Len(v) # Len(name) => type \in {"substring", "prefix"}
      <3> HIDE DEF v, type
      <3> QED
        BY <2>2, <2>3, MatchesPlace
    <2>7. Selects(token, name) <=>
            \E i \in 0 .. Len(name) :
              /\ i + Len(v) <= Len(name) /\ Occurs(v, name, i)
              /\ i # 0 => Starts
              /\ i + Len(v) # Len(name) => Ends
      BY <1>2, SelectsPlace DEF Allowed
    <2> HIDE DEF v, type, Starts, Ends
    <2>8. CASE ~(Len(token) = 1 /\ Ends)
      <3>1. type \in {"substring", "suffix"} <=> Starts
        BY <2>4, <2>8
      <3> QED
        BY <2>1, <2>4, <2>6, <2>7, <3>1
    <2>9. CASE Len(token) = 1 /\ Ends
      <3>1. Occurs(v, name, 0)
        <4>1. v = <<>> /\ Len(v) = 0
          BY <2>2, <2>5, <2>9, EmptyLen
        <4>2. SubSeq(name, 1, 0) = <<>>
          BY SubSeqEmpty
        <4> QED
          BY <4>1, <4>2 DEF Occurs
      <3>2. 0 \in 0 .. Len(name) /\ 0 + Len(v) <= Len(name)
        BY <2>2, <2>5, <2>9
      <3> QED
        BY <2>1, <2>4, <2>6, <2>7, <2>9, <3>1, <3>2
    <2> QED
      BY <2>8, <2>9
  <1> QED
    BY <1>1, <1>2

\* parse_generic_filter_environment_var followed by the matching loop: a name matches a
\* variable exactly when one of its first MAX_ADDITIONAL_FILTERS tokens selects it; what is
\* behind them is not looked at.
THEOREM VariableMeansTokens ==
    ASSUME NEW L, NEW name \in Seq(L), NEW f \in Seq(Seq(L)),
           \A k \in DOMAIN f : f[k] # <<>> /\ Distinguished(f[k])
    PROVE  NameMatchesFilter(name, ParseGenericFilter(f)) <=>
             \E k \in DOMAIN f : k <= MAX_ADDITIONAL_FILTERS /\ Selects(f[k], name)
  <1> DEFINE n == Len(f)
             m == IF n < MAX_ADDITIONAL_FILTERS THEN n ELSE MAX_ADDITIONAL_FILTERS
  <1>1. n \in Nat /\ MAX_ADDITIONAL_FILTERS \in Nat /\ DOMAIN f = 1 .. n
    BY MaxFiltersAssumption
  <1>2. 1 .. m = {k \in DOMAIN f : k <= MAX_ADDITIONAL_FILTERS}
    BY <1>1
  <1>3. ParseGenericFilter(f) = [i \in 1 .. m |-> DetermineFilterType(f[i])]
    BY DEF ParseGenericFilter
  <1> HIDE DEF m, n
  <1>4. ASSUME NEW k \in DOMAIN f
        PROVE  FilterMatches(name, DetermineFilterType(f[k])) <=> Selects(f[k], name)
    <2>1. f[k] \in Seq(L) /\ f[k] # <<>> /\ Distinguished(f[k])
      BY <1>4
    <2> QED
      BY <2>1, FilterMeansToken
  <1>5. NameMatchesFilter(name, ParseGenericFilter(f)) <=>
          \E i \in 1 .. m : FilterMatches(name, DetermineFilterType(f[i]))
    BY <1>3 DEF NameMatchesFilter
  <1> QED
    BY <1>2, <1>4, <1>5

\* The two letters that are left out: "**", which a comment of determine_filter_type says
\* will also mean everything, selects the names that end with a star, and a letter with a
\* star behind it only itself.
THEOREM TwoLetters ==
    ASSUME NEW L, NEW c \in L, Star \in L, NEW name \in Seq(L)
    PROVE  /\ FilterMatches(name, DetermineFilterType(<<Star, Star>>)) <=>
                name # <<>> /\ name[Len(name)] = Star
           /\ c # Star => (FilterMatches(name, DetermineFilterType(<<c, Star>>)) <=>
                             name = <<c, Star>>)
  <1>1. Len(name) \in Nat /\ (name # <<>> <=> Len(name) # 0)
    BY EmptyLen
  <1>2. ASSUME NEW x
        PROVE  /\ <<x, Star>> \notin Specials /\ Len(<<x, Star>>) = 2
               /\ Head(<<x, Star>>) = x /\ <<x, Star>>[2] = Star
    BY DEF Specials, AllLayers, ImplicitLayers, ExplicitLayers
  <1>3. FilterMatches(name, DetermineFilterType(<<Star, Star>>)) <=>
          name # <<>> /\ name[Len(name)] = Star
    <2> DEFINE v == <<Star>>
               N == Len(name)
    <2>1. DetermineFilterType(<<Star, Star>>) = [type |-> "suffix", value |-> v]
      <3>1. Tail(<<Star, Star>>) = v
        OBVIOUS
      <3> QED
        BY <1>2, <3>1 DEF DetermineFilterType
    <2>2. v \in Seq(L) /\ Len(v) = 1
      OBVIOUS
    <2>3. FilterMatches(name, [type |-> "suffix", value |-> v]) <=>
            \E i \in 0 .. N : i + 1 <= N /\ Occurs(v, name, i) /\ i + 1 = N
      BY <2>2, MatchesPlace
    <2>4. (\E i \in 0 .. N : i + 1 <= N /\ Occurs(v, name, i) /\ i + 1 = N)
          <=> N # 0 /\ Occurs(v, name, N - 1)
      <3>1. ASSUME N # 0
            PROVE  N - 1 \in 0 .. N /\ (N - 1) + 1 = N
        BY <1>1, <3>1
      <3>2. ASSUME NEW i \in 0 .. N, i + 1 = N
            PROVE  N # 0 /\ i = N - 1
        BY <1>1, <3>2
      <3> HIDE DEF v, N
      <3> QED
        BY <1>1, <3>1, <3>2 DEF N
    <2>5. ASSUME N # 0
          PROVE  Occurs(v, name, N - 1) <=> name[N] = Star
      <3>1. (N - 1) + 1 = N /\ (N - 1) + Len(v) = N /\ N \in 1 .. Len(name)
        BY <1>1, <2>2, <2>5
      <3>2. SubSeq(name, N, N) = <<name[N]>>
        <4>1. name[N] \in L
          BY <3>1
        <4>2. /\ SubSeq(name, N, N) \in Seq(L) /\ Len(SubSeq(name, N, N)) = 1
              /\ SubSeq(name, N, N)[1] = name[N]
          BY <1>1, <4>1, SubSeqProperties
        <4>3. <<name[N]>> \in Seq(L) /\ Len(<<name[N]>>) = 1 /\ <<name[N]>>[1] = name[N]
          BY <4>1
        <4> DEFINE p == SubSeq(name, N, N)
                   q == <<name[N]>>
        <4>4. p \in Seq(L) /\ q \in Seq(L) /\ Len(p) = Len(q) /\ \A x \in 1 .. Len(p) : p[x] = q[x]
          BY <4>2, <4>3
        <4> HIDE DEF p, q
        <4>5. p = q
          BY <4>4, SeqEqual
        <4> QED
          BY <4>5 DEF p, q
      <3> QED
        BY <3>1, <3>2 DEF Occurs
    <2> HIDE DEF v
    <2> QED
      BY <1>1, <2>1, <2>3, <2>4, <2>5
  <1>4. ASSUME c # Star
        PROVE  FilterMatches(name, DetermineFilterType(<<c, Star>>)) <=> name = <<c, Star>>
    <2> DEFINE v == <<c, Star>>
               N == Len(name)
    <2>1. DetermineFilterType(<<c, Star>>) = [type |-> "fullname", value |-> v]
      BY <1>2, <1>4 DEF DetermineFilterType
    <2>2. v \in Seq(L) /\ Len(v) = 2
      OBVIOUS
    <2> HIDE DEF v
    <2>3. FilterMatches(name, [type |-> "fullname", value |-> v]) <=>
            \E i \in 0 .. N : i + 2 <= N /\ Occurs(v, name, i) /\ i = 0 /\ i + 2 = N
      BY <2>2, MatchesPlace
    <2>4. (\E i \in 0 .. N : i + 2 <= N /\ Occurs(v, name, i) /\ i = 0 /\ i + 2 = N)
          <=> N = 2 /\ Occurs(v, name, 0)
      <3>1. N \in Nat
        BY <1>1
      <3> HIDE DEF N
      <3> QED
        BY <3>1
    <2>5. N = 2 => (Occurs(v, name, 0) <=> name = v)
      BY <2>2, SubSeqFull DEF Occurs
    <2> QED
      BY <2>1, <2>2, <2>3, <2>4, <2>5 DEF v
  <1> QED
    BY <1>3, <1>4
=============================================================================
