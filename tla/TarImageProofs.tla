--------------------------- MODULE TarImageProofs ---------------------------
(***************************************************************************)
(* Theorems about TarImage: the image of an archive is a tree, whose walk  *)
(* hashes the NAR of that tree, and no two trees have one NAR.             *)
(***************************************************************************)
EXTENDS TarImage, SequenceTheorems, FiniteSetTheorems, WellFoundedInduction, TLAPS

-----------------------------------------------------------------------------
(* Induction and recursion over what has a rank.                           *)

\* The initial segments below numbers are finite sets, which strict inclusion
\* orders well.
LEMMA LeastNumber ==
  ASSUME NEW T0 \in SUBSET Nat, T0 # {}
  PROVE  \E x \in T0 : \A y \in T0 : x <= y
<1> DEFINE Below == {0..(x - 1) : x \in T0}
           R     == StrictSubsetOrdering(Nat)
<1>1. Below \subseteq FiniteSubsetsOf(Nat) /\ Below # {}
  <2> SUFFICES ASSUME NEW x \in T0 PROVE IsFiniteSet(0..(x - 1)) /\ 0..(x - 1) \subseteq Nat
    BY DEF FiniteSubsetsOf
  <2> QED
    BY FS_Interval
<1>2. IsWellFoundedOn(R, FiniteSubsetsOf(Nat))
  BY FS_StrictSubsetOrderingWellFounded
<1>3. PICK m \in Below : \A b \in Below : <<b, m>> \notin R
  <2> HIDE DEF Below, R
  <2> QED
    BY <1>1, <1>2, WFMin
<1>4. PICK x \in T0 : m = 0..(x - 1)
  OBVIOUS
<1>5. ASSUME NEW y \in T0, y < x PROVE FALSE
  <2>1. 0..(y - 1) \subseteq 0..(x - 1) /\ y \in 0..(x - 1) /\ y \notin 0..(y - 1)
    BY <1>5
  <2>2. 0..(y - 1) \subseteq Nat /\ 0..(x - 1) \subseteq Nat
    OBVIOUS
  <2>3. <<0..(y - 1), 0..(x - 1)>> \in R
    BY <2>1, <2>2 DEF StrictSubsetOrdering
  <2> QED
    BY <1>3, <1>4, <2>3
<1> QED
  BY <1>5

\* What holds of an element when it holds of all of lower rank holds of all.
LEMMA RankInduction ==
  ASSUME NEW S, NEW rank \in [S -> Nat], NEW G,
         \A s \in S : (\A r \in S : rank[r] < rank[s] => r \in G) => s \in G
  PROVE  S \subseteq G
<1> SUFFICES ASSUME S \ G # {} PROVE FALSE
  OBVIOUS
<1> DEFINE Ranks == {rank[s] : s \in S \ G}
<1>1. Ranks \in SUBSET Nat /\ Ranks # {}
  OBVIOUS
<1>2. PICK x \in Ranks : \A y \in Ranks : x <= y
  <2> HIDE DEF Ranks
  <2> QED
    BY <1>1, LeastNumber
<1>3. PICK s \in S \ G : x = rank[s]
  BY <1>2
<1>4. ASSUME NEW r \in S, rank[r] < rank[s] PROVE r \in G
  <2>1. r \notin G => rank[r] \in Ranks
    OBVIOUS
  <2>2. r \notin G => rank[s] <= rank[r]
    BY <1>2, <1>3, <2>1
  <2>3. rank[r] \in Nat /\ rank[s] \in Nat
    OBVIOUS
  <2> QED
    BY <1>4, <2>2, <2>3
<1> QED
  BY <1>3, <1>4

\* A definition D of values V in terms of those of lower rank, which is at
\* most N.
Ranked(S, V, rank, N, D) ==
  /\ V # {} /\ rank \in [S -> Nat] /\ N \in Nat
  /\ \A s \in S : rank[s] <= N
  /\ D \in [S \X [S -> V] -> V]
  /\ \A s \in S : \A f, g \in [S -> V] :
       (\A r \in S : rank[r] < rank[s] => f[r] = g[r]) => D[<<s, f>>] = D[<<s, g>>]

\* Such a definition defines a function.
LEMMA RankRecursion ==
  ASSUME NEW S, NEW V, NEW rank, NEW N, NEW D, Ranked(S, V, rank, N, D)
  PROVE  \E f \in [S -> V] : \A s \in S : f[s] = D[<<s, f>>]
<1> USE DEF Ranked
<1>0. PICK v0 \in V : TRUE
  OBVIOUS
<1> DEFINE Solved(f, n) == \A s \in S : rank[s] < n => f[s] = D[<<s, f>>]
           G == {n \in Nat : \E f \in [S -> V] : Solved(f, n)}
           id == [n \in Nat |-> n]
<1>1. ASSUME NEW n \in Nat, \A m \in Nat : id[m] < id[n] => m \in G PROVE n \in G
  <2>1. CASE n = 0
    <3> DEFINE f == [s \in S |-> v0]
    <3>1. f \in [S -> V] /\ Solved(f, 0)
      OBVIOUS
    <3> QED
      BY <2>1, <3>1
  <2>2. CASE n # 0
    <3>1. n - 1 \in Nat /\ n - 1 \in G
      <4>1. n - 1 \in Nat /\ n - 1 < n
        BY <2>2
      <4>2. id[n - 1] = n - 1 /\ id[n] = n
        BY <4>1
      <4> HIDE DEF G, id
      <4> QED
        BY <1>1, <4>1, <4>2
    <3>2. PICK f \in [S -> V] : Solved(f, n - 1)
      BY <3>1
    <3> DEFINE g == [s \in S |-> IF rank[s] < n - 1 THEN f[s] ELSE D[<<s, f>>]]
    <3>3. g \in [S -> V]
      OBVIOUS
    <3>4. ASSUME NEW s \in S, rank[s] < n PROVE g[s] = D[<<s, g>>]
      <4>1. g[s] = D[<<s, f>>]
        BY <3>2
      <4>2. ASSUME NEW r \in S, rank[r] < rank[s] PROVE f[r] = g[r]
        <5>1. rank[r] < n - 1
          BY <3>4, <4>2
        <5> QED
          BY <5>1
      <4> HIDE DEF g
      <4>3. D[<<s, f>>] = D[<<s, g>>]
        BY <3>3, <4>2
      <4> QED
        BY <4>1, <4>3
    <3>5. Solved(g, n)
      BY <3>4
    <3> HIDE DEF g, Solved
    <3> QED
      BY <3>3, <3>5
  <2> QED
    BY <2>1, <2>2
<1>2. id \in [Nat -> Nat]
  OBVIOUS
<1>3. Nat \subseteq G
  <2> HIDE DEF G, id
  <2> QED
    BY <1>1, <1>2, RankInduction
<1>4. PICK f \in [S -> V] : Solved(f, N + 1)
  <2>1. N + 1 \in G
    <3> HIDE DEF G
    <3> QED
      BY <1>3
  <2> QED
    BY <2>1
<1>5. ASSUME NEW s \in S PROVE f[s] = D[<<s, f>>]
  <2>1. rank[s] \in Nat /\ rank[s] <= N
    OBVIOUS
  <2> QED
    BY <1>4, <2>1
<1> QED
  BY <1>5

\* A path is what comes before its last name, and that name.
LEMMA FrontAndLast ==
  ASSUME NEW p \in Seq(Nat), p # << >>
  PROVE  Front(p) \in Seq(Nat) /\ Last(p) \in Nat /\ p = Append(Front(p), Last(p))
BY DEF Front, Last

\* Taking the last element off, and putting another one on.
LEMMA FrontOfSeq ==
  ASSUME NEW S, NEW s \in Seq(S), s # << >>
  PROVE  /\ Front(s) \in Seq(S) /\ Len(Front(s)) = Len(s) - 1
         /\ \A i \in 1..(Len(s) - 1) : Front(s)[i] = s[i]
         /\ Last(s) = s[Len(s)] /\ Last(s) \in S /\ Len(s) \in DOMAIN s
<1>1. Len(s) \in Nat \ {0} /\ DOMAIN s = 1..Len(s)
  OBVIOUS
<1>2. s[Len(s)] \in S
  BY <1>1
<1>3. Front(s) = [i \in 1..(Len(s) - 1) |-> s[i]]
  BY <1>1 DEF Front
<1> QED
  BY <1>1, <1>2, <1>3 DEF Last

-----------------------------------------------------------------------------
(* The pieces a NAR is made of.                                            *)

NarSymbols == {"nix-archive-1", "(", ")", "", "type", "name", "node", "target", "elsewhere",
               "directory", "regular", "symlink", "executable", "contents", "entry",
               "size", "byte", "pad"}
NarItems == NarSymbols \X Nat
Pieces == Seq(NarItems)

LEMMA PiecesConcat ==
  /\ << >> \in Pieces
  /\ \A s \in Pieces : Len(s) \in Nat /\ s \o << >> = s /\ << >> \o s = s
  /\ \A s, t \in Pieces : s \o t \in Pieces /\ Len(s \o t) = Len(s) + Len(t)
  /\ \A s, t, u \in Pieces : (s \o t) \o u = s \o (t \o u)
<1>1. \A s \in Pieces : Len(s) \in Nat /\ s \o << >> = s /\ << >> \o s = s
  BY LenProperties, ConcatEmptySeq DEF Pieces
<1>2. \A s, t \in Pieces : s \o t \in Pieces /\ Len(s \o t) = Len(s) + Len(t)
  BY ConcatProperties DEF Pieces
<1>3. \A s, t, u \in Pieces : (s \o t) \o u = s \o (t \o u)
  BY ConcatAssociative DEF Pieces
<1> QED
  BY <1>1, <1>2, <1>3, EmptySeq DEF Pieces

\* Putting pieces together, of which its laws are all that is to be seen.
Cat(s, t) == s \o t

LEMMA CatLaws ==
  /\ \A s, t \in Pieces : Cat(s, t) \in Pieces
  /\ \A s, t, u \in Pieces : Cat(Cat(s, t), u) = Cat(s, Cat(t, u))
BY PiecesConcat DEF Cat

\* What begins with pieces of one length is equal when piece and rest are.
LEMMA SameLength ==
  ASSUME NEW u \in Pieces, NEW v \in Pieces, Len(u) = Len(v),
         NEW x \in Pieces, NEW y \in Pieces, Cat(u, x) = Cat(v, y)
  PROVE  u = v /\ x = y
<1>0. u \o x = v \o y
  BY DEF Cat
<1>1. Len(u) \in Nat /\ Len(x) \in Nat /\ Len(y) \in Nat /\ Len(x) = Len(y)
  BY <1>0, PiecesConcat
<1>2. \A i \in 1..(Len(u) + Len(x)) : (u \o x)[i] = IF i <= Len(u) THEN u[i] ELSE x[i - Len(u)]
  BY ConcatProperties DEF Pieces
<1>3. \A i \in 1..(Len(u) + Len(x)) : (v \o y)[i] = IF i <= Len(u) THEN v[i] ELSE y[i - Len(u)]
  BY ConcatProperties, <1>1 DEF Pieces
<1>4. ASSUME NEW i \in 1..Len(u) PROVE u[i] = v[i]
  <2>1. i \in 1..(Len(u) + Len(x)) /\ i <= Len(u)
    BY <1>1
  <2> QED
    BY <1>0, <1>2, <1>3, <2>1
<1>5. ASSUME NEW i \in 1..Len(x) PROVE x[i] = y[i]
  <2>1. i + Len(u) \in 1..(Len(u) + Len(x)) /\ ~(i + Len(u) <= Len(u)) /\ (i + Len(u)) - Len(u) = i
    BY <1>1
  <2> QED
    BY <1>0, <1>2, <1>3, <2>1
<1> QED
  BY <1>1, <1>4, <1>5, SeqEqual DEF Pieces

LEMMA SamePiece ==
  ASSUME NEW u \in Pieces, NEW x \in Pieces, NEW y \in Pieces, Cat(u, x) = Cat(u, y)
  PROVE  x = y
BY SameLength

LEMMA FirstItem ==
  ASSUME NEW u \in Pieces, NEW x \in Pieces, Len(u) > 0
  PROVE  Cat(u, x)[1] = u[1]
<1>1. Len(u) \in Nat /\ Len(x) \in Nat
  BY PiecesConcat
<1>2. 1 \in 1..(Len(u) + Len(x)) /\ 1 <= Len(u)
  BY <1>1
<1> QED
  BY <1>2, ConcatProperties DEF Cat, Pieces

LEMMA Strings1 ==
  ASSUME NEW a \in NarSymbols
  PROVE  Strings(<<a>>) = << <<a, 0>> >> /\ Strings(<<a>>) \in Pieces /\ Len(Strings(<<a>>)) = 1
BY DEF Strings, Pieces, NarItems

LEMMA Strings2 ==
  ASSUME NEW a \in NarSymbols, NEW b \in NarSymbols
  PROVE  /\ Strings(<<a, b>>) = << <<a, 0>>, <<b, 0>> >>
         /\ Strings(<<a, b>>) \in Pieces /\ Len(Strings(<<a, b>>)) = 2
         /\ Strings(<<a, b>>)[1] = <<a, 0>> /\ Len(Strings(<<a, b>>)) > 0
BY DEF Strings, Pieces, NarItems

LEMMA Strings3 ==
  ASSUME NEW a \in NarSymbols, NEW b \in NarSymbols, NEW c \in NarSymbols
  PROVE  /\ Strings(<<a, b, c>>) = << <<a, 0>>, <<b, 0>>, <<c, 0>> >>
         /\ Strings(<<a, b, c>>) \in Pieces /\ Len(Strings(<<a, b, c>>)) = 3
BY DEF Strings, Pieces, NarItems

LEMMA Strings4 ==
  ASSUME NEW a \in NarSymbols, NEW b \in NarSymbols, NEW c \in NarSymbols, NEW d \in NarSymbols
  PROVE  /\ Strings(<<a, b, c, d>>) = << <<a, 0>>, <<b, 0>>, <<c, 0>>, <<d, 0>> >>
         /\ Strings(<<a, b, c, d>>) \in Pieces /\ Len(Strings(<<a, b, c, d>>)) = 4
BY DEF Strings, Pieces, NarItems

\* The head of an entry, whose fourth item is the name.
LEMMA EntryNamedIs ==
  ASSUME NEW n \in Nat
  PROVE  /\ EntryNamed(n) \in Pieces /\ Len(EntryNamed(n)) = 5
         /\ EntryNamed(n)[1] = <<"entry", 0>> /\ EntryNamed(n)[4] = <<"name", n>>
<1> DEFINE a == Strings(<<"entry", "(", "name">>)
           b == << <<"name", n>>, <<"node", 0>> >>
<1>1. a \in Pieces /\ Len(a) = 3 /\ a[1] = <<"entry", 0>>
  <2>1. "entry" \in NarSymbols /\ "(" \in NarSymbols /\ "name" \in NarSymbols
    BY DEF NarSymbols
  <2> QED
    BY <2>1, Strings3
<1>2. b \in Pieces /\ Len(b) = 2 /\ b[1] = <<"name", n>>
  <2>1. <<"name", n>> \in NarItems /\ <<"node", 0>> \in NarItems
    BY DEF NarItems, NarSymbols
  <2> QED
    BY <2>1 DEF Pieces
<1>3. EntryNamed(n) = a \o b
  BY DEF EntryNamed
<1> HIDE DEF a, b
<1>4. a \o b \in Pieces /\ Len(a \o b) = 5
  <2>1. a \in Pieces /\ b \in Pieces
    BY <1>1, <1>2
  <2>2. a \o b \in Pieces /\ Len(a \o b) = Len(a) + Len(b)
    BY <2>1, PiecesConcat
  <2> QED
    BY <1>1, <1>2, <2>2
<1>5. \A i \in 1..(Len(a) + Len(b)) : (a \o b)[i] = IF i <= Len(a) THEN a[i] ELSE b[i - Len(a)]
  BY <1>1, <1>2, ConcatProperties DEF Pieces
<1>6. (a \o b)[1] = a[1] /\ (a \o b)[4] = b[1]
  <2>1. Len(a) = 3 /\ Len(b) = 2
    BY <1>1, <1>2
  <2>2. 1 \in 1..(Len(a) + Len(b)) /\ 1 <= Len(a)
    BY <2>1
  <2>3. 4 \in 1..(Len(a) + Len(b)) /\ ~(4 <= Len(a)) /\ 4 - Len(a) = 1
    BY <2>1
  <2>4. (a \o b)[1] = a[1]
    BY <1>5, <2>2
  <2>5. (a \o b)[4] = b[4 - Len(a)]
    BY <1>5, <2>3
  <2> QED
    BY <2>3, <2>4, <2>5
<1> QED
  BY <1>1, <1>2, <1>3, <1>4, <1>6

\* Division by the alignment.
LEMMA Divided ==
  ASSUME NEW a \in Int, NEW m \in Nat \ {0}
  PROVE  a % m \in 0..(m - 1) /\ a \div m \in Int /\ a = m * (a \div m) + (a % m)
OBVIOUS

\* What is left of a multiple of the alignment, and something less than it.
LEMMA Left ==
  ASSUME NEW m \in Nat \ {0}, NEW q \in Int, NEW r \in 0..(m - 1)
  PROVE  (m * q + r) % m = r
OBVIOUS

\* The padding that NarHasher computes is the one number of bytes that aligns.
LEMMA PaddingIs ==
  ASSUME NEW n \in Nat
  PROVE  /\ Padding(n) \in 0..(NarBlock - 1)
         /\ (CHOOSE k \in 0..(NarBlock - 1) : (n + k) % NarBlock = 0) = Padding(n)
<1> DEFINE m == NarBlock
           q == n \div m
           r == n % m
           k0 == IF r = 0 THEN 0 ELSE m - r
<1>1. m \in Nat \ {0}
  BY TarAssumption
<1>2. r \in 0..(m - 1) /\ q \in Int /\ n = m * q + r
  BY <1>1, Divided
<1> HIDE DEF m, q, r
<1>3. k0 \in 0..(m - 1)
  BY <1>1, <1>2
<1>4. (m - r) % m = k0
  <2>1. CASE r = 0
    <3>1. m - r = m * 1 + 0
      BY <1>1, <2>1
    <3>2. (m * 1 + 0) % m = 0
      BY <1>1, Left
    <3> QED
      BY <2>1, <3>1, <3>2
  <2>2. CASE r # 0
    <3>1. m - r = m * 0 + k0
      BY <1>1, <1>2, <2>2
    <3>2. (m * 0 + k0) % m = k0
      BY <1>1, <1>3, Left
    <3> QED
      BY <3>1, <3>2
  <2> QED
    BY <2>1, <2>2
<1>5. Padding(n) = k0
  BY <1>4 DEF Padding, m, r
<1>6. (n + k0) % m = 0
  <2>1. \E p \in Int : n + k0 = m * p + 0
    <3>1. CASE r = 0
      BY <1>1, <1>2, <3>1
    <3>2. CASE r # 0
      <4>1. m * (q + 1) = m * q + m /\ q + 1 \in Int
        BY <1>1, <1>2
      <4>2. n + k0 = m * (q + 1) + 0
        BY <1>1, <1>2, <3>2, <4>1
      <4> QED
        BY <4>1, <4>2
    <3> QED
      BY <3>1, <3>2
  <2>2. 0 \in 0..(m - 1)
    BY <1>1
  <2> QED
    BY <1>1, <2>1, <2>2, Left
<1>7. ASSUME NEW k \in 0..(m - 1), (n + k) % m = 0 PROVE k = k0
  <2>1. CASE r + k <= m - 1
    <3>1. r + k \in 0..(m - 1) /\ n + k = m * q + (r + k)
      BY <1>1, <1>2, <2>1
    <3>2. (m * q + (r + k)) % m = r + k
      BY <1>1, <1>2, <3>1, Left
    <3> QED
      BY <1>2, <1>7, <3>1, <3>2
  <2>2. CASE r + k > m - 1
    <3>1. m * (q + 1) = m * q + m /\ q + 1 \in Int
      BY <1>1, <1>2
    <3>2. (r + k) - m \in 0..(m - 1) /\ n + k = m * (q + 1) + ((r + k) - m)
      BY <1>1, <1>2, <2>2, <3>1
    <3>3. (m * (q + 1) + ((r + k) - m)) % m = (r + k) - m
      BY <1>1, <3>1, <3>2, Left
    <3>4. r + k = m
      BY <1>1, <1>2, <1>7, <3>2, <3>3
    <3> QED
      BY <1>1, <1>2, <3>4
  <2> QED
    BY <1>1, <1>2, <2>1, <2>2
<1> QED
  BY <1>3, <1>5, <1>6, <1>7 DEF m

\* Strings one after the other.
LEMMA StringsSplit ==
  /\ DirClose = Strings(<<")">>) \o Strings(<<")">>)
  /\ DirOpen = Strings(<<"(", "type">>) \o Strings(<<"directory">>)
  /\ Begin = Strings(<<"nix-archive-1">>) \o (Strings(<<"(", "type">>) \o Strings(<<"directory">>))
  /\ Strings(<<"(", "type", "regular">>) = Strings(<<"(", "type">>) \o Strings(<<"regular">>)
  /\ Strings(<<"(", "type", "symlink", "target", "elsewhere">>)
       = Strings(<<"(", "type">>) \o Strings(<<"symlink", "target", "elsewhere">>)
<1>1. DirClose = Strings(<<")">>) \o Strings(<<")">>)
  BY DEF DirClose, Strings
<1>2. DirOpen = Strings(<<"(", "type">>) \o Strings(<<"directory">>)
  BY DEF DirOpen, Strings
<1>3. Begin = Strings(<<"nix-archive-1">>) \o (Strings(<<"(", "type">>) \o Strings(<<"directory">>))
  BY DEF Begin, Strings
<1>4. Strings(<<"(", "type", "regular">>) = Strings(<<"(", "type">>) \o Strings(<<"regular">>)
  BY DEF Strings
<1>5. Strings(<<"(", "type", "symlink", "target", "elsewhere">>)
        = Strings(<<"(", "type">>) \o Strings(<<"symlink", "target", "elsewhere">>)
  BY DEF Strings
<1> QED
  BY <1>1, <1>2, <1>3, <1>4, <1>5

\* What follows the mode of a file.
Repeated(item, n) == [i \in 1..n |-> <<item, 0>>]
SizeAndBytes(n) ==
  Strings(<<"contents">>) \o (<< <<"size", n>> >> \o (Repeated("byte", n) \o Repeated("pad", Padding(n))))

LEMMA RepeatedIs ==
  ASSUME NEW item \in NarSymbols, NEW n \in Nat
  PROVE  Repeated(item, n) \in Pieces
BY DEF Repeated, Pieces, NarItems

LEMMA ContentsAre ==
  ASSUME NEW n \in Nat
  PROVE  /\ SizeAndBytes(n) \in Pieces /\ Len(SizeAndBytes(n)) > 0 /\ SizeAndBytes(n)[1] = <<"contents", 0>>
         /\ Strings(<<"contents">>) \o FileContents(n) = SizeAndBytes(n)
         /\ << <<"size", n>> >> \in Pieces
         /\ Repeated("byte", n) \in Pieces /\ Repeated("pad", Padding(n)) \in Pieces
<1> DEFINE c == Strings(<<"contents">>)
           s == << <<"size", n>> >>
           b == Repeated("byte", n)
           d == Repeated("pad", Padding(n))
<1>1. "contents" \in NarSymbols /\ "size" \in NarSymbols /\ "byte" \in NarSymbols /\ "pad" \in NarSymbols
  BY DEF NarSymbols
<1>2. c \in Pieces /\ Len(c) = 1 /\ c[1] = <<"contents", 0>>
  BY <1>1, Strings1
<1>3. s \in Pieces
  BY <1>1 DEF Pieces, NarItems
<1>4. b \in Pieces /\ d \in Pieces
  <2>1. Padding(n) \in Nat
    BY PaddingIs, TarAssumption
  <2> QED
    BY <1>1, <2>1, RepeatedIs
<1>5. FileContents(n) = (s \o b) \o d
  BY DEF FileContents, Repeated
<1>6. SizeAndBytes(n) = c \o (s \o (b \o d))
  BY DEF SizeAndBytes
<1> HIDE DEF c, s, b, d
<1>7. b \o d \in Pieces /\ s \o (b \o d) \in Pieces /\ c \o (s \o (b \o d)) \in Pieces
  BY <1>2, <1>3, <1>4, PiecesConcat
<1>8. (s \o b) \o d = s \o (b \o d)
  BY <1>3, <1>4, PiecesConcat
<1>9. Len(c \o (s \o (b \o d))) = 1 + Len(s \o (b \o d)) /\ Len(s \o (b \o d)) \in Nat
  <2> DEFINE t == s \o (b \o d)
  <2>1. t \in Pieces
    BY <1>7
  <2> HIDE DEF t
  <2>2. Len(c \o t) = Len(c) + Len(t) /\ Len(t) \in Nat
    BY <1>2, <2>1, PiecesConcat
  <2>3. Len(c \o t) = 1 + Len(t) /\ Len(t) \in Nat
    BY <1>2, <2>2
  <2> QED
    BY <2>3 DEF t
<1>10. (c \o (s \o (b \o d)))[1] = c[1]
  BY <1>2, <1>7, FirstItem DEF Cat
<1>11. Len(SizeAndBytes(n)) > 0
  BY <1>6, <1>9
<1> QED
  BY <1>2, <1>3, <1>4, <1>5, <1>6, <1>7, <1>8, <1>10, <1>11 DEF c, s, b, d

LEMMA FileContentsAre ==
  ASSUME NEW n \in Nat
  PROVE  Strings(<<"contents">>) \in Pieces /\ FileContents(n) \in Pieces
<1> DEFINE s == << <<"size", n>> >>
           b == Repeated("byte", n)
           d == Repeated("pad", Padding(n))
<1>1. s \in Pieces /\ b \in Pieces /\ d \in Pieces
  BY ContentsAre
<1>2. FileContents(n) = (s \o b) \o d
  BY DEF FileContents, Repeated
<1> HIDE DEF s, b, d
<1>3. (s \o b) \o d \in Pieces
  BY <1>1, PiecesConcat
<1>4. Strings(<<"contents">>) \in Pieces
  BY Strings1 DEF NarSymbols
<1> QED
  BY <1>2, <1>3, <1>4

\* Contents of one size begin alike, of two sizes differ.
LEMMA SameContents ==
  ASSUME NEW m \in Nat, NEW n \in Nat, NEW x \in Pieces, NEW y \in Pieces,
         Cat(SizeAndBytes(m), x) = Cat(SizeAndBytes(n), y)
  PROVE  m = n /\ x = y
<1> DEFINE c == Strings(<<"contents">>)
           sm == << <<"size", m>> >>
           sn == << <<"size", n>> >>
           rm == Repeated("byte", m) \o Repeated("pad", Padding(m))
           rn == Repeated("byte", n) \o Repeated("pad", Padding(n))
<1>1. c \in Pieces
  BY Strings1 DEF NarSymbols
<1>2. sm \in Pieces /\ sn \in Pieces /\ rm \in Pieces /\ rn \in Pieces
  BY ContentsAre, PiecesConcat
<1>3. Len(sm) = 1 /\ Len(sn) = 1 /\ sm[1] = <<"size", m>> /\ sn[1] = <<"size", n>>
  OBVIOUS
<1>4. SizeAndBytes(m) = Cat(c, Cat(sm, rm)) /\ SizeAndBytes(n) = Cat(c, Cat(sn, rn))
  BY DEF Cat, SizeAndBytes
<1> HIDE DEF c, sm, sn, rm, rn
<1>5. /\ Cat(SizeAndBytes(m), x) = Cat(c, Cat(sm, Cat(rm, x)))
      /\ Cat(SizeAndBytes(n), y) = Cat(c, Cat(sn, Cat(rn, y)))
  BY <1>1, <1>2, <1>4, CatLaws
<1>6. Cat(sm, Cat(rm, x)) = Cat(sn, Cat(rn, y))
  <2>1. Cat(sm, Cat(rm, x)) \in Pieces /\ Cat(sn, Cat(rn, y)) \in Pieces
    BY <1>2, CatLaws
  <2> QED
    BY <1>1, <1>5, <2>1, SamePiece
<1>7. sm = sn /\ Cat(rm, x) = Cat(rn, y)
  <2>1. Cat(rm, x) \in Pieces /\ Cat(rn, y) \in Pieces
    BY <1>2, CatLaws
  <2>2. sm \in Pieces /\ sn \in Pieces /\ Len(sm) = Len(sn)
    BY <1>2, <1>3
  <2> QED
    BY <1>6, <2>1, <2>2, SameLength
<1>8. m = n
  <2>1. <<"size", m>> = <<"size", n>>
    BY <1>3, <1>7
  <2> QED
    BY <2>1
<1>9. x = y
  <2>1. rm = rn
    BY <1>8 DEF rm, rn
  <2> QED
    BY <1>2, <1>7, <2>1, SamePiece
<1> QED
  BY <1>8, <1>9

\* What is no directory is a link, or a file with its mode and size.
LEMMA NodesAre ==
  ASSUME NEW node \in TarNodes, node # Directory
  PROVE  \/ node = [kind |-> "link"]
         \/ /\ node.kind = "file" /\ node.exec \in BOOLEAN /\ node.size \in Nat
            /\ node = [kind |-> "file", exec |-> node.exec, size |-> node.size]
BY DEF TarNodes, Directory

LEMMA ExecutableIs ==
  ASSUME NEW node
  PROVE  /\ Executable(node) \in Pieces
         /\ node.exec => Len(Executable(node)) > 0 /\ Executable(node)[1] = <<"executable", 0>>
         /\ ~node.exec => Executable(node) = << >>
<1> DEFINE x == Strings(<<"executable", "">>)
<1>1. "executable" \in NarSymbols /\ "" \in NarSymbols
  BY DEF NarSymbols
<1>2. x \in Pieces /\ Len(x) > 0 /\ x[1] = <<"executable", 0>>
  BY <1>1, Strings2, Zenon
<1>3. << >> \in Pieces
  BY PiecesConcat
<1>4. Executable(node) = IF node.exec THEN x ELSE << >>
  BY DEF Executable
<1> HIDE DEF x
<1> QED
  BY <1>2, <1>3, <1>4

Symlink == Strings(<<"symlink", "target", "elsewhere">>)
Regular == Strings(<<"regular">>)

LEMMA LeafWords ==
  /\ Symlink \in Pieces /\ Len(Symlink) > 0 /\ Symlink[1] = <<"symlink", 0>>
  /\ Regular \in Pieces /\ Len(Regular) > 0 /\ Regular[1] = <<"regular", 0>>
<1>1. "symlink" \in NarSymbols /\ "target" \in NarSymbols /\ "elsewhere" \in NarSymbols /\ "regular" \in NarSymbols
  BY DEF NarSymbols
<1>2. Symlink \in Pieces /\ Len(Symlink) = 3 /\ Symlink[1] = <<"symlink", 0>>
  BY <1>1, Strings3 DEF Symlink
<1>3. Regular \in Pieces /\ Len(Regular) = 1 /\ Regular[1] = <<"regular", 0>>
  BY <1>1, Strings1 DEF Regular
<1> QED
  BY <1>2, <1>3

LEMMA LinkLeaf ==
  ASSUME NEW node, node.kind = "link"
  PROVE  Leaf(node) = Symlink
BY DEF Leaf, Symlink

LEMMA FileLeaf ==
  ASSUME NEW node, node.kind = "file", node.exec \in BOOLEAN, node.size \in Nat
  PROVE  Leaf(node) = Cat(Regular, Cat(Executable(node), SizeAndBytes(node.size)))
<1> DEFINE n == node.size
           x == Executable(node)
           c == Strings(<<"contents">>)
           s == << <<"size", n>> >>
           b == Repeated("byte", n)
           d == Repeated("pad", Padding(n))
<1>1. Leaf(node) = ((((Regular \o x) \o c) \o s) \o b) \o d
  <2>1. (CHOOSE k \in 0..(NarBlock - 1) : (n + k) % NarBlock = 0) = Padding(n)
    BY PaddingIs
  <2>2. d = [i \in 1..(CHOOSE k \in 0..(NarBlock - 1) : (n + k) % NarBlock = 0) |-> <<"pad", 0>>]
    BY <2>1 DEF Repeated
  <2> QED
    BY <2>2 DEF Leaf, Repeated, Regular
<1>2. x \in Pieces /\ s \in Pieces /\ b \in Pieces /\ d \in Pieces
  <2>1. Executable(node) \in Pieces
    BY ExecutableIs
  <2>2. n \in Nat
    OBVIOUS
  <2> QED
    BY <2>1, <2>2, ContentsAre
<1>3. c \in Pieces /\ Regular \in Pieces
  BY LeafWords, Strings1 DEF NarSymbols
<1>4. SizeAndBytes(n) = Cat(c, Cat(s, Cat(b, d)))
  BY DEF SizeAndBytes, Cat
<1>5. Leaf(node) = Cat(Cat(Cat(Cat(Cat(Regular, x), c), s), b), d)
  BY <1>1 DEF Cat
<1> HIDE DEF x, c, s, b, d
<1>6. Cat(Cat(Cat(Cat(Cat(Regular, x), c), s), b), d) = Cat(Cat(Cat(Regular, x), c), Cat(s, Cat(b, d)))
  <2> DEFINE a == Cat(Cat(Regular, x), c)
  <2>1. a \in Pieces
    BY <1>2, <1>3, CatLaws
  <2> HIDE DEF a
  <2>2. Cat(Cat(Cat(a, s), b), d) = Cat(a, Cat(s, Cat(b, d)))
    BY <1>2, <2>1, CatLaws
  <2> QED
    BY <2>2 DEF a
<1>7. Cat(Cat(Cat(Regular, x), c), Cat(s, Cat(b, d))) = Cat(Regular, Cat(x, Cat(c, Cat(s, Cat(b, d)))))
  <2> DEFINE r == Cat(s, Cat(b, d))
  <2>1. r \in Pieces
    BY <1>2, CatLaws
  <2> HIDE DEF r
  <2>2. Cat(Cat(Cat(Regular, x), c), r) = Cat(Regular, Cat(x, Cat(c, r)))
    BY <1>2, <1>3, <2>1, CatLaws
  <2> QED
    BY <2>2 DEF r
<1> QED
  BY <1>4, <1>5, <1>6, <1>7 DEF x

LEMMA LeafIs ==
  ASSUME NEW node \in TarNodes, node # Directory
  PROVE  Leaf(node) \in Pieces /\ Len(Leaf(node)) > 0
         /\ Leaf(node)[1] = IF node.kind = "link" THEN <<"symlink", 0>> ELSE <<"regular", 0>>
<1>1. CASE node = [kind |-> "link"]
  BY <1>1, LinkLeaf, LeafWords
<1>2. CASE node.kind = "file" /\ node.exec \in BOOLEAN /\ node.size \in Nat
  <2> DEFINE r == Cat(Executable(node), SizeAndBytes(node.size))
  <2>1. r \in Pieces
    <3>1. Executable(node) \in Pieces
      BY ExecutableIs
    <3>2. SizeAndBytes(node.size) \in Pieces
      BY <1>2, ContentsAre
    <3> QED
      BY <3>1, <3>2, CatLaws
  <2>2. Leaf(node) = Cat(Regular, r)
    BY <1>2, FileLeaf
  <2> HIDE DEF r
  <2>3. Leaf(node) \in Pieces /\ Leaf(node)[1] = <<"regular", 0>>
    <3>1. Regular \in Pieces /\ Len(Regular) > 0 /\ Regular[1] = <<"regular", 0>>
      BY LeafWords
    <3>2. Cat(Regular, r) \in Pieces
      BY <2>1, <3>1, CatLaws
    <3>3. Cat(Regular, r)[1] = Regular[1]
      BY <2>1, <3>1, FirstItem
    <3> QED
      BY <2>2, <3>1, <3>2, <3>3
  <2>4. Len(Cat(Regular, r)) > 0
    <3>1. Len(Regular \o r) = Len(Regular) + Len(r) /\ Len(Regular) \in Nat /\ Len(r) \in Nat
      BY <2>1, LeafWords, PiecesConcat
    <3>2. Len(Regular \o r) > 0
      BY <3>1, LeafWords
    <3> QED
      BY <3>2 DEF Cat
  <2> QED
    BY <1>2, <2>2, <2>3, <2>4
<1> QED
  BY <1>1, <1>2, NodesAre

\* No leaf begins another.
LEMMA SameLeaf ==
  ASSUME NEW a \in TarNodes, a # Directory, NEW b \in TarNodes, b # Directory,
         NEW x \in Pieces, NEW y \in Pieces, Cat(Leaf(a), x) = Cat(Leaf(b), y)
  PROVE  a = b /\ x = y
<1>1. a.kind = "link" <=> b.kind = "link"
  <2>1. Leaf(a) \in Pieces /\ Len(Leaf(a)) > 0 /\ Leaf(b) \in Pieces /\ Len(Leaf(b)) > 0
    BY LeafIs
  <2>2. Cat(Leaf(a), x)[1] = Leaf(a)[1] /\ Cat(Leaf(b), y)[1] = Leaf(b)[1]
    BY <2>1, FirstItem
  <2>3. Leaf(a)[1] = IF a.kind = "link" THEN <<"symlink", 0>> ELSE <<"regular", 0>>
    BY LeafIs
  <2>4. Leaf(b)[1] = IF b.kind = "link" THEN <<"symlink", 0>> ELSE <<"regular", 0>>
    BY LeafIs
  <2>5. <<"symlink", 0>> # <<"regular", 0>>
    OBVIOUS
  <2> QED
    BY <2>2, <2>3, <2>4, <2>5
<1>2. CASE a = [kind |-> "link"] /\ b = [kind |-> "link"]
  <2>1. Leaf(a) \in Pieces
    BY LeafIs
  <2> QED
    BY <1>2, <2>1, SamePiece
<1>3. CASE /\ a.kind = "file" /\ a.exec \in BOOLEAN /\ a.size \in Nat
           /\ a = [kind |-> "file", exec |-> a.exec, size |-> a.size]
           /\ b.kind = "file" /\ b.exec \in BOOLEAN /\ b.size \in Nat
           /\ b = [kind |-> "file", exec |-> b.exec, size |-> b.size]
  <2> DEFINE ea == Executable(a)
             eb == Executable(b)
             ca == SizeAndBytes(a.size)
             cb == SizeAndBytes(b.size)
  <2>1. Leaf(a) = Cat(Regular, Cat(ea, ca)) /\ Leaf(b) = Cat(Regular, Cat(eb, cb))
    BY <1>3, FileLeaf
  <2>2. /\ ea \in Pieces /\ eb \in Pieces
        /\ a.exec => Len(ea) > 0 /\ ea[1] = <<"executable", 0>>
        /\ b.exec => Len(eb) > 0 /\ eb[1] = <<"executable", 0>>
        /\ ~a.exec => ea = << >>
        /\ ~b.exec => eb = << >>
    BY ExecutableIs
  <2>3. /\ ca \in Pieces /\ Len(ca) > 0 /\ ca[1] = <<"contents", 0>>
        /\ cb \in Pieces /\ Len(cb) > 0 /\ cb[1] = <<"contents", 0>>
    BY <1>3, ContentsAre
  <2>4. Regular \in Pieces
    BY LeafWords
  <2>5. a.exec /\ b.exec => ea = eb
    BY DEF Executable
  <2> HIDE DEF ea, eb, ca, cb
  <2>6. Cat(ea, Cat(ca, x)) \in Pieces /\ Cat(eb, Cat(cb, y)) \in Pieces
    BY <2>2, <2>3, CatLaws
  <2>7. Cat(ea, Cat(ca, x)) = Cat(eb, Cat(cb, y))
    <3>1. Cat(Leaf(a), x) = Cat(Regular, Cat(ea, Cat(ca, x)))
      BY <2>1, <2>2, <2>3, <2>4, CatLaws
    <3>2. Cat(Leaf(b), y) = Cat(Regular, Cat(eb, Cat(cb, y)))
      BY <2>1, <2>2, <2>3, <2>4, CatLaws
    <3> QED
      BY <2>4, <2>6, <3>1, <3>2, SamePiece
  <2>8. Cat(ca, x) \in Pieces /\ Cat(cb, y) \in Pieces
    BY <2>3, CatLaws
  <2>9. Cat(ca, x)[1] = <<"contents", 0>> /\ Cat(cb, y)[1] = <<"contents", 0>>
    BY <2>3, FirstItem
  <2>10. \A z \in Pieces : Cat(<< >>, z) = z
    BY PiecesConcat DEF Cat
  <2>11. a.exec = b.exec
    <3>1. a.exec => Cat(ea, Cat(ca, x))[1] = <<"executable", 0>>
      BY <2>2, <2>8, FirstItem
    <3>2. b.exec => Cat(eb, Cat(cb, y))[1] = <<"executable", 0>>
      BY <2>2, <2>8, FirstItem
    <3>3. ~a.exec => Cat(ea, Cat(ca, x))[1] = <<"contents", 0>>
      BY <2>2, <2>8, <2>9, <2>10
    <3>4. ~b.exec => Cat(eb, Cat(cb, y))[1] = <<"contents", 0>>
      BY <2>2, <2>8, <2>9, <2>10
    <3>5. <<"executable", 0>> # <<"contents", 0>>
      OBVIOUS
    <3>6. a.exec <=> b.exec
      BY <2>7, <3>1, <3>2, <3>3, <3>4, <3>5
    <3> QED
      BY <1>3, <3>6
  <2>12. ea = eb
    BY <2>2, <2>5, <2>11
  <2>13. Cat(ca, x) = Cat(cb, y)
    BY <2>2, <2>7, <2>8, <2>12, SamePiece
  <2>14. a.size = b.size /\ x = y
    BY <1>3, <2>13, SameContents DEF ca, cb
  <2> QED
    BY <1>3, <2>11, <2>14
<1> QED
  BY <1>1, <1>2, <1>3, NodesAre

-----------------------------------------------------------------------------
(* The entries of a directory: EntriesOf names the function that its        *)
(* definition defines.                                                      *)

ListOf(e, nar, p, names) ==
  IF names = {} THEN << >>
  ELSE EntryNamed(Least(names)) \o nar[Append(p, Least(names))] \o Strings(<<")">>)
         \o e[names \ {Least(names)}]
Lists(e, nar, p, all) == e = [names \in SUBSET all |-> ListOf(e, nar, p, names)]

\* Names of finitely many nodes, whose NARs are there.
HaveNars(nar, p, all) ==
  all \in SUBSET Nat /\ IsFiniteSet(all) /\ \A n \in all : nar[Append(p, n)] \in Pieces

Closing == Strings(<<")">>)
Entry(name, nar, rest) == Cat(EntryNamed(name), Cat(nar, Cat(Closing, rest)))

LEMMA CloseIs == Closing \in Pieces /\ Len(Closing) = 1 /\ Closing[1] = <<")", 0>>
<1>1. ")" \in NarSymbols
  BY DEF NarSymbols
<1> QED
  BY <1>1, Strings1 DEF Closing

LEMMA LeastIs ==
  ASSUME NEW names \in SUBSET Nat, names # {}
  PROVE  Least(names) \in names /\ Least(names) \in Nat /\ \A m \in names : Least(names) <= m
<1>1. \E n \in names : \A m \in names : n <= m
  BY LeastNumber
<1>2. Least(names) \in names /\ \A m \in names : Least(names) <= m
  BY <1>1 DEF Least
<1> QED
  BY <1>2

LEMMA EntryIs ==
  ASSUME NEW n \in Nat, NEW c \in Pieces, NEW r \in Pieces
  PROVE  /\ Entry(n, c, r) \in Pieces
         /\ EntryNamed(n) \o c \o Strings(<<")">>) \o r = Entry(n, c, r)
<1>1. EntryNamed(n) \in Pieces /\ Closing \in Pieces
  BY EntryNamedIs, CloseIs
<1>2. Cat(Cat(Cat(EntryNamed(n), c), Closing), r) = Cat(EntryNamed(n), Cat(c, Cat(Closing, r)))
  BY <1>1, CatLaws
<1>3. Cat(EntryNamed(n), Cat(c, Cat(Closing, r))) \in Pieces
  BY <1>1, CatLaws
<1>4. EntryNamed(n) \o c \o Strings(<<")">>) \o r = Cat(Cat(Cat(EntryNamed(n), c), Closing), r)
  BY DEF Cat, Closing
<1> QED
  BY <1>2, <1>3, <1>4 DEF Entry

LEMMA ListedIs ==
  ASSUME NEW e, NEW nar, NEW p, NEW all, HaveNars(nar, p, all), NEW names \in SUBSET all,
         names # {} => e[names \ {Least(names)}] \in Pieces
  PROVE  /\ ListOf(e, nar, p, names) \in Pieces
         /\ names # {} =>
              ListOf(e, nar, p, names)
                = Entry(Least(names), nar[Append(p, Least(names))], e[names \ {Least(names)}])
<1>1. CASE names = {}
  <2>1. ListOf(e, nar, p, names) = << >>
    BY <1>1 DEF ListOf
  <2> QED
    BY <1>1, <2>1, PiecesConcat
<1>2. CASE names # {}
  <2> DEFINE l == Least(names)
             c == nar[Append(p, l)]
             r == e[names \ {l}]
  <2>1. l \in Nat /\ l \in all
    BY <1>2, LeastIs DEF HaveNars
  <2>2. c \in Pieces /\ r \in Pieces
    BY <1>2, <2>1 DEF HaveNars
  <2>3. ListOf(e, nar, p, names) = EntryNamed(l) \o c \o Strings(<<")">>) \o r
    BY <1>2 DEF ListOf
  <2> HIDE DEF l, c, r
  <2>4. Entry(l, c, r) \in Pieces /\ EntryNamed(l) \o c \o Strings(<<")">>) \o r = Entry(l, c, r)
    BY <2>1, <2>2, EntryIs
  <2> QED
    BY <2>3, <2>4 DEF l, c, r
<1> QED
  BY <1>1, <1>2

\* The size of a set of names, which the least of them taken away decreases.
LEMMA SizesAre ==
  ASSUME NEW all, IsFiniteSet(all)
  PROVE  /\ [names \in SUBSET all |-> Cardinality(names)] \in [SUBSET all -> Nat]
         /\ Cardinality(all) \in Nat
         /\ \A names \in SUBSET all : Cardinality(names) <= Cardinality(all)
         /\ \A names \in SUBSET all : \A n \in names :
              names \ {n} \in SUBSET all /\ Cardinality(names \ {n}) < Cardinality(names)
<1>1. \A names \in SUBSET all : IsFiniteSet(names) /\ Cardinality(names) <= Cardinality(all)
  BY FS_Subset
<1>2. \A names \in SUBSET all : Cardinality(names) \in Nat
  BY <1>1, FS_CardinalityType
<1>3. ASSUME NEW names \in SUBSET all, NEW n \in names
      PROVE  names \ {n} \in SUBSET all /\ Cardinality(names \ {n}) < Cardinality(names)
  <2>1. IsFiniteSet(names) /\ Cardinality(names) \in Nat
    BY <1>1, <1>2
  <2>2. Cardinality(names \ {n}) = Cardinality(names) - 1
    BY <2>1, FS_RemoveElement
  <2> QED
    BY <2>1, <2>2
<1> QED
  BY <1>1, <1>2, <1>3

LEMMA ListExists ==
  ASSUME NEW nar, NEW p, NEW all, HaveNars(nar, p, all)
  PROVE  \E e : Lists(e, nar, p, all)
<1> DEFINE S == SUBSET all
           rank == [names \in S |-> Cardinality(names)]
           N == Cardinality(all)
           D == [sf \in S \X [S -> Pieces] |-> ListOf(sf[2], nar, p, sf[1])]
<1>1. rank \in [S -> Nat] /\ N \in Nat /\ \A s \in S : rank[s] <= N
  BY SizesAre DEF HaveNars
<1>2. \A names \in S : names # {} => names \ {Least(names)} \in S /\ rank[names \ {Least(names)}] < rank[names]
  <2> SUFFICES ASSUME NEW names \in S, names # {}
               PROVE  names \ {Least(names)} \in S /\ rank[names \ {Least(names)}] < rank[names]
    OBVIOUS
  <2>1. Least(names) \in names
    BY LeastIs DEF HaveNars
  <2>2. names \ {Least(names)} \in SUBSET all /\ Cardinality(names \ {Least(names)}) < Cardinality(names)
    BY <2>1, SizesAre DEF HaveNars
  <2> QED
    BY <2>2
<1>3. \A names \in S : \A f \in [S -> Pieces] :
        D[<<names, f>>] = ListOf(f, nar, p, names) /\ ListOf(f, nar, p, names) \in Pieces
  <2> SUFFICES ASSUME NEW names \in S, NEW f \in [S -> Pieces]
               PROVE  D[<<names, f>>] = ListOf(f, nar, p, names) /\ ListOf(f, nar, p, names) \in Pieces
    OBVIOUS
  <2>1. D[<<names, f>>] = ListOf(f, nar, p, names)
    OBVIOUS
  <2>2. names # {} => f[names \ {Least(names)}] \in Pieces
    BY <1>2
  <2> QED
    BY <2>1, <2>2, ListedIs
<1>4. D \in [S \X [S -> Pieces] -> Pieces]
  BY <1>3
<1>5. \A s \in S : \A f, g \in [S -> Pieces] :
        (\A r \in S : rank[r] < rank[s] => f[r] = g[r]) => D[<<s, f>>] = D[<<s, g>>]
  <2> SUFFICES ASSUME NEW s \in S, NEW f \in [S -> Pieces], NEW g \in [S -> Pieces],
                      \A r \in S : rank[r] < rank[s] => f[r] = g[r]
               PROVE  ListOf(f, nar, p, s) = ListOf(g, nar, p, s)
    BY <1>3
  <2>1. s # {} => f[s \ {Least(s)}] = g[s \ {Least(s)}]
    BY <1>2
  <2> QED
    BY <2>1 DEF ListOf
<1>6. << >> \in Pieces
  BY PiecesConcat
<1> HIDE DEF S, rank, N, D
<1>7. PICK f \in [S -> Pieces] : \A s \in S : f[s] = D[<<s, f>>]
  <2>1. Pieces # {}
    BY <1>6
  <2>2. Ranked(S, Pieces, rank, N, D)
    BY <1>1, <1>4, <1>5, <2>1 DEF Ranked
  <2> QED
    BY <2>2, RankRecursion
<1>8. f = [names \in S |-> ListOf(f, nar, p, names)]
  BY <1>3, <1>7
<1> QED
  BY <1>8 DEF Lists, S


\* Lists agree on names whose NARs do.
LEMMA ListUnique ==
  ASSUME NEW e, NEW f, NEW nar, NEW mar, NEW p, NEW all, NEW some \in SUBSET all,
         HaveNars(nar, p, all), Lists(e, nar, p, all), Lists(f, mar, p, some),
         \A n \in some : nar[Append(p, n)] = mar[Append(p, n)]
  PROVE  \A names \in SUBSET some : e[names] = f[names]
<1> DEFINE S == SUBSET some
           rank == [names \in S |-> Cardinality(names)]
           G == {names \in S : e[names] = f[names]}
<1>1. some \in SUBSET Nat /\ IsFiniteSet(some)
  BY FS_Subset DEF HaveNars
<1>2. rank \in [S -> Nat]
  BY <1>1, SizesAre
<1>3. ASSUME NEW names \in S, \A r \in S : rank[r] < rank[names] => r \in G
      PROVE  names \in G
  <2>1. e[names] = ListOf(e, nar, p, names) /\ f[names] = ListOf(f, mar, p, names)
    <3>1. names \in SUBSET all
      OBVIOUS
    <3> QED
      BY <3>1 DEF Lists
  <2>2. CASE names = {}
    BY <2>1, <2>2 DEF ListOf
  <2>3. CASE names # {}
    <3>1. Least(names) \in names
      BY <1>1, <2>3, LeastIs
    <3>2. names \ {Least(names)} \in S /\ rank[names \ {Least(names)}] < rank[names]
      <4>1. /\ names \ {Least(names)} \in SUBSET some
            /\ Cardinality(names \ {Least(names)}) < Cardinality(names)
        BY <1>1, <3>1, SizesAre
      <4> QED
        BY <4>1
    <3>3. e[names \ {Least(names)}] = f[names \ {Least(names)}]
      BY <1>3, <3>2
    <3>4. nar[Append(p, Least(names))] = mar[Append(p, Least(names))]
      BY <3>1
    <3>5. ListOf(e, nar, p, names) = ListOf(f, mar, p, names)
      BY <3>3, <3>4 DEF ListOf
    <3> QED
      BY <2>1, <3>5
  <2> QED
    BY <2>2, <2>3
<1>4. S \subseteq G
  <2> HIDE DEF S, rank, G
  <2> QED
    BY <1>2, <1>3, RankInduction
<1> QED
  BY <1>4

LEMMA EntriesOfIs ==
  ASSUME NEW nar, NEW p, NEW all, HaveNars(nar, p, all)
  PROVE  \E e : Lists(e, nar, p, all) /\ EntriesOf(nar, p, all) = e[all]
<1> DEFINE h == CHOOSE e : Lists(e, nar, p, all)
<1>1. Lists(h, nar, p, all)
  BY ListExists
<1>2. EntriesOf(nar, p, all) = h[all]
  BY DEF EntriesOf, Lists, ListOf
<1> QED
  BY <1>1, <1>2

\* The entries of no nodes, and those of some: the least name's first.
LEMMA EntriesAre ==
  ASSUME NEW nar, NEW p, NEW all, HaveNars(nar, p, all)
  PROVE  /\ EntriesOf(nar, p, all) \in Pieces
         /\ all = {} => EntriesOf(nar, p, all) = << >>
         /\ all # {} =>
              /\ Least(all) \in all /\ HaveNars(nar, p, all \ {Least(all)})
              /\ EntriesOf(nar, p, all)
                   = Entry(Least(all), nar[Append(p, Least(all))],
                           EntriesOf(nar, p, all \ {Least(all)}))
<1> DEFINE S == SUBSET all
           rank == [names \in S |-> Cardinality(names)]
           G == {names \in S : EntriesOf(nar, p, names) \in Pieces}
<1>1. \A names \in S : HaveNars(nar, p, names)
  BY FS_Subset DEF HaveNars
<1>2. PICK e : Lists(e, nar, p, all) /\ EntriesOf(nar, p, all) = e[all]
  BY EntriesOfIs
<1>3. ASSUME NEW names \in S PROVE EntriesOf(nar, p, names) = e[names]
  <2>1. PICK f : Lists(f, nar, p, names) /\ EntriesOf(nar, p, names) = f[names]
    BY <1>1, EntriesOfIs
  <2>2. \A r \in SUBSET names : e[r] = f[r]
    BY <1>2, <2>1, ListUnique
  <2> QED
    BY <2>1, <2>2
<1>4. \A names \in S : e[names] = ListOf(e, nar, p, names)
  BY <1>2 DEF Lists
<1>5. rank \in [S -> Nat]
  BY SizesAre DEF HaveNars
<1>6. ASSUME NEW names \in S, names # {}
      PROVE  /\ Least(names) \in names
             /\ names \ {Least(names)} \in S /\ rank[names \ {Least(names)}] < rank[names]
  <2>1. Least(names) \in names
    BY <1>6, LeastIs DEF HaveNars
  <2>2. /\ names \ {Least(names)} \in SUBSET all
        /\ Cardinality(names \ {Least(names)}) < Cardinality(names)
    BY <2>1, SizesAre DEF HaveNars
  <2> QED
    BY <2>1, <2>2
<1>7. ASSUME NEW names \in S, \A r \in S : rank[r] < rank[names] => r \in G
      PROVE  names \in G
  <2>1. names # {} => e[names \ {Least(names)}] \in Pieces
    BY <1>3, <1>6, <1>7
  <2>2. ListOf(e, nar, p, names) \in Pieces
    BY <2>1, ListedIs
  <2> QED
    BY <1>3, <1>4, <2>2
<1>8. S \subseteq G
  <2> HIDE DEF S, rank, G
  <2> QED
    BY <1>5, <1>7, RankInduction
<1>9. all \in S
  OBVIOUS
<1>10. EntriesOf(nar, p, all) \in Pieces
  BY <1>8, <1>9
<1>11. CASE all = {}
  <2>1. EntriesOf(nar, p, all) = << >>
    BY <1>2, <1>4, <1>9, <1>11 DEF ListOf
  <2> QED
    BY <1>10, <1>11, <2>1
<1>12. CASE all # {}
  <2>1. Least(all) \in all /\ all \ {Least(all)} \in S
    BY <1>6, <1>9, <1>12
  <2>2. e[all \ {Least(all)}] = EntriesOf(nar, p, all \ {Least(all)})
    BY <1>3, <2>1
  <2>3. e[all \ {Least(all)}] \in Pieces
    BY <1>8, <2>1, <2>2
  <2>4. ListOf(e, nar, p, all)
          = Entry(Least(all), nar[Append(p, Least(all))], e[all \ {Least(all)}])
    BY <1>9, <1>12, <2>3, ListedIs
  <2> QED
    BY <1>1, <1>2, <1>4, <1>9, <1>10, <1>12, <2>1, <2>2, <2>4
<1> QED
  BY <1>11, <1>12

LEMMA EntriesAgree ==
  ASSUME NEW nar, NEW mar, NEW p, NEW all, HaveNars(nar, p, all),
         \A n \in all : nar[Append(p, n)] = mar[Append(p, n)]
  PROVE  EntriesOf(nar, p, all) = EntriesOf(mar, p, all)
<1>1. HaveNars(mar, p, all)
  BY DEF HaveNars
<1>2. PICK e : Lists(e, nar, p, all) /\ EntriesOf(nar, p, all) = e[all]
  BY EntriesOfIs
<1>3. PICK f : Lists(f, mar, p, all) /\ EntriesOf(mar, p, all) = f[all]
  BY <1>1, EntriesOfIs
<1>4. \A names \in SUBSET all : e[names] = f[names]
  BY <1>2, <1>3, ListUnique
<1> QED
  BY <1>2, <1>3, <1>4

-----------------------------------------------------------------------------
(* The NARs of the nodes of a tree: those below a node determine its own.   *)

Opening == Strings(<<"(", "type">>)
DirWord == Strings(<<"directory">>)

\* The nodes below another are one name longer, and as many as the tree has.
LEMMA ChildrenAre ==
  ASSUME NEW t, IsTree(t), NEW p \in DOMAIN t
  PROVE  /\ p \in Seq(Nat) /\ Len(p) \in Nat
         /\ ChildrenIn(t, p) \in SUBSET Nat /\ IsFiniteSet(ChildrenIn(t, p))
         /\ \A n \in ChildrenIn(t, p) :
              Append(p, n) \in DOMAIN t /\ Len(Append(p, n)) = Len(p) + 1
         /\ ChildrenIn(t, p) # {} => t[p] = Directory
<1> DEFINE Q == {q \in DOMAIN t : q # << >> /\ Front(q) = p}
<1>1. p \in Seq(Nat) /\ Len(p) \in Nat
  BY DEF IsTree
<1>2. ASSUME NEW q \in Q
      PROVE  Last(q) \in Nat /\ Append(p, Last(q)) \in DOMAIN t /\ Len(Append(p, Last(q))) = Len(p) + 1
             /\ t[p] = Directory
  <2>1. q \in Seq(Nat) /\ q # << >> /\ Front(q) = p /\ t[Front(q)] = Directory
    BY DEF IsTree
  <2>2. Last(q) \in Nat /\ q = Append(p, Last(q))
    BY <2>1, FrontAndLast
  <2>3. Len(Append(p, Last(q))) = Len(p) + 1
    BY <1>1, <2>2
  <2> QED
    BY <2>1, <2>2, <2>3
<1>3. ChildrenIn(t, p) = {Last(q) : q \in Q}
  BY DEF ChildrenIn
<1>4. IsFiniteSet(Q)
  <2>1. Q \subseteq DOMAIN t /\ IsFiniteSet(DOMAIN t)
    BY DEF IsTree
  <2> QED
    BY <2>1, FS_Subset
<1> HIDE DEF Q
<1>5. IsFiniteSet({Last(q) : q \in Q})
  <2> DEFINE T == {Last(q) : q \in Q}
             f == [q \in Q |-> Last(q)]
  <2>1. f \in Surjection(Q, T)
    BY DEF Surjection
  <2> HIDE DEF T, f
  <2>2. IsFiniteSet(T)
    BY <1>4, <2>1, FS_Surjection
  <2> QED
    BY <2>2 DEF T
<1> QED
  BY <1>1, <1>2, <1>3, <1>5

\* A node that is not the one on top is below one.
LEMMA IsChild ==
  ASSUME NEW t, IsTree(t), NEW p \in DOMAIN t, NEW n, Append(p, n) \in DOMAIN t
  PROVE  n \in ChildrenIn(t, p)
<1> DEFINE q == Append(p, n)
<1>1. p \in Seq(Nat) /\ q \in Seq(Nat)
  BY DEF IsTree
<1>2. n \in Nat
  <2>1. Len(p) \in Nat /\ Len(q) = Len(p) + 1 /\ q[Len(p) + 1] = n
    BY <1>1
  <2> QED
    BY <1>1, <2>1
<1>3. q # << >> /\ Front(q) = p /\ Last(q) = n
  BY <1>1, <1>2 DEF Front, Last
<1> QED
  BY <1>3 DEF ChildrenIn

LEMMA FiniteIsBounded ==
  ASSUME NEW F \in SUBSET Nat, IsFiniteSet(F)
  PROVE  \E N \in Nat : \A k \in F : k <= N
<1> DEFINE S == SUBSET F
           rank == [s \in S |-> Cardinality(s)]
           Bounds(s, N) == \A k \in s : k <= N
           G == {s \in S : \E N \in Nat : Bounds(s, N)}
<1>1. rank \in [S -> Nat]
  BY SizesAre
<1>2. ASSUME NEW s \in S, \A r \in S : rank[r] < rank[s] => r \in G
      PROVE  s \in G
  <2>1. CASE s = {}
    BY <2>1
  <2>2. CASE s # {}
    <3>1. PICK x \in s : x \in Nat
      BY <2>2
    <3>2. s \ {x} \in S /\ rank[s \ {x}] < rank[s]
      <4>1. s \ {x} \in SUBSET F /\ Cardinality(s \ {x}) < Cardinality(s)
        BY <3>1, SizesAre
      <4> QED
        BY <4>1
    <3>3. PICK N \in Nat : Bounds(s \ {x}, N)
      BY <1>2, <3>2
    <3>4. Bounds(s, IF N < x THEN x ELSE N)
      BY <3>1, <3>3
    <3> QED
      BY <3>1, <3>4
  <2> QED
    BY <2>1, <2>2
<1>3. S \subseteq G
  <2> HIDE DEF S, rank, G
  <2> QED
    BY <1>1, <1>2, RankInduction
<1>4. F \in G
  BY <1>3
<1> QED
  BY <1>4

\* No path of a finite tree is longer than some number.
LEMMA DepthOfTree ==
  ASSUME NEW t, IsTree(t)
  PROVE  \E N \in Nat : \A p \in DOMAIN t : Len(p) <= N
<1> DEFINE Lengths == {Len(p) : p \in DOMAIN t}
<1>1. Lengths \in SUBSET Nat
  BY ChildrenAre
<1>2. IsFiniteSet(Lengths)
  <2> DEFINE f == [p \in DOMAIN t |-> Len(p)]
  <2>1. f \in Surjection(DOMAIN t, Lengths)
    BY DEF Surjection
  <2>2. IsFiniteSet(DOMAIN t)
    BY DEF IsTree
  <2> HIDE DEF Lengths, f
  <2> QED
    BY <2>1, <2>2, FS_Surjection
<1>3. \E N \in Nat : \A k \in Lengths : k <= N
  <2> HIDE DEF Lengths
  <2> QED
    BY <1>1, <1>2, FiniteIsBounded
<1> QED
  BY <1>3

LEMMA WordsAre ==
  /\ Opening \in Pieces /\ Len(Opening) = 2
  /\ DirWord \in Pieces /\ Len(DirWord) = 1 /\ DirWord[1] = <<"directory", 0>>
<1>1. "(" \in NarSymbols /\ "type" \in NarSymbols /\ "directory" \in NarSymbols
  BY DEF NarSymbols
<1> QED
  BY <1>1, Strings1, Strings2 DEF Opening, DirWord

\* What a node's NAR says of it, between the same words.
Said(t, nar, p) ==
  IF t[p] = Directory THEN Cat(DirWord, EntriesOf(nar, p, ChildrenIn(t, p))) ELSE Leaf(t[p])

LEMMA NarOfNodeIs ==
  ASSUME NEW t, IsTree(t), NEW p \in DOMAIN t, NEW nar, HaveNars(nar, p, ChildrenIn(t, p))
  PROVE  /\ Said(t, nar, p) \in Pieces
         /\ NarOfNode(t, nar, p) \in Pieces
         /\ NarOfNode(t, nar, p) = Cat(Opening, Cat(Said(t, nar, p), Closing))
<1>1. Said(t, nar, p) \in Pieces
  <2>1. EntriesOf(nar, p, ChildrenIn(t, p)) \in Pieces
    BY EntriesAre
  <2>2. Cat(DirWord, EntriesOf(nar, p, ChildrenIn(t, p))) \in Pieces
    BY <2>1, WordsAre, CatLaws
  <2>3. t[p] # Directory => Leaf(t[p]) \in Pieces
    <3>1. t[p] \in TarNodes
      BY DEF IsTree
    <3> QED
      BY <3>1, LeafIs
  <2> QED
    BY <2>2, <2>3 DEF Said
<1>2. NarOfNode(t, nar, p) = Cat(Cat(Opening, Said(t, nar, p)), Closing)
  BY DEF NarOfNode, Said, Cat, Opening, DirWord, Closing
<1>3. Cat(Cat(Opening, Said(t, nar, p)), Closing) = Cat(Opening, Cat(Said(t, nar, p), Closing))
  BY <1>1, WordsAre, CloseIs, CatLaws
<1>4. Cat(Opening, Cat(Said(t, nar, p), Closing)) \in Pieces
  BY <1>1, WordsAre, CloseIs, CatLaws
<1> QED
  BY <1>1, <1>2, <1>3, <1>4

\* NARs that agree below a node agree on it.
LEMMA NodesAgree ==
  ASSUME NEW t, IsTree(t), NEW p \in DOMAIN t,
         NEW nar, NEW mar, HaveNars(nar, p, ChildrenIn(t, p)),
         \A n \in ChildrenIn(t, p) : nar[Append(p, n)] = mar[Append(p, n)]
  PROVE  NarOfNode(t, nar, p) = NarOfNode(t, mar, p)
<1>1. EntriesOf(nar, p, ChildrenIn(t, p)) = EntriesOf(mar, p, ChildrenIn(t, p))
  BY EntriesAgree
<1> QED
  BY <1>1 DEF NarOfNode


\* A rank in which what is below a node is before it.
LEMMA TreeRank ==
  ASSUME NEW t, IsTree(t)
  PROVE  \E rank \in [DOMAIN t -> Nat] : \E N \in Nat : \A p \in DOMAIN t :
           rank[p] <= N /\ \A n \in ChildrenIn(t, p) : rank[Append(p, n)] < rank[p]
<1>1. PICK N \in Nat : \A p \in DOMAIN t : Len(p) <= N
  BY DepthOfTree
<1> DEFINE rank == [p \in DOMAIN t |-> N - Len(p)]
<1>2. \A p \in DOMAIN t : rank[p] = N - Len(p) /\ rank[p] \in Nat /\ rank[p] <= N
  BY <1>1, ChildrenAre
<1>3. rank \in [DOMAIN t -> Nat]
  BY <1>2
<1>4. ASSUME NEW p \in DOMAIN t, NEW n \in ChildrenIn(t, p)
      PROVE  rank[Append(p, n)] < rank[p]
  <2>1. Append(p, n) \in DOMAIN t /\ Len(Append(p, n)) = Len(p) + 1 /\ Len(p) \in Nat
    BY ChildrenAre
  <2>2. rank[Append(p, n)] = N - (Len(p) + 1) /\ rank[p] = N - Len(p)
    BY <1>2, <2>1
  <2> QED
    BY <2>1, <2>2
<1> HIDE DEF rank
<1> QED
  BY <1>2, <1>3, <1>4

NodeNars(t) == CHOOSE nar : nar = [p \in DOMAIN t |-> NarOfNode(t, nar, p)]

LEMMA NarsExist ==
  ASSUME NEW t, IsTree(t)
  PROVE  \E nar : nar = [p \in DOMAIN t |-> NarOfNode(t, nar, p)]
<1> DEFINE S == DOMAIN t
           D == [sf \in S \X [S -> Pieces] |-> NarOfNode(t, sf[2], sf[1])]
<1>1. PICK rank \in [S -> Nat] : \E N \in Nat : \A p \in S :
        rank[p] <= N /\ \A n \in ChildrenIn(t, p) : rank[Append(p, n)] < rank[p]
  BY TreeRank
<1>2. PICK N \in Nat : \A p \in S :
        rank[p] <= N /\ \A n \in ChildrenIn(t, p) : rank[Append(p, n)] < rank[p]
  BY <1>1
<1>3. \A f \in [S -> Pieces] : \A p \in S : HaveNars(f, p, ChildrenIn(t, p))
  BY ChildrenAre DEF HaveNars
<1>4. \A p \in S : \A f \in [S -> Pieces] :
        D[<<p, f>>] = NarOfNode(t, f, p) /\ NarOfNode(t, f, p) \in Pieces
  <2> SUFFICES ASSUME NEW p \in S, NEW f \in [S -> Pieces]
               PROVE  D[<<p, f>>] = NarOfNode(t, f, p) /\ NarOfNode(t, f, p) \in Pieces
    OBVIOUS
  <2>1. D[<<p, f>>] = NarOfNode(t, f, p)
    OBVIOUS
  <2> QED
    BY <1>3, <2>1, NarOfNodeIs
<1>5. D \in [S \X [S -> Pieces] -> Pieces]
  BY <1>4
<1>6. ASSUME NEW p \in S, NEW f \in [S -> Pieces], NEW g \in [S -> Pieces],
             \A r \in S : rank[r] < rank[p] => f[r] = g[r]
      PROVE  D[<<p, f>>] = D[<<p, g>>]
  <2>1. \A n \in ChildrenIn(t, p) : f[Append(p, n)] = g[Append(p, n)]
    BY <1>2, <1>6, ChildrenAre
  <2>2. NarOfNode(t, f, p) = NarOfNode(t, g, p)
    BY <1>3, <2>1, NodesAgree
  <2> QED
    BY <1>4, <2>2
<1> HIDE DEF S, D
<1>7. Ranked(S, Pieces, rank, N, D)
  BY <1>1, <1>2, <1>5, <1>6, PiecesConcat DEF Ranked
<1>8. PICK f \in [S -> Pieces] : \A p \in S : f[p] = D[<<p, f>>]
  BY <1>7, RankRecursion
<1>9. f = [p \in S |-> NarOfNode(t, f, p)]
  BY <1>4, <1>8
<1> QED
  BY <1>9 DEF S

LEMMA NarsAre ==
  ASSUME NEW t, IsTree(t)
  PROVE  /\ NodeNars(t) \in [DOMAIN t -> Pieces]
         /\ \A p \in DOMAIN t : HaveNars(NodeNars(t), p, ChildrenIn(t, p))
         /\ \A p \in DOMAIN t : NodeNars(t)[p] = NarOfNode(t, NodeNars(t), p)
         /\ NarOf(t) = Cat(Strings(<<"nix-archive-1">>), NodeNars(t)[<< >>])
<1> DEFINE G == {p \in DOMAIN t : NodeNars(t)[p] \in Pieces}
<1>1. NodeNars(t) = [p \in DOMAIN t |-> NarOfNode(t, NodeNars(t), p)]
  BY NarsExist DEF NodeNars
<1>2. NarOf(t) = Cat(Strings(<<"nix-archive-1">>), NodeNars(t)[<< >>])
  BY DEF NarOf, NodeNars, Cat
<1>3. PICK rank \in [DOMAIN t -> Nat] :
        \A p \in DOMAIN t : \A n \in ChildrenIn(t, p) : rank[Append(p, n)] < rank[p]
  BY TreeRank
<1>4. ASSUME NEW p \in DOMAIN t, \A q \in DOMAIN t : rank[q] < rank[p] => q \in G
      PROVE  p \in G
  <2>1. HaveNars(NodeNars(t), p, ChildrenIn(t, p))
    BY <1>3, <1>4, ChildrenAre DEF HaveNars
  <2>2. NarOfNode(t, NodeNars(t), p) \in Pieces
    BY <2>1, NarOfNodeIs
  <2>3. NodeNars(t)[p] = NarOfNode(t, NodeNars(t), p)
    BY <1>1
  <2> QED
    BY <2>2, <2>3
<1>5. DOMAIN t \subseteq G
  <2> HIDE DEF G
  <2> QED
    BY <1>3, <1>4, RankInduction
<1>6. \A p \in DOMAIN t : NodeNars(t)[p] \in Pieces /\ NodeNars(t)[p] = NarOfNode(t, NodeNars(t), p)
  <2>1. \A p \in DOMAIN t : NodeNars(t)[p] = NarOfNode(t, NodeNars(t), p)
    BY <1>1
  <2> QED
    BY <1>5, <2>1
<1>7. NodeNars(t) \in [DOMAIN t -> Pieces]
  <2>1. DOMAIN NodeNars(t) = DOMAIN t
    BY <1>1
  <2> QED
    BY <1>1, <1>6, <2>1
<1>8. \A p \in DOMAIN t : HaveNars(NodeNars(t), p, ChildrenIn(t, p))
  BY <1>6, ChildrenAre DEF HaveNars
<1> QED
  BY <1>2, <1>6, <1>7, <1>8


-----------------------------------------------------------------------------
(* No two trees have one NAR.                                              *)

LEMMA EntryFirst ==
  ASSUME NEW l \in Nat, NEW c \in Pieces, NEW r \in Pieces, NEW z \in Pieces
  PROVE  /\ Cat(Entry(l, c, r), z) = Cat(EntryNamed(l), Cat(c, Cat(Closing, Cat(r, z))))
         /\ Cat(c, Cat(Closing, Cat(r, z))) \in Pieces
         /\ Cat(Entry(l, c, r), z)[1] = <<"entry", 0>>
<1> DEFINE h == EntryNamed(l)
           k == Cat(c, Cat(Closing, r))
<1>1. h \in Pieces /\ Len(h) > 0 /\ h[1] = <<"entry", 0>> /\ Closing \in Pieces
  BY EntryNamedIs, CloseIs
<1>2. k \in Pieces /\ Entry(l, c, r) = Cat(h, k)
  BY <1>1, CatLaws DEF Entry
<1> HIDE DEF h
<1>3. Cat(k, z) = Cat(c, Cat(Closing, Cat(r, z))) /\ Cat(k, z) \in Pieces
  <2>1. Closing \in Pieces
    BY <1>1
  <2> QED
    BY <2>1, CatLaws
<1> HIDE DEF k
<1>4. Cat(Entry(l, c, r), z) = Cat(h, Cat(k, z))
  BY <1>1, <1>2, CatLaws
<1>5. Cat(h, Cat(k, z))[1] = h[1]
  BY <1>1, <1>3, FirstItem
<1> QED
  BY <1>1, <1>3, <1>4, <1>5 DEF h

\* Two entries that begin alike have one name.
LEMMA SameEntry ==
  ASSUME NEW l \in Nat, NEW u \in Pieces, NEW m \in Nat, NEW v \in Pieces,
         Cat(EntryNamed(l), u) = Cat(EntryNamed(m), v)
  PROVE  l = m /\ u = v
<1>1. /\ EntryNamed(l) \in Pieces /\ Len(EntryNamed(l)) = 5 /\ EntryNamed(l)[4] = <<"name", l>>
      /\ EntryNamed(m) \in Pieces /\ Len(EntryNamed(m)) = 5 /\ EntryNamed(m)[4] = <<"name", m>>
  BY EntryNamedIs
<1>2. EntryNamed(l) = EntryNamed(m) /\ u = v
  BY <1>1, SameLength
<1>3. <<"name", l>> = <<"name", m>>
  BY <1>1, <1>2
<1>4. l = m
  BY <1>3
<1> QED
  BY <1>2, <1>4

\* What begins with the NAR of a node q in both is alike.
Alike(nar, mar, q) ==
  \A x, y \in Pieces : Cat(nar[q], x) = Cat(mar[q], y) => nar[q] = mar[q] /\ x = y

\* The entries of a and those of b are the same if a ")" ends both.
EntriesTell(nar, mar, p, a, b) ==
  \A x, y \in Pieces :
    Cat(EntriesOf(nar, p, a), Cat(Closing, x)) = Cat(EntriesOf(mar, p, b), Cat(Closing, y))
      => a = b /\ x = y /\ \A n \in a : nar[Append(p, n)] = mar[Append(p, n)]

LEMMA SameEntries ==
  ASSUME NEW nar, NEW mar, NEW p, NEW all, NEW others,
         HaveNars(nar, p, all), HaveNars(mar, p, others),
         \A n \in all \cap others : Alike(nar, mar, Append(p, n))
  PROVE  EntriesTell(nar, mar, p, all, others)
<1> DEFINE S == SUBSET all
           rank == [a \in S |-> Cardinality(a)]
           G == {a \in S : \A b \in SUBSET others : EntriesTell(nar, mar, p, a, b)}
<1>1. rank \in [S -> Nat]
  BY SizesAre DEF HaveNars
<1>2. (\A a \in SUBSET all : HaveNars(nar, p, a)) /\ (\A b \in SUBSET others : HaveNars(mar, p, b))
  BY FS_Subset DEF HaveNars
<1>3. \A z \in Pieces : Cat(<< >>, z) = z
  BY PiecesConcat DEF Cat
<1>4. ASSUME NEW a \in S, \A s \in S : rank[s] < rank[a] => s \in G,
             NEW b \in SUBSET others, NEW x \in Pieces, NEW y \in Pieces,
             Cat(EntriesOf(nar, p, a), Cat(Closing, x)) = Cat(EntriesOf(mar, p, b), Cat(Closing, y))
      PROVE  a = b /\ x = y /\ \A n \in a : nar[Append(p, n)] = mar[Append(p, n)]
  <2> DEFINE z == Cat(Closing, x)
             w == Cat(Closing, y)
             l == Least(a)
             m == Least(b)
             c == nar[Append(p, l)]
             d == mar[Append(p, m)]
             r == EntriesOf(nar, p, a \ {l})
             s == EntriesOf(mar, p, b \ {m})
  <2>1. Closing \in Pieces /\ z \in Pieces /\ w \in Pieces /\ z[1] = <<")", 0>> /\ w[1] = <<")", 0>>
    <3>1. Closing \in Pieces /\ Len(Closing) > 0 /\ Closing[1] = <<")", 0>>
      BY CloseIs
    <3>2. z \in Pieces /\ w \in Pieces
      BY <3>1, CatLaws
    <3>3. z[1] = Closing[1] /\ w[1] = Closing[1]
      BY <3>1, FirstItem
    <3> QED
      BY <3>1, <3>2, <3>3
  <2>2. /\ a = {} => EntriesOf(nar, p, a) = << >>
        /\ a # {} => l \in a /\ EntriesOf(nar, p, a) = Entry(l, c, r) /\ HaveNars(nar, p, a \ {l})
    BY <1>2, EntriesAre
  <2>3. /\ b = {} => EntriesOf(mar, p, b) = << >>
        /\ b # {} => m \in b /\ EntriesOf(mar, p, b) = Entry(m, d, s) /\ HaveNars(mar, p, b \ {m})
    BY <1>2, EntriesAre
  <2>4. a # {} => l \in Nat /\ c \in Pieces /\ r \in Pieces
    BY <1>2, <2>2, EntriesAre DEF HaveNars
  <2>5. b # {} => m \in Nat /\ d \in Pieces /\ s \in Pieces
    BY <1>2, <2>3, EntriesAre DEF HaveNars
  <2>6. Cat(EntriesOf(nar, p, a), z) = Cat(EntriesOf(mar, p, b), w)
    BY <1>4
  <2> HIDE DEF z, w, l, m, c, d, r, s
  <2>7. a = {} <=> b = {}
    <3>1. <<")", 0>> # <<"entry", 0>>
      OBVIOUS
    <3>2. a = {} => Cat(EntriesOf(nar, p, a), z)[1] = <<")", 0>>
      BY <1>3, <2>1, <2>2
    <3>3. b = {} => Cat(EntriesOf(mar, p, b), w)[1] = <<")", 0>>
      BY <1>3, <2>1, <2>3
    <3>4. a # {} => Cat(EntriesOf(nar, p, a), z)[1] = <<"entry", 0>>
      BY <2>1, <2>2, <2>4, EntryFirst
    <3>5. b # {} => Cat(EntriesOf(mar, p, b), w)[1] = <<"entry", 0>>
      BY <2>1, <2>3, <2>5, EntryFirst
    <3> QED
      BY <2>6, <3>1, <3>2, <3>3, <3>4, <3>5
  <2>8. CASE a = {} /\ b = {}
    <3>1. Cat(Closing, x) = Cat(Closing, y)
      BY <1>3, <2>1, <2>2, <2>3, <2>6, <2>8 DEF z, w
    <3>2. x = y
      BY <2>1, <3>1, SamePiece
    <3> QED
      BY <2>8, <3>2
  <2>9. CASE a # {} /\ b # {}
    <3>1. /\ l \in Nat /\ c \in Pieces /\ r \in Pieces /\ l \in a
          /\ m \in Nat /\ d \in Pieces /\ s \in Pieces /\ m \in b
      BY <2>2, <2>3, <2>4, <2>5, <2>9
    <3>2. /\ Cat(Entry(l, c, r), z) = Cat(EntryNamed(l), Cat(c, Cat(Closing, Cat(r, z))))
          /\ Cat(c, Cat(Closing, Cat(r, z))) \in Pieces
      BY <2>1, <3>1, EntryFirst
    <3>3. /\ Cat(Entry(m, d, s), w) = Cat(EntryNamed(m), Cat(d, Cat(Closing, Cat(s, w))))
          /\ Cat(d, Cat(Closing, Cat(s, w))) \in Pieces
      BY <2>1, <3>1, EntryFirst
    <3>4. Cat(Entry(l, c, r), z) = Cat(Entry(m, d, s), w)
      BY <2>2, <2>3, <2>6, <2>9
    <3>5. l = m /\ Cat(c, Cat(Closing, Cat(r, z))) = Cat(d, Cat(Closing, Cat(s, w)))
      <4> DEFINE u == Cat(c, Cat(Closing, Cat(r, z)))
                 v == Cat(d, Cat(Closing, Cat(s, w)))
      <4>1. u \in Pieces /\ v \in Pieces /\ Cat(EntryNamed(l), u) = Cat(EntryNamed(m), v)
        BY <3>2, <3>3, <3>4
      <4> HIDE DEF u, v
      <4>2. l = m /\ u = v
        BY <3>1, <4>1, SameEntry
      <4> QED
        BY <4>2 DEF u, v
    <3>6. Cat(r, z) \in Pieces /\ Cat(s, w) \in Pieces
      BY <2>1, <3>1, CatLaws
    <3>7. c = d /\ Cat(Closing, Cat(r, z)) = Cat(Closing, Cat(s, w))
      <4>1. Alike(nar, mar, Append(p, l))
        BY <3>1, <3>5
      <4>2. Cat(Closing, Cat(r, z)) \in Pieces /\ Cat(Closing, Cat(s, w)) \in Pieces
        BY <2>1, <3>6, CatLaws
      <4>3. c = nar[Append(p, l)] /\ d = mar[Append(p, l)]
        BY <3>5 DEF c, d
      <4> QED
        BY <3>5, <4>1, <4>2, <4>3 DEF Alike
    <3>8. Cat(r, z) = Cat(s, w)
      BY <2>1, <3>6, <3>7, SamePiece
    <3>9. a \ {l} \in G
      <4>1. a \ {l} \in SUBSET all /\ Cardinality(a \ {l}) < Cardinality(a)
        BY <3>1, SizesAre DEF HaveNars
      <4>2. a \ {l} \in S /\ rank[a \ {l}] < rank[a]
        BY <4>1
      <4> QED
        BY <1>4, <4>2
    <3>10. EntriesTell(nar, mar, p, a \ {l}, b \ {m})
      BY <3>9
    <3>11. a \ {l} = b \ {m} /\ x = y /\ \A n \in a \ {l} : nar[Append(p, n)] = mar[Append(p, n)]
      BY <3>8, <3>10 DEF EntriesTell, r, s, z, w
    <3>12. nar[Append(p, l)] = mar[Append(p, l)]
      BY <3>5, <3>7 DEF c, d
    <3> QED
      BY <3>1, <3>5, <3>11, <3>12
  <2> QED
    BY <2>7, <2>8, <2>9
<1>5. ASSUME NEW a \in S, \A s \in S : rank[s] < rank[a] => s \in G PROVE a \in G
  <2>1. \A b \in SUBSET others : EntriesTell(nar, mar, p, a, b)
    BY <1>4, <1>5 DEF EntriesTell
  <2> QED
    BY <2>1
<1>6. S \subseteq G
  <2> HIDE DEF S, rank, G
  <2> QED
    BY <1>1, <1>5, RankInduction
<1>7. all \in S /\ others \in SUBSET others
  OBVIOUS
<1> QED
  BY <1>6, <1>7


LEMMA SameNode ==
  ASSUME NEW t, IsTree(t), NEW u, IsTree(u), NEW p \in DOMAIN t, p \in DOMAIN u,
         \A n \in ChildrenIn(t, p) \cap ChildrenIn(u, p) : Alike(NodeNars(t), NodeNars(u), Append(p, n)),
         NEW x \in Pieces, NEW y \in Pieces, Cat(NodeNars(t)[p], x) = Cat(NodeNars(u)[p], y)
  PROVE  /\ x = y /\ t[p] = u[p] /\ NodeNars(t)[p] = NodeNars(u)[p]
         /\ ChildrenIn(t, p) = ChildrenIn(u, p)
         /\ \A n \in ChildrenIn(t, p) : NodeNars(t)[Append(p, n)] = NodeNars(u)[Append(p, n)]
<1> DEFINE nt == NodeNars(t)
           nu == NodeNars(u)
           ct == ChildrenIn(t, p)
           cu == ChildrenIn(u, p)
           st == Said(t, nt, p)
           su == Said(u, nu, p)
           z == Cat(Closing, x)
           w == Cat(Closing, y)
           et == EntriesOf(nt, p, ct)
           eu == EntriesOf(nu, p, cu)
<1>1. HaveNars(nt, p, ct) /\ HaveNars(nu, p, cu)
  BY NarsAre
<1>2. nt[p] = NarOfNode(t, nt, p) /\ nu[p] = NarOfNode(u, nu, p)
  BY NarsAre
<1>3. /\ st \in Pieces /\ nt[p] = Cat(Opening, Cat(st, Closing))
      /\ su \in Pieces /\ nu[p] = Cat(Opening, Cat(su, Closing))
  BY <1>1, <1>2, NarOfNodeIs
<1>4. /\ st = IF t[p] = Directory THEN Cat(DirWord, et) ELSE Leaf(t[p])
      /\ su = IF u[p] = Directory THEN Cat(DirWord, eu) ELSE Leaf(u[p])
  BY DEF Said
<1>5. et \in Pieces /\ eu \in Pieces
  BY <1>1, EntriesAre
<1>6. t[p] \in TarNodes /\ u[p] \in TarNodes
  BY DEF IsTree
<1>7. t[p] # Directory => ct = {}
  BY ChildrenAre
<1>8. u[p] # Directory => cu = {}
  BY ChildrenAre
<1>9. Opening \in Pieces /\ DirWord \in Pieces /\ Closing \in Pieces /\ Len(DirWord) > 0
      /\ DirWord[1] = <<"directory", 0>>
  BY WordsAre, CloseIs
<1>10. EntriesTell(nt, nu, p, ct, cu)
  <2> HIDE DEF nt, nu, ct, cu
  <2>1. \A n \in ct \cap cu : Alike(nt, nu, Append(p, n))
    BY DEF nt, nu, ct, cu
  <2> QED
    BY <1>1, <2>1, SameEntries
<1>11. Cat(nt[p], x) = Cat(nu[p], y)
  OBVIOUS
<1>13. t[p] = u[p] /\ ct = cu /\ (\A n \in ct : nt[Append(p, n)] = nu[Append(p, n)]) => st = su
  <2> SUFFICES ASSUME t[p] = u[p], ct = cu, \A n \in ct : nt[Append(p, n)] = nu[Append(p, n)]
               PROVE  st = su
    OBVIOUS
  <2> HIDE DEF nt, nu, ct, cu
  <2>1. EntriesOf(nt, p, ct) = EntriesOf(nu, p, ct)
    BY <1>1, EntriesAgree
  <2> QED
    BY <1>4, <2>1
<1> HIDE DEF nt, nu, ct, cu, st, su, z, w, et, eu
<1>14. z \in Pieces /\ w \in Pieces
  BY <1>9, CatLaws DEF z, w
<1>15. Cat(st, z) = Cat(su, w)
  <2>1. Cat(Cat(Opening, Cat(st, Closing)), x) = Cat(Opening, Cat(st, Cat(Closing, x)))
    BY <1>3, <1>9, CatLaws
  <2>2. Cat(Cat(Opening, Cat(su, Closing)), y) = Cat(Opening, Cat(su, Cat(Closing, y)))
    BY <1>3, <1>9, CatLaws
  <2>3. Cat(Opening, Cat(st, z)) = Cat(Opening, Cat(su, w))
    BY <1>3, <1>11, <2>1, <2>2 DEF z, w
  <2>4. Cat(st, z) \in Pieces /\ Cat(su, w) \in Pieces
    BY <1>3, <1>14, CatLaws
  <2> QED
    BY <1>9, <2>3, <2>4, SamePiece
<1>16. x = y \/ z # w
  BY <1>9, SamePiece DEF z, w
<1>17. t[p] = Directory <=> u[p] = Directory
  <2>1. t[p] = Directory => Cat(st, z)[1] = <<"directory", 0>>
    <3>1. Cat(Cat(DirWord, et), z) = Cat(DirWord, Cat(et, z)) /\ Cat(et, z) \in Pieces
      BY <1>5, <1>9, <1>14, CatLaws
    <3>2. Cat(DirWord, Cat(et, z))[1] = DirWord[1]
      BY <1>9, <3>1, FirstItem
    <3> QED
      BY <1>4, <1>9, <3>1, <3>2
  <2>2. u[p] = Directory => Cat(su, w)[1] = <<"directory", 0>>
    <3>1. Cat(Cat(DirWord, eu), w) = Cat(DirWord, Cat(eu, w)) /\ Cat(eu, w) \in Pieces
      BY <1>5, <1>9, <1>14, CatLaws
    <3>2. Cat(DirWord, Cat(eu, w))[1] = DirWord[1]
      BY <1>9, <3>1, FirstItem
    <3> QED
      BY <1>4, <1>9, <3>1, <3>2
  <2>3. ASSUME NEW node \in TarNodes, node # Directory, NEW v \in Pieces
        PROVE  Cat(Leaf(node), v)[1] # <<"directory", 0>>
    <3>1. Leaf(node) \in Pieces /\ Len(Leaf(node)) > 0
          /\ Leaf(node)[1] = IF node.kind = "link" THEN <<"symlink", 0>> ELSE <<"regular", 0>>
      BY <2>3, LeafIs
    <3>2. Cat(Leaf(node), v)[1] = Leaf(node)[1]
      BY <3>1, FirstItem
    <3>3. <<"symlink", 0>> # <<"directory", 0>> /\ <<"regular", 0>> # <<"directory", 0>>
      OBVIOUS
    <3> QED
      BY <3>1, <3>2, <3>3
  <2>4. t[p] # Directory => Cat(st, z)[1] # <<"directory", 0>>
    BY <1>4, <1>6, <1>14, <2>3
  <2>5. u[p] # Directory => Cat(su, w)[1] # <<"directory", 0>>
    BY <1>4, <1>6, <1>14, <2>3
  <2> QED
    BY <1>15, <2>1, <2>2, <2>4, <2>5
<1>18. t[p] = u[p] /\ z = w /\ ct = cu /\ \A n \in ct : nt[Append(p, n)] = nu[Append(p, n)]
  <2>1. CASE t[p] = Directory /\ u[p] = Directory
    <3>1. Cat(Cat(DirWord, et), z) = Cat(DirWord, Cat(et, z)) /\ Cat(et, z) \in Pieces
      BY <1>5, <1>9, <1>14, CatLaws
    <3>2. Cat(Cat(DirWord, eu), w) = Cat(DirWord, Cat(eu, w)) /\ Cat(eu, w) \in Pieces
      BY <1>5, <1>9, <1>14, CatLaws
    <3>3. Cat(DirWord, Cat(et, z)) = Cat(DirWord, Cat(eu, w))
      BY <1>4, <1>15, <2>1, <3>1, <3>2
    <3>4. Cat(et, z) = Cat(eu, w)
      BY <1>9, <3>1, <3>2, <3>3, SamePiece
    <3>5. ct = cu /\ x = y /\ \A n \in ct : nt[Append(p, n)] = nu[Append(p, n)]
      BY <1>10, <3>4 DEF EntriesTell, et, eu, z, w
    <3> QED
      BY <2>1, <3>5 DEF z, w
  <2>2. CASE t[p] # Directory /\ u[p] # Directory
    <3>1. Cat(Leaf(t[p]), z) = Cat(Leaf(u[p]), w)
      BY <1>4, <1>15, <2>2
    <3>2. t[p] = u[p] /\ z = w
      BY <1>6, <1>14, <2>2, <3>1, SameLeaf
    <3>3. ct = {} /\ cu = {}
      BY <1>7, <1>8, <2>2 DEF ct, cu
    <3> QED
      BY <3>2, <3>3
  <2> QED
    BY <1>17, <2>1, <2>2
<1>19. x = y /\ nt[p] = nu[p]
  BY <1>3, <1>13, <1>16, <1>18
<1> QED
  BY <1>18, <1>19 DEF nt, nu, ct, cu


LEMMA NodesAreAlike ==
  ASSUME NEW t, IsTree(t), NEW u, IsTree(u)
  PROVE  \A p \in DOMAIN t \cap DOMAIN u : Alike(NodeNars(t), NodeNars(u), p)
<1> DEFINE G == {p \in DOMAIN t : p \in DOMAIN u => Alike(NodeNars(t), NodeNars(u), p)}
<1>1. PICK rank \in [DOMAIN t -> Nat] :
        \A p \in DOMAIN t : \A n \in ChildrenIn(t, p) : rank[Append(p, n)] < rank[p]
  BY TreeRank
<1>2. ASSUME NEW p \in DOMAIN t, \A q \in DOMAIN t : rank[q] < rank[p] => q \in G, p \in DOMAIN u
      PROVE  Alike(NodeNars(t), NodeNars(u), p)
  <2>1. ASSUME NEW n \in ChildrenIn(t, p) \cap ChildrenIn(u, p)
        PROVE  Alike(NodeNars(t), NodeNars(u), Append(p, n))
    <3>1. Append(p, n) \in DOMAIN t /\ Append(p, n) \in DOMAIN u
      BY <1>2, ChildrenAre
    <3>2. Append(p, n) \in G
      BY <1>1, <1>2, <3>1
    <3> QED
      BY <3>1, <3>2
  <2>2. ASSUME NEW x \in Pieces, NEW y \in Pieces, Cat(NodeNars(t)[p], x) = Cat(NodeNars(u)[p], y)
        PROVE  NodeNars(t)[p] = NodeNars(u)[p] /\ x = y
    BY <1>2, <2>1, <2>2, SameNode
  <2> QED
    BY <2>2 DEF Alike
<1>3. ASSUME NEW p \in DOMAIN t, \A q \in DOMAIN t : rank[q] < rank[p] => q \in G
      PROVE  p \in G
  BY <1>2, <1>3
<1>4. DOMAIN t \subseteq G
  <2> HIDE DEF G
  <2> QED
    BY <1>1, <1>3, RankInduction
<1> QED
  BY <1>4

\* A tree whose NAR is that of another is in it.
LEMMA IsInTheOther ==
  ASSUME NEW t, IsTree(t), NEW u, IsTree(u), NarOf(t) = NarOf(u)
  PROVE  \A p \in DOMAIN t : p \in DOMAIN u /\ t[p] = u[p]
<1> DEFINE rank == [p \in DOMAIN t |-> Len(p)]
           G == {p \in DOMAIN t : p \in DOMAIN u /\ NodeNars(t)[p] = NodeNars(u)[p]}
<1>1. rank \in [DOMAIN t -> Nat] /\ \A p \in DOMAIN t : rank[p] = Len(p)
  BY ChildrenAre
<1>2. ASSUME NEW p \in DOMAIN t, p \in G
      PROVE  /\ t[p] = u[p] /\ ChildrenIn(t, p) = ChildrenIn(u, p)
             /\ \A n \in ChildrenIn(t, p) : NodeNars(t)[Append(p, n)] = NodeNars(u)[Append(p, n)]
  <2>1. p \in DOMAIN u /\ NodeNars(t)[p] = NodeNars(u)[p]
    BY <1>2
  <2>2. \A n \in ChildrenIn(t, p) \cap ChildrenIn(u, p) : Alike(NodeNars(t), NodeNars(u), Append(p, n))
    BY <2>1, ChildrenAre, NodesAreAlike
  <2>3. << >> \in Pieces /\ Cat(NodeNars(t)[p], << >>) = Cat(NodeNars(u)[p], << >>)
    BY <2>1, PiecesConcat
  <2> QED
    BY <2>1, <2>2, <2>3, SameNode
<1>3. << >> \in G
  <2>1. << >> \in DOMAIN t /\ << >> \in DOMAIN u
    BY DEF IsTree
  <2>2. NodeNars(t)[<< >>] \in Pieces /\ NodeNars(u)[<< >>] \in Pieces
    BY <2>1, NarsAre
  <2>3. Strings(<<"nix-archive-1">>) \in Pieces
    BY Strings1 DEF NarSymbols
  <2>4. Cat(Strings(<<"nix-archive-1">>), NodeNars(t)[<< >>]) = Cat(Strings(<<"nix-archive-1">>), NodeNars(u)[<< >>])
    BY NarsAre
  <2>5. NodeNars(t)[<< >>] = NodeNars(u)[<< >>]
    BY <2>2, <2>3, <2>4, SamePiece
  <2> QED
    BY <2>1, <2>5
<1>4. ASSUME NEW p \in DOMAIN t, \A q \in DOMAIN t : rank[q] < rank[p] => q \in G
      PROVE  p \in G
  <2>1. CASE p = << >>
    BY <1>3, <2>1
  <2>2. CASE p # << >>
    <3> DEFINE f == Front(p)
               n == Last(p)
    <3>1. p \in Seq(Nat) /\ f \in DOMAIN t
      BY <2>2 DEF IsTree
    <3>2. p = Append(f, n) /\ n \in Nat
      BY <2>2, <3>1, FrontAndLast
    <3> HIDE DEF f, n
    <3>3. n \in ChildrenIn(t, f)
      BY <3>1, <3>2, IsChild
    <3>4. Len(f) \in Nat /\ Len(p) = Len(f) + 1
      BY <3>1, <3>2, <3>3, ChildrenAre
    <3>5. f \in G
      <4>1. rank[f] < rank[p]
        BY <1>1, <3>1, <3>4
      <4> HIDE DEF G, rank
      <4> QED
        BY <1>4, <3>1, <4>1
    <3>6. f \in DOMAIN u
      BY <3>5
    <3>7. n \in ChildrenIn(u, f) /\ NodeNars(t)[Append(f, n)] = NodeNars(u)[Append(f, n)]
      BY <1>2, <3>1, <3>3, <3>5
    <3>8. p \in DOMAIN u
      BY <3>2, <3>6, <3>7, ChildrenAre
    <3> QED
      BY <3>2, <3>7, <3>8
  <2> QED
    BY <2>1, <2>2
<1>5. DOMAIN t \subseteq G
  <2> HIDE DEF G, rank
  <2> QED
    BY <1>1, <1>4, RankInduction
<1> QED
  BY <1>2, <1>5

\* A NAR is that of one tree: names, kinds, modes and sizes are all in it, and
\* what opens is closed (tarball.rs:25-108).
THEOREM NarIsUnique ==
  ASSUME NEW t, IsTree(t), NEW u, IsTree(u), NarOf(t) = NarOf(u)
  PROVE  t = u
<1>1. \A p \in DOMAIN t : p \in DOMAIN u /\ t[p] = u[p]
  BY IsInTheOther
<1>2. \A p \in DOMAIN u : p \in DOMAIN t
  BY IsInTheOther
<1>3. t \in [DOMAIN t -> TarNodes] /\ u \in [DOMAIN u -> TarNodes]
  BY DEF IsTree
<1>4. DOMAIN t = DOMAIN u
  BY <1>1, <1>2
<1> QED
  BY <1>1, <1>3, <1>4

-----------------------------------------------------------------------------
(* TarImage keeps its types.                                               *)

TarInv == TarTypeOK /\ TreesAreKept /\ WalkIsInTheImage

\* The names in a directory are numbers, and lead to what is written.
LEMMA ChildIsWritten ==
  ASSUME TreesAreKept, NEW p \in DOMAIN written, NEW name \in ChildrenIn(written, p)
  PROVE  name \in Nat /\ Append(p, name) \in DOMAIN written
<1>1. PICK q \in DOMAIN written : q # << >> /\ Front(q) = p /\ name = Last(q)
  BY DEF ChildrenIn
<1>2. q \in Seq(Nat)
  BY DEF TreesAreKept
<1> QED
  BY <1>1, <1>2, FrontAndLast

LEMMA FrameInTheImage ==
  ASSUME TreesAreKept, NEW p \in DOMAIN written
  PROVE  /\ Frame(p) \in [path : DOMAIN written, todo : SUBSET Nat]
         /\ Frame(p).path = p /\ Frame(p).todo = ChildrenIn(written, p)
BY ChildIsWritten DEF Frame

LEMMA InitTarInv == TarInit => TarInv
<1> SUFFICES ASSUME TarInit PROVE TarInv
  OBVIOUS
<1>1. << >> \in Seq(Nat)
  OBVIOUS
<1>2. DOMAIN written = {<< >>} /\ written[<< >>] = Directory /\ stack = << >>
  BY DEF TarInit
<1>3. stack \in Seq([path : DOMAIN written, todo : SUBSET Nat])
  BY <1>2
<1>4. packing = "tar" /\ sawRoot = FALSE /\ archive \in Archives /\ DOMAIN stack = {}
  BY <1>2 DEF TarInit
<1>5. TarTypeOK /\ WalkIsInTheImage
  BY <1>2, <1>3, <1>4 DEF TarTypeOK, WalkIsInTheImage
<1>6. TreesAreKept
  BY <1>1, <1>2, <1>4 DEF TreesAreKept, Directory
<1> QED
  BY <1>5, <1>6 DEF TarInv

\* While the archive arrives, the walk has not begun.
LEMMA RootEntryKeeps == TarInv /\ RootEntry => TarInv'
<1> SUFFICES ASSUME TarInv, RootEntry PROVE TarInv'
  OBVIOUS
<1>1. TarTypeOK' /\ WalkIsInTheImage'
  BY DEF TarInv, RootEntry, TarTypeOK, WalkIsInTheImage
<1>2. ASSUME NEW p \in DOMAIN archive'
      PROVE  p \in Seq(Nat) /\ p # << >> /\ p \notin DOMAIN written' /\ FindsItsDirectory(p)'
  <2>1. archive \in Archives /\ DOMAIN written = {<< >>} /\ written[<< >>] = Directory
    BY DEF TarInv, TreesAreKept, RootEntry
  <2>2. p \in DOMAIN archive /\ p # << >> /\ << >> \in DOMAIN archive
    BY <1>2 DEF RootEntry
  <2>3. p \in Seq(Nat) /\ Front(p) \in DOMAIN archive /\ archive[Front(p)] = Directory
    BY <2>1, <2>2, TarAssumption
  <2>4. CASE Front(p) = << >>
    BY <2>1, <2>2, <2>3, <2>4 DEF RootEntry, FindsItsDirectory
  <2>5. CASE Front(p) # << >>
    <3>1. Front(p) \in DOMAIN archive' /\ archive'[Front(p)] = archive[Front(p)]
      BY <2>3, <2>5 DEF RootEntry
    <3> QED
      BY <2>1, <2>2, <2>3, <3>1 DEF RootEntry, FindsItsDirectory
  <2> QED
    BY <2>4, <2>5
<1>3. TreesAreKept'
  BY <1>2 DEF TarInv, RootEntry, TreesAreKept
<1> QED
  BY <1>1, <1>3 DEF TarInv

LEMMA AddEntryKeeps == ASSUME NEW p, TarInv, AddEntry(p) PROVE TarInv'
<1> USE DEF TarInv
<1>1. /\ sawRoot /\ packing = "tar" /\ stack = << >> /\ stack' = << >>
      /\ p \in DOMAIN archive /\ Front(p) \notin DOMAIN archive
      /\ archive[p].kind \in {"dir", "link", "file"}
  BY DEF AddEntry, Arrives, Supported, TarKinds, WalkIsInTheImage
<1>2. p \in Seq(Nat) /\ p # << >> /\ p \notin DOMAIN written
      /\ Front(p) \in DOMAIN written /\ written[Front(p)] = Directory
  BY <1>1 DEF TreesAreKept, FindsItsDirectory
<1>3. /\ DOMAIN written' = DOMAIN written \cup {p} /\ written'[p] = archive[p]
      /\ \A q \in DOMAIN written : written'[q] = written[q]
  BY <1>2 DEF AddEntry
<1>4. /\ DOMAIN archive' = DOMAIN archive \ {p}
      /\ \A q \in DOMAIN archive' : archive'[q] = archive[q]
  BY DEF AddEntry
<1>5. TarTypeOK'
  <2>1. \A q \in DOMAIN written' :
          q = << >> \/ (Front(q) \in DOMAIN written' /\ written'[Front(q)] = Directory)
    BY <1>2, <1>3 DEF TarTypeOK
  <2> QED
    BY <1>1, <2>1 DEF AddEntry, TarTypeOK
<1>6. WalkIsInTheImage'
  <2>1. stack' \in Seq([path : DOMAIN written', todo : SUBSET Nat])
    BY <1>1
  <2> QED
    BY <1>1, <2>1 DEF WalkIsInTheImage
<1>7. ASSUME NEW q \in DOMAIN archive'
      PROVE  q \in Seq(Nat) /\ q # << >> /\ q \notin DOMAIN written' /\ FindsItsDirectory(q)'
  <2>1. q \in DOMAIN archive /\ q # p
    BY <1>4
  <2>2. q \in Seq(Nat) /\ q # << >> /\ q \notin DOMAIN written /\ FindsItsDirectory(q)
    BY <2>1, <1>1 DEF TreesAreKept
  <2>3. CASE Front(q) = p
    BY <2>2, <2>3, <1>1, <1>3, <1>4 DEF FindsItsDirectory
  <2>4. CASE Front(q) # p
    BY <2>2, <2>4, <1>3, <1>4 DEF FindsItsDirectory
  <2> QED
    BY <2>1, <2>2, <2>3, <2>4, <1>3
<1>8. TreesAreKept'
  <2>1. \A q \in DOMAIN written' : q \in Seq(Nat) /\ written'[q].kind \in {"dir", "link", "file"}
    BY <1>1, <1>2, <1>3 DEF TreesAreKept
  <2>2. sawRoot' /\ << >> \in DOMAIN written'
    BY <1>1, <1>3 DEF AddEntry, TreesAreKept
  <2> QED
    BY <1>7, <2>1, <2>2 DEF TreesAreKept
<1> QED
  BY <1>5, <1>6, <1>8

\* The walk opens the directory on top ...
LEMMA OpenImageKeeps == TarInv /\ OpenImage => TarInv'
<1> SUFFICES ASSUME TarInv, OpenImage PROVE TarInv'
  OBVIOUS
<1> USE DEF TarInv
<1>1. Frame(<< >>) \in [path : DOMAIN written, todo : SUBSET Nat]
      /\ Frame(<< >>).path = << >> /\ Frame(<< >>).todo = ChildrenIn(written, << >>)
  BY FrameInTheImage DEF TreesAreKept
<1>2. stack' = <<Frame(<< >>)>> /\ written' = written /\ packing' = "walk"
  BY DEF OpenImage
<1>3. WalkIsInTheImage'
  BY <1>1, <1>2 DEF WalkIsInTheImage
<1>4. TarTypeOK'
  BY <1>1, <1>2 DEF TarTypeOK, OpenImage, TreesAreKept
<1>5. TreesAreKept'
  BY DEF OpenImage, TreesAreKept, FindsItsDirectory
<1> QED
  BY <1>3, <1>4, <1>5

\* ... and goes where the image has something.
LEMMA VisitKeeps == TarInv /\ Visit => TarInv'
<1> SUFFICES ASSUME TarInv, Visit PROVE TarInv'
  OBVIOUS
<1> USE DEF TarInv
<1> DEFINE F == [path : DOMAIN written, todo : SUBSET Nat]
           n == Len(stack)
<1>1. PICK name \in Last(stack).todo : VisitNext(name)
  BY DEF Visit
<1>2. stack \in Seq(F) /\ stack # << >> /\ packing = "walk"
  BY DEF Visit, WalkIsInTheImage
<1>3. /\ Front(stack) \in Seq(F) /\ Len(Front(stack)) = n - 1
      /\ \A i \in 1..(n - 1) : Front(stack)[i] = stack[i]
      /\ Last(stack) = stack[n] /\ Last(stack) \in F /\ n \in DOMAIN stack
  BY <1>2, FrontOfSeq
<1>4. Last(stack).path \in DOMAIN written /\ name \in ChildrenIn(written, Last(stack).path)
  BY <1>3 DEF WalkIsInTheImage
<1> DEFINE p == Append(Last(stack).path, name)
           top == [Last(stack) EXCEPT !.todo = @ \ {name}]
           rest == Append(Front(stack), top)
<1>5. p \in DOMAIN written /\ name \in Nat
  BY <1>4, ChildIsWritten
<1>6. top \in F /\ top.path = Last(stack).path /\ top.todo \subseteq Last(stack).todo
  BY <1>3
<1>7. /\ rest \in Seq(F) /\ Len(rest) = n
      /\ \A i \in 1..n : rest[i].todo \subseteq ChildrenIn(written, rest[i].path)
  <2>1. rest \in Seq(F) /\ Len(rest) = n /\ rest[n] = top /\ \A i \in 1..(n - 1) : rest[i] = stack[i]
    BY <1>2, <1>3, <1>6
  <2>2. ASSUME NEW i \in 1..n PROVE rest[i].todo \subseteq ChildrenIn(written, rest[i].path)
    <3>1. i \in DOMAIN stack /\ stack[i].todo \subseteq ChildrenIn(written, stack[i].path)
      BY <1>2 DEF WalkIsInTheImage
    <3> QED
      BY <2>1, <3>1, <1>3, <1>6
  <2> QED
    BY <2>1, <2>2
<1>8. stack' = rest \/ stack' = Append(rest, Frame(p))
  <2>1. written[p].kind \in {"dir", "link", "file"}
    BY <1>5 DEF TreesAreKept
  <2> QED
    BY <1>1, <2>1 DEF VisitNext
<1>9. Frame(p) \in F /\ Frame(p).todo = ChildrenIn(written, Frame(p).path)
  BY <1>5, FrameInTheImage
<1>10. written' = written /\ packing' = "walk" /\ sawRoot' = sawRoot /\ archive' = archive
  BY <1>2 DEF Visit
<1>11. stack' \in Seq(F) /\ \A i \in DOMAIN stack' : stack'[i].todo \subseteq ChildrenIn(written, stack'[i].path)
  <2>1. CASE stack' = rest
    BY <1>7, <2>1
  <2>2. CASE stack' = Append(rest, Frame(p))
    <3>1. stack' \in Seq(F) /\ Len(stack') = n + 1 /\ n \in Nat
      BY <1>2, <1>7, <1>9, <2>2
    <3>2. stack'[n + 1] = Frame(p) /\ \A i \in 1..n : stack'[i] = rest[i]
      BY <1>2, <1>7, <1>9, <2>2
    <3> QED
      BY <1>7, <1>9, <3>1, <3>2
  <2> QED
    BY <1>8, <2>1, <2>2
<1>12. WalkIsInTheImage'
  BY <1>10, <1>11 DEF WalkIsInTheImage
<1>13. TarTypeOK'
  <2>1. ASSUME NEW i \in DOMAIN stack' PROVE stack'[i].path \in DOMAIN written
    <3>1. stack' \in Seq(F)
      BY <1>11
    <3>2. i \in 1..Len(stack')
      BY <3>1, <2>1
    <3>3. stack'[i] \in F
      <4> HIDE DEF F
      <4> QED
        BY ElementOfSeq, <3>1, <3>2
    <3> QED
      BY <3>3
  <2> QED
    BY <1>10, <2>1 DEF TarTypeOK
<1>14. TreesAreKept'
  BY <1>10 DEF TreesAreKept, FindsItsDirectory
<1> QED
  BY <1>12, <1>13, <1>14

LEMMA LeaveDirectoryKeeps == TarInv /\ LeaveDirectory => TarInv'
<1> SUFFICES ASSUME TarInv, LeaveDirectory PROVE TarInv'
  OBVIOUS
<1> USE DEF TarInv
<1> DEFINE F == [path : DOMAIN written, todo : SUBSET Nat]
<1>1. stack \in Seq(F) /\ stack # << >> /\ stack' = Front(stack)
      /\ packing = "walk" /\ UNCHANGED <<packing, written, archive, sawRoot>>
  BY DEF LeaveDirectory, WalkIsInTheImage
<1>2. /\ stack' \in Seq(F) /\ Len(stack') = Len(stack) - 1
      /\ \A i \in 1..(Len(stack) - 1) : stack'[i] = stack[i]
  BY <1>1, FrontOfSeq
<1>3. ASSUME NEW i \in DOMAIN stack'
      PROVE  /\ stack'[i].todo \subseteq ChildrenIn(written, stack'[i].path)
             /\ stack'[i].path \in DOMAIN written
  <2>1. i \in DOMAIN stack /\ stack'[i] = stack[i]
    BY <1>1, <1>2
  <2> QED
    BY <2>1 DEF WalkIsInTheImage, TarTypeOK
<1>4. WalkIsInTheImage'
  BY <1>1, <1>2, <1>3 DEF WalkIsInTheImage
<1>5. TarTypeOK'
  BY <1>1, <1>3 DEF TarTypeOK
<1>6. TreesAreKept'
  BY <1>1 DEF TreesAreKept, FindsItsDirectory
<1> QED
  BY <1>4, <1>5, <1>6

LEMMA StepTarInv == TarInv /\ [TarNext]_tarVars => TarInv'
<1> SUFFICES ASSUME TarInv, [TarNext]_tarVars PROVE TarInv'
  OBVIOUS
<1>1. CASE TarFails \/ Verify \/ WalkFails
  <2>1. UNCHANGED <<archive, sawRoot, written, stack>>
        /\ packing' \in {"fallback", "verified", "mismatch", "failed"}
    BY <1>1 DEF TarFails, Verify, WalkFails
  <2> QED
    BY <2>1 DEF TarInv, TarTypeOK, TreesAreKept, FindsItsDirectory, WalkIsInTheImage
<1>2. CASE UNCHANGED tarVars
  BY <1>2 DEF tarVars, TarInv, TarTypeOK, TreesAreKept, FindsItsDirectory, WalkIsInTheImage
<1> QED
  BY <1>1, <1>2, RootEntryKeeps, AddEntryKeeps, OpenImageKeeps, VisitKeeps, LeaveDirectoryKeeps
     DEF TarNext

\* The image is a tree at all times, and the walk of the finished one stays
\* in it, in whatever order the entries came (tarball.rs:141-201, 223-266).
THEOREM TarTypeCorrect == TarSpec => []TarTypeOK
<1>1. TarInv => TarTypeOK
  BY DEF TarInv
<1> QED
  BY <1>1, InitTarInv, StepTarInv, PTL DEF TarSpec


-----------------------------------------------------------------------------
(* The walk hashes the NAR of the image: what has been hashed, and what is  *)
(* still to come of the directories the walk is in, is that NAR.            *)

ImageIsATree ==
  /\ IsTree(written) /\ written[<< >>] = Directory /\ lockedTree \in LockedTrees
  /\ \A p \in DOMAIN archive : archive[p].kind \in TarKinds => archive[p] \in TarNodes

\* What ends the directory at a depth of the walk.
Ends(i) == IF i > 1 THEN DirClose ELSE << >>

\* What is still to come of the first i directories of a walk through a tree.
ToCome(rest, frames, t) ==
  /\ rest \in [0..Len(frames) -> Pieces] /\ rest[0] = Closing
  /\ \A i \in 1..Len(frames) :
       rest[i] = Cat(EntriesOf(NodeNars(t), frames[i].path, frames[i].todo),
                     Cat(Ends(i), rest[i - 1]))

WalkHashes ==
  packing = "walk" =>
    /\ hashed \in Pieces
    /\ \E rest : ToCome(rest, stack, written) /\ Cat(hashed, rest[Len(stack)]) = NarOf(written)

HashInv == TarInv /\ ImageIsATree /\ WalkHashes /\ VerifiedIsTheTree

LEMMA EndsAre ==
  /\ DirClose \in Pieces /\ DirClose = Cat(Closing, Closing)
  /\ DirOpen \in Pieces /\ DirOpen = Cat(Opening, DirWord)
  /\ \A i \in Nat : Ends(i) \in Pieces
<1>1. DirClose = Cat(Closing, Closing) /\ DirOpen = Cat(Opening, DirWord)
  BY StringsSplit DEF Cat, Closing, Opening, DirWord
<1>2. DirClose \in Pieces /\ DirOpen \in Pieces
  BY <1>1, CloseIs, WordsAre, CatLaws
<1> QED
  BY <1>1, <1>2, PiecesConcat DEF Ends

\* The entries the walk hashes at once are those of the NAR.
LEMMA LeafEntryIs ==
  ASSUME NEW name \in Nat, NEW node \in TarNodes, node # Directory
  PROVE  /\ Cat(EntryNamed(name), Cat(Opening, Cat(Leaf(node), DirClose))) \in Pieces
         /\ node.kind = "link" =>
              LinkEntry(name) = Cat(EntryNamed(name), Cat(Opening, Cat(Leaf(node), DirClose)))
         /\ node.kind = "file" =>
              FileEntry(name, node) = Cat(EntryNamed(name), Cat(Opening, Cat(Leaf(node), DirClose)))
<1> DEFINE h == EntryNamed(name)
           f == Leaf(node)
<1>1. h \in Pieces /\ Opening \in Pieces /\ DirClose \in Pieces
  BY EntryNamedIs, WordsAre, EndsAre
<1>2. f \in Pieces
  BY LeafIs
<1>3. CASE node = [kind |-> "link"]
  <2>1. f = Symlink /\ Symlink \in Pieces
    BY <1>3, LinkLeaf, LeafWords
  <2>2. LinkEntry(name) = Cat(Cat(h, Cat(Opening, Symlink)), DirClose)
    BY StringsSplit DEF LinkEntry, Cat, Opening, Symlink
  <2> HIDE DEF h, f
  <2>3. Cat(Cat(h, Cat(Opening, f)), DirClose) = Cat(h, Cat(Opening, Cat(f, DirClose)))
    BY <1>1, <1>2, CatLaws
  <2>4. LinkEntry(name) = Cat(h, Cat(Opening, Cat(f, DirClose)))
    BY <2>1, <2>2, <2>3
  <2>5. Cat(h, Cat(Opening, Cat(f, DirClose))) \in Pieces
    BY <1>1, <1>2, CatLaws
  <2> QED
    BY <1>3, <2>4, <2>5 DEF h, f
<1>4. CASE node.kind = "file" /\ node.exec \in BOOLEAN /\ node.size \in Nat
  <2> DEFINE x == Executable(node)
             c == Strings(<<"contents">>)
             b == FileContents(node.size)
             k == SizeAndBytes(node.size)
  <2>1. x \in Pieces /\ k \in Pieces /\ Regular \in Pieces
    BY <1>4, ExecutableIs, ContentsAre, LeafWords
  <2>2. f = Cat(Regular, Cat(x, k))
    BY <1>4, FileLeaf
  <2>3. Cat(c, b) = k
    BY <1>4, ContentsAre DEF Cat
  <2>4. FileEntry(name, node) = Cat(Cat(Cat(Cat(Cat(h, Cat(Opening, Regular)), x), c), b), DirClose)
    BY StringsSplit DEF FileEntry, Cat, Opening, Regular
  <2>5. c \in Pieces /\ b \in Pieces
    BY <1>4, FileContentsAre
  <2> HIDE DEF h, f, x, c, b, k
  <2>6. Cat(Cat(Cat(Cat(h, Cat(Opening, Regular)), x), c), b)
          = Cat(Cat(Cat(h, Cat(Opening, Regular)), x), k)
    <3> DEFINE a == Cat(Cat(h, Cat(Opening, Regular)), x)
    <3>1. a \in Pieces
      BY <1>1, <2>1, CatLaws
    <3> HIDE DEF a
    <3>2. Cat(Cat(a, c), b) = Cat(a, Cat(c, b))
      BY <2>5, <3>1, CatLaws
    <3> QED
      BY <2>3, <3>2 DEF a
  <2>7. Cat(Cat(Cat(h, Cat(Opening, Regular)), x), k) = Cat(h, Cat(Opening, f))
    <3> DEFINE o == Cat(Opening, Regular)
    <3>1. o \in Pieces
      BY <1>1, <2>1, CatLaws
    <3>2. Cat(o, Cat(x, k)) = Cat(Opening, f)
      BY <1>1, <2>1, <2>2, CatLaws
    <3> HIDE DEF o
    <3>3. Cat(Cat(Cat(h, o), x), k) = Cat(h, Cat(o, Cat(x, k)))
      BY <1>1, <2>1, <3>1, CatLaws
    <3> QED
      BY <3>2, <3>3 DEF o
  <2>8. Cat(Cat(h, Cat(Opening, f)), DirClose) = Cat(h, Cat(Opening, Cat(f, DirClose)))
    BY <1>1, <1>2, CatLaws
  <2>9. FileEntry(name, node) = Cat(h, Cat(Opening, Cat(f, DirClose)))
    BY <2>4, <2>6, <2>7, <2>8
  <2>10. Cat(h, Cat(Opening, Cat(f, DirClose))) \in Pieces
    BY <1>1, <1>2, CatLaws
  <2> QED
    BY <1>4, <2>9, <2>10 DEF h, f
<1> QED
  BY <1>3, <1>4, NodesAre


\* What the walk hashes of a node, and what it then has still to hash of it,
\* is the node's entry.
LEMMA VisitedIs ==
  ASSUME NEW t, IsTree(t), NEW p \in DOMAIN t, NEW n \in ChildrenIn(t, p), NEW r \in Pieces
  PROVE  LET q == Append(p, n)
             node == t[q]
         IN /\ q \in DOMAIN t /\ NodeNars(t)[q] \in Pieces /\ n \in Nat /\ node \in TarNodes
            /\ node = Directory =>
                 LET below == EntriesOf(NodeNars(t), q, ChildrenIn(t, q))
                 IN  /\ EntryNamed(n) \o DirOpen \in Pieces /\ below \in Pieces
                     /\ Cat(EntryNamed(n) \o DirOpen, Cat(below, Cat(DirClose, r)))
                          = Entry(n, NodeNars(t)[q], r)
            /\ node.kind = "link" =>
                 /\ LinkEntry(n) \in Pieces
                 /\ Cat(LinkEntry(n), r) = Entry(n, NodeNars(t)[q], r)
            /\ node.kind = "file" =>
                 /\ FileEntry(n, node) \in Pieces
                 /\ Cat(FileEntry(n, node), r) = Entry(n, NodeNars(t)[q], r)
<1> DEFINE q == Append(p, n)
           node == t[q]
           nar == NodeNars(t)
           h == EntryNamed(n)
           said == Said(t, nar, q)
           below == EntriesOf(nar, q, ChildrenIn(t, q))
           leaf == Leaf(node)
<1>1. q \in DOMAIN t /\ n \in Nat
  BY ChildrenAre
<1>2. node \in TarNodes
  BY <1>1 DEF IsTree
<1>3. HaveNars(nar, q, ChildrenIn(t, q)) /\ nar[q] = NarOfNode(t, nar, q) /\ nar[q] \in Pieces
  BY <1>1, NarsAre
<1>4. said \in Pieces /\ nar[q] = Cat(Opening, Cat(said, Closing))
  BY <1>1, <1>3, NarOfNodeIs
<1>5. below \in Pieces
  BY <1>3, EntriesAre
<1>6. said = IF node = Directory THEN Cat(DirWord, below) ELSE leaf
  BY DEF Said
<1>7. h \in Pieces /\ Opening \in Pieces /\ DirWord \in Pieces /\ Closing \in Pieces
      /\ DirOpen \in Pieces /\ DirClose \in Pieces
  BY <1>1, EntryNamedIs, WordsAre, CloseIs, EndsAre
<1>8. h \o DirOpen = Cat(h, DirOpen)
  BY DEF Cat
<1>9. Entry(n, nar[q], r) = Cat(h, Cat(nar[q], Cat(Closing, r)))
  BY DEF Entry
<1>10. node # Directory =>
         /\ leaf \in Pieces /\ Cat(h, Cat(Opening, Cat(leaf, DirClose))) \in Pieces
         /\ node.kind = "link" => LinkEntry(n) = Cat(h, Cat(Opening, Cat(leaf, DirClose)))
         /\ node.kind = "file" => FileEntry(n, node) = Cat(h, Cat(Opening, Cat(leaf, DirClose)))
  BY <1>1, <1>2, LeafEntryIs, LeafIs
<1>11. node.kind = "link" \/ node.kind = "file" => node # Directory
  BY DEF Directory
<1> HIDE DEF q, node, nar, h, said, below, leaf
<1>12. ASSUME NEW s \in Pieces
       PROVE  Cat(Cat(Opening, Cat(s, Closing)), Cat(Closing, r)) = Cat(Opening, Cat(s, Cat(DirClose, r)))
  <2> DEFINE z == Cat(Closing, r)
  <2>1. z \in Pieces /\ Cat(DirClose, r) = Cat(Closing, z)
    BY <1>7, EndsAre, CatLaws
  <2> HIDE DEF z
  <2>2. Cat(Cat(Opening, Cat(s, Closing)), z) = Cat(Opening, Cat(s, Cat(Closing, z)))
    BY <1>7, <2>1, CatLaws
  <2> QED
    BY <2>1, <2>2 DEF z
<1>13. Entry(n, nar[q], r) = Cat(h, Cat(Opening, Cat(said, Cat(DirClose, r))))
  BY <1>4, <1>9, <1>12
<1>14. ASSUME node = Directory
       PROVE  Cat(h, DirOpen) \in Pieces
              /\ Cat(Cat(h, DirOpen), Cat(below, Cat(DirClose, r))) = Entry(n, nar[q], r)
  <2> DEFINE z == Cat(DirClose, r)
  <2>1. z \in Pieces /\ Cat(h, DirOpen) \in Pieces
    BY <1>7, CatLaws
  <2> HIDE DEF z
  <2>2. Cat(said, z) = Cat(DirWord, Cat(below, z)) /\ Cat(below, z) \in Pieces
    BY <1>5, <1>6, <1>7, <1>14, <2>1, CatLaws
  <2> DEFINE y == Cat(below, z)
  <2>3. y \in Pieces
    BY <2>2
  <2> HIDE DEF y
  <2>4. Cat(Cat(h, Cat(Opening, DirWord)), y) = Cat(h, Cat(Opening, Cat(DirWord, y)))
    BY <1>7, <2>3, CatLaws
  <2> QED
    BY <1>13, <2>1, <2>2, <2>4, EndsAre DEF y, z
<1>15. ASSUME node # Directory
       PROVE  Cat(Cat(h, Cat(Opening, Cat(leaf, DirClose))), r) = Entry(n, nar[q], r)
  <2> DEFINE k == Cat(leaf, DirClose)
  <2>1. leaf \in Pieces /\ k \in Pieces
    BY <1>7, <1>10, <1>15, CatLaws
  <2>2. Cat(k, r) = Cat(leaf, Cat(DirClose, r))
    BY <1>7, <2>1, CatLaws
  <2> HIDE DEF k
  <2>3. Cat(Cat(h, Cat(Opening, k)), r) = Cat(h, Cat(Opening, Cat(k, r)))
    BY <1>7, <2>1, CatLaws
  <2> QED
    BY <1>6, <1>13, <1>15, <2>2, <2>3 DEF k
<1>16. node.kind = "link" => LinkEntry(n) \in Pieces /\ Cat(LinkEntry(n), r) = Entry(n, nar[q], r)
  BY <1>10, <1>11, <1>15
<1>17. node.kind = "file" =>
         FileEntry(n, node) \in Pieces /\ Cat(FileEntry(n, node), r) = Entry(n, nar[q], r)
  BY <1>10, <1>11, <1>15
<1> QED
  BY <1>1, <1>2, <1>3, <1>5, <1>8, <1>14, <1>16, <1>17 DEF q, node, nar, h, below


LEMMA InitHashInv == TarInit => HashInv
<1> SUFFICES ASSUME TarInit PROVE HashInv
  OBVIOUS
<1>1. /\ written = [p \in {<< >>} |-> Directory] /\ lockedTree \in LockedTrees
      /\ archive \in Archives /\ packing = "tar"
  BY DEF TarInit
<1>2. IsTree(written)
  <2>1. DOMAIN written = {<< >>} /\ written[<< >>] = Directory
    BY <1>1
  <2>2. Directory \in TarNodes /\ << >> \in Seq(Nat)
    BY DEF TarNodes
  <2>3. IsFiniteSet({<< >>})
    BY FS_Singleton
  <2> QED
    BY <1>1, <2>1, <2>2, <2>3 DEF IsTree
<1>3. ImageIsATree
  BY <1>1, <1>2, TarAssumption DEF ImageIsATree
<1>4. WalkHashes /\ VerifiedIsTheTree
  BY <1>1 DEF WalkHashes, VerifiedIsTheTree
<1> QED
  BY <1>3, <1>4, InitTarInv DEF HashInv

\* What comes from the archive is put under a directory.
LEMMA AddEntryIsATree == ASSUME NEW p, TarInv, ImageIsATree, AddEntry(p) PROVE ImageIsATree'
<1>1. p \in Seq(Nat) /\ p # << >> /\ p \notin DOMAIN written
      /\ Front(p) \in DOMAIN written /\ written[Front(p)] = Directory
  BY DEF TarInv, TreesAreKept, FindsItsDirectory, AddEntry, Arrives
<1>2. archive[p] \in TarNodes
  BY DEF AddEntry, Arrives, Supported, ImageIsATree
<1>3. /\ DOMAIN written' = DOMAIN written \cup {p} /\ written'[p] = archive[p]
      /\ \A q \in DOMAIN written : written'[q] = written[q]
  BY <1>1 DEF AddEntry
<1>4. IsTree(written)'
  <2>1. IsFiniteSet(DOMAIN written')
    BY <1>3, FS_AddElement DEF ImageIsATree, IsTree
  <2>2. written' \in [DOMAIN written' -> TarNodes]
    <3>1. \A q \in DOMAIN written' : written'[q] \in TarNodes
      BY <1>2, <1>3 DEF ImageIsATree, IsTree
    <3> QED
      BY <3>1 DEF AddEntry
  <2>3. << >> \in DOMAIN written'
    BY <1>3 DEF ImageIsATree, IsTree
  <2>4. ASSUME NEW q \in DOMAIN written'
        PROVE  q \in Seq(Nat) /\ (q # << >> => Front(q) \in DOMAIN written' /\ written'[Front(q)] = Directory)
    <3>1. CASE q = p
      BY <1>1, <1>3, <3>1
    <3>2. CASE q \in DOMAIN written
      BY <1>3, <3>2 DEF ImageIsATree, IsTree
    <3> QED
      BY <1>3, <3>1, <3>2
  <2> QED
    BY <2>1, <2>2, <2>3, <2>4 DEF IsTree
<1>5. written'[<< >>] = Directory
  BY <1>1, <1>3 DEF ImageIsATree, IsTree
<1> QED
  BY <1>4, <1>5 DEF ImageIsATree, AddEntry

LEMMA StepIsATree == TarInv /\ ImageIsATree /\ [TarNext]_tarVars => ImageIsATree'
<1> SUFFICES ASSUME TarInv, ImageIsATree, [TarNext]_tarVars PROVE ImageIsATree'
  OBVIOUS
<1>1. CASE RootEntry
  BY <1>1 DEF RootEntry, ImageIsATree, IsTree
<1>2. ASSUME NEW p \in DOMAIN archive, AddEntry(p) PROVE ImageIsATree'
  BY <1>2, AddEntryIsATree
<1>3. CASE UNCHANGED <<lockedTree, archive, written>>
  BY <1>3 DEF ImageIsATree, IsTree
<1>4. CASE TarFails \/ OpenImage \/ Visit \/ LeaveDirectory \/ Verify \/ WalkFails
  <2>1. UNCHANGED <<lockedTree, archive, written>>
    BY <1>4 DEF TarFails, OpenImage, Visit, LeaveDirectory, Verify, WalkFails
  <2> QED
    BY <1>3, <2>1
<1>5. CASE UNCHANGED tarVars
  BY <1>3, <1>5 DEF tarVars
<1> QED
  BY <1>1, <1>2, <1>4, <1>5 DEF TarNext

\* The walk has the NARs of what it has still to visit.
LEMMA FramesHaveNars ==
  ASSUME TarInv, ImageIsATree, NEW i \in 1..Len(stack)
  PROVE  /\ stack[i].path \in DOMAIN written
         /\ stack[i].todo \subseteq ChildrenIn(written, stack[i].path)
         /\ HaveNars(NodeNars(written), stack[i].path, stack[i].todo)
<1>1. i \in DOMAIN stack
  BY DEF TarInv, WalkIsInTheImage
<1>2. /\ stack[i].path \in DOMAIN written
      /\ stack[i].todo \subseteq ChildrenIn(written, stack[i].path)
  BY <1>1 DEF TarInv, TarTypeOK, WalkIsInTheImage
<1>3. HaveNars(NodeNars(written), stack[i].path, ChildrenIn(written, stack[i].path))
  BY <1>2, NarsAre DEF ImageIsATree
<1> QED
  BY <1>2, <1>3, FS_Subset DEF HaveNars

\* Before the first directory, everything but what names the format and opens
\* the directory on top is still to come.
LEMMA OpenImageHashes == TarInv /\ ImageIsATree /\ OpenImage => WalkHashes'
<1> SUFFICES ASSUME TarInv, ImageIsATree, OpenImage PROVE WalkHashes'
  OBVIOUS
<1> DEFINE nars == NodeNars(written)
           children == ChildrenIn(written, << >>)
           e == EntriesOf(nars, << >>, children)
           magic == Strings(<<"nix-archive-1">>)
           top == Cat(e, Cat(Ends(1), Closing))
           rest == [i \in 0..1 |-> IF i = 0 THEN Closing ELSE top]
<1>1. IsTree(written) /\ << >> \in DOMAIN written /\ written[<< >>] = Directory
  BY DEF ImageIsATree, IsTree
<1>2. HaveNars(nars, << >>, children) /\ NarOf(written) = Cat(magic, nars[<< >>])
      /\ nars[<< >>] = NarOfNode(written, nars, << >>)
  BY <1>1, NarsAre
<1>3. e \in Pieces
  BY <1>2, EntriesAre
<1>4. nars[<< >>] = Cat(Opening, Cat(Cat(DirWord, e), Closing))
  <2>1. Said(written, nars, << >>) = Cat(DirWord, e)
    BY <1>1 DEF Said
  <2> QED
    BY <1>1, <1>2, <2>1, NarOfNodeIs
<1>5. Opening \in Pieces /\ DirWord \in Pieces /\ Closing \in Pieces /\ magic \in Pieces
  BY WordsAre, CloseIs, Strings1 DEF NarSymbols
<1>6. Begin = Cat(magic, Cat(Opening, DirWord))
  BY StringsSplit DEF Cat, Opening, DirWord
<1>7. Cat(Ends(1), Closing) = Closing
  BY <1>5, PiecesConcat DEF Ends, Cat
<1>8. stack' = <<Frame(<< >>)>> /\ hashed' = Begin /\ written' = written
  BY DEF OpenImage
<1>9. Frame(<< >>).path = << >> /\ Frame(<< >>).todo = children
  BY DEF Frame
<1> HIDE DEF nars, children, e, magic
<1>10. Begin \in Pieces /\ top \in Pieces /\ top = Cat(e, Closing)
  BY <1>3, <1>5, <1>6, <1>7, CatLaws
<1>11. Cat(Begin, top) = NarOf(written)
  <2>1. Cat(Cat(DirWord, e), Closing) = Cat(DirWord, Cat(e, Closing)) /\ Cat(e, Closing) \in Pieces
    BY <1>3, <1>5, CatLaws
  <2> DEFINE z == Cat(e, Closing)
  <2>2. z \in Pieces
    BY <2>1
  <2> HIDE DEF z
  <2>3. Cat(Cat(magic, Cat(Opening, DirWord)), z) = Cat(magic, Cat(Opening, Cat(DirWord, z)))
    BY <1>5, <2>2, CatLaws
  <2> QED
    BY <1>2, <1>4, <1>6, <1>10, <2>1, <2>3 DEF z
<1> HIDE DEF top
<1>12. rest \in [0..1 -> Pieces] /\ rest[0] = Closing /\ rest[1] = top
  BY <1>5, <1>10
<1>13. Len(stack') = 1 /\ stack'[1] = Frame(<< >>)
  BY <1>8
<1> HIDE DEF rest
<1>14. ToCome(rest, stack', written')
  <2>1. top = Cat(EntriesOf(nars, << >>, children), Cat(Ends(1), rest[0]))
    BY <1>12 DEF top, e
  <2>2. top = Cat(EntriesOf(NodeNars(written'), stack'[1].path, stack'[1].todo), Cat(Ends(1), rest[1 - 1]))
    BY <1>8, <1>9, <1>13, <2>1 DEF nars
  <2> QED
    BY <1>12, <1>13, <2>2 DEF ToCome
<1> QED
  BY <1>8, <1>10, <1>11, <1>12, <1>13, <1>14 DEF WalkHashes


LEMMA VisitHashes == TarInv /\ ImageIsATree /\ WalkHashes /\ Visit => WalkHashes'
<1> SUFFICES ASSUME TarInv, ImageIsATree, WalkHashes, Visit PROVE WalkHashes'
  OBVIOUS
<1> DEFINE n == Len(stack)
           nars == NodeNars(written)
           dir == Last(stack).path
           todo == Last(stack).todo
           F == [path : DOMAIN written, todo : SUBSET Nat]
<1>1. PICK name \in todo : (\A other \in todo : name <= other) /\ VisitNext(name)
  BY DEF Visit
<1>2. packing = "walk" /\ stack \in Seq(F) /\ stack # << >> /\ written' = written
  BY DEF Visit, TarInv, WalkIsInTheImage
<1>3. /\ n \in Nat \ {0} /\ Front(stack) \in Seq(F) /\ Len(Front(stack)) = n - 1
      /\ \A i \in 1..(n - 1) : Front(stack)[i] = stack[i]
      /\ Last(stack) = stack[n] /\ Last(stack) \in F /\ n \in 1..n
  <2>1. n \in Nat \ {0} /\ n \in 1..n
    BY <1>2
  <2> HIDE DEF F
  <2> QED
    BY <1>2, <2>1, FrontOfSeq
<1>4. PICK rest : /\ hashed \in Pieces /\ ToCome(rest, stack, written)
                  /\ Cat(hashed, rest[n]) = NarOf(written)
  BY <1>2 DEF WalkHashes
<1>5. /\ dir \in DOMAIN written /\ todo \subseteq ChildrenIn(written, dir)
      /\ HaveNars(nars, dir, todo)
  BY <1>3, FramesHaveNars
<1> DEFINE q == Append(dir, name)
           e == EntriesOf(nars, dir, todo \ {name})
           z == Cat(Ends(n), rest[n - 1])
           after == Cat(e, z)
           top == [Last(stack) EXCEPT !.todo = @ \ {name}]
           frames == Append(Front(stack), top)
<1>6. IsTree(written)
  BY DEF ImageIsATree
<1>7. name \in ChildrenIn(written, dir) /\ name \in Nat
  BY <1>5 DEF HaveNars
<1>8. EntriesOf(nars, dir, todo) = Entry(name, nars[q], e) /\ e \in Pieces
  <2>1. todo # {} /\ todo \in SUBSET Nat
    BY <1>5 DEF HaveNars
  <2>2. Least(todo) \in todo /\ Least(todo) \in Nat /\ \A m \in todo : Least(todo) <= m
    BY <2>1, LeastIs
  <2>3. Least(todo) = name
    BY <1>1, <1>7, <2>2
  <2>4. /\ EntriesOf(nars, dir, todo) = Entry(name, nars[q], e)
        /\ HaveNars(nars, dir, todo \ {name})
    BY <1>5, <2>1, <2>3, EntriesAre
  <2> QED
    BY <2>4, EntriesAre
<1>9. rest[n - 1] \in Pieces /\ Ends(n) \in Pieces /\ z \in Pieces /\ after \in Pieces
  <2>1. n - 1 \in 0..n
    BY <1>3
  <2>2. rest[n - 1] \in Pieces
    BY <1>4, <2>1 DEF ToCome
  <2>3. Ends(n) \in Pieces
    BY <1>3, EndsAre
  <2>4. z \in Pieces
    BY <2>2, <2>3, CatLaws
  <2> HIDE DEF z, e
  <2>5. after \in Pieces
    BY <1>8, <2>4, CatLaws
  <2> QED
    BY <2>2, <2>3, <2>4, <2>5
<1>10. q \in DOMAIN written /\ nars[q] \in Pieces
  <2>1. << >> \in Pieces
    BY PiecesConcat
  <2> QED
    BY <1>5, <1>6, <1>7, <2>1, VisitedIs
<1>11. rest[n] = Entry(name, nars[q], after)
  <2>1. rest[n] = Cat(EntriesOf(nars, dir, todo), z)
    BY <1>3, <1>4 DEF ToCome
  <2> HIDE DEF nars, q, e, z
  <2>2. Cat(Entry(name, nars[q], e), z) = Cat(EntryNamed(name), Cat(nars[q], Cat(Closing, Cat(e, z))))
    BY <1>7, <1>8, <1>9, <1>10, EntryFirst
  <2> QED
    BY <1>8, <2>1, <2>2 DEF Entry
<1>12. /\ frames \in Seq(F) /\ Len(frames) = n /\ frames[n] = top
       /\ \A i \in 1..(n - 1) : frames[i] = stack[i]
       /\ top.path = dir /\ top.todo = todo \ {name}
  <2>1. top \in F /\ top.path = dir /\ top.todo = todo \ {name}
    BY <1>3
  <2> HIDE DEF top, F
  <2> QED
    BY <1>3, <2>1
<1> DEFINE left == [i \in 0..n |-> IF i = n THEN after ELSE rest[i]]
<1>13. ToCome(left, frames, written) /\ left[n] = after
  <2>1. rest \in [0..n -> Pieces] /\ rest[0] = Closing
    BY <1>4 DEF ToCome
  <2>2. left \in [0..n -> Pieces] /\ left[0] = Closing /\ left[n] = after
        /\ \A i \in 0..(n - 1) : left[i] = rest[i]
    <3> HIDE DEF after
    <3> QED
      BY <1>3, <1>9, <2>1
  <2>3. ASSUME NEW i \in 1..n
        PROVE  left[i] = Cat(EntriesOf(nars, frames[i].path, frames[i].todo), Cat(Ends(i), left[i - 1]))
    <3>1. CASE i = n
      <4>1. left[n - 1] = rest[n - 1]
        BY <1>3, <2>2
      <4> HIDE DEF left, frames, top
      <4> QED
        BY <1>12, <2>2, <3>1, <4>1
    <3>2. CASE i # n
      <4>1. i \in 1..(n - 1) /\ i \in 0..(n - 1) /\ i - 1 \in 0..(n - 1)
        BY <1>3, <3>2
      <4>2. rest[i] = Cat(EntriesOf(nars, stack[i].path, stack[i].todo), Cat(Ends(i), rest[i - 1]))
        BY <1>4 DEF ToCome
      <4> HIDE DEF left, frames
      <4> QED
        BY <1>12, <2>2, <4>1, <4>2
    <3> QED
      BY <3>1, <3>2
  <2> HIDE DEF left, frames
  <2> QED
    BY <1>12, <2>2, <2>3 DEF ToCome
<1>14. \/ /\ written[q] = Directory
          /\ stack' = Append(frames, Frame(q)) /\ hashed' = Cat(hashed, EntryNamed(name) \o DirOpen)
       \/ written[q].kind = "link" /\ stack' = frames /\ hashed' = Cat(hashed, LinkEntry(name))
       \/ /\ written[q].kind = "file"
          /\ stack' = frames /\ hashed' = Cat(hashed, FileEntry(name, written[q]))
  <2>1. \/ written[q] = Directory
        \/ written[q].kind = "link"
        \/ written[q].kind = "file"
    <3>1. written[q] \in TarNodes
      BY <1>6, <1>10 DEF IsTree
    <3> QED
      BY <3>1, NodesAre
  <2>2. Directory.kind = "dir"
    BY DEF Directory
  <2>3. /\ hashed \o EntryNamed(name) \o DirOpen = Cat(hashed, EntryNamed(name) \o DirOpen)
        /\ hashed \o LinkEntry(name) = Cat(hashed, LinkEntry(name))
        /\ hashed \o FileEntry(name, written[q]) = Cat(hashed, FileEntry(name, written[q]))
    <3>1. EntryNamed(name) \in Pieces /\ DirOpen \in Pieces
      BY <1>7, EntryNamedIs, EndsAre
    <3> QED
      BY <1>4, <3>1, PiecesConcat DEF Cat
  <2> QED
    BY <1>1, <2>1, <2>2, <2>3 DEF VisitNext
<1>15. ASSUME NEW h \in Pieces, NEW r \in Pieces, Cat(h, r) = Entry(name, nars[q], after)
       PROVE  Cat(hashed, h) \in Pieces /\ Cat(Cat(hashed, h), r) = NarOf(written)
  <2>1. Cat(Cat(hashed, h), r) = Cat(hashed, Cat(h, r)) /\ Cat(hashed, h) \in Pieces
    BY <1>4, CatLaws
  <2> QED
    BY <1>4, <1>11, <1>15, <2>1
<1> HIDE DEF n, nars, dir, todo, F, q, e, z, after, top, frames, left
<1>16. CASE stack' = frames
  <2>1. PICK h \in Pieces : hashed' = Cat(hashed, h) /\ Cat(h, after) = Entry(name, nars[q], after)
    <3>1. frames # Append(frames, Frame(q))
      BY <1>12
    <3>2. CASE written[q].kind = "link"
      <4>1. LinkEntry(name) \in Pieces /\ Cat(LinkEntry(name), after) = Entry(name, nars[q], after)
        BY <1>5, <1>6, <1>7, <1>9, <3>2, VisitedIs DEF nars, q
      <4>2. hashed' = Cat(hashed, LinkEntry(name))
        BY <1>14, <1>16, <3>1, <3>2
      <4> QED
        BY <4>1, <4>2
    <3>3. CASE written[q].kind = "file"
      <4>1. /\ FileEntry(name, written[q]) \in Pieces
            /\ Cat(FileEntry(name, written[q]), after) = Entry(name, nars[q], after)
        BY <1>5, <1>6, <1>7, <1>9, <3>3, VisitedIs DEF nars, q
      <4>2. hashed' = Cat(hashed, FileEntry(name, written[q]))
        BY <1>14, <1>16, <3>1, <3>3
      <4> QED
        BY <4>1, <4>2
    <3> QED
      BY <1>14, <1>16, <3>1, <3>2, <3>3
  <2>2. hashed' \in Pieces /\ Cat(hashed', after) = NarOf(written)
    BY <1>9, <1>15, <2>1
  <2> QED
    BY <1>2, <1>12, <1>13, <1>16, <2>2 DEF WalkHashes
<1>17. CASE stack' = Append(frames, Frame(q)) /\ written[q] = Directory
            /\ hashed' = Cat(hashed, EntryNamed(name) \o DirOpen)
  <2> DEFINE children == ChildrenIn(written, q)
             below == EntriesOf(nars, q, children)
             r == Cat(below, Cat(DirClose, after))
             more == [i \in 0..(n + 1) |-> IF i = n + 1 THEN r ELSE left[i]]
             m == n + 1
  <2>1. /\ EntryNamed(name) \o DirOpen \in Pieces /\ below \in Pieces
        /\ Cat(EntryNamed(name) \o DirOpen, r) = Entry(name, nars[q], after)
    BY <1>5, <1>6, <1>7, <1>9, <1>17, VisitedIs DEF nars, q
  <2>2. r \in Pieces
    <3>1. Cat(DirClose, after) \in Pieces
      BY <1>9, CatLaws, EndsAre
    <3> QED
      BY <2>1, <3>1, CatLaws
  <2>3. hashed' \in Pieces /\ Cat(hashed', r) = NarOf(written)
    <3> HIDE DEF r
    <3> QED
      BY <1>15, <1>17, <2>1, <2>2
  <2>4. /\ Len(stack') = n + 1 /\ stack'[n + 1] = Frame(q)
        /\ \A i \in 1..n : stack'[i] = frames[i]
    BY <1>3, <1>12, <1>17
  <2>5. Frame(q).path = q /\ Frame(q).todo = children
    BY DEF Frame
  <2>6. /\ left \in [0..n -> Pieces] /\ left[0] = Closing /\ left[n] = after
        /\ \A i \in 1..n :
             left[i] = Cat(EntriesOf(nars, frames[i].path, frames[i].todo), Cat(Ends(i), left[i - 1]))
    BY <1>12, <1>13 DEF ToCome, nars
  <2>7. /\ more \in [0..(n + 1) -> Pieces] /\ more[0] = Closing /\ more[n + 1] = r
        /\ \A i \in 0..n : more[i] = left[i]
    <3> HIDE DEF r
    <3> QED
      BY <1>3, <2>2, <2>6
  <2> HIDE DEF more
  <2>8. ASSUME NEW i \in 1..(n + 1)
        PROVE  more[i] = Cat(EntriesOf(nars, stack'[i].path, stack'[i].todo), Cat(Ends(i), more[i - 1]))
    <3>1. CASE i = n + 1
      <4>1. i - 1 = n /\ i > 1 /\ n \in 0..n
        BY <1>3, <3>1
      <4>2. Ends(i) = DirClose
        BY <4>1 DEF Ends
      <4>3. more[i - 1] = after
        BY <2>6, <2>7, <4>1
      <4> QED
        BY <2>4, <2>5, <2>7, <3>1, <4>2, <4>3
    <3>2. CASE i # n + 1
      <4>1. i \in 1..n /\ i \in 0..n /\ i - 1 \in 0..n
        BY <1>3, <3>2
      <4> QED
        BY <2>4, <2>6, <2>7, <4>1
    <3> QED
      BY <3>1, <3>2
  <2>9. ToCome(more, stack', written) /\ Cat(hashed', more[Len(stack')]) = NarOf(written)
    <3> HIDE DEF r
    <3>1. ToCome(more, stack', written)
      BY <2>4, <2>7, <2>8 DEF ToCome, nars
    <3> QED
      BY <2>3, <2>4, <2>7, <3>1
  <2> QED
    BY <1>2, <2>3, <2>9 DEF WalkHashes
<1> QED
  BY <1>14, <1>16, <1>17


LEMMA LeaveDirectoryHashes ==
  TarInv /\ ImageIsATree /\ WalkHashes /\ LeaveDirectory => WalkHashes'
<1> SUFFICES ASSUME TarInv, ImageIsATree, WalkHashes, LeaveDirectory PROVE WalkHashes'
  OBVIOUS
<1> DEFINE n == Len(stack)
           nars == NodeNars(written)
           F == [path : DOMAIN written, todo : SUBSET Nat]
<1>1. packing = "walk" /\ stack \in Seq(F) /\ stack # << >> /\ written' = written
      /\ Last(stack).todo = {} /\ stack' = Front(stack) /\ hashed' = hashed \o ClosesEntry
  BY DEF LeaveDirectory, TarInv, WalkIsInTheImage
<1>2. n \in Nat \ {0} /\ n \in 1..n /\ n - 1 \in 0..n
  BY <1>1
<1>3. /\ Len(stack') = n - 1 /\ Last(stack) = stack[n]
      /\ \A i \in 1..(n - 1) : stack'[i] = stack[i]
  <2> HIDE DEF F
  <2> QED
    BY <1>1, FrontOfSeq
<1>4. PICK rest : /\ hashed \in Pieces /\ ToCome(rest, stack, written)
                  /\ Cat(hashed, rest[n]) = NarOf(written)
  BY <1>1 DEF WalkHashes
<1>5. /\ rest \in [0..n -> Pieces] /\ rest[0] = Closing
      /\ \A i \in 1..n :
           rest[i] = Cat(EntriesOf(nars, stack[i].path, stack[i].todo), Cat(Ends(i), rest[i - 1]))
  BY <1>4 DEF ToCome
<1>6. EntriesOf(nars, stack[n].path, stack[n].todo) = << >>
  BY <1>1, <1>2, <1>3, FramesHaveNars, EntriesAre
<1>7. Ends(n) \in Pieces /\ rest[n - 1] \in Pieces
  BY <1>2, <1>5, EndsAre
<1>8. rest[n] = Cat(Ends(n), rest[n - 1])
  <2>1. Cat(Ends(n), rest[n - 1]) \in Pieces
    BY <1>7, CatLaws
  <2>2. rest[n] = Cat(<< >>, Cat(Ends(n), rest[n - 1]))
    BY <1>2, <1>5, <1>6
  <2> QED
    BY <2>1, <2>2, PiecesConcat DEF Cat
<1>9. hashed' = Cat(hashed, Ends(n))
  BY <1>1 DEF ClosesEntry, Ends, Cat
<1> DEFINE left == [i \in 0..(n - 1) |-> rest[i]]
<1>10. left \in [0..(n - 1) -> Pieces] /\ \A i \in 0..(n - 1) : left[i] = rest[i]
  BY <1>2, <1>5
<1> HIDE DEF n, nars, F, left
<1>11. hashed' \in Pieces /\ Cat(hashed', left[n - 1]) = NarOf(written)
  <2>1. Cat(Cat(hashed, Ends(n)), rest[n - 1]) = Cat(hashed, Cat(Ends(n), rest[n - 1]))
        /\ Cat(hashed, Ends(n)) \in Pieces
    BY <1>4, <1>7, CatLaws
  <2>2. left[n - 1] = rest[n - 1]
    BY <1>2, <1>10
  <2> QED
    BY <1>4, <1>8, <1>9, <2>1, <2>2
<1>12. ToCome(left, stack', written)
  <2>1. left[0] = Closing
    BY <1>2, <1>5, <1>10
  <2>2. ASSUME NEW i \in 1..(n - 1)
        PROVE  left[i] = Cat(EntriesOf(nars, stack'[i].path, stack'[i].todo), Cat(Ends(i), left[i - 1]))
    <3>1. i \in 1..n /\ i \in 0..(n - 1) /\ i - 1 \in 0..(n - 1)
      BY <1>2
    <3> QED
      BY <1>3, <1>5, <1>10, <3>1
  <2> QED
    BY <1>3, <1>10, <2>1, <2>2 DEF ToCome, nars
<1> QED
  BY <1>1, <1>3, <1>11, <1>12 DEF WalkHashes

\* The walk over, what is hashed is the NAR of the image, which is that of no
\* other tree.
LEMMA VerifyTells == ImageIsATree /\ WalkHashes /\ Verify => VerifiedIsTheTree'
<1> SUFFICES ASSUME ImageIsATree, WalkHashes, Verify PROVE VerifiedIsTheTree'
  OBVIOUS
<1>1. packing = "walk" /\ stack = << >> /\ written' = written /\ lockedTree' = lockedTree
      /\ packing' = IF hashed \o Strings(<<")">>) = NarOf(lockedTree) THEN "verified" ELSE "mismatch"
  BY DEF Verify
<1>2. hashed \o Strings(<<")">>) = NarOf(written)
  <2>1. PICK rest : ToCome(rest, stack, written) /\ Cat(hashed, rest[Len(stack)]) = NarOf(written)
    BY <1>1 DEF WalkHashes
  <2>2. rest[Len(stack)] = Closing
    BY <1>1, <2>1 DEF ToCome
  <2> QED
    BY <2>1, <2>2 DEF Cat, Closing
<1>3. IsTree(written) /\ IsTree(lockedTree)
  BY TarAssumption DEF ImageIsATree
<1>4. NarOf(written) = NarOf(lockedTree) <=> written = lockedTree
  BY <1>3, NarIsUnique
<1> QED
  BY <1>1, <1>2, <1>4 DEF VerifiedIsTheTree

LEMMA StepHashInv == HashInv /\ [TarNext]_tarVars => HashInv'
<1> SUFFICES ASSUME HashInv, [TarNext]_tarVars PROVE HashInv'
  OBVIOUS
<1>1. TarInv /\ ImageIsATree /\ WalkHashes /\ VerifiedIsTheTree
  BY DEF HashInv
<1>2. TarInv' /\ ImageIsATree'
  BY <1>1, StepTarInv, StepIsATree
<1>3. CASE Verify
  <2>1. VerifiedIsTheTree'
    BY <1>1, <1>3, VerifyTells
  <2>2. WalkHashes'
    BY <1>3 DEF Verify, WalkHashes
  <2> QED
    BY <1>2, <2>1, <2>2 DEF HashInv
<1>4. CASE OpenImage \/ Visit \/ LeaveDirectory
  <2>1. WalkHashes'
    BY <1>1, <1>4, OpenImageHashes, VisitHashes, LeaveDirectoryHashes
  <2>2. packing' = "walk"
    BY <1>4 DEF OpenImage, Visit, LeaveDirectory
  <2> QED
    BY <1>2, <2>1, <2>2 DEF HashInv, VerifiedIsTheTree
<1>5. CASE RootEntry \/ (\E p \in DOMAIN archive : AddEntry(p)) \/ TarFails \/ WalkFails
  <2>1. packing' \in {"tar", "fallback", "failed"}
    BY <1>5 DEF RootEntry, AddEntry, Arrives, TarFails, WalkFails
  <2> QED
    BY <1>2, <2>1 DEF HashInv, WalkHashes, VerifiedIsTheTree
<1>6. CASE UNCHANGED tarVars
  BY <1>1, <1>2, <1>6 DEF tarVars, HashInv, WalkHashes, VerifiedIsTheTree
<1> QED
  BY <1>3, <1>4, <1>5, <1>6 DEF TarNext

\* An image whose hash is the one of the lock is the tree of the lock, and one
\* whose hash is not is another tree, in whatever order the entries of the
\* archive came (tasks/eval.rs:85-86, tarball.rs:205-268).
THEOREM VerifiedIsTheTreeCorrect == TarSpec => []VerifiedIsTheTree
<1>1. HashInv => VerifiedIsTheTree
  BY DEF HashInv
<1> QED
  BY <1>1, InitHashInv, StepHashInv, PTL DEF TarSpec

=============================================================================
