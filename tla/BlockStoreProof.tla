--------------------------- MODULE BlockStoreProof ---------------------------
(* Theorems about BlockStore, for any blocks, threads and limits.           *)
EXTENDS BlockStore, SumTheorems, FiniteSetTheorems, TLAPS

-----------------------------------------------------------------------------
(* Chains and disks.                                                        *)

\* The disk d holds the blocks of s under their heights.
Stores(d, s) == \A i \in 1..Len(s) : d[i - 1] = s[i]

\* Readable, of any disk
Reads(d, n) ==
  \A h \in 0..n :
    /\ h \in Heights /\ d[h] # NoBlock
    /\ h > 0 => Parent[d[h]] = d[h - 1]

\* Nothing is stored above the height.
Ends(d, n) == \A h \in Heights : h > n => d[h] = NoBlock

\* What a main chain is, and what a disk with one is.
IsChain(s) == s \in Seq(Blocks) /\ Linked(s) /\ \A i \in 1..Len(s) : Index[s[i]] = i - 1
IsDisk(d) ==
  /\ d \in [Heights -> Blocks \union {NoBlock}]
  /\ \A h \in Heights : d[h] # NoBlock => Index[d[h]] = h

LEMMA HeightsFacts == IsFiniteSet(Heights) /\ Heights \subseteq Nat /\ 0 \in Heights
<1>1. IsFiniteSet(Heights)
  <2>1. PICK f : f = [b \in Blocks |-> Index[b]]
    OBVIOUS
  <2>2. f \in Surjection(Blocks, Heights)
    BY <2>1 DEF Heights, Surjection
  <2> QED
    BY <2>2, BlocksAssumption, FS_Surjection
<1>2. Heights \subseteq Nat
  BY BlocksAssumption DEF Heights
<1>3. 0 \in Heights
  BY BlocksAssumption, StoreAssumption DEF Heights
<1> QED
  BY <1>1, <1>2, <1>3

LEMMA ChainFacts ==
  ASSUME NEW s, IsChain(s)
  PROVE  /\ s \in Seq(Blocks) /\ Len(s) \in Nat \ {0} /\ s[1] = Genesis
         /\ \A i \in 1..Len(s) : s[i] \in Blocks /\ i - 1 \in Heights
         /\ \A h \in 0..Top(s) : h \in Heights /\ h + 1 \in 1..Len(s)
<1>1. s \in Seq(Blocks) /\ Len(s) \in Nat \ {0} /\ s[1] = Genesis
  BY DEF IsChain, Linked
<1>2. \A i \in 1..Len(s) : s[i] \in Blocks /\ i - 1 \in Heights
  BY <1>1 DEF IsChain, Heights
<1>3. \A h \in 0..Top(s) : h + 1 \in 1..Len(s) /\ h = (h + 1) - 1
  BY <1>1 DEF Top
<1> QED
  BY <1>1, <1>2, <1>3

LEMMA ChainAppend ==
  ASSUME NEW s, IsChain(s), NEW b \in Blocks, b # Genesis, Parent[b] = Last(s)
  PROVE  /\ IsChain(Append(s, b)) /\ Len(Append(s, b)) = Len(s) + 1
         /\ Last(Append(s, b)) = b /\ Prefix(Append(s, b), Len(s)) = s
<1>1. s \in Seq(Blocks) /\ Len(s) \in Nat \ {0}
  BY ChainFacts
<1>2. PICK t : t = Append(s, b)
  OBVIOUS
<1>3. /\ t \in Seq(Blocks) /\ Len(t) = Len(s) + 1 /\ t[Len(s) + 1] = b
      /\ \A i \in 1..Len(s) : t[i] = s[i]
  BY <1>1, <1>2
<1>4. Linked(t)
  <2>1. t # << >> /\ t[1] = Genesis
    BY <1>1, <1>3 DEF IsChain, Linked
  <2>2. ASSUME NEW i \in 2..Len(t) PROVE Parent[t[i]] = t[i - 1]
    <3>1. CASE i = Len(s) + 1
      BY <1>1, <1>3, <3>1 DEF Last
    <3>2. CASE i # Len(s) + 1
      <4>1. i \in 2..Len(s) /\ i \in 1..Len(s) /\ i - 1 \in 1..Len(s)
        BY <1>1, <1>3, <3>2
      <4>2. Parent[s[i]] = s[i - 1]
        BY <4>1 DEF IsChain, Linked
      <4> QED
        BY <1>3, <4>1, <4>2
    <3> QED
      BY <3>1, <3>2
  <2> QED
    BY <2>1, <2>2 DEF Linked
<1>5. ASSUME NEW i \in 1..Len(t) PROVE Index[t[i]] = i - 1
  <2>1. CASE i = Len(s) + 1
    <3>1. Index[b] = Index[Parent[b]] + 1
      BY StoreAssumption
    <3>2. Index[s[Len(s)]] = Len(s) - 1
      BY <1>1 DEF IsChain
    <3> QED
      BY <1>1, <1>3, <2>1, <3>1, <3>2 DEF Last
  <2>2. CASE i # Len(s) + 1
    BY <1>1, <1>3, <2>2 DEF IsChain
  <2> QED
    BY <2>1, <2>2
<1>6. Prefix(t, Len(s)) = s
  BY <1>1, <1>3 DEF Prefix
<1> QED
  BY <1>2, <1>3, <1>4, <1>5, <1>6 DEF IsChain, Last

LEMMA ChainPrefix ==
  ASSUME NEW s, IsChain(s), NEW n \in 1..Len(s)
  PROVE  IsChain(Prefix(s, n)) /\ Len(Prefix(s, n)) = n
<1>1. s \in Seq(Blocks) /\ Len(s) \in Nat \ {0}
  BY ChainFacts
<1>2. PICK t : t = Prefix(s, n)
  OBVIOUS
<1>3. t \in Seq(Blocks) /\ Len(t) = n /\ \A i \in 1..n : t[i] = s[i]
  BY <1>1, <1>2 DEF Prefix
<1>4. Linked(t)
  <2>1. t # << >> /\ t[1] = Genesis
    BY <1>1, <1>3 DEF IsChain, Linked
  <2>2. ASSUME NEW i \in 2..n PROVE Parent[t[i]] = t[i - 1]
    <3>1. i \in 2..Len(s) /\ i \in 1..n /\ i - 1 \in 1..n
      BY <1>1
    <3> QED
      BY <1>3, <3>1 DEF IsChain, Linked
  <2> QED
    BY <1>3, <2>1, <2>2 DEF Linked
<1>5. \A i \in 1..n : Index[t[i]] = i - 1
  BY <1>1, <1>3 DEF IsChain
<1> QED
  BY <1>2, <1>3, <1>4, <1>5 DEF IsChain

\* Two chains share at least the genesis block.
LEMMA CommonBounds ==
  ASSUME NEW s, IsChain(s), NEW t, IsChain(t)
  PROVE  CommonLength(s, t) \in 1..Len(s)
<1>1. Len(s) \in Nat \ {0} /\ Len(t) \in Nat \ {0} /\ s[1] = Genesis /\ t[1] = Genesis
  BY ChainFacts
<1>2. PICK A : A = Agreements(s, t)
  OBVIOUS
<1>3. A \subseteq 1..Len(s) /\ 1 \in A
  BY <1>1, <1>2 DEF Agreements
<1>4. IsFiniteSet(1..Len(s)) /\ Cardinality(1..Len(s)) = Len(s)
  <2>1. PICK n \in Nat \ {0} : n = Len(s)
    BY <1>1
  <2>2. IsFiniteSet(1..n) /\ Cardinality(1..n) = n
    BY FS_Interval
  <2> QED
    BY <2>1, <2>2
<1>5. IsFiniteSet(A) /\ Cardinality(A) <= Len(s) /\ Cardinality(A) \in Nat
  BY <1>3, <1>4, FS_Subset, FS_CardinalityType
<1>6. Cardinality(A) # 0
  BY <1>3, <1>5, FS_EmptySet
<1> QED
  BY <1>1, <1>2, <1>5, <1>6 DEF CommonLength

-----------------------------------------------------------------------------
(* The recursion behind Path.                                               *)

PathStep(f, b) == IF b = Genesis THEN <<b>> ELSE Append(f[Parent[b]], b)
PathsIn(dom, f) == f = [b \in dom |-> PathStep(f, b)]
Low(n) == {b \in Blocks : Index[b] < n}

LEMMA PathIs == Path = CHOOSE f : PathsIn(Blocks, f)
  BY DEF Path, PathsIn, PathStep

LEMMA PathExists == \E f : PathsIn(Blocks, f)
<1> DEFINE Unsolved == {n \in Nat : ~ \E f : PathsIn(Low(n), f)}
<1>1. Unsolved = {}
  <2> SUFFICES ASSUME Unsolved # {} PROVE FALSE
    OBVIOUS
  <2>1. PICK n \in Unsolved : \A m \in Unsolved : n <= m
    <3>1. Unsolved \subseteq Nat
      OBVIOUS
    <3> HIDE DEF Unsolved
    <3> QED
      BY <3>1, LeastElement
  <2>2. n \in Nat /\ ~ \E f : PathsIn(Low(n), f)
    OBVIOUS
  <2>3. CASE n = 0
    <3>1. Low(n) = {}
      BY <2>3, BlocksAssumption DEF Low
    <3>2. PathsIn(Low(n), [b \in Low(n) |-> TRUE])
      BY <3>1 DEF PathsIn
    <3> QED
      BY <2>2, <3>2
  <2>4. CASE n # 0
    <3>1. n - 1 \in Nat /\ n - 1 \notin Unsolved
      <4>1. n - 1 \in Nat /\ ~ (n <= n - 1)
        BY <2>2, <2>4
      <4> HIDE DEF Unsolved
      <4> QED
        BY <2>1, <4>1
    <3>2. PICK f : PathsIn(Low(n - 1), f)
      BY <3>1
    <3>3. PICK g : g = [b \in Low(n) |-> PathStep(f, b)]
      OBVIOUS
    <3>4. \A b \in Low(n) : PathStep(g, b) = PathStep(f, b)
      <4> SUFFICES ASSUME NEW b \in Low(n), b # Genesis
                   PROVE  g[Parent[b]] = f[Parent[b]]
        BY DEF PathStep
      <4>1. Parent[b] \in Low(n - 1) /\ Parent[b] \in Low(n)
        <5>1. b \in Blocks /\ Parent[b] \in Blocks /\ Index[b] < n
          BY BlocksAssumption DEF Low
        <5>2. Index[b] \in Nat /\ Index[Parent[b]] \in Nat /\ Index[b] = Index[Parent[b]] + 1
          BY <5>1, BlocksAssumption, StoreAssumption
        <5>3. Index[Parent[b]] < n - 1 /\ Index[Parent[b]] < n
          BY <2>2, <5>1, <5>2
        <5> QED
          BY <5>1, <5>3 DEF Low
      <4>2. f[Parent[b]] = PathStep(f, Parent[b])
        BY <3>2, <4>1 DEF PathsIn
      <4> QED
        BY <3>3, <4>1, <4>2
    <3>5. PathsIn(Low(n), g)
      BY <3>3, <3>4 DEF PathsIn
    <3> QED
      BY <2>2, <3>5
  <2> QED
    BY <2>3, <2>4
<1>2. \E n \in Nat : Low(n) = Blocks
  <2>1. PICK n \in Nat : \A h \in Heights : h <= n
    <3>1. IsFiniteSet(Heights) /\ Heights \subseteq Nat /\ Heights # {}
      BY HeightsFacts
    <3>2. PICK n \in Heights : \A h \in Heights : h <= n
      BY <3>1, GreatestElement
    <3> QED
      BY <3>1, <3>2
  <2>2. \A b \in Blocks : Index[b] \in Nat /\ Index[b] <= n
    BY <2>1, BlocksAssumption DEF Heights
  <2>3. Low(n + 1) = Blocks /\ n + 1 \in Nat
    BY <2>2 DEF Low
  <2> QED
    BY <2>3
<1>3. PICK n \in Nat : Low(n) = Blocks
  BY <1>2
<1>4. n \notin Unsolved
  BY <1>1
<1>5. \E f : PathsIn(Low(n), f)
  BY <1>4
<1> QED
  BY <1>3, <1>5

\* A block's path is a chain that ends in the block.
LEMMA PathIsChain ==
  ASSUME NEW b \in Blocks
  PROVE  IsChain(Path[b]) /\ Last(Path[b]) = b
<1>1. PathsIn(Blocks, Path)
  BY PathIs, PathExists
<1>2. \A x \in Blocks : Path[x] = PathStep(Path, x)
  BY <1>1 DEF PathsIn
<1> DEFINE Good(x) == IsChain(Path[x]) /\ Last(Path[x]) = x
           Wrong == {Index[x] : x \in {y \in Blocks : ~ Good(y)}}
<1>3. Wrong = {}
  <2> SUFFICES ASSUME Wrong # {} PROVE FALSE
    OBVIOUS
  <2>1. PICK n \in Wrong : \A m \in Wrong : n <= m
    <3>1. Wrong \subseteq Nat
      BY BlocksAssumption
    <3> HIDE DEF Wrong
    <3> QED
      BY <3>1, LeastElement
  <2>2. PICK x \in Blocks : ~ Good(x) /\ n = Index[x]
    OBVIOUS
  <2>3. CASE x = Genesis
    <3>1. Path[x] = <<x>>
      BY <1>2, <2>3 DEF PathStep
    <3>2. IsChain(<<x>>) /\ Last(<<x>>) = x
      BY <2>3, StoreAssumption DEF IsChain, Linked, Last
    <3> QED
      BY <2>2, <3>1, <3>2
  <2>4. CASE x # Genesis
    <3>1. PICK p : p = Parent[x]
      OBVIOUS
    <3>2. p \in Blocks /\ Index[x] = Index[p] + 1 /\ Index[p] \in Nat
      BY <2>4, <3>1, BlocksAssumption, StoreAssumption
    <3>3. Good(p)
      <4>1. ~ (n <= Index[p])
        BY <2>2, <3>2
      <4>2. Index[p] \notin Wrong
        <5> HIDE DEF Wrong
        <5> QED
          BY <2>1, <4>1
      <4> QED
        BY <3>2, <4>2
    <3>4. Path[x] = Append(Path[p], x)
      BY <1>2, <2>4, <3>1 DEF PathStep
    <3>5. IsChain(Path[x]) /\ Last(Path[x]) = x
      BY <2>4, <3>1, <3>3, <3>4, ChainAppend
    <3> QED
      BY <2>2, <3>5
  <2> QED
    BY <2>3, <2>4
<1>4. Index[b] \notin Wrong
  BY <1>3
<1> QED
  BY <1>4

-----------------------------------------------------------------------------
(* What loadFromDB reads and what saveToDB writes.                          *)

LEMMA StoredReads ==
  ASSUME NEW d, NEW s, IsChain(s), Stores(d, s), NEW n \in 0..Top(s)
  PROVE  Reads(d, n)
<1> SUFFICES ASSUME NEW h \in 0..n
             PROVE  /\ h \in Heights /\ d[h] # NoBlock
                    /\ h > 0 => Parent[d[h]] = d[h - 1]
  BY DEF Reads
<1>1. Len(s) \in Nat \ {0} /\ h \in 0..Top(s)
  BY ChainFacts DEF Top
<1>2. h \in Heights /\ h + 1 \in 1..Len(s) /\ s[h + 1] \in Blocks
  BY <1>1, ChainFacts
<1>3. d[h] = s[h + 1]
  BY <1>1, <1>2 DEF Stores
<1>4. h > 0 => Parent[s[h + 1]] = s[h] /\ d[h - 1] = s[h]
  <2> SUFFICES ASSUME h > 0 PROVE Parent[s[h + 1]] = s[h] /\ d[h - 1] = s[h]
    OBVIOUS
  <2>1. h + 1 \in 2..Len(s) /\ h \in 1..Len(s)
    BY <1>1, <1>2
  <2>2. Parent[s[h + 1]] = s[(h + 1) - 1]
    BY <2>1 DEF IsChain, Linked
  <2> QED
    BY <1>1, <2>1, <2>2 DEF Stores
<1> QED
  BY <1>2, <1>3, <1>4, StoreAssumption

LEMMA LoadedShape ==
  /\ LoadedLength \in Nat
  /\ \A h \in Nat : Reads(disk, h) <=> h < LoadedLength
<1>1. PICK S : S = {h \in Heights : Readable(h)}
  OBVIOUS
<1>2. S \subseteq Nat /\ IsFiniteSet(S) /\ LoadedLength = Cardinality(S)
  BY <1>1, HeightsFacts, FS_Subset DEF LoadedLength
<1>3. \A h \in Nat : Reads(disk, h) <=> h \in S
  BY <1>1 DEF Reads, Readable
<1>4. \A h \in Nat, k \in Nat : h \in S /\ k <= h => k \in S
  <2> SUFFICES ASSUME NEW h \in Nat, NEW k \in Nat, h \in S, k <= h PROVE k \in S
    OBVIOUS
  <2>1. \A x \in 0..k : x \in 0..h
    OBVIOUS
  <2>2. Reads(disk, h)
    BY <1>3
  <2>3. Reads(disk, k)
    BY <2>1, <2>2 DEF Reads
  <2> QED
    BY <1>3, <2>3
<1>5. CASE S = {}
  BY <1>2, <1>3, <1>5, FS_EmptySet
<1>6. CASE S # {}
  <2>1. PICK m \in S : \A h \in S : h <= m
    BY <1>2, <1>6, GreatestElement
  <2>2. m \in Nat /\ S = 0..m
    <3>1. m \in Nat /\ \A h \in S : h \in Nat /\ h <= m
      BY <1>2, <2>1
    <3>2. \A h \in 0..m : h \in S
      BY <1>4, <2>1, <3>1
    <3>3. \A h \in S : h \in 0..m
      BY <3>1
    <3> QED
      BY <3>1, <3>2, <3>3
  <2>3. Cardinality(0..m) = m + 1
    BY <2>2, FS_Interval
  <2> QED
    BY <1>2, <1>3, <2>2, <2>3
<1> QED
  BY <1>5, <1>6

LEMMA LoadedIsChain ==
  ASSUME IsDisk(disk), disk[0] = Genesis
  PROVE  /\ IsChain(Loaded) /\ Stores(disk, Loaded) /\ Len(Loaded) = LoadedLength
         /\ LoadedLength \in Nat \ {0} /\ Reads(disk, LoadedLength - 1)
         /\ \A n \in Nat : Reads(disk, n) => n <= LoadedLength - 1
<1>1. PICK n \in Nat : n = LoadedLength
  BY LoadedShape
<1>2. Reads(disk, 0)
  BY HeightsFacts, StoreAssumption, BlocksAssumption DEF Reads
<1>3. n # 0 /\ Reads(disk, n - 1)
  BY <1>1, <1>2, LoadedShape
<1>4. \A h \in 0..(n - 1) : /\ h \in Heights /\ disk[h] \in Blocks /\ Index[disk[h]] = h
                            /\ h > 0 => Parent[disk[h]] = disk[h - 1]
  BY <1>3 DEF Reads, IsDisk
<1>5. Loaded = [i \in 1..n |-> disk[i - 1]]
  BY <1>1 DEF Loaded
<1>6. Loaded \in Seq(Blocks) /\ Len(Loaded) = n /\ \A i \in 1..n : Loaded[i] = disk[i - 1]
  <2>1. \A i \in 1..n : disk[i - 1] \in Blocks
    <3>1. \A i \in 1..n : i - 1 \in 0..(n - 1)
      OBVIOUS
    <3> QED
      BY <1>4, <3>1
  <2>2. PICK s : s = [i \in 1..n |-> disk[i - 1]]
    OBVIOUS
  <2>3. s \in [1..n -> Blocks] /\ \A i \in 1..n : s[i] = disk[i - 1]
    BY <2>1, <2>2
  <2>4. s \in Seq(Blocks) /\ Len(s) = n
    BY <2>3
  <2> QED
    BY <1>5, <2>2, <2>3, <2>4
<1>7. Linked(Loaded)
  <2>1. Loaded # << >> /\ Loaded[1] = Genesis
    BY <1>3, <1>6
  <2>2. ASSUME NEW i \in 2..n PROVE Parent[Loaded[i]] = Loaded[i - 1]
    <3>1. i - 1 \in 0..(n - 1) /\ i - 1 > 0 /\ i \in 1..n /\ i - 1 \in 1..n
      OBVIOUS
    <3>2. Parent[disk[i - 1]] = disk[(i - 1) - 1]
      BY <1>4, <3>1
    <3> QED
      BY <1>6, <3>1, <3>2
  <2> QED
    BY <1>6, <2>1, <2>2 DEF Linked
<1>8. \A i \in 1..n : Index[Loaded[i]] = i - 1
  <2>1. \A i \in 1..n : i - 1 \in 0..(n - 1)
    OBVIOUS
  <2> QED
    BY <1>4, <1>6, <2>1
<1> QED
  BY <1>1, <1>3, <1>6, <1>7, <1>8, LoadedShape DEF IsChain, Stores

\* A chain that is on disk can be loaded.
LEMMA LoadedHas ==
  ASSUME NEW s, IsChain(s), Stores(disk, s)
  PROVE  IsPrefixOf(s, Loaded) /\ (Ends(disk, Top(s)) => Loaded = s)
<1>1. s \in Seq(Blocks) /\ Len(s) \in Nat \ {0} /\ Top(s) \in 0..Top(s) /\ Top(s) = Len(s) - 1
  BY ChainFacts DEF Top
<1>2. PICK n \in Nat : n = LoadedLength
  BY LoadedShape
<1>3. Reads(disk, Top(s))
  BY <1>1, StoredReads
<1>4. Len(s) <= n
  BY <1>1, <1>2, <1>3, LoadedShape
<1>5. Loaded = [i \in 1..n |-> disk[i - 1]]
  BY <1>2 DEF Loaded
<1>6. Len(Loaded) = n /\ \A i \in 1..n : Loaded[i] = disk[i - 1]
  BY <1>5
<1>7. \A i \in 1..Len(s) : s[i] = Loaded[i]
  BY <1>1, <1>4, <1>6 DEF Stores
<1>8. ASSUME Ends(disk, Top(s)) PROVE Loaded = s
  <2>1. ASSUME n > Len(s) PROVE FALSE
    <3>1. Reads(disk, Len(s))
      BY <1>1, <1>2, <2>1, LoadedShape
    <3>2. Len(s) \in Heights /\ disk[Len(s)] # NoBlock
      BY <1>1, <3>1 DEF Reads
    <3> QED
      BY <1>1, <1>8, <3>2 DEF Ends
  <2>2. n = Len(s)
    BY <1>1, <1>4, <2>1
  <2>3. s = [i \in 1..n |-> s[i]]
    BY <1>1, <2>2
  <2> QED
    BY <1>5, <1>7, <1>6, <2>2, <2>3
<1> QED
  BY <1>1, <1>4, <1>6, <1>7, <1>8 DEF IsPrefixOf

\* Where a chain and a readable disk agree at one height, they agree below it.
LEMMA AgreeBelow ==
  ASSUME NEW d, NEW c, IsChain(c), NEW k \in 0..Top(c), Reads(d, k), d[k] = c[k + 1],
         NEW h \in 0..k
  PROVE  d[h] = c[h + 1]
<1>1. Len(c) \in Nat \ {0} /\ Top(c) = Len(c) - 1
  BY ChainFacts DEF Top
<1> DEFINE Wrong == {j \in 0..k : d[k - j] # c[(k - j) + 1]}
<1>2. Wrong = {}
  <2> SUFFICES ASSUME Wrong # {} PROVE FALSE
    OBVIOUS
  <2>1. PICK j \in Wrong : \A m \in Wrong : j <= m
    <3>1. Wrong \subseteq Nat
      OBVIOUS
    <3> HIDE DEF Wrong
    <3> QED
      BY <3>1, LeastElement
  <2>2. j \in 0..k /\ d[k - j] # c[(k - j) + 1]
    OBVIOUS
  <2>3. j # 0
    BY <2>2
  <2>4. j - 1 \in 0..k /\ j - 1 \notin Wrong
    <3>1. j - 1 \in 0..k /\ ~ (j <= j - 1)
      BY <2>2, <2>3
    <3> HIDE DEF Wrong
    <3> QED
      BY <2>1, <3>1
  <2>5. d[k - (j - 1)] = c[(k - (j - 1)) + 1]
    BY <2>4
  <2>6. PICK x \in Nat : x = k - j
    BY <2>2
  <2>7. k - (j - 1) = x + 1 /\ x + 1 \in 0..k /\ x + 1 > 0 /\ x + 2 \in 2..Len(c)
    BY <1>1, <2>2, <2>3, <2>6
  <2>8. d[x + 1] = c[x + 2]
    BY <2>5, <2>7
  <2>9. Parent[d[x + 1]] = d[x]
    BY <2>7 DEF Reads
  <2>10. Parent[c[x + 2]] = c[x + 1]
    BY <2>7 DEF IsChain, Linked
  <2> QED
    BY <2>2, <2>6, <2>8, <2>9, <2>10
<1>3. k - h \in 0..k /\ k - h \notin Wrong
  <2>1. k \in Nat /\ h \in 0..k
    BY <1>1
  <2>2. k - h \in 0..k
    BY <2>1
  <2> QED
    BY <1>2, <2>2
<1>4. d[k - (k - h)] = c[(k - (k - h)) + 1]
  BY <1>3
<1>5. k - (k - h) = h
  BY <1>1
<1> QED
  BY <1>4, <1>5

\* Below the height where the rewriting starts the disk holds the chain.
LEMMA RewriteFromIs ==
  ASSUME NEW c, IsChain(c), NEW rec \in Nat, Reads(disk, rec)
  PROVE  /\ RewriteFrom(c, rec) \in Nat
         /\ \A h \in 0..(RewriteFrom(c, rec) - 1) : h <= Top(c) /\ disk[h] = c[h + 1]
<1>1. PICK A : A = Agree(c, rec)
  OBVIOUS
<1>2. Len(c) \in Nat \ {0} /\ Top(c) \in Nat
  BY ChainFacts DEF Top
<1>3. A \subseteq 0..Top(c) /\ \A h \in A : h <= rec /\ disk[h] = c[h + 1]
  BY <1>1 DEF Agree
<1>4. CASE A = {}
  BY <1>1, <1>4 DEF RewriteFrom
<1>5. CASE A # {}
  <2>1. PICK k : k = CHOOSE h \in A : \A j \in A : j <= h
    OBVIOUS
  <2>2. k \in A /\ RewriteFrom(c, rec) = 1 + k
    <3>1. A \subseteq Nat /\ IsFiniteSet(A)
      <4>1. PICK n \in Nat : n = Top(c)
        BY <1>2
      <4>2. IsFiniteSet(0..n) /\ A \subseteq 0..n
        BY <1>3, <4>1, FS_Interval
      <4>3. A \subseteq Nat
        BY <4>2
      <4> QED
        BY <4>2, <4>3, FS_Subset
    <3>2. \E h \in A : \A j \in A : j <= h
      BY <1>5, <3>1, GreatestElement
    <3> QED
      BY <1>1, <1>5, <2>1, <3>2 DEF RewriteFrom
  <2>3. k \in 0..Top(c) /\ k <= rec /\ disk[k] = c[k + 1]
    BY <1>3, <2>2
  <2>4. Reads(disk, k)
    BY <1>2, <2>3 DEF Reads
  <2>5. \A h \in 0..k : disk[h] = c[h + 1]
    BY <2>3, <2>4, AgreeBelow
  <2> QED
    BY <1>2, <2>2, <2>3, <2>5
<1> QED
  BY <1>4, <1>5

\* The batch leaves the chain on disk, and above it what it does not delete.
LEMMA WrittenIs ==
  ASSUME IsDisk(disk), NEW b, IsChain(b.chain), b.from \in Nat,
         \A h \in 0..(b.from - 1) : h <= Top(b.chain) /\ disk[h] = b.chain[h + 1]
  PROVE  /\ IsDisk(Written(b)) /\ Stores(Written(b), b.chain)
         /\ \A h \in Heights : h > Top(b.chain) =>
              Written(b)[h] = IF h <= b.upTo THEN NoBlock ELSE disk[h]
<1>1. PICK c, d : c = b.chain /\ d = Written(b)
  OBVIOUS
<1>2. Len(c) \in Nat \ {0} /\ Top(c) = Len(c) - 1 /\ IsChain(c)
  BY <1>1, ChainFacts DEF Top
<1>3. \A h \in Heights : d[h] = IF h >= b.from /\ h <= Top(c) THEN c[h + 1]
                                ELSE IF h > Top(c) /\ h <= b.upTo THEN NoBlock ELSE disk[h]
  BY <1>1 DEF Written
<1>4. ASSUME NEW h \in 0..Top(c) PROVE d[h] = c[h + 1]
  <2>1. h \in Heights
    BY <1>2, ChainFacts
  <2>2. CASE h >= b.from
    BY <1>2, <1>3, <2>1, <2>2
  <2>3. CASE ~ (h >= b.from)
    <3>1. h \in 0..(b.from - 1)
      BY <1>2, <2>3
    <3>2. disk[h] = c[h + 1]
      BY <1>1, <3>1
    <3> QED
      BY <1>2, <1>3, <2>1, <2>3, <3>2
  <2> QED
    BY <2>2, <2>3
<1>5. \A h \in Heights : h > Top(c) => d[h] = IF h <= b.upTo THEN NoBlock ELSE disk[h]
  BY <1>2, <1>3, HeightsFacts
<1>6. \A h \in Heights : h \in Nat /\ (h \in 0..Top(c) \/ h > Top(c))
  BY <1>2, HeightsFacts
<1>7. \A h \in 0..Top(c) : c[h + 1] \in Blocks /\ Index[c[h + 1]] = h
  <2>1. \A h \in 0..Top(c) : h + 1 \in 1..Len(c) /\ (h + 1) - 1 = h
    BY <1>2
  <2> QED
    BY <1>2, <2>1, ChainFacts DEF IsChain
<1>8. IsDisk(d)
  <2>1. \A h \in Heights : d[h] \in Blocks \union {NoBlock} /\ (d[h] # NoBlock => Index[d[h]] = h)
    BY <1>4, <1>5, <1>6, <1>7 DEF IsDisk
  <2>2. d = [h \in Heights |-> d[h]]
    BY <1>1 DEF Written
  <2> QED
    BY <2>1, <2>2 DEF IsDisk
<1>9. Stores(d, c)
  <2>1. \A i \in 1..Len(c) : i - 1 \in 0..Top(c) /\ (i - 1) + 1 = i
    BY <1>2
  <2> QED
    BY <1>4, <2>1 DEF Stores
<1> QED
  BY <1>1, <1>5, <1>8, <1>9

-----------------------------------------------------------------------------
(* The inductive invariant.                                                 *)

\* No save runs: the recorded height is the disk's, and what was saved last is
\* the chain, unless a save has failed since.
RestInv ==
  /\ Reads(disk, recorded)
  /\ saved # << >> => saved = chain /\ recorded = Top(chain) /\ Stores(disk, chain)
  /\ failures = 0 => saved # << >> /\ Ends(disk, recorded)

\* addBlock pushed b and is about to put it.
PutInv(b) ==
  /\ b \in Blocks /\ b = Last(chain) /\ Len(chain) > 1
  /\ Reads(disk, recorded)
  /\ saved # << >> =>
       saved = Prefix(chain, Len(chain) - 1) /\ recorded = Top(saved) /\ Stores(disk, saved)
  /\ failures = 0 => saved # << >> /\ Ends(disk, recorded)

\* The chain was changed, and perhaps its last block put.
PlanInv ==
  /\ Reads(disk, recorded)
  /\ saved # << >> => IsChain(saved) /\ Stores(disk, saved)
  /\ failures = 0 =>
       /\ saved # << >>
       /\ \A h \in Heights : disk[h] # NoBlock =>
            Reads(disk, h) /\ (h <= recorded \/ h <= Top(chain))

\* The batch was written, lastPersistedHeight was not.
WrittenInv(batch) ==
  /\ batch.chain = chain /\ saved = chain /\ Stores(disk, chain)
  /\ failures = 0 => Ends(disk, Top(chain))

JobInv(job) ==
  /\ job.pc = "apply" => job.blk \in Blocks
  /\ job.pc = "put" => PutInv(job.blk)
  /\ job.pc = "plan" => PlanInv
  /\ job.pc = "commit" => PlanInv /\ job.batch = Batch
  /\ job.pc = "written" => WrittenInv(job.batch)

Saving(job) == job.pc \in {"put", "plan", "commit", "written"}

Typed ==
  /\ IsChain(chain) /\ IsDisk(disk) /\ disk[0] = Genesis
  /\ recorded \in Nat /\ failures \in Nat

CalmInv ==
  /\ Typed
  /\ \A t, u \in Threads : t = u \/ task[t] = Idle \/ task[u] = Idle
  /\ \A t \in Threads : JobInv(task[t])
  /\ (\A t \in Threads : ~ Saving(task[t])) => RestInv

\* As long as the history is calm, one task at a time works on chain and disk.
StoreInv ==
  /\ task = [t \in Threads |-> task[t]] /\ failures \in Nat
  /\ calm => CalmInv

-----------------------------------------------------------------------------

LEMMA IdleFacts == ~ Saving(Idle) /\ Idle.pc = "idle"
  BY DEF Idle, Saving

\* A step of the only thread at work, or of a first one.
LEMMA NextJob ==
  ASSUME StoreInv, calm, NEW t \in Threads, AllIdle \/ task[t] # Idle,
         NEW job, task' = [task EXCEPT ![t] = job],
         Typed', JobInv(job)', ~ Saving(job) => RestInv'
  PROVE  StoreInv'
<1>1. task' = [u \in Threads |-> task'[u]] /\ task'[t] = job
  BY DEF StoreInv
<1>2. \A u \in Threads \ {t} : task'[u] = Idle
  BY DEF StoreInv, CalmInv, AllIdle
<1>3. \A u \in Threads : u = t \/ (task'[u] = Idle /\ task'[u].pc = "idle")
  BY <1>2, IdleFacts
<1>4. \A u, v \in Threads : u = v \/ task'[u] = Idle \/ task'[v] = Idle
  BY <1>3
<1>5. ASSUME NEW u \in Threads PROVE JobInv(task[u])'
  <2>1. CASE u = t
    BY <1>1, <2>1 DEF JobInv, PutInv, PlanInv, WrittenInv
  <2>2. CASE u # t
    BY <1>3, <2>2 DEF JobInv
  <2> QED
    BY <2>1, <2>2
<1>6. ASSUME \A u \in Threads : ~ Saving(task'[u]) PROVE RestInv'
  BY <1>1, <1>6
<1> QED
  BY <1>1, <1>4, <1>5, <1>6 DEF StoreInv, CalmInv, Saving, Typed

\* A thread that starts while the history stays calm is alone.
LEMMA StartsAlone ==
  ASSUME NEW t \in Threads, NEW job, Start(t, job), holder = NoThread, calm'
  PROVE  calm /\ AllIdle /\ task' = [task EXCEPT ![t] = job]
  BY StoreAssumption DEF Start, AllIdle

\* Without a save under way nothing is half done.
LEMMA AtRest ==
  ASSUME StoreInv, calm, NEW t \in Threads, AllIdle \/ task[t] # Idle, ~ Saving(task[t])
  PROVE  Typed /\ RestInv
<1>1. \A u \in Threads : ~ Saving(task[u])
  BY IdleFacts DEF StoreInv, CalmInv, AllIdle
<1> QED
  BY <1>1 DEF StoreInv, CalmInv

LEMMA RestPlans ==
  ASSUME Typed, RestInv
  PROVE  /\ Reads(disk, recorded)
         /\ saved # << >> => IsChain(saved) /\ Stores(disk, saved)
         /\ failures = 0 =>
              /\ saved # << >>
              /\ \A h \in Heights : disk[h] # NoBlock => Reads(disk, h) /\ h <= recorded
<1>1. ASSUME Ends(disk, recorded), NEW h \in Heights, disk[h] # NoBlock
      PROVE  Reads(disk, h) /\ h <= recorded
  <2>1. h \in Nat /\ recorded \in Nat /\ h <= recorded
    BY <1>1, HeightsFacts DEF Ends, Typed
  <2> QED
    BY <2>1 DEF RestInv, Reads
<1> QED
  BY <1>1 DEF RestInv, Typed

\* The chain is changed and a save begins.
LEMMA ChainChange ==
  ASSUME StoreInv, calm, NEW t \in Threads, AllIdle \/ task[t] # Idle, ~ Saving(task[t]),
         task' = [task EXCEPT ![t] = SaveJob(NoBlock)],
         IsChain(chain)', UNCHANGED <<recorded, disk, failures, saved>>
  PROVE  StoreInv'
<1>1. Typed /\ RestInv
  BY AtRest
<1>2. PICK job : job = SaveJob(NoBlock)
  OBVIOUS
<1>3. job.pc = "plan" /\ task' = [task EXCEPT ![t] = job]
  BY <1>2 DEF SaveJob
<1>4. Typed'
  BY <1>1 DEF Typed
<1>5. PlanInv'
  BY <1>1, RestPlans DEF PlanInv
<1>6. JobInv(job)' /\ Saving(job)
  BY <1>3, <1>5 DEF JobInv, Saving
<1> QED
  BY <1>3, <1>4, <1>6, NextJob

-----------------------------------------------------------------------------
(* The steps.                                                               *)

LEMMA NotCalm ==
  ASSUME StoreInv, ~ calm', NEW t \in Threads, NEW job, task' = [task EXCEPT ![t] = job],
         failures' \in {failures, failures + 1}
  PROVE  StoreInv'
  BY DEF StoreInv

LEMMA AddBlockKeeps ==
  ASSUME StoreInv, NEW t \in Threads, NEW b \in Blocks, AddBlock(t, b)
  PROVE  StoreInv'
<1>1. PICK job : job = [pc |-> "put", blk |-> b]
  OBVIOUS
<1>2. /\ job.pc = "put" /\ job.blk = b /\ Start(t, job) /\ holder = NoThread
      /\ chain' = Append(chain, b) /\ task[t] = Idle
      /\ UNCHANGED <<recorded, disk, failures, saved>>
  BY <1>1 DEF AddBlock, StartLocked, dsk
<1>3. CASE ~ calm'
  BY <1>2, <1>3, NotCalm DEF Start
<1>4. CASE calm'
  <2>1. calm /\ AllIdle /\ task' = [task EXCEPT ![t] = job]
    BY <1>2, <1>4, StartsAlone
  <2>2. Typed /\ RestInv
    BY <1>2, <2>1, AtRest, IdleFacts
  <2>3. IsChain(chain) /\ Len(chain) \in Nat \ {0} /\ chain \in Seq(Blocks)
    BY <2>2, ChainFacts DEF Typed
  <2>4. b # Genesis /\ Parent[b] = Last(chain)
    BY <2>3 DEF AddBlock
  <2>5. PICK c : c = Append(chain, b)
    OBVIOUS
  <2>6. IsChain(c) /\ Len(c) = Len(chain) + 1 /\ Last(c) = b /\ Prefix(c, Len(chain)) = chain /\ chain' = c
    BY <1>2, <2>3, <2>4, <2>5, ChainAppend
  <2>7. Typed'
    BY <1>2, <2>2, <2>6 DEF Typed
  <2>8. Len(c) > 1 /\ Len(c) - 1 = Len(chain)
    BY <2>3, <2>6
  <2>9. PutInv(b)'
    BY <1>2, <2>2, <2>6, <2>8 DEF PutInv, RestInv
  <2>10. JobInv(job)' /\ Saving(job)
    BY <1>2, <2>9 DEF JobInv, Saving
  <2> QED
    BY <2>1, <2>7, <2>10, NextJob
<1> QED
  BY <1>3, <1>4

LEMMA MergeKeeps ==
  ASSUME StoreInv, NEW t \in Threads, NEW b \in Blocks, Merge(t, b)
  PROVE  StoreInv'
<1>1. /\ Start(t, SaveJob(NoBlock)) /\ holder = NoThread /\ task[t] = Idle
      /\ UNCHANGED <<recorded, disk, failures, saved>>
      /\ chain' = Path[b] \/ chain' = Prefix(chain, CommonLength(chain, Path[b]))
  BY DEF Merge, StartLocked, dsk
<1>2. CASE ~ calm'
  BY <1>1, <1>2, NotCalm DEF Start
<1>3. CASE calm'
  <2>1. calm /\ AllIdle /\ task' = [task EXCEPT ![t] = SaveJob(NoBlock)]
    BY <1>1, <1>3, StartsAlone
  <2>2. IsChain(chain) /\ IsChain(Path[b])
    BY <1>1, <2>1, AtRest, IdleFacts, PathIsChain DEF Typed
  <2>3. IsChain(Prefix(chain, CommonLength(chain, Path[b])))
    BY <2>2, CommonBounds, ChainPrefix
  <2>4. IsChain(chain')
    BY <1>1, <2>2, <2>3
  <2>5. IsChain(chain)'
    BY <2>4 DEF IsChain, Linked
  <2> QED
    BY <1>1, <2>1, <2>5, ChainChange, IdleFacts
<1> QED
  BY <1>2, <1>3

\* A save of the chain as it is.
LEMMA SaveKeeps ==
  ASSUME StoreInv, NEW t \in Threads, SaveAgain(t) \/ SaveUnlocked(t)
  PROVE  StoreInv'
<1>1. /\ task[t] = Idle /\ task' = [task EXCEPT ![t] = SaveJob(NoBlock)]
      /\ UNCHANGED <<chain, recorded, disk, failures, saved>>
  BY DEF SaveAgain, SaveUnlocked, StartLocked, Start, mem, dsk
<1>2. CASE ~ calm'
  BY <1>1, <1>2, NotCalm
<1>3. CASE calm'
  <2>1. calm /\ AllIdle
    BY <1>3, StartsAlone DEF SaveAgain, SaveUnlocked, StartLocked
  <2>2. IsChain(chain)
    BY <1>1, <2>1, AtRest, IdleFacts DEF Typed
  <2>3. IsChain(chain)'
    BY <1>1, <2>2 DEF IsChain, Linked
  <2> QED
    BY <1>1, <2>1, <2>3, ChainChange, IdleFacts
<1> QED
  BY <1>2, <1>3

LEMMA RollbackKeeps ==
  ASSUME StoreInv, NEW t \in Threads, NEW h \in Heights, RollbackToHeight(t, h)
  PROVE  StoreInv'
<1>1. /\ Start(t, SaveJob(NoBlock)) /\ holder = NoThread /\ task[t] = Idle
      /\ UNCHANGED <<recorded, disk, failures, saved>>
      /\ chain' = Prefix(chain, h + 1) /\ h \in 0..Top(chain)
  BY DEF RollbackToHeight, StartUnlocked, dsk
<1>2. CASE ~ calm'
  BY <1>1, <1>2, NotCalm DEF Start
<1>3. CASE calm'
  <2>1. calm /\ AllIdle /\ task' = [task EXCEPT ![t] = SaveJob(NoBlock)]
    BY <1>1, <1>3, StartsAlone
  <2>2. IsChain(chain)
    BY <1>1, <2>1, AtRest, IdleFacts DEF Typed
  <2>3. h + 1 \in 1..Len(chain)
    BY <1>1, <2>2, ChainFacts
  <2>4. IsChain(chain')
    BY <1>1, <2>2, <2>3, ChainPrefix
  <2>5. IsChain(chain)'
    BY <2>4 DEF IsChain, Linked
  <2> QED
    BY <1>1, <2>1, <2>5, ChainChange, IdleFacts
<1> QED
  BY <1>2, <1>3

LEMMA SnapshotEndKeeps ==
  ASSUME StoreInv, NEW t \in Threads, NEW b \in Blocks, SnapshotEnd(t, b)
  PROVE  StoreInv'
<1>1. PICK job : job = [pc |-> "apply", blk |-> b]
  OBVIOUS
<1>2. /\ job.pc = "apply" /\ job.blk = b /\ Start(t, job) /\ holder = NoThread /\ task[t] = Idle
      /\ UNCHANGED <<chain, recorded, disk, failures, saved>>
  BY <1>1 DEF SnapshotEnd, StartUnlocked, mem, dsk
<1>3. CASE ~ calm'
  BY <1>2, <1>3, NotCalm DEF Start
<1>4. CASE calm'
  <2>1. calm /\ AllIdle /\ task' = [task EXCEPT ![t] = job]
    BY <1>2, <1>4, StartsAlone
  <2>2. Typed /\ RestInv
    BY <1>2, <2>1, AtRest, IdleFacts
  <2>3. Typed' /\ RestInv' /\ JobInv(job)'
    BY <1>2, <2>2 DEF Typed, RestInv, JobInv, IsChain, Linked, Stores, Reads, IsDisk, Ends, Top
  <2> QED
    BY <2>1, <2>3, NextJob
<1> QED
  BY <1>3, <1>4

LEMMA SnapshotApplyKeeps ==
  ASSUME StoreInv, NEW t \in Threads, SnapshotApply(t)
  PROVE  StoreInv'
<1>1. /\ task[t].pc = "apply" /\ UNCHANGED <<recorded, disk, failures, saved, calm>>
      /\ \/ chain' = Path[task[t].blk] /\ task' = [task EXCEPT ![t] = SaveJob(NoBlock)]
         \/ UNCHANGED chain /\ task' = [task EXCEPT ![t] = Idle]
  BY DEF SnapshotApply, dsk
<1>2. CASE ~ calm'
  BY <1>1, <1>2, NotCalm
<1>3. CASE calm'
  <2>1. calm /\ task[t] # Idle /\ ~ Saving(task[t])
    BY <1>1, <1>3, IdleFacts DEF Saving
  <2>2. Typed /\ RestInv /\ task[t].blk \in Blocks
    BY <1>1, <2>1, AtRest DEF StoreInv, CalmInv, JobInv
  <2>3. CASE chain' = Path[task[t].blk] /\ task' = [task EXCEPT ![t] = SaveJob(NoBlock)]
    <3>1. IsChain(chain')
      BY <2>2, <2>3, PathIsChain
    <3>2. IsChain(chain)'
      BY <3>1 DEF IsChain, Linked
    <3> QED
      BY <1>1, <2>1, <2>3, <3>2, ChainChange
  <2>4. CASE UNCHANGED chain /\ task' = [task EXCEPT ![t] = Idle]
    <3>1. Typed' /\ RestInv' /\ JobInv(Idle)'
      BY <1>1, <2>2, <2>4, IdleFacts
         DEF Typed, RestInv, JobInv, IsChain, Linked, Stores, Reads, IsDisk, Ends, Top
    <3>2. PICK job : job = Idle
      OBVIOUS
    <3>3. JobInv(job)' /\ task' = [task EXCEPT ![t] = job]
      BY <2>4, <3>2, IdleFacts DEF JobInv
    <3> QED
      BY <2>1, <3>1, <3>3, NextJob
  <2> QED
    BY <1>1, <2>3, <2>4
<1> QED
  BY <1>2, <1>3

LEMMA PutBlockKeeps ==
  ASSUME StoreInv, NEW t \in Threads, PutBlock(t)
  PROVE  StoreInv'
<1>1. PICK b, put : b = task[t].blk /\ put = [disk EXCEPT ![Index[b]] = b]
  OBVIOUS
<1>2. /\ task[t].pc = "put" /\ UNCHANGED <<chain, recorded>>
      /\ calm' = (calm /\ Index[b] > recorded)
      /\ \/ /\ disk' = put /\ task' = [task EXCEPT ![t] = SaveJob(b)]
            /\ UNCHANGED <<failures, saved>>
         \/ /\ failures' = failures + 1 /\ saved' = << >> /\ disk' \in {disk, put}
            /\ task' = [task EXCEPT ![t] = Idle]
  BY <1>1 DEF PutBlock, Fail, Stop, mem
<1>3. CASE ~ calm'
  BY <1>2, <1>3, NotCalm
<1>4. CASE calm'
  <2>1. calm /\ Index[b] > recorded /\ task[t] # Idle
    BY <1>2, <1>4, IdleFacts
  <2>2. Typed /\ PutInv(b)
    BY <1>1, <1>2, <2>1 DEF StoreInv, CalmInv, JobInv
  <2>3. /\ IsChain(chain) /\ chain \in Seq(Blocks) /\ Len(chain) \in Nat \ {0} /\ Top(chain) = Len(chain) - 1
        /\ Len(chain) > 1 /\ recorded \in Nat /\ failures \in Nat
    BY <2>2, ChainFacts DEF Typed, PutInv, Top
  <2>4. b \in Blocks /\ b = chain[Len(chain)] /\ Index[b] = Top(chain) /\ Index[b] \in Heights
    <3>1. Index[chain[Len(chain)]] = Len(chain) - 1
      BY <2>3 DEF IsChain
    <3> QED
      BY <2>2, <2>3, <3>1 DEF PutInv, Last, Heights
  <2>5. \A h \in Heights : put[h] = IF h = Index[b] THEN b ELSE disk[h]
    BY <1>1, <2>2 DEF Typed, IsDisk
  <2>6. IsDisk(put) /\ put[0] = Genesis
    <3>1. put \in [Heights -> Blocks \union {NoBlock}]
      BY <1>1, <2>2, <2>4 DEF Typed, IsDisk
    <3>2. \A h \in Heights : put[h] # NoBlock => Index[put[h]] = h
      BY <2>2, <2>5 DEF Typed, IsDisk
    <3>3. put[0] = Genesis
      BY <2>1, <2>2, <2>3, <2>5, HeightsFacts DEF Typed
    <3> QED
      BY <3>1, <3>2, <3>3 DEF IsDisk
  <2>7. \A n \in Nat : n <= recorded => Reads(put, n)
    <3> SUFFICES ASSUME NEW n \in Nat, n <= recorded, NEW h \in 0..n
                 PROVE  /\ h \in Heights /\ put[h] # NoBlock
                        /\ h > 0 => Parent[put[h]] = put[h - 1]
      BY DEF Reads
    <3>1. h \in 0..recorded /\ h # Index[b] /\ h - 1 # Index[b]
      BY <2>1, <2>3, <2>4
    <3>2. h \in Heights /\ disk[h] # NoBlock /\ (h > 0 => Parent[disk[h]] = disk[h - 1])
      BY <2>2, <3>1 DEF PutInv, Reads
    <3>3. h > 0 => h - 1 \in Heights
      <4>1. h > 0 => h - 1 \in 0..recorded
        BY <2>3, <3>1
      <4> QED
        BY <2>2, <4>1 DEF PutInv, Reads
    <3> QED
      BY <2>5, <3>1, <3>2, <3>3
  <2>8. Reads(put, recorded)
    BY <2>3, <2>7
  <2>9. CASE /\ disk' = put /\ task' = [task EXCEPT ![t] = SaveJob(b)]
             /\ UNCHANGED <<failures, saved>>
    <3>1. saved # << >> => IsChain(saved) /\ Stores(put, saved) /\ Stores(put, chain)
      <4> SUFFICES ASSUME saved # << >>
                   PROVE  IsChain(saved) /\ Stores(put, saved) /\ Stores(put, chain)
        OBVIOUS
      <4>1. PICK n : n = Len(chain) - 1
        OBVIOUS
      <4>2. n \in 1..Len(chain) /\ saved = Prefix(chain, n) /\ Stores(disk, saved)
        BY <2>2, <2>3, <4>1 DEF PutInv
      <4>3. IsChain(saved) /\ Len(saved) = n
        BY <2>3, <4>2, ChainPrefix
      <4>4. \A i \in 1..n : put[i - 1] = disk[i - 1]
        <5>1. \A i \in 1..n : i - 1 \in Heights
          BY <4>3, ChainFacts
        <5> QED
          BY <2>3, <2>4, <2>5, <4>1, <5>1
      <4>5. Stores(put, saved)
        BY <4>2, <4>3, <4>4 DEF Stores
      <4>6. \A i \in 1..n : saved[i] = chain[i]
        BY <2>3, <4>2 DEF Prefix
      <4>7. put[Len(chain) - 1] = chain[Len(chain)]
        BY <2>3, <2>4, <2>5
      <4>8. Stores(put, chain)
        BY <2>3, <4>1, <4>3, <4>5, <4>6, <4>7 DEF Stores
      <4> QED
        BY <4>3, <4>5, <4>8
    <3>2. ASSUME failures = 0, NEW h \in Heights, put[h] # NoBlock
          PROVE  Reads(put, h) /\ (h <= recorded \/ h <= Top(chain))
      <4>1. CASE h = Index[b]
        <5>1. saved # << >> /\ h \in 0..Top(chain) /\ h <= Top(chain)
          BY <2>2, <2>3, <2>4, <3>2, <4>1 DEF PutInv
        <5> QED
          BY <2>3, <3>1, <5>1, StoredReads
      <4>2. CASE h # Index[b]
        <5>1. h \in Nat /\ h <= recorded
          BY <2>2, <2>3, <2>5, <3>2, <4>2, HeightsFacts DEF PutInv, Ends
        <5> QED
          BY <2>7, <5>1
      <4> QED
        BY <4>1, <4>2
    <3>3. failures = 0 => saved # << >>
      BY <2>2 DEF PutInv
    <3>4. PICK job : job = SaveJob(b)
      OBVIOUS
    <3>5. job.pc = "plan" /\ task' = [task EXCEPT ![t] = job]
      BY <2>9, <3>4 DEF SaveJob
    <3>6. Typed'
      BY <1>2, <2>2, <2>6, <2>9 DEF Typed
    <3>7. PlanInv'
      BY <1>2, <2>8, <2>9, <3>1, <3>2, <3>3 DEF PlanInv
    <3>8. JobInv(job)' /\ Saving(job)
      BY <3>5, <3>7 DEF JobInv, Saving
    <3> QED
      BY <2>1, <3>5, <3>6, <3>8, NextJob
  <2>10. CASE /\ failures' = failures + 1 /\ saved' = << >> /\ disk' \in {disk, put}
              /\ task' = [task EXCEPT ![t] = Idle]
    <3>1. Typed'
      BY <1>2, <2>2, <2>6, <2>10 DEF Typed
    <3>2. Reads(disk', recorded)
      BY <2>2, <2>8, <2>10 DEF PutInv
    <3>3. RestInv'
      BY <1>2, <2>3, <2>10, <3>2 DEF RestInv
    <3>4. PICK job : job = Idle
      OBVIOUS
    <3>5. JobInv(job)' /\ task' = [task EXCEPT ![t] = job]
      BY <2>10, <3>4, IdleFacts DEF JobInv
    <3> QED
      BY <2>1, <3>1, <3>3, <3>5, NextJob
  <2> QED
    BY <1>2, <2>9, <2>10
<1> QED
  BY <1>3, <1>4

LEMMA PlanSaveKeeps ==
  ASSUME StoreInv, NEW t \in Threads, PlanSave(t)
  PROVE  StoreInv'
<1>1. PICK job : job = [pc |-> "commit", blk |-> task[t].blk, batch |-> Batch]
  OBVIOUS
<1>2. /\ task[t].pc = "plan" /\ task' = [task EXCEPT ![t] = job]
      /\ job.pc = "commit" /\ job.batch = Batch
      /\ UNCHANGED <<chain, recorded, disk, lastHeight, failures, saved, calm>>
  BY <1>1 DEF PlanSave, mem, dsk
<1>3. CASE ~ calm'
  BY <1>2, <1>3, NotCalm
<1>4. CASE calm'
  <2>1. calm /\ task[t] # Idle
    BY <1>2, <1>4, IdleFacts
  <2>2. Typed /\ PlanInv
    BY <1>2, <2>1 DEF StoreInv, CalmInv, JobInv
  <2>3. Typed'
    BY <1>2, <2>2 DEF Typed
  <2>4. PlanInv'
    BY <1>2, <2>2 DEF PlanInv
  <2>5. Batch' = Batch
    BY <1>2 DEF Batch, RewriteFrom, Agree, RecordedHeight, Top
  <2>6. JobInv(job)' /\ Saving(job)
    BY <1>2, <2>4, <2>5 DEF JobInv, Saving
  <2> QED
    BY <1>2, <2>1, <2>3, <2>6, NextJob
<1> QED
  BY <1>3, <1>4

LEMMA WriteBatchKeeps ==
  ASSUME StoreInv, NEW t \in Threads, WriteBatch(t)
  PROVE  StoreInv'
<1>1. PICK b, job : /\ b = task[t].batch
                    /\ job = [pc |-> "written", blk |-> task[t].blk, batch |-> task[t].batch]
  OBVIOUS
<1>2. /\ task[t].pc = "commit" /\ UNCHANGED <<chain, recorded, calm>>
      /\ job.pc = "written" /\ job.batch = b
      /\ \/ /\ disk' = Written(b) /\ saved' = b.chain /\ UNCHANGED failures
            /\ task' = [task EXCEPT ![t] = job]
         \/ /\ failures' = failures + 1 /\ saved' = << >> /\ UNCHANGED disk
            /\ task' = [task EXCEPT ![t] = Idle]
  BY <1>1 DEF WriteBatch, Fail, Stop, mem
<1>3. CASE ~ calm'
  BY <1>2, <1>3, NotCalm
<1>4. CASE calm'
  <2>1. calm /\ task[t] # Idle
    BY <1>2, <1>4, IdleFacts
  <2>2. Typed /\ PlanInv /\ b = Batch
    BY <1>1, <1>2, <2>1 DEF StoreInv, CalmInv, JobInv
  <2>3. /\ IsChain(chain) /\ Len(chain) \in Nat \ {0} /\ Top(chain) = Len(chain) - 1
        /\ recorded \in Nat /\ failures \in Nat
    BY <2>2, ChainFacts DEF Typed, Top
  <2>4. CASE /\ disk' = Written(b) /\ saved' = b.chain /\ UNCHANGED failures
             /\ task' = [task EXCEPT ![t] = job]
    <3>1. b.chain = chain /\ b.from = RewriteFrom(chain, recorded) /\ b.upTo = recorded
      BY <2>2, <2>3 DEF Batch, RecordedHeight
    <3>2. b.from \in Nat /\ \A h \in 0..(b.from - 1) : h <= Top(chain) /\ disk[h] = chain[h + 1]
      BY <2>2, <2>3, <3>1, RewriteFromIs DEF PlanInv
    <3>3. /\ IsDisk(Written(b)) /\ Stores(Written(b), b.chain)
          /\ \A h \in Heights : h > Top(b.chain) =>
               Written(b)[h] = IF h <= b.upTo THEN NoBlock ELSE disk[h]
      BY <2>2, <2>3, <3>1, <3>2, WrittenIs DEF Typed
    <3>4. PICK d : d = Written(b)
      OBVIOUS
    <3>5. /\ IsDisk(d) /\ Stores(d, chain)
          /\ \A h \in Heights : h > Top(chain) =>
               d[h] = IF h <= recorded THEN NoBlock ELSE disk[h]
      BY <3>1, <3>3, <3>4
    <3>6. d[0] = Genesis
      <4>1. 1 \in 1..Len(chain) /\ chain[1] = Genesis
        BY <2>3, ChainFacts
      <4>2. d[1 - 1] = chain[1]
        BY <3>5, <4>1 DEF Stores
      <4> QED
        BY <4>1, <4>2
    <3>7. Typed'
      BY <1>2, <2>2, <2>4, <3>4, <3>5, <3>6 DEF Typed
    <3>8. failures = 0 => Ends(d, Top(chain))
      <4> SUFFICES ASSUME failures = 0, NEW h \in Heights, h > Top(chain) PROVE d[h] = NoBlock
        BY DEF Ends
      <4>1. h <= recorded \/ disk[h] = NoBlock
        <5>1. h \in Nat /\ ~ (h <= Top(chain))
          BY <2>3, HeightsFacts
        <5> QED
          BY <2>2, <5>1 DEF PlanInv
      <4> QED
        BY <3>5, <4>1
    <3>9. WrittenInv(b)'
      BY <1>2, <2>4, <3>1, <3>4, <3>5, <3>8 DEF WrittenInv
    <3>10. JobInv(job)' /\ Saving(job)
      BY <1>2, <3>9 DEF JobInv, Saving
    <3> QED
      BY <2>1, <2>4, <3>7, <3>10, NextJob
  <2>5. CASE /\ failures' = failures + 1 /\ saved' = << >> /\ UNCHANGED disk
             /\ task' = [task EXCEPT ![t] = Idle]
    <3>1. Typed'
      BY <1>2, <2>2, <2>3, <2>5 DEF Typed
    <3>2. RestInv'
      BY <1>2, <2>2, <2>3, <2>5 DEF RestInv, PlanInv
    <3>3. PICK job0 : job0 = Idle
      OBVIOUS
    <3>4. JobInv(job0)' /\ task' = [task EXCEPT ![t] = job0]
      BY <2>5, <3>3, IdleFacts DEF JobInv
    <3> QED
      BY <2>1, <3>1, <3>2, <3>4, NextJob
  <2> QED
    BY <1>2, <2>4, <2>5
<1> QED
  BY <1>3, <1>4

LEMMA EndSaveKeeps ==
  ASSUME StoreInv, NEW t \in Threads, EndSave(t)
  PROVE  StoreInv'
<1>1. PICK b, job : /\ b = task[t].batch
                    /\ job = [pc |-> "checkpoint", blk |-> task[t].blk]
  OBVIOUS
<1>2. /\ task[t].pc = "written" /\ UNCHANGED <<chain, disk, failures, saved, calm>>
      /\ recorded' = Top(b.chain) /\ job.pc = "checkpoint"
      /\ task' = [task EXCEPT ![t] = job] \/ task' = [task EXCEPT ![t] = Idle]
  BY <1>1 DEF EndSave, Stop, dsk
<1>3. CASE ~ calm'
  BY <1>2, <1>3, NotCalm
<1>4. CASE calm'
  <2>1. calm /\ task[t] # Idle
    BY <1>2, <1>4, IdleFacts
  <2>2. Typed /\ WrittenInv(b)
    BY <1>1, <1>2, <2>1 DEF StoreInv, CalmInv, JobInv
  <2>3. IsChain(chain) /\ Len(chain) \in Nat \ {0} /\ Top(chain) \in 0..Top(chain)
    BY <2>2, ChainFacts DEF Typed, Top
  <2>4. recorded' = Top(chain) /\ Reads(disk, Top(chain)) /\ chain # << >>
    BY <1>2, <2>2, <2>3, StoredReads DEF WrittenInv
  <2>5. Typed'
    BY <1>2, <2>2, <2>3, <2>4 DEF Typed
  <2>6. RestInv'
    <3>1. PICK n : n = recorded'
      OBVIOUS
    <3>2. Reads(disk, n) /\ (failures = 0 => Ends(disk, n)) /\ n = Top(chain)
      BY <2>2, <2>4, <3>1 DEF WrittenInv
    <3> QED
      BY <1>2, <2>2, <2>4, <3>1, <3>2 DEF RestInv, WrittenInv, Top
  <2>7. PICK next : next \in {job, Idle} /\ task' = [task EXCEPT ![t] = next]
    BY <1>2
  <2>8. JobInv(next)'
    BY <1>2, <2>7, IdleFacts DEF JobInv
  <2> QED
    BY <2>1, <2>5, <2>6, <2>7, <2>8, NextJob
<1> QED
  BY <1>3, <1>4

LEMMA SaveCheckpointKeeps ==
  ASSUME StoreInv, NEW t \in Threads, SaveCheckpoint(t)
  PROVE  StoreInv'
<1>1. /\ task[t].pc = "checkpoint" /\ UNCHANGED <<chain, recorded, disk, failures, saved, calm>>
      /\ task' = [task EXCEPT ![t] = Idle]
  BY DEF SaveCheckpoint, Stop
<1>2. CASE ~ calm'
  BY <1>1, <1>2, NotCalm
<1>3. CASE calm'
  <2>1. calm /\ task[t] # Idle /\ ~ Saving(task[t])
    BY <1>1, <1>3, IdleFacts DEF Saving
  <2>2. Typed /\ RestInv
    BY <2>1, AtRest
  <2>3. Typed' /\ RestInv'
    BY <1>1, <2>2 DEF Typed, RestInv, IsChain, Linked, Stores, Reads, IsDisk, Ends, Top
  <2>4. PICK job : job = Idle
    OBVIOUS
  <2>5. JobInv(job)' /\ task' = [task EXCEPT ![t] = job]
    BY <1>1, <2>4, IdleFacts DEF JobInv
  <2> QED
    BY <2>1, <2>3, <2>5, NextJob
<1> QED
  BY <1>2, <1>3

-----------------------------------------------------------------------------
(* Loading, restarting and purging.                                         *)

\* Without failures, everything on disk can be loaded, whatever the thread at
\* work is doing.
LEMMA Whole ==
  ASSUME StoreInv, calm, failures = 0, NEW h \in Heights, disk[h] # NoBlock
  PROVE  Reads(disk, h)
<1>1. Typed /\ h \in Nat /\ IsChain(chain) /\ Len(chain) \in Nat \ {0} /\ Top(chain) = Len(chain) - 1
  BY HeightsFacts, ChainFacts DEF StoreInv, CalmInv, Typed, Top
<1>2. CASE \A t \in Threads : ~ Saving(task[t])
  BY <1>1, <1>2, RestPlans DEF StoreInv, CalmInv
<1>3. ASSUME NEW t \in Threads, Saving(task[t]) PROVE Reads(disk, h)
  <2>1. JobInv(task[t])
    BY DEF StoreInv, CalmInv
  <2>2. CASE task[t].pc = "put"
    <3>1. Reads(disk, recorded) /\ Ends(disk, recorded)
      BY <2>1, <2>2 DEF JobInv, PutInv
    <3>2. recorded \in Nat /\ h <= recorded
      BY <1>1, <3>1 DEF Ends, Typed
    <3> QED
      BY <1>1, <3>1, <3>2 DEF Reads
  <2>3. CASE task[t].pc \in {"plan", "commit"}
    BY <2>1, <2>3 DEF JobInv, PlanInv
  <2>4. CASE task[t].pc = "written"
    <3>1. Stores(disk, chain) /\ Ends(disk, Top(chain))
      BY <2>1, <2>4 DEF JobInv, WrittenInv
    <3>2. h \in 0..Top(chain)
      BY <1>1, <3>1 DEF Ends
    <3> QED
      BY <1>1, <3>1, <3>2, StoredReads
  <2> QED
    BY <1>3, <2>2, <2>3, <2>4 DEF Saving
<1> QED
  BY <1>2, <1>3

\* What is loaded from the disk of a calm history is at rest on it.
LEMMA LoadRests ==
  ASSUME StoreInv, calm, NEW n, n = LoadedLength - 1
  PROVE  /\ IsChain(Loaded) /\ Stores(disk, Loaded) /\ Loaded # << >> /\ Top(Loaded) = n
         /\ n \in Nat /\ Reads(disk, n) /\ LoadedLength > 0
         /\ failures = 0 => Ends(disk, n)
<1>1. /\ IsChain(Loaded) /\ Stores(disk, Loaded) /\ Len(Loaded) = LoadedLength
      /\ LoadedLength \in Nat \ {0} /\ Reads(disk, LoadedLength - 1)
      /\ \A k \in Nat : Reads(disk, k) => k <= LoadedLength - 1
  BY LoadedIsChain DEF StoreInv, CalmInv, Typed
<1>2. Loaded # << >> /\ Top(Loaded) = n /\ n \in Nat /\ LoadedLength > 0
  BY <1>1 DEF Top
<1>3. ASSUME failures = 0, NEW h \in Heights, h > n PROVE disk[h] = NoBlock
  <2>1. h \in Nat /\ ~ (h <= n)
    BY <1>2, <1>3, HeightsFacts
  <2> QED
    BY <1>1, <1>3, <2>1, Whole
<1> QED
  BY <1>1, <1>2, <1>3 DEF Ends

\* Every thread is stopped, or is idle anyway.
LEMMA AllStop ==
  ASSUME task' = [t \in Threads |-> Idle], Typed', RestInv'
  PROVE  StoreInv'
<1>1. \A t \in Threads : task'[t] = Idle
  OBVIOUS
<1>2. \A t \in Threads : JobInv(task[t])'
  BY <1>1, IdleFacts DEF JobInv
<1> QED
  BY <1>1, <1>2 DEF StoreInv, CalmInv, Typed

LEMMA LoadKeeps ==
  ASSUME StoreInv, calm, chain' = Loaded, recorded' = LoadedLength - 1, saved' = Loaded,
         task' = [t \in Threads |-> Idle], UNCHANGED <<disk, failures>>
  PROVE  StoreInv'
<1>1. PICK n, s : n = LoadedLength - 1 /\ s = Loaded
  OBVIOUS
<1>2. /\ IsChain(s) /\ Stores(disk, s) /\ s # << >> /\ Top(s) = n
      /\ n \in Nat /\ Reads(disk, n) /\ (failures = 0 => Ends(disk, n))
  BY <1>1, LoadRests
<1>3. chain' = s /\ recorded' = n /\ saved' = s
  BY <1>1
<1>4. Typed'
  BY <1>2, <1>3 DEF Typed, StoreInv, CalmInv
<1>5. RestInv'
  BY <1>2, <1>3 DEF RestInv
<1> QED
  BY <1>4, <1>5, AllStop

LEMMA ReloadKeeps ==
  ASSUME StoreInv, NEW t \in Threads, Reload(t)
  PROVE  StoreInv'
<1>1. /\ chain' = Loaded /\ recorded' = LoadedLength - 1 /\ saved' = Loaded
      /\ calm' = (calm /\ AllIdle) /\ UNCHANGED <<disk, task, failures>>
  BY DEF Reload, dsk
<1>2. CASE ~ calm'
  BY <1>1, <1>2 DEF StoreInv
<1>3. CASE calm'
  <2>1. task' = [u \in Threads |-> Idle]
    BY <1>1, <1>3 DEF StoreInv, AllIdle
  <2> QED
    BY <1>1, <1>3, <2>1, LoadKeeps
<1> QED
  BY <1>2, <1>3

LEMMA FreshChain == IsChain(<<Genesis>>) /\ Top(<<Genesis>>) = 0
  BY BlocksAssumption, StoreAssumption DEF IsChain, Linked, Top

\* A database that holds the genesis block alone.
LEMMA FreshKeeps ==
  ASSUME chain' = <<Genesis>>, recorded' = 0, saved' = <<Genesis>>, failures' \in Nat,
         task' = [t \in Threads |-> Idle],
         disk' = [h \in Heights |-> IF h = 0 THEN Genesis ELSE NoBlock]
  PROVE  StoreInv'
<1>1. PICK d : d = disk'
  OBVIOUS
<1>2. /\ d \in [Heights -> Blocks \union {NoBlock}] /\ d[0] = Genesis
      /\ \A h \in Heights : h # 0 => d[h] = NoBlock
  BY <1>1, HeightsFacts, BlocksAssumption
<1>3. IsDisk(d)
  BY <1>2, StoreAssumption DEF IsDisk
<1>4. Reads(d, 0) /\ Ends(d, 0) /\ Stores(d, <<Genesis>>)
  <2>1. Reads(d, 0)
    BY <1>2, HeightsFacts, BlocksAssumption, StoreAssumption DEF Reads
  <2>2. Ends(d, 0)
    BY <1>2, HeightsFacts DEF Ends
  <2>3. Stores(d, <<Genesis>>)
    BY <1>2 DEF Stores
  <2> QED
    BY <2>1, <2>2, <2>3
<1>5. PICK n, s : n = 0 /\ s = <<Genesis>>
  OBVIOUS
<1>6. /\ chain' = s /\ recorded' = n /\ saved' = s /\ n \in Nat /\ IsChain(s) /\ Top(s) = n
      /\ s # << >> /\ Reads(d, n) /\ Ends(d, n) /\ Stores(d, s)
  BY <1>4, <1>5, FreshChain
<1>7. Typed'
  BY <1>1, <1>2, <1>3, <1>6 DEF Typed
<1>8. RestInv'
  BY <1>1, <1>6 DEF RestInv
<1> QED
  BY <1>7, <1>8, AllStop

LEMMA RestartKeeps ==
  ASSUME StoreInv, Restart
  PROVE  StoreInv'
<1>1. /\ task' = [t \in Threads |-> Idle] /\ UNCHANGED failures
      /\ calm' = (calm \/ \A h \in Heights : disk[h] = NoBlock)
  BY DEF Restart
<1>2. CASE calm
  <2>1. LoadedLength > 0 /\ Top(Loaded) = LoadedLength - 1
    BY <1>2, LoadRests
  <2>2. chain' = Loaded /\ recorded' = LoadedLength - 1 /\ saved' = Loaded /\ UNCHANGED disk
    BY <2>1 DEF Restart, dsk
  <2> QED
    BY <1>1, <1>2, <2>2, LoadKeeps
<1>3. CASE \A h \in Heights : disk[h] = NoBlock
  <2>1. ~ (LoadedLength > 0)
    <3>1. ~ Reads(disk, 0)
      BY <1>3, HeightsFacts DEF Reads
    <3> QED
      BY <3>1, LoadedShape
  <2>2. PICK fresh : fresh = [chain |-> <<Genesis>>, from |-> 0, upTo |-> lastHeight]
    OBVIOUS
  <2>3. /\ chain' = <<Genesis>> /\ recorded' = Top(<<Genesis>>) /\ saved' = <<Genesis>>
        /\ disk' = Written(fresh)
    BY <2>1, <2>2 DEF Restart
  <2>4. /\ fresh.chain = <<Genesis>> /\ fresh.from = 0 /\ Top(fresh.chain) = 0
        /\ fresh.chain[1] = Genesis
    BY <2>2, FreshChain
  <2>5. Written(fresh) = [h \in Heights |-> IF h = 0 THEN Genesis ELSE NoBlock]
    <3>1. PICK d : d = [h \in Heights |-> IF h = 0 THEN Genesis ELSE NoBlock]
      OBVIOUS
    <3>2. \A h \in Heights : h \in Nat /\ (h >= 0 /\ h <= 0 <=> h = 0)
      BY HeightsFacts
    <3>3. \A h \in Heights : (IF h >= fresh.from /\ h <= Top(fresh.chain) THEN fresh.chain[h + 1]
                              ELSE IF h > Top(fresh.chain) /\ h <= fresh.upTo THEN NoBlock
                              ELSE disk[h]) = IF h = 0 THEN Genesis ELSE NoBlock
      BY <1>3, <2>4, <3>2
    <3> QED
      BY <3>3 DEF Written
  <2> QED
    BY <1>1, <2>3, <2>5, FreshChain, FreshKeeps DEF StoreInv
<1>4. CASE ~ calm'
  BY <1>1, <1>4 DEF StoreInv
<1> QED
  BY <1>1, <1>2, <1>3, <1>4

LEMMA PurgeKeeps == StoreInv /\ Purge => StoreInv'
  BY DEF StoreInv, Purge

LEMMA InitStoreInv == Init => StoreInv
<1> SUFFICES ASSUME Init PROVE StoreInv
  OBVIOUS
<1>1. /\ disk \in [Heights -> Blocks \union {NoBlock}] /\ disk[0] = Genesis
      /\ \A h \in Heights : h # 0 => disk[h] = NoBlock
  BY HeightsFacts, BlocksAssumption DEF Init
<1>2. IsDisk(disk) /\ IsChain(chain) /\ Top(chain) = 0
  BY <1>1, FreshChain, StoreAssumption DEF IsDisk, Init
<1>3. Reads(disk, 0) /\ Ends(disk, 0) /\ Stores(disk, chain) /\ chain # << >>
  <2>1. Reads(disk, 0)
    BY <1>1, HeightsFacts, BlocksAssumption, StoreAssumption DEF Reads
  <2>2. Ends(disk, 0)
    BY <1>1, HeightsFacts DEF Ends
  <2>3. Stores(disk, chain) /\ chain # << >>
    BY <1>1 DEF Stores, Init
  <2> QED
    BY <2>1, <2>2, <2>3
<1>4. Typed /\ RestInv
  BY <1>1, <1>2, <1>3 DEF Typed, RestInv, Init
<1>5. \A t \in Threads : task[t] = Idle
  BY DEF Init
<1>6. \A t \in Threads : JobInv(task[t])
  BY <1>5, IdleFacts DEF JobInv
<1>7. task = [t \in Threads |-> task[t]]
  BY DEF Init
<1> QED
  BY <1>4, <1>5, <1>6, <1>7 DEF StoreInv, CalmInv, Typed

LEMMA StutterKeeps ==
  ASSUME StoreInv, UNCHANGED vars
  PROVE  StoreInv'
<1>1. UNCHANGED <<chain, disk, recorded, lastHeight, task, failures, saved, calm>>
  BY DEF vars, mem, dsk
<1>2. Batch' = Batch
  BY <1>1 DEF Batch, RewriteFrom, Agree, RecordedHeight, Top
<1>3. PlanInv => PlanInv'
  BY <1>1 DEF PlanInv
<1>4. RestInv => RestInv'
  BY <1>1 DEF RestInv
<1>5. Typed => Typed'
  BY <1>1 DEF Typed
<1>6. ASSUME NEW t \in Threads, JobInv(task[t]) PROVE JobInv(task[t])'
  <2>1. PICK job : job = task[t] /\ job = task'[t]
    BY <1>1
  <2>2. PutInv(job.blk) => PutInv(job.blk)'
    BY <1>1 DEF PutInv
  <2>3. WrittenInv(job.batch) => WrittenInv(job.batch)'
    BY <1>1 DEF WrittenInv
  <2>4. JobInv(job)'
    BY <1>2, <1>3, <1>6, <2>1, <2>2, <2>3 DEF JobInv
  <2> QED
    BY <1>1, <2>1, <2>4 DEF JobInv, PutInv, WrittenInv
<1> QED
  BY <1>1, <1>4, <1>5, <1>6 DEF StoreInv, CalmInv, Saving

LEMMA NextStoreInv == StoreInv /\ [Next]_vars => StoreInv'
<1> SUFFICES ASSUME StoreInv, [Next]_vars PROVE StoreInv'
  OBVIOUS
<1>1. ASSUME NEW t \in Threads, LockedStep(t) PROVE StoreInv'
  BY <1>1, AddBlockKeeps, MergeKeeps, SaveKeeps, PutBlockKeeps, PlanSaveKeeps, WriteBatchKeeps,
     EndSaveKeeps, SaveCheckpointKeeps DEF LockedStep
<1>2. ASSUME NEW t \in Threads, UnlockedStep(t) PROVE StoreInv'
  BY <1>2, SnapshotEndKeeps, SnapshotApplyKeeps, SaveKeeps, RollbackKeeps, ReloadKeeps
     DEF UnlockedStep
<1>3. CASE UNCHANGED vars
  BY <1>3, StutterKeeps
<1> QED
  BY <1>1, <1>2, <1>3, RestartKeeps, PurgeKeeps DEF Next

LEMMA StoreInvariant == Spec => []StoreInv
  BY InitStoreInv, NextStoreInv, PTL DEF Spec

\* Whatever the thread at work is doing, what was saved last is on disk.
LEMMA SavedStored ==
  ASSUME StoreInv, calm, saved # << >>
  PROVE  IsChain(saved) /\ Stores(disk, saved)
<1>1. IsChain(chain) /\ Len(chain) \in Nat
  BY ChainFacts DEF StoreInv, CalmInv, Typed
<1>2. CASE \A t \in Threads : ~ Saving(task[t])
  BY <1>1, <1>2 DEF StoreInv, CalmInv, RestInv
<1>3. ASSUME NEW t \in Threads, Saving(task[t]) PROVE IsChain(saved) /\ Stores(disk, saved)
  <2>1. JobInv(task[t])
    BY DEF StoreInv, CalmInv
  <2>2. CASE task[t].pc = "put"
    <3>1. /\ Len(chain) > 1 /\ saved = Prefix(chain, Len(chain) - 1) /\ Stores(disk, saved)
      BY <2>1, <2>2 DEF JobInv, PutInv
    <3>2. PICK n \in 1..Len(chain) : n = Len(chain) - 1
      BY <1>1, <3>1
    <3> QED
      BY <1>1, <3>1, <3>2, ChainPrefix
  <2>3. CASE task[t].pc \in {"plan", "commit"}
    BY <2>1, <2>3 DEF JobInv, PlanInv
  <2>4. CASE task[t].pc = "written"
    BY <1>1, <2>1, <2>4 DEF JobInv, WrittenInv
  <2> QED
    BY <1>3, <2>2, <2>3, <2>4 DEF Saving
<1> QED
  BY <1>2, <1>3

-----------------------------------------------------------------------------
(* The decimal keys of cfCheck: Digits, the order of the keys and their     *)
(* last one.                                                                *)

\* Division by the radix.
LEMMA Division ==
  ASSUME NEW n \in Nat
  PROVE  /\ n \div Base \in Nat /\ n % Base \in 0..(Base - 1)
         /\ n = Base * (n \div Base) + (n % Base)
  BY BaseAssumption

LEMMA DivisionLess ==
  ASSUME NEW n \in Nat, ~ (n < Base)
  PROVE  n \div Base < n
<1>1. PICK q, r, B : q = n \div Base /\ r = n % Base /\ B = Base
  OBVIOUS
<1>2. B \in Nat \ {0, 1} /\ q \in Nat /\ r \in Nat /\ n = B * q + r /\ n > 0
  BY <1>1, Division, BaseAssumption
<1>3. CASE q = 0
  BY <1>1, <1>2, <1>3
<1>4. CASE q > 0
  <2>1. B * q >= 2 * q
    BY <1>2
  <2> QED
    BY <1>1, <1>2, <1>4, <2>1
<1> QED
  BY <1>2, <1>3, <1>4

DigitsStep(f, n) == IF n < Base THEN <<n>> ELSE Append(f[n \div Base], n % Base)
DigitsIn(dom, f) == f = [n \in dom |-> DigitsStep(f, n)]

LEMMA DigitsIs == Digits = CHOOSE f : DigitsIn(Nat, f)
  BY DEF Digits, DigitsIn, DigitsStep

\* Two solutions agree where both are defined.
LEMMA DigitsAgree ==
  ASSUME NEW m \in Nat, NEW n \in Nat, NEW f, NEW g, DigitsIn(0..m, f), DigitsIn(0..n, g),
         NEW k \in Nat, k <= m, k <= n
  PROVE  f[k] = g[k]
<1> DEFINE Wrong == {x \in Nat : x <= m /\ x <= n /\ f[x] # g[x]}
<1> SUFFICES ASSUME Wrong # {} PROVE FALSE
  OBVIOUS
<1>1. PICK x \in Wrong : \A y \in Wrong : x <= y
  <2>1. Wrong \subseteq Nat
    OBVIOUS
  <2> HIDE DEF Wrong
  <2> QED
    BY <2>1, LeastElement
<1>2. x \in 0..m /\ x \in 0..n /\ x \in Nat /\ f[x] # g[x]
  OBVIOUS
<1>3. f[x] = DigitsStep(f, x) /\ g[x] = DigitsStep(g, x)
  BY <1>2 DEF DigitsIn
<1>4. CASE x < Base
  BY <1>2, <1>3, <1>4 DEF DigitsStep
<1>5. CASE ~ (x < Base)
  <2>1. PICK q : q = x \div Base
    OBVIOUS
  <2>2. q \in Nat /\ q < x
    BY <1>2, <1>5, <2>1, Division, DivisionLess
  <2>3. q \notin Wrong
    <3>1. ~ (x <= q)
      BY <1>2, <2>2
    <3> HIDE DEF Wrong
    <3> QED
      BY <1>1, <3>1
  <2>4. f[q] = g[q]
    BY <1>2, <2>2, <2>3
  <2> QED
    BY <1>2, <1>3, <1>5, <2>1, <2>4 DEF DigitsStep
<1> QED
  BY <1>4, <1>5

\* A solution exists up to every number.
LEMMA DigitsUpTo ==
  ASSUME NEW n \in Nat
  PROVE  \E f : DigitsIn(0..n, f)
<1> DEFINE Unsolved == {k \in Nat : ~ \E f : DigitsIn(0..k, f)}
<1> SUFFICES ASSUME Unsolved # {} PROVE FALSE
  OBVIOUS
<1>1. PICK k \in Unsolved : \A y \in Unsolved : k <= y
  <2>1. Unsolved \subseteq Nat
    OBVIOUS
  <2> HIDE DEF Unsolved
  <2> QED
    BY <2>1, LeastElement
<1>2. k \in Nat /\ ~ \E f : DigitsIn(0..k, f)
  OBVIOUS
<1>3. \E f : k = 0 \/ DigitsIn(0..(k - 1), f)
  <2>1. CASE k # 0
    <3>1. k - 1 \in Nat /\ ~ (k <= k - 1)
      BY <1>2, <2>1
    <3>2. k - 1 \notin Unsolved
      <4> HIDE DEF Unsolved
      <4> QED
        BY <1>1, <3>1
    <3> QED
      BY <3>1, <3>2
  <2> QED
    BY <2>1
<1>4. PICK f : k = 0 \/ DigitsIn(0..(k - 1), f)
  BY <1>3
<1>5. PICK g : g = [x \in 0..k |-> DigitsStep(f, x)]
  OBVIOUS
<1>6. \A x \in 0..k : DigitsStep(g, x) = DigitsStep(f, x)
  <2> SUFFICES ASSUME NEW x \in 0..k, ~ (x < Base)
               PROVE  g[x \div Base] = f[x \div Base]
    BY DEF DigitsStep
  <2>1. PICK q : q = x \div Base
    OBVIOUS
  <2>2. x \in Nat /\ q \in Nat /\ q < x
    BY <1>2, <2>1, Division, DivisionLess
  <2>3. k # 0 /\ q \in 0..(k - 1) /\ q \in 0..k
    BY <1>2, <2>2
  <2>4. f[q] = DigitsStep(f, q)
    BY <1>4, <2>3 DEF DigitsIn
  <2> QED
    BY <1>5, <2>1, <2>3, <2>4
<1>7. DigitsIn(0..k, g)
  BY <1>5, <1>6 DEF DigitsIn
<1> QED
  BY <1>2, <1>7

LEMMA DigitsEqual == \A n \in Nat : Digits[n] = DigitsStep(Digits, n)
<1> DEFINE DigitsTo(n) == CHOOSE f : DigitsIn(0..n, f)
<1>1. \A n \in Nat : DigitsIn(0..n, DigitsTo(n))
  BY DigitsUpTo
<1>2. PICK g : g = [n \in Nat |-> DigitsTo(n)[n]]
  OBVIOUS
<1>3. ASSUME NEW n \in Nat PROVE g[n] = DigitsStep(g, n)
  <2>1. PICK f : f = DigitsTo(n)
    OBVIOUS
  <2>2. DigitsIn(0..n, f) /\ n \in 0..n
    BY <1>1, <2>1
  <2>3. g[n] = f[n] /\ f[n] = DigitsStep(f, n)
    BY <1>2, <2>1, <2>2 DEF DigitsIn
  <2>4. CASE n < Base
    BY <2>3, <2>4 DEF DigitsStep
  <2>5. CASE ~ (n < Base)
    <3>1. PICK q : q = n \div Base
      OBVIOUS
    <3>2. q \in Nat /\ q < n /\ q <= n /\ q <= q
      BY <2>5, <3>1, Division, DivisionLess
    <3>3. PICK h : h = DigitsTo(q)
      OBVIOUS
    <3>4. DigitsIn(0..q, h) /\ g[q] = h[q]
      BY <1>1, <1>2, <3>2, <3>3
    <3>5. f[q] = h[q]
      BY <2>2, <3>2, <3>4, DigitsAgree
    <3> QED
      BY <2>3, <2>5, <3>1, <3>4, <3>5 DEF DigitsStep
  <2> QED
    BY <2>4, <2>5
<1>4. DigitsIn(Nat, g)
  BY <1>2, <1>3 DEF DigitsIn
<1>5. DigitsIn(Nat, Digits)
  BY <1>4, DigitsIs
<1> QED
  BY <1>5 DEF DigitsIn

\* A key is a nonempty sequence of digits.
LEMMA DigitsTyped ==
  \A n \in Nat : Digits[n] \in Seq(Nat) /\ Digits[n] # << >>
<1> DEFINE Wrong == {x \in Nat : ~ (Digits[x] \in Seq(Nat) /\ Digits[x] # << >>)}
<1> SUFFICES ASSUME Wrong # {} PROVE FALSE
  OBVIOUS
<1>1. PICK x \in Wrong : \A y \in Wrong : x <= y
  <2>1. Wrong \subseteq Nat
    OBVIOUS
  <2> HIDE DEF Wrong
  <2> QED
    BY <2>1, LeastElement
<1>2. x \in Nat /\ ~ (Digits[x] \in Seq(Nat) /\ Digits[x] # << >>)
  OBVIOUS
<1>3. Digits[x] = DigitsStep(Digits, x)
  BY <1>2, DigitsEqual
<1>4. CASE x < Base
  BY <1>2, <1>3, <1>4 DEF DigitsStep
<1>5. CASE ~ (x < Base)
  <2>1. PICK q, r : q = x \div Base /\ r = x % Base
    OBVIOUS
  <2>2. q \in Nat /\ r \in Nat /\ q < x
    <3>1. q \in Nat /\ r \in 0..(Base - 1)
      BY <1>2, <2>1, Division
    <3> QED
      BY <1>2, <1>5, <2>1, <3>1, DivisionLess
  <2>3. q \notin Wrong
    <3>1. ~ (x <= q)
      BY <1>2, <2>2
    <3> HIDE DEF Wrong
    <3> QED
      BY <1>1, <3>1
  <2>4. Digits[q] \in Seq(Nat)
    BY <2>2, <2>3
  <2>5. Digits[x] = Append(Digits[q], r)
    BY <1>3, <1>5, <2>1 DEF DigitsStep
  <2>6. PICK d : d = Digits[q]
    OBVIOUS
  <2>7. Append(d, r) \in Seq(Nat) /\ Append(d, r) # << >>
    BY <2>2, <2>4, <2>6
  <2> QED
    BY <1>2, <2>5, <2>6, <2>7
<1> QED
  BY <1>4, <1>5

\* Two sequences with the same elements are one.
LEMMA SameKey ==
  ASSUME NEW d \in Seq(Nat), NEW e \in Seq(Nat), Len(d) = Len(e),
         \A i \in 1..Len(d) : d[i] = e[i]
  PROVE  d = e
<1>1. d = [i \in 1..Len(d) |-> d[i]] /\ e = [i \in 1..Len(e) |-> e[i]]
  OBVIOUS
<1>2. [i \in 1..Len(d) |-> d[i]] = [i \in 1..Len(e) |-> e[i]]
  OBVIOUS
<1> QED
  BY <1>1, <1>2

\* Different numbers have different keys.
LEMMA DigitsInjective ==
  ASSUME NEW m \in Nat, NEW n \in Nat, Digits[m] = Digits[n]
  PROVE  m = n
<1> DEFINE Wrong == {x \in Nat : \E y \in Nat : Digits[x] = Digits[y] /\ x # y}
<1> SUFFICES ASSUME Wrong # {} PROVE FALSE
  OBVIOUS
<1>1. PICK x \in Wrong : \A z \in Wrong : x <= z
  <2>1. Wrong \subseteq Nat
    OBVIOUS
  <2> HIDE DEF Wrong
  <2> QED
    BY <2>1, LeastElement
<1>2. PICK y \in Nat : Digits[x] = Digits[y] /\ x # y
  OBVIOUS
<1>3. x \in Nat
  OBVIOUS
<1>4. Digits[x] = DigitsStep(Digits, x) /\ Digits[y] = DigitsStep(Digits, y)
  BY <1>2, <1>3, DigitsEqual
<1>5. ASSUME NEW u \in Nat, NEW v \in Nat, u < Base, ~ (v < Base)
      PROVE  DigitsStep(Digits, u) # DigitsStep(Digits, v)
  <2>1. PICK q, r : q = v \div Base /\ r = v % Base
    OBVIOUS
  <2>2. q \in Nat /\ Digits[q] \in Seq(Nat) /\ Digits[q] # << >> /\ r \in Nat
    <3>1. q \in Nat /\ r \in 0..(Base - 1)
      BY <2>1, Division
    <3> QED
      BY <3>1, DigitsTyped, BaseAssumption
  <2>3. PICK d : d = Digits[q]
    OBVIOUS
  <2>4. Len(Append(d, r)) >= 2 /\ Len(<<u>>) = 1
    BY <2>2, <2>3
  <2>5. <<u>> # Append(d, r)
    BY <2>4
  <2> QED
    BY <1>5, <2>1, <2>3, <2>5 DEF DigitsStep
<1>6. CASE x < Base /\ y < Base
  <2>1. <<x>> = <<y>>
    BY <1>2, <1>4, <1>6 DEF DigitsStep
  <2> QED
    BY <1>2, <2>1
<1>7. CASE ~ (x < Base) /\ ~ (y < Base)
  <2>1. PICK p, a, q, c : p = x \div Base /\ a = x % Base /\ q = y \div Base /\ c = y % Base
    OBVIOUS
  <2>2. /\ p \in Nat /\ q \in Nat /\ a \in Nat /\ c \in Nat
        /\ x = Base * p + a /\ y = Base * q + c
    <3>1. a \in 0..(Base - 1) /\ c \in 0..(Base - 1)
      BY <1>2, <1>3, <2>1, Division
    <3> QED
      BY <1>2, <1>3, <2>1, <3>1, Division
  <2>3. PICK d, e : d = Digits[p] /\ e = Digits[q]
    OBVIOUS
  <2>4. d \in Seq(Nat) /\ e \in Seq(Nat) /\ Append(d, a) = Append(e, c)
    BY <1>2, <1>4, <1>7, <2>1, <2>2, <2>3, DigitsTyped DEF DigitsStep
  <2>5. d = e /\ a = c
    <3>1. Len(d) = Len(e) /\ Len(d) \in Nat
      BY <2>2, <2>4
    <3>2. \A i \in 1..Len(d) : d[i] = Append(d, a)[i] /\ e[i] = Append(e, c)[i]
      BY <2>2, <2>4, <3>1
    <3>3. Append(d, a)[Len(d) + 1] = a /\ Append(e, c)[Len(e) + 1] = c
      BY <2>2, <2>4, <3>1
    <3>4. a = c
      BY <2>4, <3>1, <3>3
    <3>5. \A i \in 1..Len(d) : d[i] = e[i]
      BY <2>4, <3>2
    <3>6. d = e
      BY <2>4, <3>1, <3>5, SameKey
    <3> QED
      BY <3>4, <3>6
  <2>6. p # q
    BY <1>2, <2>2, <2>5
  <2>7. p \in Wrong
    BY <2>2, <2>3, <2>5, <2>6
  <2>8. p < x
    BY <1>3, <1>7, <2>1, DivisionLess
  <2>9. ~ (x <= p)
    BY <1>3, <2>2, <2>8
  <2> HIDE DEF Wrong
  <2> QED
    BY <1>1, <2>7, <2>9
<1> QED
  BY <1>2, <1>3, <1>4, <1>5, <1>6, <1>7

\* KeyBefore is the order of the keys as strings.
Before(s, t) ==
  \/ Len(s) < Len(t) /\ \A i \in 1..Len(s) : s[i] = t[i]
  \/ \E i \in 1..Len(s) :
       i <= Len(t) /\ s[i] < t[i] /\ \A j \in 1..(i - 1) : s[j] = t[j]

LEMMA BeforeTotal ==
  ASSUME NEW s \in Seq(Nat), NEW t \in Seq(Nat), s # t
  PROVE  Before(s, t) \/ Before(t, s)
<1>1. Len(s) \in Nat /\ Len(t) \in Nat
  OBVIOUS
<1> DEFINE Diff == {i \in 1..Len(s) : i <= Len(t) /\ s[i] # t[i]}
<1>2. CASE Diff = {}
  <2>1. \A i \in 1..Len(s) : i <= Len(t) => s[i] = t[i]
    BY <1>2
  <2>2. CASE Len(s) < Len(t)
    BY <1>1, <2>1, <2>2 DEF Before
  <2>3. CASE Len(t) < Len(s)
    <3>1. \A i \in 1..Len(t) : t[i] = s[i]
      BY <1>1, <2>1, <2>3
    <3> QED
      BY <2>3, <3>1 DEF Before
  <2>4. CASE Len(s) = Len(t)
    <3>1. s = t
      BY <1>1, <2>1, <2>4
    <3> QED
      BY <3>1
  <2> QED
    BY <1>1, <2>2, <2>3, <2>4
<1>3. CASE Diff # {}
  <2>1. PICK i \in Diff : \A j \in Diff : i <= j
    <3>1. Diff \subseteq Nat
      BY <1>1
    <3> HIDE DEF Diff
    <3> QED
      BY <1>3, <3>1, LeastElement
  <2>2. i \in 1..Len(s) /\ i \in 1..Len(t) /\ s[i] # t[i]
    BY <1>1
  <2>3. ASSUME NEW j \in 1..(i - 1) PROVE s[j] = t[j]
    <3>1. j \in 1..Len(s) /\ j <= Len(t) /\ ~ (i <= j)
      BY <1>1, <2>2
    <3>2. j \notin Diff
      <4> HIDE DEF Diff
      <4> QED
        BY <2>1, <3>1
    <3> QED
      BY <3>1, <3>2
  <2>4. s[i] \in Nat /\ t[i] \in Nat
    BY <2>2
  <2>5. s[i] < t[i] \/ t[i] < s[i]
    BY <2>2, <2>4
  <2> HIDE DEF Diff
  <2>6. \A j \in 1..(i - 1) : t[j] = s[j]
    BY <2>3
  <2> QED
    BY <1>1, <2>2, <2>3, <2>5, <2>6 DEF Before
<1> QED
  BY <1>2, <1>3

LEMMA BeforeTransitive ==
  ASSUME NEW s \in Seq(Nat), NEW t \in Seq(Nat), NEW u \in Seq(Nat), Before(s, t), Before(t, u)
  PROVE  Before(s, u)
<1>1. Len(s) \in Nat /\ Len(t) \in Nat /\ Len(u) \in Nat
  OBVIOUS
<1>2. CASE Len(s) < Len(t) /\ \A i \in 1..Len(s) : s[i] = t[i]
  <2>1. CASE Len(t) < Len(u) /\ \A i \in 1..Len(t) : t[i] = u[i]
    BY <1>1, <1>2, <2>1 DEF Before
  <2>2. ASSUME NEW j \in 1..Len(t), j <= Len(u), t[j] < u[j], \A k \in 1..(j - 1) : t[k] = u[k]
        PROVE  Before(s, u)
    <3>1. CASE j <= Len(s)
      BY <1>1, <1>2, <2>2, <3>1 DEF Before
    <3>2. CASE ~ (j <= Len(s))
      BY <1>1, <1>2, <2>2, <3>2 DEF Before
    <3> QED
      BY <3>1, <3>2
  <2> QED
    BY <2>1, <2>2 DEF Before
<1>3. ASSUME NEW i \in 1..Len(s), i <= Len(t), s[i] < t[i], \A k \in 1..(i - 1) : s[k] = t[k]
      PROVE  Before(s, u)
  <2>1. CASE Len(t) < Len(u) /\ \A k \in 1..Len(t) : t[k] = u[k]
    <3>1. i \in 1..Len(t) /\ i <= Len(u)
      BY <1>1, <1>3, <2>1
    <3>2. s[i] < u[i]
      BY <1>3, <2>1, <3>1
    <3>3. \A k \in 1..(i - 1) : k \in 1..Len(t)
      BY <1>1, <3>1
    <3>4. \A k \in 1..(i - 1) : s[k] = u[k]
      BY <1>3, <2>1, <3>3
    <3> QED
      BY <3>1, <3>2, <3>4 DEF Before
  <2>2. ASSUME NEW j \in 1..Len(t), j <= Len(u), t[j] < u[j], \A k \in 1..(j - 1) : t[k] = u[k]
        PROVE  Before(s, u)
    <3>1. i \in 1..Len(t)
      BY <1>1, <1>3
    <3>2. s[i] \in Nat /\ t[i] \in Nat /\ t[j] \in Nat
      BY <3>1
    <3>3. j \in 1..Len(u)
      BY <1>1, <2>2
    <3>4. u[j] \in Nat
      BY <3>3
    <3>5. CASE i < j
      <4>1. i \in 1..(j - 1) /\ i <= Len(u)
        BY <1>1, <2>2, <3>5
      <4>2. s[i] < u[i]
        BY <1>3, <2>2, <4>1
      <4>3. \A k \in 1..(i - 1) : k \in 1..(j - 1)
        BY <3>5
      <4>4. \A k \in 1..(i - 1) : s[k] = u[k]
        BY <1>3, <2>2, <4>3
      <4> QED
        BY <4>1, <4>2, <4>4 DEF Before
    <3>6. CASE i = j
      <4>1. s[i] < u[i]
        BY <1>3, <2>2, <3>2, <3>4, <3>6
      <4> QED
        BY <1>1, <1>3, <2>2, <3>6, <4>1 DEF Before
    <3>7. CASE j < i
      <4>1. j \in 1..Len(s) /\ j \in 1..(i - 1)
        BY <1>1, <2>2, <3>7
      <4>2. s[j] < u[j]
        BY <1>3, <2>2, <4>1
      <4>3. \A k \in 1..(j - 1) : k \in 1..(i - 1)
        BY <3>7
      <4>4. \A k \in 1..(j - 1) : s[k] = u[k]
        BY <1>3, <2>2, <4>3
      <4> QED
        BY <2>2, <4>1, <4>2, <4>4 DEF Before
    <3> QED
      BY <1>1, <3>5, <3>6, <3>7
  <2> QED
    BY <2>1, <2>2 DEF Before
<1> QED
  BY <1>2, <1>3 DEF Before

\* A finite set of heights has a last key.
LEMMA LastKeyIs ==
  ASSUME NEW keys, keys \subseteq Nat, IsFiniteSet(keys)
  PROVE  LastKey(keys) \in Nat
<1> DEFINE IsLast(n, S) == n \in S /\ \A m \in S \ {n} : KeyBefore(m, n)
           F == {S \in SUBSET keys : S # {} /\ ~ \E n \in S : IsLast(n, S)}
<1>1. \A m, n \in Nat : KeyBefore(m, n) <=> Before(Digits[m], Digits[n])
  BY DEF KeyBefore, Before
<1>2. \A m, n \in Nat : m # n => KeyBefore(m, n) \/ KeyBefore(n, m)
  BY <1>1, DigitsTyped, DigitsInjective, BeforeTotal
<1>3. \A m, n, k \in Nat : KeyBefore(m, n) /\ KeyBefore(n, k) => KeyBefore(m, k)
  BY <1>1, DigitsTyped, BeforeTransitive
<1>4. F = {}
  <2> SUFFICES ASSUME F # {} PROVE FALSE
    OBVIOUS
  <2>1. \A S \in F : IsFiniteSet(S)
    BY FS_Subset
  <2>2. PICK S \in F : \A x \in S : S \ {x} \notin F
    <3> HIDE DEF F
    <3> QED
      BY <2>1, MinimalSet
  <2>3. S \subseteq Nat /\ S # {} /\ \A n \in S : ~ IsLast(n, S)
    OBVIOUS
  <2>4. PICK x \in S : TRUE
    BY <2>3
  <2>5. S \ {x} # {}
    BY <2>3, <2>4
  <2>6. PICK n \in S \ {x} : IsLast(n, S \ {x})
    BY <2>2, <2>4, <2>5
  <2>7. x \in Nat /\ n \in Nat /\ n # x
    BY <2>3, <2>4, <2>6
  <2>8. CASE KeyBefore(x, n)
    <3>1. IsLast(n, S)
      BY <2>6, <2>8
    <3> QED
      BY <2>3, <2>6, <3>1
  <2>9. CASE KeyBefore(n, x)
    <3>1. \A m \in S \ {x} : KeyBefore(m, x)
      BY <1>3, <2>3, <2>6, <2>7, <2>9
    <3> QED
      BY <2>3, <2>4, <3>1
  <2> QED
    BY <1>2, <2>7, <2>8, <2>9
<1>5. CASE keys = {}
  BY <1>5 DEF LastKey
<1>6. CASE keys # {}
  <2>1. \E n \in keys : \A m \in keys \ {n} : KeyBefore(m, n)
    BY <1>4, <1>6
  <2> HIDE DEF F
  <2>2. LastKey(keys) \in keys
    BY <1>6, <2>1 DEF LastKey, IsLastKey
  <2> QED
    BY <2>2
<1> QED
  BY <1>5, <1>6

-----------------------------------------------------------------------------
(* The types, in every history: nothing here needs the history to be calm.  *)

\* A batch is made of a chain, and a thread that saves has one to save.
Busy == {"put", "plan", "commit", "written"}
JobTyped(job) ==
  /\ job \in Tasks
  /\ job.pc \in Busy => chain # << >>
  /\ job.pc \in {"commit", "written"} => IsChain(job.batch.chain)

TypeInv ==
  /\ TypeOK
  /\ chain = << >> \/ IsChain(chain)
  /\ IsDisk(disk)
  /\ IsFiniteSet(checkKeys)
  /\ \A t \in Threads : JobTyped(task[t])

LEMMA JobFields ==
  ASSUME NEW job \in Tasks
  PROVE  /\ job.pc \in {"apply", "put", "checkpoint"} => job.blk \in Blocks
         /\ job.pc \in {"plan", "commit", "written"} => job.blk \in Blocks \union {NoBlock}
         /\ job.pc \in {"commit", "written"} => job.batch \in Batches
         /\ job.pc # "idle" => job # Idle
  BY DEF Tasks, Idle

LEMMA JobsTyped ==
  /\ Idle \in Tasks /\ Idle.pc = "idle"
  /\ \A b \in Blocks : /\ [pc |-> "apply", blk |-> b] \in Tasks
                       /\ [pc |-> "put", blk |-> b] \in Tasks
                       /\ [pc |-> "checkpoint", blk |-> b] \in Tasks
  /\ \A b \in Blocks \union {NoBlock} : SaveJob(b) \in Tasks
  /\ \A b \in Blocks \union {NoBlock}, pc \in {"commit", "written"}, batch \in Batches :
       [pc |-> pc, blk |-> b, batch |-> batch] \in Tasks
  BY DEF Tasks, Idle, SaveJob

\* Only the genesis block has height 0.
LEMMA Lowest ==
  ASSUME NEW b \in Blocks, Index[b] = 0
  PROVE  b = Genesis
<1>1. Index[Parent[b]] \in Nat
  BY BlocksAssumption
<1>2. b # Genesis => Index[b] = Index[Parent[b]] + 1
  BY StoreAssumption
<1> QED
  BY <1>1, <1>2

\* What can be loaded is a chain, whatever the history of the disk.
LEMMA AnyLoaded ==
  ASSUME IsDisk(disk)
  PROVE  /\ LoadedLength \in Nat
         /\ LoadedLength > 0 => IsChain(Loaded) /\ Loaded # << >> /\ LoadedLength - 1 \in Nat
                                /\ Top(Loaded) = LoadedLength - 1
<1>1. LoadedLength \in Nat
  BY LoadedShape
<1>2. ASSUME LoadedLength > 0 PROVE disk[0] = Genesis
  <2>1. Reads(disk, 0)
    BY <1>1, <1>2, LoadedShape
  <2>2. 0 \in Heights /\ disk[0] # NoBlock
    BY <2>1 DEF Reads
  <2>3. disk[0] \in Blocks /\ Index[disk[0]] = 0
    BY <2>2 DEF IsDisk
  <2> QED
    BY <2>3, Lowest
<1>3. ASSUME LoadedLength > 0
      PROVE  IsChain(Loaded) /\ Len(Loaded) = LoadedLength
  BY <1>2, <1>3, LoadedIsChain
<1> QED
  BY <1>1, <1>3 DEF Top

\* Every batch keeps the blocks under their heights.
LEMMA WrittenTyped ==
  ASSUME IsDisk(disk), NEW b, IsChain(b.chain), b.from \in Nat, NEW d, d = Written(b)
  PROVE  IsDisk(d)
<1>1. PICK c : c = b.chain
  OBVIOUS
<1>2. ASSUME NEW h \in Heights, h >= b.from, h <= Top(c)
      PROVE  c[h + 1] \in Blocks /\ Index[c[h + 1]] = h
  <2>1. h \in Nat /\ Len(c) \in Nat \ {0} /\ IsChain(c)
    BY <1>1, HeightsFacts, ChainFacts
  <2>2. h + 1 \in 1..Len(c) /\ (h + 1) - 1 = h
    BY <1>2, <2>1 DEF Top
  <2> QED
    BY <2>1, <2>2, ChainFacts DEF IsChain
<1>3. d = [h \in Heights |->
             IF h >= b.from /\ h <= Top(c) THEN c[h + 1]
             ELSE IF h > Top(c) /\ h <= b.upTo THEN NoBlock ELSE disk[h]]
  BY <1>1 DEF Written
<1>4. \A h \in Heights :
        /\ d[h] \in Blocks \union {NoBlock}
        /\ d[h] # NoBlock => Index[d[h]] = h
  BY <1>2, <1>3 DEF IsDisk
<1>5. d \in [Heights -> Blocks \union {NoBlock}]
  BY <1>3, <1>4
<1> QED
  BY <1>4, <1>5 DEF IsDisk

\* saveToDB's plan for a chain.
LEMMA BatchTyped ==
  ASSUME TypeInv, chain # << >>
  PROVE  Batch \in Batches /\ IsChain(Batch.chain)
<1>1. IsChain(chain) /\ chain \in Seq(Blocks) /\ Len(chain) \in Nat \ {0}
  BY ChainFacts DEF TypeInv
<1>2. RecordedHeight \in Nat
  BY DEF RecordedHeight, TypeInv, TypeOK
<1>3. PICK n, rec, A : n = Top(chain) /\ rec = RecordedHeight /\ A = Agree(chain, rec)
  OBVIOUS
<1>4. n \in Nat /\ A \subseteq 0..n /\ A \subseteq Nat /\ IsFiniteSet(A)
  <2>1. n \in Nat /\ A \subseteq 0..n
    BY <1>1, <1>3 DEF Agree, Top
  <2>2. IsFiniteSet(0..n) /\ 0..n \subseteq Nat
    BY <2>1, FS_Interval
  <2> QED
    BY <2>1, <2>2, FS_Subset
<1>5. RewriteFrom(chain, rec) \in Nat
  <2>1. CASE A = {}
    BY <1>3, <2>1 DEF RewriteFrom
  <2>2. CASE A # {}
    <3>1. PICK k : k = CHOOSE h \in A : \A m \in A : m <= h
      OBVIOUS
    <3>2. \E h \in A : \A m \in A : m <= h
      BY <1>4, <2>2, GreatestElement
    <3>3. k \in A
      BY <3>1, <3>2
    <3>4. RewriteFrom(chain, rec) = 1 + k
      BY <1>3, <2>2, <3>1 DEF RewriteFrom
    <3> QED
      BY <1>4, <3>3, <3>4
  <2> QED
    BY <2>1, <2>2
<1> QED
  BY <1>1, <1>2, <1>3, <1>5 DEF Batch, Batches

\* A thread's step.
LEMMA ThreadStep ==
  ASSUME TypeInv, NEW t \in Threads, NEW job \in Tasks, task' = [task EXCEPT ![t] = job],
         NEW c, chain' = c, c = << >> \/ IsChain(c), chain # << >> => c # << >>,
         job.pc \in Busy => c # << >>,
         job.pc \in {"commit", "written"} => IsChain(job.batch.chain),
         NEW d, disk' = d, IsDisk(d),
         saved' \in Seq(Blocks), recorded' \in Nat, lastHeight' \in Nat \union {-1},
         checkpoint' \in Nat, checkKeys' \subseteq Nat, IsFiniteSet(checkKeys'),
         cfOpen' \in BOOLEAN, calm' \in BOOLEAN, failures' \in 0..MaxFailures,
         \/ holder' = NoThread
         \/ holder' = t /\ job # Idle
         \/ holder' = holder /\ (holder = t => job # Idle)
  PROVE  TypeInv'
<1>1. task \in [Threads -> Tasks] /\ holder \in {u \in Threads : task[u] # Idle} \union {NoThread}
  BY DEF TypeInv, TypeOK
<1>2. task' \in [Threads -> Tasks] /\ task'[t] = job /\ \A u \in Threads \ {t} : task'[u] = task[u]
  BY <1>1
<1>3. holder' \in {u \in Threads : task'[u] # Idle} \union {NoThread}
  BY <1>1, <1>2
<1>4. c \in Seq(Blocks)
  <2>1. << >> \in Seq(Blocks)
    OBVIOUS
  <2> QED
    BY <2>1 DEF IsChain
<1>5. d \in [Heights -> Blocks \union {NoBlock}]
  BY DEF IsDisk
<1>6. TypeOK'
  BY <1>2, <1>3, <1>4, <1>5 DEF TypeOK
<1>7. \A u \in Threads : JobTyped(task[u])'
  <2> SUFFICES ASSUME NEW u \in Threads PROVE JobTyped(task[u])'
    OBVIOUS
  <2>1. PICK j : j = task'[u]
    OBVIOUS
  <2>2. j \in Tasks /\ (j.pc \in Busy => c # << >>)
        /\ (j.pc \in {"commit", "written"} => IsChain(j.batch.chain))
    <3>1. CASE u = t
      BY <1>2, <2>1, <3>1
    <3>2. CASE u # t
      BY <1>2, <2>1, <3>2 DEF TypeInv, JobTyped
    <3> QED
      BY <3>1, <3>2
  <2> QED
    BY <2>1, <2>2 DEF JobTyped
<1>8. (chain = << >> \/ IsChain(chain))'
  BY DEF IsChain, Linked
<1>9. IsDisk(disk)'
  BY DEF IsDisk
<1> QED
  BY <1>6, <1>7, <1>8, <1>9 DEF TypeInv

\* What a thread's step needs of the state it starts from.
LEMMA Types ==
  ASSUME TypeInv
  PROVE  /\ chain \in Seq(Blocks) /\ saved \in Seq(Blocks) /\ << >> \in Seq(Blocks)
         /\ recorded \in Nat /\ lastHeight \in Nat \union {-1}
         /\ checkpoint \in Nat /\ checkKeys \subseteq Nat /\ IsFiniteSet(checkKeys)
         /\ cfOpen \in BOOLEAN /\ calm \in BOOLEAN /\ failures \in 0..MaxFailures
         /\ chain = << >> \/ IsChain(chain)
         /\ IsDisk(disk)
  BY DEF TypeInv, TypeOK

LEMMA CalmTyped ==
  ASSUME TypeInv, NEW t \in Threads, NEW job, Start(t, job) \/ calm' = (calm /\ AllIdle)
  PROVE  calm' \in BOOLEAN
<1>1. (calm /\ \A u \in Threads : task[u] = Idle \/ holder = u) \in BOOLEAN
  OBVIOUS
<1>2. (calm /\ AllIdle) \in BOOLEAN
  OBVIOUS
<1> QED
  BY Zenon, <1>1, <1>2 DEF Start

LEMMA AddBlockTyped ==
  ASSUME TypeInv, NEW t \in Threads, NEW b \in Blocks, AddBlock(t, b)
  PROVE  TypeInv'
<1>1. PICK job, c : job = [pc |-> "put", blk |-> b] /\ c = Append(chain, b)
  OBVIOUS
<1>2. job \in Tasks /\ job.pc = "put" /\ job # Idle
  <2>1. job \in Tasks
    BY <1>1, JobsTyped
  <2>2. job.pc = "put"
    BY <1>1
  <2> QED
    BY <2>1, <2>2, JobFields
<1>3. /\ task' = [task EXCEPT ![t] = job] /\ chain' = c /\ holder' = t
      /\ UNCHANGED <<recorded, checkpoint, cfOpen, disk, lastHeight, checkKeys, failures, saved>>
  BY <1>1 DEF AddBlock, StartLocked, Start, dsk
<1>4. calm' \in BOOLEAN
  BY CalmTyped DEF AddBlock, StartLocked
<1>5. IsChain(c) /\ c # << >>
  <2>1. CASE chain = << >>
    <3>1. c = <<Genesis>>
      BY <1>1, <2>1 DEF AddBlock
    <3> QED
      BY <3>1, FreshChain
  <2>2. CASE chain # << >>
    <3>1. IsChain(chain) /\ b # Genesis /\ Parent[b] = Last(chain)
      BY <2>2 DEF AddBlock, TypeInv
    <3>2. IsChain(c)
      BY <1>1, <3>1, ChainAppend
    <3>3. Len(c) \in Nat \ {0}
      BY <3>2, ChainFacts
    <3> QED
      BY <3>2, <3>3
  <2> QED
    BY <2>1, <2>2
<1> QED
  BY <1>2, <1>3, <1>4, <1>5, Types, ThreadStep

LEMMA MergeTyped ==
  ASSUME TypeInv, NEW t \in Threads, NEW b \in Blocks, Merge(t, b)
  PROVE  TypeInv'
<1>1. PICK job, c : job = SaveJob(NoBlock) /\ c = chain'
  OBVIOUS
<1>2. job \in Tasks /\ job.pc = "plan" /\ job # Idle
  BY <1>1, JobsTyped DEF SaveJob
<1>3. /\ task' = [task EXCEPT ![t] = job] /\ chain' = c /\ holder' = t
      /\ UNCHANGED <<recorded, checkpoint, cfOpen, disk, lastHeight, checkKeys, failures, saved>>
  BY <1>1 DEF Merge, StartLocked, Start, dsk
<1>4. calm' \in BOOLEAN
  BY CalmTyped DEF Merge, StartLocked
<1>5. IsChain(c) /\ c # << >>
  <2>1. IsChain(Path[b])
    BY PathIsChain
  <2>2. IsChain(c)
    <3>1. CASE c = Path[b]
      BY <2>1, <3>1
    <3>2. CASE chain # << >> /\ c = Prefix(chain, CommonLength(chain, Path[b]))
      BY <2>1, <3>2, CommonBounds, ChainPrefix DEF TypeInv
    <3> QED
      BY <1>1, <3>1, <3>2 DEF Merge
  <2>3. Len(c) \in Nat \ {0}
    BY <2>2, ChainFacts
  <2> QED
    BY <2>2, <2>3
<1> QED
  BY <1>2, <1>3, <1>4, <1>5, Types, ThreadStep

LEMMA SaveTyped ==
  ASSUME TypeInv, NEW t \in Threads, SaveAgain(t) \/ SaveUnlocked(t)
  PROVE  TypeInv'
<1>1. PICK job : job = SaveJob(NoBlock)
  OBVIOUS
<1>2. job \in Tasks /\ job.pc = "plan" /\ job # Idle
  BY <1>1, JobsTyped DEF SaveJob
<1>3. /\ task' = [task EXCEPT ![t] = job] /\ chain' = chain /\ chain # << >>
      /\ holder' = t \/ holder' = holder
      /\ UNCHANGED <<recorded, checkpoint, cfOpen, disk, lastHeight, checkKeys, failures, saved>>
  BY <1>1 DEF SaveAgain, SaveUnlocked, StartLocked, Start, mem, dsk
<1>4. calm' \in BOOLEAN
  BY CalmTyped DEF SaveAgain, SaveUnlocked, StartLocked
<1> QED
  BY <1>2, <1>3, <1>4, Types, ThreadStep

LEMMA RollbackTyped ==
  ASSUME TypeInv, NEW t \in Threads, NEW h, RollbackToHeight(t, h)
  PROVE  TypeInv'
<1>1. PICK job, c : job = SaveJob(NoBlock) /\ c = Prefix(chain, h + 1)
  OBVIOUS
<1>2. job \in Tasks /\ job.pc = "plan" /\ job # Idle
  BY <1>1, JobsTyped DEF SaveJob
<1>3. /\ task' = [task EXCEPT ![t] = job] /\ chain' = c /\ holder' = holder
      /\ h \in 0..Top(chain)
      /\ UNCHANGED <<recorded, checkpoint, cfOpen, disk, lastHeight, checkKeys, failures, saved>>
  BY <1>1 DEF RollbackToHeight, StartUnlocked, Start, dsk
<1>4. calm' \in BOOLEAN
  BY CalmTyped DEF RollbackToHeight, StartUnlocked
<1>5. IsChain(c) /\ c # << >>
  <2>1. Len(chain) \in Nat /\ h + 1 \in 1..Len(chain)
    BY <1>3, Types DEF Top
  <2>2. IsChain(chain)
    BY <2>1, Types
  <2>3. IsChain(c) /\ Len(c) = h + 1
    BY <1>1, <2>1, <2>2, ChainPrefix
  <2>4. h + 1 \in Nat \ {0} /\ Len(<< >>) = 0
    BY <2>1
  <2> QED
    BY <2>3, <2>4
<1> QED
  BY <1>2, <1>3, <1>4, <1>5, Types, ThreadStep

LEMMA SnapshotTyped ==
  ASSUME TypeInv, NEW t \in Threads, (\E b \in Blocks : SnapshotEnd(t, b)) \/ SnapshotApply(t)
  PROVE  TypeInv'
<1>1. ASSUME NEW b \in Blocks, SnapshotEnd(t, b) PROVE TypeInv'
  <2>1. PICK job : job = [pc |-> "apply", blk |-> b]
    OBVIOUS
  <2>2. job \in Tasks /\ job.pc = "apply" /\ job # Idle
    <3>1. job \in Tasks
      BY <2>1, JobsTyped
    <3>2. job.pc = "apply"
      BY <2>1
    <3> QED
      BY <3>1, <3>2, JobFields
  <2>3. /\ task' = [task EXCEPT ![t] = job] /\ chain' = chain /\ holder' = holder
        /\ UNCHANGED <<recorded, checkpoint, cfOpen, disk, lastHeight, checkKeys, failures, saved>>
    BY <1>1, <2>1 DEF SnapshotEnd, StartUnlocked, Start, mem, dsk
  <2>4. calm' \in BOOLEAN
    BY <1>1, CalmTyped DEF SnapshotEnd, StartUnlocked
  <2> QED
    BY <2>2, <2>3, <2>4, Types, ThreadStep DEF Busy
<1>2. CASE SnapshotApply(t)
  <2>1. task[t].pc = "apply" /\ task[t].blk \in Blocks /\ holder = NoThread
    BY <1>2, JobFields DEF SnapshotApply, TypeInv, JobTyped
  <2>2. PICK c : c = Path[task[t].blk]
    OBVIOUS
  <2>3. IsChain(c) /\ c # << >>
    <3>1. IsChain(c)
      BY <2>1, <2>2, PathIsChain
    <3>2. Len(c) \in Nat \ {0}
      BY <3>1, ChainFacts
    <3> QED
      BY <3>1, <3>2
  <2>4. UNCHANGED <<recorded, checkpoint, cfOpen, disk, lastHeight, checkKeys, holder, failures,
                    saved, calm>>
    BY <1>2 DEF SnapshotApply, dsk
  <2>5. CASE chain' = c /\ task' = [task EXCEPT ![t] = SaveJob(NoBlock)]
    <3>1. PICK job : job = SaveJob(NoBlock)
      OBVIOUS
    <3>2. job \in Tasks /\ job.pc = "plan"
      BY <3>1, JobsTyped DEF SaveJob
    <3> QED
      BY <2>1, <2>3, <2>4, <2>5, <3>1, <3>2, Types, ThreadStep
  <2>6. CASE chain' = chain /\ task' = [task EXCEPT ![t] = Idle]
    <3>1. Idle \in Tasks /\ Idle.pc = "idle"
      BY JobsTyped
    <3> QED
      BY <2>1, <2>4, <2>6, <3>1, Types, ThreadStep DEF Busy
  <2> QED
    BY <1>2, <2>2, <2>5, <2>6 DEF SnapshotApply
<1> QED
  BY <1>1, <1>2

\* What the job of a busy thread carries.
LEMMA JobOf ==
  ASSUME TypeInv, NEW t \in Threads, NEW j, j = task[t]
  PROVE  /\ j.pc \in {"apply", "put", "checkpoint"} => j.blk \in Blocks
         /\ j.pc \in {"plan", "commit", "written"} => j.blk \in Blocks \union {NoBlock}
         /\ j.pc \in {"commit", "written"} => j.batch \in Batches /\ IsChain(j.batch.chain)
         /\ j.pc \in Busy => chain # << >>
<1>1. j \in Tasks /\ JobTyped(j)
  BY DEF TypeInv, JobTyped
<1> QED
  BY <1>1, JobFields DEF JobTyped

\* A task that ends gives up the mutex if it has it.
LEMMA StopStep ==
  ASSUME TypeInv, NEW t \in Threads, Stop(t)
  PROVE  /\ task' = [task EXCEPT ![t] = Idle] /\ Idle \in Tasks /\ Idle.pc \notin Busy
         /\ Idle.pc \notin {"commit", "written"}
         /\ holder' = NoThread \/ (holder' = holder /\ holder # t)
<1>1. Idle \in Tasks /\ Idle.pc = "idle"
  BY JobsTyped
<1> QED
  BY <1>1 DEF Stop, Busy

LEMMA PutBlockTyped ==
  ASSUME TypeInv, NEW t \in Threads, PutBlock(t)
  PROVE  TypeInv'
<1>1. PICK b, d : b = task[t].blk /\ d = disk'
  OBVIOUS
<1>2. b \in Blocks /\ chain # << >> /\ task[t].pc = "put"
  BY <1>1, JobOf DEF PutBlock, Busy
<1>3. UNCHANGED <<chain, recorded, checkpoint, cfOpen, lastHeight, checkKeys>>
  BY DEF PutBlock, mem
<1>4. calm' \in BOOLEAN
  <2>1. (calm /\ Index[b] > recorded) \in BOOLEAN
    OBVIOUS
  <2> QED
    BY Zenon, <1>1, <2>1 DEF PutBlock
<1>5. IsDisk(d)
  <2>1. IsDisk(disk) /\ Index[b] \in Heights
    BY <1>2, Types DEF Heights
  <2>2. d = disk \/ d = [disk EXCEPT ![Index[b]] = b]
    BY <1>1 DEF PutBlock
  <2> QED
    BY <1>2, <2>1, <2>2 DEF IsDisk
<1>6. CASE /\ task' = [task EXCEPT ![t] = SaveJob(b)]
           /\ UNCHANGED <<holder, failures, saved>>
  <2>1. PICK job : job = SaveJob(b)
    OBVIOUS
  <2>2. job \in Tasks /\ job.pc = "plan" /\ job # Idle
    BY <1>2, <2>1, JobsTyped DEF SaveJob
  <2> QED
    BY <1>1, <1>2, <1>3, <1>4, <1>5, <1>6, <2>1, <2>2, Types, ThreadStep
<1>7. CASE Fail /\ Stop(t)
  <2>1. failures' \in 0..MaxFailures /\ saved' = << >>
    BY <1>7, Types, StoreAssumption DEF Fail
  <2> QED
    BY <1>1, <1>3, <1>4, <1>5, <1>7, <2>1, StopStep, Types, ThreadStep
<1> QED
  BY <1>1, <1>6, <1>7 DEF PutBlock

LEMMA PlanSaveTyped ==
  ASSUME TypeInv, NEW t \in Threads, PlanSave(t)
  PROVE  TypeInv'
<1>1. PICK b, batch, job :
        b = task[t].blk /\ batch = Batch /\ job = [pc |-> "commit", blk |-> b, batch |-> batch]
  OBVIOUS
<1>2. b \in Blocks \union {NoBlock} /\ chain # << >>
  BY <1>1, JobOf DEF PlanSave, Busy
<1>3. batch \in Batches /\ IsChain(batch.chain)
  BY <1>1, <1>2, BatchTyped
<1>4. job \in Tasks /\ job.pc = "commit" /\ job.batch = batch /\ job # Idle
  BY <1>1, <1>2, <1>3, JobsTyped
<1>5. /\ task' = [task EXCEPT ![t] = job] /\ chain' = chain /\ holder' = holder
      /\ UNCHANGED <<recorded, checkpoint, cfOpen, disk, lastHeight, checkKeys, failures, saved,
                     calm>>
  BY <1>1 DEF PlanSave, mem, dsk
<1> QED
  BY <1>2, <1>3, <1>4, <1>5, Types, ThreadStep

LEMMA WriteBatchTyped ==
  ASSUME TypeInv, NEW t \in Threads, WriteBatch(t)
  PROVE  TypeInv'
<1>1. PICK b, batch, d : b = task[t].blk /\ batch = task[t].batch /\ d = disk'
  OBVIOUS
<1>2. /\ b \in Blocks \union {NoBlock} /\ chain # << >>
      /\ batch \in Batches /\ IsChain(batch.chain)
  BY <1>1, JobOf DEF WriteBatch, Busy
<1>3. batch.from \in Nat /\ batch.chain \in Seq(Blocks) /\ Top(batch.chain) \in Nat
  BY <1>2, ChainFacts DEF Batches, Top
<1>4. UNCHANGED <<chain, recorded, checkpoint, cfOpen, checkKeys, calm>>
  BY DEF WriteBatch, mem
<1>5. CASE /\ d = Written(batch) /\ lastHeight' = Top(batch.chain) /\ saved' = batch.chain
           /\ task' = [task EXCEPT ![t] = [pc |-> "written", blk |-> b, batch |-> batch]]
           /\ UNCHANGED <<holder, failures>>
  <2>1. PICK job : job = [pc |-> "written", blk |-> b, batch |-> batch]
    OBVIOUS
  <2>2. job \in Tasks /\ job.pc = "written" /\ job.batch = batch /\ job # Idle
    BY <1>2, <2>1, JobsTyped
  <2>3. IsDisk(d)
    BY <1>2, <1>3, <1>5, Types, WrittenTyped
  <2> QED
    BY <1>1, <1>2, <1>3, <1>4, <1>5, <2>1, <2>2, <2>3, Types, ThreadStep
<1>6. CASE Fail /\ Stop(t) /\ UNCHANGED <<disk, lastHeight>>
  <2>1. failures' \in 0..MaxFailures /\ saved' = << >>
    BY <1>6, Types, StoreAssumption DEF Fail
  <2> QED
    BY <1>4, <1>6, <2>1, StopStep, Types, ThreadStep
<1> QED
  BY <1>1, <1>5, <1>6 DEF WriteBatch

LEMMA EndSaveTyped ==
  ASSUME TypeInv, NEW t \in Threads, EndSave(t)
  PROVE  TypeInv'
<1>1. PICK b, batch : b = task[t].blk /\ batch = task[t].batch
  OBVIOUS
<1>2. b \in Blocks \union {NoBlock} /\ IsChain(batch.chain)
  BY <1>1, JobOf DEF EndSave
<1>3. recorded' \in Nat
  BY <1>1, <1>2, ChainFacts DEF EndSave, Top
<1>4. UNCHANGED <<chain, checkpoint, cfOpen, disk, lastHeight, checkKeys, failures, saved, calm>>
  BY DEF EndSave, dsk
<1>5. CASE /\ b # NoBlock /\ UNCHANGED holder
           /\ task' = [task EXCEPT ![t] = [pc |-> "checkpoint", blk |-> b]]
  <2>1. PICK job : job = [pc |-> "checkpoint", blk |-> b]
    OBVIOUS
  <2>2. job \in Tasks /\ job.pc = "checkpoint" /\ job # Idle
    <3>1. job \in Tasks
      BY <1>2, <1>5, <2>1, JobsTyped
    <3>2. job.pc = "checkpoint"
      BY <2>1
    <3> QED
      BY <3>1, <3>2, JobFields
  <2> QED
    BY <1>3, <1>4, <1>5, <2>1, <2>2, Types, ThreadStep DEF Busy
<1>6. CASE Stop(t)
  BY <1>3, <1>4, <1>6, StopStep, Types, ThreadStep
<1> QED
  BY <1>1, <1>5, <1>6 DEF EndSave

LEMMA SaveCheckpointTyped ==
  ASSUME TypeInv, NEW t \in Threads, SaveCheckpoint(t)
  PROVE  TypeInv'
<1>1. PICK h : h = Index[task[t].blk]
  OBVIOUS
<1>2. h \in Nat
  <2>1. task[t].blk \in Blocks
    BY JobOf DEF SaveCheckpoint
  <2> QED
    BY <1>1, <2>1, BlocksAssumption
<1>3. Stop(t) /\ UNCHANGED <<chain, recorded, cfOpen, disk, lastHeight, failures, saved, calm>>
  BY DEF SaveCheckpoint
<1>4. checkpoint' \in Nat /\ checkKeys' \subseteq Nat /\ IsFiniteSet(checkKeys')
  <2>1. PICK keys : keys = checkKeys
    OBVIOUS
  <2>2. IsFiniteSet(keys) /\ keys \subseteq Nat /\ IsFiniteSet(keys \union {h})
    BY <2>1, Types, FS_AddElement
  <2>3. \/ checkpoint' = h /\ checkKeys' = keys \union {h}
        \/ checkpoint' = checkpoint /\ checkKeys' = keys
    BY <1>1, <2>1 DEF SaveCheckpoint
  <2> QED
    BY <1>2, <2>2, <2>3, Types
<1> QED
  BY <1>3, <1>4, StopStep, Types, ThreadStep

LEMMA ReloadTyped ==
  ASSUME TypeInv, NEW t \in Threads, Reload(t)
  PROVE  TypeInv'
<1>1. PICK c : c = Loaded
  OBVIOUS
<1>2. IsChain(c) /\ c # << >> /\ LoadedLength - 1 \in Nat /\ c \in Seq(Blocks)
  BY <1>1, Types, AnyLoaded DEF Reload, IsChain
<1>3. /\ chain' = c /\ recorded' = LoadedLength - 1 /\ saved' = c
      /\ UNCHANGED <<checkpoint, cfOpen, disk, lastHeight, checkKeys, holder, task, failures>>
  BY <1>1 DEF Reload, dsk
<1>4. calm' \in BOOLEAN
  BY CalmTyped DEF Reload
<1>5. task' = [task EXCEPT ![t] = Idle] /\ Idle \in Tasks /\ Idle.pc = "idle"
  <2>1. task \in [Threads -> Tasks] /\ task[t] = Idle
    BY DEF Reload, TypeInv, TypeOK
  <2> QED
    BY <1>3, <2>1, JobsTyped
<1>6. holder # t
  BY StoreAssumption DEF Reload, TypeInv, TypeOK
<1> QED
  BY <1>2, <1>3, <1>4, <1>5, <1>6, Types, ThreadStep DEF Busy

\* Every thread is idle after the step.
LEMMA AllIdleTyped ==
  ASSUME TypeInv, task' = [t \in Threads |-> Idle], holder' = NoThread,
         NEW c, chain' = c, c = << >> \/ IsChain(c),
         NEW d, disk' = d, IsDisk(d),
         saved' \in Seq(Blocks), recorded' \in Nat, lastHeight' \in Nat \union {-1},
         checkpoint' \in Nat, checkKeys' \subseteq Nat, IsFiniteSet(checkKeys'),
         cfOpen' \in BOOLEAN, calm' \in BOOLEAN, failures' \in 0..MaxFailures
  PROVE  TypeInv'
<1>1. Idle \in Tasks /\ Idle.pc = "idle"
  BY JobsTyped
<1>2. task' \in [Threads -> Tasks] /\ \A t \in Threads : task'[t] = Idle
  BY <1>1
<1>3. c \in Seq(Blocks)
  <2>1. << >> \in Seq(Blocks)
    OBVIOUS
  <2> QED
    BY <2>1 DEF IsChain
<1>4. TypeOK'
  BY <1>2, <1>3 DEF TypeOK, IsDisk
<1>5. \A u \in Threads : JobTyped(task[u])'
  BY <1>1, <1>2 DEF JobTyped, Busy
<1>6. (chain = << >> \/ IsChain(chain))'
  BY DEF IsChain, Linked
<1>7. IsDisk(disk)'
  BY DEF IsDisk
<1> QED
  BY <1>4, <1>5, <1>6, <1>7 DEF TypeInv

LEMMA RestartTyped ==
  ASSUME TypeInv, Restart
  PROVE  TypeInv'
<1>1. PICK c : c = IF LoadedLength > 0 THEN Loaded ELSE <<Genesis>>
  OBVIOUS
<1>2. PICK fresh : fresh = [chain |-> c, from |-> 0, upTo |-> lastHeight]
  OBVIOUS
<1>3. IsChain(c) /\ c \in Seq(Blocks) /\ Top(c) \in Nat
  <2>1. IsChain(c)
    BY <1>1, Types, AnyLoaded, FreshChain
  <2> QED
    BY <2>1, ChainFacts DEF Top
<1>4. /\ chain' = c /\ recorded' = Top(c) /\ saved' = c
      /\ cfOpen' = TRUE /\ holder' = NoThread /\ task' = [t \in Threads |-> Idle]
      /\ checkpoint' = LastKey(checkKeys') /\ failures' = failures
      /\ calm' = (calm \/ \A h \in Heights : disk[h] = NoBlock)
      /\ \/ UNCHANGED <<disk, lastHeight, checkKeys>>
         \/ disk' = Written(fresh) /\ lastHeight' = 0 /\ checkKeys' = checkKeys \union {0}
  BY <1>1, <1>2 DEF Restart, dsk
<1>5. calm' \in BOOLEAN
  <2>1. (calm \/ \A h \in Heights : disk[h] = NoBlock) \in BOOLEAN
    OBVIOUS
  <2> QED
    BY Zenon, <1>4, <2>1
<1>6. PICK d, keys : d = disk' /\ keys = checkKeys'
  OBVIOUS
<1>7. IsDisk(d)
  <2>1. IsChain(fresh.chain) /\ fresh.from \in Nat
    BY <1>2, <1>3
  <2>2. CASE d = disk
    BY <2>2, Types
  <2>3. CASE d = Written(fresh)
    BY <2>1, <2>3, Types, WrittenTyped
  <2> QED
    BY <1>4, <1>6, <2>2, <2>3
<1>8. keys \subseteq Nat /\ IsFiniteSet(keys) /\ lastHeight' \in Nat \union {-1}
  <2>1. PICK old : old = checkKeys
    OBVIOUS
  <2>2. old \subseteq Nat /\ IsFiniteSet(old) /\ IsFiniteSet(old \union {0})
    BY <2>1, Types, FS_AddElement
  <2>3. lastHeight' \in Nat \union {-1}
    <3>1. lastHeight' = lastHeight \/ lastHeight' = 0
      BY <1>4
    <3> QED
      BY <3>1, Types
  <2>4. keys \subseteq Nat /\ IsFiniteSet(keys)
    <3>1. old \union {0} \subseteq Nat
      BY <2>2
    <3>2. keys = old \/ keys = old \union {0}
      BY <1>4, <1>6, <2>1
    <3> QED
      BY <2>2, <3>1, <3>2
  <2> QED
    BY <2>3, <2>4
<1>9. checkpoint' \in Nat
  BY <1>4, <1>6, <1>8, LastKeyIs
<1> QED
  BY <1>3, <1>4, <1>5, <1>6, <1>7, <1>8, <1>9, Types, AllIdleTyped

LEMMA PurgeTyped ==
  ASSUME TypeInv, Purge
  PROVE  TypeInv'
<1>1. PICK d : d = [h \in Heights |-> NoBlock]
  OBVIOUS
<1>2. IsDisk(d)
  BY <1>1 DEF IsDisk
<1>3. task' = [t \in Threads |-> Idle] /\ holder' = NoThread
  BY DEF Purge, AllIdle, TypeInv, TypeOK
<1>4. IsFiniteSet({}) /\ {} \subseteq Nat
  BY FS_EmptySet
<1>5. /\ chain' = << >> /\ disk' = d /\ saved' = << >> /\ recorded' = recorded
      /\ lastHeight' = -1 /\ checkpoint' = checkpoint /\ checkKeys' = {}
      /\ cfOpen' = FALSE /\ calm' = FALSE /\ failures' = failures
  BY <1>1 DEF Purge
<1> QED
  BY <1>2, <1>3, <1>4, <1>5, Types, AllIdleTyped

LEMMA InitTyped == Init => TypeInv
<1> SUFFICES ASSUME Init PROVE TypeInv
  OBVIOUS
<1>1. Idle \in Tasks /\ Idle.pc = "idle"
  BY JobsTyped
<1>2. Genesis \in Blocks /\ Index[Genesis] = 0 /\ 0 \in Heights /\ MaxFailures \in Nat
  BY BlocksAssumption, StoreAssumption, HeightsFacts
<1>3. IsChain(<<Genesis>>)
  BY FreshChain
<1>4. chain = <<Genesis>> /\ saved = <<Genesis>> /\ <<Genesis>> \in Seq(Blocks)
  BY <1>2 DEF Init
<1>5. IsDisk(disk)
  BY <1>2 DEF Init, IsDisk
<1>6. IsFiniteSet(checkKeys) /\ checkKeys \subseteq Nat
  <2>1. IsFiniteSet({0})
    BY FS_Singleton
  <2> QED
    BY <2>1 DEF Init
<1>7. task \in [Threads -> Tasks] /\ \A t \in Threads : JobTyped(task[t])
  BY <1>1 DEF Init, JobTyped, Busy
<1>8. TypeOK
  BY <1>2, <1>4, <1>5, <1>6, <1>7 DEF Init, TypeOK, IsDisk
<1> QED
  BY <1>3, <1>4, <1>5, <1>6, <1>7, <1>8 DEF TypeInv

LEMMA StutterTyped == TypeInv /\ UNCHANGED vars => TypeInv'
<1> SUFFICES ASSUME TypeInv, UNCHANGED vars PROVE TypeInv'
  OBVIOUS
<1>1. UNCHANGED <<chain, recorded, checkpoint, cfOpen, disk, lastHeight, checkKeys, holder, task,
                  failures, saved, calm>>
  BY DEF vars, mem, dsk
<1>2. TypeOK'
  BY <1>1 DEF TypeInv, TypeOK
<1>3. \A u \in Threads : JobTyped(task[u])'
  BY <1>1 DEF TypeInv, JobTyped
<1>4. (chain = << >> \/ IsChain(chain))' /\ IsDisk(disk)'
  BY <1>1 DEF TypeInv, IsChain, Linked, IsDisk
<1>5. IsFiniteSet(checkKeys)'
  BY <1>1 DEF TypeInv
<1> QED
  BY <1>2, <1>3, <1>4, <1>5 DEF TypeInv

LEMMA NextTyped == TypeInv /\ [Next]_vars => TypeInv'
<1> SUFFICES ASSUME TypeInv, [Next]_vars PROVE TypeInv'
  OBVIOUS
<1>1. ASSUME NEW t \in Threads, LockedStep(t) PROVE TypeInv'
  BY <1>1, AddBlockTyped, MergeTyped, SaveTyped, PutBlockTyped, PlanSaveTyped, WriteBatchTyped,
     EndSaveTyped, SaveCheckpointTyped DEF LockedStep
<1>2. ASSUME NEW t \in Threads, UnlockedStep(t) PROVE TypeInv'
  BY <1>2, SnapshotTyped, SaveTyped, RollbackTyped, ReloadTyped DEF UnlockedStep
<1> QED
  BY <1>1, <1>2, RestartTyped, PurgeTyped, StutterTyped DEF Next

-----------------------------------------------------------------------------
(* The theorems.                                                            *)

\* In a calm history the chain of the last save that succeeded can be loaded
\* again, at whatever step of addBlock, a replacement, a cut or a save the
\* process stops.
THEOREM SavedChainSurvives == Spec => []SavedSurvives
<1>1. StoreInv => SavedSurvives
  <2> SUFFICES ASSUME StoreInv, calm PROVE IsPrefixOf(saved, Loaded)
    BY DEF SavedSurvives
  <2>1. CASE saved # << >>
    BY <2>1, SavedStored, LoadedHas
  <2>2. CASE saved = << >>
    <3>1. IsChain(Loaded)
      BY LoadRests
    <3>2. Len(Loaded) \in Nat
      BY <3>1, ChainFacts
    <3> QED
      BY <2>2, <3>2 DEF IsPrefixOf
  <2> QED
    BY <2>1, <2>2
<1> QED
  BY <1>1, StoreInvariant, PTL

\* When no write has failed and every thread is idle, loadFromDB finds the main
\* chain and no more: no block that was cut off or replaced comes back.
THEOREM NothingReturns == Spec => []NothingComesBack
<1>1. StoreInv => NothingComesBack
  <2> SUFFICES ASSUME StoreInv, calm, AllIdle, failures = 0, saved # << >> PROVE Loaded = chain
    BY DEF NothingComesBack
  <2>1. \A t \in Threads : ~ Saving(task[t])
    BY IdleFacts DEF AllIdle
  <2>2. Typed /\ RestInv
    BY <2>1 DEF StoreInv, CalmInv
  <2> QED
    BY <2>2, LoadedHas DEF Typed, RestInv
<1> QED
  BY <1>1, StoreInvariant, PTL

\* Whatever the threads do, fail to write or leave behind, memory and disk keep
\* their types: the owner of blockchainMutex is a thread that is at work, and
\* loadCheckpointFromDB's seek to the last key of cfCheck finds a height.
THEOREM StoreTyped == Spec => []TypeOK
<1>1. TypeInv => TypeOK
  BY DEF TypeInv
<1> QED
  BY <1>1, InitTyped, NextTyped, PTL DEF Spec
=============================================================================
