--------------------------- MODULE BlockTreeProofs ---------------------------
(***************************************************************************)
(* Facts about ancestors and branches that the proofs about the contract   *)
(* follower cite.                                                          *)
(***************************************************************************)
EXTENDS BlockTree, TLAPS

(* Sequences.                                                              *)

LEMMA ElementOfSeq ==
    ASSUME NEW S, NEW s \in Seq(S)
    PROVE  Len(s) \in Nat /\ \A i \in 1..Len(s) : s[i] \in S
OBVIOUS

LEMMA EmptySeq ==
    ASSUME NEW S
    PROVE  /\ <<>> \in Seq(S)
           /\ \A s \in Seq(S) : s = <<>> <=> Len(s) = 0
OBVIOUS

LEMMA SeqEqual ==
    ASSUME NEW S, NEW s \in Seq(S), NEW t \in Seq(S), Len(s) = Len(t),
           \A i \in 1..Len(s) : s[i] = t[i]
    PROVE  s = t
OBVIOUS

LEMMA AppendProperties ==
    ASSUME NEW S, NEW s \in Seq(S), NEW e \in S
    PROVE  /\ Append(s, e) \in Seq(S)
           /\ Len(Append(s, e)) = Len(s) + 1
           /\ Append(s, e)[Len(s) + 1] = e
           /\ \A i \in 1..Len(s) : Append(s, e)[i] = s[i]
OBVIOUS

LEMMA PrefixProperties ==
    ASSUME NEW S, NEW s \in Seq(S), NEW n \in 0..Len(s)
    PROVE  /\ SubSeq(s, 1, n) \in Seq(S)
           /\ Len(SubSeq(s, 1, n)) = n
           /\ \A i \in 1..n : SubSeq(s, 1, n)[i] = s[i]
OBVIOUS

\* Dropping elements from the front keeps the newest n.
LEMMA SuffixProperties ==
    ASSUME NEW S, NEW s \in Seq(S), NEW n \in Nat \ {0}, Len(s) > n
    PROVE  LET r == SubSeq(s, Len(s) - n + 1, Len(s)) IN
           /\ r \in Seq(S) /\ Len(r) = n
           /\ \A i \in 1..n : r[i] = s[Len(s) - n + i]
<1> DEFINE m == Len(s) - n + 1
           r == SubSeq(s, m, Len(s))
<1>1. Len(s) \in Nat /\ m \in 1..Len(s) /\ Len(s) - m + 1 = n
  BY ElementOfSeq
<1> HIDE DEF m
<1>2. r \in Seq(S)
  BY <1>1
<1>3. Len(r) = n
  BY <1>1
<1>4. \A i \in 1..n : r[i] = s[m + i - 1]
  BY <1>1
<1>5. \A i \in 1..n : m + i - 1 = Len(s) - n + i
  BY <1>1 DEF m
<1> QED
  BY <1>2, <1>3, <1>4, <1>5 DEF m

-----------------------------------------------------------------------------
(* Ancestors.                                                              *)

\* Ancestors of a block are blocks, at the height asked for, with the block's own payloads.
LEMMA AncestorProperties ==
    ASSUME NEW b \in Block, NEW k \in 0..Height(b)
    PROVE  /\ Height(b) \in Nat
           /\ Ancestor(b, k) \in Block
           /\ Height(Ancestor(b, k)) = k
           /\ \A i \in 1..(k + 1) : Ancestor(b, k)[i] = b[i]
<1>1. b \in Seq(Payload) /\ Len(b) \in Nat /\ Len(b) >= 1
  BY BlockAssumption
<1>2. k + 1 \in 0..Len(b)
  BY <1>1 DEF Height
<1>3. /\ Len(SubSeq(b, 1, k + 1)) = k + 1
      /\ \A i \in 1..(k + 1) : SubSeq(b, 1, k + 1)[i] = b[i]
  BY <1>1, <1>2, PrefixProperties
<1>4. Ancestor(b, k) \in Block
  BY BlockAssumption
<1> QED
  BY <1>1, <1>3, <1>4 DEF Ancestor, Height

\* Two blocks of one height with the same payloads are the same block.
LEMMA BlockEqual ==
    ASSUME NEW b \in Block, NEW c \in Block, Height(b) = Height(c),
           \A i \in 1..(Height(b) + 1) : b[i] = c[i]
    PROVE  b = c
<1>1. b \in Seq(Payload) /\ c \in Seq(Payload) /\ Len(b) = Len(c)
  BY BlockAssumption DEF Height
<1>2. \A i \in 1..Len(b) : b[i] = c[i]
  BY <1>1 DEF Height
<1> QED
  BY <1>1, <1>2, SeqEqual

\* A block is its own ancestor at its own height.
LEMMA AncestorSelf ==
    ASSUME NEW b \in Block
    PROVE  Height(b) \in Nat /\ Ancestor(b, Height(b)) = b
<1>1. Height(b) \in Nat
  BY BlockAssumption DEF Height
<1>2. Height(b) \in 0..Height(b)
  BY <1>1
<1>3. /\ Ancestor(b, Height(b)) \in Block
      /\ Height(Ancestor(b, Height(b))) = Height(b)
      /\ \A i \in 1..(Height(b) + 1) : Ancestor(b, Height(b))[i] = b[i]
  BY <1>2, AncestorProperties
<1> QED
  BY <1>1, <1>3, BlockEqual

\* An ancestor's ancestor is the block's ancestor.
LEMMA AncestorAncestor ==
    ASSUME NEW b \in Block, NEW k \in 0..Height(b), NEW j \in 0..k
    PROVE  Ancestor(Ancestor(b, k), j) = Ancestor(b, j)
<1>1. /\ Height(b) \in Nat /\ Ancestor(b, k) \in Block /\ Height(Ancestor(b, k)) = k
      /\ \A i \in 1..(k + 1) : Ancestor(b, k)[i] = b[i]
  BY AncestorProperties
<1>2. j \in 0..Height(b) /\ j \in 0..Height(Ancestor(b, k))
  BY <1>1
<1>3. /\ Ancestor(b, j) \in Block /\ Height(Ancestor(b, j)) = j
      /\ \A i \in 1..(j + 1) : Ancestor(b, j)[i] = b[i]
  BY <1>2, AncestorProperties
<1>4. /\ Ancestor(Ancestor(b, k), j) \in Block /\ Height(Ancestor(Ancestor(b, k), j)) = j
      /\ \A i \in 1..(j + 1) : Ancestor(Ancestor(b, k), j)[i] = Ancestor(b, k)[i]
  BY <1>1, <1>2, AncestorProperties
<1>5. \A i \in 1..(j + 1) : Ancestor(Ancestor(b, k), j)[i] = Ancestor(b, j)[i]
  BY <1>1, <1>3, <1>4
<1> QED
  BY <1>3, <1>4, <1>5, BlockEqual

\* The genesis block is the only block of height 0.
LEMMA GenesisUnique ==
    ASSUME NEW b \in Block
    PROVE  Height(b) = 0 <=> b = Genesis
<1>1. Ancestor(b, 0) = Genesis /\ Len(Genesis) = 1
  BY BlockAssumption
<1>2. Ancestor(b, Height(b)) = b
  BY AncestorSelf
<1>3. Height(b) = 0 => b = Genesis
  BY <1>1, <1>2
<1>4. Height(Genesis) = 0
  BY <1>1 DEF Height
<1> QED
  BY <1>3, <1>4

\* A branch consists of blocks; it is empty exactly when it starts above its block.
LEMMA BranchProperties ==
    ASSUME NEW b \in Block, NEW lo \in Nat
    PROVE  /\ Branch(b, lo) \subseteq Block
           /\ lo <= Height(b) => b \in Branch(b, lo)
           /\ lo > Height(b) => Branch(b, lo) = {}
           /\ \A c \in Branch(b, lo) : Height(c) \in lo..Height(b)
<1>1. Height(b) \in Nat /\ Ancestor(b, Height(b)) = b
  BY AncestorSelf
<1>2. \A k \in lo..Height(b) : Ancestor(b, k) \in Block /\ Height(Ancestor(b, k)) = k
  BY <1>1, AncestorProperties
<1>3. lo <= Height(b) => Height(b) \in lo..Height(b)
  BY <1>1
<1>4. lo > Height(b) => lo..Height(b) = {}
  BY <1>1
<1> QED
  BY <1>1, <1>2, <1>3, <1>4 DEF Branch

\* Two blocks of a branch with the same height are the same block.
LEMMA BranchInjective ==
    ASSUME NEW b \in Block, NEW lo \in Nat,
           NEW c \in Branch(b, lo), NEW d \in Branch(b, lo), Height(c) = Height(d)
    PROVE  c = d
<1>1. Height(b) \in Nat
  BY AncestorSelf
<1>2. PICK j \in lo..Height(b) : c = Ancestor(b, j)
  BY DEF Branch
<1>3. PICK k \in lo..Height(b) : d = Ancestor(b, k)
  BY DEF Branch
<1>4. Height(c) = j /\ Height(d) = k
  BY <1>1, <1>2, <1>3, AncestorProperties
<1> QED
  BY <1>2, <1>3, <1>4

\* Going down one block: the rest of a branch is the branch of the parent.
LEMMA BranchBelow ==
    ASSUME NEW b \in Block, NEW lo \in 0..Height(b)
    PROVE  Branch(b, lo) \ {b} = IF lo = Height(b) THEN {} ELSE Branch(Pprev(b), lo)
<1>1. Height(b) \in Nat /\ Ancestor(b, Height(b)) = b
  BY AncestorSelf
<1>2. \A k \in lo..Height(b) : Height(Ancestor(b, k)) = k
  BY <1>1, AncestorProperties
<1>3. Branch(b, lo) \ {b} = {Ancestor(b, k) : k \in lo..(Height(b) - 1)}
  BY <1>1, <1>2 DEF Branch
<1>4. CASE lo = Height(b)
  BY <1>1, <1>3, <1>4
<1>5. CASE lo # Height(b)
  <2>1. Height(b) - 1 \in 0..Height(b)
    BY <1>1, <1>5
  <2>2. Height(Pprev(b)) = Height(b) - 1
    BY <2>1, AncestorProperties DEF Pprev
  <2>3. \A k \in lo..(Height(b) - 1) : Ancestor(Pprev(b), k) = Ancestor(b, k)
    BY <2>1, <1>1, AncestorAncestor DEF Pprev
  <2> QED
    BY <1>3, <1>5, <2>2, <2>3 DEF Branch
<1> QED
  BY <1>4, <1>5

\* Going up one block of a chain adds that block to the branch.
LEMMA BranchAbove ==
    ASSUME NEW b \in Block, NEW k \in 1..Height(b), NEW lo \in 0..k
    PROVE  Branch(Ancestor(b, k - 1), lo) \cup {Ancestor(b, k)} = Branch(Ancestor(b, k), lo)
<1>1. /\ Height(b) \in Nat /\ k \in 0..Height(b) /\ k - 1 \in 0..Height(b)
  BY AncestorSelf
<1>2. Height(Ancestor(b, k)) = k /\ Height(Ancestor(b, k - 1)) = k - 1
  BY <1>1, AncestorProperties
<1>3. \A j \in 0..k : Ancestor(Ancestor(b, k), j) = Ancestor(b, j)
  BY <1>1, AncestorAncestor
<1>4. \A j \in 0..(k - 1) : Ancestor(Ancestor(b, k - 1), j) = Ancestor(b, j)
  BY <1>1, AncestorAncestor
<1>5. Branch(Ancestor(b, k), lo) = {Ancestor(b, j) : j \in lo..k}
  BY <1>1, <1>2, <1>3 DEF Branch
<1>6. Branch(Ancestor(b, k - 1), lo) = {Ancestor(b, j) : j \in lo..(k - 1)}
  BY <1>1, <1>2, <1>4 DEF Branch
<1>7. lo..k = (lo..(k - 1)) \cup {k}
  BY <1>1
<1> QED
  BY <1>5, <1>6, <1>7

\* Extending a branch at its lower end.
LEMMA BranchExtend ==
    ASSUME NEW b \in Block, NEW k \in 0..Height(b)
    PROVE  Branch(b, k + 1) \cup {Ancestor(b, k)} = Branch(b, k)
<1>1. Height(b) \in Nat
  BY AncestorSelf
<1>2. k..Height(b) = ((k + 1)..Height(b)) \cup {k}
  BY <1>1
<1> QED
  BY <1>2 DEF Branch

-----------------------------------------------------------------------------
(* Paths.  Where chains are sets of blocks, these lemmas are all that is   *)
(* needed of Path, Contains, Height and Pprev.                             *)

LEMMA PathMember ==
    ASSUME NEW b \in Block, NEW x
    PROVE  x \in Path(b) <=> \E h \in 0..Height(b) : x = Ancestor(b, h)
BY DEF Path, Branch

LEMMA PathProperties ==
    ASSUME NEW b \in Block
    PROVE  /\ Height(b) \in Nat
           /\ Path(b) \subseteq Block
           /\ b \in Path(b)
           /\ Genesis \in Path(b)
           /\ \A x \in Path(b) : Height(x) \in 0..Height(b)
<1>1. Height(b) \in Nat /\ Ancestor(b, Height(b)) = b
  BY AncestorSelf
<1>2. Height(b) \in 0..Height(b) /\ 0 \in 0..Height(b)
  BY <1>1
<1>3. Ancestor(b, 0) = Genesis
  BY BlockAssumption
<1>4. \A h \in 0..Height(b) : Ancestor(b, h) \in Block /\ Height(Ancestor(b, h)) = h
  BY AncestorProperties
<1> QED
  BY <1>1, <1>2, <1>3, <1>4, PathMember

LEMMA PathOrder ==
    ASSUME NEW b \in Block, NEW x \in Path(b), NEW y \in Path(b), Height(x) <= Height(y)
    PROVE  x \in Path(y)
<1>1. PICK j \in 0..Height(b) : x = Ancestor(b, j)
  BY PathMember
<1>2. PICK k \in 0..Height(b) : y = Ancestor(b, k)
  BY PathMember
<1>3. Height(b) \in Nat /\ Height(x) = j /\ Height(y) = k /\ y \in Block
  BY <1>1, <1>2, AncestorProperties, AncestorSelf
<1>4. j \in 0..k
  BY <1>3
<1>5. Ancestor(y, j) = x
  BY <1>1, <1>2, <1>4, AncestorAncestor
<1> QED
  BY <1>3, <1>4, <1>5, PathMember

LEMMA PathTransitive ==
    ASSUME NEW b \in Block, NEW x \in Path(b)
    PROVE  Path(x) \subseteq Path(b)
<1>1. PICK j \in 0..Height(b) : x = Ancestor(b, j)
  BY PathMember
<1>2. Height(b) \in Nat /\ Height(x) = j /\ x \in Block
  BY <1>1, AncestorProperties, AncestorSelf
<1>3. \A k \in 0..j : Ancestor(x, k) = Ancestor(b, k) /\ k \in 0..Height(b)
  BY <1>1, <1>2, AncestorAncestor
<1> QED
  BY <1>2, <1>3, PathMember

LEMMA PathContains ==
    ASSUME NEW b \in Block, NEW x \in Block
    PROVE  Contains(b, x) <=> x \in Path(b)
<1>1. Height(b) \in Nat /\ Height(x) \in Nat
  BY AncestorSelf
<1>2. \A h \in 0..Height(b) : Height(Ancestor(b, h)) = h
  BY AncestorProperties
<1>3. Contains(b, x) => Height(x) \in 0..Height(b) /\ x = Ancestor(b, Height(x))
  BY <1>1 DEF Contains
<1>4. ASSUME NEW h \in 0..Height(b), x = Ancestor(b, h)
      PROVE  Contains(b, x)
  BY <1>1, <1>2, <1>4 DEF Contains
<1> QED
  BY <1>3, <1>4, PathMember

LEMMA PathPprev ==
    ASSUME NEW b \in Block, b # Genesis
    PROVE  /\ Pprev(b) \in Block
           /\ Height(Pprev(b)) < Height(b)
           /\ Path(b) = Path(Pprev(b)) \cup {b}
           /\ b \notin Path(Pprev(b))
<1>1. Height(b) \in Nat /\ Height(b) # 0 /\ Ancestor(b, Height(b)) = b
  BY AncestorSelf, GenesisUnique
<1>2. Height(b) - 1 \in 0..Height(b)
  BY <1>1
<1>3. Pprev(b) \in Block /\ Height(Pprev(b)) = Height(b) - 1
  BY <1>2, AncestorProperties DEF Pprev
<1>4. \A k \in 0..(Height(b) - 1) : Ancestor(Pprev(b), k) = Ancestor(b, k)
  BY <1>2, AncestorAncestor DEF Pprev
<1>5. \A k \in 0..Height(b) : k = Height(b) \/ k \in 0..(Height(b) - 1)
  BY <1>1
<1>6. \A k \in 0..(Height(b) - 1) : k \in 0..Height(b)
  BY <1>1
<1>7. Height(b) \in 0..Height(b)
  BY <1>1
<1>8. Path(b) = Path(Pprev(b)) \cup {b}
  <2>1. ASSUME NEW x \in Path(b)
        PROVE  x \in Path(Pprev(b)) \cup {b}
    <3>1. PICK k \in 0..Height(b) : x = Ancestor(b, k)
      BY PathMember
    <3> QED
      BY <1>1, <1>3, <1>4, <1>5, <3>1, PathMember
  <2>2. ASSUME NEW x \in Path(Pprev(b)) \cup {b}
        PROVE  x \in Path(b)
    <3>1. CASE x = b
      BY <1>1, <1>7, <3>1, PathMember
    <3>2. CASE x \in Path(Pprev(b))
      <4>1. PICK k \in 0..(Height(b) - 1) : x = Ancestor(Pprev(b), k)
        BY <1>3, <3>2, PathMember
      <4> QED
        BY <1>4, <1>6, <4>1, PathMember
    <3> QED
      BY <3>1, <3>2
  <2> QED
    BY <2>1, <2>2
<1>9. b \notin Path(Pprev(b))
  BY <1>1, <1>3, PathProperties
<1> QED
  BY <1>1, <1>3, <1>8, <1>9

LEMMA PathGenesis == Genesis \in Block /\ Path(Genesis) = {Genesis}
<1>1. Genesis \in Block
  BY BlockAssumption
<1>2. Height(Genesis) = 0
  BY <1>1, GenesisUnique
<1>3. \A h \in 0..0 : h = 0
  OBVIOUS
<1>4. Ancestor(Genesis, 0) = Genesis
  BY BlockAssumption
<1>5. \A x \in Path(Genesis) : x = Genesis
  BY <1>1, <1>2, <1>3, <1>4, PathMember
<1> QED
  BY <1>1, <1>5, PathProperties

LEMMA PathHeight ==
    ASSUME NEW b \in Block, NEW x \in Path(b), NEW y \in Path(b), Height(x) = Height(y)
    PROVE  x = y
<1>1. PICK j \in 0..Height(b) : x = Ancestor(b, j)
  BY PathMember
<1>2. PICK k \in 0..Height(b) : y = Ancestor(b, k)
  BY PathMember
<1>3. Height(x) = j /\ Height(y) = k
  BY <1>1, <1>2, AncestorProperties
<1> QED
  BY <1>1, <1>2, <1>3
=============================================================================
