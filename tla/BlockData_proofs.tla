--------------------------- MODULE BlockData_proofs ---------------------------
(***************************************************************************)
(* Proofs about the fact that BlockData computes, for any PIEs and blocks. *)
(*                                                                         *)
(* The tree of the fact (Tree): the stack divides the words read so far,   *)
(* every parent is its children, and every node has one place.             *)
(*                                                                         *)
(* The verdict (Verdicts): what has been read of the pages and pushed for  *)
(* the pairs is what the definition of a valid PIE counts (PagesInv,       *)
(* LeavesInv, StackInv), so that the first check that fails is one that    *)
(* a valid PIE passes, and a PIE that passes all is valid.                 *)
(***************************************************************************)
EXTENDS BlockData, FiniteSetTheorems, SequenceTheorems, WellFoundedInduction, TLAPS

-------------------------------------------------------------------------------
(* Induction over the natural numbers, and sums *)

Less == {p \in Nat \X Nat : p[1] < p[2]}

(* A set of numbers that is not empty has a least one. *)
LEMMA LeastIn ==
  ASSUME NEW T, T \subseteq Nat, T # {}
  PROVE  \E n \in T : \A m \in T : n <= m
<1>1. IsWellFoundedOn(Less, Nat)
  <2>1. OpToRel(<, Nat) = Less
    BY DEF OpToRel, Less
  <2> QED
    BY <2>1, NatLessThanWellFounded
<1>2. PICK n \in T : \A m \in T : ~(<<m, n>> \in Less)
  BY <1>1, WFMin
<1>3. ASSUME NEW m \in T PROVE n <= m
  <2>1. m \in Nat /\ n \in Nat /\ ~(<<m, n>> \in Less)
    BY <1>2
  <2>2. ~(m < n)
    BY <2>1 DEF Less
  <2> QED
    BY <2>1, <2>2
<1> QED
  BY <1>3

(* A set that holds 0 and with a number the next one holds all natural numbers. *)
LEMMA NatInduct ==
  ASSUME NEW S, 0 \in S, \A n \in Nat : n \in S => n + 1 \in S
  PROVE  Nat \subseteq S
<1> DEFINE T == Nat \ S
<1> SUFFICES ASSUME T # {} PROVE FALSE
  OBVIOUS
<1>1. PICK n \in T : \A m \in T : n <= m
  <2>1. T \subseteq Nat
    OBVIOUS
  <2> HIDE DEF T
  <2> QED
    BY <2>1, LeastIn
<1>2. n \in Nat /\ n # 0 /\ n \notin S
  OBVIOUS
<1>3. n - 1 \in Nat /\ n - 1 < n /\ n - 1 + 1 = n
  BY <1>2
<1>4. n - 1 \in S
  BY <1>1, <1>3
<1> QED
  BY <1>2, <1>3, <1>4

-----
Pick(s) == CHOOSE x \in s : TRUE

SumFn(f, D) ==
    CHOOSE iter : iter = [s \in SUBSET D |->
                             IF s = {} THEN 0 ELSE f[Pick(s)] + iter[s \ {Pick(s)}]]

(* What FoldFunction is. *)
LEMMA TotalUnfolds ==
  ASSUME NEW f
  PROVE  Fact!Total(f) = SumFn(f, DOMAIN f)[DOMAIN f]
  BY DEF Fact!Total, Fact!FoldFunction, Fact!FoldFunctionOnSet, Fact!MapThenFoldSet, SumFn, Pick

\* g gives the sum of f over the sets of numbers up to n, in whatever order it is taken.
SumsUp(f, n, g) ==
    /\ g \in [SUBSET (1 .. n) -> Int]
    /\ g[{}] = 0
    /\ \A s \in SUBSET (1 .. n) : \A x \in s : g[s] = f[x] + g[s \ {x}]

(* so sums add up element by element. *)
LEMMA SumsExist ==
  ASSUME NEW n \in Nat, NEW f \in [1 .. n -> Int]
  PROVE  \E g : SumsUp(f, n, g)
<1> DEFINE P == {m \in Nat : m <= n => \E g : SumsUp(f, m, g)}
<1>1. 0 \in P
  <2> DEFINE g == [s \in SUBSET (1 .. 0) |-> 0]
  <2>1. 1 .. 0 = {}
    OBVIOUS
  <2>2. g \in [SUBSET (1 .. 0) -> Int] /\ g[{}] = 0
    OBVIOUS
  <2>3. \A s \in SUBSET (1 .. 0) : \A x \in s : FALSE
    BY <2>1
  <2>4. SumsUp(f, 0, g)
    BY <2>2, <2>3 DEF SumsUp
  <2> QED
    BY <2>4
<1>2. ASSUME NEW m \in Nat, m \in P
      PROVE  m + 1 \in P
  <2>1. ASSUME m + 1 <= n
        PROVE  \E h : SumsUp(f, m + 1, h)
    <3>1. PICK g : SumsUp(f, m, g)
      BY <1>2, <2>1
    <3> DEFINE old(s) == g[s \ {m + 1}]
               h == [s \in SUBSET (1 .. m + 1) |->
                        IF m + 1 \in s THEN f[m + 1] + old(s) ELSE old(s)]
    <3>2. \A s \in SUBSET (1 .. m + 1) : s \ {m + 1} \in SUBSET (1 .. m)
      OBVIOUS
    <3>3. \A s \in SUBSET (1 .. m + 1) : old(s) \in Int
      BY <3>1, <3>2, Zenon DEF SumsUp
    <3>4. f[m + 1] \in Int
      BY <2>1
    <3>5. h \in [SUBSET (1 .. m + 1) -> Int]
      <4> HIDE DEF old
      <4> QED
        BY <3>3, <3>4
    <3>6. h[{}] = 0
      <4>1. {} \ {m + 1} = {} /\ {} \in SUBSET (1 .. m + 1)
        OBVIOUS
      <4> QED
        BY <3>1, <4>1 DEF SumsUp
    <3>7. ASSUME NEW s \in SUBSET (1 .. m + 1), NEW x \in s
          PROVE  h[s] = f[x] + h[s \ {x}]
      <4>1. s \ {x} \in SUBSET (1 .. m + 1)
        OBVIOUS
      <4>2. ASSUME x = m + 1
            PROVE  h[s] = f[x] + h[s \ {x}]
        <5>1. (s \ {x}) \ {m + 1} = s \ {m + 1} /\ m + 1 \notin s \ {x} /\ m + 1 \in s
          BY <4>2
        <5>2. h[s] = f[m + 1] + old(s)
          BY <5>1
        <5>3. h[s \ {x}] = old(s \ {x}) /\ old(s \ {x}) = old(s)
          BY <4>1, <5>1
        <5> QED
          BY <4>2, <5>2, <5>3
      <4>3. ASSUME x # m + 1
            PROVE  h[s] = f[x] + h[s \ {x}]
        <5>1. /\ (s \ {x}) \ {m + 1} = (s \ {m + 1}) \ {x} /\ x \in s \ {m + 1}
              /\ (m + 1 \in s \ {x} <=> m + 1 \in s)
          BY <4>3
        <5>2. old(s) = f[x] + g[(s \ {m + 1}) \ {x}]
          BY <3>1, <3>2, <5>1 DEF SumsUp
        <5>3. old(s) = f[x] + old(s \ {x})
          BY <5>1, <5>2
        <5>4. f[x] \in Int
          BY <2>1
        <5>5. h[s] = (IF m + 1 \in s THEN f[m + 1] + old(s) ELSE old(s))
          OBVIOUS
        <5>6. h[s \ {x}] = (IF m + 1 \in s THEN f[m + 1] + old(s \ {x}) ELSE old(s \ {x}))
          BY <4>1, <5>1
        <5>7. old(s) \in Int /\ old(s \ {x}) \in Int
          BY <3>3, <4>1
        <5> HIDE DEF old, h
        <5> QED
          BY <3>4, <5>3, <5>4, <5>5, <5>6, <5>7
      <4> QED
        BY <4>2, <4>3
    <3> HIDE DEF h
    <3>8. SumsUp(f, m + 1, h)
      BY <3>5, <3>6, <3>7 DEF SumsUp
    <3> QED
      BY <3>8
  <2> QED
    BY <2>1
<1>3. n \in P
  <2> HIDE DEF P
  <2> QED
    BY <1>1, <1>2, NatInduct
<1>4. n <= n
  OBVIOUS
<1> QED
  BY <1>3, <1>4

(* The order does not matter. *)
LEMMA TotalOf ==
  ASSUME NEW n \in Nat, NEW f \in [1 .. n -> Int], NEW g, SumsUp(f, n, g)
  PROVE  Fact!Total(f) = g[1 .. n] /\ g[1 .. n] \in Int
<1> DEFINE D == 1 .. n
           h == SumFn(f, D)
<1>1. \A s \in SUBSET D : s # {} => Pick(s) \in s
  BY DEF Pick
<1>2. g = [s \in SUBSET D |-> IF s = {} THEN 0 ELSE f[Pick(s)] + g[s \ {Pick(s)}]]
  BY <1>1 DEF SumsUp
<1>3. h = [s \in SUBSET D |-> IF s = {} THEN 0 ELSE f[Pick(s)] + h[s \ {Pick(s)}]]
  BY <1>2 DEF SumFn
<1>4. IsFiniteSet(D) /\ DOMAIN f = D /\ D \in SUBSET D
  BY FS_Interval
<1> HIDE DEF D, h
<1> DEFINE Q == {k \in Nat : \A s \in SUBSET D : Cardinality(s) = k => h[s] = g[s]}
<1>5. \A s \in SUBSET D : IsFiniteSet(s) /\ Cardinality(s) \in Nat
  BY <1>4, FS_Subset, FS_CardinalityType
<1>6. 0 \in Q
  <2>1. ASSUME NEW s \in SUBSET D, Cardinality(s) = 0
        PROVE  h[s] = g[s]
    <3>1. s = {}
      BY <1>5, <2>1, FS_EmptySet
    <3>2. h[s] = 0
      BY <1>3, <3>1, Zenon
    <3> QED
      BY <3>1, <3>2 DEF SumsUp
  <2> QED
    BY <2>1
<1>7. ASSUME NEW k \in Nat, k \in Q
      PROVE  k + 1 \in Q
  <2>1. ASSUME NEW s \in SUBSET D, Cardinality(s) = k + 1
        PROVE  h[s] = g[s]
    <3>1. ASSUME s = {} PROVE FALSE
      BY <2>1, <3>1, FS_EmptySet
    <3> DEFINE x == Pick(s)
    <3>2. x \in s
      BY <1>1, <3>1
    <3> HIDE DEF x
    <3>3. s \ {x} \in SUBSET D /\ Cardinality(s \ {x}) = k
      BY <1>5, <2>1, <3>2, FS_RemoveElement
    <3>4. h[s \ {x}] = g[s \ {x}]
      BY <1>7, <3>3
    <3>5. h[s] = f[x] + h[s \ {x}]
      BY <1>3, <3>1, Zenon DEF x
    <3>6. g[s] = f[x] + g[s \ {x}]
      BY <3>2 DEF SumsUp, D
    <3> QED
      BY <3>4, <3>5, <3>6
  <2> QED
    BY <2>1
<1>8. Nat \subseteq Q
  <2> HIDE DEF Q
  <2> QED
    BY <1>6, <1>7, NatInduct
<1>9. h[D] = g[D]
  BY <1>4, <1>5, <1>8
<1>10. Fact!Total(f) = h[D]
  BY <1>4, TotalUnfolds DEF h
<1> QED
  BY <1>4, <1>9, <1>10 DEF D, SumsUp

(* A sum is a number, nothing sums up to 0, and the last summand may be split off. *)
LEMMA TotalSplits ==
  ASSUME NEW m \in Nat, NEW f \in [1 .. m + 1 -> Int], NEW h \in [1 .. m -> Int],
         \A i \in 1 .. m : h[i] = f[i]
  PROVE  /\ Fact!Total(f) = Fact!Total(h) + f[m + 1]
         /\ Fact!Total(f) \in Int /\ Fact!Total(h) \in Int
<1>1. PICK g : SumsUp(f, m + 1, g)
  BY SumsExist
<1> DEFINE r == [s \in SUBSET (1 .. m) |-> g[s]]
<1>2. SUBSET (1 .. m) \subseteq SUBSET (1 .. m + 1)
  OBVIOUS
<1>3. SumsUp(h, m, r)
  <2>1. r \in [SUBSET (1 .. m) -> Int] /\ r[{}] = 0
    BY <1>1, <1>2 DEF SumsUp
  <2>2. ASSUME NEW s \in SUBSET (1 .. m), NEW x \in s
        PROVE  r[s] = h[x] + r[s \ {x}]
    <3>1. g[s] = f[x] + g[s \ {x}] /\ f[x] = h[x]
      BY <1>1, <1>2 DEF SumsUp
    <3>2. s \ {x} \in SUBSET (1 .. m)
      OBVIOUS
    <3> QED
      BY <3>1, <3>2
  <2> QED
    BY <2>1, <2>2 DEF SumsUp
<1>4. Fact!Total(h) = r[1 .. m] /\ r[1 .. m] \in Int /\ r[1 .. m] = g[1 .. m]
  <2> HIDE DEF r
  <2>1. Fact!Total(h) = r[1 .. m] /\ r[1 .. m] \in Int
    BY <1>3, TotalOf
  <2> QED
    BY <2>1 DEF r
<1>5. Fact!Total(f) = g[1 .. m + 1] /\ g[1 .. m + 1] \in Int
  BY <1>1, TotalOf
<1>6. g[1 .. m + 1] = f[m + 1] + g[1 .. m]
  <2> DEFINE all == 1 .. m + 1
  <2>1. m + 1 \in all /\ all \ {m + 1} = 1 .. m
    OBVIOUS
  <2> HIDE DEF r
  <2>2. \A s \in SUBSET all : \A x \in s : g[s] = f[x] + g[s \ {x}]
    BY <1>1, Zenon DEF SumsUp
  <2> HIDE DEF all
  <2>3. g[all] = f[m + 1] + g[all \ {m + 1}]
    BY <2>1, <2>2, Zenon
  <2> QED
    BY <2>1, <2>3, Zenon DEF all
<1>7. f[m + 1] \in Int
  OBVIOUS
<1> QED
  BY <1>4, <1>5, <1>6, <1>7

(* The sum of nothing. *)
LEMMA TotalOfNone ==
  ASSUME NEW f \in [1 .. 0 -> Int]
  PROVE  Fact!Total(f) = 0
<1>1. PICK g : SumsUp(f, 0, g)
  BY SumsExist
<1>2. Fact!Total(f) = g[1 .. 0]
  BY <1>1, TotalOf
<1>3. 1 .. 0 = {}
  OBVIOUS
<1> QED
  BY <1>1, <1>2, <1>3 DEF SumsUp

(* A sum of differences. *)
LEMMA Telescope ==
  ASSUME NEW n \in Nat, NEW f \in [1 .. n -> Int], NEW b \in [0 .. n -> Int],
         \A i \in 1 .. n : f[i] = b[i] - b[i - 1]
  PROVE  Fact!Total(f) = b[n] - b[0]
<1> DEFINE upto(m) == [i \in 1 .. m |-> f[i]]
           P == {m \in Nat : m <= n => Fact!Total(upto(m)) = b[m] - b[0]}
<1>1. 0 \in P
  <2>1. upto(0) \in [1 .. 0 -> Int]
    OBVIOUS
  <2>2. b[0] \in Int
    OBVIOUS
  <2> HIDE DEF upto
  <2> QED
    BY <2>1, <2>2, TotalOfNone
<1>2. ASSUME NEW m \in Nat, m \in P
      PROVE  m + 1 \in P
  <2>1. ASSUME m + 1 <= n
        PROVE  Fact!Total(upto(m + 1)) = b[m + 1] - b[0]
    <3>1. /\ upto(m + 1) \in [1 .. m + 1 -> Int] /\ upto(m) \in [1 .. m -> Int]
          /\ \A i \in 1 .. m : upto(m)[i] = upto(m + 1)[i]
          /\ upto(m + 1)[m + 1] = f[m + 1]
      BY <2>1
    <3>2. Fact!Total(upto(m)) = b[m] - b[0]
      BY <1>2, <2>1
    <3>3. f[m + 1] = b[m + 1] - b[m] /\ b[m] \in Int /\ b[0] \in Int /\ b[m + 1] \in Int
      BY <2>1
    <3> HIDE DEF upto
    <3>4. Fact!Total(upto(m + 1)) = Fact!Total(upto(m)) + f[m + 1]
      BY <3>1, TotalSplits
    <3> QED
      BY <3>2, <3>3, <3>4
  <2> QED
    BY <2>1
<1>3. n \in P
  <2> HIDE DEF P
  <2> QED
    BY <1>1, <1>2, NatInduct
<1>4. n <= n /\ upto(n) = f
  OBVIOUS
<1> QED
  BY <1>3, <1>4

-------------------------------------------------------------------------------
(* The nodes of the tree *)

Node == [end : Nat, size : Int, children : Seq(Nat)]

\* The rows over the first n nodes.
Rows(n) == Seq(1 .. n)

FirstOf(N, n) == N[n].end - N[n].size

AdjoinIn(N, row) == \A i \in 1 .. Len(row) - 1 : N[row[i]].end = FirstOf(N, row[i + 1])

\* The row divides the first e words.
Divides(N, row, e) ==
    /\ AdjoinIn(N, row)
    /\ row = <<>> => e = 0
    /\ row # <<>> => FirstOf(N, row[1]) = 0 /\ N[row[Len(row)]].end = e

\* Node n is exactly its children.
Whole(N, n) ==
    LET children == N[n].children IN
    children # <<>> => /\ AdjoinIn(N, children)
                       /\ FirstOf(N, n) = FirstOf(N, children[1])
                       /\ N[n].end = N[children[Len(children)]].end

(* A row in words of indices. *)
LEMMA RowIs ==
  ASSUME NEW k \in Nat, NEW row \in Rows(k)
  PROVE  /\ Len(row) \in Nat /\ DOMAIN row = 1 .. Len(row)
         /\ \A i \in 1 .. Len(row) : row[i] \in 1 .. k
         /\ (row = <<>> <=> Len(row) = 0)
         /\ row # <<>> => 1 \in 1 .. Len(row) /\ Len(row) \in 1 .. Len(row)
<1>1. Len(row) \in Nat /\ DOMAIN row = 1 .. Len(row) /\ \A i \in 1 .. Len(row) : row[i] \in 1 .. k
  BY LenProperties, ElementOfSeq DEF Rows
<1>2. row = <<>> <=> Len(row) = 0
  BY EmptySeq DEF Rows
<1> QED
  BY <1>1, <1>2

(* A new node at the end of a row. *)
LEMMA PushOn ==
  ASSUME NEW k \in Nat, NEW row \in Rows(k)
  PROVE  /\ Append(row, k + 1) \in Rows(k + 1)
         /\ Len(Append(row, k + 1)) = Len(row) + 1
         /\ Append(row, k + 1)[Len(row) + 1] = k + 1
         /\ Append(row, k + 1) # <<>>
         /\ \A i \in 1 .. Len(row) : Append(row, k + 1)[i] = row[i]
<1> DEFINE S == 1 .. k + 1
<1>1. row \in Seq(S) /\ k + 1 \in S
  BY DEF Rows
<1> HIDE DEF S
<1>2. /\ Append(row, k + 1) \in Seq(S)
      /\ Append(row, k + 1) # <<>>
      /\ Len(Append(row, k + 1)) = Len(row) + 1
      /\ \A i \in 1 .. Len(row) : Append(row, k + 1)[i] = row[i]
      /\ Append(row, k + 1)[Len(row) + 1] = k + 1
  BY <1>1, AppendProperties
<1> QED
  BY <1>2 DEF Rows, S

(* One more node changes nothing about the ones before. *)
LEMMA OldNodes ==
  ASSUME NEW N \in Seq(Node), NEW x \in Node, NEW M, M = Append(N, x)
  PROVE  /\ M \in Seq(Node) /\ Len(M) = Len(N) + 1 /\ Len(N) \in Nat
         /\ M[Len(N) + 1] = x
         /\ \A n \in 1 .. Len(N) : M[n] = N[n] /\ FirstOf(M, n) = FirstOf(N, n)
         /\ \A row \in Rows(Len(N)) : AdjoinIn(N, row) => AdjoinIn(M, row)
<1>1. /\ M \in Seq(Node) /\ Len(M) = Len(N) + 1 /\ Len(N) \in Nat
      /\ M[Len(N) + 1] = x
      /\ \A n \in 1 .. Len(N) : M[n] = N[n]
  BY AppendProperties, LenProperties
<1>2. \A n \in 1 .. Len(N) : FirstOf(M, n) = FirstOf(N, n)
  BY <1>1 DEF FirstOf
<1>3. ASSUME NEW row \in Rows(Len(N)), AdjoinIn(N, row)
      PROVE  AdjoinIn(M, row)
  <2>1. ASSUME NEW i \in 1 .. Len(row) - 1
        PROVE  M[row[i]].end = FirstOf(M, row[i + 1])
    <3>1. i \in 1 .. Len(row) /\ i + 1 \in 1 .. Len(row)
      BY <1>1, RowIs
    <3>2. row[i] \in 1 .. Len(N) /\ row[i + 1] \in 1 .. Len(N)
      BY <1>1, <3>1, RowIs
    <3>3. N[row[i]].end = FirstOf(N, row[i + 1])
      BY <1>3 DEF AdjoinIn
    <3> QED
      BY <1>1, <1>2, <3>2, <3>3
  <2> QED
    BY <2>1 DEF AdjoinIn
<1> QED
  BY <1>1, <1>2, <1>3

(* Two parts of OldNodes: where an old node starts, *)
LEMMA OldFirst ==
  ASSUME NEW N \in Seq(Node), NEW x \in Node
  PROVE  \A n \in 1 .. Len(N) : FirstOf(Append(N, x), n) = FirstOf(N, n)
  BY OldNodes

(* and that old neighbours stay neighbours. *)
LEMMA OldAdjoin ==
  ASSUME NEW N \in Seq(Node), NEW x \in Node
  PROVE  \A r \in Rows(Len(N)) : AdjoinIn(N, r) => AdjoinIn(Append(N, x), r)
  BY OldNodes

(* A leaf goes to the end of the row. *)
LEMMA LeafDivides ==
  ASSUME NEW N \in Seq(Node), NEW row \in Rows(Len(N)), NEW e \in Nat, Divides(N, row, e),
         NEW h \in Nat, NEW x \in Node, x.end = e + h, x.size = h,
         NEW M, M = Append(N, x), NEW longer, longer = Append(row, Len(N) + 1)
  PROVE  Divides(M, longer, e + h)
<1>1. /\ M[Len(N) + 1] = x /\ Len(N) \in Nat
      /\ \A n \in 1 .. Len(N) : M[n] = N[n] /\ FirstOf(M, n) = FirstOf(N, n)
      /\ AdjoinIn(M, row)
  <2>1. AdjoinIn(N, row)
    BY DEF Divides
  <2>2. Len(N) \in Nat /\ M[Len(N) + 1] = x
    BY OldNodes
  <2>4. \A n \in 1 .. Len(N) : M[n] = N[n]
    BY OldNodes
  <2>5. \A n \in 1 .. Len(N) : FirstOf(M, n) = FirstOf(N, n)
    BY OldNodes
  <2>3. \A r \in Rows(Len(N)) : AdjoinIn(N, r) => AdjoinIn(M, r)
    BY OldNodes
  <2> QED
    BY <2>1, <2>2, <2>3, <2>4, <2>5, Zenon
<1>2. FirstOf(M, Len(N) + 1) = e
  BY <1>1 DEF FirstOf
<1>3. /\ Len(longer) = Len(row) + 1 /\ longer[Len(row) + 1] = Len(N) + 1 /\ longer # <<>>
      /\ \A i \in 1 .. Len(row) : longer[i] = row[i]
  BY AppendProperties, SMTT(30) DEF Rows
<1>4. Len(row) \in Nat /\ \A i \in 1 .. Len(row) : row[i] \in 1 .. Len(N)
  BY <1>1, RowIs
<1>5. ASSUME NEW i \in 1 .. Len(longer) - 1
      PROVE  M[longer[i]].end = FirstOf(M, longer[i + 1])
  <2>1. i \in 1 .. Len(row)
    BY <1>3, <1>4
  <2>2. ASSUME i < Len(row)
        PROVE  M[longer[i]].end = FirstOf(M, longer[i + 1])
    <3>1. i \in 1 .. Len(row) - 1 /\ i + 1 \in 1 .. Len(row)
      BY <1>4, <2>1, <2>2
    <3> QED
      BY <1>1, <1>3, <2>1, <3>1 DEF AdjoinIn
  <2>3. ASSUME i = Len(row)
        PROVE  M[longer[i]].end = FirstOf(M, longer[i + 1])
    <3>1. row # <<>> /\ N[row[Len(row)]].end = e
      BY <1>1, <2>1, <2>3, RowIs DEF Divides
    <3> QED
      BY <1>1, <1>2, <1>3, <1>4, <2>1, <2>3, <3>1
  <2> QED
    BY <1>4, <2>1, <2>2, <2>3
<1>6. FirstOf(M, longer[1]) = 0
  <2>1. CASE row = <<>>
    <3>1. Len(row) = 0 /\ e = 0
      BY <1>1, <2>1, RowIs DEF Divides
    <3> QED
      BY <1>2, <1>3, <3>1
  <2>2. CASE row # <<>>
    <3>1. 1 \in 1 .. Len(row) /\ FirstOf(N, row[1]) = 0
      BY <1>1, <2>2, RowIs DEF Divides
    <3> QED
      BY <1>1, <1>3, <1>4, <3>1
  <2> QED
    BY <2>1, <2>2
<1>7. M[longer[Len(longer)]].end = e + h
  BY <1>1, <1>3
<1> QED
  BY <1>3, <1>5, <1>6, <1>7 DEF Divides, AdjoinIn

(* The sizes of a row of neighbours add up to what lies between its ends. *)
LEMMA RowSize ==
  ASSUME NEW N \in Seq(Node), NEW row \in Rows(Len(N)), row # <<>>, AdjoinIn(N, row)
  PROVE  Fact!Total([i \in DOMAIN row |-> N[row[i]].size])
             = N[row[Len(row)]].end - FirstOf(N, row[1])
<1> DEFINE n == Len(row)
           f == [i \in 1 .. n |-> N[row[i]].size]
           b == [i \in 0 .. n |-> IF i = 0 THEN FirstOf(N, row[1]) ELSE N[row[i]].end]
<1>1. /\ n \in Nat /\ DOMAIN row = 1 .. n /\ n # 0
      /\ \A i \in 1 .. n : row[i] \in 1 .. Len(N)
  <2>1. Len(N) \in Nat
    BY LenProperties
  <2> QED
    BY <2>1, RowIs
<1>2. \A i \in 1 .. n : N[row[i]] \in Node
  BY <1>1, ElementOfSeq
<1>3. \A i \in 1 .. n : /\ N[row[i]].size \in Int /\ N[row[i]].end \in Int
                        /\ FirstOf(N, row[i]) = N[row[i]].end - N[row[i]].size
  BY <1>2 DEF Node, FirstOf
<1>4. f \in [1 .. n -> Int] /\ b \in [0 .. n -> Int]
  BY <1>1, <1>3, SMTT(30)
<1>5. ASSUME NEW i \in 1 .. n
      PROVE  f[i] = b[i] - b[i - 1]
  <2>1. b[i] = N[row[i]].end /\ f[i] = N[row[i]].size /\ i \in Nat /\ i # 0
    BY <1>1
  <2>2. b[i - 1] = FirstOf(N, row[i])
    <3>1. CASE i = 1
      BY <1>1, <3>1
    <3>2. CASE i # 1
      <4>1. i - 1 \in 1 .. n - 1 /\ i - 1 + 1 = i /\ i - 1 # 0 /\ i - 1 \in 0 .. n
        BY <1>1, <3>2
      <4>2. N[row[i - 1]].end = FirstOf(N, row[i - 1 + 1])
        BY <4>1 DEF AdjoinIn
      <4> QED
        BY <4>1, <4>2
    <3> QED
      BY <3>1, <3>2
  <2> QED
    BY <1>3, <2>1, <2>2
<1>6. b[n] = N[row[n]].end /\ b[0] = FirstOf(N, row[1])
  BY <1>1
<1>7. [i \in DOMAIN row |-> N[row[i]].size] = f
  BY <1>1
<1> HIDE DEF f, b, n
<1>8. Fact!Total(f) = b[n] - b[0]
  BY <1>1, <1>4, <1>5, Telescope
<1> QED
  BY <1>6, <1>7, <1>8 DEF n

Begins(rest, row, keep) == Len(rest) = keep /\ \A i \in 1 .. keep : rest[i] = row[i]

Ends(part, row, keep) ==
    /\ Len(part) = Len(row) - keep
    /\ \A i \in 1 .. Len(row) - keep : part[i] = row[keep + i]

(* The two parts of a row that is cut after `keep`. *)
LEMMA RowCut ==
  ASSUME NEW k \in Nat, NEW row \in Rows(k), NEW keep \in Nat, NEW L, L = Len(row), keep < L
  PROVE  /\ SubSeq(row, keep + 1, L) \in Rows(k)
         /\ Ends(SubSeq(row, keep + 1, L), row, keep)
         /\ SubSeq(row, keep + 1, L) # <<>>
         /\ SubSeq(row, 1, keep) \in Rows(k)
         /\ Begins(SubSeq(row, 1, keep), row, keep)
<1>1. L \in Nat /\ \A q \in 1 .. L : row[q] \in 1 .. k
  BY RowIs
<1>2. \A q \in keep + 1 .. L : row[q] \in 1 .. k
  BY <1>1
<1>3. \A q \in 1 .. keep : row[q] \in 1 .. k
  BY <1>1
<1>4. L \in Int /\ keep + 1 \in Int /\ L - (keep + 1) + 1 = L - keep /\ keep + 1 <= L
  BY <1>1
<1> DEFINE S == 1 .. k
           part == SubSeq(row, keep + 1, L)
           rest == SubSeq(row, 1, keep)
<1> HIDE DEF S
<1>5. /\ part \in Seq(S) /\ Len(part) = L - keep
      /\ \A i \in 1 .. L - keep : part[i] = row[keep + 1 + i - 1]
  <2>1. /\ part \in Seq(S) /\ Len(part) = IF keep + 1 <= L THEN L - (keep + 1) + 1 ELSE 0
        /\ \A i \in 1 .. L - (keep + 1) + 1 : part[i] = row[keep + 1 + i - 1]
    BY <1>2, <1>4, SubSeqProperties DEF S
  <2> HIDE DEF part
  <2> QED
    BY <1>4, <2>1
<1>6. /\ rest \in Seq(S) /\ Len(rest) = keep
      /\ \A i \in 1 .. keep : rest[i] = row[1 + i - 1]
  <2>1. /\ rest \in Seq(S) /\ Len(rest) = IF 1 <= keep THEN keep - 1 + 1 ELSE 0
        /\ \A i \in 1 .. keep - 1 + 1 : rest[i] = row[1 + i - 1]
    BY <1>3, SubSeqProperties DEF S
  <2> HIDE DEF rest
  <2> QED
    BY <2>1
<1> HIDE DEF part, rest
<1>7. \A i \in 1 .. L - keep : part[i] = row[keep + i]
  <2>1. \A i \in 1 .. L - keep : keep + 1 + i - 1 = keep + i
    BY <1>1
  <2> QED
    BY <1>5, <2>1
<1>8. \A i \in 1 .. keep : rest[i] = row[i]
  <2>1. \A i \in 1 .. keep : 1 + i - 1 = i
    OBVIOUS
  <2> QED
    BY <1>6, <2>1
<1>9. part # <<>>
  <2>1. Len(part) # 0
    BY <1>1, <1>5
  <2> QED
    BY <2>1, EmptySeq
<1> QED
  BY <1>5, <1>6, <1>7, <1>8, <1>9 DEF part, rest, S, Rows, Begins, Ends

(* What the end of a row makes a node of: one that has its words. *)
LEMMA ChildrenAre ==
  ASSUME NEW N \in Seq(Node), NEW row \in Rows(Len(N)), NEW e \in Nat, Divides(N, row, e),
         NEW keep \in Nat, NEW L, L = Len(row), keep < L,
         NEW children \in Rows(Len(N)), Ends(children, row, keep)
  PROVE  /\ AdjoinIn(N, children)
         /\ children[1] = row[keep + 1] /\ children[Len(children)] = row[L]
         /\ row[keep + 1] \in 1 .. Len(N) /\ row[L] \in 1 .. Len(N)
         /\ N[row[L]].end = e /\ FirstOf(N, row[keep + 1]) \in Int
<1> USE DEF Ends
<1>1. Len(N) \in Nat /\ L \in Nat /\ L - keep \in Nat /\ keep + (L - keep) = L
  <2>1. Len(N) \in Nat
    BY LenProperties
  <2> QED
    BY <2>1, RowIs
<1>2. 1 \in 1 .. L - keep /\ L - keep \in 1 .. L - keep /\ L \in 1 .. L /\ keep + 1 \in 1 .. L
  BY <1>1
<1>3. children[1] = row[keep + 1] /\ children[Len(children)] = row[L]
  BY <1>1, <1>2
<1>4. row[keep + 1] \in 1 .. Len(N) /\ row[L] \in 1 .. Len(N)
  BY <1>1, <1>2, RowIs
<1>5. N[row[L]] \in Node /\ N[row[keep + 1]] \in Node
  BY <1>4, ElementOfSeq
<1>6. FirstOf(N, row[keep + 1]) \in Int
  BY <1>5 DEF Node, FirstOf
<1>7. AdjoinIn(N, children)
  <2>1. ASSUME NEW i \in 1 .. L - keep - 1
        PROVE  N[children[i]].end = FirstOf(N, children[i + 1])
    <3>1. i \in 1 .. L - keep /\ i + 1 \in 1 .. L - keep /\ keep + i \in 1 .. L - 1
          /\ keep + (i + 1) = keep + i + 1
      BY <1>1
    <3>2. N[row[keep + i]].end = FirstOf(N, row[keep + i + 1])
      BY <3>1 DEF AdjoinIn, Divides
    <3>3. children[i] = row[keep + i] /\ children[i + 1] = row[keep + i + 1]
      BY <3>1
    <3> QED
      BY <3>2, <3>3
  <2> QED
    BY <2>1 DEF AdjoinIn
<1>8. row # <<>> /\ children # <<>>
  BY <1>1, <1>2, RowIs
<1>9. N[row[L]].end = e
  BY <1>8 DEF Divides
<1> QED
  BY <1>3, <1>4, <1>6, <1>7, <1>9

(* and as many of them. *)
LEMMA ChildrenSize ==
  ASSUME NEW N \in Seq(Node), NEW row \in Rows(Len(N)), NEW e \in Nat, Divides(N, row, e),
         NEW keep \in Nat, NEW L, L = Len(row), keep < L,
         NEW children \in Rows(Len(N)), Ends(children, row, keep), children # <<>>
  PROVE  Fact!Total([i \in DOMAIN children |-> N[children[i]].size])
             = e - FirstOf(N, row[keep + 1])
<1>1. /\ AdjoinIn(N, children) /\ N[row[L]].end = e
      /\ children[1] = row[keep + 1] /\ children[Len(children)] = row[L]
  BY ChildrenAre
<1>2. Fact!Total([i \in DOMAIN children |-> N[children[i]].size])
             = N[children[Len(children)]].end - FirstOf(N, children[1])
  BY <1>1, RowSize
<1> QED
  BY <1>1, <1>2

(* The row with the node in the place of its end still divides the words. *)
LEMMA ParentDivides ==
  ASSUME NEW N \in Seq(Node), NEW row \in Rows(Len(N)), NEW e \in Nat, Divides(N, row, e),
         NEW keep \in Nat, NEW L, L = Len(row), keep < L,
         NEW rest \in Rows(Len(N)), Begins(rest, row, keep),
         row[keep + 1] \in 1 .. Len(N), FirstOf(N, row[keep + 1]) \in Int,
         NEW x \in Node, x.end = e, x.size = e - FirstOf(N, row[keep + 1]),
         NEW M, M = Append(N, x), NEW longer, longer = Append(rest, Len(N) + 1)
  PROVE  Divides(M, longer, e)
<1>1. Len(N) \in Nat /\ L \in Nat
  <2>1. Len(N) \in Nat
    BY LenProperties
  <2> QED
    BY <2>1, RowIs
<1>2. \A i \in 1 .. L : row[i] \in 1 .. Len(N)
  BY <1>1, RowIs
<1>6. AdjoinIn(N, row)
  BY DEF Divides
<1>13. M[Len(N) + 1] = x
  BY OldNodes
<1>14. \A n \in 1 .. Len(N) : M[n] = N[n]
  BY OldNodes
<1>15. \A n \in 1 .. Len(N) : FirstOf(M, n) = FirstOf(N, n)
  BY OldNodes
<1>17. FirstOf(M, Len(N) + 1) = FirstOf(N, row[keep + 1])
  <2>1. FirstOf(M, Len(N) + 1) = x.end - x.size
    BY <1>13 DEF FirstOf
  <2> QED
    BY <2>1
<1>19. /\ Len(longer) = keep + 1 /\ longer[keep + 1] = Len(N) + 1 /\ longer # <<>>
       /\ \A i \in 1 .. keep : longer[i] = row[i]
  <2>1. /\ Len(longer) = keep + 1 /\ longer[keep + 1] = Len(N) + 1 /\ longer # <<>>
        /\ \A i \in 1 .. keep : longer[i] = rest[i]
    BY <1>1, PushOn DEF Begins
  <2> QED
    BY <2>1 DEF Begins
<1>20. AdjoinIn(M, longer)
  <2>1. ASSUME NEW i \in 1 .. Len(longer) - 1
        PROVE  M[longer[i]].end = FirstOf(M, longer[i + 1])
    <3>1. i \in 1 .. keep /\ i \in 1 .. L - 1 /\ i \in 1 .. L
      BY <1>1, <1>19
    <3>2. N[row[i]].end = FirstOf(N, row[i + 1])
      BY <1>6, <3>1 DEF AdjoinIn
    <3>3. M[longer[i]].end = N[row[i]].end
      BY <1>2, <1>14, <1>19, <3>1
    <3>4. FirstOf(M, longer[i + 1]) = FirstOf(N, row[i + 1])
      <4>1. ASSUME i = keep PROVE FirstOf(M, longer[i + 1]) = FirstOf(N, row[i + 1])
        BY <1>17, <1>19, <4>1
      <4>2. ASSUME i < keep PROVE FirstOf(M, longer[i + 1]) = FirstOf(N, row[i + 1])
        <5>1. i + 1 \in 1 .. keep /\ i + 1 \in 1 .. L
          BY <1>1, <3>1, <4>2
        <5> QED
          BY <1>2, <1>15, <1>19, <5>1
      <4> QED
        BY <1>1, <3>1, <4>1, <4>2
    <3> QED
      BY <3>2, <3>3, <3>4
  <2> QED
    BY <2>1 DEF AdjoinIn
<1>21. FirstOf(N, row[1]) = 0
  <2>1. row # <<>>
    BY <1>1, RowIs
  <2> QED
    BY <2>1 DEF Divides
<1>22. FirstOf(M, longer[1]) = 0
  <2>1. ASSUME keep = 0 PROVE FirstOf(M, longer[1]) = 0
    BY <1>17, <1>19, <1>21, <2>1
  <2>2. ASSUME keep # 0 PROVE FirstOf(M, longer[1]) = 0
    <3>1. 1 \in 1 .. keep /\ 1 \in 1 .. L
      BY <1>1, <2>2
    <3> QED
      BY <1>2, <1>15, <1>19, <1>21, <3>1
  <2> QED
    BY <2>1, <2>2
<1>23. M[longer[Len(longer)]].end = e
  BY <1>13, <1>19
<1> QED
  BY <1>19, <1>20, <1>22, <1>23 DEF Divides

-------------------------------------------------------------------------------
(* Every node has one place: on the stack, or below one parent. *)

Waits(row, n) == \E i \in 1 .. Len(row) : row[i] = n
IsParent(N, p, n) == \E i \in DOMAIN N[p].children : N[p].children[i] = n

Placed(N, row) ==
    /\ \A i, j \in 1 .. Len(row) : row[i] = row[j] => i = j
    /\ \A n \in 1 .. Len(N) :
           /\ Waits(row, n) \/ \E p \in 1 .. Len(N) : IsParent(N, p, n)
           /\ \A p \in 1 .. Len(N) :
                  IsParent(N, p, n) => /\ ~Waits(row, n)
                                       /\ \A q \in 1 .. Len(N) : IsParent(N, q, n) => p = q

\* The children of all nodes are nodes.
Known(N) == \A n \in 1 .. Len(N) : N[n].children \in Rows(Len(N))

(* The parents of the old nodes are the same, the new node is a parent of its children only, *)
(* and has no parent. *)
LEMMA NewParent ==
  ASSUME NEW N \in Seq(Node), Known(N), NEW x \in Node, x.children \in Rows(Len(N)),
         NEW M, M = Append(N, x)
  PROVE  /\ Known(M)
         /\ \A p, n \in 1 .. Len(N) : IsParent(M, p, n) <=> IsParent(N, p, n)
         /\ \A p \in 1 .. Len(N) + 1 : ~IsParent(M, p, Len(N) + 1)
         /\ \A n \in 1 .. Len(N) : IsParent(M, Len(N) + 1, n) <=> Waits(x.children, n)
<1>1. Len(N) \in Nat /\ Len(M) = Len(N) + 1 /\ M[Len(N) + 1] = x
  BY OldNodes
<1>2. \A n \in 1 .. Len(N) : M[n] = N[n]
  BY OldNodes
<1>3. ASSUME NEW r \in Rows(Len(N))
      PROVE  r \in Rows(Len(N) + 1) /\ DOMAIN r = 1 .. Len(r) /\ ~Waits(r, Len(N) + 1)
  <2>1. r \in Seq(1 .. Len(N)) /\ 1 .. Len(N) \subseteq 1 .. Len(N) + 1
    BY <1>1 DEF Rows
  <2>2. r \in Rows(Len(N) + 1)
    BY <2>1 DEF Rows
  <2>3. DOMAIN r = 1 .. Len(r) /\ \A i \in 1 .. Len(r) : r[i] \in 1 .. Len(N)
    BY <1>1, RowIs
  <2>4. \A i \in 1 .. Len(r) : r[i] # Len(N) + 1
    BY <1>1, <2>3
  <2> QED
    BY <2>2, <2>3, <2>4 DEF Waits
<1>4. \A p \in 1 .. Len(N) : N[p].children \in Rows(Len(N))
  BY DEF Known
<1>5. \A p \in 1 .. Len(N) + 1 : p \in 1 .. Len(N) \/ p = Len(N) + 1
  BY <1>1
<1>6. Known(M)
  BY <1>1, <1>2, <1>3, <1>4, <1>5 DEF Known
<1>7. \A p, n \in 1 .. Len(N) : IsParent(M, p, n) <=> IsParent(N, p, n)
  BY <1>2 DEF IsParent
<1>8. \A n : IsParent(M, Len(N) + 1, n) <=> Waits(x.children, n)
  BY <1>1, <1>3 DEF IsParent, Waits
<1>9. \A p \in 1 .. Len(N) : IsParent(M, p, Len(N) + 1) <=> Waits(N[p].children, Len(N) + 1)
  BY <1>2, <1>3, <1>4 DEF IsParent, Waits
<1>10. \A p \in 1 .. Len(N) + 1 : ~IsParent(M, p, Len(N) + 1)
  BY <1>3, <1>4, <1>5, <1>8, <1>9
<1> QED
  BY <1>6, <1>7, <1>8, <1>10

(* A node that takes the end of the row as its children, if any, and its place. *)
LEMMA NewPlaced ==
  ASSUME NEW N \in Seq(Node), Known(N), NEW row \in Rows(Len(N)), Placed(N, row),
         NEW keep \in Nat, NEW L, L = Len(row), keep <= L,
         NEW rest \in Rows(Len(N)), Begins(rest, row, keep),
         NEW x \in Node, x.children \in Rows(Len(N)), Ends(x.children, row, keep),
         NEW M, M = Append(N, x), NEW longer, longer = Append(rest, Len(N) + 1)
  PROVE  Placed(M, longer)
<1> USE DEF Begins, Ends
<1>1. Len(N) \in Nat /\ L \in Nat /\ L - keep \in Nat /\ Len(M) = Len(N) + 1
  <2>1. Len(N) \in Nat /\ Len(M) = Len(N) + 1
    BY OldNodes
  <2> QED
    BY <2>1, RowIs
<1>2. \A i \in 1 .. L : row[i] \in 1 .. Len(N)
  BY <1>1, RowIs
<1>3. /\ Len(longer) = keep + 1 /\ longer[keep + 1] = Len(N) + 1
      /\ \A i \in 1 .. keep : longer[i] = row[i]
  <2>1. /\ Len(longer) = keep + 1 /\ longer[keep + 1] = Len(N) + 1
        /\ \A i \in 1 .. keep : longer[i] = rest[i]
    BY <1>1, PushOn
  <2> QED
    BY <2>1
<1>4. \A i \in 1 .. keep + 1 : i \in 1 .. keep \/ i = keep + 1
  OBVIOUS
<1>5. \A i \in 1 .. keep : i \in 1 .. L /\ longer[i] \in 1 .. Len(N) /\ longer[i] # Len(N) + 1
  BY <1>1, <1>2, <1>3
<1>6. \A i, j \in 1 .. Len(longer) : longer[i] = longer[j] => i = j
  BY <1>3, <1>4, <1>5 DEF Placed
<1>7. Waits(longer, Len(N) + 1)
  BY <1>3 DEF Waits
<1>8. ASSUME NEW n \in 1 .. Len(N)
      PROVE  /\ Waits(row, n) <=> Waits(longer, n) \/ Waits(x.children, n)
             /\ ~(Waits(longer, n) /\ Waits(x.children, n))
  <2>1. n # Len(N) + 1
    BY <1>1
  <2>2. Waits(longer, n) <=> \E i \in 1 .. keep : row[i] = n
    BY <1>3, <1>4, <2>1 DEF Waits
  <2>3. Waits(x.children, n) <=> \E i \in 1 .. L - keep : row[keep + i] = n
    BY DEF Waits
  <2>4. \A i \in 1 .. L : i \in 1 .. keep \/ (i - keep \in 1 .. L - keep /\ keep + (i - keep) = i)
    BY <1>1
  <2>5. \A i \in 1 .. L - keep : keep + i \in 1 .. L /\ keep + i \notin 1 .. keep
    BY <1>1
  <2>6. Waits(row, n) <=> (\E i \in 1 .. keep : row[i] = n)
                          \/ (\E i \in 1 .. L - keep : row[keep + i] = n)
    <3>1. ASSUME NEW i \in 1 .. L, row[i] = n, i \notin 1 .. keep
          PROVE  \E j \in 1 .. L - keep : row[keep + j] = n
      <4>1. i - keep \in 1 .. L - keep /\ keep + (i - keep) = i
        BY <2>4, <3>1
      <4> QED
        BY <3>1, <4>1
    <3>2. Waits(row, n) => (\E i \in 1 .. keep : row[i] = n)
                           \/ (\E i \in 1 .. L - keep : row[keep + i] = n)
      BY <3>1 DEF Waits
    <3>3. (\E i \in 1 .. keep : row[i] = n) => Waits(row, n)
      BY <1>5 DEF Waits
    <3>4. (\E i \in 1 .. L - keep : row[keep + i] = n) => Waits(row, n)
      BY <2>5 DEF Waits
    <3> QED
      BY <3>2, <3>3, <3>4
  <2>7. ~((\E i \in 1 .. keep : row[i] = n) /\ (\E i \in 1 .. L - keep : row[keep + i] = n))
    BY <1>5, <2>5 DEF Placed
  <2> QED
    BY <2>2, <2>3, <2>6, <2>7
<1>9. \A p, n \in 1 .. Len(N) : IsParent(M, p, n) <=> IsParent(N, p, n)
  BY NewParent
<1>10. \A p \in 1 .. Len(N) + 1 : ~IsParent(M, p, Len(N) + 1)
  BY NewParent
<1>11. \A n \in 1 .. Len(N) : IsParent(M, Len(N) + 1, n) <=> Waits(x.children, n)
  BY NewParent
<1>12. \A p \in 1 .. Len(N) + 1 : p \in 1 .. Len(N) \/ p = Len(N) + 1
  BY <1>1
<1>13. ASSUME NEW n \in 1 .. Len(N) + 1
      PROVE  /\ Waits(longer, n) \/ \E p \in 1 .. Len(N) + 1 : IsParent(M, p, n)
             /\ \A p \in 1 .. Len(N) + 1 :
                   IsParent(M, p, n) => /\ ~Waits(longer, n)
                                        /\ \A q \in 1 .. Len(N) + 1 : IsParent(M, q, n) => p = q
  <2>1. CASE n = Len(N) + 1
    BY <1>7, <1>10, <2>1
  <2>2. CASE n \in 1 .. Len(N)
    <3>1. Waits(row, n) \/ \E p \in 1 .. Len(N) : IsParent(N, p, n)
      BY <2>2 DEF Placed
    <3>2. \A p \in 1 .. Len(N) :
             IsParent(N, p, n) => /\ ~Waits(row, n)
                                  /\ \A q \in 1 .. Len(N) : IsParent(N, q, n) => p = q
      BY <2>2 DEF Placed
    <3>3. /\ Waits(row, n) <=> Waits(longer, n) \/ Waits(x.children, n)
          /\ ~(Waits(longer, n) /\ Waits(x.children, n))
      BY <1>8, <2>2
    <3>4. \A p \in 1 .. Len(N) : IsParent(M, p, n) <=> IsParent(N, p, n)
      BY <1>9, <2>2
    <3>5. IsParent(M, Len(N) + 1, n) <=> Waits(x.children, n)
      BY <1>11, <2>2
    <3>6. 1 .. Len(N) \subseteq 1 .. Len(N) + 1 /\ Len(N) + 1 \in 1 .. Len(N) + 1
      BY <1>1
    <3>7. Waits(longer, n) \/ \E p \in 1 .. Len(N) + 1 : IsParent(M, p, n)
      BY <3>1, <3>3, <3>4, <3>5, <3>6
    <3>8. ASSUME NEW p \in 1 .. Len(N) + 1, IsParent(M, p, n)
          PROVE  /\ ~Waits(longer, n)
                 /\ \A q \in 1 .. Len(N) + 1 : IsParent(M, q, n) => p = q
      BY <1>12, <3>2, <3>3, <3>4, <3>5, <3>8
    <3> QED
      BY <3>7, <3>8
  <2> QED
    BY <1>12, <2>1, <2>2
<1> QED
  BY <1>1, <1>6, <1>13 DEF Placed

-------------------------------------------------------------------------------
(* The tree so far: N its nodes, row its stack, e the words read. *)

Tree(N, row, e) ==
    /\ N \in Seq(Node) /\ row \in Rows(Len(N)) /\ e \in Nat
    /\ Known(N) /\ Placed(N, row)
    /\ Divides(N, row, e)
    /\ \A n \in 1 .. Len(N) : Whole(N, n)

(* The old nodes stay what they are. *)
LEMMA OldWhole ==
  ASSUME NEW N \in Seq(Node), Known(N), \A n \in 1 .. Len(N) : Whole(N, n),
         NEW x \in Node, NEW M, M = Append(N, x)
  PROVE  \A n \in 1 .. Len(N) : Whole(M, n)
<1>1. \A n \in 1 .. Len(N) : M[n] = N[n]
  BY OldNodes
<1>2. \A n \in 1 .. Len(N) : FirstOf(M, n) = FirstOf(N, n)
  BY OldNodes
<1>3. \A r \in Rows(Len(N)) : AdjoinIn(N, r) => AdjoinIn(M, r)
  BY OldNodes
<1>4. Len(N) \in Nat
  BY OldNodes
<1>5. ASSUME NEW n \in 1 .. Len(N), N[n].children # <<>>
      PROVE  LET children == N[n].children IN
             /\ AdjoinIn(M, children)
             /\ FirstOf(M, n) = FirstOf(M, children[1])
             /\ M[n].end = M[children[Len(children)]].end
  <2> DEFINE r == N[n].children
  <2>1. r \in Rows(Len(N)) /\ r # <<>>
    BY <1>5 DEF Known
  <2>2. AdjoinIn(N, r) /\ FirstOf(N, n) = FirstOf(N, r[1]) /\ N[n].end = N[r[Len(r)]].end
    BY <1>5 DEF Whole
  <2> HIDE DEF r
  <2>3. r[1] \in 1 .. Len(N) /\ r[Len(r)] \in 1 .. Len(N)
    BY <1>4, <2>1, RowIs
  <2>4. AdjoinIn(M, r)
    BY <1>3, <2>1, <2>2
  <2>5. FirstOf(M, n) = FirstOf(M, r[1]) /\ M[n].end = M[r[Len(r)]].end
    BY <1>1, <1>2, <2>2, <2>3
  <2> QED
    BY <2>4, <2>5 DEF r
<1>6. \A n \in 1 .. Len(N) : M[n].children = N[n].children
  BY <1>1
<1> QED
  BY <1>5, <1>6 DEF Whole

(* A leaf is added. *)
LEMMA TreeLeaf ==
  ASSUME NEW N, NEW row, NEW e, Tree(N, row, e), NEW h \in Nat,
         NEW x, x = [end |-> e + h, size |-> h, children |-> <<>>]
  PROVE  Tree(Append(N, x), Append(row, Len(N) + 1), e + h)
<1> DEFINE M == Append(N, x)
           longer == Append(row, Len(N) + 1)
           L == Len(row)
<1>1. /\ N \in Seq(Node) /\ row \in Rows(Len(N)) /\ e \in Nat
      /\ Known(N) /\ Placed(N, row) /\ Divides(N, row, e)
      /\ \A n \in 1 .. Len(N) : Whole(N, n)
  BY DEF Tree
<1>2. Len(N) \in Nat /\ L \in Nat
  <2>1. Len(N) \in Nat
    BY <1>1, LenProperties
  <2> QED
    BY <1>1, <2>1, RowIs
<1>3. x.end = e + h /\ x.size = h /\ x.children = <<>> /\ e + h \in Nat
  BY <1>1
<1>4. x \in Node
  BY <1>3 DEF Node
<1>5. <<>> \in Rows(Len(N)) /\ Len(<<>>) = 0
  BY DEF Rows
<1> HIDE DEF M, longer
<1>6. M \in Seq(Node) /\ Len(M) = Len(N) + 1 /\ M[Len(N) + 1] = x
  BY <1>1, <1>4, OldNodes DEF M
<1>7. longer \in Rows(Len(M))
  BY <1>1, <1>2, <1>6, PushOn DEF longer
<1>8. Known(M)
  BY <1>1, <1>3, <1>4, <1>5, NewParent DEF M
<1>9. Placed(M, longer)
  <2>1. L <= L /\ L - L = 0 /\ L \in Nat /\ \A i \in 1 .. L - L : FALSE
    BY <1>2
  <2>2. Ends(x.children, row, L) /\ x.children \in Rows(Len(N)) /\ Begins(row, row, L)
    BY <1>3, <1>5, <2>1 DEF Ends, Begins
  <2> HIDE DEF L
  <2>3. L = Len(row)
    BY DEF L
  <2> QED
    BY <1>1, <1>4, <2>1, <2>2, <2>3, NewPlaced DEF M, longer
<1>10. Divides(M, longer, e + h)
  BY <1>1, <1>3, <1>4, LeafDivides DEF M, longer
<1>11. \A n \in 1 .. Len(N) : Whole(M, n)
  BY <1>1, <1>4, OldWhole DEF M
<1>12. Whole(M, Len(N) + 1)
  BY <1>3, <1>6 DEF Whole
<1>13. \A n \in 1 .. Len(M) : Whole(M, n)
  <2>1. \A n \in 1 .. Len(M) : n \in 1 .. Len(N) \/ n = Len(N) + 1
    BY <1>2, <1>6
  <2> QED
    BY <1>11, <1>12, <2>1
<1>14. Tree(M, longer, e + h)
  BY <1>3, <1>6, <1>7, <1>8, <1>9, <1>10, <1>13 DEF Tree
<1> QED
  BY <1>14 DEF M, longer

(* A parent is added. *)
LEMMA TreeWithParent ==
  ASSUME NEW N, NEW row, NEW e, Tree(N, row, e), NEW keep \in Nat, NEW L, L = Len(row), keep < L,
         NEW children \in Rows(Len(N)), children # <<>>, Ends(children, row, keep),
         AdjoinIn(N, children), children[1] = row[keep + 1], children[Len(children)] = row[L],
         row[keep + 1] \in 1 .. Len(N), row[L] \in 1 .. Len(N),
         FirstOf(N, row[keep + 1]) \in Int,
         NEW rest \in Rows(Len(N)), Begins(rest, row, keep),
         NEW x \in Node, x.end = e, x.size = e - FirstOf(N, row[keep + 1]), x.children = children,
         NEW M, M = Append(N, x), NEW longer, longer = Append(rest, Len(N) + 1)
  PROVE  Tree(M, longer, e)
<1>1. /\ N \in Seq(Node) /\ row \in Rows(Len(N)) /\ e \in Nat
      /\ Known(N) /\ Placed(N, row) /\ Divides(N, row, e)
      /\ \A n \in 1 .. Len(N) : Whole(N, n)
  BY DEF Tree
<1>2. Len(N) \in Nat /\ L \in Nat
  <2>1. Len(N) \in Nat
    BY <1>1, LenProperties
  <2> QED
    BY <1>1, <2>1, RowIs
<1>12. M \in Seq(Node) /\ Len(M) = Len(N) + 1 /\ M[Len(N) + 1] = x
  BY <1>1, OldNodes
<1>13. longer \in Rows(Len(M))
  BY <1>2, <1>12, PushOn
<1>14. x.children \in Rows(Len(N)) /\ Ends(x.children, row, keep)
  BY Zenon
<1>15. Known(M)
  BY <1>1, <1>14, NewParent
<1>16. Placed(M, longer)
  <2>1. keep <= L
    BY <1>2
  <2> QED
    BY <1>1, <1>14, <2>1, NewPlaced
<1>17. Divides(M, longer, e)
  BY <1>1, ParentDivides
<1>18. \A n \in 1 .. Len(N) : Whole(M, n)
  BY <1>1, OldWhole
<1>19. Whole(M, Len(N) + 1)
  <2>1. AdjoinIn(M, children)
    <3>1. \A r \in Rows(Len(N)) : AdjoinIn(N, r) => AdjoinIn(M, r)
      BY <1>1, OldNodes
    <3> QED
      BY <3>1
  <2>2. FirstOf(M, children[1]) = FirstOf(N, row[keep + 1])
    <3>1. \A n \in 1 .. Len(N) : FirstOf(M, n) = FirstOf(N, n)
      BY <1>1, OldFirst
    <3> QED
      BY <3>1
  <2>3. M[children[Len(children)]].end = e
    <3>1. \A n \in 1 .. Len(N) : M[n] = N[n]
      BY <1>1, OldNodes
    <3>2. row # <<>>
      BY <1>1, <1>2, RowIs
    <3>3. N[row[L]].end = e
      BY <1>1, <3>2 DEF Divides
    <3> QED
      BY <3>1, <3>3
  <2>4. FirstOf(M, Len(N) + 1) = FirstOf(N, row[keep + 1])
    <3>1. FirstOf(M, Len(N) + 1) = x.end - x.size
      BY <1>12 DEF FirstOf
    <3> QED
      BY <1>1, <3>1
  <2>5. M[Len(N) + 1].children = children /\ M[Len(N) + 1].end = e
    BY <1>12
  <2> QED
    BY <2>1, <2>2, <2>3, <2>4, <2>5 DEF Whole
<1>20. \A n \in 1 .. Len(M) : Whole(M, n)
  <2>1. \A n \in 1 .. Len(M) : n \in 1 .. Len(N) \/ n = Len(N) + 1
    BY <1>2, <1>12
  <2> QED
    BY <1>18, <1>19, <2>1
<1> QED
  BY <1>1, <1>12, <1>13, <1>15, <1>16, <1>17, <1>20 DEF Tree

(* The parent that the code makes is such a node. *)
LEMMA TreeParent ==
  ASSUME NEW N, NEW row, NEW e, Tree(N, row, e), NEW keep \in Nat, NEW L, L = Len(row), keep < L
  PROVE  LET children == SubSeq(row, keep + 1, L)
             x == [end |-> N[children[Len(children)]].end,
                   size |-> Fact!Total([i \in DOMAIN children |-> N[children[i]].size]),
                   children |-> children] IN
         Tree(Append(N, x), Append(SubSeq(row, 1, keep), Len(N) + 1), e)
<1> DEFINE rest == SubSeq(row, 1, keep)
           children == SubSeq(row, keep + 1, L)
           total == Fact!Total([i \in DOMAIN children |-> N[children[i]].size])
           x == [end |-> N[children[Len(children)]].end, size |-> total, children |-> children]
<1>1. N \in Seq(Node) /\ row \in Rows(Len(N)) /\ e \in Nat /\ Divides(N, row, e)
  BY DEF Tree
<1>2. Len(N) \in Nat
  BY <1>1, LenProperties
<1>3. /\ children \in Rows(Len(N)) /\ children # <<>> /\ Ends(children, row, keep)
      /\ rest \in Rows(Len(N)) /\ Begins(rest, row, keep)
  BY <1>1, <1>2, RowCut
<1> HIDE DEF rest, children
<1>5. /\ AdjoinIn(N, children)
      /\ children[1] = row[keep + 1] /\ children[Len(children)] = row[L]
      /\ row[keep + 1] \in 1 .. Len(N) /\ row[L] \in 1 .. Len(N)
      /\ N[row[L]].end = e /\ FirstOf(N, row[keep + 1]) \in Int
  BY <1>1, <1>3, ChildrenAre
<1>6. total = e - FirstOf(N, row[keep + 1])
  BY <1>1, <1>3, ChildrenSize
<1> HIDE DEF total
<1>7. total \in Int
  BY <1>1, <1>5, <1>6
<1>8. x.end = e /\ x.size = e - FirstOf(N, row[keep + 1]) /\ x.children = children
  BY <1>5, <1>6
<1>9. x \in Node
  <2>1. children \in Seq(Nat)
    <3>1. children \in Seq(1 .. Len(N)) /\ 1 .. Len(N) \subseteq Nat
      BY <1>2, <1>3 DEF Rows
    <3> QED
      BY <3>1
  <2>2. x = [end |-> e, size |-> total, children |-> children]
    BY <1>5
  <2> QED
    BY <1>1, <1>7, <2>1, <2>2 DEF Node
<1> HIDE DEF x
<1>10. Tree(Append(N, x), Append(rest, Len(N) + 1), e)
  BY <1>3, <1>5, <1>8, <1>9, TreeWithParent
<1> QED
  BY <1>10 DEF rest, children, total, x

-------------------------------------------------------------------------------
(* The pages are taken in the order of their ids *)

Below(S, id) == {i \in S : i < id}

(* A finite set has an element of each rank. *)
LEMMA RankExists ==
  ASSUME NEW S, S \subseteq Nat, IsFiniteSet(S), NEW k \in Nat, k < Cardinality(S)
  PROVE  \E id \in S : Cardinality(Below(S, id)) = k
<1> DEFINE Q == {r \in Nat : \A T \in SUBSET S : r < Cardinality(T)
                                 => \E id \in T : Cardinality(Below(T, id)) = r}
<1>1. \A T \in SUBSET S : IsFiniteSet(T) /\ Cardinality(T) \in Nat
  BY FS_Subset, FS_CardinalityType
<1>2. ASSUME NEW T \in SUBSET S, 0 < Cardinality(T)
      PROVE  \E m \in T : Below(T, m) = {} /\ \A i \in T : m <= i
  <2>1. T # {}
    BY <1>2, FS_EmptySet
  <2>2. PICK m \in T : \A i \in T : m <= i
    BY <2>1, LeastIn
  <2>3. \A i \in T : ~(i < m)
    <3>1. \A i \in T : i \in Nat /\ m \in Nat
      OBVIOUS
    <3> QED
      BY <2>2, <3>1
  <2>4. Below(T, m) = {}
    BY <2>3 DEF Below
  <2> QED
    BY <2>2, <2>4
<1>3. 0 \in Q
  <2>1. ASSUME NEW T \in SUBSET S, 0 < Cardinality(T)
        PROVE  \E id \in T : Cardinality(Below(T, id)) = 0
    BY <1>2, <2>1, FS_EmptySet
  <2> QED
    BY <2>1
<1>4. ASSUME NEW r \in Nat, r \in Q
      PROVE  r + 1 \in Q
  <2>1. ASSUME NEW T \in SUBSET S, r + 1 < Cardinality(T)
        PROVE  \E id \in T : Cardinality(Below(T, id)) = r + 1
    <3>1. PICK m \in T : Below(T, m) = {} /\ \A i \in T : m <= i
      BY <1>1, <1>2, <2>1
    <3> DEFINE U == T \ {m}
    <3>2. U \in SUBSET S /\ IsFiniteSet(U) /\ Cardinality(U) = Cardinality(T) - 1
      BY <1>1, FS_RemoveElement
    <3>3. r < Cardinality(U)
      BY <1>1, <2>1, <3>2
    <3>4. PICK id \in U : Cardinality(Below(U, id)) = r
      BY <1>4, <3>2, <3>3
    <3>5. Below(T, id) = Below(U, id) \cup {m} /\ m \notin Below(U, id)
      <4>1. m <= id /\ m # id /\ m \in Nat /\ id \in Nat
        BY <3>1
      <4>2. m < id
        BY <4>1
      <4> QED
        BY <4>2 DEF Below
    <3>6. IsFiniteSet(Below(U, id))
      <4>1. Below(U, id) \subseteq U
        BY DEF Below
      <4> QED
        BY <3>2, <4>1, FS_Subset
    <3>7. Cardinality(Below(T, id)) = r + 1
      BY <3>4, <3>5, <3>6, FS_AddElement
    <3> QED
      BY <3>7
  <2> QED
    BY <2>1
<1>5. Nat \subseteq Q
  <2> HIDE DEF Q
  <2> QED
    BY <1>3, <1>4, NatInduct
<1> QED
  BY <1>5

(* The operators of FiniteSets are those that the instance of FactTree uses. *)
LEMMA FiniteIs ==
  ASSUME NEW S
  PROVE  Fact!IsFiniteSet(S) <=> IsFiniteSet(S)
  BY Zenon DEF Fact!IsFiniteSet, IsFiniteSet

(* The same of cardinalities. *)
LEMMA CardinalityIs ==
  ASSUME NEW S
  PROVE  Fact!Cardinality(S) = Cardinality(S)
  BY Zenon DEF Fact!Cardinality, Cardinality

(* What the composition assumes, for the PIE of a state. *)
LEMMA PieIs ==
  ASSUME pie \in Pies
  PROVE  /\ pie.memory \in {"whole", "hole", "pointer"} /\ pie.size \in Nat
         /\ Fact!Ids \subseteq Nat /\ IsFiniteSet(Fact!Ids) /\ Cardinality(Fact!Ids) \in Nat
         /\ \A id \in Fact!Ids : pie.pages[id].start \in Nat /\ pie.pages[id].size \in Nat
         /\ Fact!Structure \in Seq(Nat)
<1>1. Fact!FactTreeAssumption
  BY BlockDataAssumption
<1>2. /\ pie.memory \in {"whole", "hole", "pointer"} /\ pie.size \in Nat
      /\ Fact!Ids \subseteq Nat /\ IsFiniteSet(Fact!Ids)
  BY <1>1, FiniteIs, Zenon DEF Fact!FactTreeAssumption, Fact!Ids
<1>3. \A id \in Fact!Ids : pie.pages[id] \in [start : Nat, size : Nat]
  BY <1>1 DEF Fact!FactTreeAssumption, Fact!Ids, Fact!Page
<1>4. pie.topology \in Seq(Nat) \cup {Fact!NoTopology}
  BY <1>1 DEF Fact!FactTreeAssumption
<1>5. Fact!Structure \in Seq(Nat)
  <2>1. <<1, 0>> \in Seq(Nat)
    OBVIOUS
  <2> QED
    BY <1>4, <2>1, Zenon DEF Fact!Structure
<1> QED
  BY <1>2, <1>3, <1>5, FS_CardinalityType

(* The next page is one. *)
LEMMA NextIdIs ==
  ASSUME pie \in Pies, pageNo \in Nat, pageNo < Cardinality(Fact!Ids)
  PROVE  Fact!NextId \in Fact!Ids /\ Cardinality(Below(Fact!Ids, Fact!NextId)) = pageNo
<1>1. \E id \in Fact!Ids : Cardinality(Below(Fact!Ids, id)) = pageNo
  BY PieIs, RankExists
<1>2. \E id \in Fact!Ids : Fact!Cardinality({i \in Fact!Ids : i < id}) = pageNo
  BY <1>1, CardinalityIs DEF Below
<1>3. /\ Fact!NextId \in Fact!Ids
      /\ Fact!Cardinality({i \in Fact!Ids : i < Fact!NextId}) = pageNo
  BY <1>2, Zenon DEF Fact!NextId
<1> QED
  BY <1>3, CardinalityIs DEF Below

-------------------------------------------------------------------------------
(* The computation of the fact *)

FactType ==
    /\ pie \in Pies
    /\ step \in {"output", "topology", "pages", "pair", "leaves", "parent", "done", "failed"}
    /\ sizes \in Seq(Nat) /\ pageNo \in Nat /\ nextStart \in Int
    /\ pair \in Nat /\ due \in Nat
    /\ step \notin {"output", "topology", "failed"} => Len(Fact!Structure) \in {2, 4, 6, 8, 10}
    /\ step \in {"output", "topology", "pages"} => pair = 0
    /\ step \in {"pair", "leaves", "parent", "done"} => pair <= Fact!Pairs
    /\ step \in {"leaves", "parent"} => pair > 0
    /\ step = "leaves" => due <= Len(sizes)
    /\ step = "parent" => 0 < Fact!NNodes /\ Fact!NNodes <= Len(stack)

(* What depends on the PIE only. *)
LEMMA SamePie ==
  ASSUME pie' = pie
  PROVE  /\ Fact!Structure' = Fact!Structure /\ Fact!Pairs' = Fact!Pairs
         /\ Fact!Ids' = Fact!Ids
  BY DEF Fact!Structure, Fact!Pairs, Fact!Ids

(* The pairs of the shape. *)
LEMMA PairsAre ==
  ASSUME pie \in Pies, Len(Fact!Structure) \in {2, 4, 6, 8, 10}
  PROVE  /\ Fact!Pairs \in 1 .. 5 /\ Len(Fact!Structure) = 2 * Fact!Pairs
         /\ \A k \in 1 .. Fact!Pairs : /\ Fact!Structure[2 * k - 1] \in Nat
                                       /\ Fact!Structure[2 * k] \in Nat
<1>1. Fact!Pairs \in 1 .. 5 /\ Len(Fact!Structure) = 2 * Fact!Pairs
  <2> DEFINE L == Len(Fact!Structure)
  <2>1. /\ 2 \div 2 = 1 /\ 4 \div 2 = 2 /\ 6 \div 2 = 3 /\ 8 \div 2 = 4 /\ 10 \div 2 = 5
    OBVIOUS
  <2>2. Fact!Pairs = L \div 2 /\ L \in {2, 4, 6, 8, 10}
    BY DEF Fact!Pairs
  <2> HIDE DEF L
  <2> DEFINE P == Fact!Pairs
  <2>4. P = L \div 2 /\ L \in {2, 4, 6, 8, 10}
    BY <2>2
  <2> HIDE DEF P
  <2>3. (L = 2 /\ P = 1) \/ (L = 4 /\ P = 2) \/ (L = 6 /\ P = 3)
        \/ (L = 8 /\ P = 4) \/ (L = 10 /\ P = 5)
    BY <2>1, <2>4
  <2>5. P \in 1 .. 5 /\ L = 2 * P
    BY <2>3
  <2> QED
    BY <2>5 DEF L, P
<1>2. \A k \in 1 .. Fact!Pairs : /\ 2 * k - 1 \in 1 .. Len(Fact!Structure)
                                 /\ 2 * k \in 1 .. Len(Fact!Structure)
  BY <1>1
<1>3. Fact!Structure \in Seq(Nat)
  BY PieIs
<1> QED
  BY <1>1, <1>2, <1>3, ElementOfSeq

(* A computation starts with these types, *)
LEMMA FactTypeInit == Init => FactType
<1> SUFFICES ASSUME Init PROVE FactType
  OBVIOUS
<1>1. /\ pie \in Pies /\ step = "output" /\ sizes = <<>> /\ pageNo = 0 /\ nextStart = -1
      /\ pair = 0 /\ due = 0
  BY DEF Init, Fact!Init
<1>2. sizes \in Seq(Nat)
  BY <1>1
<1> QED
  BY <1>1, <1>2 DEF FactType

(* and every step keeps them. *)
LEMMA FactTypeStep == FactType /\ Fact!Next => FactType'
<1> SUFFICES ASSUME FactType, Fact!Next PROVE FactType'
  OBVIOUS
<1> DEFINE L == Len(Fact!Structure)
           known == {2, 4, 6, 8, 10}
<1>1. /\ pie \in Pies
      /\ step \in {"output", "topology", "pages", "pair", "leaves", "parent", "done", "failed"}
      /\ sizes \in Seq(Nat) /\ pageNo \in Nat /\ nextStart \in Int
      /\ pair \in Nat /\ due \in Nat
      /\ step \notin {"output", "topology", "failed"} => L \in known
      /\ step \in {"output", "topology", "pages"} => pair = 0
      /\ step \in {"pair", "leaves", "parent", "done"} => pair <= Fact!Pairs
      /\ step \in {"leaves", "parent"} => pair > 0
      /\ step = "leaves" => due <= Len(sizes)
      /\ step = "parent" => 0 < Fact!NNodes /\ Fact!NNodes <= Len(stack)
  BY DEF FactType
<1>2. pie' = pie
  BY DEF Fact!Next, Fact!ReadOutput, Fact!ReadTopology, Fact!ReadPage, Fact!PagesRead,
         Fact!NextPair, Fact!PushLeaf, Fact!LeavesPushed, Fact!PushParent, Fact!Root
<1>3. pie' \in Pies /\ L' = L /\ Fact!Pairs' = Fact!Pairs
  BY <1>1, <1>2, SamePie
<1>4. L \in known => Fact!Pairs \in 1 .. 5
  BY <1>1, PairsAre
<1> HIDE DEF L, known
<1> DEFINE Shape == /\ step' \notin {"output", "topology", "failed"} => L \in known
                    /\ step' \in {"output", "topology", "pages"} => pair' = 0
                    /\ step' \in {"pair", "leaves", "parent", "done"} => pair' <= Fact!Pairs
                    /\ step' \in {"leaves", "parent"} => pair' > 0
                    /\ step' = "leaves" => due' <= Len(sizes)'
                    /\ step' = "parent" => 0 < Fact!NNodes' /\ Fact!NNodes' <= Len(stack)'
           Types == /\ step' \in {"output", "topology", "pages", "pair", "leaves", "parent",
                                  "done", "failed"}
                    /\ sizes' \in Seq(Nat) /\ pageNo' \in Nat /\ nextStart' \in Int
                    /\ pair' \in Nat /\ due' \in Nat
<1>14. ASSUME Types, Shape PROVE FactType'
  BY <1>3, <1>14 DEF FactType, L, known
<1>5. ASSUME Fact!ReadOutput PROVE FactType'
  <2>1. /\ step = "output" /\ step' \in {"topology", "failed"}
        /\ UNCHANGED <<sizes, pageNo, nextStart, pair, due>>
    BY <1>5 DEF Fact!ReadOutput, Fact!Ensure
  <2>10. Types
    BY <1>1, <1>3, <2>1
  <2>11. Shape
    BY <1>1, <1>3, <2>1
  <2> QED
    BY <1>14, <2>10, <2>11
<1>6. ASSUME Fact!ReadTopology PROVE FactType'
  <2>1. /\ step = "topology"
        /\ step' = "failed" \/ (step' = "pages" /\ L \in known)
        /\ sizes' = <<pie.size>> /\ UNCHANGED <<pageNo, nextStart, pair, due>>
    <3>1. step = "topology" /\ step' \in {"failed", "pages"} /\ sizes' = <<pie.size>>
          /\ UNCHANGED <<pageNo, nextStart, pair, due>>
      BY <1>6 DEF Fact!ReadTopology, Fact!Ensure
    <3>2. step' = "pages" => pie.topology = Fact!NoTopology \/ L \in known
      BY <1>6 DEF Fact!ReadTopology, Fact!Ensure, L, known
    <3>3. pie.topology = Fact!NoTopology => L \in known
      <4>1. Len(<<1, 0>>) = 2
        OBVIOUS
      <4> QED
        BY <4>1 DEF Fact!Structure, L, known
    <3> QED
      BY <3>1, <3>2, <3>3
  <2>2. sizes' \in Seq(Nat)
    <3>1. pie.size \in Nat
      BY <1>1, PieIs
    <3> QED
      BY <2>1, <3>1
  <2>10. Types
    BY <1>1, <1>3, <2>1, <2>2
  <2>11. Shape
    BY <1>1, <1>3, <2>1, <2>2
  <2> QED
    BY <1>14, <2>10, <2>11
<1>7. ASSUME Fact!ReadPage PROVE FactType'
  <2>1. /\ step = "pages" /\ pageNo < Cardinality(Fact!Ids) /\ step' \in {"pages", "failed"}
        /\ pageNo' = pageNo + 1 /\ UNCHANGED <<pair, due>>
    BY <1>7, CardinalityIs DEF Fact!ReadPage, Fact!Ensure
  <2> DEFINE page == pie.pages[Fact!NextId]
  <2>2. /\ sizes' = Append(IF pageNo = 0 THEN <<page.start>> ELSE sizes, page.size)
        /\ nextStart' = page.start + page.size
    BY <1>7 DEF Fact!ReadPage
  <2>3. page.start \in Nat /\ page.size \in Nat
    <3>1. Fact!NextId \in Fact!Ids
      BY <1>1, <2>1, NextIdIs
    <3> QED
      BY <1>1, <3>1, PieIs
  <2> HIDE DEF page
  <2>4. sizes' \in Seq(Nat)
    <3>1. (IF pageNo = 0 THEN <<page.start>> ELSE sizes) \in Seq(Nat)
      BY <1>1, <2>3
    <3> QED
      BY <2>2, <2>3, <3>1, AppendProperties
  <2>10. Types
    BY <1>1, <1>3, <2>1, <2>2, <2>3, <2>4
  <2>11. Shape
    BY <1>1, <1>3, <2>1, <2>2, <2>3, <2>4
  <2> QED
    BY <1>14, <2>10, <2>11
<1>8. ASSUME Fact!PagesRead PROVE FactType'
  <2>1. /\ step = "pages" /\ step' \in {"pair", "failed"}
        /\ UNCHANGED <<sizes, pageNo, nextStart, pair, due>>
    BY <1>8 DEF Fact!PagesRead, Fact!Ensure
  <2>10. Types
    BY <1>1, <1>3, <1>4, <2>1
  <2>11. Shape
    BY <1>1, <1>3, <1>4, <2>1
  <2> QED
    BY <1>14, <2>10, <2>11
<1>9. ASSUME Fact!NextPair PROVE FactType'
  <2> DEFINE pages == Fact!Structure[2 * pair + 1]
  <2>1. /\ step = "pair" /\ pair < Fact!Pairs /\ pair' = pair + 1 /\ due' = pages
        /\ step' = "failed" \/ (step' = "leaves" /\ pages <= Len(sizes))
        /\ UNCHANGED <<sizes, pageNo, nextStart>>
    BY <1>9 DEF Fact!NextPair, Fact!Ensure
  <2>2. pages \in Nat
    <3>1. pair + 1 \in 1 .. Fact!Pairs /\ 2 * (pair + 1) - 1 = 2 * pair + 1
      BY <1>1, <1>4, <2>1
    <3>2. Fact!Structure[2 * (pair + 1) - 1] \in Nat
      BY <1>1, <2>1, <3>1, PairsAre DEF L, known
    <3> QED
      BY <3>1, <3>2
  <2> HIDE DEF pages
  <2>10. Types
    BY <1>1, <1>3, <1>4, <2>1, <2>2
  <2>12. Fact!Pairs \in 1 .. 5 /\ L \in known
    BY <1>1, <1>4, <2>1
  <2>13. pair' \in Nat /\ pair' > 0 /\ pair' <= Fact!Pairs
    BY <1>1, <2>1, <2>12
  <2>14. step' = "leaves" => due' <= Len(sizes)'
    BY <2>1
  <2>15. step' \in {"failed", "leaves"}
    BY <2>1
  <2>11. Shape
    BY <2>12, <2>13, <2>14, <2>15
  <2> QED
    BY <1>14, <2>10, <2>11
<1>10. ASSUME Fact!PushLeaf PROVE FactType'
  <2>1. /\ step = "leaves" /\ due > 0 /\ sizes' = Tail(sizes) /\ due' = due - 1
        /\ UNCHANGED <<step, pageNo, nextStart, pair>>
    BY <1>10 DEF Fact!PushLeaf
  <2>2. sizes' \in Seq(Nat) /\ Len(sizes') = Len(sizes) - 1 /\ Len(sizes) \in Nat
    <3>1. sizes # <<>>
      BY <1>1, <2>1
    <3> QED
      BY <1>1, <2>1, <3>1, HeadTailProperties, LenProperties
  <2>10. Types
    BY <1>1, <1>3, <2>1, <2>2
  <2>11. Shape
    BY <1>1, <1>3, <2>1, <2>2
  <2> QED
    BY <1>14, <2>10, <2>11
<1>11. ASSUME Fact!LeavesPushed PROVE FactType'
  <2>1. /\ step = "leaves"
        /\ \/ step' = "failed"
           \/ step' = "pair"
           \/ step' = "parent" /\ Fact!NNodes > 0 /\ Fact!NNodes <= Len(stack)
        /\ UNCHANGED <<sizes, pageNo, nextStart, pair, due, stack>>
    BY <1>11 DEF Fact!LeavesPushed, Fact!Ensure
  <2>2. Fact!NNodes' = Fact!NNodes
    BY <1>2, <2>1, SamePie DEF Fact!NNodes
  <2>3. 0 < Fact!NNodes <=> Fact!NNodes > 0
    OBVIOUS
  <2>10. Types
    BY <1>1, <1>3, <2>1, <2>2, <2>3
  <2>11. Shape
    BY <1>1, <1>3, <2>1, <2>2, <2>3
  <2> QED
    BY <1>14, <2>10, <2>11
<1>12. ASSUME Fact!PushParent PROVE FactType'
  <2>1. /\ step = "parent" /\ step' = "pair"
        /\ UNCHANGED <<sizes, pageNo, nextStart, pair, due>>
    BY <1>12 DEF Fact!PushParent
  <2>10. Types
    BY <1>1, <1>3, <2>1
  <2>11. Shape
    BY <1>1, <1>3, <2>1
  <2> QED
    BY <1>14, <2>10, <2>11
<1>13. ASSUME Fact!Root PROVE FactType'
  <2>1. /\ step = "pair" /\ step' \in {"done", "failed"}
        /\ UNCHANGED <<sizes, pageNo, nextStart, pair, due>>
    BY <1>13 DEF Fact!Root, Fact!Ensure
  <2>10. Types
    BY <1>1, <1>3, <2>1
  <2>11. Shape
    BY <1>1, <1>3, <2>1
  <2> QED
    BY <1>14, <2>10, <2>11
<1> QED
  BY <1>5, <1>6, <1>7, <1>8, <1>9, <1>10, <1>11, <1>12, <1>13 DEF Fact!Next

-------------------------------------------------------------------------------
(* The tree *)

TreeInv == Tree(nodes, stack, end)

(* There is no node at first. *)
LEMMA TreeInit == Init => TreeInv
<1> SUFFICES ASSUME Init PROVE TreeInv
  OBVIOUS
<1>1. nodes = <<>> /\ stack = <<>> /\ end = 0
  BY DEF Init, Fact!Init
<1>2. Len(<<>>) = 0 /\ \A i \in 1 .. 0 : FALSE
  OBVIOUS
<1>3. <<>> \in Seq(Node) /\ <<>> \in Seq(1 .. 0)
  OBVIOUS
<1>4. AdjoinIn(<<>>, <<>>)
  BY <1>2 DEF AdjoinIn
<1> QED
  BY <1>1, <1>2, <1>3, <1>4 DEF TreeInv, Tree, Rows, Known, Placed, Divides

(* Only leaves and parents change the tree. *)
LEMMA TreeStep == FactType /\ TreeInv /\ Fact!Next => TreeInv'
<1> SUFFICES ASSUME FactType, TreeInv, Fact!Next PROVE TreeInv'
  OBVIOUS
<1>1. ASSUME UNCHANGED <<nodes, stack, end>> PROVE TreeInv'
  BY <1>1 DEF TreeInv
<1>2. ASSUME Fact!PushLeaf PROVE TreeInv'
  <2> DEFINE h == Head(sizes)
             x == [end |-> end + h, size |-> h, children |-> <<>>]
  <2>1. /\ step = "leaves" /\ due > 0 /\ end' = end + h
        /\ nodes' = Append(nodes, x) /\ stack' = Append(stack, Len(nodes) + 1)
    BY <1>2 DEF Fact!PushLeaf, Fact!Push
  <2>2. h \in Nat
    <3>1. sizes \in Seq(Nat) /\ due \in Nat /\ due <= Len(sizes)
      BY <2>1 DEF FactType
    <3>2. sizes # <<>>
      BY <2>1, <3>1
    <3> QED
      BY <3>1, <3>2, HeadTailProperties
  <2>3. Tree(nodes, stack, end)
    BY DEF TreeInv
  <2> HIDE DEF h
  <2>4. Tree(Append(nodes, x), Append(stack, Len(nodes) + 1), end + h)
    BY <2>2, <2>3, TreeLeaf
  <2> HIDE DEF x
  <2> QED
    BY <2>1, <2>4 DEF TreeInv
<1>3. ASSUME Fact!PushParent PROVE TreeInv'
  <2> DEFINE L == Len(stack)
             keep == L - Fact!NNodes
             children == SubSeq(stack, keep + 1, L)
             x == [end |-> nodes[children[Len(children)]].end,
                   size |-> Fact!Total([i \in DOMAIN children |-> nodes[children[i]].size]),
                   children |-> children]
  <2>1. /\ step = "parent" /\ end' = end
        /\ nodes' = Append(nodes, x)
        /\ stack' = Append(SubSeq(stack, 1, keep), Len(nodes) + 1)
    BY <1>3 DEF Fact!PushParent, Fact!Push, Fact!Last, Fact!Total
  <2>2. Tree(nodes, stack, end)
    BY DEF TreeInv
  <2>3. keep \in Nat /\ keep < L
    <3>1. 0 < Fact!NNodes /\ Fact!NNodes <= L /\ pair \in Nat /\ pair > 0 /\ pair <= Fact!Pairs
          /\ Len(Fact!Structure) \in {2, 4, 6, 8, 10} /\ pie \in Pies
      BY <2>1 DEF FactType
    <3>2. Fact!NNodes \in Nat
      <4>1. Fact!Pairs \in 1 .. 5
        BY <3>1, PairsAre
      <4>2. pair \in 1 .. Fact!Pairs
        BY <3>1, <4>1
      <4> QED
        BY <3>1, <4>2, PairsAre DEF Fact!NNodes
    <3>3. L \in Nat
      <4>1. Len(nodes) \in Nat
        BY <2>2, LenProperties DEF Tree
      <4> QED
        BY <2>2, <4>1, RowIs DEF Tree
    <3> HIDE DEF L
    <3> QED
      BY <3>1, <3>2, <3>3
  <2> HIDE DEF keep
  <2>4. Tree(Append(nodes, x), Append(SubSeq(stack, 1, keep), Len(nodes) + 1), end)
    BY <2>2, <2>3, TreeParent
  <2> HIDE DEF x
  <2> QED
    BY <2>1, <2>4 DEF TreeInv
<1>4. Fact!PushLeaf \/ Fact!PushParent \/ UNCHANGED <<nodes, stack, end>>
  BY DEF Fact!Next, Fact!ReadOutput, Fact!ReadTopology, Fact!ReadPage, Fact!PagesRead,
         Fact!NextPair, Fact!LeavesPushed, Fact!Root
<1> QED
  BY <1>1, <1>2, <1>3, <1>4

-------------------------------------------------------------------------------
(* The nodes divide the words, and each has one place *)

FactInv == FactType /\ TreeInv

(* The computation keeps its types, and its nodes are a tree over the words read so far. *)
THEOREM FactInvariant == Spec => []FactInv
<1>1. Init => FactInv
  BY FactTypeInit, TreeInit DEF FactInv
<1>2. FactInv /\ [Next]_<<factVars, blobVars>> => FactInv'
  <2> SUFFICES ASSUME FactInv, [Next]_<<factVars, blobVars>> PROVE FactInv'
    OBVIOUS
  <2>1. ASSUME Fact!Next PROVE FactInv'
    BY <2>1, FactTypeStep, TreeStep DEF FactInv
  <2>2. ASSUME UNCHANGED factVars PROVE FactInv'
    <3>1. UNCHANGED <<pie, step, sizes, pageNo, nextStart, pair, due, nodes, stack, end>>
      BY <2>2 DEF factVars
    <3>2. Fact!NNodes' = Fact!NNodes
      BY <3>1, SamePie DEF Fact!NNodes
    <3>3. FactType'
      BY <3>1, <3>2, SamePie DEF FactInv, FactType
    <3>4. TreeInv'
      BY <3>1 DEF FactInv, TreeInv
    <3> QED
      BY <3>3, <3>4 DEF FactInv
  <2> QED
    BY <2>1, <2>2 DEF Next, Compute, Publish
<1> QED
  BY <1>1, <1>2, PTL DEF Spec

(* What the words of FactTree are here. *)
LEMMA TreeSays ==
  ASSUME FactInv
  PROVE  /\ nodes \in Seq(Node) /\ stack \in Rows(Len(nodes))
         /\ DOMAIN nodes = 1 .. Len(nodes) /\ DOMAIN stack = 1 .. Len(stack)
         /\ \A n \in 1 .. Len(nodes) : /\ nodes[n].children \in Rows(Len(nodes))
                                       /\ Fact!First(n) = FirstOf(nodes, n)
         /\ \A row \in Rows(Len(nodes)) : Fact!Adjoin(row) <=> AdjoinIn(nodes, row)
<1>1. nodes \in Seq(Node) /\ stack \in Rows(Len(nodes)) /\ Known(nodes)
  BY DEF FactInv, TreeInv, Tree
<1>2. Len(nodes) \in Nat /\ DOMAIN nodes = 1 .. Len(nodes)
  BY <1>1, LenProperties
<1>3. DOMAIN stack = 1 .. Len(stack)
  BY <1>1, <1>2, RowIs
<1>4. \A n : Fact!First(n) = FirstOf(nodes, n)
  BY DEF Fact!First, FirstOf
<1>5. \A row : Fact!Adjoin(row) <=> AdjoinIn(nodes, row)
  BY <1>4 DEF Fact!Adjoin, AdjoinIn
<1> QED
  BY <1>1, <1>2, <1>3, <1>4, <1>5 DEF Known

(* The invariant in the words of NodesTile, *)
LEMMA Tiles == FactInv => NodesTile
<1> SUFFICES ASSUME FactInv PROVE Fact!NodesTile
  BY DEF NodesTile
<1>1. Divides(nodes, stack, end) /\ \A n \in 1 .. Len(nodes) : Whole(nodes, n)
  BY DEF FactInv, TreeInv, Tree
<1>2. /\ nodes \in Seq(Node) /\ stack \in Rows(Len(nodes))
      /\ DOMAIN nodes = 1 .. Len(nodes)
      /\ \A n \in 1 .. Len(nodes) : /\ nodes[n].children \in Rows(Len(nodes))
                                    /\ Fact!First(n) = FirstOf(nodes, n)
      /\ \A row \in Rows(Len(nodes)) : Fact!Adjoin(row) <=> AdjoinIn(nodes, row)
  BY TreeSays
<1>3. Len(nodes) \in Nat
  BY <1>2, LenProperties
<1>4. Fact!Adjoin(stack)
  BY <1>1, <1>2 DEF Divides
<1>5. IF stack = <<>> THEN end = 0
      ELSE Fact!First(stack[1]) = 0 /\ nodes[Fact!Last(stack)].end = end
  <2>1. ASSUME stack # <<>>
        PROVE  Fact!First(stack[1]) = 0 /\ nodes[stack[Len(stack)]].end = end
    <3>1. stack[1] \in 1 .. Len(nodes)
      BY <1>2, <1>3, <2>1, RowIs
    <3> QED
      BY <1>1, <1>2, <2>1, <3>1 DEF Divides
  <2> QED
    BY <1>1, <2>1 DEF Divides, Fact!Last
<1>6. ASSUME NEW n \in DOMAIN nodes, nodes[n].children # <<>>
      PROVE  LET children == nodes[n].children IN
             /\ Fact!Adjoin(children)
             /\ Fact!First(n) = Fact!First(children[1])
             /\ nodes[n].end = nodes[Fact!Last(children)].end
  <2> DEFINE r == nodes[n].children
  <2>1. r \in Rows(Len(nodes)) /\ r # <<>> /\ n \in 1 .. Len(nodes)
    BY <1>2, <1>6
  <2>2. /\ AdjoinIn(nodes, r) /\ FirstOf(nodes, n) = FirstOf(nodes, r[1])
        /\ nodes[n].end = nodes[r[Len(r)]].end
    BY <1>1, <1>6, <2>1 DEF Whole
  <2> HIDE DEF r
  <2>3. r[1] \in 1 .. Len(nodes)
    BY <1>3, <2>1, RowIs
  <2>4. Fact!Adjoin(r) /\ Fact!First(n) = Fact!First(r[1])
    BY <1>2, <2>1, <2>2, <2>3
  <2>5. nodes[n].end = nodes[Fact!Last(r)].end
    BY <2>2 DEF Fact!Last
  <2> QED
    BY <2>4, <2>5 DEF r
<1> QED
  BY <1>4, <1>5, <1>6 DEF Fact!NodesTile

(* and in those of EachOnce. *)
LEMMA Once == FactInv => EachOnce
<1> SUFFICES ASSUME FactInv, NEW n \in DOMAIN nodes
             PROVE  Fact!Cardinality(Fact!Parents(n))
                      + Fact!Cardinality({i \in DOMAIN stack : stack[i] = n}) = 1
  BY DEF EachOnce, Fact!EachOnce
<1> DEFINE above == Fact!Parents(n)
           places == {i \in DOMAIN stack : stack[i] = n}
<1>1. /\ DOMAIN nodes = 1 .. Len(nodes) /\ DOMAIN stack = 1 .. Len(stack)
  BY TreeSays
<1>2. Placed(nodes, stack)
  BY DEF FactInv, TreeInv, Tree
<1>3. above = {p \in 1 .. Len(nodes) : IsParent(nodes, p, n)}
  BY <1>1 DEF Fact!Parents, IsParent
<1>4. Waits(stack, n) <=> places # {}
  BY <1>1 DEF Waits
<1>5. \A i, j \in places : i = j
  BY <1>1, <1>2 DEF Placed
<1>6. places # {} \/ above # {}
  BY <1>1, <1>2, <1>3, <1>4 DEF Placed
<1>7. \A p \in above : places = {} /\ \A q \in above : p = q
  BY <1>1, <1>2, <1>3, <1>4 DEF Placed
<1> HIDE DEF above, places
<1>8. (above = {} /\ \E i : places = {i}) \/ (places = {} /\ \E p : above = {p})
  BY <1>5, <1>6, <1>7
<1>9. Cardinality({}) = 0 /\ \A i : Cardinality({i}) = 1
  BY FS_EmptySet, FS_Singleton
<1>10. \/ Cardinality(above) = 0 /\ Cardinality(places) = 1
       \/ Cardinality(above) = 1 /\ Cardinality(places) = 0
  BY <1>8, <1>9, Zenon
<1> QED
  <2>1. Cardinality(above) + Cardinality(places) = 1
    BY <1>10
  <2> QED
    BY <2>1, CardinalityIs DEF above, places

(* The nodes on the stack divide the words read so far among them, in their order, and a   *)
(* parent is exactly its children: no word is hashed twice or left out, for any PIE.        *)
THEOREM WordsAreDivided == Spec => []NodesTile
  BY FactInvariant, Tiles, PTL

(* Every node waits on the stack or has become the child of exactly one parent. *)
THEOREM NodesHaveOnePlace == Spec => []EachOnce
  BY FactInvariant, Once, PTL

-------------------------------------------------------------------------------
(* What the verdict depends on *)

C == Cardinality(Fact!Ids)

\* Where the first k leaves end.
Bound(k) == IF k = 0 THEN 0 ELSE IF k \in Fact!Ids THEN pie.pages[k].start ELSE pie.size

PagesFit ==
    /\ Fact!Ids = 1 .. C
    /\ \A k \in 1 .. C : /\ Bound(k) > 0 /\ pie.pages[k].size > 0
                         /\ pie.pages[k].size = Bound(k + 1) - Bound(k)

StructureKnown == pie \in Pies /\ Len(Fact!Structure) \in {2, 4, 6, 8, 10}

(* Pushed and Merged, pair by pair. *)
LEMMA PushedSplits ==
  ASSUME StructureKnown
  PROVE  /\ Fact!Pushed(0) = 0
         /\ \A k \in 0 .. Fact!Pairs - 1 :
               /\ Fact!Pushed(k) \in Int /\ Fact!Structure[2 * k + 1] \in Nat
               /\ Fact!Pushed(k + 1) = Fact!Pushed(k) + Fact!Structure[2 * k + 1]
<1> DEFINE S == Fact!Structure
           f(k) == [i \in 1 .. k |-> S[2 * i - 1]]
<1>1. \A k \in 1 .. Fact!Pairs : S[2 * k - 1] \in Nat
  BY PairsAre DEF StructureKnown
<1>2. Fact!Pairs \in 1 .. 5
  BY PairsAre DEF StructureKnown
<1> HIDE DEF S
<1>3. \A k : Fact!Pushed(k) = Fact!Total(f(k))
  BY DEF Fact!Pushed, S
<1>4. f(0) \in [1 .. 0 -> Int]
  OBVIOUS
<1>5. ASSUME NEW k \in 0 .. Fact!Pairs - 1
      PROVE  /\ Fact!Pushed(k) \in Int /\ S[2 * k + 1] \in Nat
             /\ Fact!Pushed(k + 1) = Fact!Pushed(k) + S[2 * k + 1]
  <2>1. k \in Nat /\ k + 1 \in 1 .. k + 1 /\ 2 * (k + 1) - 1 = 2 * k + 1
        /\ 1 .. k + 1 \subseteq 1 .. Fact!Pairs
    BY <1>2
  <2>2. S[2 * k + 1] \in Nat
    BY <1>1, <2>1
  <2>3. \A i \in 1 .. k + 1 : S[2 * i - 1] \in Int
    BY <1>1, <2>1
  <2>4. f(k + 1) \in [1 .. k + 1 -> Int]
    BY <2>3
  <2>5. f(k) \in [1 .. k -> Int] /\ \A i \in 1 .. k : f(k)[i] = f(k + 1)[i]
    BY <2>1, <2>3
  <2>6. f(k + 1)[k + 1] = S[2 * k + 1]
    BY <2>1
  <2> HIDE DEF f
  <2>7. Fact!Total(f(k + 1)) = Fact!Total(f(k)) + f(k + 1)[k + 1]
        /\ Fact!Total(f(k)) \in Int
    BY <2>1, <2>4, <2>5, TotalSplits
  <2> QED
    BY <1>3, <2>2, <2>6, <2>7
<1> HIDE DEF f
<1>6. Fact!Pushed(0) = 0
  BY <1>3, <1>4, TotalOfNone
<1> QED
  BY <1>5, <1>6 DEF S

(* The same of the nodes that have become children. *)
LEMMA MergedSplits ==
  ASSUME StructureKnown
  PROVE  /\ Fact!Merged(0) = 0
         /\ \A k \in 0 .. Fact!Pairs - 1 :
               /\ Fact!Merged(k) \in Int /\ Fact!Structure[2 * (k + 1)] \in Nat
               /\ Fact!Merged(k + 1) = Fact!Merged(k)
                     + (IF Fact!Structure[2 * (k + 1)] = 0 THEN 0
                        ELSE Fact!Structure[2 * (k + 1)] - 1)
<1> DEFINE S == Fact!Structure
           g(i) == IF S[2 * i] = 0 THEN 0 ELSE S[2 * i] - 1
           f(k) == [i \in 1 .. k |-> g(i)]
<1>1. \A k \in 1 .. Fact!Pairs : S[2 * k] \in Nat
  BY PairsAre DEF StructureKnown
<1>2. Fact!Pairs \in 1 .. 5
  BY PairsAre DEF StructureKnown
<1> HIDE DEF S
<1>3. \A k : Fact!Merged(k) = Fact!Total(f(k))
  BY DEF Fact!Merged, S
<1>4. f(0) \in [1 .. 0 -> Int]
  OBVIOUS
<1>5. \A i \in 1 .. Fact!Pairs : g(i) \in Int
  BY <1>1
<1>6. ASSUME NEW k \in 0 .. Fact!Pairs - 1
      PROVE  /\ Fact!Merged(k) \in Int /\ S[2 * (k + 1)] \in Nat
             /\ Fact!Merged(k + 1) = Fact!Merged(k) + g(k + 1)
  <2>1. k \in Nat /\ k + 1 \in 1 .. k + 1 /\ k + 1 \in 1 .. Fact!Pairs
        /\ 1 .. k + 1 \subseteq 1 .. Fact!Pairs
    BY <1>2
  <2>2. S[2 * (k + 1)] \in Nat
    BY <1>1, <2>1
  <2> HIDE DEF g
  <2>3. f(k + 1) \in [1 .. k + 1 -> Int]
    BY <1>5, <2>1
  <2>4. f(k) \in [1 .. k -> Int] /\ \A i \in 1 .. k : f(k)[i] = f(k + 1)[i]
    BY <1>5, <2>1
  <2>5. f(k + 1)[k + 1] = g(k + 1)
    BY <2>1
  <2> HIDE DEF f
  <2>6. Fact!Total(f(k + 1)) = Fact!Total(f(k)) + f(k + 1)[k + 1]
        /\ Fact!Total(f(k)) \in Int
    BY <2>1, <2>3, <2>4, TotalSplits
  <2> QED
    BY <1>3, <2>2, <2>5, <2>6
<1> HIDE DEF f
<1>7. Fact!Merged(0) = 0
  BY <1>3, <1>4, TotalOfNone
<1> QED
  BY <1>6, <1>7 DEF S, g

(* No leaf is taken back. *)
LEMMA PushedGrows ==
  ASSUME StructureKnown, NEW k \in 1 .. Fact!Pairs
  PROVE  Fact!Pushed(k) <= Fact!Pushed(Fact!Pairs)
<1> DEFINE Q == {d \in Nat : k + d <= Fact!Pairs =>
                     /\ Fact!Pushed(k + d) \in Int /\ Fact!Pushed(k) <= Fact!Pushed(k + d)}
<1>1. Fact!Pairs \in 1 .. 5 /\ k \in Nat
  BY PairsAre DEF StructureKnown
<1>2. \A j \in 0 .. Fact!Pairs - 1 :
               /\ Fact!Pushed(j) \in Int /\ Fact!Structure[2 * j + 1] \in Nat
               /\ Fact!Pushed(j + 1) = Fact!Pushed(j) + Fact!Structure[2 * j + 1]
  BY PushedSplits
<1>3. ASSUME NEW j \in 1 .. Fact!Pairs PROVE Fact!Pushed(j) \in Int
  <2>1. j - 1 \in 0 .. Fact!Pairs - 1 /\ j - 1 + 1 = j
    BY <1>1
  <2>2. Fact!Pushed(j) = Fact!Pushed(j - 1) + Fact!Structure[2 * (j - 1) + 1]
    BY <1>2, <2>1
  <2> QED
    BY <1>2, <2>1, <2>2
<1>4. 0 \in Q
  BY <1>1, <1>3
<1>5. ASSUME NEW d \in Nat, d \in Q
      PROVE  d + 1 \in Q
  <2>1. ASSUME k + (d + 1) <= Fact!Pairs
        PROVE  /\ Fact!Pushed(k + (d + 1)) \in Int
               /\ Fact!Pushed(k) <= Fact!Pushed(k + (d + 1))
    <3>1. k + d \in 0 .. Fact!Pairs - 1 /\ k + d <= Fact!Pairs /\ k + (d + 1) = k + d + 1
      BY <1>1, <2>1
    <3>2. Fact!Pushed(k + d) \in Int /\ Fact!Pushed(k) <= Fact!Pushed(k + d)
      BY <1>5, <3>1
    <3>3. Fact!Pushed(k + d + 1) = Fact!Pushed(k + d) + Fact!Structure[2 * (k + d) + 1]
          /\ Fact!Structure[2 * (k + d) + 1] \in Nat
      BY <1>2, <3>1
    <3>4. Fact!Pushed(k) \in Int
      BY <1>3
    <3>5. k + (d + 1) \in 1 .. Fact!Pairs
      BY <1>1, <2>1
    <3>6. Fact!Pushed(k + (d + 1)) \in Int
      BY <1>3, <3>5
    <3> QED
      BY <3>1, <3>2, <3>3, <3>4, <3>6
  <2> QED
    BY <2>1
<1>6. Fact!Pairs - k \in Q
  <2>1. Fact!Pairs - k \in Nat
    BY <1>1
  <2> HIDE DEF Q
  <2> QED
    BY <1>4, <1>5, <2>1, NatInduct
<1>7. k + (Fact!Pairs - k) = Fact!Pairs /\ k + (Fact!Pairs - k) <= Fact!Pairs
  BY <1>1
<1> QED
  BY <1>6, <1>7

-------------------------------------------------------------------------------
(* Pages *)

(* The bounds are numbers. *)
LEMMA BoundsAre ==
  ASSUME pie \in Pies
  PROVE  /\ C \in Nat
         /\ \A k \in Int : Bound(k) \in Nat
         /\ Bound(0) = 0
         /\ \A k \in Fact!Ids : pie.pages[k].start \in Nat /\ pie.pages[k].size \in Nat
<1>1. /\ pie.size \in Nat /\ C \in Nat
      /\ \A k \in Fact!Ids : pie.pages[k].start \in Nat /\ pie.pages[k].size \in Nat
  BY PieIs DEF C
<1> QED
  BY <1>1 DEF Bound

(* ValidPages says it with a function. *)
LEMMA ValidPagesFit ==
  ASSUME pie \in Pies
  PROVE  Fact!ValidPages <=> PagesFit
<1> DEFINE I == Fact!Ids
           dom == I \cup {C + 1}
           starts == [id \in dom |-> IF id \in I THEN pie.pages[id].start ELSE pie.size]
           fits == /\ I = 1 .. C
                   /\ \A id \in I : /\ starts[id] > 0
                                    /\ pie.pages[id].size = starts[id + 1] - starts[id]
                                    /\ pie.pages[id].size > 0
<1>1. Fact!Cardinality(I) = C
  BY CardinalityIs DEF C
<1>2. Fact!ValidPages <=> fits
  BY <1>1 DEF Fact!ValidPages
<1>3. C \in Nat
  BY BoundsAre
<1>4. ASSUME I = 1 .. C, NEW id \in I
      PROVE  starts[id] = Bound(id) /\ starts[id + 1] = Bound(id + 1)
  <2>1. id \in 1 .. C /\ id # 0 /\ id + 1 # 0
    BY <1>3, <1>4
  <2>2. id + 1 \in dom /\ id \in dom
    <3>1. id + 1 \in 1 .. C \/ id + 1 = C + 1
      BY <1>3, <2>1
    <3> QED
      BY <1>4, <3>1
  <2> QED
    BY <2>1, <2>2 DEF Bound
<1>5. PagesFit <=> I = 1 .. C /\ \A k \in 1 .. C : /\ Bound(k) > 0 /\ pie.pages[k].size > 0
                         /\ pie.pages[k].size = Bound(k + 1) - Bound(k)
  BY DEF PagesFit
<1> HIDE DEF starts
<1>6. ASSUME I = 1 .. C PROVE fits <=> PagesFit
  BY <1>4, <1>5, <1>6
<1>7. ASSUME I # 1 .. C PROVE ~fits /\ ~PagesFit
  BY <1>5, <1>7
<1> QED
  BY <1>2, <1>6, <1>7

(* The pages follow each other up to the end of the output. *)
LEMMA BoundsGrow ==
  ASSUME pie \in Pies, PagesFit, NEW k \in 1 .. C
  PROVE  Bound(1) <= Bound(k) /\ Bound(k) < Bound(k + 1) /\ Bound(k + 1) <= pie.size
<1>1. C \in Nat /\ \A i \in Int : Bound(i) \in Nat
  BY BoundsAre
<1>2. \A i \in 1 .. C : Bound(i) < Bound(i + 1)
  <2>1. ASSUME NEW i \in 1 .. C PROVE Bound(i) < Bound(i + 1)
    <3>1. i \in Fact!Ids /\ pie.pages[i].size > 0
          /\ pie.pages[i].size = Bound(i + 1) - Bound(i)
      BY DEF PagesFit
    <3>2. pie.pages[i].size \in Nat /\ i \in Int /\ i + 1 \in Int
      BY <3>1, BoundsAre
    <3>3. Bound(i) \in Nat /\ Bound(i + 1) \in Nat
      BY <1>1, <3>2
    <3> QED
      BY <3>1, <3>2, <3>3
  <2> QED
    BY <2>1
<1> DEFINE Q == {d \in Nat : \A i \in 1 .. C + 1 : i + d <= C + 1 => Bound(i) <= Bound(i + d)}
<1>3. 0 \in Q
  <2>1. \A i \in 1 .. C + 1 : i + 0 = i /\ i \in Int
    OBVIOUS
  <2>2. \A i \in 1 .. C + 1 : Bound(i + 0) = Bound(i) /\ Bound(i) \in Nat
    BY <1>1, <2>1
  <2> QED
    BY <2>2
<1>4. ASSUME NEW d \in Nat, d \in Q PROVE d + 1 \in Q
  <2>1. ASSUME NEW i \in 1 .. C + 1, i + (d + 1) <= C + 1
        PROVE  Bound(i) <= Bound(i + (d + 1))
    <3>1. i + d \in 1 .. C /\ i + d <= C + 1 /\ i + (d + 1) = i + d + 1 /\ i \in Int
          /\ i + d \in Int /\ i + d + 1 \in Int
      BY <1>1, <2>1
    <3>2. Bound(i) <= Bound(i + d) /\ Bound(i + d) < Bound(i + d + 1)
      BY <1>2, <1>4, <3>1
    <3>3. Bound(i) \in Nat /\ Bound(i + d) \in Nat /\ Bound(i + d + 1) \in Nat
      BY <1>1, <3>1
    <3> HIDE DEF Q
    <3> QED
      BY <3>1, <3>2, <3>3
  <2> QED
    BY <2>1
<1>5. Nat \subseteq Q
  <2> HIDE DEF Q
  <2> QED
    BY <1>3, <1>4, NatInduct
<1>6. \A i \in 1 .. C + 1, d \in Nat : i + d <= C + 1 => Bound(i) <= Bound(i + d)
  BY <1>5
<1>7. Bound(1) <= Bound(k)
  <2>1. 1 \in 1 .. C + 1 /\ k - 1 \in Nat /\ 1 + (k - 1) = k /\ 1 + (k - 1) <= C + 1
    BY <1>1
  <2> QED
    BY <1>6, <2>1
<1>8. Bound(k + 1) <= Bound(C + 1)
  <2>1. k + 1 \in 1 .. C + 1 /\ C - k \in Nat /\ k + 1 + (C - k) = C + 1 /\ C + 1 <= C + 1
    BY <1>1
  <2> QED
    BY <1>6, <2>1
<1>9. Bound(C + 1) = pie.size
  <2>1. C + 1 # 0 /\ C + 1 \notin 1 .. C
    BY <1>1
  <2> QED
    BY <2>1 DEF Bound, PagesFit
<1> QED
  BY <1>2, <1>7, <1>8, <1>9

(* The next page has the number that the code expects if the pages are numbered from 1. *)
LEMMA NextIdExpected ==
  ASSUME pie \in Pies, Fact!Ids = 1 .. C, pageNo \in Nat, pageNo < C
  PROVE  Fact!NextId = pageNo + 1
<1> DEFINE id == Fact!NextId
<1>1. id \in Fact!Ids /\ Cardinality(Below(Fact!Ids, id)) = pageNo
  BY NextIdIs DEF C
<1> HIDE DEF id
<1>2. C \in Nat /\ id \in 1 .. C
  BY <1>1, BoundsAre
<1>3. Below(Fact!Ids, id) = 1 .. id - 1
  BY <1>2 DEF Below
<1>4. Cardinality(1 .. id - 1) = IF 1 > id - 1 THEN 0 ELSE id - 1 - 1 + 1
  <2>1. 1 \in Int /\ id - 1 \in Int
    BY <1>2
  <2> QED
    BY <2>1, FS_Interval
<1>5. Cardinality(1 .. id - 1) = id - 1
  BY <1>2, <1>4
<1> QED
  BY <1>1, <1>2, <1>3, <1>5 DEF id

(* A page with the expected number continues the numbers from 1. *)
LEMMA NumbersGoOn ==
  ASSUME pie \in Pies, pageNo \in Nat, pageNo < C, Fact!NextId = pageNo + 1,
         pageNo > 0 => {i \in Fact!Ids : i <= pageNo} = 1 .. pageNo
  PROVE  pageNo + 1 \in Fact!Ids /\ {i \in Fact!Ids : i <= pageNo + 1} = 1 .. pageNo + 1
<1> DEFINE p == pageNo
           I == Fact!Ids
<1>1. p + 1 \in I /\ Cardinality(Below(I, p + 1)) = p /\ I \subseteq Nat /\ IsFiniteSet(I)
  BY NextIdIs, PieIs DEF C
<1>5. \A i \in I : (i < p + 1 <=> i <= p) /\ (i <= p + 1 <=> i < p + 1 \/ i = p + 1)
  <2>1. \A i \in I : i \in Nat
    BY <1>1
  <2> HIDE DEF I
  <2> QED
    BY <2>1
<1>2. Below(I, p + 1) = 1 .. p
  <2>1. ASSUME p = 0 PROVE Below(I, p + 1) = 1 .. p
    <3>1. IsFiniteSet(Below(I, p + 1))
      <4>1. Below(I, p + 1) \in SUBSET I
        BY DEF Below
      <4> QED
        BY <1>1, <4>1, FS_Subset
    <3>2. Below(I, p + 1) = {}
      BY <1>1, <2>1, <3>1, FS_EmptySet
    <3>3. 1 .. p = {}
      BY <2>1
    <3> QED
      BY <3>2, <3>3
  <2>2. ASSUME p > 0 PROVE Below(I, p + 1) = 1 .. p
    <3>1. Below(I, p + 1) = {i \in I : i <= p}
      BY <1>5 DEF Below
    <3> QED
      BY <2>2, <3>1
  <2> QED
    BY <2>1, <2>2
<1>3. {i \in I : i <= p + 1} = Below(I, p + 1) \cup {p + 1}
  BY <1>1, <1>5 DEF Below
<1>4. 1 .. p + 1 = 1 .. p \cup {p + 1}
  OBVIOUS
<1> QED
  BY <1>1, <1>2, <1>3, <1>4

(* When all pages have been read, the numbers are complete. *)
LEMMA NumbersComplete ==
  ASSUME pie \in Pies, C > 0 => {i \in Fact!Ids : i <= C} = 1 .. C
  PROVE  Fact!Ids = 1 .. C
<1> DEFINE I == Fact!Ids
<1>1. IsFiniteSet(I) /\ C \in Nat /\ Cardinality(I) = C
  BY PieIs DEF C
<1>2. ASSUME C > 0 PROVE I = 1 .. C
  <2>1. 1 .. C \in SUBSET I
    BY <1>2
  <2>2. Cardinality(1 .. C) = C
    <3>1. Cardinality(1 .. C) = IF 1 > C THEN 0 ELSE C - 1 + 1
      BY <1>1, FS_Interval
    <3> QED
      BY <1>1, <1>2, <3>1
  <2> QED
    BY <1>1, <2>1, <2>2, FS_Subset
<1>3. ASSUME C = 0 PROVE I = 1 .. C
  <2>1. I = {}
    BY <1>1, <1>3, FS_EmptySet
  <2>2. 1 .. C = {}
    BY <1>3
  <2> QED
    BY <2>1, <2>2
<1> QED
  BY <1>1, <1>2, <1>3

-------------------------------------------------------------------------------
\* The first pageNo pages have been read.
PagesInv ==
    step = "pages" =>
        /\ pageNo <= C
        /\ pageNo = 0 => sizes = <<pie.size>>
        /\ pageNo > 0 =>
               /\ {i \in Fact!Ids : i <= pageNo} = 1 .. pageNo
               /\ nextStart = pie.pages[pageNo].start + pie.pages[pageNo].size
               /\ \A k \in 1 .. pageNo : pie.pages[k].start > 0 /\ pie.pages[k].size > 0
               /\ \A k \in 1 .. pageNo - 1 :
                      pie.pages[k].start + pie.pages[k].size = pie.pages[k + 1].start
               /\ Len(sizes) = pageNo + 1 /\ sizes[1] = pie.pages[1].start
               /\ \A k \in 1 .. pageNo : sizes[k + 1] = pie.pages[k].size

\* The number of leaves so far.
Leaves == C + 1 - Len(sizes)

LeavesInv ==
    step \in {"pair", "leaves", "parent"} =>
        /\ PagesFit /\ Leaves >= 0 /\ end = Bound(Leaves)
        /\ \A i \in 1 .. Len(sizes) : sizes[i] = Bound(Leaves + i) - Bound(Leaves + i - 1)

Enough(k) == Fact!Structure[2 * k] <= Fact!Pushed(k) - Fact!Merged(k - 1)

StackInv ==
    /\ step \in {"output", "topology"} => pageNo = 0
    /\ step \in {"output", "topology", "pages"} => stack = <<>> /\ end = 0
    /\ step = "pair" =>
           /\ Leaves = Fact!Pushed(pair) /\ Len(stack) = Fact!Pushed(pair) - Fact!Merged(pair)
           /\ \A k \in 1 .. pair : Enough(k)
    /\ step = "leaves" =>
           /\ Leaves + due = Fact!Pushed(pair)
           /\ Len(stack) + due = Fact!Pushed(pair) - Fact!Merged(pair - 1)
           /\ \A k \in 1 .. pair - 1 : Enough(k)
    /\ step = "parent" =>
           /\ Leaves = Fact!Pushed(pair)
           /\ Len(stack) = Fact!Pushed(pair) - Fact!Merged(pair - 1)
           /\ \A k \in 1 .. pair : Enough(k)

Valid == pie.memory = "whole" /\ Fact!ValidPages /\ Fact!ValidTopology

VerdictInv ==
    /\ step \notin {"output", "failed"} => pie.memory = "whole"
    /\ step \notin {"output", "topology", "failed"} =>
           (pie.topology = Fact!NoTopology => Fact!Ids = {})
    /\ step = "failed" => ~Valid
    /\ step = "done" => Valid

(* All of this depends on the PIE only, *)
LEMMA SameNumbers ==
  ASSUME pie' = pie
  PROVE  /\ C' = C
         /\ PagesFit' <=> PagesFit
         /\ \A k : Bound(k)' = Bound(k)
         /\ \A k : Fact!Pushed(k)' = Fact!Pushed(k)
         /\ \A k : Fact!Merged(k)' = Fact!Merged(k)
         /\ \A k : Enough(k)' <=> Enough(k)
<1>1. Fact!Ids' = Fact!Ids /\ Fact!Structure' = Fact!Structure
  BY SamePie
<1>2. C' = C
  BY <1>1 DEF C
<1>3. ASSUME NEW k PROVE Bound(k)' = Bound(k)
  BY <1>1 DEF Bound
<1>4. PagesFit' <=> PagesFit
  BY <1>1, <1>2, <1>3 DEF PagesFit
<1>5. ASSUME NEW k PROVE Fact!Pushed(k)' = Fact!Pushed(k)
  BY <1>1 DEF Fact!Pushed
<1>6. ASSUME NEW k PROVE Fact!Merged(k)' = Fact!Merged(k)
  BY <1>1 DEF Fact!Merged
<1>7. ASSUME NEW k PROVE Enough(k)' <=> Enough(k)
  <2>1. Fact!Pushed(k)' = Fact!Pushed(k) /\ Fact!Merged(k - 1)' = Fact!Merged(k - 1)
    BY <1>5, <1>6
  <2> QED
    BY <1>1, <2>1 DEF Enough
<1> QED
  BY <1>2, <1>3, <1>4, <1>5, <1>6, <1>7

(* and so does whether it is valid. *)
LEMMA SameVerdict ==
  ASSUME pie' = pie
  PROVE  Valid' <=> Valid
<1>1. \A k : Fact!Pushed(k)' = Fact!Pushed(k)
  BY SameNumbers
<1>2. \A k : Fact!Merged(k)' = Fact!Merged(k)
  BY SameNumbers
<1>3. Fact!Ids' = Fact!Ids /\ Fact!Structure' = Fact!Structure /\ Fact!Pairs' = Fact!Pairs
  BY SamePie
<1>4. Fact!ValidTopology' <=> Fact!ValidTopology
  BY <1>1, <1>2, <1>3 DEF Fact!ValidTopology
<1>5. Fact!ValidPages' <=> Fact!ValidPages
  BY <1>3 DEF Fact!ValidPages
<1> QED
  BY <1>4, <1>5 DEF Valid

-------------------------------------------------------------------------------
(* The verdict, step by step *)

Verdicts == PagesInv /\ LeavesInv /\ StackInv /\ VerdictInv

(* It is right to fail if the PIE is not valid. *)
LEMMA MayFail ==
  ASSUME pie' = pie, step' = "failed", ~Valid
  PROVE  Verdicts'
<1>1. ~Valid'
  BY SameVerdict
<1> QED
  BY <1>1 DEF Verdicts, PagesInv, LeavesInv, StackInv, VerdictInv

(* What VerdictInv says of the PIE while the computation goes on. *)
LEMMA MayGoOn ==
  ASSUME pie' = pie, Verdicts, step \notin {"output", "topology", "failed", "done"},
         step' \notin {"output", "topology", "failed", "done"}
  PROVE  VerdictInv'
<1>1. Fact!Ids' = Fact!Ids
  BY SamePie
<1> QED
  BY <1>1 DEF Verdicts, VerdictInv

(* Nothing has been judged at first. *)
LEMMA VerdictsInit == Init => Verdicts
  BY DEF Init, Fact!Init, Verdicts, PagesInv, LeavesInv, StackInv, VerdictInv

(* A memory with a hole or a pointer is refused at once. *)
LEMMA VerdictsReadOutput ==
  ASSUME Verdicts, Fact!ReadOutput
  PROVE  Verdicts'
<1>1. /\ step = "output" /\ UNCHANGED <<pie, sizes, pageNo, pair, due, stack, end>>
      /\ step' = IF pie.memory = "whole" THEN "topology" ELSE "failed"
  BY DEF Fact!ReadOutput, Fact!Ensure
<1>2. ASSUME pie.memory = "whole" PROVE Verdicts'
  <2>1. step' = "topology" /\ stack' = <<>> /\ end' = 0 /\ pageNo' = 0
    BY <1>1, <1>2 DEF Verdicts, StackInv
  <2> QED
    BY <1>1, <1>2, <2>1 DEF Verdicts, PagesInv, LeavesInv, StackInv, VerdictInv
<1>3. ASSUME pie.memory # "whole" PROVE Verdicts'
  BY <1>1, <1>3, MayFail DEF Valid
<1> QED
  BY <1>2, <1>3

(* So is a shape without pairs, or pages without a shape. *)
LEMMA VerdictsReadTopology ==
  ASSUME FactType, Verdicts, Fact!ReadTopology
  PROVE  Verdicts'
<1> DEFINE ok == IF pie.topology = Fact!NoTopology THEN Fact!Ids = {}
                 ELSE Len(Fact!Structure) \in {2, 4, 6, 8, 10}
<1>1. /\ step = "topology" /\ UNCHANGED <<pie, pageNo, pair, due, stack, end>>
      /\ sizes' = <<pie.size>>
      /\ step' = IF ok THEN "pages" ELSE "failed"
  BY DEF Fact!ReadTopology, Fact!Ensure, Fact!Ids
<1>2. ASSUME ok PROVE Verdicts'
  <2>1. /\ step' = "pages" /\ stack' = <<>> /\ end' = 0 /\ pageNo' = 0
        /\ pie.memory = "whole" /\ (pie.topology = Fact!NoTopology => Fact!Ids = {})
    BY <1>1, <1>2 DEF Verdicts, StackInv, VerdictInv
  <2>2. C' \in Nat /\ sizes' = <<pie'.size>>
    <3>1. C' = C
      BY <1>1, SamePie DEF C
    <3>2. pie \in Pies
      BY DEF FactType
    <3>3. C \in Nat
      BY <3>2, BoundsAre
    <3> QED
      BY <1>1, <3>1, <3>3
  <2>3. PagesInv'
    BY <2>1, <2>2 DEF PagesInv
  <2>4. Fact!Ids' = Fact!Ids
    BY <1>1, SamePie
  <2>5. VerdictInv'
    BY <1>1, <2>1, <2>4 DEF VerdictInv
  <2> QED
    BY <1>1, <2>1, <2>3, <2>5 DEF Verdicts, LeavesInv, StackInv
<1>3. ASSUME ~ok PROVE Verdicts'
  <2>1. ~Valid
    BY <1>3 DEF Valid, Fact!ValidTopology
  <2> QED
    BY <1>1, <1>3, <2>1, MayFail
<1> QED
  BY <1>2, <1>3

(* A sequence of two. *)
LEMMA TwoSizes ==
  ASSUME NEW a \in Nat, NEW b \in Nat
  PROVE  /\ Len(Append(<<a>>, b)) = 2
         /\ Append(<<a>>, b)[1] = a /\ Append(<<a>>, b)[2] = b
  OBVIOUS

(* The next page continues the pages before, or there is no valid row of pages. *)
LEMMA VerdictsReadPage ==
  ASSUME FactType, Verdicts, Fact!ReadPage
  PROVE  Verdicts'
<1> DEFINE p == pageNo
           start(k) == pie.pages[k].start
           size(k) == pie.pages[k].size
           ok == /\ Fact!NextId = p + 1
                 /\ IF p = 0 THEN start(Fact!NextId) > 0 /\ start(Fact!NextId) < pie.size
                    ELSE start(Fact!NextId) = nextStart
                 /\ size(Fact!NextId) > 0 /\ size(Fact!NextId) < pie.size
<1>1. /\ step = "pages" /\ UNCHANGED <<pie, pair, due, stack, end>>
      /\ pageNo' = p + 1
      /\ nextStart' = start(Fact!NextId) + size(Fact!NextId)
      /\ sizes' = Append(IF p = 0 THEN <<start(Fact!NextId)>> ELSE sizes, size(Fact!NextId))
      /\ step' = IF ok THEN "pages" ELSE "failed"
  BY DEF Fact!ReadPage, Fact!Ensure
<1>2. p < C
  BY CardinalityIs DEF Fact!ReadPage, C
<1>3. pie \in Pies /\ p \in Nat /\ sizes \in Seq(Nat) /\ nextStart \in Int
  BY DEF FactType
<1>4. /\ C \in Nat /\ Bound(0) = 0 /\ \A k \in Int : Bound(k) \in Nat
      /\ \A k \in Fact!Ids : start(k) \in Nat /\ size(k) \in Nat
  BY <1>3, BoundsAre
<1>5. /\ p = 0 => sizes = <<pie.size>>
      /\ p > 0 => /\ {i \in Fact!Ids : i <= p} = 1 .. p
                  /\ nextStart = start(p) + size(p)
                  /\ \A k \in 1 .. p : start(k) > 0 /\ size(k) > 0
                  /\ \A k \in 1 .. p - 1 : start(k) + size(k) = start(k + 1)
                  /\ Len(sizes) = p + 1 /\ sizes[1] = start(1)
                  /\ \A k \in 1 .. p : sizes[k + 1] = size(k)
  BY <1>1 DEF Verdicts, PagesInv
<1>6. pie.size \in Nat
  BY <1>3, PieIs
<1> HIDE DEF start, size
<1>7. ASSUME ok PROVE Verdicts'
  <2>1. p + 1 \in Fact!Ids /\ {i \in Fact!Ids : i <= p + 1} = 1 .. p + 1
    BY <1>2, <1>3, <1>5, <1>7, NumbersGoOn
  <2>2. start(p + 1) \in Nat /\ size(p + 1) \in Nat
    BY <1>4, <2>1
  <2>3. \A k \in 1 .. p + 1 : start(k) > 0 /\ size(k) > 0
    <3>1. size(p + 1) > 0
      BY <1>7
    <3>2. start(p + 1) > 0
      <4>1. ASSUME p = 0 PROVE start(p + 1) > 0
        BY <1>7, <4>1
      <4>2. ASSUME p > 0 PROVE start(p + 1) > 0
        <5>1. p \in 1 .. p /\ p \in Fact!Ids
          BY <1>3, <1>5, <4>2
        <5>2. start(p) > 0 /\ size(p) > 0 /\ start(p) \in Nat /\ size(p) \in Nat
          BY <1>4, <1>5, <4>2, <5>1
        <5>3. start(p + 1) = start(p) + size(p)
          BY <1>5, <1>7, <4>2
        <5> QED
          BY <5>2, <5>3
      <4> QED
        BY <1>3, <4>1, <4>2
    <3>3. \A k \in 1 .. p + 1 : k = p + 1 \/ (p > 0 /\ k \in 1 .. p)
      BY <1>3
    <3> QED
      BY <1>5, <3>1, <3>2, <3>3
  <2>4. \A k \in 1 .. p : start(k) + size(k) = start(k + 1)
    <3>1. ASSUME NEW k \in 1 .. p, k = p PROVE start(k) + size(k) = start(k + 1)
      <4>1. p > 0 /\ start(p + 1) = nextStart
        BY <1>3, <1>7, <3>1
      <4> QED
        BY <1>5, <3>1, <4>1
    <3>2. ASSUME NEW k \in 1 .. p, k # p PROVE start(k) + size(k) = start(k + 1)
      <4>1. p > 0 /\ k \in 1 .. p - 1
        BY <1>3, <3>2
      <4> QED
        BY <1>5, <4>1
    <3> QED
      BY <3>1, <3>2
  <2>5. nextStart' = start(p + 1) + size(p + 1)
    BY <1>1, <1>7
  <2>6. /\ Len(sizes') = p + 2 /\ sizes'[1] = start(1)
        /\ \A k \in 1 .. p + 1 : sizes'[k + 1] = size(k)
    <3>1. ASSUME p = 0
          PROVE  /\ Len(sizes') = p + 2 /\ sizes'[1] = start(1)
                 /\ \A k \in 1 .. p + 1 : sizes'[k + 1] = size(k)
      <4> DEFINE before == <<start(1)>>
      <4>1. sizes' = Append(before, size(1))
        BY <1>1, <1>7, <3>1
      <4>2. start(1) \in Nat /\ size(1) \in Nat
        BY <2>2, <3>1
      <4>6. Len(sizes') = 2 /\ sizes'[2] = size(1) /\ sizes'[1] = start(1)
        BY <4>1, <4>2, TwoSizes
      <4> QED
        BY <3>1, <4>6
    <3>2. ASSUME p > 0
          PROVE  /\ Len(sizes') = p + 2 /\ sizes'[1] = start(1)
                 /\ \A k \in 1 .. p + 1 : sizes'[k + 1] = size(k)
      <4>1. sizes' = Append(sizes, size(p + 1))
        BY <1>1, <1>7, <3>2
      <4>2. /\ Len(sizes') = Len(sizes) + 1 /\ sizes'[Len(sizes) + 1] = size(p + 1)
            /\ \A i \in 1 .. Len(sizes) : sizes'[i] = sizes[i]
        BY <1>3, <2>2, <4>1, AppendProperties
      <4>3. Len(sizes) = p + 1 /\ sizes[1] = start(1) /\ \A k \in 1 .. p : sizes[k + 1] = size(k)
        BY <1>5, <3>2
      <4>4. Len(sizes') = p + 2 /\ sizes'[p + 2] = size(p + 1) /\ sizes'[1] = start(1)
        BY <1>3, <4>2, <4>3
      <4>5. \A k \in 1 .. p : sizes'[k + 1] = size(k)
        <5>1. \A k \in 1 .. p : k + 1 \in 1 .. p + 1
          BY <1>3
        <5> QED
          BY <4>2, <4>3, <5>1
      <4>6. \A k \in 1 .. p + 1 : k \in 1 .. p \/ (k = p + 1 /\ k + 1 = p + 2)
        BY <1>3
      <4> QED
        BY <4>4, <4>5, <4>6
    <3> QED
      BY <1>3, <3>1, <3>2
  <2>7. step' = "pages" /\ pageNo' = p + 1 /\ p + 1 > 0 /\ p + 1 <= C /\ p + 1 - 1 = p
        /\ p + 1 + 1 = p + 2 /\ p + 1 # 0
    BY <1>1, <1>2, <1>3, <1>4, <1>7
  <2>8. C' = C /\ Fact!Ids' = Fact!Ids /\ pie' = pie
    BY <1>1, SamePie DEF C
  <2> DEFINE q == p + 1
  <2>12. /\ q > 0 /\ q <= C /\ q # 0 /\ {i \in Fact!Ids : i <= q} = 1 .. q
         /\ nextStart' = start(q) + size(q)
         /\ \A k \in 1 .. q : start(k) > 0 /\ size(k) > 0
         /\ \A k \in 1 .. q - 1 : start(k) + size(k) = start(k + 1)
         /\ Len(sizes') = q + 1 /\ sizes'[1] = start(1)
         /\ \A k \in 1 .. q : sizes'[k + 1] = size(k)
    <3>1. q > 0 /\ q <= C /\ q # 0 /\ {i \in Fact!Ids : i <= q} = 1 .. q
      BY <2>1, <2>7
    <3>2. nextStart' = start(q) + size(q) /\ \A k \in 1 .. q : start(k) > 0 /\ size(k) > 0
      BY <2>3, <2>5
    <3>3. \A k \in 1 .. q - 1 : start(k) + size(k) = start(k + 1)
      <4>1. q - 1 = p
        BY <1>3
      <4> HIDE DEF q, p
      <4>2. \A k \in 1 .. p : start(k) + size(k) = start(k + 1)
        BY <2>4
      <4> QED
        BY <4>1, <4>2, Zenon
    <3>4. Len(sizes') = q + 1 /\ sizes'[1] = start(1)
      BY <2>6, <2>7
    <3>5. \A k \in 1 .. q : sizes'[k + 1] = size(k)
      BY <2>6
    <3> QED
      BY <3>1, <3>2, <3>3, <3>4, <3>5
  <2>13. pageNo' = q
    BY <2>7
  <2> HIDE DEF q, p
  <2>14. \A k : pie'.pages[k].start = start(k) /\ pie'.pages[k].size = size(k)
    BY <2>8 DEF start, size
  <2>9. PagesInv'
    <3>1. PagesInv' <=>
            (step' = "pages" =>
        /\ pageNo' <= C'
        /\ pageNo' = 0 => sizes' = <<pie'.size>>
        /\ pageNo' > 0 =>
               /\ {i \in Fact!Ids' : i <= pageNo'} = 1 .. pageNo'
               /\ nextStart' = pie'.pages[pageNo'].start + pie'.pages[pageNo'].size
               /\ \A k \in 1 .. pageNo' : pie'.pages[k].start > 0 /\ pie'.pages[k].size > 0
               /\ \A k \in 1 .. pageNo' - 1 :
                      pie'.pages[k].start + pie'.pages[k].size = pie'.pages[k + 1].start
               /\ Len(sizes') = pageNo' + 1 /\ sizes'[1] = pie'.pages[1].start
               /\ \A k \in 1 .. pageNo' : sizes'[k + 1] = pie'.pages[k].size)
      BY Zenon DEF PagesInv
    <3> QED
      BY <2>8, <2>12, <2>13, <2>14, <3>1
  <2>10. stack' = <<>> /\ end' = 0
    BY <1>1 DEF Verdicts, StackInv
  <2>11. VerdictInv'
    BY <1>1, <2>7, MayGoOn
  <2> QED
    BY <2>7, <2>9, <2>10, <2>11 DEF Verdicts, LeavesInv, StackInv
<1>8. ASSUME ~ok PROVE Verdicts'
  <2>1. ASSUME Valid PROVE FALSE
    <3>1. PagesFit
      BY <1>3, <2>1, ValidPagesFit DEF Valid
    <3>2. Fact!Ids = 1 .. C
      BY <3>1 DEF PagesFit
    <3>3. Fact!NextId = p + 1
      BY <1>2, <1>3, <3>2, NextIdExpected
    <3> DEFINE k == p + 1
    <3>4. k \in 1 .. C /\ k \in Int /\ 1 \in Int /\ k + 1 \in Int /\ 1 \in 1 .. C
      BY <1>2, <1>3, <1>4
    <3>5. \A i \in 1 .. C : start(i) = Bound(i)
      BY <1>4, <3>2 DEF Bound, start
    <3>6. Bound(1) > 0 /\ size(k) > 0 /\ size(k) = Bound(k + 1) - Bound(k)
      BY <3>1, <3>4 DEF PagesFit, size
    <3>7. Bound(1) <= Bound(k) /\ Bound(k) < Bound(k + 1) /\ Bound(k + 1) <= pie.size
      BY <1>3, <3>1, <3>4, BoundsGrow
    <3>8. Bound(1) \in Nat /\ Bound(k) \in Nat /\ Bound(k + 1) \in Nat
      BY <1>4, <3>4
    <3>9. size(k) < pie.size
      BY <1>6, <3>6, <3>7, <3>8
    <3>10. ASSUME p = 0 PROVE start(k) > 0 /\ start(k) < pie.size
      BY <1>6, <3>4, <3>5, <3>6, <3>7, <3>8
    <3>11. ASSUME p # 0 PROVE start(k) = nextStart
      <4>1. p > 0 /\ p \in 1 .. C /\ p \in Int
        BY <1>2, <1>3, <1>4, <3>11
      <4>2. size(p) = Bound(p + 1) - Bound(p) /\ start(p) = Bound(p) /\ start(k) = Bound(p + 1)
        BY <3>1, <3>4, <3>5, <4>1 DEF PagesFit, size
      <4>3. nextStart = start(p) + size(p)
        BY <1>5, <4>1
      <4>4. Bound(p) \in Nat /\ Bound(p + 1) \in Nat
        BY <1>4, <3>8, <4>1
      <4> QED
        BY <4>2, <4>3, <4>4
    <3> QED
      BY <1>8, <3>3, <3>6, <3>9, <3>10, <3>11
  <2> QED
    BY <1>1, <1>8, <2>1, MayFail
<1> QED
  BY <1>7, <1>8

(* After the last page the sizes of the leaves are known. *)
LEMMA PagesAreRead ==
  ASSUME FactType, Verdicts, step = "pages", pageNo = C,
         Fact!Ids = {} \/ nextStart = pie.size
  PROVE  /\ PagesFit /\ Len(sizes) = C + 1
         /\ \A i \in 1 .. C + 1 : sizes[i] = Bound(i) - Bound(i - 1)
<1> DEFINE start(k) == pie.pages[k].start
           size(k) == pie.pages[k].size
<1>1. pie \in Pies /\ sizes \in Seq(Nat)
  BY DEF FactType
<1>2. /\ C \in Nat /\ Bound(0) = 0 /\ \A k \in Int : Bound(k) \in Nat
      /\ \A k \in Fact!Ids : start(k) \in Nat /\ size(k) \in Nat
  BY <1>1, BoundsAre
<1>3. /\ C = 0 => sizes = <<pie.size>>
      /\ C > 0 => /\ {i \in Fact!Ids : i <= C} = 1 .. C
                  /\ nextStart = start(C) + size(C)
                  /\ \A k \in 1 .. C : start(k) > 0 /\ size(k) > 0
                  /\ \A k \in 1 .. C - 1 : start(k) + size(k) = start(k + 1)
                  /\ Len(sizes) = C + 1 /\ sizes[1] = start(1)
                  /\ \A k \in 1 .. C : sizes[k + 1] = size(k)
  BY DEF Verdicts, PagesInv
<1>4. Fact!Ids = 1 .. C
  BY <1>1, <1>3, NumbersComplete
<1>5. \A k \in 1 .. C : Bound(k) = start(k)
  BY <1>2, <1>4 DEF Bound
<1>6. Bound(C + 1) = pie.size
  <2>1. C + 1 # 0 /\ C + 1 \notin 1 .. C
    BY <1>2
  <2> QED
    BY <1>4, <2>1 DEF Bound
<1> HIDE DEF start, size
<1>7. \A k \in 1 .. C : start(k) \in Nat /\ size(k) \in Nat /\ start(k) > 0 /\ size(k) > 0
  <2>1. ASSUME NEW k \in 1 .. C PROVE C > 0 /\ k \in Fact!Ids
    BY <1>2, <1>4
  <2> QED
    BY <1>2, <1>3, <2>1
<1>8. ASSUME NEW k \in 1 .. C PROVE Bound(k + 1) = start(k) + size(k)
  <2>1. C > 0
    BY <1>2
  <2>2. ASSUME k = C PROVE Bound(k + 1) = start(k) + size(k)
    <3>1. Fact!Ids # {}
      BY <1>4
    <3> QED
      BY <1>3, <1>6, <2>1, <2>2, <3>1
  <2>3. ASSUME k # C PROVE Bound(k + 1) = start(k) + size(k)
    <3>1. k \in 1 .. C - 1 /\ k + 1 \in 1 .. C
      BY <1>2, <2>3
    <3> QED
      BY <1>3, <1>5, <2>1, <3>1
  <2> QED
    BY <2>2, <2>3
<1>9. PagesFit
  <2>1. ASSUME NEW k \in 1 .. C
        PROVE  /\ Bound(k) > 0 /\ size(k) > 0 /\ size(k) = Bound(k + 1) - Bound(k)
    BY <1>5, <1>7, <1>8
  <2> QED
    BY <1>4, <2>1 DEF PagesFit, size
<1>10. ASSUME C = 0
       PROVE  /\ Len(sizes) = C + 1
              /\ \A i \in 1 .. C + 1 : sizes[i] = Bound(i) - Bound(i - 1)
  <2>1. sizes = <<pie.size>> /\ Bound(1) = pie.size /\ pie.size \in Nat
    BY <1>1, <1>3, <1>6, <1>10, PieIs
  <2>2. Len(sizes) = 1 /\ sizes[1] = pie.size
    BY <2>1
  <2>3. \A i \in 1 .. C + 1 : i = 1 /\ i - 1 = 0
    BY <1>10
  <2>4. sizes[1] = Bound(1) - Bound(0)
    BY <1>2, <2>1, <2>2
  <2> QED
    BY <1>10, <2>2, <2>3, <2>4
<1>11. ASSUME C > 0
       PROVE  /\ Len(sizes) = C + 1
              /\ \A i \in 1 .. C + 1 : sizes[i] = Bound(i) - Bound(i - 1)
  <2>1. 1 \in 1 .. C
    BY <1>2, <1>11
  <2>2. sizes[1] = Bound(1) - Bound(0)
    BY <1>2, <1>3, <1>5, <1>7, <1>11, <2>1
  <2>3. ASSUME NEW i \in 1 .. C + 1, i # 1 PROVE sizes[i] = Bound(i) - Bound(i - 1)
    <3> DEFINE k == i - 1
    <3>1. k \in 1 .. C /\ i = k + 1
      BY <1>2, <2>3
    <3> HIDE DEF k
    <3>2. sizes[k + 1] = size(k) /\ Bound(k) = start(k) /\ Bound(k + 1) = start(k) + size(k)
          /\ start(k) \in Nat /\ size(k) \in Nat
      BY <1>3, <1>5, <1>7, <1>8, <1>11, <3>1
    <3>3. sizes[k + 1] = Bound(k + 1) - Bound(k)
      BY <3>2
    <3> QED
      BY <3>1, <3>3 DEF k
  <2>4. 1 - 1 = 0
    OBVIOUS
  <2> QED
    BY <1>3, <1>11, <2>2, <2>3, <2>4
<1> QED
  BY <1>2, <1>9, <1>10, <1>11

(* The last page ends the output, or there is no valid row of pages. *)
LEMMA VerdictsPagesRead ==
  ASSUME FactType, Verdicts, Fact!PagesRead
  PROVE  Verdicts'
<1> DEFINE ok == Fact!Ids = {} \/ nextStart = pie.size
<1>1. /\ step = "pages" /\ pageNo = C
      /\ UNCHANGED <<pie, sizes, pageNo, nextStart, pair, due, nodes, stack, end>>
      /\ step' = IF ok THEN "pair" ELSE "failed"
  BY CardinalityIs DEF Fact!PagesRead, Fact!Ensure, C
<1>2. pie \in Pies /\ pair = 0 /\ StructureKnown
  BY <1>1 DEF FactType, StructureKnown
<1>3. C \in Nat /\ Bound(0) = 0
  BY <1>2, BoundsAre
<1>4. ASSUME ok PROVE Verdicts'
  <2>1. /\ PagesFit /\ Len(sizes) = C + 1
        /\ \A i \in 1 .. C + 1 : sizes[i] = Bound(i) - Bound(i - 1)
    BY <1>1, <1>4, PagesAreRead
  <2>2. C' = C /\ PagesFit' /\ Leaves' = 0
    <3>1. C' = C
      BY <1>1, SamePie DEF C
    <3>2. PagesFit'
      BY <1>1, <2>1, SameNumbers
    <3> QED
      BY <1>1, <1>3, <2>1, <3>1, <3>2 DEF Leaves
  <2>3. step' = "pair" /\ stack' = <<>> /\ end' = 0 /\ pair' = 0
    BY <1>1, <1>2, <1>4 DEF Verdicts, StackInv
  <2>4. \A k : Bound(k)' = Bound(k)
    BY <1>1, SameNumbers
  <2>5. \A i \in 1 .. Len(sizes') : sizes'[i] = Bound(0 + i)' - Bound(0 + i - 1)'
    <3>1. \A i \in 1 .. C + 1 : 0 + i = i
      BY <1>3
    <3>2. \A i \in 1 .. C + 1 : sizes'[i] = Bound(i)' - Bound(i - 1)'
      BY <1>1, <2>1, <2>4
    <3> QED
      BY <1>1, <2>1, <3>1, <3>2
  <2>6. LeavesInv'
    BY <1>3, <2>2, <2>3, <2>4, <2>5 DEF LeavesInv
  <2>7. StackInv'
    <3>1. Fact!Pushed(0)' = 0 /\ Fact!Merged(0)' = 0
      <4>1. Fact!Pushed(0) = 0 /\ Fact!Merged(0) = 0
        BY <1>2, PushedSplits, MergedSplits
      <4>2. \A k : Fact!Pushed(k)' = Fact!Pushed(k)
        BY <1>1, SameNumbers
      <4>3. \A k : Fact!Merged(k)' = Fact!Merged(k)
        BY <1>1, SameNumbers
      <4> QED
        BY <4>1, <4>2, <4>3
    <3>2. Len(stack') = 0 /\ \A k \in 1 .. 0 : FALSE
      BY <2>3
    <3> QED
      BY <2>2, <2>3, <3>1, <3>2 DEF StackInv
  <2>8. VerdictInv'
    BY <1>1, <2>3, MayGoOn
  <2> QED
    BY <2>3, <2>6, <2>7, <2>8 DEF Verdicts, PagesInv
<1>5. ASSUME ~ok PROVE Verdicts'
  <2>1. ASSUME Valid PROVE FALSE
    <3>1. PagesFit
      BY <1>2, <2>1, ValidPagesFit DEF Valid
    <3>2. Fact!Ids = 1 .. C /\ C > 0 /\ C \in 1 .. C /\ C \in Int /\ C # 0
      BY <1>3, <1>5, <3>1 DEF PagesFit
    <3>3. nextStart = pie.pages[C].start + pie.pages[C].size
      BY <1>1, <3>2 DEF Verdicts, PagesInv
    <3>4. Bound(C) = pie.pages[C].start /\ pie.pages[C].size = Bound(C + 1) - Bound(C)
      BY <3>1, <3>2 DEF PagesFit, Bound
    <3>5. Bound(C + 1) = pie.size
      <4>1. C + 1 # 0 /\ C + 1 \notin 1 .. C
        BY <1>3
      <4> QED
        BY <3>2, <4>1 DEF Bound
    <3>6. Bound(C) \in Nat /\ Bound(C + 1) \in Nat
      BY <1>2, <1>3, <3>2, BoundsAre
    <3>7. nextStart = pie.size
      BY <3>3, <3>4, <3>5, <3>6
    <3> QED
      BY <1>5, <3>7
  <2> QED
    BY <1>1, <1>5, <2>1, MayFail
<1> QED
  BY <1>4, <1>5

Merging == step \in {"pair", "leaves", "parent"}

(* What is known while the tree is built. *)
LEMMA MergingKnows ==
  ASSUME FactInv, Verdicts, Merging
  PROVE  /\ pie \in Pies /\ StructureKnown /\ C \in Nat /\ Fact!Pairs \in 1 .. 5
         /\ sizes \in Seq(Nat) /\ Len(sizes) \in Nat /\ Leaves \in Int
         /\ Len(stack) \in Nat /\ pair \in Nat /\ due \in Nat
         /\ step = "pair" => pair \in 0 .. Fact!Pairs
         /\ step \in {"leaves", "parent"} => pair \in 1 .. Fact!Pairs
<1>1. pie \in Pies /\ StructureKnown /\ sizes \in Seq(Nat) /\ pair \in Nat /\ due \in Nat
      /\ step \in {"pair", "leaves", "parent"} /\ pair <= Fact!Pairs
      /\ (step \in {"leaves", "parent"} => pair > 0)
  BY DEF FactInv, FactType, Merging, StructureKnown
<1>2. C \in Nat /\ Fact!Pairs \in 1 .. 5
  BY <1>1, BoundsAre, PairsAre DEF StructureKnown
<1>3. Len(sizes) \in Nat
  BY <1>1, LenProperties
<1>4. Len(stack) \in Nat
  <2>1. nodes \in Seq(Node) /\ stack \in Rows(Len(nodes))
    BY TreeSays
  <2>2. Len(nodes) \in Nat
    BY <2>1, LenProperties
  <2> QED
    BY <2>1, <2>2, RowIs
<1> QED
  BY <1>1, <1>2, <1>3, <1>4 DEF Leaves

(* Steps that read no page keep what is known of the leaves. *)
LEMMA SameLeaves ==
  ASSUME pie' = pie, sizes' = sizes, end' = end, LeavesInv, Merging
  PROVE  Leaves' = Leaves /\ LeavesInv'
<1>1. C' = C
  BY SamePie DEF C
<1>2. Leaves' = Leaves
  BY <1>1 DEF Leaves
<1>3. Fact!Ids' = Fact!Ids
  BY SamePie
<1>4. LeavesInv'
  BY <1>1, <1>3 DEF LeavesInv, Merging, Leaves, PagesFit, Bound
<1> QED
  BY <1>2, <1>4

(* A pair whose leaves are there is begun; otherwise there are fewer pages than leaves. *)
LEMMA VerdictsNextPair ==
  ASSUME FactInv, Verdicts, Fact!NextPair
  PROVE  Verdicts'
<1> DEFINE pages == Fact!Structure[2 * pair + 1]
<1>1. /\ step = "pair" /\ pair < Fact!Pairs /\ pair' = pair + 1 /\ due' = pages
      /\ UNCHANGED <<pie, sizes, stack, end>>
      /\ step' = IF pages <= Len(sizes) THEN "leaves" ELSE "failed"
  BY DEF Fact!NextPair, Fact!Ensure
<1>2. Merging
  BY <1>1 DEF Merging
<1>3. /\ pie \in Pies /\ StructureKnown /\ C \in Nat /\ Fact!Pairs \in 1 .. 5
      /\ Len(sizes) \in Nat /\ Leaves \in Int /\ Len(stack) \in Nat
      /\ pair \in 0 .. Fact!Pairs /\ pair \in Nat
  BY <1>1, <1>2, MergingKnows
<1>4. pair \in 0 .. Fact!Pairs - 1
  BY <1>1, <1>3
<1>5. /\ Fact!Pushed(pair) \in Int /\ pages \in Nat
      /\ Fact!Pushed(pair + 1) = Fact!Pushed(pair) + pages
  BY <1>3, <1>4, PushedSplits
<1>6. Fact!Merged(pair) \in Int
  BY <1>3, <1>4, MergedSplits
<1>7. /\ Leaves = Fact!Pushed(pair) /\ Len(stack) = Fact!Pushed(pair) - Fact!Merged(pair)
      /\ \A k \in 1 .. pair : Enough(k)
  BY <1>1 DEF Verdicts, StackInv
<1>8. Leaves = C + 1 - Len(sizes)
  BY DEF Leaves
<1> HIDE DEF pages
<1>9. ASSUME pages <= Len(sizes) PROVE Verdicts'
  <2>1. step' = "leaves"
    BY <1>1, <1>9
  <2>2. Leaves' = Leaves /\ LeavesInv'
    BY <1>1, <1>2, SameLeaves DEF Verdicts
  <2>3. StackInv'
    <3> DEFINE k == pair + 1
    <3>3. \A j : Enough(j)' <=> Enough(j)
      BY <1>1, SameNumbers
    <3>4. pair' = k /\ k - 1 = pair
      BY <1>1, <1>3
    <3>5. Leaves' + due' = Fact!Pushed(k)
      BY <1>1, <1>5, <1>7, <2>2
    <3>6. Len(stack') + due' = Fact!Pushed(k) - Fact!Merged(k - 1)
      BY <1>1, <1>3, <1>5, <1>6, <1>7, <3>4
    <3>7. \A j \in 1 .. k - 1 : Enough(j)
      BY <1>7, <3>4
    <3> HIDE DEF k
    <3>8. Fact!Pushed(pair)' = Fact!Pushed(k) /\ Fact!Merged(pair - 1)' = Fact!Merged(k - 1)
      <4>1. Fact!Structure' = Fact!Structure
        BY <1>1, SamePie
      <4> QED
        BY <3>4, <4>1 DEF Fact!Pushed, Fact!Merged
    <3>9. /\ Leaves' + due' = Fact!Pushed(pair)'
          /\ Len(stack') + due' = Fact!Pushed(pair)' - Fact!Merged(pair - 1)'
          /\ \A j \in 1 .. pair' - 1 : Enough(j)'
      BY <3>3, <3>4, <3>5, <3>6, <3>7, <3>8
    <3> QED
      BY <2>1, <3>9 DEF StackInv
  <2>4. VerdictInv'
    BY <1>1, <2>1, MayGoOn
  <2> QED
    BY <2>1, <2>2, <2>3, <2>4 DEF Verdicts, PagesInv
<1>10. ASSUME ~(pages <= Len(sizes)) PROVE Verdicts'
  <2>1. Fact!Pushed(pair + 1) > C + 1
    BY <1>3, <1>5, <1>7, <1>8, <1>10
  <2>2. pair + 1 \in 1 .. Fact!Pairs
    BY <1>3, <1>4
  <2>3. Fact!Pushed(pair + 1) <= Fact!Pushed(Fact!Pairs)
    BY <1>3, <2>2, PushedGrows
  <2>4. ASSUME Valid PROVE FALSE
    <3>1. Fact!Pushed(Fact!Pairs) = C + 1
      BY <2>4, CardinalityIs DEF Valid, Fact!ValidTopology, C
    <3>2. Fact!Pushed(pair + 1) \in Int
      BY <1>5
    <3> QED
      BY <1>3, <2>1, <2>3, <3>1, <3>2
  <2> QED
    BY <1>1, <1>10, <2>4, MayFail
<1> QED
  BY <1>9, <1>10

(* The end of what the leaves hold moves by one page. *)
LEMMA VerdictsPushLeaf ==
  ASSUME FactInv, Verdicts, Fact!PushLeaf
  PROVE  Verdicts'
<1> DEFINE h == Head(sizes)
           L == Len(sizes)
<1>1. /\ step = "leaves" /\ step' = "leaves" /\ due > 0 /\ due' = due - 1
      /\ UNCHANGED <<pie, pair>>
      /\ stack' = Append(stack, Len(nodes) + 1)
      /\ sizes' = Tail(sizes) /\ end' = end + h
  BY DEF Fact!PushLeaf, Fact!Push
<1>2. Merging
  BY <1>1 DEF Merging
<1>3. /\ pie \in Pies /\ C \in Nat /\ sizes \in Seq(Nat) /\ L \in Nat /\ Leaves \in Int
      /\ Len(stack) \in Nat /\ due \in Nat
  BY <1>2, MergingKnows
<1>4. due <= L /\ L > 0 /\ sizes # <<>>
  <2>1. due <= L
    BY <1>1 DEF FactInv, FactType
  <2> QED
    BY <1>1, <1>3, <2>1
<1>5. /\ Len(sizes') = L - 1 /\ h = sizes[1]
      /\ \A i \in 1 .. L - 1 : sizes'[i] = sizes[i + 1]
  BY <1>1, <1>3, <1>4, HeadTailProperties
<1>6. /\ PagesFit /\ Leaves >= 0 /\ end = Bound(Leaves)
      /\ \A i \in 1 .. L : sizes[i] = Bound(Leaves + i) - Bound(Leaves + i - 1)
  BY <1>1 DEF Verdicts, LeavesInv
<1>7. C' = C /\ Fact!Ids' = Fact!Ids
  BY <1>1, SamePie DEF C
<1>8. Leaves = C + 1 - L /\ Leaves' = Leaves + 1
  BY <1>3, <1>5, <1>7 DEF Leaves
<1>9. Len(stack') = Len(stack) + 1
  <2>1. nodes \in Seq(Node) /\ stack \in Rows(Len(nodes))
    BY TreeSays
  <2>2. Len(nodes) \in Nat
    BY <2>1, LenProperties
  <2> QED
    BY <1>1, <2>1, <2>2, PushOn
<1> HIDE DEF h, L
<1>10. LeavesInv'
  <2> DEFINE f == Leaves + 1
  <2>1. \A k \in Int : Bound(k) \in Nat
    BY <1>3, BoundsAre
  <2>2. end + h = Bound(f)
    <3>1. h = Bound(f) - Bound(Leaves)
      <4>1. 1 \in 1 .. L /\ Leaves + 1 - 1 = Leaves
        BY <1>3, <1>4
      <4>2. sizes[1] = Bound(Leaves + 1) - Bound(Leaves + 1 - 1)
        BY <1>6, <4>1
      <4> QED
        BY <1>5, <4>1, <4>2
    <3>2. Bound(f) \in Nat /\ Bound(Leaves) \in Nat
      BY <1>3, <2>1, SMTT(30)
    <3> QED
      BY <1>6, <3>1, <3>2
  <2>3. \A i \in 1 .. L - 1 : sizes'[i] = Bound(f + i) - Bound(f + i - 1)
    <3>1. ASSUME NEW i \in 1 .. L - 1
          PROVE  sizes'[i] = Bound(f + i) - Bound(f + i - 1)
      <4>1. /\ i + 1 \in 1 .. L /\ Leaves + (i + 1) = f + i
            /\ Leaves + (i + 1) - 1 = f + i - 1
        BY <1>3
      <4>2. sizes[i + 1] = Bound(Leaves + (i + 1)) - Bound(Leaves + (i + 1) - 1)
        BY <1>6, <4>1
      <4> QED
        BY <1>5, <4>1, <4>2
    <3> QED
      BY <3>1
  <2>4. f >= 0 /\ Leaves' = f
    BY <1>3, <1>6, <1>8
  <2> HIDE DEF f
  <2>5. PagesFit'
    BY <1>1, <1>6, SameNumbers
  <2>6. end' = Bound(f) /\ Len(sizes') = L - 1
    BY <1>1, <1>5, <2>2
  <2>7. end' = Bound(Leaves)' /\ Leaves' >= 0
    BY <1>1, <1>7, <2>4, <2>6 DEF Bound
  <2>8. \A i \in 1 .. Len(sizes') : sizes'[i] = Bound(Leaves + i)' - Bound(Leaves + i - 1)'
    BY <1>1, <1>7, <2>3, <2>4, <2>6 DEF Bound
  <2> QED
    BY <2>5, <2>7, <2>8 DEF LeavesInv
<1>11. StackInv'
  <2>1. /\ Leaves + due = Fact!Pushed(pair)
        /\ Len(stack) + due = Fact!Pushed(pair) - Fact!Merged(pair - 1)
        /\ \A k \in 1 .. pair - 1 : Enough(k)
    BY <1>1 DEF Verdicts, StackInv
  <2>2. Fact!Structure' = Fact!Structure
    BY <1>1, SamePie
  <2>3. Fact!Pushed(pair)' = Fact!Pushed(pair) /\ Fact!Merged(pair - 1)' = Fact!Merged(pair - 1)
    BY <1>1, <2>2 DEF Fact!Pushed, Fact!Merged
  <2>4. \A k : Enough(k)' <=> Enough(k)
    BY <1>1, SameNumbers
  <2>5. Leaves' + due' = Leaves + due /\ Len(stack') + due' = Len(stack) + due
    BY <1>1, <1>3, <1>8, <1>9
  <2> QED
    BY <1>1, <2>1, <2>3, <2>4, <2>5 DEF StackInv
<1>12. VerdictInv'
  BY <1>1, MayGoOn
<1> QED
  BY <1>1, <1>10, <1>11, <1>12 DEF Verdicts, PagesInv

(* The pair of a state that builds the tree. *)
LEMMA PairKnows ==
  ASSUME StructureKnown, pair \in 1 .. Fact!Pairs
  PROVE  /\ Fact!NNodes = Fact!Structure[2 * pair] /\ Fact!NNodes \in Nat
         /\ Fact!Pushed(pair) \in Int /\ Fact!Merged(pair - 1) \in Int
         /\ Fact!Merged(pair) \in Int
         /\ Fact!Merged(pair) = Fact!Merged(pair - 1)
                                   + (IF Fact!NNodes = 0 THEN 0 ELSE Fact!NNodes - 1)
<1>1. Fact!Pairs \in 1 .. 5
  BY PairsAre DEF StructureKnown
<1> DEFINE k == pair - 1
<1>2. k \in 0 .. Fact!Pairs - 1 /\ k + 1 = pair /\ 2 * (k + 1) = 2 * pair
  BY <1>1
<1> HIDE DEF k
<1>3. /\ Fact!Merged(k) \in Int /\ Fact!Structure[2 * (k + 1)] \in Nat
      /\ Fact!Merged(k + 1) = Fact!Merged(k)
             + (IF Fact!Structure[2 * (k + 1)] = 0 THEN 0
                ELSE Fact!Structure[2 * (k + 1)] - 1)
  BY <1>2, MergedSplits
<1>4. /\ Fact!Pushed(k) \in Int /\ Fact!Structure[2 * k + 1] \in Nat
      /\ Fact!Pushed(k + 1) = Fact!Pushed(k) + Fact!Structure[2 * k + 1]
  BY <1>2, PushedSplits
<1>5. Fact!NNodes = Fact!Structure[2 * (k + 1)]
  BY <1>2 DEF Fact!NNodes
<1>6. Fact!Pushed(pair) = Fact!Pushed(k + 1) /\ Fact!Merged(pair) = Fact!Merged(k + 1)
  BY <1>2
<1>7. Fact!Pushed(k + 1) \in Int /\ Fact!Merged(k + 1) \in Int
  BY <1>3, <1>4
<1> QED
  BY <1>2, <1>3, <1>5, <1>6, <1>7 DEF k

(* What StackInv says of a state is about its pair and its PIE. *)
LEMMA SamePair ==
  ASSUME pie' = pie, pair' = pair
  PROVE  /\ Fact!Pushed(pair)' = Fact!Pushed(pair) /\ Fact!Merged(pair)' = Fact!Merged(pair)
         /\ Fact!Merged(pair - 1)' = Fact!Merged(pair - 1)
<1>1. Fact!Structure' = Fact!Structure
  BY SamePie
<1> QED
  BY <1>1 DEF Fact!Pushed, Fact!Merged

(* The leaves of a pair are there: now its parent is due, if there are nodes enough. *)
LEMMA VerdictsLeavesPushed ==
  ASSUME FactInv, Verdicts, Fact!LeavesPushed
  PROVE  Verdicts'
<1> DEFINE n == Fact!NNodes
<1>1. /\ step = "leaves" /\ due = 0
      /\ UNCHANGED <<pie, sizes, pair, due, stack, end>>
      /\ step' = IF n <= Len(stack) THEN (IF n > 0 THEN "parent" ELSE "pair") ELSE "failed"
  BY DEF Fact!LeavesPushed, Fact!Ensure
<1>2. Merging
  BY <1>1 DEF Merging
<1>3. /\ pie \in Pies /\ StructureKnown /\ Len(stack) \in Nat /\ Leaves \in Int
      /\ pair \in 1 .. Fact!Pairs /\ pair \in Nat
  BY <1>1, <1>2, MergingKnows
<1>4. /\ n = Fact!Structure[2 * pair] /\ n \in Nat
      /\ Fact!Pushed(pair) \in Int /\ Fact!Merged(pair - 1) \in Int /\ Fact!Merged(pair) \in Int
      /\ Fact!Merged(pair) = Fact!Merged(pair - 1) + (IF n = 0 THEN 0 ELSE n - 1)
  BY <1>3, PairKnows
<1>5. /\ Leaves = Fact!Pushed(pair)
      /\ Len(stack) = Fact!Pushed(pair) - Fact!Merged(pair - 1)
      /\ \A k \in 1 .. pair - 1 : Enough(k)
  <2>1. /\ Leaves + due = Fact!Pushed(pair)
        /\ Len(stack) + due = Fact!Pushed(pair) - Fact!Merged(pair - 1)
        /\ \A k \in 1 .. pair - 1 : Enough(k)
    BY <1>1 DEF Verdicts, StackInv
  <2> QED
    BY <1>1, <1>3, <1>4, <2>1
<1>6. Enough(pair) <=> n <= Len(stack)
  BY <1>4, <1>5 DEF Enough
<1> HIDE DEF n
<1>7. ASSUME n <= Len(stack) PROVE Verdicts'
  <2>1. step' = IF n > 0 THEN "parent" ELSE "pair"
    BY <1>1, <1>7
  <2>2. Leaves' = Leaves /\ LeavesInv'
    BY <1>1, <1>2, SameLeaves DEF Verdicts
  <2>3. \A k \in 1 .. pair : Enough(k)
    <3>1. \A k \in 1 .. pair : k \in 1 .. pair - 1 \/ k = pair
      BY <1>3
    <3> QED
      BY <1>5, <1>6, <1>7, <3>1
  <2>4. /\ Fact!Pushed(pair)' = Fact!Pushed(pair) /\ Fact!Merged(pair)' = Fact!Merged(pair)
        /\ Fact!Merged(pair - 1)' = Fact!Merged(pair - 1)
    BY <1>1, SamePair
  <2>5. \A k : Enough(k)' <=> Enough(k)
    BY <1>1, SameNumbers
  <2>6. \A k \in 1 .. pair' : Enough(k)'
    BY <1>1, <2>3, <2>5
  <2>7. StackInv'
    <3>1. ASSUME n > 0 PROVE StackInv'
      <4>1. step' = "parent"
        BY <2>1, <3>1
      <4> QED
        BY <1>1, <1>5, <2>2, <2>4, <2>6, <4>1 DEF StackInv
    <3>2. ASSUME ~(n > 0) PROVE StackInv'
      <4>1. step' = "pair" /\ Len(stack) = Fact!Pushed(pair) - Fact!Merged(pair)
        BY <1>4, <1>5, <2>1, <3>2
      <4> QED
        BY <1>1, <1>5, <2>2, <2>4, <2>6, <4>1 DEF StackInv
    <3> QED
      BY <3>1, <3>2
  <2>8. step' \in {"parent", "pair"}
    BY <2>1
  <2>9. VerdictInv'
    BY <1>1, <2>8, MayGoOn
  <2> QED
    BY <2>2, <2>7, <2>8, <2>9 DEF Verdicts, PagesInv
<1>8. ASSUME ~(n <= Len(stack)) PROVE Verdicts'
  <2>1. ASSUME Valid PROVE FALSE
    <3>1. Enough(pair)
      BY <1>3, <2>1 DEF Valid, Fact!ValidTopology, Enough
    <3> QED
      BY <1>6, <1>8, <3>1
  <2> QED
    BY <1>1, <1>8, <2>1, MayFail
<1> QED
  BY <1>7, <1>8

(* The parent takes the place of its children. *)
LEMMA VerdictsPushParent ==
  ASSUME FactInv, Verdicts, Fact!PushParent
  PROVE  Verdicts'
<1> DEFINE n == Fact!NNodes
           L == Len(stack)
           keep == L - n
<1>1. /\ step = "parent" /\ step' = "pair"
      /\ UNCHANGED <<pie, sizes, pair, due, end>>
      /\ stack' = Append(SubSeq(stack, 1, keep), Len(nodes) + 1)
  BY DEF Fact!PushParent, Fact!Push
<1>2. Merging
  BY <1>1 DEF Merging
<1>3. /\ pie \in Pies /\ StructureKnown /\ L \in Nat /\ Leaves \in Int
      /\ pair \in 1 .. Fact!Pairs /\ pair \in Nat
  BY <1>1, <1>2, MergingKnows
<1>4. /\ n = Fact!Structure[2 * pair] /\ n \in Nat
      /\ Fact!Pushed(pair) \in Int /\ Fact!Merged(pair - 1) \in Int /\ Fact!Merged(pair) \in Int
      /\ Fact!Merged(pair) = Fact!Merged(pair - 1) + (IF n = 0 THEN 0 ELSE n - 1)
  BY <1>3, PairKnows
<1>5. /\ Leaves = Fact!Pushed(pair)
      /\ L = Fact!Pushed(pair) - Fact!Merged(pair - 1)
      /\ \A k \in 1 .. pair : Enough(k)
  BY <1>1 DEF Verdicts, StackInv
<1>6. 0 < n /\ n <= L
  BY <1>1 DEF FactInv, FactType
<1>7. keep \in Nat /\ keep < L
  BY <1>3, <1>4, <1>6
<1> HIDE DEF n, L, keep
<1>8. Len(stack') = keep + 1
  <2>1. nodes \in Seq(Node) /\ stack \in Rows(Len(nodes))
    BY TreeSays
  <2>2. Len(nodes) \in Nat
    BY <2>1, LenProperties
  <2> DEFINE rest == SubSeq(stack, 1, keep)
  <2>3. rest \in Rows(Len(nodes)) /\ Begins(rest, stack, keep)
    BY <1>7, <2>1, <2>2, RowCut DEF L
  <2>4. stack' = Append(rest, Len(nodes) + 1)
    BY <1>1
  <2> HIDE DEF rest
  <2>5. Len(rest) = keep
    BY <2>3 DEF Begins
  <2>6. Len(Append(rest, Len(nodes) + 1)) = Len(rest) + 1
    BY <2>2, <2>3, PushOn
  <2> QED
    BY <2>4, <2>5, <2>6
<1>9. Len(stack') = Fact!Pushed(pair) - Fact!Merged(pair)
  <2> DEFINE p == Fact!Pushed(pair)
             m == Fact!Merged(pair - 1)
  <2>1. keep = L - n
    BY DEF keep
  <2>2. p \in Int /\ m \in Int /\ L = p - m /\ Fact!Merged(pair) = m + (n - 1)
    BY <1>4, <1>5, <1>6
  <2> HIDE DEF p, m
  <2>3. keep + 1 = p - (m + (n - 1))
    BY <1>3, <1>4, <2>1, <2>2
  <2> QED
    BY <1>8, <2>2, <2>3 DEF p
<1>10. Leaves' = Leaves /\ LeavesInv'
  BY <1>1, <1>2, SameLeaves DEF Verdicts
<1>11. Fact!Pushed(pair)' = Fact!Pushed(pair) /\ Fact!Merged(pair)' = Fact!Merged(pair)
  BY <1>1, SamePair
<1>12. \A k \in 1 .. pair' : Enough(k)'
  <2>1. \A k : Enough(k)' <=> Enough(k)
    BY <1>1, SameNumbers
  <2> QED
    BY <1>1, <1>5, <2>1
<1>13. StackInv'
  BY <1>1, <1>5, <1>9, <1>10, <1>11, <1>12 DEF StackInv
<1>14. VerdictInv'
  BY <1>1, MayGoOn
<1> QED
  BY <1>1, <1>10, <1>13, <1>14 DEF Verdicts, PagesInv

(* The root is accepted exactly if the PIE is valid. *)
LEMMA VerdictsRoot ==
  ASSUME FactInv, Verdicts, Fact!Root
  PROVE  Verdicts'
<1> DEFINE ok == /\ Len(stack) = 1 /\ sizes = <<>> /\ end = pie.size
                 /\ nodes[stack[1]].end = pie.size
<1>1. /\ step = "pair" /\ pair = Fact!Pairs /\ pie' = pie
      /\ step' = IF ok THEN "done" ELSE "failed"
  BY DEF Fact!Root, Fact!Ensure
<1>2. Merging
  BY <1>1 DEF Merging
<1>3. /\ pie \in Pies /\ StructureKnown /\ C \in Nat /\ Fact!Pairs \in 1 .. 5
      /\ sizes \in Seq(Nat) /\ Len(sizes) \in Nat /\ Leaves \in Int /\ Len(stack) \in Nat
  BY <1>1, <1>2, MergingKnows
<1>4. /\ Leaves = Fact!Pushed(Fact!Pairs)
      /\ Len(stack) = Fact!Pushed(Fact!Pairs) - Fact!Merged(Fact!Pairs)
      /\ \A k \in 1 .. Fact!Pairs : Enough(k)
  BY <1>1 DEF Verdicts, StackInv
<1>5. PagesFit /\ end = Bound(Leaves)
  BY <1>1 DEF Verdicts, LeavesInv
<1>6. Leaves = C + 1 - Len(sizes)
  BY DEF Leaves
<1>7. sizes = <<>> <=> Len(sizes) = 0
  BY <1>3, EmptySeq
<1>8. pie.memory = "whole" /\ (pie.topology = Fact!NoTopology => Fact!Ids = {})
  BY <1>1 DEF Verdicts, VerdictInv
<1>9. Fact!Cardinality(Fact!Ids) = C
  BY CardinalityIs DEF C
<1>10. ASSUME ok PROVE Verdicts'
  <2>1. Fact!ValidPages
    BY <1>3, <1>5, ValidPagesFit
  <2>2. Fact!Pushed(Fact!Pairs) = C + 1
    BY <1>3, <1>4, <1>6, <1>7, <1>10
  <2>3. Fact!ValidTopology
    BY <1>3, <1>4, <1>8, <1>9, <1>10, <2>2
       DEF Fact!ValidTopology, StructureKnown, Enough
  <2>4. Valid
    BY <1>8, <2>1, <2>3 DEF Valid
  <2>5. Valid' /\ step' = "done" /\ pie'.memory = "whole"
    BY <1>1, <1>8, <1>10, <2>4, SameVerdict
  <2>6. pie'.topology = Fact!NoTopology => Fact!Ids' = {}
    BY <1>1, <1>8, SamePie
  <2> QED
    BY <2>5, <2>6 DEF Verdicts, PagesInv, LeavesInv, StackInv, VerdictInv
<1>11. ASSUME ~ok PROVE Verdicts'
  <2>1. ASSUME Valid PROVE FALSE
    <3>1. Fact!Pushed(Fact!Pairs) = C + 1
          /\ Fact!Pushed(Fact!Pairs) - Fact!Merged(Fact!Pairs) = 1
      BY <1>9, <2>1 DEF Valid, Fact!ValidTopology
    <3>2. Len(stack) = 1 /\ Leaves = C + 1 /\ sizes = <<>>
      <4> DEFINE p == Fact!Pushed(Fact!Pairs)
                 m == Fact!Merged(Fact!Pairs)
      <4>1. p = C + 1 /\ p - m = 1 /\ Leaves = p /\ Len(stack) = p - m
        BY <1>4, <3>1
      <4> HIDE DEF p, m
      <4>2. Leaves = C + 1 /\ Len(stack) = 1
        BY <4>1
      <4>3. Len(sizes) = 0
        BY <1>3, <1>6, <4>2
      <4> QED
        BY <1>7, <4>2, <4>3
    <3>3. Bound(C + 1) = pie.size
      <4>1. C + 1 # 0 /\ C + 1 \notin 1 .. C
        BY <1>3
      <4> QED
        BY <1>5, <4>1 DEF Bound, PagesFit
    <3>4. end = pie.size
      BY <1>5, <3>2, <3>3
    <3>5. nodes[stack[1]].end = end
      <4>1. Divides(nodes, stack, end)
        BY DEF FactInv, TreeInv, Tree
      <4>2. stack # <<>>
        BY <3>2
      <4> QED
        BY <3>2, <4>1, <4>2 DEF Divides
    <3> QED
      BY <1>11, <3>2, <3>4, <3>5
  <2> QED
    BY <1>1, <1>11, <2>1, MayFail
<1> QED
  BY <1>10, <1>11

(* Nothing changes while the data are published. *)
LEMMA VerdictsSame ==
  ASSUME Verdicts, UNCHANGED factVars
  PROVE  Verdicts'
<1>1. UNCHANGED <<pie, step, sizes, pageNo, nextStart, pair, due, stack, end>>
  BY DEF factVars
<1>2. Fact!Ids' = Fact!Ids
  BY <1>1, SamePie
<1>3. C' = C
  BY <1>2 DEF C
<1>4. PagesInv'
  BY <1>1, <1>2, <1>3 DEF Verdicts, PagesInv
<1>5. LeavesInv'
  BY <1>1, <1>2, <1>3 DEF Verdicts, LeavesInv, Leaves, PagesFit, Bound
<1>6. StackInv'
  <2>1. /\ Fact!Pushed(pair)' = Fact!Pushed(pair) /\ Fact!Merged(pair)' = Fact!Merged(pair)
        /\ Fact!Merged(pair - 1)' = Fact!Merged(pair - 1)
    BY <1>1, SamePair
  <2>2. \A k : Enough(k)' <=> Enough(k)
    BY <1>1, SameNumbers
  <2>3. Leaves' = Leaves
    BY <1>1, <1>3 DEF Leaves
  <2> QED
    BY <1>1, <2>1, <2>2, <2>3 DEF Verdicts, StackInv
<1>7. VerdictInv'
  <2>1. Valid' <=> Valid
    BY <1>1, SameVerdict
  <2> QED
    BY <1>1, <1>2, <2>1 DEF Verdicts, VerdictInv
<1> QED
  BY <1>4, <1>5, <1>6, <1>7 DEF Verdicts

(* The code computes a fact for exactly the PIEs whose pages partition the output and whose *)
(* topology is the post order of one tree over all of them, whatever else the PIE holds.    *)
THEOREM VerdictIsRight == Spec => []RightVerdict
<1>1. Init => FactInv /\ Verdicts
  BY FactTypeInit, TreeInit, VerdictsInit DEF FactInv
<1>2. FactInv /\ Verdicts /\ [Next]_<<factVars, blobVars>> => Verdicts'
  <2> SUFFICES ASSUME FactInv, Verdicts, [Next]_<<factVars, blobVars>> PROVE Verdicts'
    OBVIOUS
  <2>1. FactType
    BY DEF FactInv
  <2>2. ASSUME Fact!Next PROVE Verdicts'
    BY <2>1, <2>2, VerdictsReadOutput, VerdictsReadTopology, VerdictsReadPage, VerdictsPagesRead,
       VerdictsNextPair, VerdictsPushLeaf, VerdictsLeavesPushed, VerdictsPushParent, VerdictsRoot
       DEF Fact!Next
  <2>3. ASSUME UNCHANGED factVars PROVE Verdicts'
    BY <2>3, VerdictsSame
  <2> QED
    BY <2>2, <2>3 DEF Next, Compute, Publish
<1>3. Verdicts => RightVerdict
  BY DEF Verdicts, VerdictInv, Valid, RightVerdict, Fact!RightVerdict
<1> QED
  BY <1>1, <1>2, <1>3, FactInvariant, PTL DEF Spec
===============================================================================
