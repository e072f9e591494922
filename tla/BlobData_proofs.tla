--------------------------- MODULE BlobData_proofs ----------------------------
(***************************************************************************)
(* Proofs about what BlockData publishes, for any blocks, any widths and   *)
(* any field of the polynomial.                                            *)
(*                                                                         *)
(* The calldata (CalldataInv): each word of the call is where Sent says.   *)
(*                                                                         *)
(* The blob (BlobInv): the fields of a DA word can be told apart           *)
(* (FieldsApart), the words can be interpolated (TransformInverts), and    *)
(* contract after contract is in them (Listed), so that a reader has the   *)
(* state after the block (ReadsAll).                                       *)
(***************************************************************************)
EXTENDS BlockData_proofs

-------------------------------------------------------------------------------
(* The calldata *)

\* What the calldata are, word by word.
Sent(data, output, proof) ==
    LET n == Len(output) IN
    /\ data \in Seq(Nat) /\ Len(data) = n + 8
    /\ data[1] = 64 /\ data[2] = 96 + 32 * n /\ data[3] = n
    /\ \A i \in 1 .. n : data[i + 3] = output[i]
    /\ data[n + 4] = 1 /\ data[n + 5] = 32 /\ data[n + 6] = 48
    /\ data[n + 7] = proof[1] /\ data[n + 8] = proof[2]

CalldataInv ==
    /\ block \in Blocks
    /\ stage = "done" => Sent(calldata, block.output, block.proof)

(* What the composition assumes, for the block of a state. *)
LEMMA BlockIs ==
  ASSUME block \in Blocks
  PROVE  block.output \in Seq(Nat) /\ block.proof \in Nat \X Nat
<1>1. Blob!BlockAssumption(block)
  BY BlockDataAssumption, Zenon DEF Blob!BlobDataAssumption
<1> QED
  BY <1>1 DEF Blob!BlockAssumption

\* st is s, of length m, and behind it t, of length k.
Joins(st, s, m, t, k) ==
    /\ st \in Seq(Nat) /\ Len(st) = m + k
    /\ \A i \in 1 .. m : st[i] = s[i]
    /\ \A i \in 1 .. k : st[i + m] = t[i]

(* Two sequences, one behind the other. *)
LEMMA Joined ==
  ASSUME NEW s \in Seq(Nat), NEW t \in Seq(Nat), NEW m, m = Len(s), NEW k, k = Len(t)
  PROVE  Joins(s \o t, s, m, t, k)
<1>1. m \in Nat /\ k \in Nat
  BY LenProperties
<1>2. /\ s \o t \in Seq(Nat) /\ Len(s \o t) = m + k
      /\ \A i \in 1 .. m + k : (s \o t)[i] = IF i <= m THEN s[i] ELSE t[i - m]
  BY ConcatProperties
<1> DEFINE st == s \o t
<1> HIDE DEF st
<1>3. \A i \in 1 .. m + k : st[i] = IF i <= m THEN s[i] ELSE t[i - m]
  BY <1>2 DEF st
<1>4. ASSUME NEW i \in 1 .. m PROVE st[i] = s[i]
  <2>1. i \in 1 .. m + k /\ i <= m
    BY <1>1
  <2> QED
    BY <1>3, <2>1
<1>5. ASSUME NEW i \in 1 .. k PROVE st[i + m] = t[i]
  <2>1. i + m \in 1 .. m + k /\ ~(i + m <= m) /\ i + m - m = i
    BY <1>1
  <2> QED
    BY <1>3, <2>1
<1> QED
  BY <1>2, <1>4, <1>5 DEF st, Joins

(* The words that Settle puts together are where Sent says. *)
LEMMA WordsSent ==
  ASSUME NEW output \in Seq(Nat), NEW p \in Nat, NEW q \in Nat, NEW proof, proof = <<p, q>>
  PROVE  Sent(<<64, 3 * 32 + 32 * Len(output), Len(output)>> \o output
                 \o <<1, 32, 48, p, q>>, output, proof)
<1> DEFINE n == Len(output)
           a == 3 * 32 + 32 * n
           head == <<64, a, n>>
           tail == <<1, 32, 48, p, q>>
           front == head \o output
           data == front \o tail
<1>1. n \in Nat
  BY LenProperties
<1>2. a = 96 + 32 * n /\ a \in Nat
  BY <1>1
<1> HIDE DEF n, a
<1>3. /\ head \in Seq(Nat) /\ Len(head) = 3 /\ head[1] = 64 /\ head[2] = a /\ head[3] = n
  BY <1>1, <1>2
<1>4. /\ tail \in Seq(Nat) /\ Len(tail) = 5 /\ tail[1] = 1 /\ tail[2] = 32 /\ tail[3] = 48
      /\ tail[4] = p /\ tail[5] = q
  OBVIOUS
<1> HIDE DEF head, tail
<1>5. /\ front \in Seq(Nat) /\ Len(front) = 3 + n
      /\ \A i \in 1 .. 3 : front[i] = head[i]
      /\ \A i \in 1 .. n : front[i + 3] = output[i]
  <2>1. Joins(front, head, 3, output, n)
    BY <1>3, Joined DEF n
  <2> QED
    BY <2>1 DEF Joins
<1> DEFINE m == n + 3
<1>14. m \in Nat /\ Len(front) = m
  BY <1>1, <1>5
<1> HIDE DEF front, m
<1>6. /\ data \in Seq(Nat) /\ Len(data) = m + 5
      /\ \A i \in 1 .. m : data[i] = front[i]
      /\ \A i \in 1 .. 5 : data[i + m] = tail[i]
  <2>1. Joins(data, front, m, tail, 5)
    BY <1>4, <1>5, <1>14, Joined
  <2> QED
    BY <2>1 DEF Joins
<1> HIDE DEF data
<1>13. m = n + 3 /\ Len(data) = n + 8
  BY <1>1, <1>6 DEF m
<1>7. data[1] = 64 /\ data[2] = a /\ data[3] = n
  BY <1>1, <1>3, <1>5, <1>6, <1>13
<1>8. \A i \in 1 .. n : data[i + 3] = output[i]
  BY <1>1, <1>5, <1>6, <1>13
<1>10. /\ 1 + m = n + 4 /\ 2 + m = n + 5 /\ 3 + m = n + 6 /\ 4 + m = n + 7 /\ 5 + m = n + 8
  BY <1>1, <1>13
<1>9. /\ data[n + 4] = tail[1] /\ data[n + 5] = tail[2] /\ data[n + 6] = tail[3]
      /\ data[n + 7] = tail[4] /\ data[n + 8] = tail[5]
  <2>1. 1 \in 1 .. 5 /\ 2 \in 1 .. 5 /\ 3 \in 1 .. 5 /\ 4 \in 1 .. 5 /\ 5 \in 1 .. 5
    OBVIOUS
  <2>2. /\ data[1 + m] = tail[1] /\ data[2 + m] = tail[2] /\ data[3 + m] = tail[3]
        /\ data[4 + m] = tail[4] /\ data[5 + m] = tail[5]
    BY <1>6, <2>1
  <2> QED
    BY <1>10, <2>2
<1>11. proof[1] = p /\ proof[2] = q
  OBVIOUS
<1>12. Sent(data, output, proof)
  <2>1. data[n + 4] = 1 /\ data[n + 5] = 32 /\ data[n + 6] = 48
    BY <1>4, <1>9
  <2>2. data[n + 7] = proof[1] /\ data[n + 8] = proof[2]
    BY <1>4, <1>9, <1>11
  <2> QED
    BY <1>2, <1>6, <1>7, <1>8, <1>13, <2>1, <2>2 DEF Sent, n
<1> QED
  BY <1>12 DEF data, front, head, tail, a, n

(* From bytes to words. *)
LEMMA WordOf ==
  ASSUME NEW n \in Nat
  PROVE  /\ Blob!Word(64) = 3 /\ Blob!Word(32) = 2 /\ Blob!Word(96 + 32 * n) = n + 4
<1>1. (96 + 32 * n) \div 32 = n + 3
  OBVIOUS
<1>2. 64 \div 32 = 2 /\ 32 \div 32 = 1
  OBVIOUS
<1> QED
  BY <1>1, <1>2 DEF Blob!Word

(* The contract finds in them what was put there. *)
LEMMA SentDecodes ==
  ASSUME block \in Blocks, Sent(calldata, block.output, block.proof)
  PROVE  CalldataDecodes
<1> DEFINE n == Len(block.output)
           output == block.output
<1>1. output \in Seq(Nat) /\ block.proof \in Nat \X Nat /\ n \in Nat
  BY BlockIs, LenProperties
<1>2. /\ calldata \in Seq(Nat) /\ Len(calldata) = n + 8
      /\ calldata[1] = 64 /\ calldata[2] = 96 + 32 * n /\ calldata[3] = n
      /\ \A i \in 1 .. n : calldata[i + 3] = output[i]
      /\ calldata[n + 4] = 1 /\ calldata[n + 5] = 32 /\ calldata[n + 6] = 48
      /\ calldata[n + 7] = block.proof[1] /\ calldata[n + 8] = block.proof[2]
  BY DEF Sent
<1> HIDE DEF n
<1>3. Blob!Word(calldata[1]) = 3 /\ Blob!Word(calldata[2]) = n + 4
  BY <1>1, <1>2, WordOf
<1>4. n + 4 + Blob!Word(calldata[n + 4 + 1]) = n + 6
  <2>1. n + 4 + 1 = n + 5
    BY <1>1
  <2>2. Blob!Word(calldata[n + 4 + 1]) = 2
    BY <1>2, <2>1, WordOf, SMTT(30)
  <2> QED
    BY <1>1, <2>2
<1>5. SubSeq(calldata, 3 + 1, 3 + n) = output
  <2> DEFINE lines == SubSeq(calldata, 3 + 1, 3 + n)
  <2>1. /\ 4 \in Int /\ n + 3 \in Int /\ n + 3 - 4 + 1 = n
        /\ (IF 4 <= n + 3 THEN n + 3 - 4 + 1 ELSE 0) = n
        /\ \A i \in 4 .. n + 3 : i \in 1 .. n + 8
        /\ 3 + 1 = 4 /\ 3 + n = n + 3
    BY <1>1
  <2>2. \A i \in 4 .. n + 3 : calldata[i] \in Nat
    BY <1>2, <2>1, ElementOfSeq
  <2>8. lines = SubSeq(calldata, 4, n + 3)
    BY <2>1
  <2> HIDE DEF lines
  <2>3. /\ lines \in Seq(Nat) /\ Len(lines) = n
        /\ \A i \in 1 .. n : lines[i] = calldata[4 + i - 1]
    <3> DEFINE upto == n + 3
    <3>1. upto \in Int /\ \A i \in 4 .. upto : calldata[i] \in Nat
      BY <2>1, <2>2
    <3> HIDE DEF upto
    <3>2. /\ SubSeq(calldata, 4, upto) \in Seq(Nat)
          /\ Len(SubSeq(calldata, 4, upto)) = IF 4 <= upto THEN upto - 4 + 1 ELSE 0
          /\ \A i \in 1 .. upto - 4 + 1 : SubSeq(calldata, 4, upto)[i] = calldata[4 + i - 1]
      BY <2>1, <3>1, SubSeqProperties
    <3>3. lines = SubSeq(calldata, 4, upto)
      BY <2>8 DEF upto
    <3>4. upto - 4 + 1 = n /\ (IF 4 <= upto THEN upto - 4 + 1 ELSE 0) = n
      BY <1>1 DEF upto
    <3> QED
      BY <3>2, <3>3, <3>4, Zenon
  <2>5. ASSUME NEW i \in 1 .. n PROVE lines[i] = output[i]
    <3>1. 4 + i - 1 = i + 3
      OBVIOUS
    <3>2. lines[i] = calldata[i + 3]
      BY <2>3, <3>1
    <3>3. calldata[i + 3] = output[i]
      BY <1>2
    <3> QED
      BY <3>2, <3>3
  <2>6. Len(output) = n
    BY DEF n
  <2> HIDE DEF output
  <2>7. lines = output
    BY <1>1, <2>3, <2>5, <2>6, SeqEqual
  <2> QED
    BY <2>7 DEF lines, output
<1>6. <<calldata[n + 6 + 1], calldata[n + 6 + 2]>> = block.proof
  <2>1. n + 6 + 1 = n + 7 /\ n + 6 + 2 = n + 8
    BY <1>1
  <2>2. block.proof = <<block.proof[1], block.proof[2]>>
    BY <1>1
  <2> QED
    BY <1>2, <2>1, <2>2
<1>7. n + 6 + 2 = n + 8
  BY <1>1
<1> QED
  BY <1>2, <1>3, <1>4, <1>5, <1>6, <1>7 DEF CalldataDecodes, Blob!CalldataDecodes

(* The contract finds the program output and the proof where the offsets of the call say.  *)
THEOREM CallIsReadable == Spec => []CalldataDecodes
<1>1. Init => CalldataInv
  BY BlockDataAssumption DEF Init, Blob!Init, CalldataInv
<1>2. CalldataInv /\ [Next]_<<factVars, blobVars>> => CalldataInv'
  <2> SUFFICES ASSUME CalldataInv, [Next]_<<factVars, blobVars>> PROVE CalldataInv'
    OBVIOUS
  <2>1. ASSUME Blob!Settle PROVE CalldataInv'
    <3>1. block.output \in Seq(Nat) /\ block.proof \in Nat \X Nat
      BY BlockIs DEF CalldataInv
    <3>2. PICK p \in Nat, q \in Nat : block.proof = <<p, q>>
      BY <3>1
    <3>3. /\ block' = block
          /\ calldata' = <<64, 3 * 32 + 32 * Len(block.output), Len(block.output)>> \o block.output
                            \o <<1, 32, 48, block.proof[1], block.proof[2]>>
      BY <2>1 DEF Blob!Settle, Blob!ProofsAt
    <3>4. block.proof[1] = p /\ block.proof[2] = q
      BY <3>2
    <3>5. Sent(calldata', block.output, block.proof)
      BY <3>1, <3>2, <3>3, <3>4, WordsSent
    <3> QED
      BY <3>3, <3>5 DEF CalldataInv
  <2>2. ASSUME block' = block, stage' # "done" PROVE CalldataInv'
    BY <2>2 DEF CalldataInv
  <2>3. ASSUME UNCHANGED blobVars PROVE CalldataInv'
    BY <2>3 DEF CalldataInv, blobVars
  <2>4. Blob!Next => Blob!Settle \/ (block' = block /\ stage' # "done")
    BY DEF Blob!Next, Blob!Header, Blob!ContractsWritten, Blob!WriteClasses, Blob!Transform,
           Blob!WriteContract, Blob!NonceUnknown
  <2> QED
    BY <2>1, <2>2, <2>3, <2>4 DEF Next, Compute, Publish
<1>3. CalldataInv => CalldataDecodes
  <2>1. ASSUME stage # "done" PROVE CalldataDecodes
    BY <2>1 DEF CalldataDecodes, Blob!CalldataDecodes
  <2> QED
    BY <2>1, SentDecodes DEF CalldataInv
<1> QED
  BY <1>1, <1>2, <1>3, PTL DEF Spec

-------------------------------------------------------------------------------
(* Recursion over the natural numbers *)

\* g takes the step n times.
Steps(next, start, n, T, g) ==
    /\ g \in [0 .. n -> T] /\ g[0] = start
    /\ \A i \in 0 .. n - 1 : g[i + 1] = next[<<i, g[i]>>]

\* f takes it any number of times.
Iterates(next, start, T, f) ==
    f \in [Nat -> T] /\ f[0] = start /\ \A n \in Nat : f[n + 1] = next[<<n, f[n]>>]

(* A function can be defined by recursion: from any step there is one that takes it n times. *)
LEMMA Iterate ==
  ASSUME NEW T, NEW start \in T, NEW next \in [Nat \X T -> T]
  PROVE  \E f : Iterates(next, start, T, f)
<1> DEFINE P == {n \in Nat : \E g : Steps(next, start, n, T, g)}
<1>1. 0 \in P
  <2> DEFINE g == [i \in 0 .. 0 |-> start]
  <2>1. Steps(next, start, 0, T, g)
    BY DEF Steps
  <2> QED
    BY <2>1
<1>2. ASSUME NEW n \in Nat, n \in P PROVE n + 1 \in P
  <2>1. PICK g : Steps(next, start, n, T, g)
    BY <1>2
  <2> DEFINE h == [i \in 0 .. n + 1 |-> IF i = n + 1 THEN next[<<n, g[n]>>] ELSE g[i]]
  <2>2. g[n] \in T /\ next[<<n, g[n]>>] \in T
    BY <2>1 DEF Steps
  <2>3. h \in [0 .. n + 1 -> T]
    BY <2>1, <2>2 DEF Steps
  <2>4. h[0] = start
    BY <2>1 DEF Steps
  <2>5. ASSUME NEW i \in 0 .. (n + 1) - 1 PROVE h[i + 1] = next[<<i, h[i]>>]
    <3>1. CASE i = n
      <4>1. n \in 0 .. n + 1 /\ n + 1 \in 0 .. n + 1 /\ n # n + 1
        OBVIOUS
      <4>2. h[n] = g[n] /\ h[n + 1] = next[<<n, g[n]>>]
        BY <4>1
      <4> HIDE DEF h
      <4> QED
        BY <3>1, <4>2
    <3>2. CASE i # n
      <4>1. i \in 0 .. n - 1 /\ i + 1 \in 0 .. n + 1 /\ i + 1 # n + 1 /\ i # n + 1
        BY <3>2
      <4>2. h[i + 1] = g[i + 1] /\ h[i] = g[i]
        BY <4>1
      <4> QED
        BY <2>1, <4>1, <4>2 DEF Steps
    <3> QED
      BY <3>1, <3>2
  <2> HIDE DEF h
  <2>6. Steps(next, start, n + 1, T, h)
    BY <2>3, <2>4, <2>5 DEF Steps
  <2> QED
    BY <2>6
<1>3. \A n \in Nat : \E g : Steps(next, start, n, T, g)
  <2> HIDE DEF P
  <2>1. \A n \in Nat : n \in P
    BY <1>1, <1>2, NatInduct
  <2> QED
    BY <2>1 DEF P
<1> DEFINE G == [n \in Nat |-> CHOOSE g : Steps(next, start, n, T, g)]
           f == [n \in Nat |-> G[n][n]]
<1>4. \A n \in Nat : Steps(next, start, n, T, G[n])
  BY <1>3
<1> HIDE DEF G, P
<1>5. ASSUME NEW n \in Nat PROVE G[n + 1][n] = G[n][n]
  <2> DEFINE Q == {i \in Nat : i <= n => G[n + 1][i] = G[n][i]}
  <2>1. Steps(next, start, n, T, G[n]) /\ Steps(next, start, n + 1, T, G[n + 1])
    BY <1>4
  <2>2. 0 \in Q
    BY <2>1 DEF Steps
  <2>3. ASSUME NEW i \in Nat, i \in Q PROVE i + 1 \in Q
    <3> SUFFICES ASSUME i + 1 <= n PROVE G[n + 1][i + 1] = G[n][i + 1]
      OBVIOUS
    <3>1. i \in 0 .. n - 1 /\ i \in 0 .. (n + 1) - 1 /\ G[n + 1][i] = G[n][i]
      BY <2>3
    <3> QED
      BY <2>1, <3>1 DEF Steps
  <2>4. \A i \in Nat : i \in Q
    <3> HIDE DEF Q
    <3> QED
      BY <2>2, <2>3, NatInduct
  <2> QED
    BY <2>4
<1>6. \A n \in Nat : f[n] = G[n][n] /\ f[n] \in T
  BY <1>4 DEF Steps
<1>7. f \in [Nat -> T]
  BY <1>6
<1>8. f[0] = start
  BY <1>4, <1>6 DEF Steps
<1>9. ASSUME NEW n \in Nat PROVE f[n + 1] = next[<<n, f[n]>>]
  <2>1. Steps(next, start, n + 1, T, G[n + 1]) /\ n \in 0 .. (n + 1) - 1
    BY <1>4
  <2>2. G[n + 1][n + 1] = next[<<n, G[n + 1][n]>>]
    BY <2>1 DEF Steps
  <2> QED
    BY <1>5, <1>6, <2>2
<1> HIDE DEF f
<1> QED
  BY <1>7, <1>8, <1>9 DEF Iterates

-------------------------------------------------------------------------------
(* Powers of two *)

(* Two is what its definition says. *)
LEMMA TwoIs ==
  /\ Blob!Two \in [Nat -> Nat]
  /\ Blob!Two[0] = 1
  /\ \A n \in Nat : Blob!Two[n + 1] = 2 * Blob!Two[n]
<1> DEFINE next == [p \in Nat \X Nat |-> 2 * p[2]]
<1>1. next \in [Nat \X Nat -> Nat]
  OBVIOUS
<1>2. PICK f \in [Nat -> Nat] : f[0] = 1 /\ \A n \in Nat : f[n + 1] = next[<<n, f[n]>>]
  <2> DEFINE N == Nat
             one == 1
  <2>1. one \in N /\ next \in [Nat \X N -> N]
    BY <1>1
  <2> HIDE DEF next, one, N
  <2>2. \E f : Iterates(next, one, N, f)
    BY <2>1, Iterate
  <2> QED
    BY <2>2 DEF one, N, Iterates
<1>3. \A n \in Nat : f[n + 1] = 2 * f[n]
  BY <1>2
<1> DEFINE IsTwo(g) == g = [n \in Nat |-> IF n = 0 THEN 1 ELSE 2 * g[n - 1]]
<1>4. IsTwo(f)
  <2>1. ASSUME NEW n \in Nat PROVE f[n] = IF n = 0 THEN 1 ELSE 2 * f[n - 1]
    <3>1. CASE n = 0
      BY <1>2, <3>1
    <3>2. CASE n # 0
      <4>1. n - 1 \in Nat /\ n - 1 + 1 = n
        BY <3>2
      <4> QED
        BY <1>3, <3>2, <4>1
    <3> QED
      BY <3>1, <3>2
  <2> QED
    BY <1>2, <2>1
<1>5. IsTwo(Blob!Two)
  <2>1. IsTwo(CHOOSE g : IsTwo(g))
    <3> HIDE DEF IsTwo
    <3> QED
      BY <1>4
  <2> QED
    BY <2>1 DEF Blob!Two
<1>6. \A n \in Nat : Blob!Two[n] = IF n = 0 THEN 1 ELSE 2 * Blob!Two[n - 1]
  BY <1>5
<1>7. Blob!Two[0] = 1 /\ \A n \in Nat : Blob!Two[n + 1] = 2 * Blob!Two[n]
  BY <1>6
<1>8. \A n \in Nat : n \in {k \in Nat : Blob!Two[k] \in Nat}
  <2> DEFINE S == {k \in Nat : Blob!Two[k] \in Nat}
  <2>1. 0 \in S /\ \A n \in Nat : n \in S => n + 1 \in S
    BY <1>7
  <2> HIDE DEF S
  <2>2. \A n \in Nat : n \in S
    BY <2>1, NatInduct
  <2> QED
    BY <2>2 DEF S
<1> QED
  BY <1>5, <1>7, <1>8

(* Powers of two are positive, and grow. *)
LEMMA TwoGrows ==
  /\ \A n \in Nat : Blob!Two[n] >= 1 /\ n < Blob!Two[n]
  /\ \A n \in Nat : \A m \in 0 .. n : Blob!Two[m] <= Blob!Two[n]
<1> DEFINE S == {n \in Nat : Blob!Two[n] >= 1 /\ n < Blob!Two[n]
                               /\ \A m \in 0 .. n : Blob!Two[m] <= Blob!Two[n]}
<1>1. 0 \in S
  <2>1. 0 .. 0 = {0}
    OBVIOUS
  <2> QED
    BY <2>1, TwoIs
<1>2. ASSUME NEW n \in Nat, n \in S PROVE n + 1 \in S
  <2>1. /\ Blob!Two[n] \in Nat /\ Blob!Two[n + 1] = 2 * Blob!Two[n]
        /\ \A k \in Nat : Blob!Two[k] \in Nat
    BY TwoIs
  <2>2. Blob!Two[n + 1] >= 1 /\ n + 1 < Blob!Two[n + 1]
    BY <1>2, <2>1
  <2>3. ASSUME NEW m \in 0 .. n + 1 PROVE Blob!Two[m] <= Blob!Two[n + 1]
    <3>1. CASE m = n + 1
      BY <2>1, <3>1
    <3>2. CASE m # n + 1
      <4>1. m \in 0 .. n /\ m \in Nat
        BY <3>2
      <4> QED
        BY <1>2, <2>1, <4>1
    <3> QED
      BY <3>1, <3>2
  <2> QED
    BY <2>2, <2>3
<1>3. \A n \in Nat : n \in S
  <2> HIDE DEF S
  <2> QED
    BY <1>1, <1>2, NatInduct
<1> QED
  BY <1>3

(* The power of a sum. *)
LEMMA TwoAdds ==
  ASSUME NEW m \in Nat
  PROVE  \A n \in Nat : Blob!Two[m + n] = Blob!Two[m] * Blob!Two[n]
<1> DEFINE S == {n \in Nat : Blob!Two[m + n] = Blob!Two[m] * Blob!Two[n]}
<1>1. 0 \in S
  BY TwoIs
<1>2. ASSUME NEW n \in Nat, n \in S PROVE n + 1 \in S
  <2>1. m + (n + 1) = (m + n) + 1 /\ m + n \in Nat
    OBVIOUS
  <2>2. Blob!Two[m + (n + 1)] = 2 * Blob!Two[m + n]
    BY <2>1, TwoIs
  <2>3. Blob!Two[n + 1] = 2 * Blob!Two[n] /\ Blob!Two[n] \in Nat /\ Blob!Two[m] \in Nat
    BY TwoIs
  <2>4. Blob!Two[m + n] = Blob!Two[m] * Blob!Two[n]
    BY <1>2
  <2>5. 2 * (Blob!Two[m] * Blob!Two[n]) = Blob!Two[m] * (2 * Blob!Two[n])
    BY <2>3
  <2>6. Blob!Two[m + (n + 1)] = Blob!Two[m] * Blob!Two[n + 1]
    BY <2>2, <2>3, <2>4, <2>5
  <2> QED
    BY <2>6
<1>3. \A n \in Nat : n \in S
  <2> HIDE DEF S
  <2> QED
    BY <1>1, <1>2, NatInduct
<1> QED
  BY <1>3

(* A product of natural numbers is one. *)
LEMMA Product ==
  ASSUME NEW a \in Int, NEW b \in Int
  PROVE  a * b \in Int /\ (a >= 0 /\ b >= 0 => a * b >= 0) /\ a * b = b * a
  OBVIOUS

(* A multiple of d that is less than d away from 0 is 0. *)
LEMMA SmallMultiple ==
  ASSUME NEW d \in Nat, NEW c \in Int, c * d < d, 0 - d < c * d
  PROVE  c = 0
<1>1. CASE c >= 1
  <2>1. (c - 1) * d >= 0
    BY <1>1, Product
  <2>2. (c - 1) * d = c * d - d
    OBVIOUS
  <2> QED
    BY <2>1, <2>2
<1>2. CASE c <= -1
  <2>1. (0 - c - 1) * d >= 0
    BY <1>2, Product
  <2>2. (0 - c - 1) * d = 0 - c * d - d
    OBVIOUS
  <2> QED
    BY <2>1, <2>2
<1> QED
  BY <1>1, <1>2

(* Division with rest. *)
LEMMA DivMod ==
  ASSUME NEW n \in Int, NEW d \in Nat, d > 0
  PROVE  /\ n \div d \in Int /\ n % d \in 0 .. d - 1
         /\ n = d * (n \div d) + (n % d)
  OBVIOUS

\* n is q times d and the rest r.
DividesBy(n, d, q, r) ==
    n \in Int /\ q \in Int /\ d \in Nat /\ r \in 0 .. d - 1 /\ n = q * d + r

(* There is one quotient and one rest only. *)
LEMMA DivModUnique ==
  ASSUME NEW n, NEW d, NEW q, NEW r, DividesBy(n, d, q, r)
  PROVE  n \div d = q /\ n % d = r
<1> DEFINE p == n \div d
           s == n % d
<1>1. n \in Int /\ q \in Int /\ d \in Nat /\ d > 0 /\ r \in 0 .. d - 1 /\ n = q * d + r
  BY DEF DividesBy
<1>2. p \in Int /\ s \in 0 .. d - 1 /\ n = d * p + s
  BY <1>1, DivMod
<1>3. q * d + r = d * p + s
  BY <1>1, <1>2
<1> HIDE DEF p, s
<1>4. (q - p) * d = s - r
  <2>1. (q - p) * d = q * d - d * p
    BY <1>1, <1>2
  <2>2. q * d \in Int /\ d * p \in Int
    BY <1>1, <1>2
  <2> QED
    BY <1>1, <1>2, <1>3, <2>1, <2>2
<1>5. (q - p) * d < d /\ 0 - d < (q - p) * d
  BY <1>1, <1>2, <1>4
<1>6. q - p = 0
  BY <1>1, <1>2, <1>5, SmallMultiple
<1>7. q = p /\ r = s
  <2>1. 0 * d = 0
    BY <1>1
  <2> QED
    BY <1>1, <1>2, <1>4, <1>6, <2>1
<1> QED
  BY <1>7 DEF p, s

-------------------------------------------------------------------------------
(* The DA word *)

(* What is assumed of the constants. *)
LEMMA FieldIs ==
  /\ WordBits \in Nat /\ WordBits > 0 /\ BlobBits \in Nat
  /\ Modulus \in Nat /\ Generator \in 1 .. Modulus - 1
  /\ 2 * Blob!Two[2 * WordBits] <= Modulus /\ Blob!BlobLen < Modulus
  /\ \A x \in 1 .. Modulus - 1 : \E r \in 1 .. Modulus - 1 : (x * r) % Modulus = 1
  /\ Blob!Power(Generator, Blob!BlobLen) = 1
  /\ \A n \in 1 .. Blob!BlobLen - 1 : Blob!Power(Generator, n) # 1
<1>1. Blob!FieldAssumption
  BY BlockDataAssumption DEF Blob!BlobDataAssumption
<1>2. WordBits \in Nat \ {0} /\ Modulus \in Nat /\ BlobBits \in Nat
  BY <1>1 DEF Blob!FieldAssumption
<1>3. WordBits \in Nat /\ WordBits > 0
  BY <1>2
<1> QED
  BY <1>1, <1>2, <1>3, Zenon DEF Blob!FieldAssumption

(* A number that fits into a field is not longer than it. *)
LEMMA BitsFit ==
  ASSUME NEW n \in Nat, NEW w \in Nat, w > 0, n < Blob!Two[w]
  PROVE  Blob!Bits(n) \in Nat /\ Blob!Bits(n) <= w
<1> DEFINE Long(b) == n < Blob!Two[b] /\ \A c \in 1 .. b - 1 : Blob!Two[c] <= n
           S == {b \in Nat : b >= 1 /\ n < Blob!Two[b]}
<1>1. \A c \in Nat : Blob!Two[c] \in Nat
  BY TwoIs
<1>2. n + 1 \in S
  <2>1. n + 1 \in Nat /\ n + 1 < Blob!Two[n + 1]
    BY TwoGrows
  <2> QED
    BY <1>1, <2>1
<1>3. PICK b \in S : \A m \in S : b <= m
  <2>1. S \subseteq Nat /\ S # {}
    BY <1>2
  <2> HIDE DEF S
  <2> QED
    BY <2>1, LeastIn
<1>4. b \in 1 .. n + 1 /\ Long(b)
  <2>1. b \in Nat /\ b >= 1 /\ n < Blob!Two[b] /\ b <= n + 1
    BY <1>2, <1>3
  <2>2. ASSUME NEW c \in 1 .. b - 1 PROVE Blob!Two[c] <= n
    <3>1. c \in Nat /\ c >= 1 /\ ~(b <= c)
      BY <2>1
    <3>2. c \notin S
      BY <1>3, <3>1
    <3> QED
      BY <1>1, <3>1, <3>2
  <2> QED
    BY <2>1, <2>2
<1>5. Blob!Bits(n) \in 1 .. n + 1 /\ Long(Blob!Bits(n))
  BY <1>4 DEF Blob!Bits
<1>6. Blob!Bits(n) <= w
  <2>1. CASE Blob!Bits(n) > w
    <3>1. w \in 1 .. Blob!Bits(n) - 1
      BY <1>5, <2>1
    <3>2. Blob!Two[w] <= n
      BY <1>5, <3>1
    <3> QED
      BY <1>1, <3>2
  <2> QED
    BY <1>5, <2>1
<1> QED
  BY <1>5, <1>6

(* The three fields of a DA word are a number in base 2^WordBits, *)
LEMMA DaWordIs ==
  ASSUME NEW flag \in BOOLEAN, NEW nonce \in Blob!Field, NEW changes \in Blob!Field,
         NEW t, t = Blob!Two[WordBits], NEW f, f = IF flag THEN 1 ELSE 0
  PROVE  /\ t \in Nat /\ t > 0 /\ Blob!Two[2 * WordBits] = t * t
         /\ nonce \in 0 .. t - 1 /\ changes \in 0 .. t - 1
         /\ Blob!DaWord(flag, nonce, changes) = (f * t + nonce) * t + changes
<1>1. WordBits \in Nat /\ WordBits > 0
  BY FieldIs
<1>2. t \in Nat /\ t > 0
  BY <1>1, TwoIs, TwoGrows
<1>3. nonce \in 0 .. t - 1 /\ changes \in 0 .. t - 1
  BY DEF Blob!Field
<1>4. Blob!Bits(nonce) \in Nat /\ Blob!Bits(nonce) <= WordBits
  BY <1>1, <1>2, <1>3, BitsFit
<1>5. (IF Blob!Bits(nonce) > WordBits THEN Blob!Bits(nonce) ELSE WordBits) = WordBits
  BY <1>1, <1>4
<1>6. Blob!Two[WordBits + WordBits] = t * t
  BY <1>1, TwoAdds
<1>7. Blob!Two[2 * WordBits] = t * t
  <2>1. 2 * WordBits = WordBits + WordBits
    BY <1>1
  <2> QED
    BY <1>6, <2>1
<1>8. Blob!DaWord(flag, nonce, changes) = (IF flag THEN t * t ELSE 0) + nonce * t + changes
  BY <1>5, <1>6 DEF Blob!DaWord
<1>9. (IF flag THEN t * t ELSE 0) + nonce * t + changes = (f * t + nonce) * t + changes
  <2>1. CASE flag
    BY <1>2, <1>3, <2>1
  <2>2. CASE ~flag
    BY <1>2, <1>3, <2>2
  <2> QED
    BY <2>1, <2>2
<1> QED
  BY <1>2, <1>3, <1>7, <1>8, <1>9

(* so that the reader finds each of them where it is written. *)
LEMMA FieldsApart ==
  ASSUME NEW flag \in BOOLEAN, NEW nonce \in Blob!Field, NEW changes \in Blob!Field,
         NEW word, word = Blob!DaWord(flag, nonce, changes)
  PROVE  /\ word \in Blob!Felt
         /\ Blob!Changes(word) = changes
         /\ Blob!NewNonce(word) = nonce
         /\ Blob!ClassFlag(word) = IF flag THEN 1 ELSE 0
<1> DEFINE t == Blob!Two[WordBits]
           f == IF flag THEN 1 ELSE 0
<1>1. /\ t \in Nat /\ t > 0 /\ Blob!Two[2 * WordBits] = t * t
      /\ nonce \in 0 .. t - 1 /\ changes \in 0 .. t - 1
      /\ word = (f * t + nonce) * t + changes
  BY DaWordIs
<1>2. f \in {0, 1}
  OBVIOUS
<1>3. 2 * (t * t) <= Modulus /\ Modulus \in Nat
  BY <1>1, FieldIs
<1> HIDE DEF t, f
<1>4. f * t + nonce \in Int
  BY <1>1, <1>2
<1>5. word \div t = f * t + nonce /\ word % t = changes
  <2> DEFINE q == f * t + nonce
  <2>1. q \in Int /\ word = q * t + changes
    BY <1>1, <1>4
  <2> HIDE DEF q
  <2>3. DividesBy(word, t, q, changes)
    BY <1>1, <2>1, Product DEF DividesBy
  <2>2. word \div t = q /\ word % t = changes
    BY <2>3, DivModUnique
  <2> QED
    BY <2>2 DEF q
<1>6. (f * t + nonce) % t = nonce
  <2>1. DividesBy(f * t + nonce, t, f, nonce)
    BY <1>1, <1>2, <1>4 DEF DividesBy
  <2> QED
    BY <2>1, DivModUnique
<1>7. nonce * t + changes \in 0 .. t * t - 1
  <2>1. nonce * t >= 0 /\ (t - 1 - nonce) * t >= 0
    BY <1>1, Product
  <2>2. (t - 1 - nonce) * t = t * t - t - nonce * t
    BY <1>1
  <2>3. nonce * t \in Int /\ t * t \in Int
    BY <1>1, Product
  <2> QED
    BY <1>1, <2>1, <2>2, <2>3
<1>8. word = f * (t * t) + (nonce * t + changes)
  BY <1>1, <1>2
<1>9. word \div (t * t) = f
  <2> DEFINE d == t * t
             r == nonce * t + changes
  <2>1. d \in Nat /\ r \in 0 .. d - 1 /\ word = f * d + r
    BY <1>1, <1>7, <1>8, Product
  <2> HIDE DEF d, r
  <2>3. DividesBy(word, d, f, r)
    BY <1>2, <2>1, Product DEF DividesBy
  <2>2. word \div d = f
    BY <2>3, DivModUnique
  <2> QED
    BY <2>2 DEF d
<1>10. word \in 0 .. Modulus - 1
  <2> DEFINE d == t * t
             r == nonce * t + changes
  <2>1. d \in Nat /\ r \in 0 .. d - 1 /\ word = f * d + r
    BY <1>1, <1>7, <1>8, Product
  <2>2. 2 * d <= Modulus
    BY <1>3
  <2> HIDE DEF d, r
  <2> QED
    BY <1>2, <1>3, <2>1, <2>2
<1> QED
  BY <1>1, <1>5, <1>6, <1>9, <1>10
     DEF Blob!Felt, Blob!Changes, Blob!NewNonce, Blob!ClassFlag, t, f

-------------------------------------------------------------------------------
(* Arithmetic in the field *)

\* a and b are the same element.
Same(a, b) == a \in Int /\ b \in Int /\ \E c \in Int : a - b = c * Modulus

(* To be the same is an equivalence, *)
LEMMA SameItself ==
  ASSUME NEW a \in Int
  PROVE  Same(a, a)
<1>1. a - a = 0 * Modulus /\ 0 \in Int
  BY FieldIs
<1> QED
  BY <1>1 DEF Same

(* It goes both ways, *)
LEMMA SameBack ==
  ASSUME NEW a, NEW b, Same(a, b)
  PROVE  Same(b, a)
<1>1. PICK c \in Int : a - b = c * Modulus
  BY DEF Same
<1>2. a \in Int /\ b \in Int /\ Modulus \in Int
  BY FieldIs DEF Same
<1>3. b - a = (0 - c) * Modulus /\ 0 - c \in Int
  BY <1>1, <1>2
<1> QED
  BY <1>2, <1>3 DEF Same

(* is transitive, *)
LEMMA SameChain ==
  ASSUME NEW a, NEW b, NEW c, Same(a, b), Same(b, c)
  PROVE  Same(a, c)
<1>1. PICK d \in Int : a - b = d * Modulus
  BY DEF Same
<1>2. PICK e \in Int : b - c = e * Modulus
  BY DEF Same
<1>3. a \in Int /\ b \in Int /\ c \in Int /\ Modulus \in Int
  BY FieldIs DEF Same
<1>4. (d + e) * Modulus = d * Modulus + e * Modulus /\ d + e \in Int
  BY <1>3
<1>5. a - c = (d + e) * Modulus
  <2>1. d * Modulus \in Int /\ e * Modulus \in Int
    BY <1>3
  <2> QED
    BY <1>1, <1>2, <1>3, <1>4, <2>1
<1> QED
  BY <1>3, <1>4, <1>5 DEF Same

(* that sums, *)
LEMMA SameSum ==
  ASSUME NEW a, NEW b, NEW c, NEW d, Same(a, b), Same(c, d)
  PROVE  Same(a + c, b + d)
<1>1. PICK e \in Int : a - b = e * Modulus
  BY DEF Same
<1>2. PICK f \in Int : c - d = f * Modulus
  BY DEF Same
<1>3. a \in Int /\ b \in Int /\ c \in Int /\ d \in Int /\ Modulus \in Int
  BY FieldIs DEF Same
<1>4. (e + f) * Modulus = e * Modulus + f * Modulus /\ e + f \in Int
  BY <1>3
<1>5. (a + c) - (b + d) = (e + f) * Modulus
  <2>1. e * Modulus \in Int /\ f * Modulus \in Int
    BY <1>3
  <2> QED
    BY <1>1, <1>2, <1>3, <1>4, <2>1
<1>6. a + c \in Int /\ b + d \in Int
  BY <1>3
<1> QED
  BY <1>4, <1>5, <1>6 DEF Same

(* and products respect, *)
LEMMA SameProduct ==
  ASSUME NEW a, NEW b, NEW c, NEW d, Same(a, b), Same(c, d)
  PROVE  Same(a * c, b * d)
<1>1. PICK e \in Int : a - b = e * Modulus
  BY DEF Same
<1>2. PICK f \in Int : c - d = f * Modulus
  BY DEF Same
<1>3. a \in Int /\ b \in Int /\ c \in Int /\ d \in Int /\ Modulus \in Int
  BY FieldIs DEF Same
<1>4. a * c - b * d = (a - b) * c + b * (c - d)
  BY <1>3
<1>5. (a - b) * c + b * (c - d) = (e * Modulus) * c + b * (f * Modulus)
  BY <1>1, <1>2
<1>6. (e * Modulus) * c + b * (f * Modulus) = (e * c + b * f) * Modulus
  BY <1>3
<1>7. e * c + b * f \in Int /\ a * c \in Int /\ b * d \in Int
  BY <1>3, Product
<1> HIDE <1>1, <1>2
<1>8. a * c - b * d = (e * c + b * f) * Modulus
  BY <1>4, <1>5, <1>6
<1> QED
  BY <1>7, <1>8 DEF Same

(* and goes with subtraction. *)
LEMMA SameLess ==
  ASSUME NEW a, NEW b, Same(a, b)
  PROVE  Same(a - 1, b - 1)
<1>1. (a - 1) - (b - 1) = a - b /\ a - 1 \in Int /\ b - 1 \in Int
  BY DEF Same
<1> QED
  BY <1>1 DEF Same

(* with one element less than the modulus in each class. *)
LEMMA SameRest ==
  ASSUME NEW a \in Int
  PROVE  Same(a % Modulus, a) /\ a % Modulus \in 0 .. Modulus - 1
<1>1. Modulus \in Nat /\ Modulus > 0
  BY FieldIs
<1>2. /\ a \div Modulus \in Int /\ a % Modulus \in 0 .. Modulus - 1
      /\ a = Modulus * (a \div Modulus) + (a % Modulus)
  BY <1>1, DivMod
<1> DEFINE q == a \div Modulus
           r == a % Modulus
<1>3. q \in Int /\ r \in 0 .. Modulus - 1 /\ a = Modulus * q + r
  BY <1>2
<1> HIDE DEF q, r
<1>4. r - a = (0 - q) * Modulus /\ 0 - q \in Int /\ r \in Int
  BY <1>1, <1>3
<1>5. Same(r, a)
  BY <1>4 DEF Same
<1> QED
  BY <1>2, <1>5 DEF r

(* Two elements of the field that are the same modulo Modulus are the same. *)
LEMMA SameSmall ==
  ASSUME NEW a \in 0 .. Modulus - 1, NEW b \in 0 .. Modulus - 1, Same(a, b)
  PROVE  a = b
<1>1. PICK c \in Int : a - b = c * Modulus
  BY DEF Same
<1>2. Modulus \in Nat
  BY FieldIs
<1>3. c * Modulus < Modulus /\ 0 - Modulus < c * Modulus
  BY <1>1, <1>2
<1>4. c = 0
  BY <1>2, <1>3, SmallMultiple
<1>5. 0 * Modulus = 0
  BY <1>2
<1> QED
  BY <1>1, <1>2, <1>4, <1>5

(* Every element but 0 has an inverse, so that there is no other divisor of 0. *)
LEMMA NoDivisors ==
  ASSUME NEW a \in Int, NEW b \in Int, Same(a * b, 0), ~Same(a, 0)
  PROVE  Same(b, 0)
<1> DEFINE x == a % Modulus
<1>1. Same(x, a) /\ x \in 0 .. Modulus - 1
  BY SameRest
<1> HIDE DEF x
<1>2. x # 0
  <2>1. CASE x = 0
    BY <1>1, <2>1, SameBack
  <2> QED
    BY <2>1
<1>3. x \in 1 .. Modulus - 1
  BY <1>1, <1>2
<1>4. PICK r \in 1 .. Modulus - 1 : (x * r) % Modulus = 1
  BY <1>3, FieldIs
<1>5. x \in Int /\ r \in Int /\ x * r \in Int
  BY <1>3, Product
<1>6. Same(1, x * r)
  BY <1>4, <1>5, SameRest
<1>7. Same(x * r, a * r)
  BY <1>1, <1>5, SameItself, SameProduct
<1>8. Same(1, a * r)
  BY <1>6, <1>7, SameChain
<1>9. Same(1 * b, (a * r) * b)
  BY <1>8, SameItself, SameProduct
<1>10. (a * r) * b = r * (a * b) /\ 1 * b = b
  BY <1>5
<1>11. Same(r * (a * b), r * 0)
  BY <1>5, SameItself, SameProduct
<1>12. r * 0 = 0
  BY <1>5
<1> QED
  BY <1>9, <1>10, <1>11, <1>12, SameChain

-------------------------------------------------------------------------------
(* Powers *)

Element == 0 .. Modulus - 1

(* The field has a 0 and a 1, and is the set of felts. *)
LEMMA Elements ==
  /\ 1 \in Element /\ 0 \in Element /\ Modulus > 1
  /\ Element \subseteq Nat /\ Element \subseteq Int /\ Blob!Felt = Element
<1>1. Blob!Two[2 * WordBits] >= 1 /\ Blob!Two[2 * WordBits] \in Nat
  <2>1. 2 * WordBits \in Nat
    BY FieldIs
  <2> QED
    BY <2>1, TwoGrows, TwoIs
<1>2. Modulus \in Nat /\ Modulus > 1
  BY <1>1, FieldIs
<1> QED
  BY <1>2 DEF Element, Blob!Felt

\* The function that Power applies to its exponent.
PowersOf(x, p) == p = [i \in Nat |-> IF i = 0 THEN 1 ELSE (x * p[i - 1]) % Modulus]

(* There is such a function. *)
LEMMA PowersExist ==
  ASSUME NEW x \in Int
  PROVE  \E p \in [Nat -> Element] : PowersOf(x, p)
<1> DEFINE next == [q \in Nat \X Element |-> (x * q[2]) % Modulus]
           one == 1
<1>1. next \in [Nat \X Element -> Element]
  <2>1. ASSUME NEW q \in Nat \X Element PROVE (x * q[2]) % Modulus \in Element
    <3>1. x * q[2] \in Int
      BY Elements, Product
    <3> QED
      BY <3>1, SameRest DEF Element
  <2> QED
    BY <2>1
<1>2. one \in Element
  BY Elements
<1> HIDE DEF next, one
<1>3. PICK p : Iterates(next, one, Element, p)
  BY <1>1, <1>2, Iterate
<1>4. p \in [Nat -> Element] /\ p[0] = 1 /\ \A n \in Nat : p[n + 1] = (x * p[n]) % Modulus
  <2>1. p \in [Nat -> Element] /\ p[0] = one /\ \A n \in Nat : p[n + 1] = next[<<n, p[n]>>]
    BY <1>3 DEF Iterates
  <2> QED
    BY <2>1 DEF next, one
<1>5. ASSUME NEW n \in Nat PROVE p[n] = IF n = 0 THEN 1 ELSE (x * p[n - 1]) % Modulus
  <2>1. CASE n = 0
    BY <1>4, <2>1
  <2>2. CASE n # 0
    <3>1. n - 1 \in Nat /\ n - 1 + 1 = n
      BY <2>2
    <3> QED
      BY <1>4, <2>2, <3>1
  <2> QED
    BY <2>1, <2>2
<1>6. p = [n \in Nat |-> IF n = 0 THEN 1 ELSE (x * p[n - 1]) % Modulus]
  BY <1>4, <1>5
<1>7. PowersOf(x, p)
  BY <1>6 DEF PowersOf
<1> QED
  BY <1>4, <1>7

(* A power is an element, and multiplied with the base it is the next power. *)
LEMMA PowerIs ==
  ASSUME NEW x \in Int
  PROVE  /\ Blob!Power(x, 0) = 1
         /\ \A n \in Nat : /\ Blob!Power(x, n) \in Element
                           /\ Blob!Power(x, n + 1) = (x * Blob!Power(x, n)) % Modulus
                           /\ Same(Blob!Power(x, n + 1), x * Blob!Power(x, n))
<1> DEFINE p == CHOOSE q : PowersOf(x, q)
<1>1. PowersOf(x, p)
  BY PowersExist
<1>2. \A n : Blob!Power(x, n) = p[n]
  BY DEF Blob!Power, PowersOf
<1> HIDE DEF p
<1>3. \A n \in Nat : p[n] = IF n = 0 THEN 1 ELSE (x * p[n - 1]) % Modulus
  BY <1>1 DEF PowersOf
<1>4. p[0] = 1 /\ \A n \in Nat : p[n + 1] = (x * p[n]) % Modulus
  BY <1>3
<1> DEFINE S == {n \in Nat : p[n] \in Element}
<1>5. 0 \in S
  BY <1>4, Elements
<1>6. ASSUME NEW n \in Nat, n \in S PROVE n + 1 \in S
  <2>1. x * p[n] \in Int
    BY <1>6, Elements, Product
  <2>2. p[n + 1] \in Element
    BY <1>4, <2>1, SameRest DEF Element
  <2> QED
    BY <2>2
<1>7. \A n \in Nat : n \in S
  <2> HIDE DEF S
  <2> QED
    BY <1>5, <1>6, NatInduct
<1>8. ASSUME NEW n \in Nat
      PROVE  p[n] \in Element /\ p[n + 1] = (x * p[n]) % Modulus /\ Same(p[n + 1], x * p[n])
  <2>1. p[n] \in Element /\ x * p[n] \in Int
    BY <1>7, Elements, Product
  <2> QED
    BY <1>4, <2>1, SameRest
<1> QED
  BY <1>2, <1>4, <1>8

(* The same for the congruence only. *)
LEMMA PowerStep ==
  ASSUME NEW x \in Int, NEW n \in Nat
  PROVE  /\ Blob!Power(x, n) \in Int /\ Blob!Power(x, n) \in Element
         /\ Same(Blob!Power(x, n + 1), x * Blob!Power(x, n))
  BY PowerIs, Elements

(* The power of a sum of exponents, *)
LEMMA PowerAdds ==
  ASSUME NEW x \in Int, NEW m \in Nat
  PROVE  \A n \in Nat : Same(Blob!Power(x, m + n), Blob!Power(x, m) * Blob!Power(x, n))
<1> DEFINE P(n) == Blob!Power(x, n)
           S == {n \in Nat : Same(P(m + n), P(m) * P(n))}
<1>1. P(0) = 1 /\ \A n \in Nat : P(n) \in Int /\ Same(P(n + 1), x * P(n))
  BY PowerIs, Elements
<1> HIDE DEF P
<1>2. 0 \in S
  <2>1. m + 0 = m /\ P(m) * P(0) = P(m) /\ P(m) \in Int
    BY <1>1
  <2> QED
    BY <2>1, SameItself
<1>3. ASSUME NEW n \in Nat, n \in S PROVE n + 1 \in S
  <2>1. m + (n + 1) = (m + n) + 1 /\ m + n \in Nat
    OBVIOUS
  <2>2. /\ P(m + n) \in Int /\ P(n) \in Int /\ P(m) \in Int
        /\ Same(P(m + (n + 1)), x * P(m + n))
        /\ Same(P(n + 1), x * P(n))
    BY <1>1, <2>1
  <2>3. Same(P(m + n), P(m) * P(n))
    BY <1>3
  <2>4. Same(x * P(m + n), x * (P(m) * P(n)))
    BY <2>3, SameItself, SameProduct
  <2>5. x * (P(m) * P(n)) = P(m) * (x * P(n))
    BY <2>2
  <2>6. Same(P(m) * (x * P(n)), P(m) * P(n + 1))
    BY <2>2, SameItself, SameProduct, SameBack
  <2>7. Same(P(m + (n + 1)), P(m) * P(n + 1))
    BY <2>2, <2>4, <2>5, <2>6, SameChain
  <2> QED
    BY <2>7
<1>4. \A n \in Nat : n \in S
  <2> HIDE DEF S
  <2> QED
    BY <1>2, <1>3, NatInduct
<1> QED
  BY <1>4 DEF P

(* of a product of exponents, *)
LEMMA PowerOfPower ==
  ASSUME NEW x \in Int, NEW m \in Nat
  PROVE  \A n \in Nat : Same(Blob!Power(Blob!Power(x, m), n), Blob!Power(x, m * n))
<1> DEFINE P(n) == Blob!Power(x, n)
           y == P(m)
           Q(n) == Blob!Power(y, n)
           S == {n \in Nat : Same(Q(n), P(m * n))}
<1>1. P(0) = 1 /\ \A n \in Nat : P(n) \in Int
  BY PowerIs, Elements
<1>2. y \in Int
  BY <1>1
<1>3. Q(0) = 1 /\ \A n \in Nat : Q(n) \in Int /\ Same(Q(n + 1), y * Q(n))
  <2> HIDE DEF y
  <2> QED
    BY <1>2, PowerIs, Elements
<1>4. \A k \in Nat : \A n \in Nat : Same(P(k + n), P(k) * P(n))
  BY PowerAdds
<1>5. y = P(m)
  OBVIOUS
<1> HIDE DEF P, Q, y
<1>6. 0 \in S
  <2>1. m * 0 = 0
    OBVIOUS
  <2>2. Same(1, 1)
    BY SameItself
  <2> QED
    BY <1>1, <1>3, <2>1, <2>2
<1>7. ASSUME NEW n \in Nat, n \in S PROVE n + 1 \in S
  <2>1. m * (n + 1) = m + m * n /\ m * n \in Nat
    BY Product
  <2>2. Same(Q(n + 1), y * Q(n)) /\ Same(Q(n), P(m * n))
    BY <1>3, <1>7
  <2>3. Same(y * Q(n), y * P(m * n))
    BY <1>2, <2>2, SameItself, SameProduct
  <2>4. Same(P(m + m * n), y * P(m * n))
    BY <1>4, <1>5, <2>1
  <2>5. Same(y * P(m * n), P(m * (n + 1)))
    BY <2>1, <2>4, SameBack
  <2>6. Same(Q(n + 1), P(m * (n + 1)))
    BY <2>2, <2>3, <2>5, SameChain
  <2> QED
    BY <2>6
<1>8. \A n \in Nat : n \in S
  <2> HIDE DEF S
  <2> QED
    BY <1>6, <1>7, NatInduct
<1> QED
  BY <1>8 DEF P, Q, y

(* of a product, *)
LEMMA PowerOfProduct ==
  ASSUME NEW x \in Int, NEW y \in Int, NEW z \in Int, Same(z, x * y)
  PROVE  \A n \in Nat : Same(Blob!Power(z, n), Blob!Power(x, n) * Blob!Power(y, n))
<1> DEFINE P(n) == Blob!Power(x, n)
           Q(n) == Blob!Power(y, n)
           R(n) == Blob!Power(z, n)
           S == {n \in Nat : Same(R(n), P(n) * Q(n))}
<1>1. P(0) = 1 /\ \A n \in Nat : P(n) \in Int /\ Same(P(n + 1), x * P(n))
  BY PowerIs, Elements
<1>2. Q(0) = 1 /\ \A n \in Nat : Q(n) \in Int /\ Same(Q(n + 1), y * Q(n))
  BY PowerIs, Elements
<1>3. R(0) = 1 /\ \A n \in Nat : R(n) \in Int /\ Same(R(n + 1), z * R(n))
  BY PowerIs, Elements
<1> HIDE DEF P, Q, R
<1>4. 0 \in S
  <2>1. Same(1, 1) /\ 1 * 1 = 1
    BY SameItself
  <2> QED
    BY <1>1, <1>2, <1>3, <2>1
<1>5. ASSUME NEW n \in Nat, n \in S PROVE n + 1 \in S
  <2>1. /\ P(n) \in Int /\ Same(P(n + 1), x * P(n))
        /\ Q(n) \in Int /\ Same(Q(n + 1), y * Q(n))
        /\ R(n) \in Int /\ Same(R(n + 1), z * R(n))
    BY <1>1, <1>2, <1>3
  <2>2. Same(z * R(n), (x * y) * (P(n) * Q(n)))
    BY <1>5, SameProduct
  <2>3. (x * y) * (P(n) * Q(n)) = (x * P(n)) * (y * Q(n))
    BY <2>1
  <2>4. Same((x * P(n)) * (y * Q(n)), P(n + 1) * Q(n + 1))
    BY <2>1, SameProduct, SameBack
  <2>5. Same(R(n + 1), P(n + 1) * Q(n + 1))
    BY <2>1, <2>2, <2>3, <2>4, SameChain
  <2> QED
    BY <2>5
<1>6. \A n \in Nat : n \in S
  <2> HIDE DEF S
  <2> QED
    BY <1>4, <1>5, NatInduct
<1> QED
  BY <1>6 DEF P, Q, R

(* and of one. *)
LEMMA PowerOfOne ==
  ASSUME NEW x, Same(x, 1)
  PROVE  \A n \in Nat : Same(Blob!Power(x, n), 1)
<1> DEFINE P(n) == Blob!Power(x, n)
           S == {n \in Nat : Same(P(n), 1)}
<1>1. x \in Int
  BY DEF Same
<1>2. P(0) = 1 /\ \A n \in Nat : P(n) \in Int /\ Same(P(n + 1), x * P(n))
  BY <1>1, PowerIs, Elements
<1> HIDE DEF P
<1>3. 0 \in S
  BY <1>2, SameItself
<1>4. ASSUME NEW n \in Nat, n \in S PROVE n + 1 \in S
  <2>1. Same(P(n), 1) /\ Same(P(n + 1), x * P(n))
    BY <1>2, <1>4
  <2>2. Same(x * P(n), 1 * 1) /\ 1 * 1 = 1
    BY <2>1, SameProduct
  <2>3. Same(P(n + 1), 1)
    BY <2>1, <2>2, SameChain
  <2> QED
    BY <2>3
<1>5. \A n \in Nat : n \in S
  <2> HIDE DEF S
  <2> QED
    BY <1>3, <1>4, NatInduct
<1> QED
  BY <1>5 DEF P

-------------------------------------------------------------------------------
(* Sums of the first n values of a function on the natural numbers *)

SumsOf(f, s) == s \in [Nat -> Int] /\ s[0] = 0 /\ \A n \in Nat : s[n + 1] = s[n] + f[n]

SumTo(f, n) == (CHOOSE s : SumsOf(f, s))[n]

(* A sum is what its definition says. *)
LEMMA SumIs ==
  ASSUME NEW f \in [Nat -> Int]
  PROVE  /\ SumTo(f, 0) = 0
         /\ \A n \in Nat : SumTo(f, n) \in Int /\ SumTo(f, n + 1) = SumTo(f, n) + f[n]
<1> DEFINE T == Int
           zero == 0
           next == [q \in Nat \X T |-> q[2] + f[q[1]]]
<1>1. next \in [Nat \X T -> T] /\ zero \in T
  OBVIOUS
<1> HIDE DEF next, zero, T
<1>2. PICK s : Iterates(next, zero, T, s)
  BY <1>1, Iterate
<1>3. s \in [Nat -> Int] /\ s[0] = 0 /\ \A n \in Nat : s[n + 1] = next[<<n, s[n]>>]
  BY <1>2 DEF Iterates, zero, T
<1>4. \A n \in Nat : s[n + 1] = s[n] + f[n]
  BY <1>3 DEF next, T
<1>5. SumsOf(f, s)
  BY <1>3, <1>4 DEF SumsOf
<1>6. SumsOf(f, CHOOSE q : SumsOf(f, q))
  BY <1>5
<1> DEFINE c == CHOOSE q : SumsOf(f, q)
<1>7. c \in [Nat -> Int] /\ c[0] = 0 /\ \A n \in Nat : c[n + 1] = c[n] + f[n]
  BY <1>6 DEF SumsOf
<1>8. \A n : SumTo(f, n) = c[n]
  BY DEF SumTo
<1> HIDE DEF c
<1> QED
  BY <1>7, <1>8

(* Sums of the same numbers are the same. *)
LEMMA SumSame ==
  ASSUME NEW f \in [Nat -> Int], NEW g \in [Nat -> Int], NEW m \in Nat,
         \A i \in 0 .. m - 1 : Same(f[i], g[i])
  PROVE  Same(SumTo(f, m), SumTo(g, m))
<1> DEFINE S == {n \in Nat : n <= m => Same(SumTo(f, n), SumTo(g, n))}
<1>1. 0 \in S
  BY SumIs, SameItself
<1>2. ASSUME NEW n \in Nat, n \in S PROVE n + 1 \in S
  <2> SUFFICES ASSUME n + 1 <= m PROVE Same(SumTo(f, n + 1), SumTo(g, n + 1))
    OBVIOUS
  <2>1. Same(SumTo(f, n), SumTo(g, n)) /\ Same(f[n], g[n])
    BY <1>2
  <2>2. SumTo(f, n + 1) = SumTo(f, n) + f[n] /\ SumTo(g, n + 1) = SumTo(g, n) + g[n]
    BY SumIs
  <2> QED
    BY <2>1, <2>2, SameSum
<1>3. \A n \in Nat : n \in S
  <2> HIDE DEF S
  <2> QED
    BY <1>1, <1>2, NatInduct
<1> QED
  BY <1>3

(* Factors can be taken out of a sum. *)
LEMMA SumScales ==
  ASSUME NEW f \in [Nat -> Int], NEW g \in [Nat -> Int], NEW c \in Int,
         \A i \in Nat : g[i] = c * f[i]
  PROVE  \A n \in Nat : SumTo(g, n) = c * SumTo(f, n)
<1> DEFINE S == {n \in Nat : SumTo(g, n) = c * SumTo(f, n)}
<1>1. 0 \in S
  <2>1. c * 0 = 0
    OBVIOUS
  <2> QED
    BY <2>1, SumIs
<1>2. ASSUME NEW n \in Nat, n \in S PROVE n + 1 \in S
  <2>1. /\ SumTo(f, n + 1) = SumTo(f, n) + f[n] /\ SumTo(g, n + 1) = SumTo(g, n) + g[n]
        /\ SumTo(f, n) \in Int
    BY SumIs
  <2>2. g[n] = c * f[n] /\ f[n] \in Int
    OBVIOUS
  <2>3. c * SumTo(f, n) + c * f[n] = c * (SumTo(f, n) + f[n])
    BY <2>1, <2>2
  <2> QED
    BY <1>2, <2>1, <2>2, <2>3
<1>3. \A n \in Nat : n \in S
  <2> HIDE DEF S
  <2> QED
    BY <1>1, <1>2, NatInduct
<1> QED
  BY <1>3

\* h is f and g, added up point by point.
AddsUp(h, f, g) == \A i \in Nat : h[i] = f[i] + g[i]

(* A sum of sums. *)
LEMMA SumAdds ==
  ASSUME NEW f \in [Nat -> Int], NEW g \in [Nat -> Int], NEW h \in [Nat -> Int],
         AddsUp(h, f, g)
  PROVE  \A n \in Nat : SumTo(h, n) = SumTo(f, n) + SumTo(g, n)
<1> DEFINE S == {n \in Nat : SumTo(h, n) = SumTo(f, n) + SumTo(g, n)}
<1>1. 0 \in S
  BY SumIs
<1>2. ASSUME NEW n \in Nat, n \in S PROVE n + 1 \in S
  <2>1. /\ SumTo(f, n + 1) = SumTo(f, n) + f[n] /\ SumTo(g, n + 1) = SumTo(g, n) + g[n]
        /\ SumTo(h, n + 1) = SumTo(h, n) + h[n]
        /\ SumTo(f, n) \in Int /\ SumTo(g, n) \in Int
    BY SumIs
  <2> QED
    BY <1>2, <2>1 DEF AddsUp
<1>3. \A n \in Nat : n \in S
  <2> HIDE DEF S
  <2> QED
    BY <1>1, <1>2, NatInduct
<1> QED
  BY <1>3

\* rows[i] are the first m values of row i added up, and columns[j] the first n of column j.
RowSums(a, m)    == [i \in Nat |-> SumTo([j \in Nat |-> a[i][j]], m)]
ColumnSums(a, n) == [j \in Nat |-> SumTo([i \in Nat |-> a[i][j]], n)]

(* The numbers of a table can be added up by rows or by columns. *)
LEMMA SumSwaps ==
  ASSUME NEW a \in [Nat -> [Nat -> Int]], NEW m \in Nat
  PROVE  \A n \in Nat : SumTo(RowSums(a, m), n) = SumTo(ColumnSums(a, n), m)
<1> DEFINE row(i) == [j \in Nat |-> a[i][j]]
           column(j) == [i \in Nat |-> a[i][j]]
           S == {n \in Nat : SumTo(RowSums(a, m), n) = SumTo(ColumnSums(a, n), m)}
<1>1. \A i \in Nat : row(i) \in [Nat -> Int] /\ column(i) \in [Nat -> Int]
  OBVIOUS
<1>2. \A k \in Nat : ColumnSums(a, k) \in [Nat -> Int] /\ RowSums(a, m) \in [Nat -> Int]
  BY <1>1, SumIs DEF ColumnSums, RowSums
<1>3. 0 \in S
  <2> DEFINE none == [j \in Nat |-> 0]
             z == ColumnSums(a, 0)
  <2>1. none \in [Nat -> Int] /\ z \in [Nat -> Int]
    BY <1>2
  <2>2. \A j \in Nat : z[j] = 0 * none[j]
    BY <1>1, SumIs DEF ColumnSums
  <2> HIDE DEF none, z
  <2>3. SumTo(z, m) = 0 * SumTo(none, m) /\ SumTo(none, m) \in Int
    BY <2>1, <2>2, SumScales, SumIs, ZenonT(30)
  <2>4. SumTo(z, m) = 0
    BY <2>3
  <2>5. SumTo(RowSums(a, m), 0) = 0
    BY <1>2, SumIs
  <2> QED
    BY <2>4, <2>5 DEF z
<1>4. ASSUME NEW n \in Nat, n \in S PROVE n + 1 \in S
  <2> DEFINE f == ColumnSums(a, n)
             g == row(n)
             h == ColumnSums(a, n + 1)
  <2>1. f \in [Nat -> Int] /\ g \in [Nat -> Int] /\ h \in [Nat -> Int]
    BY <1>1, <1>2
  <2>2. \A j \in Nat : h[j] = f[j] + g[j]
    <3> TAKE j \in Nat
    <3>1. column(j) \in [Nat -> Int]
      BY <1>1
    <3>2. h[j] = SumTo(column(j), n + 1) /\ f[j] = SumTo(column(j), n)
      BY DEF ColumnSums
    <3>3. column(j)[n] = g[j]
      OBVIOUS
    <3> HIDE DEF column
    <3>4. SumTo(column(j), n + 1) = SumTo(column(j), n) + column(j)[n]
      BY <3>1, SumIs
    <3> QED
      BY <3>2, <3>3, <3>4
  <2>3. RowSums(a, m)[n] = SumTo(g, m)
    BY DEF RowSums
  <2> HIDE DEF f, g, h
  <2>4. SumTo(h, m) = SumTo(f, m) + SumTo(g, m)
    <3>1. AddsUp(h, f, g)
      BY <2>2 DEF AddsUp
    <3> QED
      BY <2>1, <3>1, SumAdds, SMTT(30)
  <2>5. SumTo(RowSums(a, m), n + 1) = SumTo(RowSums(a, m), n) + RowSums(a, m)[n]
    BY <1>2, SumIs
  <2>6. SumTo(RowSums(a, m), n) = SumTo(f, m)
    BY <1>4 DEF f
  <2>7. SumTo(RowSums(a, m), n + 1) = SumTo(ColumnSums(a, n + 1), m)
    BY <2>3, <2>4, <2>5, <2>6 DEF h
  <2> QED
    BY <2>7
<1>5. \A n \in Nat : n \in S
  <2> HIDE DEF S
  <2> QED
    BY <1>3, <1>4, NatInduct
<1> QED
  BY <1>5

(* The numbers can be added up in pairs. *)
LEMMA SumPairs ==
  ASSUME NEW f \in [Nat -> Int], NEW g \in [Nat -> Int],
         \A i \in Nat : g[i] = f[2 * i] + f[2 * i + 1]
  PROVE  \A n \in Nat : SumTo(f, 2 * n) = SumTo(g, n)
<1> DEFINE S == {n \in Nat : SumTo(f, 2 * n) = SumTo(g, n)}
<1>1. 0 \in S
  <2>1. 2 * 0 = 0
    OBVIOUS
  <2> QED
    BY <2>1, SumIs
<1>2. ASSUME NEW n \in Nat, n \in S PROVE n + 1 \in S
  <2> DEFINE k == 2 * n
  <2>1. k \in Nat /\ k + 1 \in Nat /\ 2 * (n + 1) = (k + 1) + 1
    OBVIOUS
  <2>2. g[n] = f[k] + f[k + 1] /\ SumTo(f, k) = SumTo(g, n)
    BY <1>2
  <2> HIDE DEF k
  <2>3. /\ SumTo(f, k + 1) = SumTo(f, k) + f[k] /\ SumTo(f, k) \in Int
        /\ SumTo(f, (k + 1) + 1) = SumTo(f, k + 1) + f[k + 1]
        /\ SumTo(g, n + 1) = SumTo(g, n) + g[n]
    BY <2>1, SumIs
  <2>4. f[k] \in Int /\ f[k + 1] \in Int
    BY <2>1
  <2>5. SumTo(f, 2 * (n + 1)) = SumTo(g, n + 1)
    BY <2>1, <2>2, <2>3, <2>4
  <2> QED
    BY <2>5
<1>3. \A n \in Nat : n \in S
  <2> HIDE DEF S
  <2> QED
    BY <1>1, <1>2, NatInduct
<1> QED
  BY <1>3

(* A sum in which only one number is not 0. *)
LEMMA SumOfOne ==
  ASSUME NEW f \in [Nat -> Int], NEW m \in Nat, NEW k \in 0 .. m - 1,
         \A i \in 0 .. m - 1 : i # k => Same(f[i], 0)
  PROVE  Same(SumTo(f, m), f[k])
<1> DEFINE S == {n \in Nat : n <= m => Same(SumTo(f, n), IF k < n THEN f[k] ELSE 0)}
<1>1. 0 \in S
  BY SumIs, SameItself
<1>2. ASSUME NEW n \in Nat, n \in S PROVE n + 1 \in S
  <2> SUFFICES ASSUME n + 1 <= m PROVE Same(SumTo(f, n + 1), IF k < n + 1 THEN f[k] ELSE 0)
    OBVIOUS
  <2>1. Same(SumTo(f, n), IF k < n THEN f[k] ELSE 0)
    BY <1>2
  <2>2. SumTo(f, n + 1) = SumTo(f, n) + f[n] /\ f[n] \in Int /\ f[k] \in Int
    BY SumIs
  <2>3. CASE n = k
    <3>1. Same(SumTo(f, n), 0) /\ Same(f[n], f[k])
      BY <2>1, <2>2, <2>3, SameItself
    <3>2. Same(SumTo(f, n) + f[n], 0 + f[k]) /\ 0 + f[k] = f[k]
      BY <2>2, <3>1, SameSum
    <3> QED
      BY <2>2, <2>3, <3>2
  <2>4. CASE n # k
    <3> DEFINE v == IF k < n THEN f[k] ELSE 0
    <3>1. Same(f[n], 0)
      BY <2>4
    <3>2. v \in Int /\ v = IF k < n + 1 THEN f[k] ELSE 0
      BY <2>2, <2>4
    <3>3. Same(SumTo(f, n), v)
      BY <2>1
    <3> HIDE DEF v
    <3>4. Same(SumTo(f, n) + f[n], v + 0) /\ v + 0 = v
      BY <3>1, <3>2, <3>3, SameSum
    <3> QED
      BY <2>2, <3>2, <3>4
  <2> QED
    BY <2>3, <2>4
<1>3. \A n \in Nat : n \in S
  <2> HIDE DEF S
  <2> QED
    BY <1>1, <1>2, NatInduct
<1> QED
  BY <1>3

-------------------------------------------------------------------------------
(* The powers of a root of unity, in the order of the points *)

(* Reversed is what its definition says: the last bit comes first. *)
LEMMA ReversedIs ==
  /\ \A n \in Nat : \A i \in Nat : Blob!Reversed[n][i] \in Nat
  /\ \A i \in Nat : Blob!Reversed[0][i] = 0
  /\ \A n \in Nat : \A i \in Nat :
        Blob!Reversed[n + 1][i] = (i % 2) * Blob!Two[n] + Blob!Reversed[n][i \div 2]
<1> DEFINE T == [Nat -> Nat]
           zero == [i \in Nat |-> 0]
           longer(n, f) == [i \in Nat |-> (i % 2) * Blob!Two[n] + f[i \div 2]]
           next == [q \in Nat \X T |-> longer(q[1], q[2])]
           IsRev(r) == r = [n \in Nat |-> [i \in Nat |->
                               IF n = 0 THEN 0 ELSE (i % 2) * Blob!Two[n - 1] + r[n - 1][i \div 2]]]
<1>1. zero \in T
  OBVIOUS
<1>2. ASSUME NEW n \in Nat, NEW f \in T PROVE longer(n, f) \in T
  <2>1. ASSUME NEW i \in Nat PROVE (i % 2) * Blob!Two[n] + f[i \div 2] \in Nat
    <3>1. i % 2 \in Nat /\ i \div 2 \in Nat
      OBVIOUS
    <3>2. Blob!Two[n] \in Nat /\ f[i \div 2] \in Nat
      BY <3>1, TwoIs
    <3>3. (i % 2) * Blob!Two[n] \in Int /\ (i % 2) * Blob!Two[n] >= 0
      BY <3>1, <3>2, Product
    <3> QED
      BY <3>2, <3>3
  <2> QED
    BY <2>1
<1> HIDE DEF longer
<1>3. next \in [Nat \X T -> T]
  BY <1>2
<1> HIDE DEF next, zero, T
<1>4. PICK f : Iterates(next, zero, T, f)
  BY <1>1, <1>3, Iterate
<1>5. f \in [Nat -> T] /\ f[0] = zero /\ \A n \in Nat : f[n + 1] = next[<<n, f[n]>>]
  BY <1>4 DEF Iterates
<1>6. \A n \in Nat : f[n + 1] = longer(n, f[n])
  BY <1>5 DEF next
<1>7. ASSUME NEW n \in Nat
      PROVE  f[n] = [i \in Nat |->
                       IF n = 0 THEN 0 ELSE (i % 2) * Blob!Two[n - 1] + f[n - 1][i \div 2]]
  <2>1. CASE n = 0
    BY <1>5, <2>1 DEF zero
  <2>2. CASE n # 0
    <3> DEFINE m == n - 1
    <3>1. m \in Nat /\ m + 1 = n
      BY <2>2
    <3> HIDE DEF m
    <3>2. f[n] = longer(m, f[m])
      BY <1>6, <3>1
    <3> QED
      BY <2>2, <3>2 DEF longer, m
  <2> QED
    BY <2>1, <2>2
<1>8. IsRev(f)
  BY <1>5, <1>7
<1>9. IsRev(Blob!Reversed)
  <2>1. IsRev(CHOOSE g : IsRev(g))
    <3> HIDE DEF IsRev
    <3> QED
      BY <1>8
  <2> QED
    BY <2>1 DEF Blob!Reversed
<1> DEFINE r == Blob!Reversed
<1>10. \A n \in Nat : \A i \in Nat :
          r[n][i] = IF n = 0 THEN 0 ELSE (i % 2) * Blob!Two[n - 1] + r[n - 1][i \div 2]
  <2> DEFINE R == r
  <2>1. R = [n \in Nat |-> [i \in Nat |->
               IF n = 0 THEN 0 ELSE (i % 2) * Blob!Two[n - 1] + R[n - 1][i \div 2]]]
    BY <1>9
  <2> HIDE DEF R
  <2>2. \A n \in Nat : \A i \in Nat :
          R[n][i] = IF n = 0 THEN 0 ELSE (i % 2) * Blob!Two[n - 1] + R[n - 1][i \div 2]
    BY <2>1
  <2> QED
    BY <2>2 DEF R
<1> HIDE DEF r
<1>11. \A i \in Nat : r[0][i] = 0
  BY <1>10
<1>12. \A n \in Nat : \A i \in Nat : r[n + 1][i] = (i % 2) * Blob!Two[n] + r[n][i \div 2]
  <2> TAKE n \in Nat
  <2> TAKE i \in Nat
  <2> DEFINE m == n + 1
  <2>1. m \in Nat /\ m # 0 /\ m - 1 = n
    OBVIOUS
  <2> HIDE DEF m
  <2>2. r[m][i] = (i % 2) * Blob!Two[m - 1] + r[m - 1][i \div 2]
    BY <1>10, <2>1
  <2> QED
    BY <2>1, <2>2 DEF m
<1> DEFINE S == {n \in Nat : \A i \in Nat : r[n][i] \in Nat}
<1>13. 0 \in S
  BY <1>11
<1>14. ASSUME NEW n \in Nat, n \in S PROVE n + 1 \in S
  <2>1. ASSUME NEW i \in Nat PROVE r[n + 1][i] \in Nat
    <3>1. i % 2 \in Nat /\ i \div 2 \in Nat
      OBVIOUS
    <3>2. Blob!Two[n] \in Nat /\ r[n][i \div 2] \in Nat
      BY <1>14, <3>1, TwoIs
    <3>3. (i % 2) * Blob!Two[n] \in Int /\ (i % 2) * Blob!Two[n] >= 0
      BY <3>1, <3>2, Product
    <3> DEFINE x == (i % 2) * Blob!Two[n]
               y == r[n][i \div 2]
    <3>4. r[n + 1][i] = x + y
      BY <1>12
    <3>5. x \in Int /\ x >= 0 /\ y \in Nat
      BY <3>2, <3>3
    <3> HIDE DEF x, y
    <3> QED
      BY <3>4, <3>5
  <2> QED
    BY <2>1
<1>15. \A n \in Nat : n \in S
  <2> HIDE DEF S
  <2> QED
    BY <1>13, <1>14, NatInduct
<1> QED
  BY <1>11, <1>12, <1>15 DEF r

(* An even and an odd number, one bit longer. *)
LEMMA ReversedPair ==
  ASSUME NEW n \in Nat, NEW i \in Nat
  PROVE  /\ Blob!Reversed[n + 1][2 * i] = Blob!Reversed[n][i]
         /\ Blob!Reversed[n + 1][2 * i + 1] = Blob!Two[n] + Blob!Reversed[n][i]
<1>1. (2 * i) % 2 = 0 /\ (2 * i) \div 2 = i /\ 2 * i \in Nat
  OBVIOUS
<1>2. (2 * i + 1) % 2 = 1 /\ (2 * i + 1) \div 2 = i /\ 2 * i + 1 \in Nat
  OBVIOUS
<1>3. Blob!Two[n] \in Nat /\ Blob!Reversed[n][i] \in Nat
  BY TwoIs, ReversedIs
<1>4. Blob!Reversed[n + 1][2 * i] = 0 * Blob!Two[n] + Blob!Reversed[n][i]
  BY <1>1, ReversedIs
<1>5. Blob!Reversed[n + 1][2 * i + 1] = 1 * Blob!Two[n] + Blob!Reversed[n][i]
  BY <1>2, ReversedIs, ZenonT(30)
<1> QED
  BY <1>3, <1>4, <1>5

\* The powers of z whose exponents are reversed numbers of n bits.
ReversedPowers(z, n) == [i \in Nat |-> Blob!Power(z, Blob!Reversed[n][i])]

(* They are numbers. *)
LEMMA ReversedPowersAre ==
  ASSUME NEW z \in Int, NEW n \in Nat
  PROVE  ReversedPowers(z, n) \in [Nat -> Int]
  BY ReversedIs, PowerStep DEF ReversedPowers

(* Their sum is a geometric sum: (z - 1) * (1 + z + ... + z^(2^n - 1)) = z^(2^n) - 1. *)
LEMMA GeometricSum ==
  ASSUME NEW z \in Int
  PROVE  \A n \in Nat : Same((z - 1) * SumTo(ReversedPowers(z, n), Blob!Two[n]),
                             Blob!Power(z, Blob!Two[n]) - 1)
<1> DEFINE P(n) == Blob!Power(z, n)
           G(n) == SumTo(ReversedPowers(z, n), Blob!Two[n])
           S == {n \in Nat : Same((z - 1) * G(n), P(Blob!Two[n]) - 1)}
<1>1. /\ P(0) = 1 /\ \A n \in Nat : P(n) \in Int
      /\ \A n \in Nat : Same(P(n + 1), z * P(n))
      /\ \A m \in Nat : \A n \in Nat : Same(P(m + n), P(m) * P(n))
  BY PowerIs, PowerStep, PowerAdds
<1>2. \A n \in Nat : ReversedPowers(z, n) \in [Nat -> Int] /\ Blob!Two[n] \in Nat
  BY ReversedPowersAre, TwoIs
<1>3. \A n \in Nat : \A i \in Nat : ReversedPowers(z, n)[i] = P(Blob!Reversed[n][i])
  BY DEF ReversedPowers
<1>4. \A n \in Nat : G(n) \in Int
  BY <1>2, SumIs
<1> HIDE DEF P
<1>5. 0 \in S
  <2> DEFINE f == ReversedPowers(z, 0)
  <2>1. f \in [Nat -> Int] /\ f[0] = 1
    <3>1. f \in [Nat -> Int]
      BY <1>2
    <3>2. f[0] = P(Blob!Reversed[0][0])
      BY <1>3
    <3>3. Blob!Reversed[0][0] = 0
      BY ReversedIs
    <3> QED
      BY <1>1, <3>1, <3>2, <3>3
  <2>2. Blob!Two[0] = 0 + 1
    BY TwoIs
  <2>3. SumTo(f, 0 + 1) = 0 + f[0]
    <3> HIDE DEF f
    <3> QED
      BY <2>1, SumIs
  <2>4. G(0) = 1
    BY <2>1, <2>2, <2>3
  <2>5. Same(P(0 + 1), z * P(0)) /\ z * P(0) = z /\ P(0 + 1) \in Int
    BY <1>1
  <2>6. Same(P(0 + 1) - 1, z - 1)
    <3>1. Same(P(0 + 1), z)
      BY <2>5
    <3> QED
      BY <3>1, SameLess
  <2>7. P(0 + 1) - 1 = P(Blob!Two[0]) - 1 /\ z - 1 = (z - 1) * G(0)
    <3>1. (z - 1) * 1 = z - 1
      OBVIOUS
    <3> QED
      BY <2>2, <2>4, <3>1
  <2>8. Same((z - 1) * G(0), P(Blob!Two[0]) - 1)
    BY <2>6, <2>7, SameBack
  <2> QED
    BY <2>8
<1>6. ASSUME NEW n \in Nat, n \in S PROVE n + 1 \in S
  <2> DEFINE t == Blob!Two[n]
             f == ReversedPowers(z, n + 1)
             g == [i \in Nat |-> f[2 * i] + f[2 * i + 1]]
             h == ReversedPowers(z, n)
             k == [i \in Nat |-> (1 + P(t)) * h[i]]
  <2>1. /\ t \in Nat /\ P(t) \in Int /\ Blob!Two[n + 1] = 2 * t
        /\ f \in [Nat -> Int] /\ h \in [Nat -> Int]
    <3>1. t \in Nat /\ Blob!Two[n + 1] = 2 * t
      BY TwoIs
    <3>2. P(t) \in Int
      <4> HIDE DEF t
      <4> QED
        BY <1>1, <3>1
    <3>3. n + 1 \in Nat
      OBVIOUS
    <3>4. f \in [Nat -> Int] /\ h \in [Nat -> Int]
      BY <1>2, <3>3
    <3> HIDE DEF f, h, t
    <3> QED
      BY <3>1, <3>2, <3>4
  <2>2. g \in [Nat -> Int]
    <3> HIDE DEF f
    <3> QED
      BY <2>1
  <2>3. k \in [Nat -> Int]
    <3> HIDE DEF h, t
    <3>1. 1 + P(t) \in Int
      BY <2>1
    <3>2. \A i \in Nat : (1 + P(t)) * h[i] \in Int
      BY <2>1, <3>1, Product
    <3> QED
      BY <3>2
  <2>4. ASSUME NEW i \in Nat PROVE Same(g[i], k[i])
    <3> DEFINE r == Blob!Reversed[n][i]
    <3>1. r \in Nat /\ h[i] = P(r)
      BY <1>3, ReversedIs
    <3>2. f[2 * i] = P(r) /\ f[2 * i + 1] = P(t + r)
      <4>1. 2 * i \in Nat /\ 2 * i + 1 \in Nat /\ n + 1 \in Nat
        OBVIOUS
      <4> QED
        BY <1>3, <4>1, ReversedPair
    <3> HIDE DEF r, f, h, t
    <3>3. g[i] = P(r) + P(t + r)
      BY <3>2
    <3>4. k[i] = (1 + P(t)) * P(r)
      BY <3>1
    <3>5. P(r) \in Int /\ Same(P(t + r), P(t) * P(r))
      BY <1>1, <2>1, <3>1
    <3>6. Same(P(r) + P(t + r), P(r) + P(t) * P(r))
      BY <3>5, SameItself, SameSum
    <3>7. P(r) + P(t) * P(r) = (1 + P(t)) * P(r)
      BY <2>1, <3>5
    <3> QED
      BY <3>3, <3>4, <3>6, <3>7
  <2>5. SumTo(f, 2 * t) = SumTo(g, t)
    <3>1. \A i \in Nat : g[i] = f[2 * i] + f[2 * i + 1]
      OBVIOUS
    <3> HIDE DEF f, g
    <3> QED
      BY <2>1, <2>2, <3>1, SumPairs
  <2>6. Same(SumTo(g, t), SumTo(k, t))
    <3> HIDE DEF g, k, t
    <3>1. \A i \in 0 .. t - 1 : Same(g[i], k[i])
      BY <2>1, <2>4
    <3> QED
      BY <2>1, <2>2, <2>3, <3>1, SumSame
  <2>7. SumTo(k, t) = (1 + P(t)) * SumTo(h, t)
    <3> DEFINE c == 1 + P(t)
    <3>1. c \in Int /\ \A i \in Nat : k[i] = c * h[i]
      BY <2>1
    <3> HIDE DEF c, k, h, t
    <3>2. SumTo(k, t) = c * SumTo(h, t)
      BY <2>1, <2>3, <3>1, SumScales
    <3> QED
      BY <3>2 DEF c
  <2>8. SumTo(h, t) \in Int /\ Same((z - 1) * SumTo(h, t), P(t) - 1)
    BY <1>4, <1>6
  <2>9. G(n + 1) = SumTo(f, 2 * t)
    BY <2>1
  <2>10. G(n + 1) \in Int
    BY <1>4
  <2> HIDE DEF G, f, g, h, k, t
  <2> DEFINE c == 1 + P(t)
             s == SumTo(h, t)
  <2>11. c \in Int /\ s \in Int /\ z - 1 \in Int
    BY <2>1, <2>8
  <2>12. Same(G(n + 1), c * s)
    BY <2>5, <2>6, <2>7, <2>9
  <2>13. Same((z - 1) * G(n + 1), (z - 1) * (c * s))
    <3> HIDE DEF c, s
    <3> QED
      BY <2>11, <2>12, SameItself, SameProduct
  <2>14. (z - 1) * (c * s) = c * ((z - 1) * s)
    <3> HIDE DEF c, s
    <3> QED
      BY <2>11
  <2>15. Same(c * ((z - 1) * s), c * (P(t) - 1))
    <3>1. Same((z - 1) * s, P(t) - 1)
      BY <2>8
    <3> HIDE DEF c, s
    <3> QED
      BY <2>11, <3>1, SameItself, SameProduct
  <2>16. c * (P(t) - 1) = P(t) * P(t) - 1 /\ P(t) * P(t) \in Int
    BY <2>1, Product
  <2>17. Same(P(t) * P(t), P(t + t)) /\ t + t = 2 * t /\ P(t + t) \in Int
    BY <1>1, <2>1, SameBack
  <2>18. Same(P(t) * P(t) - 1, P(t + t) - 1)
    BY <2>17, SameLess
  <2>19. P(t + t) - 1 = P(Blob!Two[n + 1]) - 1
    BY <2>1, <2>17
  <2>20. Same(c * (P(t) - 1), P(Blob!Two[n + 1]) - 1)
    BY <2>16, <2>18, <2>19
  <2>21. Same((z - 1) * G(n + 1), c * (P(t) - 1))
    BY <2>13, <2>14, <2>15, SameChain
  <2> HIDE DEF c, s
  <2>22. Same((z - 1) * G(n + 1), P(Blob!Two[n + 1]) - 1)
    BY <2>20, <2>21, SameChain
  <2> QED
    BY <2>22
<1>7. \A n \in Nat : n \in S
  <2> HIDE DEF S
  <2> QED
    BY <1>5, <1>6, NatInduct
<1> QED
  BY <1>7 DEF P

(* Over all points, it is 0 for every root of unity but 1, *)
LEMMA RootsCancel ==
  ASSUME NEW z \in Int, Same(Blob!Power(z, Blob!BlobLen), 1), ~Same(z, 1)
  PROVE  Same(SumTo(ReversedPowers(z, BlobBits), Blob!BlobLen), 0)
<1> DEFINE n == Blob!BlobLen
           g == SumTo(ReversedPowers(z, BlobBits), n)
           p == Blob!Power(z, n)
<1>1. BlobBits \in Nat /\ n = Blob!Two[BlobBits] /\ n \in Nat
  BY FieldIs, TwoIs DEF Blob!BlobLen
<1>2. g \in Int /\ p \in Int
  BY <1>1, ReversedPowersAre, SumIs, PowerStep
<1>3. Same((z - 1) * g, p - 1)
  BY <1>1, GeometricSum
<1>4. Same(p, 1)
  OBVIOUS
<1> HIDE DEF n, g, p
<1>5. Same(p - 1, 0)
  <2>1. Same(p - 1, 1 - 1) /\ 1 - 1 = 0
    BY <1>4, SameLess
  <2> QED
    BY <2>1
<1>6. Same((z - 1) * g, 0)
  BY <1>3, <1>5, SameChain
<1>7. ~Same(z - 1, 0)
  <2> SUFFICES ASSUME Same(z - 1, 0) PROVE Same(z, 1)
    OBVIOUS
  <2>1. (z - 1) - 0 = z - 1
    OBVIOUS
  <2> QED
    BY <2>1 DEF Same
<1>8. z - 1 \in Int
  OBVIOUS
<1> DEFINE y == z - 1
<1>9. y \in Int /\ Same(y * g, 0) /\ ~Same(y, 0)
  BY <1>6, <1>7, <1>8
<1> HIDE DEF y
<1>10. Same(g, 0)
  BY <1>2, <1>9, NoDivisors
<1> QED
  BY <1>10 DEF g, n

(* and the number of points for 1. *)
LEMMA OnesAdd ==
  ASSUME NEW z \in Int, Same(z, 1)
  PROVE  Same(SumTo(ReversedPowers(z, BlobBits), Blob!BlobLen), Blob!BlobLen)
<1> DEFINE ones == [i \in Nat |-> 1]
           f == ReversedPowers(z, BlobBits)
           m == Blob!BlobLen
           S == {n \in Nat : SumTo(ones, n) = n}
<1>1. ones \in [Nat -> Int] /\ f \in [Nat -> Int] /\ m \in Nat
  BY FieldIs, TwoIs, ReversedPowersAre DEF Blob!BlobLen
<1>2. \A n \in Nat : ones[n] = 1
  OBVIOUS
<1>3. \A i \in Nat : Same(f[i], ones[i])
  BY FieldIs, ReversedIs, PowerOfOne DEF ReversedPowers
<1> HIDE DEF ones, f, m
<1>4. 0 \in S /\ \A n \in Nat : n \in S => n + 1 \in S
  BY <1>1, <1>2, SumIs
<1>5. \A n \in Nat : n \in S
  <2> HIDE DEF S
  <2> QED
    BY <1>4, NatInduct
<1>6. SumTo(ones, m) = m
  BY <1>1, <1>5
<1>7. Same(SumTo(f, m), SumTo(ones, m))
  <2>1. \A i \in 0 .. m - 1 : Same(f[i], ones[i])
    BY <1>1, <1>3
  <2> QED
    BY <1>1, <2>1, SumSame
<1> QED
  BY <1>6, <1>7 DEF f, m

-------------------------------------------------------------------------------
(* The generator and its inverse *)

(* A number times its reciprocal is 1. *)
LEMMA ReciprocalIs ==
  ASSUME NEW x \in 1 .. Modulus - 1
  PROVE  /\ Blob!Reciprocal(x) \in 1 .. Modulus - 1 /\ Blob!Reciprocal(x) \in Int
         /\ Same(x * Blob!Reciprocal(x), 1)
<1> DEFINE r == Blob!Reciprocal(x)
<1>1. \E y \in 1 .. Modulus - 1 : (x * y) % Modulus = 1
  BY FieldIs
<1>2. r \in 1 .. Modulus - 1 /\ (x * r) % Modulus = 1
  BY <1>1 DEF Blob!Reciprocal
<1> HIDE DEF r
<1>3. x \in Int /\ r \in Int /\ x * r \in Int
  BY <1>2, Product
<1>4. Same(x * r, 1)
  BY <1>2, <1>3, SameRest, SameBack
<1> QED
  BY <1>2, <1>3, <1>4 DEF r

BackRoot == Blob!Reciprocal(Generator)

(* The powers of the generator have the powers of its reciprocal as theirs. *)
LEMMA InverseIs ==
  /\ Generator \in Int /\ BackRoot \in Int
  /\ \A n \in Nat : Same(Blob!Power(Generator, n) * Blob!Power(BackRoot, n), 1)
<1>1. Generator \in 1 .. Modulus - 1 /\ Generator \in Int
  BY FieldIs
<1>2. BackRoot \in Int /\ Same(Generator * BackRoot, 1)
  BY <1>1, ReciprocalIs DEF BackRoot
<1>3. Same(1, Generator * BackRoot) /\ Same(1, 1) /\ 1 \in Int
  BY <1>2, SameBack, SameItself
<1>4. ASSUME NEW n \in Nat PROVE Same(Blob!Power(Generator, n) * Blob!Power(BackRoot, n), 1)
  <2> DEFINE one == 1
  <2>1. one \in Int /\ Same(one, Generator * BackRoot) /\ Same(one, 1)
    BY <1>3
  <2> HIDE DEF one
  <2>2. Same(Blob!Power(one, n), Blob!Power(Generator, n) * Blob!Power(BackRoot, n))
    BY <1>1, <1>2, <2>1, PowerOfProduct
  <2>3. Same(Blob!Power(one, n), 1)
    BY <2>1, PowerOfOne
  <2> QED
    BY <2>2, <2>3, SameBack, SameChain
<1> QED
  BY <1>1, <1>2, <1>4

(* Powers of a root of unity are roots of unity. *)
LEMMA RootPower ==
  ASSUME NEW x \in Int, NEW n \in Nat, NEW j \in Nat, Same(Blob!Power(x, n), 1)
  PROVE  Same(Blob!Power(Blob!Power(x, j), n), 1)
<1>1. Same(Blob!Power(Blob!Power(x, j), n), Blob!Power(x, j * n))
  BY PowerOfPower
<1>2. Same(Blob!Power(Blob!Power(x, n), j), Blob!Power(x, n * j))
  BY PowerOfPower
<1>3. j * n = n * j
  OBVIOUS
<1>4. Same(Blob!Power(Blob!Power(x, n), j), 1)
  BY PowerOfOne
<1>5. Same(Blob!Power(x, j * n), Blob!Power(Blob!Power(x, n), j))
  BY <1>2, <1>3, SameBack
<1> QED
  BY <1>1, <1>4, <1>5, SameChain

\* How often the k-th coefficient gets what the j-th one gave to the points.
Root(j, k) == Blob!Power(Generator, j) * Blob!Power(BackRoot, k)

(* The roots are roots of unity, and 1 only where the coefficients are the same. *)
LEMMA RootIs ==
  ASSUME NEW j \in 0 .. Blob!BlobLen - 1, NEW k \in 0 .. Blob!BlobLen - 1
  PROVE  /\ Root(j, k) \in Int
         /\ Same(Blob!Power(Root(j, k), Blob!BlobLen), 1)
         /\ Same(Root(j, k), 1) <=> j = k
<1> DEFINE n == Blob!BlobLen
           P(i) == Blob!Power(Generator, i)
           Q(i) == Blob!Power(BackRoot, i)
           z == Root(j, k)
<1>1. n \in Nat /\ P(n) = 1 /\ \A i \in 1 .. n - 1 : P(i) # 1
  BY FieldIs, TwoIs DEF Blob!BlobLen
<1>2. Generator \in Int /\ BackRoot \in Int
  BY InverseIs
<1>3. \A i \in Nat : P(i) \in Int /\ Q(i) \in Int /\ P(i) \in Element
  BY <1>2, PowerStep
<1>4. \A i \in Nat : Same(P(i) * Q(i), 1)
  BY InverseIs
<1>5. \A a \in Nat : \A b \in Nat : Same(P(a + b), P(a) * P(b)) /\ Same(Q(a + b), Q(a) * Q(b))
  BY <1>2, PowerAdds
<1>6. Same(P(n), 1)
  BY <1>1, SameItself
<1>7. Same(Q(n), 1)
  <2>1. Same(P(n) * Q(n), 1) /\ P(n) * Q(n) = Q(n)
    BY <1>1, <1>3, <1>4
  <2> QED
    BY <2>1
<1>8. j \in Nat /\ k \in Nat
  OBVIOUS
<1>9. z = P(j) * Q(k) /\ z \in Int
  BY <1>3, <1>8, Product DEF Root
<1>10. Same(Blob!Power(z, n), 1)
  <2> DEFINE x == P(j)
             y == Q(k)
  <2>1. x \in Int /\ y \in Int /\ Same(z, x * y)
    BY <1>3, <1>8, <1>9, SameItself
  <2>2. Same(Blob!Power(x, n), 1) /\ Same(Blob!Power(y, n), 1)
    BY <1>1, <1>2, <1>6, <1>7, <1>8, RootPower
  <2> HIDE DEF x, y, z, n
  <2>3. Same(Blob!Power(z, n), Blob!Power(x, n) * Blob!Power(y, n))
    BY <1>1, <1>9, <2>1, PowerOfProduct
  <2>4. Same(Blob!Power(x, n) * Blob!Power(y, n), 1 * 1) /\ 1 * 1 = 1
    BY <2>2, SameProduct
  <2> QED
    BY <2>3, <2>4, SameChain
<1> HIDE DEF P, Q, n, z
<1>11. \A i \in 1 .. n - 1 : ~Same(P(i), 1)
  <2> SUFFICES ASSUME NEW i \in 1 .. n - 1, Same(P(i), 1) PROVE FALSE
    OBVIOUS
  <2>1. i \in Nat /\ P(i) # 1
    BY <1>1
  <2>2. P(i) \in 0 .. Modulus - 1 /\ 1 \in 0 .. Modulus - 1
    BY <1>3, <2>1, Elements DEF Element
  <2>3. P(i) = 1
    BY <2>2, SameSmall
  <2> QED
    BY <2>1, <2>3
<1>12. ASSUME j = k PROVE Same(z, 1)
  BY <1>4, <1>8, <1>9, <1>12
<1>13. ASSUME j > k PROVE ~Same(z, 1)
  <2> DEFINE d == j - k
  <2>1. d \in 1 .. n - 1 /\ d \in Nat /\ j = d + k
    BY <1>1, <1>8, <1>13 DEF n
  <2> HIDE DEF d
  <2>2. P(d) \in Int /\ P(k) \in Int /\ Q(k) \in Int
    BY <1>3, <1>8, <2>1
  <2>3. Same(P(j), P(d) * P(k))
    BY <1>5, <1>8, <2>1
  <2>4. Same(P(j) * Q(k), (P(d) * P(k)) * Q(k))
    BY <2>2, <2>3, SameItself, SameProduct
  <2>5. (P(d) * P(k)) * Q(k) = P(d) * (P(k) * Q(k))
    BY <2>2
  <2>6. Same(P(d) * (P(k) * Q(k)), P(d) * 1) /\ P(d) * 1 = P(d)
    BY <1>4, <1>8, <2>2, SameItself, SameProduct
  <2>7. Same(z, P(d))
    BY <1>9, <2>4, <2>5, <2>6, SameChain
  <2> QED
    BY <1>11, <2>1, <2>7, SameBack, SameChain
<1>14. ASSUME j < k PROVE ~Same(z, 1)
  <2> DEFINE d == k - j
  <2>1. d \in 1 .. n - 1 /\ d \in Nat /\ k = j + d
    BY <1>1, <1>8, <1>14 DEF n
  <2> HIDE DEF d
  <2> SUFFICES ASSUME Same(z, 1) PROVE FALSE
    OBVIOUS
  <2>2. P(d) \in Int /\ P(j) \in Int /\ Q(j) \in Int /\ Q(d) \in Int /\ Q(k) \in Int
    BY <1>3, <1>8, <2>1
  <2>3. Same(Q(k), Q(j) * Q(d))
    BY <1>5, <1>8, <2>1
  <2>4. Same(P(j) * Q(k), P(j) * (Q(j) * Q(d)))
    BY <2>2, <2>3, SameItself, SameProduct
  <2>5. P(j) * (Q(j) * Q(d)) = (P(j) * Q(j)) * Q(d)
    BY <2>2
  <2>6. Same((P(j) * Q(j)) * Q(d), 1 * Q(d)) /\ 1 * Q(d) = Q(d)
    BY <1>4, <1>8, <2>2, SameItself, SameProduct
  <2>7. Same(z, Q(d))
    BY <1>9, <2>4, <2>5, <2>6, SameChain
  <2>8. Same(Q(d), 1)
    BY <2>7, SameBack, SameChain
  <2>9. Same(P(d) * Q(d), P(d) * 1) /\ P(d) * 1 = P(d)
    BY <2>2, <2>8, SameItself, SameProduct
  <2>10. Same(P(d) * Q(d), 1)
    BY <1>4, <2>1
  <2>11. Same(P(d), 1)
    BY <2>9, <2>10, SameBack, SameChain
  <2> QED
    BY <1>11, <2>1, <2>11
<1>15. Same(z, 1) <=> j = k
  BY <1>8, <1>12, <1>13, <1>14
<1> QED
  BY <1>9, <1>10, <1>15 DEF n, z

-------------------------------------------------------------------------------
(* The transform *)

\* The coefficients of a polynomial, the first of which is the one of x ^ 0.
Coefficients(e, n) == [i \in Nat |-> IF i < n THEN e[i + 1] ELSE 0]

\* The parts of its value at x.
Parts(e, n, x) == [i \in Nat |-> Coefficients(e, n)[i] * Blob!Power(x, i)]

(* What these are, element by element. *)
LEMMA PartsAre ==
  ASSUME NEW n \in Nat, NEW e \in [1 .. n -> Int], NEW x \in Int
  PROVE  /\ Coefficients(e, n) \in [Nat -> Int] /\ Parts(e, n, x) \in [Nat -> Int]
         /\ \A i \in 0 .. n - 1 : Coefficients(e, n)[i] = e[i + 1]
         /\ \A i \in Nat : Parts(e, n, x)[i] = Coefficients(e, n)[i] * Blob!Power(x, i)
<1> DEFINE c == Coefficients(e, n)
<1>1. c \in [Nat -> Int]
  BY DEF Coefficients
<1>2. \A i \in 0 .. n - 1 : c[i] = e[i + 1]
  BY DEF Coefficients
<1> HIDE DEF c
<1>3. \A i \in Nat : c[i] * Blob!Power(x, i) \in Int
  BY <1>1, PowerStep, Product
<1> QED
  BY <1>1, <1>2, <1>3 DEF Parts, c

\* The values that Horner goes through.
HornerOf(e, n, x, h) ==
    h = [j \in 1 .. n + 1 |-> IF j > n THEN 0 ELSE (e[j] + x * h[j + 1]) % Modulus]

(* There is such a function. *)
LEMMA HornerExists ==
  ASSUME NEW n \in Nat, NEW e \in [1 .. n -> Int], NEW x \in Int
  PROVE  \E h : HornerOf(e, n, x, h)
<1> DEFINE T == Int
           zero == 0
           part(i) == IF i < n THEN e[n - i] ELSE 0
           next == [q \in Nat \X T |-> (part(q[1]) + x * q[2]) % Modulus]
<1>1. \A i \in Nat : part(i) \in Int
  OBVIOUS
<1>2. zero \in T
  OBVIOUS
<1>3. next \in [Nat \X T -> T]
  <2> HIDE DEF part
  <2>1. ASSUME NEW q \in Nat \X T PROVE (part(q[1]) + x * q[2]) % Modulus \in T
    <3>1. part(q[1]) \in Int /\ x * q[2] \in Int
      BY <1>1, Product
    <3> DEFINE v == part(q[1]) + x * q[2]
    <3>2. v \in Int
      BY <3>1
    <3> HIDE DEF v
    <3>3. v % Modulus \in Int
      BY <3>2, FieldIs
    <3> QED
      BY <3>3 DEF v
  <2> QED
    BY <2>1
<1> HIDE DEF next, zero, T
<1>4. PICK g : Iterates(next, zero, T, g)
  BY <1>2, <1>3, Iterate
<1>5. g[0] = 0 /\ \A i \in Nat : g[i] \in Int /\ g[i + 1] = next[<<i, g[i]>>]
  BY <1>4 DEF Iterates, zero, T
<1>6. \A i \in Nat : g[i + 1] = (part(i) + x * g[i]) % Modulus
  BY <1>5 DEF next, T
<1> DEFINE h == [j \in 1 .. n + 1 |-> g[n + 1 - j]]
<1>7. ASSUME NEW j \in 1 .. n + 1
      PROVE  h[j] = IF j > n THEN 0 ELSE (e[j] + x * h[j + 1]) % Modulus
  <2>1. CASE j > n
    <3>1. n + 1 - j = 0
      BY <2>1
    <3> QED
      BY <1>5, <2>1, <3>1
  <2>2. CASE ~(j > n)
    <3> DEFINE i == n - j
    <3>1. i \in Nat /\ n + 1 - j = i + 1 /\ n + 1 - (j + 1) = i /\ j + 1 \in 1 .. n + 1
          /\ part(i) = e[j]
      BY <2>2
    <3> HIDE DEF i, part
    <3>2. h[j] = g[i + 1] /\ h[j + 1] = g[i]
      BY <3>1
    <3> HIDE DEF h
    <3> QED
      BY <1>6, <2>2, <3>1, <3>2
  <2> QED
    BY <2>1, <2>2
<1>8. HornerOf(e, n, x, h)
  BY <1>7 DEF HornerOf
<1> QED
  BY <1>8

(* Horner computes the value of the polynomial. *)
LEMMA HornerIs ==
  ASSUME NEW n \in Nat, NEW e \in [1 .. n -> Int], NEW x \in Int
  PROVE  Same(Blob!Horner(e, x), SumTo(Parts(e, n, x), n))
<1> DEFINE h == CHOOSE g : HornerOf(e, n, x, g)
           t == Parts(e, n, x)
           P(i) == Blob!Power(x, i)
<1>1. HornerOf(e, n, x, h)
  BY HornerExists
<1>2. Len(e) = n
  OBVIOUS
<1>3. Blob!Horner(e, x) = h[1]
  BY <1>2, Zenon DEF Blob!Horner, HornerOf
<1>4. /\ h[n + 1] = 0
      /\ \A j \in 1 .. n : h[j] = (e[j] + x * h[j + 1]) % Modulus
  <2> HIDE DEF h
  <2>1. h = [j \in 1 .. n + 1 |-> IF j > n THEN 0 ELSE (e[j] + x * h[j + 1]) % Modulus]
    BY <1>1 DEF HornerOf
  <2>2. \A j \in 1 .. n + 1 : h[j] = IF j > n THEN 0 ELSE (e[j] + x * h[j + 1]) % Modulus
    BY <2>1
  <2>3. n + 1 \in 1 .. n + 1 /\ n + 1 > n
    OBVIOUS
  <2>4. \A j \in 1 .. n : j \in 1 .. n + 1 /\ ~(j > n)
    OBVIOUS
  <2> QED
    BY <2>2, <2>3, <2>4
<1> HIDE DEF h
<1> DEFINE R == {i \in Nat : i <= n => h[n + 1 - i] \in Int}
<1>5. 0 \in R
  BY <1>4
<1>6. ASSUME NEW i \in Nat, i \in R PROVE i + 1 \in R
  <2> SUFFICES ASSUME i + 1 <= n PROVE h[n + 1 - (i + 1)] \in Int
    OBVIOUS
  <2> DEFINE j == n - i
  <2>1. j \in 1 .. n /\ n + 1 - (i + 1) = j /\ n + 1 - i = j + 1 /\ i <= n
    OBVIOUS
  <2>2. h[n + 1 - i] \in Int
    BY <1>6, <2>1
  <2> HIDE DEF j
  <2>3. e[j] \in Int /\ x * h[j + 1] \in Int
    BY <2>1, <2>2, Product
  <2> DEFINE v == e[j] + x * h[j + 1]
  <2>4. v \in Int /\ h[j] = v % Modulus
    BY <1>4, <2>1, <2>3
  <2> HIDE DEF v
  <2>5. v % Modulus \in Int
    BY <2>4, FieldIs
  <2> QED
    BY <2>1, <2>4, <2>5
<1>7. \A i \in Nat : i \in R
  <2> HIDE DEF R
  <2> QED
    BY <1>5, <1>6, NatInduct
<1>8. \A j \in 1 .. n + 1 : h[j] \in Int
  <2> TAKE j \in 1 .. n + 1
  <2> DEFINE i == n + 1 - j
  <2>1. i \in Nat /\ i <= n /\ n + 1 - i = j
    OBVIOUS
  <2> HIDE DEF i
  <2> QED
    BY <1>7, <2>1
<1>9. ASSUME NEW j \in 1 .. n PROVE Same(h[j], e[j] + x * h[j + 1])
  <2>1. e[j] \in Int /\ h[j + 1] \in Int
    BY <1>8
  <2>2. x * h[j + 1] \in Int
    BY <2>1, Product
  <2> DEFINE v == e[j] + x * h[j + 1]
  <2>3. v \in Int /\ h[j] = v % Modulus
    BY <1>4, <2>1, <2>2
  <2> HIDE DEF v
  <2>4. Same(h[j], v)
    BY <2>3, SameRest
  <2> QED
    BY <2>4 DEF v
<1>10. /\ t \in [Nat -> Int]
       /\ \A i \in 0 .. n - 1 : t[i] = e[i + 1] * P(i)
  <2>1. \A i \in 0 .. n - 1 : i \in Nat
    OBVIOUS
  <2> QED
    BY <2>1, PartsAre, ZenonT(30)
<1>11. P(0) = 1 /\ \A i \in Nat : P(i) \in Int /\ Same(P(i + 1), x * P(i))
  BY PowerIs, PowerStep
<1> HIDE DEF t, P, R
<1> DEFINE S == {j \in Nat : j <= n => Same(SumTo(t, j) + P(j) * h[j + 1], h[1])}
<1>12. 0 \in S
  <2>1. 1 \in 1 .. n + 1 /\ 0 + 1 = 1
    OBVIOUS
  <2>2. h[1] \in Int
    BY <1>8, <2>1
  <2>3. 0 + 1 * h[1] = h[1]
    BY <2>2
  <2>4. SumTo(t, 0) + P(0) * h[0 + 1] = h[1]
    BY <1>10, <1>11, <2>1, <2>3, SumIs
  <2> QED
    BY <2>2, <2>4, SameItself
<1>13. ASSUME NEW j \in Nat, j \in S PROVE j + 1 \in S
  <2> SUFFICES ASSUME j + 1 <= n PROVE Same(SumTo(t, j + 1) + P(j + 1) * h[(j + 1) + 1], h[1])
    OBVIOUS
  <2> DEFINE k == j + 1
  <2>1. k \in 1 .. n /\ k \in 1 .. n + 1 /\ k + 1 \in 1 .. n + 1 /\ j \in 0 .. n - 1 /\ j <= n
    OBVIOUS
  <2>2. Same(SumTo(t, j) + P(j) * h[k], h[1])
    BY <1>13, <2>1
  <2>3. SumTo(t, k) = SumTo(t, j) + t[j] /\ SumTo(t, j) \in Int
    BY <1>10, SumIs
  <2>4. t[j] = e[k] * P(j) /\ t[j] \in Int
    BY <1>10, <2>1
  <2>5. Same(P(k), x * P(j)) /\ P(j) \in Int /\ P(k) \in Int
    <3>1. j \in Nat /\ k \in Nat /\ j + 1 = k
      OBVIOUS
    <3> HIDE DEF k
    <3>2. P(j) \in Int /\ P(k) \in Int
      BY <1>11, <3>1
    <3>3. Same(P(j + 1), x * P(j))
      BY <1>11
    <3> QED
      BY <3>1, <3>2, <3>3
  <2> HIDE DEF k
  <2>6. e[k] \in Int /\ h[k] \in Int /\ h[k + 1] \in Int
    BY <1>8, <2>1
  <2>7. Same(h[k], e[k] + x * h[k + 1])
    BY <1>9, <2>1
  <2>8. Same(P(j) * h[k], P(j) * (e[k] + x * h[k + 1]))
    BY <2>5, <2>7, SameItself, SameProduct
  <2>9. P(j) * (e[k] + x * h[k + 1]) = t[j] + (x * P(j)) * h[k + 1]
    BY <2>4, <2>5, <2>6
  <2>10. Same((x * P(j)) * h[k + 1], P(k) * h[k + 1])
    BY <2>5, <2>6, SameItself, SameProduct, SameBack
  <2>11. Same(t[j] + (x * P(j)) * h[k + 1], t[j] + P(k) * h[k + 1])
    BY <2>4, <2>10, SameItself, SameSum
  <2>12. Same(P(j) * h[k], t[j] + P(k) * h[k + 1])
    BY <2>8, <2>9, <2>11, SameChain
  <2>13. Same(SumTo(t, j) + P(j) * h[k], SumTo(t, j) + (t[j] + P(k) * h[k + 1]))
    BY <2>3, <2>12, SameItself, SameSum
  <2>14. SumTo(t, j) + (t[j] + P(k) * h[k + 1]) = SumTo(t, k) + P(k) * h[k + 1]
    <3>1. P(k) * h[k + 1] \in Int
      BY <2>5, <2>6, Product
    <3> QED
      BY <2>3, <2>4, <3>1
  <2>15. Same(SumTo(t, k) + P(k) * h[k + 1], h[1])
    BY <2>2, <2>13, <2>14, SameBack, SameChain
  <2> QED
    BY <2>15 DEF k
<1>14. \A j \in Nat : j \in S
  <2> HIDE DEF S
  <2> QED
    BY <1>12, <1>13, NatInduct
<1>15. Same(SumTo(t, n) + P(n) * h[n + 1], h[1])
  BY <1>14
<1>16. P(n) * h[n + 1] = 0 /\ SumTo(t, n) \in Int
  <2>1. P(n) \in Int /\ P(n) * 0 = 0
    BY <1>11
  <2> QED
    BY <1>4, <1>10, <2>1, SumIs
<1>17. SumTo(t, n) + P(n) * h[n + 1] = SumTo(t, n)
  BY <1>16
<1>18. Same(h[1], SumTo(t, n))
  BY <1>15, <1>17, SameBack
<1> QED
  BY <1>3, <1>18 DEF t

(* The reader's sum is a sum. *)
LEMMA FoldIsSum ==
  ASSUME NEW n \in Nat, NEW f \in [1 .. n -> Int], NEW g \in [Nat -> Int],
         \A i \in 0 .. n - 1 : g[i] = f[i + 1]
  PROVE  Blob!FoldFunction(+, 0, f) = SumTo(g, n)
<1> DEFINE upto(m) == [i \in 1 .. m |-> f[i]]
           S == {m \in Nat : m <= n => Fact!Total(upto(m)) = SumTo(g, m)}
<1>1. 0 \in S
  <2>1. upto(0) \in [1 .. 0 -> Int]
    OBVIOUS
  <2> HIDE DEF upto
  <2>2. Fact!Total(upto(0)) = 0
    BY <2>1, TotalOfNone
  <2> QED
    BY <2>2, SumIs
<1>2. ASSUME NEW m \in Nat, m \in S PROVE m + 1 \in S
  <2> SUFFICES ASSUME m + 1 <= n PROVE Fact!Total(upto(m + 1)) = SumTo(g, m + 1)
    OBVIOUS
  <2> DEFINE a == upto(m + 1)
             b == upto(m)
  <2>1. a \in [1 .. m + 1 -> Int] /\ b \in [1 .. m -> Int] /\ \A i \in 1 .. m : b[i] = a[i]
    OBVIOUS
  <2>2. a[m + 1] = f[m + 1] /\ g[m] = f[m + 1]
    OBVIOUS
  <2>3. Fact!Total(b) = SumTo(g, m)
    BY <1>2
  <2> HIDE DEF a, b, S, upto
  <2>4. Fact!Total(a) = Fact!Total(b) + a[m + 1]
    BY <2>1, TotalSplits
  <2>5. SumTo(g, m + 1) = SumTo(g, m) + g[m]
    BY SumIs
  <2>6. Fact!Total(a) = SumTo(g, m + 1)
    BY <2>2, <2>3, <2>4, <2>5
  <2> QED
    BY <2>6 DEF a
<1>3. \A m \in Nat : m \in S
  <2> HIDE DEF S
  <2> QED
    BY <1>1, <1>2, NatInduct
<1>4. upto(n) = f
  OBVIOUS
<1>5. Fact!Total(f) = SumTo(g, n)
  <2>1. n \in S
    BY <1>3
  <2> HIDE DEF upto
  <2> QED
    BY <1>4, <2>1
<1>6. Blob!FoldFunction(+, 0, f) = SumFn(f, DOMAIN f)[DOMAIN f]
  BY DEF Blob!FoldFunction, Blob!FoldFunctionOnSet, Blob!MapThenFoldSet, SumFn, Pick
<1> QED
  BY <1>5, <1>6, TotalUnfolds

-------------------------------------------------------------------------------
(* The inverse of the transform *)

(* The exponents of a power of a power can be swapped. *)
LEMMA PowersSwap ==
  ASSUME NEW x \in Int, NEW r \in Nat, NEW j \in Nat
  PROVE  Same(Blob!Power(Blob!Power(x, r), j), Blob!Power(Blob!Power(x, j), r))
<1>1. Same(Blob!Power(Blob!Power(x, r), j), Blob!Power(x, r * j))
  BY PowerOfPower
<1>2. Same(Blob!Power(Blob!Power(x, j), r), Blob!Power(x, j * r))
  BY PowerOfPower
<1>3. j * r = r * j
  OBVIOUS
<1> QED
  BY <1>1, <1>2, <1>3, SameBack, SameChain

(* What the j-th coefficient gives to a point comes back to the k-th one as a power of Root. *)
LEMMA RootAtPoint ==
  ASSUME NEW r \in Nat, NEW j \in Nat, NEW k \in Nat
  PROVE  Same(Blob!Power(Blob!Power(Generator, r), j) * Blob!Power(Blob!Power(BackRoot, r), k),
              Blob!Power(Root(j, k), r))
<1> DEFINE x == Blob!Power(Generator, j)
           y == Blob!Power(BackRoot, k)
           z == Root(j, k)
<1>1. Generator \in Int /\ BackRoot \in Int
  BY InverseIs
<1>2. x \in Int /\ y \in Int
  BY <1>1, PowerStep
<1>3. z = x * y /\ z \in Int /\ Same(z, x * y)
  <2>1. z = x * y /\ z \in Int
    BY <1>2, Product DEF Root
  <2> QED
    BY <2>1, SameItself
<1>4. Same(Blob!Power(Blob!Power(Generator, r), j), Blob!Power(x, r))
  BY <1>1, PowersSwap
<1>5. Same(Blob!Power(Blob!Power(BackRoot, r), k), Blob!Power(y, r))
  BY <1>1, PowersSwap
<1>6. Same(Blob!Power(z, r), Blob!Power(x, r) * Blob!Power(y, r))
  <2> HIDE DEF x, y, z
  <2> QED
    BY <1>2, <1>3, PowerOfProduct
<1>7. Same(Blob!Power(Blob!Power(Generator, r), j) * Blob!Power(Blob!Power(BackRoot, r), k),
           Blob!Power(x, r) * Blob!Power(y, r))
  BY <1>4, <1>5, SameProduct
<1> QED
  BY <1>6, <1>7, SameBack, SameChain

\* The part of the i-th point in the k-th coefficient, and what it consists of.
PointOf(x, i) == Blob!Power(x, Blob!Reversed[BlobBits][i])

Returned(e, n, k) ==
    [i \in Nat |-> [j \in Nat |->
        Coefficients(e, n)[j] * Blob!Power(Root(j, k), Blob!Reversed[BlobBits][i])]]

(* What these are, element by element. *)
LEMMA ReturnedAre ==
  ASSUME NEW n \in Nat, NEW e \in [1 .. n -> Int], NEW k \in Nat
  PROVE  /\ Returned(e, n, k) \in [Nat -> [Nat -> Int]]
         /\ \A i \in Nat : \A j \in Nat :
              Returned(e, n, k)[i][j]
                  = Coefficients(e, n)[j] * ReversedPowers(Root(j, k), BlobBits)[i]
<1>1. \A j \in Nat : Root(j, k) \in Int
  BY InverseIs, PowerStep, Product DEF Root
<1>2. Coefficients(e, n) \in [Nat -> Int]
  <2>1. 0 \in Int
    OBVIOUS
  <2> QED
    BY <2>1, PartsAre
<1>3. BlobBits \in Nat
  BY FieldIs
<1>4. ASSUME NEW i \in Nat, NEW j \in Nat
      PROVE  Coefficients(e, n)[j] * Blob!Power(Root(j, k), Blob!Reversed[BlobBits][i]) \in Int
  <2>1. Blob!Reversed[BlobBits][i] \in Nat
    BY <1>3, ReversedIs
  <2>2. Blob!Power(Root(j, k), Blob!Reversed[BlobBits][i]) \in Int
    BY <1>1, <2>1, PowerStep
  <2> QED
    BY <1>2, <2>2, Product
<1>5. Returned(e, n, k) \in [Nat -> [Nat -> Int]]
  BY <1>4 DEF Returned
<1>6. \A i \in Nat : \A j \in Nat :
         Returned(e, n, k)[i][j] = Coefficients(e, n)[j] * ReversedPowers(Root(j, k), BlobBits)[i]
  BY DEF Returned, ReversedPowers
<1> QED
  BY <1>5, <1>6

(* The value at a point, multiplied for the k-th coefficient, *)
LEMMA PointReturns ==
  ASSUME NEW n \in Nat, NEW e \in [1 .. n -> Int], NEW k \in Nat, NEW i \in Nat
  PROVE  Same(Blob!Horner(e, PointOf(Generator, i)) * Blob!Power(PointOf(BackRoot, i), k),
              RowSums(Returned(e, n, k), n)[i])
<1> DEFINE r == Blob!Reversed[BlobBits][i]
           x == PointOf(Generator, i)
           y == Blob!Power(PointOf(BackRoot, i), k)
           c == Coefficients(e, n)
           t == Parts(e, n, x)
           f == [j \in Nat |-> y * t[j]]
           g == [j \in Nat |-> Returned(e, n, k)[i][j]]
<1>1. r \in Nat
  BY FieldIs, ReversedIs
<1>2. x \in Int /\ y \in Int
  <2>1. x \in Int /\ PointOf(BackRoot, i) \in Int
    BY <1>1, InverseIs, PowerStep DEF PointOf
  <2> QED
    BY <2>1, PowerStep
<1>3. /\ c \in [Nat -> Int] /\ t \in [Nat -> Int]
      /\ \A j \in Nat : t[j] = c[j] * Blob!Power(x, j)
  <2> HIDE DEF x
  <2> QED
    BY <1>2, PartsAre
<1>4. Same(Blob!Horner(e, x), SumTo(t, n))
  <2> HIDE DEF x
  <2> QED
    BY <1>2, HornerIs
<1>5. ASSUME NEW j \in Nat PROVE Same(f[j], g[j])
  <2> DEFINE b == Blob!Power(x, j)
             z == Blob!Power(Root(j, k), r)
  <2>1. Same(b * y, z)
    BY <1>1, RootAtPoint DEF PointOf
  <2>2. b \in Int /\ c[j] \in Int
    <3> HIDE DEF x, c
    <3> QED
      BY <1>2, <1>3, PowerStep
  <2>3. f[j] = y * (c[j] * b)
    <3> HIDE DEF t, x, y, c
    <3> QED
      BY <1>3
  <2>4. g[j] = c[j] * z
    BY DEF Returned
  <2> HIDE DEF b, z, c, y, f, g, r, x, t
  <2>5. y * (c[j] * b) = c[j] * (b * y)
    BY <1>2, <2>2
  <2>6. Same(c[j] * (b * y), c[j] * z)
    BY <2>1, <2>2, SameItself, SameProduct
  <2> QED
    BY <2>3, <2>4, <2>5, <2>6
<1>6. g \in [Nat -> Int]
  <2> DEFINE a == Returned(e, n, k)
  <2>1. a \in [Nat -> [Nat -> Int]]
    BY ReturnedAre
  <2> HIDE DEF a
  <2>2. [j \in Nat |-> a[i][j]] \in [Nat -> Int]
    BY <2>1
  <2> QED
    BY <2>2 DEF a
<1>7. RowSums(Returned(e, n, k), n)[i] = SumTo(g, n)
  BY DEF RowSums
<1> HIDE DEF x, y, c, t, g, r
<1>8. f \in [Nat -> Int] /\ \A j \in Nat : f[j] = y * t[j]
  <2>1. \A j \in Nat : y * t[j] \in Int
    BY <1>2, <1>3, Product
  <2> QED
    BY <2>1
<1> HIDE DEF f
<1>9. SumTo(f, n) = y * SumTo(t, n) /\ SumTo(t, n) \in Int
  BY <1>2, <1>3, <1>8, SumScales, SumIs, ZenonT(30)
<1>10. Same(SumTo(f, n), SumTo(g, n))
  <2>1. \A j \in 0 .. n - 1 : Same(f[j], g[j])
    BY <1>5
  <2> QED
    BY <1>6, <1>8, <2>1, SumSame
<1>11. Same(Blob!Horner(e, x) * y, SumTo(t, n) * y)
  BY <1>2, <1>4, SameItself, SameProduct
<1>12. SumTo(t, n) * y = SumTo(f, n)
  BY <1>2, <1>9
<1>13. Same(Blob!Horner(e, x) * y, SumTo(g, n))
  BY <1>10, <1>11, <1>12, SameChain
<1> QED
  BY <1>7, <1>13 DEF x, y

(* and over all points gives back that coefficient alone, as often as there are points. *)
LEMMA PointsReturn ==
  ASSUME NEW n, n = Blob!BlobLen, NEW e \in [1 .. n -> Int], NEW k \in 0 .. n - 1
  PROVE  Same(SumTo(RowSums(Returned(e, n, k), n), n), n * e[k + 1])
<1> DEFINE a == Returned(e, n, k)
           c == Coefficients(e, n)
           s == ColumnSums(a, n)
<1>1. n \in Nat /\ k \in Nat
  BY FieldIs, TwoIs DEF Blob!BlobLen
<1>2. /\ a \in [Nat -> [Nat -> Int]]
      /\ \A i \in Nat : \A j \in Nat : a[i][j] = c[j] * ReversedPowers(Root(j, k), BlobBits)[i]
  BY <1>1, ReturnedAre, ZenonT(30)
<1>3. c \in [Nat -> Int] /\ c[k] = e[k + 1]
  <2>1. 0 \in Int
    OBVIOUS
  <2> QED
    BY <1>1, <2>1, PartsAre
<1> HIDE DEF a, c
<1>4. SumTo(RowSums(a, n), n) = SumTo(s, n)
  BY <1>1, <1>2, SumSwaps
<1>5. s \in [Nat -> Int]
  <2>1. \A j \in Nat : [i \in Nat |-> a[i][j]] \in [Nat -> Int]
    BY <1>2
  <2>2. \A j \in Nat : SumTo([i \in Nat |-> a[i][j]], n) \in Int
    BY <1>1, <2>1, SumIs
  <2> QED
    BY <2>2 DEF ColumnSums
<1>6. ASSUME NEW j \in 0 .. n - 1
      PROVE  s[j] = c[j] * SumTo(ReversedPowers(Root(j, k), BlobBits), n)
  <2> DEFINE f == ReversedPowers(Root(j, k), BlobBits)
             g == [i \in Nat |-> a[i][j]]
  <2>1. Root(j, k) \in Int /\ j \in Nat
    BY RootIs
  <2>2. f \in [Nat -> Int]
    BY <2>1, FieldIs, ReversedPowersAre
  <2>3. g \in [Nat -> Int] /\ \A i \in Nat : g[i] = c[j] * f[i]
    BY <1>2, <2>1
  <2>4. s[j] = SumTo(g, n)
    BY <2>1 DEF ColumnSums
  <2>5. c[j] \in Int
    BY <1>3, <2>1
  <2> HIDE DEF f, g
  <2>6. SumTo(g, n) = c[j] * SumTo(f, n)
    <3> DEFINE d == c[j]
    <3>1. d \in Int /\ \A i \in Nat : g[i] = d * f[i]
      BY <2>3, <2>5
    <3> HIDE DEF d
    <3>2. SumTo(g, n) = d * SumTo(f, n)
      BY <1>1, <2>2, <2>3, <3>1, SumScales
    <3> QED
      BY <3>2 DEF d
  <2> QED
    BY <2>4, <2>6 DEF f
<1> HIDE DEF s
<1>7. ASSUME NEW j \in 0 .. n - 1, j # k PROVE Same(s[j], 0)
  <2> DEFINE z == Root(j, k)
             g == SumTo(ReversedPowers(z, BlobBits), n)
  <2>1. z \in Int /\ Same(Blob!Power(z, n), 1) /\ ~Same(z, 1)
    BY <1>7, RootIs
  <2>2. Same(g, 0)
    <3> HIDE DEF z
    <3> QED
      BY <2>1, RootsCancel
  <2>3. s[j] = c[j] * g /\ c[j] \in Int
    BY <1>3, <1>6
  <2> HIDE DEF g
  <2>4. Same(c[j] * g, c[j] * 0) /\ c[j] * 0 = 0
    BY <2>2, <2>3, SameItself, SameProduct
  <2> QED
    BY <2>3, <2>4
<1>8. Same(s[k], n * c[k])
  <2> DEFINE z == Root(k, k)
             g == SumTo(ReversedPowers(z, BlobBits), n)
  <2>1. z \in Int /\ Same(z, 1)
    BY RootIs
  <2>2. Same(g, n)
    <3> HIDE DEF z
    <3> QED
      BY <2>1, OnesAdd
  <2>3. s[k] = c[k] * g /\ c[k] \in Int
    BY <1>1, <1>3, <1>6
  <2> HIDE DEF g
  <2>4. Same(c[k] * g, c[k] * n) /\ c[k] * n = n * c[k]
    BY <1>1, <2>2, <2>3, SameItself, SameProduct
  <2> QED
    BY <2>3, <2>4
<1>9. Same(SumTo(s, n), s[k])
  BY <1>1, <1>5, <1>7, SumOfOne
<1>10. Same(SumTo(s, n), n * e[k + 1])
  BY <1>3, <1>8, <1>9, SameChain
<1> QED
  BY <1>4, <1>10 DEF a

(* The reader recovers what has been transformed, up to multiples of the modulus. *)
LEMMA TransformInverts ==
  ASSUME NEW n, n = Blob!BlobLen, NEW e \in [1 .. n -> Int],
         blob = [i \in 1 .. n |-> Blob!Horner(e, Blob!PointsOf(Generator)[i])]
  PROVE  /\ n \in Nat /\ DOMAIN Blob!Recovered = 1 .. n
         /\ \A k \in 1 .. n : Blob!Recovered[k] = e[k] % Modulus
<1> DEFINE back == Blob!PointsOf(BackRoot)
           u == Blob!Reciprocal(n)
           f(k) == [i \in 1 .. n |-> blob[i] * Blob!Power(back[i], k - 1)]
<1>1. n \in Nat /\ n \in 1 .. Modulus - 1
  BY FieldIs, TwoIs, TwoGrows DEF Blob!BlobLen
<1>2. u \in Int /\ Same(n * u, 1)
  BY <1>1, ReciprocalIs
<1>3. \A i \in 1 .. n : /\ back[i] = PointOf(BackRoot, i - 1)
                        /\ Blob!PointsOf(Generator)[i] = PointOf(Generator, i - 1)
  BY DEF Blob!PointsOf, PointOf
<1>4. Blob!Recovered = [k \in 1 .. n |-> (u * Blob!FoldFunction(+, 0, f(k))) % Modulus]
  BY Zenon DEF Blob!Recovered, BackRoot
<1>5. ASSUME NEW k \in 1 .. n
      PROVE  (u * Blob!FoldFunction(+, 0, f(k))) % Modulus = e[k] % Modulus
  <2> DEFINE a == Returned(e, n, k - 1)
             b(i) == Blob!Horner(e, PointOf(Generator, i)) * Blob!Power(PointOf(BackRoot, i), k - 1)
             g == [i \in Nat |-> IF i < n THEN b(i) ELSE 0]
             total == SumTo(g, n)
  <2>1. k - 1 \in Nat /\ k - 1 \in 0 .. n - 1 /\ (k - 1) + 1 = k /\ e[k] \in Int
    <3>1. k - 1 \in Nat /\ k - 1 \in 0 .. n - 1 /\ (k - 1) + 1 = k
      BY <1>1
    <3> HIDE DEF a, b, g, total, f, back, u
    <3> QED
      BY <3>1
  <2>2. \A i \in Nat : Same(b(i), RowSums(a, n)[i])
    BY <1>1, <2>1, PointReturns
  <2>3. \A i \in Nat : b(i) \in Int
    BY <2>2 DEF Same
  <2> HIDE DEF b
  <2>4. g \in [Nat -> Int] /\ \A i \in 0 .. n - 1 : g[i] = b(i)
    <3>1. \A i \in Nat : (IF i < n THEN b(i) ELSE 0) \in Int
      BY <2>3
    <3>2. \A i \in 0 .. n - 1 : i \in Nat /\ i < n
      BY <1>1
    <3> QED
      BY <3>1, <3>2
  <2>5. \A i \in 1 .. n : f(k)[i] = b(i - 1)
    BY <1>3 DEF b
  <2>6. f(k) \in [1 .. n -> Int] /\ \A i \in 0 .. n - 1 : g[i] = f(k)[i + 1]
    <3> DEFINE h == f(k)
    <3>1. DOMAIN h = 1 .. n /\ h = [i \in 1 .. n |-> h[i]]
      OBVIOUS
    <3>2. \A i \in 1 .. n : h[i] = b(i - 1) /\ b(i - 1) \in Int
      <4>1. \A i \in 1 .. n : i - 1 \in Nat
        OBVIOUS
      <4> QED
        BY <2>3, <2>5, <4>1
    <3> HIDE DEF h
    <3>3. h \in [1 .. n -> Int]
      BY <3>1, <3>2
    <3>4. \A i \in 0 .. n - 1 : g[i] = h[i + 1]
      <4> TAKE i \in 0 .. n - 1
      <4>1. i + 1 \in 1 .. n /\ (i + 1) - 1 = i
        BY <1>1
      <4> QED
        BY <2>4, <3>2, <4>1
    <3> QED
      BY <3>3, <3>4 DEF h
  <2>7. Blob!FoldFunction(+, 0, f(k)) = total
    <3> HIDE DEF f, g
    <3> QED
      BY <1>1, <2>4, <2>6, FoldIsSum
  <2>8. RowSums(a, n) \in [Nat -> Int]
    <3>1. a \in [Nat -> [Nat -> Int]]
      BY <1>1, <2>1, ReturnedAre
    <3> HIDE DEF a
    <3>2. \A i \in Nat : [j \in Nat |-> a[i][j]] \in [Nat -> Int]
      BY <3>1
    <3>3. \A i \in Nat : SumTo([j \in Nat |-> a[i][j]], n) \in Int
      BY <1>1, <3>2, SumIs
    <3> QED
      BY <3>3 DEF RowSums
  <2>9. Same(total, SumTo(RowSums(a, n), n))
    <3>1. \A i \in 0 .. n - 1 : Same(g[i], RowSums(a, n)[i])
      BY <2>2, <2>4
    <3> HIDE DEF g, a
    <3> QED
      BY <1>1, <2>4, <2>8, <3>1, SumSame
  <2>10. Same(SumTo(RowSums(a, n), n), n * e[k])
    <3> DEFINE p == k - 1
    <3>1. p \in 0 .. n - 1 /\ p + 1 = k
      BY <2>1
    <3> HIDE DEF p
    <3>2. Same(SumTo(RowSums(Returned(e, n, p), n), n), n * e[p + 1])
      BY <3>1, PointsReturn
    <3> QED
      BY <3>1, <3>2 DEF p
  <2>11. Same(total, n * e[k])
    BY <2>9, <2>10, SameChain
  <2> HIDE DEF total, f
  <2>12. Same(u * total, u * (n * e[k]))
    BY <1>2, <2>11, SameItself, SameProduct
  <2>13. u * (n * e[k]) = (n * u) * e[k]
    BY <1>1, <1>2, <2>1
  <2>14. Same((n * u) * e[k], 1 * e[k]) /\ 1 * e[k] = e[k]
    BY <1>2, <2>1, SameItself, SameProduct
  <2>15. Same(u * total, e[k])
    BY <2>12, <2>13, <2>14, SameChain
  <2> DEFINE v == u * total
  <2>16. v \in Int /\ Same(v, e[k])
    BY <2>15 DEF Same
  <2> HIDE DEF v
  <2>17. /\ Same(v % Modulus, v) /\ v % Modulus \in 0 .. Modulus - 1
         /\ Same(e[k] % Modulus, e[k]) /\ e[k] % Modulus \in 0 .. Modulus - 1
    BY <2>1, <2>16, SameRest
  <2>18. Same(v % Modulus, e[k] % Modulus)
    BY <2>16, <2>17, SameBack, SameChain
  <2>19. v % Modulus = e[k] % Modulus
    BY <2>17, <2>18, SameSmall
  <2> QED
    BY <2>7, <2>19 DEF v
<1> HIDE DEF f, u
<1>6. DOMAIN Blob!Recovered = 1 .. n
  BY <1>4
<1>7. \A k \in 1 .. n : Blob!Recovered[k] = (u * Blob!FoldFunction(+, 0, f(k))) % Modulus
  BY <1>4
<1> QED
  BY <1>1, <1>5, <1>6, <1>7

-------------------------------------------------------------------------------
(* The words of a contract *)

(* BlobData counts with the same operator. *)
LEMMA BlobCardinalityIs ==
  ASSUME NEW T
  PROVE  Blob!Cardinality(T) = Cardinality(T)
BY Zenon DEF Blob!Cardinality, Cardinality

(* Sorted lists every element. *)
LEMMA SortedIs ==
  ASSUME NEW S, S \subseteq Nat, IsFiniteSet(S), NEW n, n = Cardinality(S)
  PROVE  /\ n \in Nat /\ Blob!Sorted(S) \in [1 .. n -> S]
         /\ \A x \in S : \E i \in 1 .. n : Blob!Sorted(S)[i] = x
<1> DEFINE s == Blob!Sorted(S)
           rank(x) == Cardinality(Below(S, x))
<1>1. n \in Nat
  BY FS_CardinalityType
<1>2. \A x : Blob!Cardinality({y \in S : y < x}) = rank(x)
  BY BlobCardinalityIs, Zenon DEF Below
<1>3. s = [i \in 1 .. n |-> CHOOSE x \in S : rank(x) = i - 1]
  <2>1. Blob!Cardinality(S) = n
    BY BlobCardinalityIs
  <2>2. s = [i \in 1 .. n |-> CHOOSE x \in S : Blob!Cardinality({y \in S : y < x}) = i - 1]
    BY <2>1, Zenon DEF Blob!Sorted
  <2> HIDE DEF s, rank
  <2> QED
    BY <1>2, <2>2
<1>4. ASSUME NEW i \in 1 .. n PROVE \E x \in S : rank(x) = i - 1
  <2> DEFINE k == i - 1
  <2>1. k \in Nat /\ k < Cardinality(S)
    BY <1>1
  <2> HIDE DEF k
  <2>2. \E x \in S : Cardinality(Below(S, x)) = k
    BY <2>1, RankExists
  <2> QED
    BY <2>2 DEF k
<1>5. \A i \in 1 .. n : s[i] \in S /\ rank(s[i]) = i - 1
  <2> TAKE i \in 1 .. n
  <2> DEFINE c == CHOOSE x \in S : rank(x) = i - 1
  <2>1. s[i] = c
    BY <1>3
  <2>2. c \in S /\ rank(c) = i - 1
    <3> HIDE DEF rank
    <3> QED
      BY <1>4
  <2> HIDE DEF s, c
  <2> QED
    BY <2>1, <2>2
<1>6. s \in [1 .. n -> S]
  <2> HIDE DEF rank
  <2> QED
    BY <1>3, <1>5
<1>7. ASSUME NEW x \in S PROVE rank(x) \in 0 .. n - 1
  <2>1. Below(S, x) \subseteq S /\ Below(S, x) # S
    BY DEF Below
  <2>2. Cardinality(Below(S, x)) < Cardinality(S) /\ Cardinality(Below(S, x)) \in Nat
    BY <2>1, FS_Subset, FS_CardinalityType
  <2> QED
    BY <1>1, <2>2
<1>8. ASSUME NEW x \in S, NEW y \in S, x < y PROVE rank(x) < rank(y)
  <2> DEFINE A == Below(S, x)
             B == Below(S, y)
  <2>1. \A z \in S : z \in Nat
    OBVIOUS
  <2>2. \A z \in S : z < x => z < y
    BY <1>8, <2>1
  <2>3. A \subseteq B /\ x \in B /\ B \subseteq S
    BY <1>8, <2>2 DEF Below
  <2>4. x \notin A
    BY <2>1 DEF Below
  <2>5. IsFiniteSet(B)
    BY <2>3, FS_Subset
  <2> HIDE DEF A, B
  <2>6. Cardinality(A) < Cardinality(B)
    <3>1. Cardinality(A) <= Cardinality(B) /\ Cardinality(A) # Cardinality(B)
      BY <2>3, <2>4, <2>5, FS_Subset, Zenon
    <3>2. Cardinality(A) \in Nat /\ Cardinality(B) \in Nat
      BY <2>3, <2>5, FS_Subset, FS_CardinalityType
    <3> QED
      BY <3>1, <3>2
  <2> QED
    BY <2>6 DEF A, B
<1> HIDE DEF s, rank
<1>9. ASSUME NEW x \in S PROVE \E i \in 1 .. n : s[i] = x
  <2> DEFINE i == rank(x) + 1
  <2>1. i \in 1 .. n /\ i - 1 = rank(x) /\ rank(x) \in Nat
    BY <1>1, <1>7
  <2> HIDE DEF i
  <2>2. s[i] \in S /\ rank(s[i]) = rank(x)
    BY <1>5, <2>1
  <2> DEFINE y == s[i]
  <2> HIDE DEF y
  <2>3. y \in S /\ rank(y) = rank(x)
    BY <2>2 DEF y
  <2>4. ~(y < x) /\ ~(x < y)
    BY <1>8, <2>1, <2>3
  <2>5. y \in Nat /\ x \in Nat
    BY <2>3
  <2>6. y = x
    BY <2>4, <2>5
  <2> QED
    BY <2>1, <2>6 DEF y
<1> QED
  BY <1>1, <1>6, <1>9 DEF s

\* p is n keys, each followed by its value.
Paired(p, keys, value, n) ==
    /\ p \in Seq(Nat) /\ Len(p) = 2 * n
    /\ \A i \in 1 .. n : p[2 * i - 1] = keys[i] /\ p[2 * i] = value[keys[i]]

\* Each of n keys has a number as its value.
Valued(keys, value, n) == \A i \in 1 .. n : value[keys[i]] \in Nat

(* Where Pairs has the keys, and where their values. *)
LEMMA PairsPut ==
  ASSUME NEW n \in Nat, NEW keys \in [1 .. n -> Nat], NEW value,
         Valued(keys, value, n), NEW p, p = Blob!Pairs(keys, value)
  PROVE  Paired(p, keys, value, n)
<1> DEFINE at(i) == IF i % 2 = 1 THEN keys[(i + 1) \div 2] ELSE value[keys[i \div 2]]
<1>1. Len(keys) = n
  OBVIOUS
<1>2. p = [i \in 1 .. 2 * n |-> at(i)]
  <2>1. p = [i \in 1 .. 2 * Len(keys) |->
                IF i % 2 = 1 THEN keys[(i + 1) \div 2] ELSE value[keys[i \div 2]]]
    BY Zenon DEF Blob!Pairs
  <2> QED
    BY <1>1, <2>1, Zenon
<1>3. ASSUME NEW i \in 1 .. 2 * n PROVE at(i) \in Nat
  <2>1. CASE i % 2 = 1
    <3>1. (i + 1) \div 2 \in 1 .. n
      BY <2>1
    <3> QED
      BY <2>1, <3>1
  <2>2. CASE i % 2 # 1
    <3>1. i \div 2 \in 1 .. n
      BY <2>2
    <3> QED
      BY <2>2, <3>1 DEF Valued
  <2> QED
    BY <2>1, <2>2
<1>4. ASSUME NEW i \in 1 .. n
      PROVE  /\ 2 * i - 1 \in 1 .. 2 * n /\ at(2 * i - 1) = keys[i]
             /\ 2 * i \in 1 .. 2 * n /\ at(2 * i) = value[keys[i]]
  <2>1. /\ 2 * i - 1 \in 1 .. 2 * n /\ (2 * i - 1) % 2 = 1 /\ ((2 * i - 1) + 1) \div 2 = i
        /\ 2 * i \in 1 .. 2 * n /\ (2 * i) % 2 = 0 /\ (2 * i) \div 2 = i
    OBVIOUS
  <2> QED
    BY <2>1
<1> HIDE DEF at
<1>5. p \in [1 .. 2 * n -> Nat] /\ 2 * n \in Nat
  BY <1>2, <1>3
<1>6. p \in Seq(Nat) /\ Len(p) = 2 * n
  <2> DEFINE k == 2 * n
  <2>1. k \in Nat /\ p \in [1 .. k -> Nat]
    BY <1>5
  <2> HIDE DEF k
  <2>2. p \in Seq(Nat) /\ Len(p) = k
    BY <2>1
  <2> QED
    BY <2>2 DEF k
<1>7. \A i \in 1 .. n : p[2 * i - 1] = at(2 * i - 1) /\ p[2 * i] = at(2 * i)
  BY <1>2, <1>4
<1> QED
  <2>1. ASSUME NEW i \in 1 .. n PROVE p[2 * i - 1] = keys[i] /\ p[2 * i] = value[keys[i]]
    <3> DEFINE odd == 2 * i - 1
               even == 2 * i
    <3>1. at(odd) = keys[i] /\ at(even) = value[keys[i]]
      BY <1>4
    <3>2. p[odd] = at(odd) /\ p[even] = at(even)
      BY <1>7
    <3> HIDE DEF odd, even
    <3>3. p[odd] = keys[i] /\ p[even] = value[keys[i]]
      BY <3>1, <3>2
    <3> QED
      BY <3>3 DEF odd, even
  <2> QED
    BY <1>6, <2>1, Zenon DEF Paired

\* data has, from `at` on, the words of a contract: its address a and its DA word w, the
\* new class if f is 1, and n pairs of a key and its value.
Wrote(data, at, a, w, f, class, n, keys, value) ==
    /\ data[at] = a /\ data[at + 1] = w
    /\ f = 1 => data[at + 2] = class
    /\ \A i \in 0 .. n - 1 : /\ data[at + 2 + f + 2 * i] = keys[i + 1]
                             /\ data[at + 2 + f + 2 * i + 1] = value[keys[i + 1]]

Behind(m, at, f, g, i, j, odd, even, first, second) ==
    /\ m \in Nat /\ f \in Nat /\ i \in Nat
    /\ at = m + 1 /\ g = 2 + f /\ j = i + 1 /\ odd = 2 * j - 1 /\ even = 2 * j
    /\ first = at + 2 + f + 2 * i /\ second = at + 2 + f + 2 * i + 1

(* Positions behind m words, one way and another. *)
LEMMA Places ==
  ASSUME NEW m, NEW at, NEW f, NEW g, NEW i, NEW j, NEW odd, NEW even,
         NEW first, NEW second, Behind(m, at, f, g, i, j, odd, even, first, second)
  PROVE  first = (odd + g) + m /\ second = (even + g) + m
BY DEF Behind

\* text is s and behind itthe words of a contract.
Puts(s, at, a, w, flag, f, class, n, keys, value, text) ==
    /\ s \in Seq(Nat) /\ at = Len(s) + 1 /\ a \in Nat /\ w \in Nat /\ class \in Nat
    /\ flag \in BOOLEAN /\ f = (IF flag THEN 1 ELSE 0)
    /\ n \in Nat /\ keys \in [1 .. n -> Nat] /\ Valued(keys, value, n)
    /\ text = s \o (<<a, w>> \o (IF flag THEN <<class>> ELSE <<>>) \o Blob!Pairs(keys, value))

\* text is as much longer than s.
Longer(text, s, f, n) == Len(text) = Len(s) + 2 + f + 2 * n

(* Where ContractWords puts what. *)
LEMMA WordsPut ==
  ASSUME NEW s, NEW at, NEW a, NEW w, NEW flag, NEW f, NEW class, NEW n, NEW keys, NEW value,
         NEW st, Puts(s, at, a, w, flag, f, class, n, keys, value, st)
  PROVE  /\ st \in Seq(Nat) /\ Longer(st, s, f, n) /\ Len(s) \in Nat
         /\ \A i \in 1 .. Len(s) : st[i] = s[i]
         /\ Wrote(st, at, a, w, f, class, n, keys, value)
<1> SUFFICES ASSUME s \in Seq(Nat), at = Len(s) + 1, a \in Nat, w \in Nat, class \in Nat,
                    flag \in BOOLEAN, f = (IF flag THEN 1 ELSE 0),
                    n \in Nat, keys \in [1 .. n -> Nat], Valued(keys, value, n),
                    st = s \o (<<a, w>> \o (IF flag THEN <<class>> ELSE <<>>)
                                    \o Blob!Pairs(keys, value))
             PROVE  /\ st \in Seq(Nat) /\ Longer(st, s, f, n) /\ Len(s) \in Nat
                    /\ \A i \in 1 .. Len(s) : st[i] = s[i]
                    /\ Wrote(st, at, a, w, f, class, n, keys, value)
  BY DEF Puts
<1> DEFINE x == <<a, w>>
           y == IF flag THEN <<class>> ELSE <<>>
           z == Blob!Pairs(keys, value)
           xy == x \o y
           xyz == xy \o z
           m == Len(s)
<1>1. x \in Seq(Nat) /\ Len(x) = 2 /\ x[1] = a /\ x[2] = w
  OBVIOUS
<1>2. y \in Seq(Nat) /\ Len(y) = f /\ (f = 1 => y[1] = class) /\ f \in {0, 1}
  <2>1. CASE flag
    BY <2>1
  <2>2. CASE ~flag
    BY <2>2
  <2> QED
    BY <2>1, <2>2
<1>3. /\ z \in Seq(Nat) /\ Len(z) = 2 * n
      /\ \A i \in 1 .. n : z[2 * i - 1] = keys[i] /\ z[2 * i] = value[keys[i]]
  <2>1. Paired(z, keys, value, n)
    <3>1. z = Blob!Pairs(keys, value)
      OBVIOUS
    <3> HIDE DEF z
    <3> QED
      BY <3>1, PairsPut
  <2> QED
    BY <2>1 DEF Paired
<1>4. st = s \o xyz
  OBVIOUS
<1>5. m \in Nat /\ at = m + 1
  BY LenProperties
<1> HIDE DEF x, y, z, m
<1>6. Joins(xy, x, 2, y, f)
  BY <1>1, <1>2, Joined
<1>7. xy \in Seq(Nat) /\ Len(xy) = 2 + f
  BY <1>6 DEF Joins
<1> DEFINE g == 2 + f
           k == 2 * n
<1>8. g = Len(xy) /\ k = Len(z) /\ g \in Nat /\ k \in Nat
  BY <1>2, <1>3, <1>7
<1> HIDE DEF xy, g, k
<1>9. Joins(xyz, xy, g, z, k)
  BY <1>3, <1>7, <1>8, Joined
<1>10. xyz \in Seq(Nat) /\ Len(xyz) = g + k
  BY <1>9 DEF Joins
<1> DEFINE l == g + k
<1>11. l = Len(xyz) /\ m = Len(s)
  BY <1>10 DEF m
<1> HIDE DEF xyz, l
<1>12. Joins(st, s, m, xyz, l)
  BY <1>4, <1>10, <1>11, Joined
<1>13. st \in Seq(Nat) /\ Len(st) = m + l /\ \A i \in 1 .. m : st[i] = s[i]
  BY <1>12 DEF Joins
<1>14. l \in Nat /\ l = 2 + f + 2 * n
  BY <1>2, <1>8 DEF l, g, k
<1>15. \A i \in 1 .. 2 : st[i + m] = x[i]
  <2> TAKE i \in 1 .. 2
  <2>1. i \in 1 .. g /\ i \in 1 .. l
    BY <1>2, <1>8 DEF l, g
  <2>2. st[i + m] = xyz[i] /\ xyz[i] = xy[i]
    BY <1>9, <1>12, <2>1 DEF Joins
  <2>3. xy[i] = x[i]
    BY <1>6 DEF Joins
  <2> QED
    BY <2>2, <2>3
<1>16. ASSUME f = 1 PROVE st[3 + m] = class
  <2> DEFINE one == 1
             three == one + 2
  <2>1. three \in 1 .. g /\ three \in 1 .. l /\ one \in 1 .. f
    BY <1>8, <1>16 DEF l, g
  <2>2. three = 3 /\ one = 1 /\ three = one + 2
    OBVIOUS
  <2> HIDE DEF one, three
  <2>3. st[three + m] = xyz[three] /\ xyz[three] = xy[three]
    BY <1>9, <1>12, <2>1 DEF Joins
  <2>4. xy[one + 2] = y[one]
    BY <1>6, <2>1 DEF Joins
  <2>5. st[three + m] = y[one]
    BY <2>2, <2>3, <2>4
  <2> QED
    BY <1>2, <1>16, <2>2, <2>5
<1>17. \A i \in 1 .. k : st[(i + g) + m] = z[i]
  <2> TAKE i \in 1 .. k
  <2>1. i + g \in 1 .. l
    BY <1>8 DEF l
  <2>2. st[(i + g) + m] = xyz[i + g] /\ xyz[i + g] = z[i]
    BY <1>9, <1>12, <2>1 DEF Joins
  <2> QED
    BY <2>2
<1>18. st[at] = a /\ st[at + 1] = w
  <2> DEFINE one == 1
             two == 2
  <2>1. st[one + m] = x[one] /\ st[two + m] = x[two]
    <3>1. one \in 1 .. 2 /\ two \in 1 .. 2
      OBVIOUS
    <3> HIDE DEF one, two
    <3> QED
      BY <1>15, <3>1
  <2>2. at = 1 + m /\ at + 1 = 2 + m
    BY <1>5
  <2> QED
    BY <1>1, <2>1, <2>2
<1>19. f = 1 => st[at + 2] = class
  <2>1. at + 2 = 3 + m
    BY <1>5
  <2> QED
    BY <1>16, <2>1
<1>20. ASSUME NEW i \in 0 .. n - 1
       PROVE  /\ st[at + 2 + f + 2 * i] = keys[i + 1]
              /\ st[at + 2 + f + 2 * i + 1] = value[keys[i + 1]]
  <2> DEFINE j == i + 1
             odd == 2 * j - 1
             even == 2 * j
  <2>1. j \in 1 .. n /\ odd \in 1 .. k /\ even \in 1 .. k
    BY DEF k
  <2>2. z[odd] = keys[j] /\ z[even] = value[keys[j]]
    BY <1>3, <2>1
  <2> DEFINE first == at + 2 + f + 2 * i
             second == at + 2 + f + 2 * i + 1
  <2>3. first = (odd + g) + m /\ second = (even + g) + m
    <3>1. f \in Nat /\ m \in Nat /\ i \in Nat /\ at = m + 1
      BY <1>2, <1>5
    <3>2. Behind(m, at, f, g, i, j, odd, even, first, second)
      BY <3>1 DEF Behind, g
    <3> HIDE DEF j, odd, even, first, second
    <3> QED
      BY <3>2, Places
  <2> HIDE DEF odd, even, first, second
  <2>4. st[(odd + g) + m] = z[odd] /\ st[(even + g) + m] = z[even]
    BY <1>17, <2>1
  <2>5. st[first] = keys[j] /\ st[second] = value[keys[j]]
    BY <2>2, <2>3, <2>4
  <2> QED
    BY <2>5 DEF j, first, second
<1>21. Wrote(st, at, a, w, f, class, n, keys, value)
  BY <1>18, <1>19, <1>20 DEF Wrote
<1>22. Len(st) = m + 2 + f + 2 * n
  <2>1. f \in Nat /\ m \in Nat
    BY <1>2, <1>5
  <2>2. Len(st) = m + (2 + f + 2 * n)
    BY <1>13, <1>14
  <2> DEFINE length == Len(st)
  <2>3. length = m + (2 + f + 2 * n)
    BY <2>2
  <2> HIDE DEF length
  <2>4. length = m + 2 + f + 2 * n
    BY <2>1, <2>3
  <2> QED
    BY <2>4 DEF length
<1> QED
  BY <1>5, <1>13, <1>21, <1>22 DEF m, Longer

-------------------------------------------------------------------------------
(* The contracts of a block *)

(* What the composition assumes of the contracts of a block. *)
LEMMA ContractIs ==
  ASSUME block \in Blocks, NEW a \in Blob!Address, NEW K, K = DOMAIN Blob!Is(a).storage
  PROVE  /\ a \in Blob!Felt /\ K \subseteq Blob!Felt /\ Cardinality(K) \in Blob!Field
         /\ Blob!Was(a) \in Blob!Contracts(K) /\ Blob!Is(a) \in Blob!Contracts(K)
         /\ a = Blob!SystemContract => Blob!Was(a).class = 0 /\ Blob!Is(a).class = 0
<1>1. Blob!BlockAssumption(block)
  BY BlockDataAssumption, Zenon DEF Blob!BlobDataAssumption
<1>2. Blob!Cardinality(K) = Cardinality(K)
  BY BlobCardinalityIs
<1> QED
  BY <1>1, <1>2 DEF Blob!BlockAssumption, Blob!Address, Blob!Was, Blob!Is

(* A contract is its three parts, and they have their types. *)
LEMMA RecordIs ==
  ASSUME NEW K, NEW c \in Blob!Contracts(K)
  PROVE  /\ c = [class |-> c.class, nonce |-> c.nonce, storage |-> c.storage]
         /\ c.class \in Blob!Felt /\ c.nonce \in Blob!Field /\ c.storage \in [K -> Blob!Felt]
         /\ c.class = 0 => c.nonce = 0
BY DEF Blob!Contracts

(* Both states have all the contracts. *)
LEMMA StatesAre ==
  ASSUME block \in Blocks
  PROVE  /\ Blob!Address \subseteq Blob!Felt
         /\ block.before = [a \in Blob!Address |-> block.before[a]]
         /\ block.after = [a \in Blob!Address |-> block.after[a]]
<1>1. Blob!BlockAssumption(block)
  BY BlockDataAssumption, Zenon DEF Blob!BlobDataAssumption
<1> QED
  BY <1>1 DEF Blob!BlockAssumption, Blob!Address

Flag(a)  == a \in Blob!Deployed \cup Blob!Replaced
Extra(a) == IF Flag(a) THEN 1 ELSE 0
Count(a) == Cardinality(Blob!Writes(a))
Keys(a)  == Blob!Sorted(Blob!Writes(a))
DaOf(a)  == Blob!DaWord(Flag(a), Blob!NonceFor(a), Count(a))

\* The words of a contract follow each other in the data from `at` on.
ContractAt(data, at, a) ==
    Wrote(data, at, a, DaOf(a), Extra(a), Blob!Is(a).class, Count(a), Keys(a),
          Blob!Is(a).storage)

(* The keys that a block writes are some of the contract's. *)
LEMMA WritesAre ==
  ASSUME block \in Blocks, NEW a \in Blob!Address, NEW K, K = DOMAIN Blob!Is(a).storage
  PROVE  /\ Blob!Writes(a) \subseteq K /\ Blob!Writes(a) \subseteq Blob!Felt
         /\ Blob!Felt \subseteq Nat /\ IsFiniteSet(Blob!Writes(a))
         /\ Count(a) \in Blob!Field /\ Count(a) \in Nat
         /\ Keys(a) \in [1 .. Count(a) -> Blob!Writes(a)]
         /\ \A x \in Blob!Writes(a) : \E i \in 1 .. Count(a) : Keys(a)[i] = x
         /\ Blob!Is(a).storage \in [K -> Blob!Felt]
<1>1. K \subseteq Blob!Felt /\ Cardinality(K) \in Blob!Field /\ Blob!Is(a) \in Blob!Contracts(K)
  BY ContractIs
<1>2. Blob!Writes(a) \subseteq K
  BY DEF Blob!Writes
<1>3. Blob!Felt = 0 .. Modulus - 1 /\ Modulus \in Nat /\ Blob!Felt \subseteq Nat
  BY FieldIs DEF Blob!Felt
<1>4. IsFiniteSet(K)
  <2>1. 0 \in Int /\ Modulus - 1 \in Int
    BY <1>3
  <2>2. IsFiniteSet(Blob!Felt)
    BY <1>3, <2>1, FS_Interval
  <2> QED
    BY <1>1, <2>2, FS_Subset
<1> DEFINE W == Blob!Writes(a)
           n == Cardinality(W)
<1>5. IsFiniteSet(W) /\ Cardinality(W) <= Cardinality(K) /\ W \subseteq Nat
  BY <1>1, <1>2, <1>3, <1>4, FS_Subset
<1> HIDE DEF W
<1>6. /\ n \in Nat /\ Blob!Sorted(W) \in [1 .. n -> W]
      /\ \A x \in W : \E i \in 1 .. n : Blob!Sorted(W)[i] = x
  BY <1>5, SortedIs
<1>7. n \in Blob!Field
  <2> DEFINE c == Cardinality(K)
             top == Blob!Two[WordBits]
  <2>1. c \in 0 .. top - 1 /\ n <= c /\ n \in Nat
    BY <1>1, <1>5, <1>6 DEF Blob!Field
  <2>2. top \in Nat
    BY TwoIs, FieldIs
  <2> HIDE DEF n, c, top
  <2>3. n \in 0 .. top - 1
    BY <2>1, <2>2
  <2> QED
    BY <2>3 DEF Blob!Field, top
<1>8. Blob!Is(a).storage \in [K -> Blob!Felt]
  BY <1>1, RecordIs
<1> QED
  BY <1>1, <1>2, <1>3, <1>5, <1>6, <1>7, <1>8 DEF W, Count, Keys

(* A contract whose storage, nonce or class is new, and what NonceFor finds of it. *)
LEMMA NonceIs ==
  ASSUME block \in Blocks, NEW a \in Blob!Touched
  PROVE  Blob!NonceFor(a) = Blob!Is(a).nonce
<1> DEFINE K == DOMAIN Blob!Is(a).storage
<1>1. a \in Blob!Address
  BY DEF Blob!Touched, Blob!StorageDiffs, Blob!Nonces, Blob!Deployed
<1>2. /\ Blob!Was(a) \in Blob!Contracts(K) /\ Blob!Is(a) \in Blob!Contracts(K)
      /\ a = Blob!SystemContract => Blob!Was(a).class = 0 /\ Blob!Is(a).class = 0
  BY <1>1, ContractIs
<1>3. /\ Blob!Was(a).class = 0 => Blob!Was(a).nonce = 0
      /\ Blob!Is(a).class = 0 => Blob!Is(a).nonce = 0
  BY <1>2, RecordIs
<1>4. ASSUME a \notin Blob!Nonces PROVE Blob!Is(a).nonce = Blob!Was(a).nonce
  BY <1>1, <1>4 DEF Blob!Nonces
<1>5. ASSUME a \notin Blob!Nonces, Blob!Writes(a) = {} PROVE Blob!Is(a).nonce = 0
  <2>1. a \in Blob!Deployed
    BY <1>5 DEF Blob!Touched, Blob!StorageDiffs
  <2>2. Blob!Was(a).class = 0
    BY <2>1 DEF Blob!Deployed
  <2> QED
    BY <1>3, <1>4, <1>5, <2>2
<1>6. ASSUME a = Blob!SystemContract PROVE Blob!Is(a).nonce = 0
  BY <1>2, <1>3, <1>6
<1> QED
  BY <1>5, <1>6 DEF Blob!NonceFor

(* A class that is not in the data has not changed. *)
LEMMA ClassStays ==
  ASSUME NEW a \in Blob!Address, ~Flag(a)
  PROVE  Blob!Was(a).class = Blob!Is(a).class
BY DEF Flag, Blob!Deployed, Blob!Replaced

-------------------------------------------------------------------------------
(* Reading *)

\* data has n keys from `at` on, each followed by its new value.
KeysPut(data, at, n, keys, new) ==
    \A i \in 0 .. n - 1 : data[at + 2 * i] = keys[i + 1]
                          /\ data[at + 2 * i + 1] = new[keys[i + 1]]

\* They are all the keys in K whose values differ.
Covered(K, old, new, n, keys) ==
    \A k \in K : old[k] = new[k] \/ \E i \in 1 .. n : keys[i] = k

(* With the keys and values of all that differs, Overwrite makes one storage of another. *)
LEMMA Overwrites ==
  ASSUME NEW K, NEW old, NEW new, DOMAIN old = K, new = [k \in K |-> new[k]],
         NEW n \in Nat, NEW at \in Nat, NEW keys \in [1 .. n -> Nat], NEW data,
         KeysPut(data, at, n, keys, new), Covered(K, old, new, n, keys)
  PROVE  Blob!Overwrite(old, data, at, n) = new
<1> DEFINE P == {at + 2 * i : i \in 0 .. n - 1}
           place(k) == CHOOSE p \in P : data[p] = k
           value(k) == IF \E i \in 0 .. n - 1 : data[at + 2 * i] = k
                       THEN data[1 + place(k)] ELSE old[k]
<1>1. Blob!Overwrite(old, data, at, n) = [k \in K |-> value(k)]
  BY Zenon DEF Blob!Overwrite
<1>2. ASSUME NEW k \in K, NEW i \in 0 .. n - 1, data[at + 2 * i] = k PROVE value(k) = new[k]
  <2>1. \E p \in P : data[p] = k
    BY <1>2
  <2>2. place(k) \in P /\ data[place(k)] = k
    <3> HIDE DEF P
    <3> QED
      BY <2>1
  <2> HIDE DEF place
  <2>3. PICK j \in 0 .. n - 1 : place(k) = at + 2 * j
    BY <2>2
  <2> DEFINE p == at + 2 * j
  <2>4. 1 + p = at + 2 * j + 1
    OBVIOUS
  <2>5. data[p] = keys[j + 1] /\ data[1 + p] = new[keys[j + 1]]
    BY <2>4 DEF KeysPut
  <2>6. data[1 + place(k)] = new[k]
    BY <2>2, <2>3, <2>5
  <2> QED
    BY <1>2, <2>6
<1>3. ASSUME NEW k \in K, ~\E i \in 0 .. n - 1 : data[at + 2 * i] = k PROVE value(k) = new[k]
  <2>1. ASSUME NEW i \in 1 .. n, keys[i] = k PROVE FALSE
    <3> DEFINE j == i - 1
    <3>1. j \in 0 .. n - 1 /\ j + 1 = i
      OBVIOUS
    <3> HIDE DEF j
    <3>2. data[at + 2 * j] = keys[j + 1]
      BY <3>1 DEF KeysPut
    <3> QED
      BY <1>3, <2>1, <3>1, <3>2
  <2> QED
    BY <1>3, <2>1 DEF Covered
<1> HIDE DEF value
<1>4. \A k \in K : value(k) = new[k]
  BY <1>2, <1>3
<1> QED
  BY <1>1, <1>4

\* The state in which these contracts are as after the block, the others as before.
StateAt(new) == [a \in Blob!Address |-> IF a \in new THEN block.after[a] ELSE block.before[a]]

\* Where the words of the next contract are.
Size(a) == 2 + Extra(a) + 2 * Count(a)

(* Its DA word says what of a contract there is to read. *)
LEMMA WordSays ==
  ASSUME block \in Blocks, NEW a \in Blob!Touched
  PROVE  /\ DaOf(a) \in Blob!Felt
         /\ Blob!Changes(DaOf(a)) = Count(a)
         /\ Blob!NewNonce(DaOf(a)) = Blob!Is(a).nonce
         /\ Blob!ClassFlag(DaOf(a)) = Extra(a)
<1> DEFINE K == DOMAIN Blob!Is(a).storage
           word == DaOf(a)
           nonce == Blob!NonceFor(a)
           changes == Count(a)
           flag == Flag(a)
<1>1. a \in Blob!Address
  BY DEF Blob!Touched, Blob!StorageDiffs, Blob!Nonces, Blob!Deployed
<1>2. nonce = Blob!Is(a).nonce
  BY NonceIs
<1>3. nonce \in Blob!Field
  <2>1. Blob!Is(a) \in Blob!Contracts(K)
    BY <1>1, ContractIs
  <2> QED
    BY <1>2, <2>1, RecordIs
<1>4. changes \in Blob!Field
  BY <1>1, WritesAre
<1>5. /\ flag \in BOOLEAN /\ word = Blob!DaWord(flag, nonce, changes)
      /\ Extra(a) = IF flag THEN 1 ELSE 0
  BY DEF Flag, DaOf, Extra
<1> HIDE DEF flag, word, nonce, changes
<1>6. /\ word \in Blob!Felt /\ Blob!Changes(word) = changes /\ Blob!NewNonce(word) = nonce
      /\ Blob!ClassFlag(word) = IF flag THEN 1 ELSE 0
  BY <1>3, <1>4, <1>5, FieldsApart
<1> QED
  BY <1>2, <1>5, <1>6 DEF word, changes

(* A reader makes of a contract before the block the contract after it, and of a contract *)
(* after it the same one.                                                                 *)
LEMMA ReadsOne ==
  ASSUME block \in Blocks, NEW a \in Blob!Touched, NEW new, NEW data, NEW at \in Nat,
         ContractAt(data, at, a), NEW reader, reader = [at |-> at, state |-> StateAt(new)]
  PROVE  Blob!Read(data, reader)
             = [at |-> at + Size(a), state |-> StateAt(new \cup {a})]
<1> DEFINE K == DOMAIN Blob!Is(a).storage
           was == Blob!Was(a)
           is == Blob!Is(a)
           old == StateAt(new)[a]
           f == Extra(a)
           n == Count(a)
           keys == Keys(a)
           word == DaOf(a)
<1>1. a \in Blob!Address
  BY DEF Blob!Touched, Blob!StorageDiffs, Blob!Nonces, Blob!Deployed
<1>2. was \in Blob!Contracts(K) /\ is \in Blob!Contracts(K)
  BY <1>1, ContractIs
<1>3. /\ is = [class |-> is.class, nonce |-> is.nonce, storage |-> is.storage]
      /\ is.storage \in [K -> Blob!Felt] /\ was.storage \in [K -> Blob!Felt]
  BY <1>2, RecordIs
<1>4. old \in {was, is}
  BY <1>1 DEF StateAt, Blob!Was, Blob!Is
<1>5. /\ Blob!Changes(word) = n /\ Blob!NewNonce(word) = is.nonce /\ Blob!ClassFlag(word) = f
  BY WordSays
<1>6. f \in {0, 1}
  BY DEF Extra
<1>7. /\ n \in Nat /\ keys \in [1 .. n -> Nat] /\ Blob!Writes(a) \subseteq K
      /\ \A x \in Blob!Writes(a) : \E i \in 1 .. n : keys[i] = x
  BY <1>1, WritesAre
<1>8. Wrote(data, at, a, word, f, is.class, n, keys, is.storage)
  BY DEF ContractAt
<1>9. f = 0 => old.class = is.class
  <2>1. f = 0 => ~Flag(a)
    BY DEF Extra
  <2>2. f = 0 => was.class = is.class
    BY <1>1, <2>1, ClassStays
  <2> QED
    BY <1>4, <2>2
<1>10. \A k \in K : was.storage[k] = is.storage[k] \/ \E i \in 1 .. n : keys[i] = k
  <2>1. \A k \in K : k \notin Blob!Writes(a) => is.storage[k] = was.storage[k]
    BY DEF Blob!Writes
  <2> HIDE DEF K, was, is, n, keys
  <2> QED
    BY <1>7, <2>1
<1>20. Size(a) = 2 + f + 2 * n
  BY DEF Size
<1> HIDE DEF was, is, old, f, n, keys, word, K
<1>11. \A k \in K : old.storage[k] = is.storage[k] \/ \E i \in 1 .. n : keys[i] = k
  BY <1>4, <1>10
<1>12. DOMAIN old.storage = K /\ is.storage = [k \in K |-> is.storage[k]]
  BY <1>3, <1>4
<1> DEFINE from == at + 2 + f
<1>13. Blob!Overwrite(old.storage, data, from, n) = is.storage
  <2>1. from \in Nat
    BY <1>6
  <2>2. KeysPut(data, from, n, keys, is.storage)
    BY <1>8 DEF Wrote, KeysPut
  <2> DEFINE olds == old.storage
             news == is.storage
  <2>3. /\ DOMAIN olds = K /\ news = [k \in K |-> news[k]]
        /\ Covered(K, olds, news, n, keys) /\ KeysPut(data, from, n, keys, news)
    BY <1>11, <1>12, <2>2 DEF Covered
  <2> HIDE DEF from, olds, news
  <2>4. Blob!Overwrite(olds, data, from, n) = news
    BY <1>7, <2>1, <2>3, Overwrites
  <2> QED
    BY <2>4 DEF olds, news
<1>14. data[at] = a /\ data[at + 1] = word /\ (f = 1 => data[at + 2] = is.class)
  BY <1>8 DEF Wrote
<1>15. (IF f = 1 THEN data[at + 2] ELSE old.class) = is.class
  BY <1>6, <1>9, <1>14
<1> DEFINE contract == [class   |-> IF f = 1 THEN data[at + 2] ELSE old.class,
                        nonce   |-> is.nonce,
                        storage |-> Blob!Overwrite(old.storage, data, from, n)]
<1>16. contract = is
  BY <1>3, <1>13, <1>15
<1>17. Blob!Read(data, reader) = [at    |-> at + 2 + f + 2 * n,
                                  state |-> [StateAt(new) EXCEPT ![a] = contract]]
  <2>1. reader.at = at /\ reader.state = StateAt(new)
    OBVIOUS
  <2>2. old = StateAt(new)[a]
    BY DEF old
  <2> QED
    BY <1>5, <1>14, <2>1, <2>2, Zenon DEF Blob!Read
<1>18. [StateAt(new) EXCEPT ![a] = is] = StateAt(new \cup {a})
  BY <1>1 DEF StateAt, is, Blob!Is
<1>19. at + 2 + f + 2 * n = at + Size(a)
  BY <1>6, <1>7, <1>20
<1> QED
  BY <1>16, <1>17, <1>18, <1>19

-------------------------------------------------------------------------------
(* Contract after contract *)

\* These data hold n contracts, in this order, each at its place, up to `last`.
Listed(data, order, places, n, last) ==
    /\ n \in Nat /\ order \in [1 .. n -> Blob!Touched]
    /\ places \in [0 .. n -> Nat] /\ places[0] = 2 /\ places[n] = last
    /\ \A i \in 0 .. n : 2 + 2 * i <= places[i] /\ places[i] <= last
    /\ \A i \in 0 .. n - 1 : /\ places[i + 1] = places[i] + Size(order[i + 1])
                             /\ ContractAt(data, places[i], order[i + 1])

First(order, i) == {order[j] : j \in 1 .. i}

(* A contract takes two words at least. *)
LEMMA SizeIs ==
  ASSUME block \in Blocks, NEW a \in Blob!Touched
  PROVE  Size(a) \in Nat /\ Size(a) >= 2
<1>1. a \in Blob!Address
  BY DEF Blob!Touched, Blob!StorageDiffs, Blob!Nonces, Blob!Deployed
<1>2. Count(a) \in Nat
  BY <1>1, WritesAre
<1>3. Extra(a) \in {0, 1}
  BY DEF Extra
<1> QED
  BY <1>2, <1>3 DEF Size

(* One more contract. *)
LEMMA OneMore ==
  ASSUME NEW order, NEW i \in Nat
  PROVE  First(order, i + 1) = First(order, i) \cup {order[i + 1]}
<1>1. \A j \in 1 .. i + 1 : j \in 1 .. i \/ j = i + 1
  OBVIOUS
<1>2. \A j \in 1 .. i : j \in 1 .. i + 1
  OBVIOUS
<1>3. i + 1 \in 1 .. i + 1
  OBVIOUS
<1> DEFINE k == i + 1
<1> HIDE DEF k
<1>4. /\ \A j \in 1 .. k : j \in 1 .. i \/ j = k
      /\ \A j \in 1 .. i : j \in 1 .. k
      /\ k \in 1 .. k
  BY <1>1, <1>2, <1>3 DEF k
<1>5. First(order, k) = First(order, i) \cup {order[k]}
  BY <1>4, Zenon DEF First
<1> QED
  BY <1>5 DEF k

(* A reader of listed contracts has the state after the block of all of them. *)
LEMMA ReadsAll ==
  ASSUME block \in Blocks, NEW data, NEW order, NEW places, NEW n, NEW last,
         Listed(data, order, places, n, last)
  PROVE  Blob!Apply(data, n, block.before) = StateAt(First(order, n))
<1> DEFINE start == [at |-> 2, state |-> block.before]
           g == [i \in 0 .. n |-> [at |-> places[i], state |-> StateAt(First(order, i))]]
           IsReader(r) == r = [i \in 0 .. n |-> IF i = 0 THEN start
                                                ELSE Blob!Read(data, r[i - 1])]
           reader == CHOOSE r : IsReader(r)
<1>1. /\ n \in Nat /\ order \in [1 .. n -> Blob!Touched]
      /\ places \in [0 .. n -> Nat] /\ places[0] = 2
      /\ \A i \in 0 .. n - 1 : /\ places[i + 1] = places[i] + Size(order[i + 1])
                               /\ ContractAt(data, places[i], order[i + 1])
  BY DEF Listed
<1>2. g[0] = start
  <2>1. First(order, 0) = {}
    BY DEF First
  <2>2. StateAt({}) = block.before
    BY StatesAre DEF StateAt
  <2>3. 0 \in 0 .. n
    BY <1>1
  <2> QED
    BY <1>1, <2>1, <2>2, <2>3
<1>3. ASSUME NEW i \in 0 .. n - 1 PROVE g[i + 1] = Blob!Read(data, g[i])
  <2> DEFINE k == i + 1
             a == order[k]
             at == places[i]
             new == First(order, i)
  <2>1. k \in 1 .. n /\ i \in 0 .. n /\ k \in 0 .. n /\ i \in Nat
    BY <1>1
  <2>2. a \in Blob!Touched /\ at \in Nat /\ ContractAt(data, at, a)
    BY <1>1, <2>1
  <2>3. places[k] = at + Size(a) /\ First(order, k) = new \cup {a}
    BY <1>1, <2>1, OneMore
  <2>4. /\ g[i] = [at |-> at, state |-> StateAt(new)]
        /\ g[k] = [at |-> places[k], state |-> StateAt(First(order, k))]
    BY <2>1
  <2> DEFINE before == g[i]
  <2> HIDE DEF a, at, new, k, g
  <2>5. before = [at |-> at, state |-> StateAt(new)]
    BY <2>4
  <2> HIDE DEF before
  <2>6. Blob!Read(data, before) = [at |-> at + Size(a), state |-> StateAt(new \cup {a})]
    BY <2>2, <2>5, ReadsOne
  <2> QED
    BY <2>3, <2>4, <2>6 DEF before, k
<1> HIDE DEF start
<1>4. IsReader(g)
  <2> DEFINE h == [i \in 0 .. n |-> IF i = 0 THEN start ELSE Blob!Read(data, g[i - 1])]
  <2>1. ASSUME NEW i \in 0 .. n PROVE g[i] = h[i]
    <3>1. CASE i = 0
      BY <1>2, <3>1
    <3>2. CASE i # 0
      <4> DEFINE k == i - 1
      <4>1. k \in 0 .. n - 1 /\ k + 1 = i
        BY <1>1, <3>2
      <4> HIDE DEF k, g
      <4>2. g[k + 1] = Blob!Read(data, g[k])
        BY <1>3, <4>1
      <4> QED
        BY <3>2, <4>1, <4>2 DEF k
    <3> QED
      BY <3>1, <3>2
  <2>2. g = h
    <3>1. g = [i \in 0 .. n |-> g[i]] /\ h = [i \in 0 .. n |-> h[i]]
      OBVIOUS
    <3> HIDE DEF g, h
    <3> QED
      BY <2>1, <3>1
  <2> QED
    BY <2>2
<1> HIDE DEF g
<1>5. IsReader(reader)
  <2> HIDE DEF IsReader
  <2> QED
    BY <1>4
<1> HIDE DEF reader
<1>6. \A i \in Nat : i \in 0 .. n => reader[i] = g[i]
  <2> DEFINE S == {i \in Nat : i \in 0 .. n => reader[i] = g[i]}
  <2>1. 0 \in S
    <3>1. 0 \in 0 .. n
      BY <1>1
    <3>2. reader[0] = start
      BY <1>5, <3>1
    <3> QED
      BY <1>2, <3>2
  <2>2. ASSUME NEW i \in Nat, i \in S PROVE i + 1 \in S
    <3> DEFINE k == i + 1
    <3> SUFFICES ASSUME k \in 0 .. n PROVE reader[k] = g[k]
      OBVIOUS
    <3>1. i \in 0 .. n /\ i \in 0 .. n - 1 /\ k - 1 = i /\ k # 0
      BY <1>1
    <3>2. reader[i] = g[i]
      BY <2>2, <3>1
    <3>3. g[k] = Blob!Read(data, g[i])
      BY <1>3, <3>1
    <3> HIDE DEF k
    <3>4. reader[k] = Blob!Read(data, reader[i])
      BY <1>5, <3>1
    <3> QED
      BY <3>2, <3>3, <3>4
  <2> HIDE DEF S
  <2>3. \A i \in Nat : i \in S
    BY <2>1, <2>2, NatInduct
  <2> QED
    BY <2>3 DEF S
<1>7. n \in 0 .. n /\ n \in Nat
  BY <1>1
<1>8. reader[n] = g[n] /\ g[n].state = StateAt(First(order, n))
  BY <1>6, <1>7 DEF g
<1>9. Blob!Apply(data, n, block.before) = reader[n].state
  BY DEF Blob!Apply, reader, start
<1> QED
  BY <1>8, <1>9

\* Of the first n words, copy has those that are felts.
Copies(copy, data, n) == \A k \in 1 .. n : data[k] \in Blob!Felt => copy[k] = data[k]

(* A contract is still there in a copy. *)
LEMMA CopiedOne ==
  ASSUME block \in Blocks, NEW a \in Blob!Touched, NEW data, NEW copy, NEW length \in Nat,
         Copies(copy, data, length),
         NEW at \in Nat, at >= 1, ContractAt(data, at, a), at + Size(a) <= length + 1
  PROVE  ContractAt(copy, at, a)
<1> DEFINE K == DOMAIN Blob!Is(a).storage
           class == Blob!Is(a).class
           value == Blob!Is(a).storage
           f == Extra(a)
           n == Count(a)
           keys == Keys(a)
           word == DaOf(a)
<1>1. a \in Blob!Address
  BY DEF Blob!Touched, Blob!StorageDiffs, Blob!Nonces, Blob!Deployed
<1>2. /\ n \in Nat /\ keys \in [1 .. n -> Blob!Writes(a)] /\ Blob!Writes(a) \subseteq K
      /\ Blob!Writes(a) \subseteq Blob!Felt /\ value \in [K -> Blob!Felt]
  BY <1>1, WritesAre
<1>3. a \in Blob!Felt /\ word \in Blob!Felt /\ class \in Blob!Felt
  <2>1. a \in Blob!Felt /\ Blob!Is(a) \in Blob!Contracts(K)
    BY <1>1, ContractIs
  <2>2. Blob!Is(a).class \in Blob!Felt
    BY <2>1, RecordIs
  <2>3. word \in Blob!Felt
    BY WordSays
  <2> QED
    BY <2>1, <2>2, <2>3
<1>4. f \in {0, 1}
  BY DEF Extra
<1>5. Wrote(data, at, a, word, f, class, n, keys, value)
  BY DEF ContractAt
<1>6. Size(a) = 2 + f + 2 * n
  BY DEF Size
<1> HIDE DEF class, value, f, n, keys, word, K
<1>7. \A k \in 1 .. n : keys[k] \in Blob!Felt /\ value[keys[k]] \in Blob!Felt
  BY <1>2
<1>8. data[at] = copy[at] /\ data[at + 1] = copy[at + 1]
  <2> DEFINE k == at + 1
  <2>1. at \in 1 .. length /\ k \in 1 .. length
    BY <1>2, <1>4, <1>6
  <2>2. data[at] = a /\ data[k] = word
    BY <1>5 DEF Wrote
  <2> HIDE DEF k
  <2>3. data[at] = copy[at] /\ data[k] = copy[k]
    BY <1>3, <2>1, <2>2 DEF Copies
  <2> QED
    BY <2>3 DEF k
<1>9. ASSUME f = 1 PROVE data[at + 2] = copy[at + 2]
  <2> DEFINE k == at + 2
  <2>1. k \in 1 .. length
    BY <1>2, <1>6, <1>9
  <2>2. data[k] = class
    BY <1>5, <1>9 DEF Wrote
  <2> HIDE DEF k
  <2>3. data[k] = copy[k]
    BY <1>3, <2>1, <2>2 DEF Copies
  <2> QED
    BY <2>3 DEF k
<1>10. ASSUME NEW i \in 0 .. n - 1
       PROVE  /\ data[at + 2 + f + 2 * i] = copy[at + 2 + f + 2 * i]
              /\ data[at + 2 + f + 2 * i + 1] = copy[at + 2 + f + 2 * i + 1]
  <2> DEFINE k == at + 2 + f + 2 * i
             l == at + 2 + f + 2 * i + 1
             j == i + 1
  <2>1. k \in 1 .. length /\ l \in 1 .. length /\ j \in 1 .. n
    BY <1>2, <1>4, <1>6
  <2>2. data[k] = keys[j] /\ data[l] = value[keys[j]]
    BY <1>5 DEF Wrote
  <2> HIDE DEF k, l, j
  <2>3. data[k] \in Blob!Felt /\ data[l] \in Blob!Felt
    BY <1>7, <2>1, <2>2
  <2>4. data[k] = copy[k] /\ data[l] = copy[l]
    BY <2>1, <2>3 DEF Copies
  <2> QED
    BY <2>4 DEF k, l
<1>11. Wrote(copy, at, a, word, f, class, n, keys, value)
  BY <1>5, <1>8, <1>9, <1>10 DEF Wrote
<1> QED
  BY <1>11 DEF ContractAt, class, value, f, n, keys, word

(* And so are all the listed ones. *)
LEMMA CopiedAll ==
  ASSUME block \in Blocks, NEW data, NEW copy, NEW length \in Nat, Copies(copy, data, length),
         NEW order, NEW places, NEW n, NEW last, Listed(data, order, places, n, last),
         last <= length + 1
  PROVE  Listed(copy, order, places, n, last)
<1>1. /\ n \in Nat /\ order \in [1 .. n -> Blob!Touched]
      /\ places \in [0 .. n -> Nat] /\ places[n] = last
      /\ \A i \in 0 .. n : 2 + 2 * i <= places[i] /\ places[i] <= last
      /\ \A i \in 0 .. n - 1 : /\ places[i + 1] = places[i] + Size(order[i + 1])
                               /\ ContractAt(data, places[i], order[i + 1])
  BY DEF Listed
<1>2. ASSUME NEW i \in 0 .. n - 1 PROVE ContractAt(copy, places[i], order[i + 1])
  <2> DEFINE k == i + 1
             a == order[k]
             at == places[i]
  <2>1. k \in 1 .. n /\ i \in 0 .. n /\ k \in 0 .. n
    BY <1>1
  <2>2. a \in Blob!Touched /\ at \in Nat /\ places[k] \in Nat /\ ContractAt(data, at, a)
    BY <1>1, <2>1
  <2>3. places[k] = at + Size(a) /\ 2 + 2 * i <= at /\ places[k] <= last /\ last \in Nat
    BY <1>1, <2>1
  <2> HIDE DEF a, at, k
  <2>4. at >= 1 /\ at + Size(a) <= length + 1
    BY <2>2, <2>3
  <2>5. ContractAt(copy, at, a)
    BY <2>2, <2>4, CopiedOne
  <2> QED
    BY <2>5 DEF a, at, k
<1> QED
  BY <1>2 DEF Listed

(* One more contract in a list. *)
LEMMA ListedMore ==
  ASSUME block \in Blocks, NEW data, NEW order, NEW places, NEW n, NEW last,
         Listed(data, order, places, n, last),
         NEW a \in Blob!Touched, ContractAt(data, last, a)
  PROVE  \E more, next : /\ Listed(data, more, next, n + 1, last + Size(a))
                         /\ First(more, n + 1) = First(order, n) \cup {a}
<1>1. /\ n \in Nat /\ order \in [1 .. n -> Blob!Touched]
      /\ places \in [0 .. n -> Nat] /\ places[0] = 2 /\ places[n] = last
      /\ \A i \in 0 .. n : 2 + 2 * i <= places[i] /\ places[i] <= last
      /\ \A i \in 0 .. n - 1 : /\ places[i + 1] = places[i] + Size(order[i + 1])
                               /\ ContractAt(data, places[i], order[i + 1])
  BY DEF Listed
<1>2. Size(a) \in Nat /\ Size(a) >= 2
  BY SizeIs
<1> DEFINE m == n + 1
           end1 == last + Size(a)
           more == [i \in 1 .. m |-> IF i = m THEN a ELSE order[i]]
           next == [i \in 0 .. m |-> IF i = m THEN end1 ELSE places[i]]
<1>3. m \in Nat /\ m # 0 /\ m = n + 1
  BY <1>1
<1>4. last \in Nat /\ end1 \in Nat /\ last <= end1 /\ 2 + 2 * n <= last
  <2>1. n \in 0 .. n
    BY <1>1
  <2>2. last \in Nat /\ 2 + 2 * n <= last
    BY <1>1, <2>1
  <2> QED
    BY <1>2, <2>2
<1>5. 2 + 2 * m <= end1
  BY <1>1, <1>2, <1>4
<1> HIDE DEF m, end1
<1>6. more \in [1 .. m -> Blob!Touched]
  BY <1>1, <1>3
<1>7. next \in [0 .. m -> Nat] /\ next[0] = 2 /\ next[m] = end1
  BY <1>1, <1>3, <1>4
<1>8. \A i \in 0 .. m : 2 + 2 * i <= next[i] /\ next[i] <= end1
  <2> TAKE i \in 0 .. m
  <2>1. CASE i = m
    BY <1>4, <1>5, <1>7, <2>1
  <2>2. CASE i # m
    <3>1. i \in 0 .. n /\ next[i] = places[i] /\ places[i] \in Nat
      BY <1>1, <1>3, <2>2
    <3> QED
      BY <1>1, <1>4, <3>1
  <2> QED
    BY <2>1, <2>2
<1>9. ASSUME NEW i \in 0 .. m - 1
      PROVE  /\ next[i + 1] = next[i] + Size(more[i + 1])
             /\ ContractAt(data, next[i], more[i + 1])
  <2>1. CASE i = n
    <3>1. n \in 0 .. m /\ n # m /\ m \in 1 .. m /\ m \in 0 .. m
      BY <1>1, <1>3
    <3>2. next[n] = last /\ next[m] = end1 /\ more[m] = a
      BY <1>1, <3>1
    <3>3. i + 1 = m
      BY <1>3, <2>1
    <3> HIDE DEF next, more
    <3> QED
      BY <2>1, <3>2, <3>3 DEF end1
  <2>2. CASE i # n
    <3> DEFINE k == i + 1
    <3>1. /\ i \in 0 .. n - 1 /\ i \in 0 .. m /\ i # m
          /\ k \in 0 .. m /\ k \in 1 .. m /\ k # m
      BY <1>1, <1>3, <2>2
    <3>2. next[i] = places[i] /\ places[k] = places[i] + Size(order[k])
          /\ ContractAt(data, places[i], order[k])
      BY <1>1, <3>1
    <3> HIDE DEF k
    <3>3. next[k] = places[k] /\ more[k] = order[k]
      BY <3>1
    <3> HIDE DEF next, more
    <3>4. next[k] = next[i] + Size(more[k]) /\ ContractAt(data, next[i], more[k])
      BY <3>2, <3>3
    <3> QED
      BY <3>4 DEF k
  <2> QED
    BY <2>1, <2>2
<1>10. \A i \in 1 .. n : more[i] = order[i]
  BY <1>1, <1>3
<1>11. more[m] = a
  BY <1>3
<1> HIDE DEF more, next
<1>12. Listed(data, more, next, m, end1)
  BY <1>3, <1>6, <1>7, <1>8, <1>9 DEF Listed
<1>13. First(more, m) = First(order, n) \cup {a}
  <2>1. First(more, m) = First(more, n) \cup {more[m]}
    BY <1>1, OneMore DEF m
  <2>2. First(more, n) = First(order, n)
    BY <1>10, Zenon DEF First
  <2> QED
    BY <1>11, <2>1, <2>2
<1> QED
  BY <1>12, <1>13 DEF m, end1

-------------------------------------------------------------------------------
(* The data while they are written *)

\* These data begin with the number of contracts, and list up to `last` all but the rest.
Holds(data, rest, last) ==
    /\ data \in Seq(Nat) /\ Len(data) \in Nat /\ Len(data) >= 1
    /\ data[1] = Cardinality(Blob!Touched)
    /\ rest \subseteq Blob!Touched /\ IsFiniteSet(rest) /\ last <= Len(data) + 1
    /\ \E order, places, n :
          /\ Listed(data, order, places, n, last)
          /\ First(order, n) = Blob!Touched \ rest
          /\ n + Cardinality(rest) = Cardinality(Blob!Touched)

(* There are finitely many contracts. *)
LEMMA TouchedIs ==
  ASSUME block \in Blocks
  PROVE  /\ Blob!Touched \subseteq Blob!Address /\ IsFiniteSet(Blob!Touched)
         /\ Cardinality(Blob!Touched) \in Nat
<1>1. Blob!Touched \subseteq Blob!Address
  BY DEF Blob!Touched, Blob!StorageDiffs, Blob!Nonces, Blob!Deployed
<1>2. Blob!Felt = 0 .. Modulus - 1 /\ Modulus \in Nat
  BY FieldIs DEF Blob!Felt
<1>3. 0 \in Int /\ Modulus - 1 \in Int
  BY <1>2
<1>4. IsFiniteSet(Blob!Felt)
  BY <1>2, <1>3, FS_Interval
<1>5. IsFiniteSet(Blob!Touched)
  BY <1>1, <1>4, StatesAre, FS_Subset
<1> QED
  BY <1>1, <1>5, FS_CardinalityType

(* The header is a list of no contract. *)
LEMMA HeaderHolds ==
  ASSUME block \in Blocks, NEW data, data = <<Cardinality(Blob!Touched)>>
  PROVE  Holds(data, Blob!Touched, 2) /\ Len(data) = 1
<1> DEFINE c == Cardinality(Blob!Touched)
           order == [i \in 1 .. 0 |-> 0]
           places == [i \in 0 .. 0 |-> 2]
<1>1. c \in Nat /\ IsFiniteSet(Blob!Touched)
  BY TouchedIs
<1> HIDE DEF c
<1>2. data \in Seq(Nat) /\ Len(data) = 1 /\ data[1] = c
  BY <1>1 DEF c
<1>3. Listed(data, order, places, 0, 2)
  BY DEF Listed
<1>4. First(order, 0) = {}
  BY DEF First
<1>5. \E o, p, n : /\ Listed(data, o, p, n, 2)
                   /\ First(o, n) = Blob!Touched \ Blob!Touched
                   /\ n + c = c
  <2>1. First(order, 0) = Blob!Touched \ Blob!Touched /\ 0 + c = c
    BY <1>1, <1>4
  <2> HIDE DEF order, places
  <2> QED
    BY <1>3, <2>1
<1> QED
  BY <1>1, <1>2, <1>5 DEF Holds, c

(* What a longer text keeps of the list. *)
LEMMA LongerHolds ==
  ASSUME block \in Blocks, NEW data, NEW rest, NEW last, Holds(data, rest, last),
         NEW longer \in Seq(Nat), Len(longer) \in Nat, Len(longer) >= Len(data),
         \A i \in 1 .. Len(data) : longer[i] = data[i]
  PROVE  Holds(longer, rest, last)
<1>1. /\ data \in Seq(Nat) /\ Len(data) \in Nat /\ Len(data) >= 1
      /\ data[1] = Cardinality(Blob!Touched)
      /\ rest \subseteq Blob!Touched /\ IsFiniteSet(rest) /\ last <= Len(data) + 1
  BY DEF Holds
<1>2. PICK order, places, n :
          /\ Listed(data, order, places, n, last)
          /\ First(order, n) = Blob!Touched \ rest
          /\ n + Cardinality(rest) = Cardinality(Blob!Touched)
  BY DEF Holds
<1> DEFINE length == Len(data)
<1>3. length \in Nat /\ last <= length + 1 /\ Copies(longer, data, length)
  BY <1>1 DEF Copies
<1> HIDE DEF length
<1>4. Listed(longer, order, places, n, last)
  BY <1>2, <1>3, CopiedAll
<1>5. last \in Nat
  BY <1>2 DEF Listed
<1>6. last <= Len(longer) + 1 /\ Len(longer) >= 1
  BY <1>1, <1>5
<1>7. longer[1] = data[1]
  BY <1>1
<1> QED
  BY <1>1, <1>2, <1>4, <1>6, <1>7 DEF Holds

\* There are no words from `last` on.
ToTheEnd(data, last) == last = Len(data) + 1

(* What WriteContract adds to the list. *)
LEMMA ContractHolds ==
  ASSUME block \in Blocks, NEW data, NEW rest, NEW last, Holds(data, rest, last),
         ToTheEnd(data, last), NEW a \in rest,
         NEW longer, longer = data \o Blob!ContractWords(a),
         NEW less, less = rest \ {a}, NEW next, next = last + Size(a)
  PROVE  Holds(longer, less, next) /\ ToTheEnd(longer, next)
<1>1. /\ data \in Seq(Nat) /\ Len(data) \in Nat /\ rest \subseteq Blob!Touched
      /\ IsFiniteSet(rest)
  BY DEF Holds
<1>2. a \in Blob!Touched /\ a \in Blob!Address
  BY <1>1, TouchedIs
<1> DEFINE K == DOMAIN Blob!Is(a).storage
           flag == Flag(a)
           f == Extra(a)
           n == Count(a)
           keys == Keys(a)
           word == DaOf(a)
           class == Blob!Is(a).class
           value == Blob!Is(a).storage
           m == Len(data)
<1>3. /\ n \in Nat /\ keys \in [1 .. n -> Blob!Writes(a)] /\ Blob!Writes(a) \subseteq K
      /\ Blob!Writes(a) \subseteq Blob!Felt /\ value \in [K -> Blob!Felt]
      /\ Blob!Felt \subseteq Nat
  BY <1>2, WritesAre
<1>4. a \in Nat /\ word \in Nat /\ class \in Nat
  <2>1. a \in Blob!Felt /\ Blob!Is(a) \in Blob!Contracts(K)
    BY <1>2, ContractIs
  <2>2. Blob!Is(a).class \in Blob!Felt
    BY <2>1, RecordIs
  <2>3. word \in Blob!Felt
    BY <1>2, WordSays
  <2> QED
    BY <1>3, <2>1, <2>2, <2>3
<1>5. flag \in BOOLEAN /\ f = IF flag THEN 1 ELSE 0
  BY DEF Flag, Extra
<1>6. longer = data \o (<<a, word>> \o (IF flag THEN <<class>> ELSE <<>>)
                                     \o Blob!Pairs(keys, value))
  <2>1. Len(keys) = n
    BY <1>3
  <2>2. Blob!ContractWords(a)
            = <<a, Blob!DaWord(flag, Blob!NonceFor(a), Len(keys))>>
                  \o (IF flag THEN <<class>> ELSE <<>>) \o Blob!Pairs(keys, value)
    BY Zenon DEF Blob!ContractWords, Flag, Keys
  <2>3. word = Blob!DaWord(flag, Blob!NonceFor(a), n)
    BY Zenon DEF DaOf
  <2> QED
    BY <2>1, <2>2, <2>3, Zenon
<1>7. Size(a) = 2 + f + 2 * n /\ Size(a) \in Nat
  BY <1>2, SizeIs DEF Size
<1>8. Valued(keys, value, n) /\ keys \in [1 .. n -> Nat]
  BY <1>3 DEF Valued
<1>9. last = m + 1 /\ m \in Nat
  BY <1>1 DEF ToTheEnd
<1>10. f \in {0, 1}
  BY <1>5
<1> HIDE DEF K, flag, f, n, keys, word, class, value
<1>11. /\ longer \in Seq(Nat) /\ Len(longer) = Len(data) + 2 + f + 2 * n
       /\ \A i \in 1 .. Len(data) : longer[i] = data[i]
       /\ Wrote(longer, last, a, word, f, class, n, keys, value)
  <2>1. Puts(data, last, a, word, flag, f, class, n, keys, value, longer)
    BY <1>1, <1>3, <1>4, <1>5, <1>6, <1>8, <1>9 DEF Puts
  <2> QED
    <3>1. longer \in Seq(Nat)
      BY <2>1, WordsPut, Zenon
    <3>2. Longer(longer, data, f, n)
      BY <2>1, WordsPut, Zenon
    <3>3. \A i \in 1 .. Len(data) : longer[i] = data[i]
      BY <2>1, WordsPut, SMT
    <3>4. Wrote(longer, last, a, word, f, class, n, keys, value)
      BY <2>1, WordsPut, Zenon
    <3> QED
      BY <3>1, <3>2, <3>3, <3>4 DEF Longer
<1>12. ContractAt(longer, last, a)
  BY <1>11 DEF ContractAt, f, n, keys, word, class, value
<1>13. Len(longer) = m + Size(a)
  BY <1>3, <1>7, <1>9, <1>10, <1>11
<1> DEFINE length == Len(longer)
<1>14. length \in Nat /\ length >= m /\ last + Size(a) = length + 1 /\ length >= 1
       /\ last + Size(a) \in Nat
  <2>1. Size(a) >= 2
    BY <1>2, SizeIs
  <2> QED
    BY <1>7, <1>9, <1>13, <2>1
<1>15. Holds(longer, rest, last)
  <2>1. Len(longer) \in Nat /\ Len(longer) >= Len(data)
    BY <1>14
  <2> QED
    BY <1>11, <2>1, LongerHolds
<1>16. PICK order, places, k :
          /\ Listed(longer, order, places, k, last)
          /\ First(order, k) = Blob!Touched \ rest
          /\ k + Cardinality(rest) = Cardinality(Blob!Touched)
  BY <1>15 DEF Holds
<1>17. PICK more, places1 : /\ Listed(longer, more, places1, k + 1, last + Size(a))
                         /\ First(more, k + 1) = First(order, k) \cup {a}
  BY <1>2, <1>12, <1>16, ListedMore
<1>18. First(more, k + 1) = Blob!Touched \ (rest \ {a})
  BY <1>2, <1>16, <1>17
<1>19. IsFiniteSet(rest \ {a}) /\ (k + 1) + Cardinality(rest \ {a}) = Cardinality(Blob!Touched)
  <2>1. IsFiniteSet(rest \ {a}) /\ Cardinality(rest \ {a}) = Cardinality(rest) - 1
    BY <1>1, FS_RemoveElement
  <2>2. Cardinality(rest) \in Nat /\ k \in Nat
    BY <1>1, <1>16, FS_CardinalityType DEF Listed
  <2> QED
    BY <1>16, <2>1, <2>2
<1> DEFINE upto == last + Size(a)
           all == k + 1
<1>20. upto <= length + 1
  BY <1>14
<1>21. \E o, p, i : /\ Listed(longer, o, p, i, upto)
                    /\ First(o, i) = Blob!Touched \ (rest \ {a})
                    /\ i + Cardinality(rest \ {a}) = Cardinality(Blob!Touched)
  <2> HIDE DEF upto
  <2>1. /\ Listed(longer, more, places1, all, upto)
        /\ First(more, all) = Blob!Touched \ (rest \ {a})
        /\ all + Cardinality(rest \ {a}) = Cardinality(Blob!Touched)
    BY <1>17, <1>18, <1>19 DEF upto
  <2> HIDE DEF all
  <2> QED
    BY <2>1
<1>22. longer[1] = Cardinality(Blob!Touched)
  BY <1>15 DEF Holds
<1> HIDE DEF upto
<1>23. Holds(longer, rest \ {a}, upto)
  BY <1>1, <1>11, <1>14, <1>19, <1>20, <1>21, <1>22 DEF Holds
<1> QED
  BY <1>14, <1>23 DEF upto, ToTheEnd

(* The contracts and their words depend on the block only. *)
LEMMA SameContracts ==
  ASSUME block' = block
  PROVE  /\ Blob!Touched' = Blob!Touched
         /\ \A a : Size(a)' = Size(a)
         /\ \A data, at, a : ContractAt(data, at, a)' <=> ContractAt(data, at, a)
<1>1. Blob!Address' = Blob!Address
  BY DEF Blob!Address
<1>2. \A a : Blob!Was(a)' = Blob!Was(a) /\ Blob!Is(a)' = Blob!Is(a)
  BY DEF Blob!Was, Blob!Is
<1>3. \A a : Blob!Writes(a)' = Blob!Writes(a)
  BY <1>2, Zenon DEF Blob!Writes
<1>4. Blob!StorageDiffs' = Blob!StorageDiffs
  BY <1>1, <1>3, Zenon DEF Blob!StorageDiffs
<1>5. Blob!Nonces' = Blob!Nonces
  BY <1>1, <1>2, Zenon DEF Blob!Nonces
<1>6. Blob!Deployed' = Blob!Deployed /\ Blob!Replaced' = Blob!Replaced
  BY <1>1, <1>2, Zenon DEF Blob!Deployed, Blob!Replaced
<1>7. Blob!Touched' = Blob!Touched
  BY <1>4, <1>5, <1>6, Zenon DEF Blob!Touched
<1>8. \A a : Flag(a)' <=> Flag(a)
  BY <1>6, Zenon DEF Flag
<1>9. \A a : Extra(a)' = Extra(a)
  BY <1>8, Zenon DEF Extra
<1>10. \A a : Count(a)' = Count(a)
  BY <1>3, Zenon DEF Count
<1>11. \A a : Keys(a)' = Keys(a)
  BY <1>3, Zenon DEF Keys
<1>12. \A a : Blob!NonceFor(a)' = Blob!NonceFor(a)
  BY <1>2, <1>3, <1>5, Zenon DEF Blob!NonceFor
<1>13. \A a : DaOf(a)' = DaOf(a)
  BY <1>8, <1>10, <1>12 DEF DaOf
<1>14. \A a : Size(a)' = Size(a)
  BY <1>9, <1>10, Zenon DEF Size
<1>15. \A data, at, a : ContractAt(data, at, a)' <=> ContractAt(data, at, a)
  BY <1>2, <1>9, <1>10, <1>11, <1>13, Zenon DEF ContractAt
<1> QED
  BY <1>7, <1>14, <1>15

(* And so do the lists of them. *)
LEMMA SameLists ==
  ASSUME block' = block
  PROVE  \A data, rest, last : Holds(data, rest, last)' <=> Holds(data, rest, last)
<1>1. /\ Blob!Touched' = Blob!Touched
      /\ \A a : Size(a)' = Size(a)
      /\ \A data, at, a : ContractAt(data, at, a)' <=> ContractAt(data, at, a)
  BY SameContracts
<1>2. \A data, order, places, n, last :
         Listed(data, order, places, n, last)' <=> Listed(data, order, places, n, last)
  <2> TAKE data, order, places, n, last
  <2>1. \A i : /\ Size(order[i + 1])' = Size(order[i + 1])
               /\ ContractAt(data, places[i], order[i + 1])'
                     <=> ContractAt(data, places[i], order[i + 1])
    BY <1>1
  <2> QED
    BY <1>1, <2>1 DEF Listed
<1>3. Cardinality(Blob!Touched)' = Cardinality(Blob!Touched)
  BY <1>1
<1> QED
  BY <1>1, <1>2, <1>3 DEF Holds

-------------------------------------------------------------------------------
(* The blob *)

\* The contracts written so far are in the words, each once, up to the last word or, once
\* all are written, up to the classes; and the blob is the transform of the words.
BlobInv ==
    /\ block \in Blocks
    /\ stage \in {"contracts", "classes", "transform", "settle", "done"} =>
          \E data, rest, last :
             /\ data = words /\ rest = left /\ Holds(data, rest, last)
             /\ stage = "contracts" => last = Len(data) + 1
    /\ stage \in {"classes", "transform", "settle", "done"} => left = {}
    /\ stage \in {"settle", "done"} =>
          blob = [i \in 1 .. Blob!BlobLen |->
                     Blob!Horner(Blob!Padded, Blob!PointsOf(Generator)[i])]

(* A step that leaves the block as it is keeps this much of it. *)
LEMMA BlobKept ==
  ASSUME block \in Blocks, block' = block,
         NEW data, NEW rest, NEW last, Holds(data, rest, last), words' = data, left' = rest,
         stage' = "contracts" => last = Len(data) + 1,
         stage' \in {"classes", "transform", "settle", "done"} => rest = {},
         stage' \notin {"settle", "done"}
  PROVE  BlobInv'
<1>1. Holds(data, rest, last)'
  BY SameLists
<1>2. (\E d, r, l : /\ d = words /\ r = left /\ Holds(d, r, l)
                    /\ stage = "contracts" => l = Len(d) + 1)'
  BY <1>1
<1> QED
  BY <1>2 DEF BlobInv

(* It begins with the number of contracts. *)
LEMMA BlobHeader ==
  ASSUME BlobInv, Blob!Header
  PROVE  BlobInv'
<1>1. /\ block' = block /\ block \in Blocks /\ stage' = "contracts" /\ left' = Blob!Touched
      /\ words' = <<Cardinality(Blob!Touched)>>
  <2>1. Blob!Cardinality(Blob!Touched) = Cardinality(Blob!Touched)
    BY BlobCardinalityIs
  <2> QED
    BY <2>1 DEF BlobInv, Blob!Header
<1>2. PICK data, rest : data = <<Cardinality(Blob!Touched)>> /\ rest = Blob!Touched
  OBVIOUS
<1>3. Holds(data, rest, 2) /\ Len(data) = 1
  BY <1>1, <1>2, HeaderHolds
<1> DEFINE two == 2
<1>4. Holds(data, rest, two) /\ two = Len(data) + 1
  BY <1>3
<1> HIDE DEF two
<1> QED
  BY <1>1, <1>2, <1>4, BlobKept

(* Contract by contract. *)
LEMMA BlobContract ==
  ASSUME BlobInv, NEW a \in left, Blob!WriteContract(a)
  PROVE  BlobInv'
<1>1. /\ block' = block /\ block \in Blocks /\ stage = "contracts" /\ stage' = "contracts"
      /\ words' = words \o Blob!ContractWords(a) /\ left' = left \ {a}
  BY DEF BlobInv, Blob!WriteContract
<1>2. PICK data, rest, last : /\ data = words /\ rest = left /\ Holds(data, rest, last)
                              /\ last = Len(data) + 1
  BY <1>1 DEF BlobInv
<1>3. PICK longer : longer = data \o Blob!ContractWords(a)
  OBVIOUS
<1>4. PICK less, next : less = rest \ {a} /\ next = last + Size(a)
  OBVIOUS
<1>5. Holds(longer, less, next) /\ next = Len(longer) + 1
  <2>1. a \in rest
    BY <1>2
  <2> QED
    <3>1. block \in Blocks
      BY <1>1
    <3>2. Holds(data, rest, last) /\ ToTheEnd(data, last)
      BY <1>2 DEF ToTheEnd
    <3>3. Holds(longer, less, next)
      BY <1>3, <1>4, <2>1, <3>1, <3>2, ContractHolds, Zenon
    <3>4. ToTheEnd(longer, next)
      BY <1>3, <1>4, <2>1, <3>1, <3>2, ContractHolds, Zenon
    <3> QED
      BY <3>3, <3>4 DEF ToTheEnd
<1>6. words' = longer /\ left' = less
  BY <1>1, <1>2, <1>3, <1>4
<1> QED
  BY <1>1, <1>5, <1>6, BlobKept

(* The last contract is written. *)
LEMMA BlobWritten ==
  ASSUME BlobInv, Blob!ContractsWritten
  PROVE  BlobInv'
<1>1. /\ block' = block /\ block \in Blocks /\ stage = "contracts" /\ stage' = "classes"
      /\ left = {} /\ words' = words /\ left' = left
  BY DEF BlobInv, Blob!ContractsWritten
<1>2. PICK data, rest, last : data = words /\ rest = left /\ Holds(data, rest, last)
  BY <1>1 DEF BlobInv
<1> QED
  BY <1>1, <1>2, BlobKept

(* The classes of a block are felts, and so are their compiled hashes. *)
LEMMA DeclaredIs ==
  ASSUME block \in Blocks
  PROVE  /\ DOMAIN block.declared \subseteq Blob!Felt
         /\ block.declared \in [DOMAIN block.declared -> Blob!Felt]
<1>1. Blob!BlockAssumption(block)
  BY BlockDataAssumption, Zenon DEF Blob!BlobDataAssumption
<1> QED
  BY <1>1 DEF Blob!BlockAssumption

(* The classes follow. *)
LEMMA BlobClasses ==
  ASSUME BlobInv, Blob!WriteClasses
  PROVE  BlobInv'
<1> DEFINE classes == DOMAIN block.declared
           keys == Blob!Sorted(classes)
           value == block.declared
           n == Cardinality(classes)
           p == Blob!Pairs(keys, value)
<1>1. /\ block' = block /\ block \in Blocks /\ stage = "classes" /\ stage' = "transform"
      /\ left = {} /\ words' = Append(words, Len(keys)) \o p /\ left' = left
  BY DEF BlobInv, Blob!WriteClasses
<1>2. PICK data, rest, last : data = words /\ rest = left /\ Holds(data, rest, last)
  BY <1>1 DEF BlobInv
<1>3. Blob!Felt = 0 .. Modulus - 1 /\ Modulus \in Nat /\ Blob!Felt \subseteq Nat
  BY FieldIs DEF Blob!Felt
<1>4. classes \subseteq Blob!Felt /\ value \in [classes -> Blob!Felt]
  BY <1>1, DeclaredIs
<1>5. IsFiniteSet(classes)
  <2>1. 0 \in Int /\ Modulus - 1 \in Int
    BY <1>3
  <2>2. IsFiniteSet(Blob!Felt)
    BY <1>3, <2>1, FS_Interval
  <2> QED
    BY <1>4, <2>2, FS_Subset
<1> HIDE DEF classes, value
<1>6. n \in Nat /\ keys \in [1 .. n -> classes]
  BY <1>3, <1>4, <1>5, SortedIs
<1> HIDE DEF keys, n
<1>7. Valued(keys, value, n) /\ keys \in [1 .. n -> Nat] /\ Len(keys) = n
  <2>1. classes \subseteq Nat /\ \A x \in classes : value[x] \in Nat
    BY <1>3, <1>4
  <2>2. \A i \in 1 .. n : value[keys[i]] \in Nat
    BY <1>6, <2>1
  <2> QED
    <3>1. Valued(keys, value, n)
      BY <2>2, Zenon DEF Valued
    <3>2. keys \in [1 .. n -> Nat]
      BY <1>6, <2>1
    <3>3. Len(keys) = n
      BY <1>6
    <3> QED
      BY <3>1, <3>2, <3>3
<1>8. p \in Seq(Nat)
  <2>1. Paired(p, keys, value, n)
    BY <1>6, <1>7, PairsPut
  <2> QED
    BY <2>1 DEF Paired
<1> HIDE DEF p
<1>9. PICK count, q : count = <<n>> /\ q = p
  OBVIOUS
<1>10. data \in Seq(Nat) /\ Len(data) \in Nat
  BY <1>2 DEF Holds
<1> DEFINE s == Append(data, n)
           m == Len(data) + 1
           k == Len(p)
           st == s \o p
<1>11. s \in Seq(Nat) /\ Len(s) = m /\ m \in Nat /\ \A i \in 1 .. Len(data) : s[i] = data[i]
  BY <1>6, <1>10
<1>12. k \in Nat
  BY <1>8, LenProperties
<1>13. Joins(st, s, m, p, k)
  <2>1. m = Len(s) /\ k = Len(p)
    BY <1>11
  <2> HIDE DEF s, m, k
  <2> QED
    BY <1>8, <1>11, <2>1, Joined
<1> HIDE DEF s, k, st
<1>14. /\ st \in Seq(Nat) /\ Len(st) \in Nat /\ Len(st) >= Len(data)
       /\ \A i \in 1 .. Len(data) : st[i] = data[i]
  <2>1. st \in Seq(Nat) /\ Len(st) = m + k /\ \A i \in 1 .. m : st[i] = s[i]
    BY <1>13 DEF Joins
  <2>2. Len(st) \in Nat /\ Len(st) >= Len(data)
    BY <1>10, <1>12, <2>1
  <2>3. \A i \in 1 .. Len(data) : i \in 1 .. m
    BY <1>10
  <2> QED
    BY <1>11, <2>1, <2>2, <2>3
<1>15. PICK longer : longer = st
  OBVIOUS
<1>16. Holds(longer, rest, last)
  BY <1>1, <1>2, <1>14, <1>15, LongerHolds
<1>17. words' = longer
  BY <1>1, <1>2, <1>7, <1>15 DEF st, s
<1> QED
  BY <1>1, <1>2, <1>16, <1>17, BlobKept

(* The words are transformed. *)
LEMMA BlobTransform ==
  ASSUME BlobInv, Blob!Transform
  PROVE  BlobInv'
<1>1. /\ block' = block /\ block \in Blocks /\ stage = "transform" /\ stage' = "settle"
      /\ left = {} /\ words' = words /\ left' = left
  BY DEF BlobInv, Blob!Transform
<1>2. blob' = [i \in 1 .. Blob!BlobLen |->
                  Blob!Horner(Blob!Padded, Blob!PointsOf(Generator)[i])]
  BY Zenon DEF Blob!Transform
<1>3. Blob!Padded' = Blob!Padded
  BY <1>1, Zenon DEF Blob!Padded
<1>4. PICK data, rest, last : data = words /\ rest = left /\ Holds(data, rest, last)
  BY <1>1 DEF BlobInv
<1>5. Holds(data, rest, last)'
  BY <1>1, <1>4, SameLists
<1>6. (blob = [i \in 1 .. Blob!BlobLen |->
                 Blob!Horner(Blob!Padded, Blob!PointsOf(Generator)[i])])'
  BY <1>2, <1>3, Zenon
<1>7. (\E d, r, l : /\ d = words /\ r = left /\ Holds(d, r, l)
                    /\ stage = "contracts" => l = Len(d) + 1)'
  BY <1>1, <1>4, <1>5
<1> QED
  BY <1>1, <1>6, <1>7 DEF BlobInv

(* Nothing of it changes after that, or while the fact is computed. *)
LEMMA BlobSame ==
  ASSUME BlobInv, block' = block, words' = words, left' = left, blob' = blob,
         stage' = stage \/ (stage = "settle" /\ stage' = "done") \/ stage' = "failed"
  PROVE  BlobInv'
<1>1. Blob!Padded' = Blob!Padded
  BY Zenon DEF Blob!Padded
<1>2. (stage \in {"settle", "done"} =>
          blob = [i \in 1 .. Blob!BlobLen |->
                     Blob!Horner(Blob!Padded, Blob!PointsOf(Generator)[i])])'
  <2>1. ASSUME stage' \in {"settle", "done"}
        PROVE  blob' = [i \in 1 .. Blob!BlobLen |->
                           Blob!Horner(Blob!Padded, Blob!PointsOf(Generator)[i])]
    BY <2>1 DEF BlobInv
  <2> QED
    BY <1>1, <2>1, Zenon
<1>3. ASSUME stage' \in {"contracts", "classes", "transform", "settle", "done"}
      PROVE  (\E d, r, l : /\ d = words /\ r = left /\ Holds(d, r, l)
                           /\ stage = "contracts" => l = Len(d) + 1)'
  <2>1. PICK data, rest, last : /\ data = words /\ rest = left /\ Holds(data, rest, last)
                                /\ stage = "contracts" => last = Len(data) + 1
    BY <1>3 DEF BlobInv
  <2>2. Holds(data, rest, last)'
    BY <2>1, SameLists
  <2> QED
    BY <1>3, <2>1, <2>2
<1> QED
  BY <1>2, <1>3 DEF BlobInv

(* A contract that the data do not mention has changed its class at most. *)
LEMMA UntouchedStays ==
  ASSUME block \in Blocks, NEW a \in Blob!Address, a \notin Blob!Touched,
         a \notin Blob!Replaced
  PROVE  block.before[a] = block.after[a]
<1> DEFINE K == DOMAIN Blob!Is(a).storage
           was == Blob!Was(a)
           is == Blob!Is(a)
<1>1. was \in Blob!Contracts(K) /\ is \in Blob!Contracts(K)
  BY ContractIs
<1>2. a \notin Blob!StorageDiffs /\ a \notin Blob!Nonces /\ a \notin Blob!Deployed
  BY DEF Blob!Touched
<1>3. was.class = is.class
  BY <1>2 DEF Blob!Deployed, Blob!Replaced
<1>4. was.nonce = is.nonce
  BY <1>2 DEF Blob!Nonces
<1>5. \A k \in K : was.storage[k] = is.storage[k]
  <2>1. Blob!Writes(a) = {}
    BY <1>2 DEF Blob!StorageDiffs
  <2> QED
    BY <2>1 DEF Blob!Writes
<1> HIDE DEF was, is, K
<1>6. /\ was = [class |-> was.class, nonce |-> was.nonce, storage |-> was.storage]
      /\ is = [class |-> is.class, nonce |-> is.nonce, storage |-> is.storage]
      /\ was.storage \in [K -> Blob!Felt] /\ is.storage \in [K -> Blob!Felt]
  BY <1>1, RecordIs
<1>7. was.storage = is.storage
  BY <1>5, <1>6
<1>8. was = is
  BY <1>3, <1>4, <1>6, <1>7
<1> QED
  BY <1>8 DEF was, is, Blob!Was, Blob!Is

(* A state with all the touched contracts as after the block is the state after the block. *)
LEMMA AllAreTouched ==
  ASSUME block \in Blocks, Blob!ClassOnly = {}
  PROVE  StateAt(Blob!Touched) = block.after
<1>1. \A a \in Blob!Address : a \notin Blob!Touched => block.before[a] = block.after[a]
  BY UntouchedStays DEF Blob!ClassOnly
<1>2. block.after = [a \in Blob!Address |-> block.after[a]]
  BY StatesAre
<1> QED
  BY <1>1, <1>2, Zenon DEF StateAt

(* From a blob that is complete, the reader gets the state after the block. *)
LEMMA Rebuilds ==
  ASSUME BlobInv, stage = "done", Blob!ClassOnly = {}, Len(words) <= Blob!BlobLen
  PROVE  Blob!Apply(Blob!Recovered, Blob!Recovered[1], block.before) = block.after
<1> DEFINE N == Blob!BlobLen
           e == Blob!Padded
           copy == Blob!Recovered
           m == Len(words)
<1>1. /\ block \in Blocks /\ left = {}
      /\ blob = [i \in 1 .. N |-> Blob!Horner(e, Blob!PointsOf(Generator)[i])]
  BY DEF BlobInv
<1>2. PICK data, last : data = words /\ Holds(data, {}, last)
  BY <1>1 DEF BlobInv
<1>3. PICK order, places, n :
          /\ Listed(data, order, places, n, last)
          /\ First(order, n) = Blob!Touched
          /\ n + Cardinality({}) = Cardinality(Blob!Touched)
  BY <1>2 DEF Holds
<1>4. /\ data \in Seq(Nat) /\ m \in Nat /\ m >= 1 /\ words \in Seq(Nat) /\ m = Len(data)
      /\ words[1] = Cardinality(Blob!Touched) /\ last <= m + 1
  BY <1>2 DEF Holds
<1>5. N \in Nat /\ N < Modulus /\ Modulus \in Nat /\ Blob!Felt = 0 .. Modulus - 1 /\ m <= N
  <2>1. N \in Nat
    BY TwoIs, FieldIs DEF Blob!BlobLen
  <2> QED
    BY <2>1, FieldIs DEF Blob!Felt
<1>6. e = [i \in 1 .. N |-> IF i <= m THEN words[i] ELSE 0]
  BY Zenon DEF Blob!Padded
<1> HIDE DEF N, e, copy, m
<1>7. \A i \in 1 .. m : words[i] \in Nat
  BY <1>4 DEF m
<1>8. e \in [1 .. N -> Int]
  BY <1>4, <1>5, <1>6, <1>7
<1>9. \A k \in 1 .. N : copy[k] = e[k] % Modulus
  BY <1>1, <1>8, TransformInverts DEF N, copy
<1>10. ASSUME NEW k \in 1 .. m, words[k] \in Blob!Felt PROVE copy[k] = words[k]
  <2>1. k \in 1 .. N /\ e[k] = words[k]
    BY <1>4, <1>5, <1>6
  <2>2. words[k] % Modulus = words[k]
    BY <1>5, <1>10
  <2> QED
    BY <1>9, <2>1, <2>2
<1>11. Copies(copy, data, m)
  BY <1>2, <1>10 DEF Copies
<1>12. Listed(copy, order, places, n, last)
  BY <1>1, <1>3, <1>4, <1>11, CopiedAll
<1>13. Blob!Apply(copy, n, block.before) = StateAt(First(order, n))
  BY <1>1, <1>12, ReadsAll
<1>14. n \in Nat /\ last \in Nat /\ 2 + 2 * n <= last
  <2>1. n \in Nat /\ places \in [0 .. n -> Nat] /\ places[n] = last
        /\ \A i \in 0 .. n : 2 + 2 * i <= places[i]
    BY <1>3 DEF Listed
  <2>2. n \in 0 .. n
    BY <2>1
  <2> QED
    BY <2>1, <2>2
<1>15. words[1] = n
  <2>1. Cardinality({}) = 0
    BY FS_EmptySet
  <2> QED
    BY <1>3, <1>4, <1>14, <2>1
<1>16. n \in Blob!Felt
  BY <1>4, <1>5, <1>14
<1>17. copy[1] = n
  <2> DEFINE one == 1
  <2>1. one \in 1 .. m /\ words[one] = n
    BY <1>4, <1>15
  <2> HIDE DEF one
  <2>2. copy[one] = n
    BY <1>10, <1>16, <2>1
  <2> QED
    BY <2>2 DEF one
<1>18. StateAt(First(order, n)) = block.after
  BY <1>1, <1>3, AllAreTouched
<1> QED
  BY <1>13, <1>17, <1>18 DEF copy

(* From the blob and the state before the block, a reader rebuilds the state after it,      *)
(* whatever the block changes, as long as all its words fit and no contract changes its     *)
(* class only: the code pads each field of a DA word to its width, lists each changed       *)
(* contract once with all it has changed, and evaluates the words where they can be         *)
(* interpolated.                                                                            *)
THEOREM StateIsRebuilt == Spec => []BlobRebuildsState
<1>1. Init => BlobInv
  BY BlockDataAssumption DEF Init, Blob!Init, BlobInv
<1>2. BlobInv /\ [Next]_<<factVars, blobVars>> => BlobInv'
  <2> SUFFICES ASSUME BlobInv, [Next]_<<factVars, blobVars>> PROVE BlobInv'
    OBVIOUS
  <2>1. ASSUME Blob!Settle \/ UNCHANGED blobVars PROVE BlobInv'
    <3>1. /\ block' = block /\ words' = words /\ left' = left /\ blob' = blob
          /\ stage' = stage \/ (stage = "settle" /\ stage' = "done") \/ stage' = "failed"
      BY <2>1 DEF Blob!Settle, blobVars
    <3> QED
      BY <3>1, BlobSame
  <2>2. ASSUME NEW a \in left, Blob!WriteContract(a) PROVE BlobInv'
    BY <2>2, BlobContract
  <2>3. ASSUME NEW a \in left, Blob!NonceUnknown(a) PROVE BlobInv'
    <3>1. /\ block' = block /\ words' = words /\ left' = left /\ blob' = blob
          /\ stage' = stage \/ (stage = "settle" /\ stage' = "done") \/ stage' = "failed"
      BY <2>3 DEF Blob!NonceUnknown
    <3> QED
      BY <3>1, BlobSame
  <2>4. ASSUME Blob!Next PROVE BlobInv'
    BY <2>1, <2>2, <2>3, <2>4, BlobHeader, BlobWritten, BlobClasses, BlobTransform DEF Blob!Next
  <2> QED
    BY <2>1, <2>4 DEF Next, Compute, Publish
<1>3. BlobInv => BlobRebuildsState
  BY Rebuilds DEF BlobRebuildsState, Blob!BlobRebuildsState
<1> QED
  BY <1>1, <1>2, <1>3, PTL DEF Spec
===============================================================================
