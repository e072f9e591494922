------------------------------- MODULE BlobData -------------------------------
(***************************************************************************)
(* The data that a block publishes: jobs/da_job turns the state diff of    *)
(* the block into words, the words into the evaluations of a polynomial,   *)
(* and the settlement client packs the program output and the KZG proof    *)
(* into the call of the core contract.  A reader of the chain must be able *)
(* to rebuild the state from the blob, and the contract must find its      *)
(* arguments where the ABI says they are.                                  *)
(*                                                                         *)
(* Felts are small numbers; the widths of fields, the length of the blob   *)
(* and the field of its polynomial are constants.  One step is one round   *)
(* of the loop over contracts, or one of the conversions.                  *)
(***************************************************************************)
EXTENDS Integers, FiniteSets, SequencesExt

CONSTANTS
    Blocks,                     \* the blocks considered: state before and after, output
    WordBits,                   \* width of the nonce and of the number of changes (64)
    BlobBits,                   \* width of the index of a word in the blob (12)
    Modulus,                    \* BLS_MODULUS
    Generator                   \* GENERATOR

SystemContract == 1             \* address 0x1: storage, but no class and no nonce

\* 2 ^ n, as a function.
Two[n \in Nat] == IF n = 0 THEN 1 ELSE 2 * Two[n - 1]

BlobLen == Two[BlobBits]        \* BLOB_LEN

\* x ^ n in the field.
Power(x, n) ==
    LET upTo[i \in Nat] == IF i = 0 THEN 1 ELSE (x * upTo[i - 1]) % Modulus IN upTo[n]

\* The modulus is a prime, the generator a root of unity of order BlobLen, and every DA
\* word is an element of the field.
FieldAssumption ==
    /\ WordBits \in Nat \ {0} /\ BlobBits \in Nat
    /\ Modulus \in Nat /\ Generator \in 1 .. Modulus - 1
    /\ 2 * Two[2 * WordBits] <= Modulus /\ BlobLen < Modulus
    /\ \A x \in 1 .. Modulus - 1 : \E r \in 1 .. Modulus - 1 : (x * r) % Modulus = 1
    /\ Power(Generator, BlobLen) = 1
    /\ \A n \in 1 .. BlobLen - 1 : Power(Generator, n) # 1

Felt  == 0 .. Modulus - 1               \* a felt of the chain is less than the modulus
Field == 0 .. Two[WordBits] - 1         \* what a field of a DA word holds

\* Without a class there is no nonce.
Contracts(keys) ==
    {c \in [class : Felt, nonce : Field, storage : [keys -> Felt]] : c.class = 0 => c.nonce = 0}

\* Each contract has the same keys before and after a block, 0 where there is no value.
BlockAssumption(b) ==
    LET addresses == DOMAIN b.after IN
    /\ b.output \in Seq(Nat) /\ b.proof \in Nat \X Nat
    /\ b.declared \in [DOMAIN b.declared -> Felt] /\ DOMAIN b.declared \subseteq Felt
    /\ addresses \subseteq Felt
    /\ b.before = [a \in addresses |-> b.before[a]]
    /\ b.after = [a \in addresses |-> b.after[a]]
    /\ \A a \in addresses :
          LET keys == DOMAIN b.after[a].storage IN
          /\ keys \subseteq Felt /\ Cardinality(keys) \in Field
          /\ b.before[a] \in Contracts(keys) /\ b.after[a] \in Contracts(keys)
          /\ a = SystemContract => b.before[a].class = 0 /\ b.after[a].class = 0

\* Assumed of the constants by the module that composes this one.
BlobDataAssumption == FieldAssumption /\ \A b \in Blocks : BlockAssumption(b)

VARIABLES
    block,      \* the block
    stage,      \* what is done next
    left,       \* contracts whose diff is still to be written
    words,      \* blob_data
    blob,       \* the transformed data, once there is any
    calldata    \* the words of the transaction's input after the selector

vars == <<block, stage, left, words, blob, calldata>>

-------------------------------------------------------------------------------
(***************************************************************************)
(* A contract: its class (0 for none), its nonce, its storage.  The state  *)
(* diff is what a node makes of the states before and after the block.     *)
(***************************************************************************)
Address == DOMAIN block.after

Was(a) == block.before[a]
Is(a)  == block.after[a]

Writes(a)    == {k \in DOMAIN Is(a).storage : Is(a).storage[k] # Was(a).storage[k]}
StorageDiffs == {a \in Address : Writes(a) # {}}
Nonces       == {a \in Address : Is(a).nonce # Was(a).nonce}
Deployed     == {a \in Address : Was(a).class = 0 /\ Is(a).class # 0}
Replaced     == {a \in Address : Was(a).class # 0 /\ Is(a).class # Was(a).class}

Init ==
    /\ block \in Blocks
    /\ stage = "header"
    /\ left = {} /\ words = <<>> /\ blob = <<>> /\ calldata = <<>>

-------------------------------------------------------------------------------
(* state_update_to_blob_data *)

\* refactor_state_update: contracts without writes get an empty storage diff.
Touched == StorageDiffs \cup Nonces \cup Deployed

\* The length of a binary number without leading zeros.
Bits(n) == CHOOSE b \in 1 .. n + 1 : n < Two[b] /\ \A c \in 1 .. b - 1 : Two[c] <= n

\* Mutant of DaWord: the nonce is not padded to its width.
DaWordUnpadded(classFlag, nonce, changes) ==
    (IF classFlag THEN Two[Bits(nonce) + WordBits] ELSE 0) + nonce * Two[WordBits] + changes

\* Three binary numbers are put side by side; a nonce wider than its field pushes the
\* class flag to the left.
DaWord(classFlag, nonce, changes) ==
    LET width == IF Bits(nonce) > WordBits THEN Bits(nonce) ELSE WordBits IN
    (IF classFlag THEN Two[width + WordBits] ELSE 0) + nonce * Two[WordBits] + changes

\* The new nonce, or the present one if the contract was written to.
NonceFor(a) ==
    IF a \in Nonces \/ (Writes(a) # {} /\ a # SystemContract) THEN Is(a).nonce ELSE 0

Sorted(set) ==
    [i \in 1 .. Cardinality(set) |->
        CHOOSE x \in set : Cardinality({y \in set : y < x}) = i - 1]

\* Each of these keys, followed by its value.
Pairs(keys, value) ==
    [i \in 1 .. 2 * Len(keys) |->
        IF i % 2 = 1 THEN keys[(i + 1) \div 2] ELSE value[keys[i \div 2]]]

ContractWords(a) ==
    LET flag == a \in Deployed \cup Replaced
        keys == Sorted(Writes(a)) IN
    <<a, DaWord(flag, NonceFor(a), Len(keys))>>
        \o (IF flag THEN <<Is(a).class>> ELSE <<>>)
        \o Pairs(keys, Is(a).storage)

Header ==
    /\ stage = "header"
    /\ stage' = "contracts"
    /\ left' = Touched
    /\ words' = <<Cardinality(Touched)>>
    /\ UNCHANGED <<block, blob, calldata>>

\* The contracts follow in the order of their addresses.
WriteContract(a) ==
    /\ stage = "contracts" /\ a \in left /\ \A b \in left : a <= b
    /\ words' = words \o ContractWords(a)
    /\ left' = left \ {a}
    /\ UNCHANGED <<block, stage, blob, calldata>>

\* get_nonce fails.
NonceUnknown(a) ==
    /\ stage = "contracts" /\ a \in left /\ \A b \in left : a <= b
    /\ a \notin Nonces /\ Writes(a) # {} /\ a # SystemContract
    /\ stage' = "failed"
    /\ UNCHANGED <<block, left, words, blob, calldata>>

ContractsWritten ==
    /\ stage = "contracts" /\ left = {}
    /\ stage' = "classes"
    /\ UNCHANGED <<block, left, words, blob, calldata>>

WriteClasses ==
    LET declared == Sorted(DOMAIN block.declared) IN
    /\ stage = "classes"
    /\ words' = Append(words, Len(declared)) \o Pairs(declared, block.declared)
    /\ stage' = "transform"
    /\ UNCHANGED <<block, left, blob, calldata>>

-------------------------------------------------------------------------------
(* convert_to_biguint, fft_transformation *)

\* BlobLen words: the data, cut or filled with zeros.
Padded == [i \in 1 .. BlobLen |-> IF i <= Len(words) THEN words[i] ELSE 0]

\* The numbers that the first n bits make, from the last one on.
Reversed[n \in Nat] ==
    [i \in Nat |-> IF n = 0 THEN 0 ELSE (i % 2) * Two[n - 1] + Reversed[n - 1][i \div 2]]

\* Powers of x, their exponents with the bits reversed.
PointsOf(x) == [i \in 1 .. BlobLen |-> Power(x, Reversed[BlobBits][i - 1])]

Horner(elements, x) ==
    LET from[j \in 1 .. Len(elements) + 1] ==
            IF j > Len(elements) THEN 0 ELSE (elements[j] + x * from[j + 1]) % Modulus IN
    from[1]

Transform ==
    /\ stage = "transform"
    /\ LET points == PointsOf(Generator) IN
       blob' = [i \in 1 .. BlobLen |-> Horner(Padded, points[i])]
    /\ stage' = "settle"
    /\ UNCHANGED <<block, left, words, calldata>>

-------------------------------------------------------------------------------
(* get_input_data_for_eip_4844, in words of 32 bytes *)

\* Mutant of ProofsAt: the word with the number of lines is not counted.
ProofsTooEarly == 2 * 32 + 32 * Len(block.output)

\* Where the array of proofs starts, in bytes.
ProofsAt == 3 * 32 + 32 * Len(block.output)

\* A proof of 48 bytes fills two words.
Settle ==
    /\ stage = "settle"
    /\ calldata' = <<64, ProofsAt, Len(block.output)>> \o block.output
                   \o <<1, 32, 48, block.proof[1], block.proof[2]>>
    /\ stage' = "done"
    /\ UNCHANGED <<block, left, words, blob>>

Next ==
    \/ Header \/ ContractsWritten \/ WriteClasses \/ Transform \/ Settle
    \/ \E a \in left : WriteContract(a) \/ NonceUnknown(a)

Spec == Init /\ [][Next]_vars

-------------------------------------------------------------------------------
(***************************************************************************)
(* A reader of the chain: the inverse transform gives the words back, and  *)
(* the words are the new class, nonce and values of contract after         *)
(* contract.                                                               *)
(***************************************************************************)
Reciprocal(x) == CHOOSE r \in 1 .. Modulus - 1 : (x * r) % Modulus = 1

\* The k-th coefficient of the polynomial through the points of the blob.
Recovered ==
    LET back == PointsOf(Reciprocal(Generator)) IN
    [k \in 1 .. BlobLen |->
        (Reciprocal(BlobLen)
         * FoldFunction(+, 0, [i \in 1 .. BlobLen |-> blob[i] * Power(back[i], k - 1)])) % Modulus]

Changes(word)   == word % Two[WordBits]
NewNonce(word)  == (word \div Two[WordBits]) % Two[WordBits]
ClassFlag(word) == word \div Two[2 * WordBits]

Overwrite(storage, data, at, n) ==
    [k \in DOMAIN storage |->
        IF \E i \in 0 .. n - 1 : data[at + 2 * i] = k
        THEN data[1 + CHOOSE p \in {at + 2 * i : i \in 0 .. n - 1} : data[p] = k]
        ELSE storage[k]]

\* The reader after one more contract.
Read(data, reader) ==
    LET at == reader.at
        a == data[at]
        word == data[at + 1]
        flag == ClassFlag(word)
        old == reader.state[a] IN
    [at    |-> at + 2 + flag + 2 * Changes(word),
     state |-> [reader.state EXCEPT ![a] =
         [class   |-> IF flag = 1 THEN data[at + 2] ELSE old.class,
          nonce   |-> NewNonce(word),
          storage |-> Overwrite(old.storage, data, at + 2 + flag, Changes(word))]]]

\* The state that the data of n contracts, from position 2 on, make of `state`.
Apply(data, n, state) ==
    LET reader[i \in 0 .. n] ==
            IF i = 0 THEN [at |-> 2, state |-> state] ELSE Read(data, reader[i - 1]) IN
    reader[n].state

-------------------------------------------------------------------------------
(* Properties *)

\* Contracts of which only the class is replaced do not get into the data.
ClassOnly == Replaced \ Touched

\* From the blob and the state before the block, a reader rebuilds the state after it,
\* whichever parts of whichever contracts have changed: the three fields of a DA word
\* never run into each other, no contract takes the words of the next, and what the
\* data do not mention has not changed.
BlobRebuildsState ==
    stage = "done" /\ ClassOnly = {} /\ Len(words) <= BlobLen =>
        Apply(Recovered, Recovered[1], block.before) = block.after

\* The contract follows the two offsets of updateStateKzgDA(uint256[],bytes[]) to the
\* program output and to the one proof of the block, and finds nothing else behind them.
Word(bytes) == 1 + bytes \div 32

CalldataDecodes ==
    stage = "done" =>
        LET lines == Word(calldata[1])
            proofs == Word(calldata[2])
            proof == proofs + Word(calldata[proofs + 1]) IN
        /\ SubSeq(calldata, lines + 1, lines + calldata[lines]) = block.output
        /\ calldata[proofs] = 1
        /\ calldata[proof] = 48
        /\ <<calldata[proof + 1], calldata[proof + 2]>> = block.proof
        /\ Len(calldata) = proof + 2
===============================================================================
