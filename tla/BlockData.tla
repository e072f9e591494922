------------------------------- MODULE BlockData -------------------------------
(***************************************************************************)
(* What the orchestrator computes for one block: first the SNOS job the    *)
(* fact of the program output, then the DA job and the settlement client   *)
(* the blob and the call of the core contract.  A block whose fact cannot  *)
(* be computed has a failed SNOS job and gets no blob.                     *)
(***************************************************************************)
EXTENDS Integers, FiniteSets, SequencesExt

CONSTANTS
    Pies, Blocks,               \* what SNOS returns, what the node returns
    Related,                    \* pairs of the two that belong to the same block
    WordBits, BlobBits, Modulus, Generator

VARIABLES
    pie, step, sizes, pageNo, nextStart, pair, due, nodes, stack, end,
    block, stage, left, words, blob, calldata

factVars == <<pie, step, sizes, pageNo, nextStart, pair, due, nodes, stack, end>>
blobVars == <<block, stage, left, words, blob, calldata>>

Fact == INSTANCE FactTree
Blob == INSTANCE BlobData

ASSUME BlockDataAssumption ==
    /\ Fact!FactTreeAssumption /\ Blob!BlobDataAssumption
    /\ Related \subseteq Pies \X Blocks
    /\ \A both \in Related : Len(both[2].output) = both[1].size

Init ==
    /\ \E both \in Related : pie = both[1] /\ block = both[2]
    /\ Fact!Init /\ Blob!Init

Compute == Fact!Next /\ UNCHANGED blobVars

Publish == step = "done" /\ Blob!Next /\ UNCHANGED factVars

Next == Compute \/ Publish

Spec == Init /\ [][Next]_<<factVars, blobVars>>

-------------------------------------------------------------------------------
\* The properties of the two parts, which they state themselves.
NodesTile    == Fact!NodesTile
EachOnce     == Fact!EachOnce
RightVerdict == Fact!RightVerdict
BlobRebuildsState == Blob!BlobRebuildsState
CalldataDecodes   == Blob!CalldataDecodes
===============================================================================
