------------------------------- MODULE FactTree -------------------------------
(***************************************************************************)
(* The fact of a SNOS run (jobs/snos_job): the output of the program is    *)
(* read from the memory of the Cairo PIE, the pages of the output builtin  *)
(* are checked to partition it, and the pages become the leaves of a tree  *)
(* whose shape is a list of pairs (n_pages, n_nodes).  The fact is the     *)
(* hash of the root; a hash is what it is computed from: the words of a    *)
(* leaf, the children of a parent.                                         *)
(*                                                                         *)
(* One step is one round of a loop of the code.                            *)
(***************************************************************************)
EXTENDS Integers, FiniteSets, SequencesExt

CONSTANTS
    Pies                        \* the Cairo PIEs considered

(***************************************************************************)
(* memory    : the output segment is "whole", has a "hole" or a "pointer"  *)
(* size      : its size                                                    *)
(* pages     : start and size of the pages, by their id                    *)
(* topology  : GPS_FACT_TOPOLOGY, or NoTopology                            *)
(***************************************************************************)
Page == [start : Nat, size : Nat]
NoTopology == <<-1>>

\* Assumed of the constants by the module that composes this one.
FactTreeAssumption ==
    \A pie \in Pies :
        /\ pie.memory \in {"whole", "hole", "pointer"}
        /\ pie.size \in Nat
        /\ DOMAIN pie.pages \subseteq Nat /\ IsFiniteSet(DOMAIN pie.pages)
        /\ \A id \in DOMAIN pie.pages : pie.pages[id] \in Page
        /\ pie.topology \in Seq(Nat) \cup {NoTopology}

VARIABLES
    pie,        \* the PIE
    step,         \* the loop that is running, or "done" or "failed"
    sizes,      \* page_sizes; those not yet used for leaves
    pageNo,     \* pages of the list seen so far
    nextStart,  \* expected_page_start; -1 before the first page
    pair,       \* pairs of the tree structure seen so far
    due,        \* leaves of the current pair not yet pushed
    nodes,      \* all nodes made so far
    stack,      \* node_stack: indices of nodes
    end         \* end_offset

vars == <<pie, step, sizes, pageNo, nextStart, pair, due, nodes, stack, end>>

-------------------------------------------------------------------------------
\* A node is a record of the words it ends with, how many it has, and its children
\* (end, size, children).  The first word of a node:
First(n) == nodes[n].end - nodes[n].size

Init ==
    /\ pie \in Pies
    /\ step = "output"
    /\ sizes = <<>> /\ pageNo = 0 /\ nextStart = -1
    /\ pair = 0 /\ due = 0
    /\ nodes = <<>> /\ stack = <<>> /\ end = 0

\* The code goes on only if the condition holds (ensure!).
Ensure(condition, next) == step' = IF condition THEN next ELSE "failed"

-------------------------------------------------------------------------------
(* get_program_output and get_fact_topology *)

ReadOutput ==
    /\ step = "output"
    /\ Ensure(pie.memory = "whole", "topology")
    /\ UNCHANGED <<pie, sizes, pageNo, nextStart, pair, due, nodes, stack, end>>

\* The shape of the tree: pairs, at most five; one page and no parent by default.
Structure == IF pie.topology = NoTopology THEN <<1, 0>> ELSE pie.topology

ReadTopology ==
    /\ step = "topology"
    /\ Ensure(IF pie.topology = NoTopology THEN DOMAIN pie.pages = {}
              ELSE Len(Structure) \in {2, 4, 6, 8, 10}, "pages")
    /\ sizes' = <<pie.size>>
    /\ UNCHANGED <<pie, pageNo, nextStart, pair, due, nodes, stack, end>>

Ids == DOMAIN pie.pages

\* The id of the next page of the sorted list.
NextId == CHOOSE id \in Ids : Cardinality({i \in Ids : i < id}) = pageNo

\* Page 0 ends where page 1 starts, and each page where the next one starts.
ReadPage ==
    /\ step = "pages" /\ pageNo < Cardinality(Ids)
    /\ LET page == pie.pages[NextId] IN
       /\ Ensure(/\ NextId = pageNo + 1
                 /\ IF pageNo = 0 THEN page.start > 0 /\ page.start < pie.size
                                  ELSE page.start = nextStart
                 /\ page.size > 0 /\ page.size < pie.size, "pages")
       /\ sizes' = Append(IF pageNo = 0 THEN <<page.start>> ELSE sizes, page.size)
       /\ nextStart' = page.start + page.size
    /\ pageNo' = pageNo + 1
    /\ UNCHANGED <<pie, pair, due, nodes, stack, end>>

PagesRead ==
    /\ step = "pages" /\ pageNo = Cardinality(Ids)
    /\ Ensure(Ids = {} \/ nextStart = pie.size, "pair")
    /\ UNCHANGED <<pie, sizes, pageNo, nextStart, pair, due, nodes, stack, end>>

-------------------------------------------------------------------------------
(* generate_merkle_root *)

Pairs == Len(Structure) \div 2
NPages == Structure[2 * pair - 1]
NNodes == Structure[2 * pair]

NextPair ==
    /\ step = "pair" /\ pair < Pairs
    /\ LET pages == Structure[2 * pair + 1] IN
       Ensure(pages <= Len(sizes), "leaves") /\ due' = pages
    /\ pair' = pair + 1
    /\ UNCHANGED <<pie, sizes, pageNo, nextStart, nodes, stack, end>>

Push(node, rest) ==
    /\ nodes' = Append(nodes, node)
    /\ stack' = Append(rest, Len(nodes) + 1)

PushLeaf ==
    /\ step = "leaves" /\ due > 0
    /\ Push([end |-> end + Head(sizes), size |-> Head(sizes), children |-> <<>>], stack)
    /\ end' = end + Head(sizes)
    /\ sizes' = Tail(sizes)
    /\ due' = due - 1
    /\ UNCHANGED <<pie, step, pageNo, nextStart, pair>>

LeavesPushed ==
    /\ step = "leaves" /\ due = 0
    /\ Ensure(NNodes <= Len(stack), IF NNodes > 0 THEN "parent" ELSE "pair")
    /\ UNCHANGED <<pie, sizes, pageNo, nextStart, pair, due, nodes, stack, end>>

\* Mutant of PushParent: one child too many stays on the stack.
PushParentKeeping ==
    /\ step = "parent"
    /\ LET keep == Len(stack) - NNodes
           children == SubSeq(stack, keep + 1, Len(stack)) IN
       Push([end |-> nodes[Last(children)].end,
             size |-> FoldFunction(+, 0, [i \in DOMAIN children |-> nodes[children[i]].size]),
             children |-> children], SubSeq(stack, 1, keep + 1))
    /\ step' = "pair"
    /\ UNCHANGED <<pie, sizes, pageNo, nextStart, pair, due, end>>

\* Mutant of PushParent: the offset of the first child is kept.
PushParentFirst ==
    /\ step = "parent"
    /\ LET keep == Len(stack) - NNodes
           children == SubSeq(stack, keep + 1, Len(stack)) IN
       Push([end |-> nodes[children[1]].end,
             size |-> FoldFunction(+, 0, [i \in DOMAIN children |-> nodes[children[i]].size]),
             children |-> children], SubSeq(stack, 1, keep))
    /\ step' = "pair"
    /\ UNCHANGED <<pie, sizes, pageNo, nextStart, pair, due, end>>

\* The top n_nodes of the stack become the children of one node.
PushParent ==
    /\ step = "parent"
    /\ LET keep == Len(stack) - NNodes
           children == SubSeq(stack, keep + 1, Len(stack)) IN
       Push([end |-> nodes[Last(children)].end,
             size |-> FoldFunction(+, 0, [i \in DOMAIN children |-> nodes[children[i]].size]),
             children |-> children], SubSeq(stack, 1, keep))
    /\ step' = "pair"
    /\ UNCHANGED <<pie, sizes, pageNo, nextStart, pair, due, end>>

\* Mutant of Root: pages that are left over are not noticed.
RootOfSome ==
    /\ step = "pair" /\ pair = Pairs
    /\ Ensure(Len(stack) = 1, "done")
    /\ UNCHANGED <<pie, sizes, pageNo, nextStart, pair, due, nodes, stack, end>>

\* One node is left, all pages are used, and both reach the end of the output.
Root ==
    /\ step = "pair" /\ pair = Pairs
    /\ Ensure(/\ Len(stack) = 1
              /\ sizes = <<>>
              /\ end = pie.size
              /\ nodes[stack[1]].end = pie.size, "done")
    /\ UNCHANGED <<pie, sizes, pageNo, nextStart, pair, due, nodes, stack, end>>

Next ==
    \/ ReadOutput \/ ReadTopology \/ ReadPage \/ PagesRead
    \/ NextPair \/ PushLeaf \/ LeavesPushed \/ PushParent \/ Root

Spec == Init /\ [][Next]_vars

-------------------------------------------------------------------------------
(* Properties *)

Total(s) == FoldFunction(+, 0, s)

\* Neighbours of a row of nodes share a border.
Adjoin(row) == \A i \in 1 .. Len(row) - 1 : nodes[row[i]].end = First(row[i + 1])

\* The nodes on the stack divide the words read so far among them, in their order,
\* and every parent is exactly its children, which are hashed with their end offsets.
NodesTile ==
    /\ Adjoin(stack)
    /\ IF stack = <<>> THEN end = 0
       ELSE First(stack[1]) = 0 /\ nodes[Last(stack)].end = end
    /\ \A n \in DOMAIN nodes :
           LET children == nodes[n].children IN
           children # <<>> => /\ Adjoin(children)
                              /\ First(n) = First(children[1])
                              /\ nodes[n].end = nodes[Last(children)].end

Parents(n) == {p \in DOMAIN nodes : \E i \in DOMAIN nodes[p].children : nodes[p].children[i] = n}

\* Whatever the shape, no page is hashed twice and none is left out: every node waits
\* on the stack, or has become the child of one parent; in the end all hang on the root.
EachOnce ==
    \A n \in DOMAIN nodes :
        Cardinality(Parents(n)) + Cardinality({i \in DOMAIN stack : stack[i] = n}) = 1

-------------------------------------------------------------------------------
(* What a valid PIE is, without a stack *)

ValidPages ==
    LET starts == [id \in Ids \cup {Cardinality(Ids) + 1} |->
                      IF id \in Ids THEN pie.pages[id].start ELSE pie.size] IN
    /\ Ids = 1 .. Cardinality(Ids)
    /\ \A id \in Ids : /\ starts[id] > 0
                       /\ pie.pages[id].size = starts[id + 1] - starts[id]
                       /\ pie.pages[id].size > 0

\* The number of nodes on the stack after k pairs, and before the parent of the k-th.
Pushed(k) == Total([i \in 1 .. k |-> Structure[2 * i - 1]])
Merged(k) == Total([i \in 1 .. k |-> IF Structure[2 * i] = 0 THEN 0 ELSE Structure[2 * i] - 1])

ValidTopology ==
    /\ pie.topology = NoTopology => Ids = {}
    /\ Len(Structure) \in {2, 4, 6, 8, 10}
    /\ Pushed(Pairs) = Cardinality(Ids) + 1
    /\ \A k \in 1 .. Pairs : Structure[2 * k] <= Pushed(k) - Merged(k - 1)
    /\ Pushed(Pairs) - Merged(Pairs) = 1

\* A fact is computed for exactly the PIEs whose pages partition the output and whose
\* topology is the post order of one tree over all of them ("the stack must contain
\* exactly one node, which will constitute the root of the Merkle tree").
RightVerdict ==
    LET valid == pie.memory = "whole" /\ ValidPages /\ ValidTopology IN
    (step = "done" => valid) /\ (step = "failed" => ~valid)
===============================================================================
