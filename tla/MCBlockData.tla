------------------------------ MODULE MCBlockData ------------------------------
(* Small PIEs and small states for TLC. *)
EXTENDS BlockData, TLC

-------------------------------------------------------------------------------
(* PIEs: all pages of two at most; all valid pages with all shapes of a tree. *)
MCPie(memory, size, thePages, topology) ==
    [memory |-> memory, size |-> size, pages |-> thePages, topology |-> topology]

CutAt(n, cuts) ==
    LET s == SetToSortSeq(cuts, <) IN
    [i \in DOMAIN s |-> [start |-> s[i], size |-> (IF i = Len(s) THEN n ELSE s[i + 1]) - s[i]]]

AnyPages == UNION {[ids -> [start : 0 .. 3, size : 0 .. 3]] : ids \in {{1}, {2}, {1, 2}, {1, 3}}}

Shapes == {<<-1>>} \cup UNION {[1 .. k -> 0 .. 3] : k \in {0, 1, 2, 4}} \cup [1 .. 6 -> 0 .. 2]

MCPies ==
    {MCPie("whole", 3, p, <<2, 2>>) : p \in AnyPages}
    \cup UNION {{MCPie("whole", n, CutAt(n, cuts), t) : cuts \in SUBSET (1 .. n - 1), t \in Shapes}
                  : n \in {0, 3}}
    \cup {MCPie(m, 1, <<>>, <<-1>>) : m \in {"hole", "pointer"}}

-------------------------------------------------------------------------------
(* Blocks: three contracts, the second of which changes in every way; then two classes *)
(* are declared and the third changes as well.                                         *)
Contract(class, nonce, storage) == [class |-> class, nonce |-> nonce, storage |-> storage]
Empty(keys) == Contract(0, 0, [k \in keys |-> 0])

Contracts(classes, nonces, keys) ==
    {Empty(keys)} \cup {Contract(c, n, s) : c \in classes, n \in nonces, s \in [keys -> {0, 5}]}

\* A class is not removed and a nonce does not decrease.
Changes(classes, nonces, keys) ==
    {p \in Contracts(classes, nonces, keys) \X Contracts(classes, nonces, keys) :
        (p[1].class # 0 => p[2].class # 0) /\ p[1].nonce <= p[2].nonce}

System  == {<<Empty({2}), Empty({2})>>, <<Empty({2}), Contract(0, 0, [k \in {2} |-> 5])>>}
Deploys == <<Empty({2, 3}), Contract(7, 1, [k \in {2, 3} |-> 5])>>
Idle    == <<Empty({2}), Empty({2})>>
NonceUp == <<Contract(7, 0, [k \in {2} |-> 0]), Contract(7, 1, [k \in {2} |-> 0])>>

MCBlock(p, q, r, declared, output) ==
    [before |-> (1 :> p[1]) @@ (4 :> q[1]) @@ (6 :> r[1]),
     after  |-> (1 :> p[2]) @@ (4 :> q[2]) @@ (6 :> r[2]),
     declared |-> declared, output |-> output, proof |-> <<11, 12>>]

MCBlocks ==
    {MCBlock(p, q, r, <<>>, <<>>) :
        p \in System, q \in Changes({7, 8}, {0, 3}, {2, 3}), r \in {Idle, NonceUp}}
    \cup {MCBlock(p, Deploys, r, (9 :> 10) @@ (11 :> 12), <<21, 22>>) :
        p \in System, r \in Changes({7}, {0, 3}, {2})}

Outputs(n) == [i \in 1 .. n |-> 20 + i]

MCRelated ==
    {<<p, MCBlock(Idle, Deploys, NonceUp, <<>>, Outputs(p.size))>> : p \in MCPies}
    \cup {<<MCPie("whole", Len(b.output), <<>>, <<-1>>), b>> : b \in MCBlocks}

MCAllBlocks == {both[2] : both \in MCRelated}
MCAllPies   == {both[1] : both \in MCRelated}
===============================================================================
