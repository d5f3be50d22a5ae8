----------------------------- MODULE TimeIndex -----------------------------
(***************************************************************************)
(* The copy-on-write tree of pages that each series has (index.zig).       *)
(*                                                                         *)
(* A checkpoint adds the pages written since the last one by rewriting the *)
(* right spine: the path from the root to the rightmost leaf.  The writer  *)
(* keeps the spine it wrote last and rewrites it in its own buffer, each   *)
(* level being read before its place is overwritten; a writer that just    *)
(* opened the file, or that runs on a simulated file, reads the spine from *)
(* the file and builds the new one aside.                                  *)
(*                                                                         *)
(* Pages are numbered in the order they are written, and stand for their   *)
(* timestamps.  Nodes are numbered in the order they lie in the file.      *)
(***************************************************************************)
EXTENDS Integers, Sequences, SequencesExt, FiniteSets

CONSTANTS
    Capacity,   \* index.entry_capacity
    HeightMax,  \* index.height_max
    MaxPages,   \* bound: pages published
    MaxBatch,   \* bound: pages of one checkpoint
    MaxFailures \* bound: checkpoints that fail

ASSUME TimeIndexAssumption ==
    /\ Capacity \in Nat \ {0, 1}
    /\ HeightMax \in Nat \ {0}
    /\ MaxPages \in Nat
    /\ MaxBatch \in Nat
    /\ MaxFailures \in Nat

VARIABLES
    nodes,          \* the index nodes in the file, junk included
    root,           \* the entry of the published root, or NoRoot
    right_spine,    \* the writer's cached spine, root first; empty: none
    page_count,     \* pages of the published generation
    trees,          \* every generation: its root and its page count
    index_poisoned, \* the writer failed and can only be reopened
    failures

indexVars == <<nodes, root, right_spine, page_count, trees, index_poisoned,
               failures>>

-----------------------------------------------------------------------------
(* Entries and nodes.  A summary is the first and the last page covered.   *)

Entry(pointer, first, last) ==
    [pointer |-> pointer, first |-> first, last |-> last]
NoRoot == Entry(0, 0, 0)
PageEntry(page) == Entry(page, page, page)

Node(level, entries) ==
    [level |-> level, entries |-> entries,
     first |-> entries[1].first, last |-> Last(entries).last]
BlankNode == [level |-> 0, entries |-> << >>, first |-> 0, last |-> 0]

DivCeil(a, b) == (a + b - 1) \div b

(* writeLevel cuts the entries of a level into nodes of Capacity.          *)
Group(entries, i) ==
    SubSeq(entries, (i - 1) * Capacity + 1, Min({i * Capacity, Len(entries)}))

WriteLevel(file, level, entries) ==
    LET written == [i \in 1 .. DivCeil(Len(entries), Capacity) |->
                        Node(level, Group(entries, i))]
    IN  [file |-> file \o written,
         next |-> [i \in DOMAIN written |->
                    Entry(Len(file) + i, written[i].first, written[i].last)],
         rightmost |-> Last(written)]

-----------------------------------------------------------------------------
(* The right spine.                                                        *)

(* loadRightSpine: element d of the path from the root's node.             *)
LoadRightSpine(file, entry) ==
    LET top == file[entry.pointer]
        node[d \in 0 .. top.level] ==
            IF d = 0 THEN top ELSE file[Last(node[d - 1].entries).pointer]
    IN  [d \in 1 .. top.level + 1 |-> node[d - 1]]

(* validateRightSpine compares summaries only.                             *)
ValidateRightSpine(spine, entry) ==
    /\ Len(spine) \in 1 .. HeightMax
    /\ spine[1].first = entry.first
    /\ spine[1].last = entry.last
    /\ Last(spine).level = 0
    /\ \A d \in 1 .. Len(spine) : Len(spine[d].entries) \in 1 .. Capacity
    /\ \A d \in 1 .. Len(spine) - 1 :
        /\ spine[d].level = spine[d + 1].level + 1
        /\ Last(spine[d].entries).first = spine[d + 1].first
        /\ Last(spine[d].entries).last = spine[d + 1].last

(* Mutant: the entry of the child that is replaced is kept.                *)
KeptWithReplaced(node) == node.entries

(* The entries of a node of the spine that an append keeps: all of the     *)
(* leaf's, all but the last of an inner node's.                            *)
Kept(node) == IF node.level = 0 THEN node.entries ELSE Front(node.entries)

KeptCount(spine, level) ==
    IF level < Len(spine) THEN Len(Kept(spine[Len(spine) - level])) ELSE 0

(* How many entries each level receives from the one below: the new pages, *)
(* and then one for each node written.                                     *)
NodeCounts(spine, added) ==
    LET count[level \in 0 .. HeightMax] ==
            IF level = 0 THEN added
            ELSE DivCeil(KeptCount(spine, level - 1) + count[level - 1], Capacity)
    IN  count

(* Mutant: the tallest tree is taken to be too deep.                       *)
AppendedSpineDepthBelowMax(spine, added) ==
    LET count == NodeCounts(spine, added)
        depths == {d \in Len(spine) .. HeightMax - 1 : count[d] = 1}
    IN  IF depths = {} THEN 0 ELSE Min(depths)

(* appendedSpineDepth: the first depth, from the old one on, with a single *)
(* top node.  0 stands for IndexTooDeep.                                   *)
AppendedSpineDepth(spine, added) ==
    LET count == NodeCounts(spine, added)
        depths == {d \in Len(spine) .. HeightMax : count[d] = 1}
    IN  IF depths = {} THEN 0 ELSE Min(depths)

-----------------------------------------------------------------------------
(* appendWithSpine.                                                        *)

(* In place, the new node of a level overwrites the buffer at the place it *)
(* has in a spine of the predicted depth.                                  *)
StoreInPlace(buffer, depth, predicted, node) ==
    [buffer EXCEPT ![predicted - node.level] = node]

(* A level is rewritten, with what the level below was cut into, unless it *)
(* is above the old root and there is a single node below it.              *)
WriteRound(below, depth, predicted, level) ==
    LET old == below.buffer[depth - level]
        w == IF level < depth
             THEN WriteLevel(below.file, old.level, Kept(old) \o below.next)
             ELSE WriteLevel(below.file, level, below.next)
    IN  IF level >= depth /\ Len(below.next) = 1 THEN below
        ELSE [file |-> w.file,
              next |-> w.next,
              fresh |-> <<w.rightmost>> \o below.fresh,
              buffer |-> IF predicted = 0 THEN below.buffer
                         ELSE StoreInPlace(below.buffer, depth, predicted, w.rightmost)]

(* The levels rewritten bottom up.  spine is read root first; predicted is *)
(* 0 when the new spine is built aside (fresh).                            *)
Rounds(file, spine, predicted, added) ==
    LET depth == Len(spine)
        after[level \in 0 .. HeightMax] ==
            IF level = 0
            THEN [file |-> file, next |-> added, fresh |-> << >>,
                  buffer |-> [d \in 1 .. Max({depth, predicted}) |->
                                IF d <= depth THEN spine[d] ELSE BlankNode]]
            ELSE WriteRound(after[level - 1], depth, predicted, level - 1)
    IN  after

AppendWithSpine(file, spine, predicted, added) ==
    LET top == Rounds(file, spine, predicted, added)[HeightMax]
    IN  IF Len(top.next) > 1
        THEN [error |-> "IndexTooDeep", file |-> top.file]
        ELSE [error |-> "none", file |-> top.file, root |-> top.next[1],
              spine |-> IF predicted = 0 THEN top.fresh
                        ELSE [d \in 1 .. Len(top.fresh) |-> top.buffer[d]]]

(* A writer without a cached spine reads it from the file, where a new     *)
(* series has none.                                                        *)
AppendUncached(added) ==
    AppendWithSpine(nodes,
                    IF root = NoRoot THEN <<BlankNode>>
                    ELSE LoadRightSpine(nodes, root),
                    0, added)

AppendCached(added) ==
    LET predicted == AppendedSpineDepth(right_spine, Len(added))
    IN  IF predicted = 0 THEN [error |-> "IndexTooDeep", file |-> nodes]
        ELSE IF ~ValidateRightSpine(right_spine, root)
        THEN [error |-> "InvalidIndex", file |-> nodes]
        ELSE AppendWithSpine(nodes, right_spine, predicted, added)

NewPages(k) == [i \in 1 .. k |-> PageEntry(page_count + i)]

Appended(k) ==
    IF right_spine = << >> THEN AppendUncached(NewPages(k))
    ELSE AppendCached(NewPages(k))

-----------------------------------------------------------------------------
IndexInit ==
    /\ nodes = << >>
    /\ root = NoRoot
    /\ right_spine = << >>
    /\ page_count = 0
    /\ trees = {}
    /\ index_poisoned = FALSE
    /\ failures = 0

(* A checkpoint that publishes k new pages.                                *)
CheckpointIndex(k) ==
    /\ ~index_poisoned
    /\ page_count + k <= MaxPages
    /\ LET result == Appended(k) IN
        /\ result.error = "none"
        /\ nodes' = result.file
        /\ root' = result.root
        /\ right_spine' = result.spine
        /\ trees' = trees \cup
                {[root |-> result.root, pages |-> page_count + k]}
    /\ page_count' = page_count + k
    /\ UNCHANGED <<index_poisoned, failures>>

(* The index refuses the pages: the writer is poisoned.                    *)
CheckpointIndexRefused(k) ==
    /\ ~index_poisoned
    /\ failures < MaxFailures
    /\ LET result == Appended(k) IN
        /\ result.error # "none"
        /\ nodes' = result.file
    /\ index_poisoned' = TRUE
    /\ failures' = failures + 1
    /\ UNCHANGED <<root, right_spine, page_count, trees>>

(* A write of this checkpoint fails.  Some of the nodes are in the file,   *)
(* the cached spine is already the new one, and the writer is poisoned.    *)
CheckpointIndexFails(k) ==
    /\ ~index_poisoned
    /\ failures < MaxFailures
    /\ LET result == Appended(k) IN
        /\ result.error = "none"
        /\ \E n \in Len(nodes) .. Len(result.file) :
                nodes' = SubSeq(result.file, 1, n)
        /\ right_spine' = result.spine
    /\ index_poisoned' = TRUE
    /\ failures' = failures + 1
    /\ UNCHANGED <<root, page_count, trees>>

(* The writer is closed or aborted and another one opens the file.         *)
ReopenIndex ==
    /\ right_spine # << >> \/ index_poisoned
    /\ right_spine' = << >>
    /\ index_poisoned' = FALSE
    /\ UNCHANGED <<nodes, root, page_count, trees, failures>>

IndexNext ==
    \/ \E k \in 1 .. MaxBatch : CheckpointIndex(k)
    \/ \E k \in 1 .. MaxBatch : CheckpointIndexRefused(k)
    \/ \E k \in 1 .. MaxBatch : CheckpointIndexFails(k)
    \/ ReopenIndex

IndexSpec == IndexInit /\ [][IndexNext]_indexVars

-----------------------------------------------------------------------------
(* Properties.                                                             *)

(* The entries of the nodes that entries point to, end to end.             *)
Below(file, entries) ==
    FlattenSeq([i \in DOMAIN entries |-> file[entries[i].pointer].entries])

(* The entries of a tree, level by level from the root's.                  *)
Levels(entry) ==
    LET height == nodes[entry.pointer].level + 1
        below[d \in 0 .. height] ==
            IF d = 0 THEN <<entry>> ELSE Below(nodes, below[d - 1])
    IN  below

(* Every generation ever published is a tree of at most Capacity entries a *)
(* node, with right summaries and levels, whose leaves list exactly its    *)
(* pages in order: rewriting the spine loses, repeats and reorders none,   *)
(* whatever checkpoints failed in between.                                 *)
TreesHoldTheirPages ==
    \A g \in trees :
        LET below == Levels(g.root)
            height == nodes[g.root.pointer].level + 1
        IN  /\ \A d \in 0 .. height - 1 : \A i \in DOMAIN below[d] :
                LET node == nodes[below[d][i].pointer] IN
                /\ node.level = height - 1 - d
                /\ Len(node.entries) \in 1 .. Capacity
                /\ node.first = below[d][i].first
                /\ node.last = below[d][i].last
            /\ below[height] = [i \in 1 .. g.pages |-> PageEntry(i)]

(* The pages of a tree whose nodes are all full.                           *)
Room[height \in 0 .. HeightMax] ==
    IF height = 0 THEN 1 ELSE Capacity * Room[height - 1]

(* Rewriting the spine leaves no slack in the tree either: the height      *)
(* limit refuses pages exactly when a full tree could not hold them, with  *)
(* or without a cached spine.                                              *)
RefusedExactlyWhenFull ==
    ~index_poisoned =>
        \A k \in 1 .. MaxBatch :
            (Appended(k).error # "none") <=> (page_count + k > Room[HeightMax])

=============================================================================
