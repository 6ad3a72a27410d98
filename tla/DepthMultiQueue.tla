-------------------------- MODULE DepthMultiQueue --------------------------
(***************************************************************************)
(* depth_multi_queue.h: the queue of split_fcc_solver.c.  It has one       *)
(* OffloadingQueue for each depth from min_depth to max_depth, in an array *)
(* that grows when a larger depth turns up, and takes items from the       *)
(* smallest depth that has some.  Its callers hold global_lock.            *)
(***************************************************************************)
EXTENDS OffloadingQueue, FiniteSets, FiniteSetsExt

CONSTANTS
    FirstDepth, FirstItem,    \* what __init() inserts
    DeepestDepth,             \* bound of the model on the depths
    GrowBy,                   \* DEPTH_Q_GROW_BY
    MaxInserted,              \* bound of the model on the insertions
    Nothing                   \* an extraction that returned false

ASSUME DepthAssumption ==
    /\ FirstDepth \in Nat /\ DeepestDepth \in Nat /\ FirstDepth <= DeepestDepth
    /\ FirstItem \in Items
    /\ GrowBy \in Nat \ {0}
    /\ MaxInserted \in Nat \ {0}
    /\ Nothing \notin (Nat \X Items)

VARIABLES
    stats,
    max_depth, max_depth_margin,
    queues_by_depth,          \* the queue of each depth, indexed from zero
    allocated,                \* how many queues the array has room for
    next_queue_id,
    files,                    \* the offload directory
    given                     \* what the last extraction returned

queueVars == <<stats, max_depth, max_depth_margin, queues_by_depth, allocated,
          next_queue_id, files, given>>

min_depth == FirstDepth       \* never changes
Slots == DOMAIN queues_by_depth

TypeOK ==
    /\ stats \in Stats
    /\ max_depth \in min_depth..DeepestDepth
    /\ max_depth_margin \in Nat
    /\ allocated \in Nat
    /\ Slots = 0..(max_depth - min_depth)
    /\ \A s \in Slots : s < allocated /\ queues_by_depth[s] \in Queue
    /\ next_queue_id \in Nat
    /\ DOMAIN files \subseteq QueueId \X PageNumber
    /\ \A f \in DOMAIN files : files[f] \in Data
    /\ given \in (min_depth..max_depth) \X Items \cup {Nothing}

QueueInit ==
    LET q == NewQueue(0) IN
    /\ stats = StatsInsert(NewStats)
    /\ max_depth = FirstDepth
    /\ max_depth_margin = FirstDepth + GrowBy
    /\ queues_by_depth = [s \in {0} |-> Insert(q, FirstItem)]
    /\ allocated = GrowBy + 1
    /\ next_queue_id = 1
    /\ files = FilesAfterInsert(q, <<>>)
    /\ given = Nothing

-----------------------------------------------------------------------------
\* Mutant of Margin: the array grows when it was already too small.
MarginLate(m, depth) == IF depth > m THEN m + GrowBy ELSE m

\* max_depth_margin after the loop of __insert() reached one more depth.
Margin(m, depth) == IF depth = m THEN m + GrowBy ELSE m

\* Mutant of QueueIdAt: every queue has the same files.
QueueIdAtSame(depth) == 0
\* The loop makes the queues of max_depth + 1 to depth, with ids in turn.
QueueIdAt(depth) == next_queue_id + (depth - max_depth - 1)

\* One turn of the loop of fcs_depth_multi_queue__insert() at each depth up to
\* the new one, if it is larger than max_depth.
Grown(depth) ==
    [s \in 0..(Max({depth, max_depth}) - min_depth) |->
        IF s \in Slots THEN queues_by_depth[s] ELSE NewQueue(QueueIdAt(s + min_depth))]

MarginAfter(depth) ==
    LET m[d \in max_depth..Max({depth, max_depth})] ==
            IF d = max_depth THEN max_depth_margin ELSE Margin(m[d - 1], d)
    IN  m[Max({depth, max_depth})]

InsertAtDepth(depth, x) ==
    LET slot == depth - min_depth
        q == Grown(depth)[slot]
    IN
    /\ stats.num_inserted < MaxInserted
    /\ max_depth' = Max({depth, max_depth})
    /\ max_depth_margin' = MarginAfter(depth)
    /\ allocated' = IF max_depth_margin' # max_depth_margin
                    THEN max_depth_margin' ELSE allocated
    /\ next_queue_id' = next_queue_id + (max_depth' - max_depth)
    /\ queues_by_depth' = [Grown(depth) EXCEPT ![slot] = Insert(q, x)]
    /\ files' = FilesAfterInsert(q, files)
    /\ stats' = StatsInsert(stats)
    /\ UNCHANGED given

\* The loop of __extract() up to the first queue that is not empty.
NonEmpty == {s \in Slots : ~IsEmpty(queues_by_depth[s].stats)}

ExtractFirst ==
    LET slot == Min(NonEmpty)
        q == queues_by_depth[slot]
    IN
    /\ ~IsEmpty(stats)
    /\ given' = <<slot + min_depth, Extracted(q, files)>>
    /\ queues_by_depth' = [queues_by_depth EXCEPT ![slot] = Extract(q, files)]
    /\ files' = FilesAfterExtract(q, files)
    /\ stats' = StatsExtract(stats)
    /\ UNCHANGED <<max_depth, max_depth_margin, allocated, next_queue_id>>

ExtractNothing ==
    /\ IsEmpty(stats)
    /\ given' = Nothing
    /\ UNCHANGED <<stats, max_depth, max_depth_margin, queues_by_depth,
                   allocated, next_queue_id, files>>

QueueNext ==
    \/ \E depth \in min_depth..DeepestDepth, x \in Items : InsertAtDepth(depth, x)
    \/ ExtractFirst
    \/ ExtractNothing

QueueSpec == QueueInit /\ [][QueueNext]_queueVars

-----------------------------------------------------------------------------
\* The pages, files and arrays implement a queue for each depth: items come out
\* in the order they went in, each once, the shallowest depth first.
Fifo == INSTANCE DepthFifo WITH
    Depths <- min_depth..DeepestDepth,
    fifo <- [d \in min_depth..DeepestDepth |->
                IF d - min_depth \in Slots
                THEN Contents(queues_by_depth[d - min_depth], files) ELSE <<>>]
ImplementsFifo == Fifo!Spec

\* The offload directory holds the pages between the one a queue reads and the
\* one it writes, of no queue another's, and no file that was read already; and
\* no queue lies beyond the memory that the array has grown to (TypeOK).
DirectoryExact ==
    /\ TypeOK
    /\ DOMAIN files = UNION {FilesOf(queues_by_depth[s]) : s \in Slots}
    /\ \A s, t \in Slots : queues_by_depth[s].id = queues_by_depth[t].id => s = t
    /\ \A s \in Slots : SpareExact(queues_by_depth[s])
=============================================================================
