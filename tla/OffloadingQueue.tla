-------------------------- MODULE OffloadingQueue --------------------------
(***************************************************************************)
(* offloading_queue.h: a first-in first-out queue that keeps two pages of  *)
(* items in memory, the one it reads from and the one it writes to, and    *)
(* the full pages between them in files of the offload directory.  When    *)
(* both are the same page, the other buffer is a spare.                    *)
(*                                                                         *)
(* A queue is a record here, and its operations are operators on it, so    *)
(* that DepthMultiQueue can hold one for each depth, all over one          *)
(* directory.  A file is named by the queue and the number of its page.    *)
(***************************************************************************)
EXTENDS Integers, Sequences

CONSTANTS
    Items,
    Garbage,          \* what a fresh buffer holds
    ItemsPerPage      \* NUM_ITEMS_PER_PAGE

ASSUME PageAssumption == ItemsPerPage \in Nat \ {0} /\ Garbage \notin Items

Cells == 0..(ItemsPerPage - 1)
Data == [Cells -> Items \cup {Garbage}]
PageNumber == Nat
QueueId == Nat

Page == [page_index : PageNumber, write_to_idx : 0..ItemsPerPage,
         read_from_idx : 0..ItemsPerPage, data : Data]

Stats == [num_inserted : Nat, num_items_in_queue : Nat, num_extracted : Nat]

Queue == [id : QueueId, stats : Stats, pages : [{0, 1} -> Page],
          page_idx_to_write_to : {0, 1}, page_idx_for_backup : {0, 1, -1},
          page_idx_to_read_from : {0, 1}]

NewStats == [num_inserted |-> 0, num_items_in_queue |-> 0, num_extracted |-> 0]
StatsInsert(s) == [s EXCEPT !.num_inserted = @ + 1, !.num_items_in_queue = @ + 1]
StatsExtract(s) == [s EXCEPT !.num_items_in_queue = @ - 1, !.num_extracted = @ + 1]
IsEmpty(s) == s.num_items_in_queue = 0

NewPage == [page_index |-> 0, write_to_idx |-> 0, read_from_idx |-> 0,
            data |-> [c \in Cells |-> Garbage]]

NewQueue(id) ==
    [id |-> id, stats |-> NewStats, pages |-> [i \in {0, 1} |-> NewPage],
     page_idx_to_write_to |-> 0, page_idx_for_backup |-> 1,
     page_idx_to_read_from |-> 0]

-----------------------------------------------------------------------------
WritePage(q) == q.pages[q.page_idx_to_write_to]
ReadPage(q) == q.pages[q.page_idx_to_read_from]
CanInsert(page) == page.write_to_idx < ItemsPerPage
CanExtract(page) == page.read_from_idx < page.write_to_idx

StartAfter(page, other) ==
    [page EXCEPT !.page_index = other.page_index + 1,
                 !.write_to_idx = 0, !.read_from_idx = 0]
Bump(page) == StartAfter(page, page)

PageFile(q, page) == <<q.id, page.page_index>>

\* Mutant of Offloads: a full page is offloaded if it is not the next to be read.
OffloadsFarPages(q) ==
    ~CanInsert(WritePage(q)) /\ WritePage(q).page_index > ReadPage(q).page_index + 1

\* A full page is written to disk unless it is the one that is read from.
Offloads(q) ==
    ~CanInsert(WritePage(q)) /\ ReadPage(q).page_index # WritePage(q).page_index

MadeRoom(q) ==
    IF CanInsert(WritePage(q)) THEN q
    ELSE IF Offloads(q) THEN [q EXCEPT !.pages[q.page_idx_to_write_to] = Bump(@)]
    ELSE [q EXCEPT !.page_idx_to_write_to = q.page_idx_for_backup,
                   !.pages[q.page_idx_for_backup] = StartAfter(@, ReadPage(q)),
                   !.page_idx_for_backup = -1]

\* fcs_offloading_queue__insert(): the queue, and the files, after it.
Insert(q, x) ==
    LET room == MadeRoom(q)
        Put(page) == [page EXCEPT !.data[page.write_to_idx] = x,
                                  !.write_to_idx = @ + 1]
    IN  [room EXCEPT !.pages[room.page_idx_to_write_to] = Put(@),
                     !.stats = StatsInsert(@)]

FilesAfterInsert(q, files) ==
    IF Offloads(q)
    THEN [f \in DOMAIN files \cup {PageFile(q, WritePage(q))} |->
             IF f = PageFile(q, WritePage(q)) THEN WritePage(q).data ELSE files[f]]
    ELSE files

-----------------------------------------------------------------------------
\* The page read next is on disk, unless it is the one that is written to.
ReadsFile(q) ==
    /\ ~CanExtract(ReadPage(q))
    /\ ReadPage(q).page_index + 1 # WritePage(q).page_index
NextFile(q) == PageFile(q, Bump(ReadPage(q)))

\* Mutant of PageOfFile: the page is filled but not marked as full.
PageOfFileEmpty(page, data) == [Bump(page) EXCEPT !.data = data]
PageOfFile(page, data) ==
    [Bump(page) EXCEPT !.data = data, !.write_to_idx = ItemsPerPage]

Advanced(q, files) ==
    IF CanExtract(ReadPage(q)) THEN q
    ELSE IF ReadsFile(q)
    THEN [q EXCEPT !.pages[q.page_idx_to_read_from] =
                        PageOfFile(@, files[NextFile(q)])]
    ELSE [q EXCEPT !.page_idx_for_backup = q.page_idx_to_read_from,
                   !.page_idx_to_read_from = q.page_idx_to_write_to]

\* fcs_offloading_queue__extract() of a queue with items: what it returns, and
\* the queue, and the files, after it.
Extracted(q, files) ==
    LET page == ReadPage(Advanced(q, files)) IN page.data[page.read_from_idx]

Extract(q, files) ==
    LET adv == Advanced(q, files)
    IN  [adv EXCEPT !.pages[adv.page_idx_to_read_from].read_from_idx = @ + 1,
                    !.stats = StatsExtract(@)]

\* Mutant of FilesAfterExtract: the file is read but not removed.
FilesAfterExtractKept(q, files) == files
FilesAfterExtract(q, files) ==
    IF ReadsFile(q) THEN [f \in DOMAIN files \ {NextFile(q)} |-> files[f]] ELSE files

-----------------------------------------------------------------------------
\* What a queue holds, first in first: the items on from the place it reads, on
\* the page in memory or in the file where each is.
DataOfPage(q, files, n) ==
    IF n = ReadPage(q).page_index THEN ReadPage(q).data
    ELSE IF n = WritePage(q).page_index THEN WritePage(q).data
    ELSE files[<<q.id, n>>]

Contents(q, files) ==
    [i \in 1..q.stats.num_items_in_queue |->
        LET place == ReadPage(q).read_from_idx + i - 1
            page == ReadPage(q).page_index + (place \div ItemsPerPage)
        IN  DataOfPage(q, files, page)[place % ItemsPerPage]]

\* The files of a queue are the pages between the one read and the one written.
FilesOf(q) ==
    {<<q.id, n>> : n \in (ReadPage(q).page_index + 1)..(WritePage(q).page_index - 1)}

\* There is a spare buffer exactly if one page serves for reading and writing.
SpareExact(q) ==
    /\ (q.page_idx_for_backup = -1) <=> (q.page_idx_to_read_from # q.page_idx_to_write_to)
    /\ q.page_idx_for_backup # q.page_idx_to_write_to
=============================================================================
