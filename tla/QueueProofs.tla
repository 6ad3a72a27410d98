---------------------------- MODULE QueueProofs ----------------------------
(***************************************************************************)
(* Theorems about the queue by depth, for pages of any size, any depths,   *)
(* any growth of the array and any items: the offload directory is exact,  *)
(* and the pages, files and arrays implement DepthFifo.                    *)
(***************************************************************************)
EXTENDS DepthMultiQueue, FiniteSetTheorems, SequenceTheorems, WellFoundedInduction, TLAPS

-----------------------------------------------------------------------------
(***************************************************************************)
(* One queue.  It reads and writes one page, or reads a full page and      *)
(* writes a later one; what it holds lies between the two places, and the  *)
(* pages between the two are in the directory.                             *)
(***************************************************************************)
SamePage(q) == q.page_idx_to_read_from = q.page_idx_to_write_to

PlacesInv(q) ==
    /\ q \in Queue
    /\ SpareExact(q)
    /\ ReadPage(q).page_index <= WritePage(q).page_index
    /\ SamePage(q) <=> ReadPage(q).page_index = WritePage(q).page_index
    /\ ~SamePage(q) => ReadPage(q).write_to_idx = ItemsPerPage
    /\ ReadPage(q).read_from_idx <= ReadPage(q).write_to_idx
    /\ ~SamePage(q) => WritePage(q).read_from_idx = 0

\* How many pages lie from the one read to the one written.
Span(q) == WritePage(q).page_index - ReadPage(q).page_index

QueueInv(q, fs) ==
    /\ PlacesInv(q)
    /\ q.stats.num_items_in_queue
          = Span(q) * ItemsPerPage + WritePage(q).write_to_idx - ReadPage(q).read_from_idx
    /\ FilesOf(q) \subseteq DOMAIN fs
    /\ \A i \in DOMAIN Contents(q, fs) : Contents(q, fs)[i] \in Items

-----------------------------------------------------------------------------
(***************************************************************************)
(* Division by the size of a page.                                         *)
(***************************************************************************)
\* A place is its page and its cell ...
LEMMA DivMod ==
    ASSUME NEW N \in Nat \ {0}, NEW a \in Nat, NEW b \in 0..(N - 1)
    PROVE  (a * N + b) \div N = a /\ (a * N + b) % N = b
OBVIOUS

\* ... and each place has them.
LEMMA DivModType ==
    ASSUME NEW N \in Nat \ {0}, NEW m \in Nat
    PROVE  m \div N \in Nat /\ m % N \in 0..(N - 1) /\ m = (m \div N) * N + (m % N)
OBVIOUS

\* The same cell of the next page.
LEMMA NextPageDivMod ==
    ASSUME NEW N \in Nat \ {0}, NEW m \in Nat
    PROVE  (N + m) \div N = 1 + (m \div N) /\ (N + m) % N = m % N
<1>1. /\ m \div N \in Nat /\ m % N \in 0..(N - 1)
      /\ m = (m \div N) * N + (m % N)
  BY DivModType
<1>2. PICK a \in Nat, b \in 0..(N - 1) : a = m \div N /\ b = m % N /\ m = a * N + b
  BY <1>1
<1>3. N + m = (1 + a) * N + b
  BY <1>2
<1>4. ((1 + a) * N + b) \div N = 1 + a /\ ((1 + a) * N + b) % N = b
  BY DivMod
<1> QED
  BY <1>2, <1>3, <1>4

\* A place before cell b of page a is on an earlier page or in an earlier cell.
LEMMA BeforeDivMod ==
    ASSUME NEW N \in Nat \ {0}, NEW m \in Nat, NEW a \in Nat, NEW b \in 0..N, m < a * N + b
    PROVE  m \div N < a \/ (m \div N = a /\ m % N < b)
OBVIOUS

-----------------------------------------------------------------------------
(***************************************************************************)
(* What the operations do to pages and queues, field by field.             *)
(***************************************************************************)
LEMMA PageFields ==
    ASSUME NEW page \in Page
    PROVE  /\ page.page_index \in Nat
           /\ page.write_to_idx \in 0..ItemsPerPage /\ page.read_from_idx \in 0..ItemsPerPage
           /\ page.data \in [Cells -> Items \cup {Garbage}]
BY DEF Page, Data, PageNumber

\* An item is written at the place to write to ...
Put(page, x) == [page EXCEPT !.data[page.write_to_idx] = x, !.write_to_idx = @ + 1]

\* queue_page__insert(): an item put into a page with room leaves a page that has it in
\* its first free cell, and is one cell fuller.
LEMMA PutPage ==
    ASSUME NEW page \in Page, CanInsert(page), NEW x \in Items
    PROVE  /\ Put(page, x) \in Page
           /\ Put(page, x).page_index = page.page_index
           /\ Put(page, x).read_from_idx = page.read_from_idx
           /\ Put(page, x).write_to_idx = page.write_to_idx + 1
           /\ Put(page, x).data = [page.data EXCEPT ![page.write_to_idx] = x]
<1>1. page.write_to_idx + 1 \in 0..ItemsPerPage /\ page.write_to_idx \in Cells
  BY PageAssumption, PageFields DEF CanInsert, Cells
<1> DEFINE d == [page.data EXCEPT ![page.write_to_idx] = x]
           p == [page EXCEPT !.data[page.write_to_idx] = x]
           put == Put(page, x)
<1>2. d \in Data
  BY <1>1, PageFields DEF Data
<1>3. /\ p \in Page
      /\ p.page_index = page.page_index /\ p.read_from_idx = page.read_from_idx
      /\ p.write_to_idx = page.write_to_idx /\ p.data = d
  <2>1. p = [page EXCEPT !.data = d]
    OBVIOUS
  <2> HIDE DEF d, p
  <2> QED
    BY <1>2, <2>1 DEF Page
<1>4. put = [p EXCEPT !.write_to_idx = page.write_to_idx + 1]
  BY DEF Put, Page
<1> HIDE DEF p, put
<1>5. /\ put \in Page
      /\ put.page_index = page.page_index /\ put.read_from_idx = page.read_from_idx
      /\ put.write_to_idx = page.write_to_idx + 1 /\ put.data = d
  BY <1>1, <1>3, <1>4 DEF Page
<1> QED
  BY <1>5 DEF put

\* ... and a page is begun after another one.
LEMMA StartedPage ==
    ASSUME NEW page \in Page, NEW other \in Page
    PROVE  /\ StartAfter(page, other) \in Page
           /\ StartAfter(page, other).page_index = other.page_index + 1
           /\ StartAfter(page, other).write_to_idx = 0
           /\ StartAfter(page, other).read_from_idx = 0
           /\ StartAfter(page, other).data = page.data
<1> DEFINE p == [page EXCEPT !.page_index = other.page_index + 1]
           r == [p EXCEPT !.write_to_idx = 0]
<1>0. other.page_index + 1 \in PageNumber /\ 0 \in 0..ItemsPerPage
  BY PageAssumption DEF Page, PageNumber
<1>1. /\ p \in Page /\ p.page_index = other.page_index + 1 /\ p.data = page.data
  BY <1>0 DEF Page
<1>2. r \in Page /\ r.page_index = other.page_index + 1 /\ r.data = page.data /\ r.write_to_idx = 0
  <2> HIDE DEF p
  <2> QED
    BY <1>0, <1>1 DEF Page
<1>3. StartAfter(page, other) = [r EXCEPT !.read_from_idx = 0]
  BY DEF StartAfter, Page
<1> HIDE DEF r
<1> QED
  BY <1>0, <1>2, <1>3 DEF Page

\* The parts of a queue have their types.
LEMMA QueueFields ==
    ASSUME NEW q \in Queue
    PROVE  /\ q.id \in Nat /\ q.stats \in Stats /\ q.pages \in [{0, 1} -> Page]
           /\ q.page_idx_to_write_to \in {0, 1} /\ q.page_idx_to_read_from \in {0, 1}
           /\ q.page_idx_for_backup \in {0, 1, -1}
           /\ WritePage(q) \in Page /\ ReadPage(q) \in Page
BY DEF Queue, QueueId, WritePage, ReadPage

\* A queue of which one page is another one.
WithPage(q, i, page) == [q EXCEPT !.pages[i] = page]

\* A queue that one of its two pages is replaced in differs in that page alone.
LEMMA WithPageFields ==
    ASSUME NEW q \in Queue, NEW i \in {0, 1}, NEW page \in Page
    PROVE  /\ WithPage(q, i, page) \in Queue
           /\ WithPage(q, i, page).id = q.id /\ WithPage(q, i, page).stats = q.stats
           /\ WithPage(q, i, page).pages = [q.pages EXCEPT ![i] = page]
           /\ WithPage(q, i, page).page_idx_to_write_to = q.page_idx_to_write_to
           /\ WithPage(q, i, page).page_idx_for_backup = q.page_idx_for_backup
           /\ WithPage(q, i, page).page_idx_to_read_from = q.page_idx_to_read_from
<1> DEFINE ps == [q.pages EXCEPT ![i] = page]
           r == WithPage(q, i, page)
<1>1. ps \in [{0, 1} -> Page]
  BY QueueFields
<1>2. r = [q EXCEPT !.pages = ps]
  BY DEF WithPage
<1> HIDE DEF ps, r
<1>3. /\ r \in Queue /\ r.id = q.id /\ r.stats = q.stats /\ r.pages = ps
      /\ r.page_idx_to_write_to = q.page_idx_to_write_to
      /\ r.page_idx_for_backup = q.page_idx_for_backup
      /\ r.page_idx_to_read_from = q.page_idx_to_read_from
  BY <1>1, <1>2 DEF Queue
<1> QED
  BY <1>3 DEF ps, r

\* An insertion counts one item more and an extraction one less, never below none.
LEMMA StatsCount ==
    ASSUME NEW s \in Stats
    PROVE  /\ StatsInsert(s) \in Stats
           /\ StatsInsert(s).num_items_in_queue = s.num_items_in_queue + 1
           /\ ~IsEmpty(s) => /\ StatsExtract(s) \in Stats
                             /\ StatsExtract(s).num_items_in_queue = s.num_items_in_queue - 1
           /\ s.num_items_in_queue \in Nat
<1>1. /\ s.num_items_in_queue \in Nat /\ s.num_inserted \in Nat /\ s.num_extracted \in Nat
      /\ s = [num_inserted |-> s.num_inserted, num_items_in_queue |-> s.num_items_in_queue,
              num_extracted |-> s.num_extracted]
  BY DEF Stats
<1>2. StatsInsert(s) = [num_inserted |-> s.num_inserted + 1,
                        num_items_in_queue |-> s.num_items_in_queue + 1,
                        num_extracted |-> s.num_extracted]
  <2> DEFINE x == [s EXCEPT !.num_inserted = s.num_inserted + 1]
  <2>1. x = [num_inserted |-> s.num_inserted + 1, num_items_in_queue |-> s.num_items_in_queue,
             num_extracted |-> s.num_extracted]
    BY <1>1
  <2>2. StatsInsert(s) = [x EXCEPT !.num_items_in_queue = s.num_items_in_queue + 1]
    BY DEF StatsInsert, Stats
  <2> HIDE DEF x
  <2> QED
    BY <2>1, <2>2
<1>3. StatsExtract(s) = [num_inserted |-> s.num_inserted,
                         num_items_in_queue |-> s.num_items_in_queue - 1,
                         num_extracted |-> s.num_extracted + 1]
  <2> DEFINE x == [s EXCEPT !.num_items_in_queue = s.num_items_in_queue - 1]
  <2>1. x = [num_inserted |-> s.num_inserted, num_items_in_queue |-> s.num_items_in_queue - 1,
             num_extracted |-> s.num_extracted]
    BY <1>1
  <2>2. StatsExtract(s) = [x EXCEPT !.num_extracted = s.num_extracted + 1]
    BY DEF StatsExtract, Stats
  <2> HIDE DEF x
  <2> QED
    BY <2>1, <2>2
<1> QED
  BY <1>1, <1>2, <1>3 DEF Stats, IsEmpty

\* A queue whose counts are replaced differs in them alone.
LEMMA WithStats ==
    ASSUME NEW q \in Queue, NEW s \in Stats, NEW r, r = [q EXCEPT !.stats = s]
    PROVE  /\ r \in Queue /\ r.id = q.id /\ r.stats = s /\ r.pages = q.pages
           /\ r.page_idx_to_write_to = q.page_idx_to_write_to
           /\ r.page_idx_for_backup = q.page_idx_for_backup
           /\ r.page_idx_to_read_from = q.page_idx_to_read_from
BY DEF Queue

\* The numbers of a queue and of its pages.
LEMMA Places ==
    ASSUME NEW q, PlacesInv(q)
    PROVE  /\ ReadPage(q).page_index \in Nat /\ WritePage(q).page_index \in Nat /\ Span(q) \in Nat
           /\ ReadPage(q).read_from_idx \in 0..ItemsPerPage
           /\ WritePage(q).write_to_idx \in 0..ItemsPerPage
           /\ Span(q) = 0 <=> SamePage(q)
           /\ SamePage(q) => ReadPage(q) = WritePage(q)
           /\ q \in Queue
BY QueueFields, PageFields DEF PlacesInv, Span, SamePage, ReadPage, WritePage

-----------------------------------------------------------------------------
(***************************************************************************)
(* Making room for an item: the place to write to may become the first of  *)
(* the next page, which is the same place, and the full page may go to the *)
(* directory.  What the queue holds does not change.                       *)
(***************************************************************************)
SameData(q, fs, r, gs) ==
    \A n \in ReadPage(q).page_index..WritePage(q).page_index :
        DataOfPage(r, gs, n) = DataOfPage(q, fs, n)

\* Making room keeps the places in order, leaves a page with a free cell to write to, and
\* loses no cell: a full page in between goes to its file.
LEMMA RoomForMore ==
    ASSUME NEW q, PlacesInv(q), NEW fs, NEW room, room = MadeRoom(q), FilesOf(q) \subseteq DOMAIN fs
    PROVE  /\ PlacesInv(room) /\ CanInsert(WritePage(room))
           /\ room.id = q.id /\ room.stats = q.stats
           /\ ReadPage(room) = ReadPage(q)
           /\ Span(room) * ItemsPerPage + WritePage(room).write_to_idx
                 = Span(q) * ItemsPerPage + WritePage(q).write_to_idx
           /\ SameData(q, fs, room, FilesAfterInsert(q, fs))
           /\ DOMAIN FilesAfterInsert(q, fs) = DOMAIN fs \cup (FilesOf(room) \ FilesOf(q))
           /\ FilesOf(q) \subseteq FilesOf(room)
<1> DEFINE w == q.page_idx_to_write_to
           N == ItemsPerPage
<1>0. q \in Queue /\ w \in {0, 1} /\ N \in Nat \ {0}
  BY QueueFields, PageAssumption DEF PlacesInv
<1>1. CASE CanInsert(WritePage(q))
  <2>1. room = q /\ ~Offloads(q)
    BY <1>1 DEF MadeRoom, Offloads
  <2> QED
    BY <1>1, <2>1 DEF FilesAfterInsert, SameData
<1>2. CASE Offloads(q)
  <2>0. ~CanInsert(WritePage(q)) /\ ReadPage(q).page_index # WritePage(q).page_index /\ ~SamePage(q)
    BY <1>2 DEF Offloads, PlacesInv
  <2> DEFINE page == Bump(WritePage(q))
  <2>1. /\ page \in Page /\ page.page_index = WritePage(q).page_index + 1
        /\ page.write_to_idx = 0 /\ page.read_from_idx = 0
    BY <1>0, QueueFields, StartedPage DEF Bump
  <2>2. room = WithPage(q, w, page)
    BY <1>2, <2>0 DEF MadeRoom, WritePage, WithPage
  <2> HIDE DEF page
  <2>3. /\ room \in Queue /\ room.id = q.id /\ room.stats = q.stats
        /\ room.pages = [q.pages EXCEPT ![w] = page]
        /\ room.page_idx_to_write_to = w
        /\ room.page_idx_for_backup = q.page_idx_for_backup
        /\ room.page_idx_to_read_from = q.page_idx_to_read_from
    BY <1>0, <2>1, <2>2, WithPageFields
  <2>4. WritePage(room) = page /\ ReadPage(room) = ReadPage(q)
    BY <1>0, <2>0, <2>3, QueueFields DEF WritePage, ReadPage, SamePage
  <2>5. PlacesInv(room)
    BY <1>0, <2>0, <2>1, <2>3, <2>4, Places DEF PlacesInv, SpareExact, SamePage
  <2>6. CanInsert(WritePage(room))
    BY <1>0, <2>1, <2>4 DEF CanInsert
  <2>7. Span(room) * N + WritePage(room).write_to_idx = Span(q) * N + WritePage(q).write_to_idx
    <3>0. WritePage(q).write_to_idx \in 0..ItemsPerPage
      BY Places
    <3>1. WritePage(q).write_to_idx = N
      BY <1>0, <2>0, <3>0 DEF CanInsert
    <3>2. Span(room) = Span(q) + 1 /\ Span(q) \in Nat
      BY <2>1, <2>4, Places DEF Span
    <3>3. (Span(q) + 1) * N + 0 = Span(q) * N + N
      BY <1>0, <3>2
    <3> QED
      BY <2>1, <2>4, <3>1, <3>2, <3>3
  <2> DEFINE gs == FilesAfterInsert(q, fs)
             new == PageFile(q, WritePage(q))
  <2>8. DOMAIN gs = DOMAIN fs \cup {new} /\ gs[new] = WritePage(q).data
        /\ \A f \in DOMAIN fs : f # new => gs[f] = fs[f]
    BY <1>2 DEF FilesAfterInsert
  <2>9. FilesOf(room) = FilesOf(q) \cup {new} /\ new \notin FilesOf(q)
    <3>1. ReadPage(q).page_index \in Nat /\ WritePage(q).page_index \in Nat
          /\ ReadPage(q).page_index < WritePage(q).page_index
      BY <2>0, Places DEF PlacesInv
    <3> DEFINE a == ReadPage(q).page_index
               b == WritePage(q).page_index
    <3>2. (a + 1)..((b + 1) - 1) = ((a + 1)..(b - 1)) \cup {b} /\ b \notin (a + 1)..(b - 1)
      BY <3>1
    <3>3. FilesOf(room) = {<<q.id, n>> : n \in (a + 1)..((b + 1) - 1)}
      BY <2>1, <2>3, <2>4 DEF FilesOf
    <3>4. new = <<q.id, b>> /\ FilesOf(q) = {<<q.id, n>> : n \in (a + 1)..(b - 1)}
      BY DEF PageFile, FilesOf
    <3> HIDE DEF a, b, new
    <3> QED
      BY <3>2, <3>3, <3>4
  <2>10. SameData(q, fs, room, gs)
    <3> SUFFICES ASSUME NEW n \in ReadPage(q).page_index..WritePage(q).page_index
                 PROVE  DataOfPage(room, gs, n) = DataOfPage(q, fs, n)
      BY DEF SameData
    <3>1. n # WritePage(room).page_index
      BY <2>1, <2>4, Places
    <3>2. CASE n = ReadPage(q).page_index
      BY <2>4, <3>2 DEF DataOfPage
    <3>3. CASE n # ReadPage(q).page_index /\ n = WritePage(q).page_index
      BY <2>3, <2>4, <2>8, <3>1, <3>3 DEF DataOfPage, PageFile
    <3>4. CASE n # ReadPage(q).page_index /\ n # WritePage(q).page_index
      <4>1. <<q.id, n>> \in FilesOf(q) /\ <<q.id, n>> # new
        BY <3>4, Places DEF FilesOf, PageFile
      <4> QED
        BY <2>3, <2>4, <2>8, <3>1, <3>4, <4>1 DEF DataOfPage
    <3> QED
      BY <3>2, <3>3, <3>4
  <2> QED
    BY <2>3, <2>4, <2>5, <2>6, <2>7, <2>8, <2>9, <2>10
<1>3. CASE ~CanInsert(WritePage(q)) /\ ~Offloads(q)
  <2>0. ReadPage(q).page_index = WritePage(q).page_index /\ SamePage(q)
        /\ ReadPage(q) = WritePage(q)
    BY <1>3, Places DEF Offloads, PlacesInv
  <2> DEFINE b == q.page_idx_for_backup
             page == StartAfter(q.pages[b], ReadPage(q))
  <2>1. b \in {0, 1} /\ b # w /\ q.page_idx_to_read_from = w
    BY <1>0, <2>0, QueueFields DEF PlacesInv, SpareExact, SamePage
  <2>2. /\ page \in Page /\ page.page_index = ReadPage(q).page_index + 1
        /\ page.write_to_idx = 0 /\ page.read_from_idx = 0
    <3>1. q.pages[b] \in Page /\ ReadPage(q) \in Page
      BY <1>0, <2>1, QueueFields
    <3> QED
      BY <3>1, StartedPage
  <2> DEFINE r == WithPage(q, b, page)
  <2>3. room = [[r EXCEPT !.page_idx_to_write_to = b] EXCEPT !.page_idx_for_backup = -1]
    <3>1. room = [q EXCEPT !.page_idx_to_write_to = b, !.pages[b] = page, !.page_idx_for_backup = -1]
      BY <1>3 DEF MadeRoom
    <3> HIDE DEF page
    <3> QED
      BY <1>0, <3>1 DEF Queue, WithPage
  <2> HIDE DEF page
  <2>4. /\ r \in Queue /\ r.id = q.id /\ r.stats = q.stats
        /\ r.pages = [q.pages EXCEPT ![b] = page]
        /\ r.page_idx_to_read_from = w
    BY <1>0, <2>1, <2>2, WithPageFields
  <2> HIDE DEF r, b
  <2>5. /\ room \in Queue /\ room.id = q.id /\ room.stats = q.stats
        /\ room.pages = [q.pages EXCEPT ![b] = page]
        /\ room.page_idx_to_write_to = b /\ room.page_idx_for_backup = -1
        /\ room.page_idx_to_read_from = w
    BY <2>1, <2>3, <2>4 DEF Queue
  <2>6. WritePage(room) = page /\ ReadPage(room) = ReadPage(q)
    BY <1>0, <2>1, <2>5, QueueFields DEF WritePage, ReadPage
  <2>7. WritePage(q).write_to_idx = N /\ ReadPage(q).write_to_idx = N
    <3>0. WritePage(q).write_to_idx \in 0..ItemsPerPage
      BY Places
    <3> QED
      BY <1>0, <1>3, <2>0, <3>0 DEF CanInsert
  <2>8. PlacesInv(room)
    BY <1>0, <2>0, <2>1, <2>2, <2>5, <2>6, <2>7, Places DEF PlacesInv, SpareExact, SamePage
  <2>9. CanInsert(WritePage(room))
    BY <1>0, <2>2, <2>6 DEF CanInsert
  <2>10. Span(room) * N + WritePage(room).write_to_idx = Span(q) * N + WritePage(q).write_to_idx
    <3>1. Span(room) = 1 /\ Span(q) = 0
      BY <2>0, <2>2, <2>6, Places DEF Span
    <3> QED
      BY <1>0, <2>2, <2>6, <2>7, <3>1
  <2>11. FilesAfterInsert(q, fs) = fs
    BY <1>3 DEF FilesAfterInsert
  <2>12. FilesOf(room) = {} /\ FilesOf(q) = {}
    BY <2>0, <2>2, <2>6, Places DEF FilesOf
  <2>13. SameData(q, fs, room, fs)
    BY <2>0, <2>6, Places DEF SameData, DataOfPage
  <2> QED
    BY <2>5, <2>6, <2>8, <2>9, <2>10, <2>11, <2>12, <2>13
<1> QED
  BY <1>1, <1>2, <1>3 DEF Offloads

-----------------------------------------------------------------------------
(***************************************************************************)
(* What a queue holds, place by place.                                     *)
(***************************************************************************)
NumItems(q) == q.stats.num_items_in_queue
Cell(q, fs, place) ==
    DataOfPage(q, fs, ReadPage(q).page_index + (place \div ItemsPerPage))[place % ItemsPerPage]

\* What a queue holds, read as cells from the place of the next extraction on.
LEMMA ContentsByPlace ==
    ASSUME NEW q, NEW fs
    PROVE  Contents(q, fs) = [i \in 1..NumItems(q) |-> Cell(q, fs, ReadPage(q).read_from_idx + i - 1)]
BY DEF Contents, NumItems, Cell

\* How many items there are between two places.
Counted(q) ==
    NumItems(q) = Span(q) * ItemsPerPage + WritePage(q).write_to_idx - ReadPage(q).read_from_idx

\* The items lie on pages from the one read to the one written, on that one
\* before the place to write to.
LEMMA PlaceOfItem ==
    ASSUME NEW q, PlacesInv(q), NEW n \in Nat,
           n = Span(q) * ItemsPerPage + WritePage(q).write_to_idx - ReadPage(q).read_from_idx,
           NEW i \in 1..n, NEW place, place = ReadPage(q).read_from_idx + i - 1,
           NEW p, p = ReadPage(q).page_index + (place \div ItemsPerPage)
    PROVE  /\ place \in Nat /\ place % ItemsPerPage \in Cells
           /\ p \in ReadPage(q).page_index..WritePage(q).page_index
           /\ p = WritePage(q).page_index => place % ItemsPerPage < WritePage(q).write_to_idx
<1> DEFINE N == ItemsPerPage
           b == WritePage(q).write_to_idx
           a == ReadPage(q).read_from_idx
           s == Span(q)
<1>1. N \in Nat \ {0} /\ a \in 0..N /\ b \in 0..N /\ s \in Nat
  BY Places, PageAssumption
<1>2. PICK sn \in Nat : sn = s * N
  BY <1>1
<1>3. n = sn + b - a
  BY <1>2
<1> HIDE DEF N, a, b, s
<1>4. place \in Nat /\ place < sn + b
  BY <1>1, <1>3 DEF a
<1>5. place < s * N + b
  BY <1>2, <1>4
<1>6. /\ place \div N \in Nat /\ place % N \in 0..(N - 1)
      /\ place \div N < s \/ (place \div N = s /\ place % N < b)
  BY <1>1, <1>4, <1>5, DivModType, BeforeDivMod
<1>7. ReadPage(q).page_index \in Nat /\ WritePage(q).page_index = ReadPage(q).page_index + s
  BY Places DEF s, Span
<1> QED
  BY <1>1, <1>4, <1>6, <1>7 DEF N, b, Cells

-----------------------------------------------------------------------------
(***************************************************************************)
(* An insertion appends.                                                   *)
(***************************************************************************)
\* The queue, and the room for it, once the item is written.
LEMMA InsertFields ==
    ASSUME NEW q, PlacesInv(q), NEW fs, FilesOf(q) \subseteq DOMAIN fs, NEW x \in Items,
           NEW room, room = MadeRoom(q), NEW put, put = Put(WritePage(room), x)
    PROVE  /\ PlacesInv(Insert(q, x))
           /\ Insert(q, x).id = q.id
           /\ Insert(q, x).stats = StatsInsert(q.stats)
           /\ WritePage(Insert(q, x)) = put
           /\ ReadPage(Insert(q, x)) = IF SamePage(room) THEN put ELSE ReadPage(room)
           /\ ReadPage(Insert(q, x)).page_index = ReadPage(q).page_index
           /\ ReadPage(Insert(q, x)).read_from_idx = ReadPage(q).read_from_idx
<1> DEFINE w == room.page_idx_to_write_to
           e == Insert(q, x)
<1>1. /\ PlacesInv(room) /\ CanInsert(WritePage(room))
      /\ room.id = q.id /\ room.stats = q.stats /\ ReadPage(room) = ReadPage(q)
  BY RoomForMore
<1>2. room \in Queue /\ w \in {0, 1} /\ WritePage(room) \in Page
  BY <1>1, QueueFields DEF PlacesInv
<1>3. /\ put \in Page
      /\ put.page_index = WritePage(room).page_index
      /\ put.read_from_idx = WritePage(room).read_from_idx
      /\ put.write_to_idx = WritePage(room).write_to_idx + 1
  BY <1>1, <1>2, PutPage
<1> DEFINE m == WithPage(room, w, put)
<1>4. e = [m EXCEPT !.stats = StatsInsert(room.stats)]
  <2>1. e = [room EXCEPT !.pages[w] = put, !.stats = StatsInsert(@)]
    BY DEF Insert, Put, WritePage
  <2> HIDE DEF w
  <2> QED
    BY <1>2, <2>1 DEF WithPage, Queue
<1>5. /\ m \in Queue /\ m.id = q.id /\ m.stats = room.stats
      /\ m.pages = [room.pages EXCEPT ![w] = put]
      /\ m.page_idx_to_write_to = w
      /\ m.page_idx_for_backup = room.page_idx_for_backup
      /\ m.page_idx_to_read_from = room.page_idx_to_read_from
  BY <1>1, <1>2, <1>3, WithPageFields
<1>6. StatsInsert(room.stats) \in Stats
  BY <1>2, QueueFields, StatsCount
<1> HIDE DEF m, e
<1>7. /\ e \in Queue /\ e.id = q.id /\ e.stats = StatsInsert(room.stats)
      /\ e.pages = [room.pages EXCEPT ![w] = put]
      /\ e.page_idx_to_write_to = w
      /\ e.page_idx_for_backup = room.page_idx_for_backup
      /\ e.page_idx_to_read_from = room.page_idx_to_read_from
  BY <1>4, <1>5, <1>6 DEF Queue
<1>8. WritePage(e) = put /\ ReadPage(e) = IF SamePage(room) THEN put ELSE ReadPage(room)
  BY <1>2, <1>7, QueueFields DEF WritePage, ReadPage, SamePage
<1>9. SamePage(e) <=> SamePage(room)
  BY <1>7 DEF SamePage
<1>10. SamePage(room) => ReadPage(room) = WritePage(room)
  BY DEF SamePage, ReadPage, WritePage
<1>11. /\ ReadPage(e).page_index = ReadPage(q).page_index
       /\ ReadPage(e).read_from_idx = ReadPage(q).read_from_idx
  BY <1>1, <1>3, <1>8, <1>10
<1>12. PlacesInv(e)
  <2>1. SpareExact(e)
    BY <1>1, <1>7 DEF PlacesInv, SpareExact
  <2>2. /\ ReadPage(room).read_from_idx \in 0..ItemsPerPage
        /\ WritePage(room).write_to_idx \in 0..ItemsPerPage /\ ItemsPerPage \in Nat
    BY <1>1, Places, PageAssumption
  <2> QED
    BY <1>1, <1>3, <1>7, <1>8, <1>9, <1>10, <2>1, <2>2 DEF PlacesInv
<1> QED
  BY <1>1, <1>7, <1>8, <1>11, <1>12 DEF e

\* fcs_offloading_queue__insert(): the item comes behind all that the queue holds.
LEMMA InsertAppends ==
    ASSUME NEW q, NEW fs, QueueInv(q, fs), NEW x \in Items
    PROVE  /\ QueueInv(Insert(q, x), FilesAfterInsert(q, fs))
           /\ Contents(Insert(q, x), FilesAfterInsert(q, fs)) = Append(Contents(q, fs), x)
<1> DEFINE room == MadeRoom(q)
           page == WritePage(room)
           put == Put(page, x)
           e == Insert(q, x)
           gs == FilesAfterInsert(q, fs)
           N == ItemsPerPage
           n == NumItems(q)
           R == ReadPage(q).page_index
           a == ReadPage(q).read_from_idx
           b == page.write_to_idx
<1>0. PlacesInv(q) /\ Counted(q) /\ FilesOf(q) \subseteq DOMAIN fs
  BY DEF QueueInv, Counted, NumItems
<1>1. /\ PlacesInv(room) /\ CanInsert(page)
      /\ room.id = q.id /\ ReadPage(room) = ReadPage(q)
      /\ Span(room) * N + b = Span(q) * N + WritePage(q).write_to_idx
      /\ SameData(q, fs, room, gs)
      /\ DOMAIN gs = DOMAIN fs \cup (FilesOf(room) \ FilesOf(q))
  BY <1>0, RoomForMore
<1>2. /\ PlacesInv(e) /\ e.id = q.id /\ e.stats = StatsInsert(q.stats)
      /\ WritePage(e) = put
      /\ ReadPage(e) = IF SamePage(room) THEN put ELSE ReadPage(room)
      /\ ReadPage(e).page_index = R
      /\ ReadPage(e).read_from_idx = a
  BY <1>0, InsertFields
<1>3. /\ page \in Page /\ b \in Nat /\ b < N /\ N \in Nat \ {0}
      /\ page.data \in [Cells -> Items \cup {Garbage}]
  BY <1>1, Places, QueueFields, PageFields, PageAssumption DEF CanInsert
<1>4. /\ put.page_index = page.page_index /\ put.write_to_idx = b + 1
      /\ put.data = [page.data EXCEPT ![b] = x]
  BY <1>1, <1>3, PutPage
<1>5. n \in Nat /\ NumItems(e) = n + 1
  BY <1>0, <1>2, Places, QueueFields, StatsCount DEF NumItems
<1>6. SamePage(room) => ReadPage(room) = page
  BY DEF SamePage, ReadPage, WritePage
<1>7. Span(e) = Span(room) /\ Span(room) \in Nat /\ page.page_index = R + Span(room) /\ R \in Nat
  BY <1>1, <1>2, <1>4, Places DEF Span
<1>8. Counted(e) /\ n = Span(room) * N + b - a
  <2>1. PICK sn \in Nat : sn = Span(room) * N
    BY <1>3, <1>7
  <2>2. a \in Nat /\ sn + b = Span(q) * N + WritePage(q).write_to_idx
    BY <1>0, <1>1, <2>1, Places, PageAssumption
  <2>3. n = sn + b - a
    <3>1. n = Span(q) * N + WritePage(q).write_to_idx - a
      BY <1>0 DEF Counted
    <3>2. Span(q) \in Nat /\ WritePage(q).write_to_idx \in Nat /\ N \in Nat
      BY <1>0, <1>3, Places
    <3>3. PICK z \in Nat : z = Span(q) * N
      BY <3>2
    <3>4. n = z + WritePage(q).write_to_idx - a /\ sn + b = z + WritePage(q).write_to_idx
      BY <2>2, <3>1, <3>3
    <3>5. a \in Nat /\ b \in Nat
      BY <1>3, <2>2
    <3> HIDE DEF a, b, n, N
    <3> QED
      BY <3>2, <3>4, <3>5
  <2>4. NumItems(e) = sn + (b + 1) - a
    BY <1>3, <1>5, <2>2, <2>3
  <2> QED
    BY <1>2, <1>4, <1>7, <2>1, <2>3, <2>4 DEF Counted
<1>9. FilesOf(e) = FilesOf(room)
  BY <1>1, <1>2, <1>4 DEF FilesOf
<1>10. FilesOf(e) \subseteq DOMAIN gs
  BY <1>0, <1>1, <1>9
<1>11. ASSUME NEW i \in 1..n
       PROVE  Cell(e, gs, a + i - 1) = Cell(q, fs, a + i - 1)
  <2> DEFINE place == a + i - 1
             p == R + (place \div N)
             c == place % N
  <2>1. c \in Cells /\ p \in R..page.page_index /\ (p = page.page_index => c < b)
    BY <1>1, <1>5, <1>8, PlaceOfItem
  <2>2. p \in R..WritePage(q).page_index
    BY <1>0, <1>5, PlaceOfItem DEF Counted
  <2>3. DataOfPage(room, gs, p) = DataOfPage(q, fs, p)
    BY <1>1, <2>2 DEF SameData
  <2>4. (p = page.page_index => put.data[c] = page.data[c])
    BY <1>3, <1>4, <2>1 DEF Cells
  <2> HIDE DEF p, c
  <2>5. DataOfPage(e, gs, p)[c] = DataOfPage(room, gs, p)[c]
    <3>1. CASE p = R
      <4>1. DataOfPage(e, gs, p) = ReadPage(e).data /\ DataOfPage(room, gs, p) = ReadPage(room).data
        BY <1>1, <1>2, <3>1 DEF DataOfPage
      <4>2. CASE SamePage(room)
        <5>1. p = page.page_index
          BY <1>1, <1>6, <3>1, <4>2
        <5> QED
          BY <1>2, <1>6, <2>4, <4>1, <4>2, <5>1
      <4>3. CASE ~SamePage(room)
        BY <1>2, <4>1, <4>3
      <4> QED
        BY <4>2, <4>3
    <3>2. CASE p # R /\ p = page.page_index
      <4>1. DataOfPage(e, gs, p) = put.data /\ DataOfPage(room, gs, p) = page.data
        BY <1>1, <1>2, <1>4, <3>2 DEF DataOfPage
      <4> QED
        BY <2>4, <3>2, <4>1
    <3>3. CASE p # R /\ p # page.page_index
      BY <1>1, <1>2, <1>4, <3>3 DEF DataOfPage
    <3> QED
      BY <3>1, <3>2, <3>3
  <2> QED
    BY <1>2, <2>3, <2>5 DEF Cell, p, c
<1>12. Cell(e, gs, a + (n + 1) - 1) = x
  <2>1. PICK sn \in Nat : sn = Span(room) * N
    BY <1>3, <1>7
  <2>2. a \in Nat
    BY <1>0, Places, PageAssumption
  <2>3. a + (n + 1) - 1 = sn + b
    BY <1>3, <1>5, <1>8, <2>1, <2>2
  <2>4. (Span(room) * N + b) \div N = Span(room) /\ (Span(room) * N + b) % N = b
    <3>1. b \in 0..(N - 1)
      BY <1>3
    <3> HIDE DEF b, N
    <3> QED
      BY <1>3, <1>7, <3>1, DivMod
  <2>5. (sn + b) \div N = Span(room) /\ (sn + b) % N = b
    BY <2>1, <2>4
  <2>6. DataOfPage(e, gs, page.page_index) = put.data
    BY <1>1, <1>2, <1>4, <1>6 DEF DataOfPage, PlacesInv
  <2>7. put.data[b] = x
    BY <1>3, <1>4 DEF Cells
  <2> QED
    BY <1>2, <1>7, <2>3, <2>5, <2>6, <2>7 DEF Cell
<1> DEFINE A == Contents(q, fs)
           B == Contents(e, gs)
<1>13. A = [i \in 1..n |-> Cell(q, fs, a + i - 1)]
  BY ContentsByPlace
<1>14. B = [i \in 1..(n + 1) |-> Cell(e, gs, a + i - 1)]
  BY <1>2, <1>5, ContentsByPlace
<1>15. A \in Seq(Items) /\ Len(A) = n
  <2>1. \A i \in DOMAIN A : A[i] \in Items
    BY DEF QueueInv
  <2>2. DOMAIN A = 1..n /\ A = [i \in 1..n |-> A[i]]
    BY <1>13
  <2> HIDE DEF A
  <2>3. A \in [1..n -> Items]
    BY <2>1, <2>2
  <2> QED
    BY <1>5, <2>3
<1> HIDE DEF A, B
<1>16. /\ Append(A, x) \in Seq(Items) /\ Len(Append(A, x)) = n + 1
       /\ \A i \in 1..n : Append(A, x)[i] = A[i]
       /\ Append(A, x)[n + 1] = x
  BY <1>5, <1>15
<1>17. \A i \in 1..(n + 1) : B[i] = Append(A, x)[i]
  <2> SUFFICES ASSUME NEW i \in 1..(n + 1) PROVE B[i] = Append(A, x)[i]
    OBVIOUS
  <2>1. i = n + 1 \/ i \in 1..n
    BY <1>5
  <2>2. B[i] = Cell(e, gs, a + i - 1)
    BY <1>14
  <2>3. CASE i = n + 1
    BY <1>12, <1>16, <2>2, <2>3
  <2>4. CASE i \in 1..n
    BY <1>11, <1>13, <1>16, <2>2, <2>4
  <2> QED
    BY <2>1, <2>3, <2>4
<1>18. B = Append(A, x)
  <2>1. \A i \in 1..(n + 1) : B[i] \in Items
    <3>1. \A i \in 1..(n + 1) : Append(A, x)[i] \in Items
      BY <1>16
    <3> QED
      BY <1>17, <3>1
  <2>2. B \in Seq(Items) /\ Len(B) = n + 1
    <3>1. B \in [1..(n + 1) -> Items]
      BY <1>14, <2>1
    <3> QED
      BY <1>5, <3>1
  <2> QED
    BY <1>16, <1>17, <2>2, SeqEqual
<1>19. \A i \in DOMAIN B : B[i] \in Items
  BY <1>16, <1>18
<1> QED
  BY <1>2, <1>8, <1>10, <1>18, <1>19 DEF QueueInv, Counted, NumItems, A, B

-----------------------------------------------------------------------------
(***************************************************************************)
(* An extraction takes the first item.  First the page that was read to    *)
(* its end gives way to the next one, from the directory or in memory: the *)
(* place after its last cell is the first cell of the next page.           *)
(***************************************************************************)
\* A queue with items that has read its page to the end has another page.
LEMMA ReadToTheEnd ==
    ASSUME NEW q, PlacesInv(q), Counted(q), NumItems(q) # 0, ~CanExtract(ReadPage(q))
    PROVE  /\ ~SamePage(q) /\ Span(q) > 0
           /\ ReadPage(q).read_from_idx = ItemsPerPage
           /\ ReadPage(q).write_to_idx = ItemsPerPage
<1>1. /\ ReadPage(q).read_from_idx \in Nat /\ ReadPage(q).write_to_idx \in Nat
      /\ ItemsPerPage \in Nat /\ WritePage(q).write_to_idx \in Nat
      /\ ReadPage(q).read_from_idx <= ReadPage(q).write_to_idx
  BY Places, QueueFields, PageFields, PageAssumption DEF PlacesInv
<1>2. ReadPage(q).read_from_idx = ReadPage(q).write_to_idx
  BY <1>1 DEF CanExtract
<1>3. ~SamePage(q)
  <2> SUFFICES ASSUME SamePage(q) PROVE FALSE
    OBVIOUS
  <2>1. Span(q) = 0 /\ ReadPage(q) = WritePage(q)
    BY Places
  <2>2. Span(q) * ItemsPerPage = 0
    BY <1>1, <2>1
  <2> QED
    BY <1>1, <1>2, <2>1, <2>2 DEF Counted
<1> QED
  BY <1>2, <1>3, Places DEF PlacesInv

\* The page that was read becomes the next one, of the directory.
LEMMA FilePage ==
    ASSUME NEW page \in Page, NEW data \in Data
    PROVE  /\ PageOfFile(page, data) \in Page
           /\ PageOfFile(page, data).page_index = page.page_index + 1
           /\ PageOfFile(page, data).write_to_idx = ItemsPerPage
           /\ PageOfFile(page, data).read_from_idx = 0
           /\ PageOfFile(page, data).data = data
<1> DEFINE s == Bump(page)
           d == [s EXCEPT !.data = data]
           f == PageOfFile(page, data)
<1>0. ItemsPerPage \in 0..ItemsPerPage
  BY PageAssumption
<1>1. /\ s \in Page /\ s.page_index = page.page_index + 1 /\ s.read_from_idx = 0
  BY StartedPage DEF Bump
<1>2. f = [d EXCEPT !.write_to_idx = ItemsPerPage]
  BY <1>1 DEF PageOfFile, Page
<1> HIDE DEF s
<1>3. /\ d \in Page /\ d.page_index = page.page_index + 1 /\ d.read_from_idx = 0
      /\ d.data = data
  BY <1>1 DEF Page
<1> HIDE DEF d, f
<1>4. /\ f \in Page /\ f.page_index = page.page_index + 1 /\ f.read_from_idx = 0
      /\ f.data = data /\ f.write_to_idx = ItemsPerPage
  BY <1>0, <1>2, <1>3 DEF Page
<1> QED
  BY <1>4 DEF f

\* Going on to the page to read - the page written, or one that comes back from its file -
\* keeps the places in order, leaves an item to take, and loses no cell.
LEMMA AdvancedFields ==
    ASSUME NEW q, NEW fs, QueueInv(q, fs), NumItems(q) # 0,
           \A f \in FilesOf(q) : fs[f] \in Data
    PROVE  /\ PlacesInv(Advanced(q, fs)) /\ Counted(Advanced(q, fs))
           /\ Advanced(q, fs).id = q.id /\ Advanced(q, fs).stats = q.stats
           /\ CanExtract(ReadPage(Advanced(q, fs)))
           /\ DOMAIN FilesAfterExtract(q, fs) = DOMAIN fs \ (FilesOf(q) \ FilesOf(Advanced(q, fs)))
           /\ FilesOf(Advanced(q, fs)) \subseteq FilesOf(q)
           /\ \A f \in DOMAIN FilesAfterExtract(q, fs) : FilesAfterExtract(q, fs)[f] = fs[f]
           /\ \A i \in 1..NumItems(q) :
                 Cell(Advanced(q, fs), FilesAfterExtract(q, fs),
                      ReadPage(Advanced(q, fs)).read_from_idx + i - 1)
                 = Cell(q, fs, ReadPage(q).read_from_idx + i - 1)
<1> DEFINE v == q.page_idx_to_read_from
           w == q.page_idx_to_write_to
           e == Advanced(q, fs)
           gs == FilesAfterExtract(q, fs)
           N == ItemsPerPage
           R == ReadPage(q).page_index
           W == WritePage(q).page_index
           b == WritePage(q).write_to_idx
           n == NumItems(q)
<1>0. /\ PlacesInv(q) /\ Counted(q) /\ FilesOf(q) \subseteq DOMAIN fs
      /\ q \in Queue /\ v \in {0, 1} /\ w \in {0, 1} /\ N \in Nat \ {0}
      /\ R \in Nat /\ W \in Nat /\ b \in 0..N /\ n \in Nat
  BY Places, QueueFields, StatsCount, PageAssumption DEF QueueInv, Counted, NumItems
<1>1. CASE CanExtract(ReadPage(q))
  <2>1. e = q /\ ~ReadsFile(q)
    BY <1>1 DEF Advanced, ReadsFile
  <2>2. gs = fs
    BY <2>1 DEF FilesAfterExtract
  <2> QED
    BY <1>0, <1>1, <2>1, <2>2
<1> SUFFICES ASSUME ~CanExtract(ReadPage(q))
             PROVE  /\ PlacesInv(e) /\ Counted(e)
                    /\ e.id = q.id /\ e.stats = q.stats
                    /\ CanExtract(ReadPage(e))
                    /\ DOMAIN gs = DOMAIN fs \ (FilesOf(q) \ FilesOf(e))
                    /\ FilesOf(e) \subseteq FilesOf(q)
                    /\ \A f \in DOMAIN gs : gs[f] = fs[f]
                    /\ \A i \in 1..n : Cell(e, gs, ReadPage(e).read_from_idx + i - 1)
                                       = Cell(q, fs, ReadPage(q).read_from_idx + i - 1)
  BY <1>1
<1>2. /\ ~SamePage(q) /\ Span(q) > 0 /\ R < W /\ v # w
      /\ ReadPage(q).read_from_idx = N /\ ReadPage(q).write_to_idx = N
  BY <1>0, ReadToTheEnd DEF Span, SamePage
<1>3. n = Span(q) * N + b - N
  BY <1>0, <1>2 DEF Counted
\* Both queues have the same data on the pages that are left.
<1>4. ASSUME ReadPage(e).page_index = R + 1, ReadPage(e).read_from_idx = 0,
             \A p \in (R + 1)..W : DataOfPage(e, gs, p) = DataOfPage(q, fs, p)
      PROVE  \A i \in 1..n : Cell(e, gs, ReadPage(e).read_from_idx + i - 1)
                             = Cell(q, fs, ReadPage(q).read_from_idx + i - 1)
  <2> SUFFICES ASSUME NEW i \in 1..n
               PROVE  Cell(e, gs, ReadPage(e).read_from_idx + i - 1)
                      = Cell(q, fs, ReadPage(q).read_from_idx + i - 1)
    OBVIOUS
  <2>1. PICK m \in Nat : m = i - 1
    BY <1>0
  <2>2. /\ ReadPage(q).read_from_idx + i - 1 = N + m
        /\ ReadPage(e).read_from_idx + i - 1 = m
    BY <1>0, <1>2, <1>4, <2>1
  <2>3. (N + m) \div N = 1 + (m \div N) /\ (N + m) % N = m % N /\ m \div N \in Nat
    BY <1>0, NextPageDivMod, DivModType
  <2>4. R + ((N + m) \div N) \in R..W
    BY <1>0, <2>2, PlaceOfItem DEF Counted
  <2>5. R + ((N + m) \div N) = (R + 1) + (m \div N)
    BY <1>0, <2>3
  <2>6. (R + 1) + (m \div N) \in (R + 1)..W
    BY <1>0, <2>3, <2>4, <2>5
  <2>7. DataOfPage(e, gs, (R + 1) + (m \div N)) = DataOfPage(q, fs, (R + 1) + (m \div N))
    BY <1>4, <2>6
  <2> QED
    BY <1>4, <2>2, <2>3, <2>5, <2>7 DEF Cell
<1>5. CASE ReadsFile(q)
  <2> DEFINE file == NextFile(q)
             page == PageOfFile(ReadPage(q), fs[file])
  <2>1. R + 1 < W
    BY <1>0, <1>2, <1>5 DEF ReadsFile
  <2>2. file = <<q.id, R + 1>> /\ file \in FilesOf(q)
    <3>1. Bump(ReadPage(q)).page_index = R + 1
      BY <1>0, QueueFields, StartedPage DEF Bump
    <3>2. R + 1 \in (R + 1)..(W - 1)
      BY <1>0, <2>1
    <3> QED
      BY <3>1, <3>2 DEF NextFile, PageFile, FilesOf
  <2>3. /\ page \in Page /\ page.page_index = R + 1 /\ page.write_to_idx = N
        /\ page.read_from_idx = 0 /\ page.data = fs[file]
    BY <1>0, <2>2, QueueFields, FilePage
  <2>4. e = WithPage(q, v, page)
    BY <1>5 DEF Advanced, WithPage, ReadPage
  <2> HIDE DEF page, file
  <2>5. /\ e \in Queue /\ e.id = q.id /\ e.stats = q.stats
        /\ e.pages = [q.pages EXCEPT ![v] = page]
        /\ e.page_idx_to_write_to = w
        /\ e.page_idx_for_backup = q.page_idx_for_backup
        /\ e.page_idx_to_read_from = v
    BY <1>0, <2>3, <2>4, WithPageFields
  <2>6. ReadPage(e) = page /\ WritePage(e) = WritePage(q)
    BY <1>0, <1>2, <2>5, QueueFields DEF ReadPage, WritePage
  <2>7. PlacesInv(e)
    BY <1>0, <1>2, <2>1, <2>3, <2>5, <2>6 DEF PlacesInv, SpareExact, SamePage
  <2>8. CanExtract(ReadPage(e))
    BY <1>0, <2>3, <2>6 DEF CanExtract
  <2>9. Counted(e)
    <3>1. PICK s \in Nat : s = Span(q)
      BY <1>0, Places
    <3>2. s > 0 /\ Span(e) = s - 1 /\ NumItems(e) = n
      BY <1>0, <1>2, <2>3, <2>5, <2>6, <3>1 DEF Span, NumItems
    <3>3. n = s * N + b - N
      BY <1>3, <3>1
    <3>4. s * N = (s - 1) * N + N
      BY <1>0
    <3>5. PICK z \in Nat : z = (s - 1) * N
      BY <1>0, <3>2
    <3>6. n = z + b - 0
      BY <1>0, <3>3, <3>4, <3>5
    <3> HIDE DEF b, n
    <3> QED
      BY <2>3, <2>6, <3>2, <3>5, <3>6 DEF Counted, b
  <2>10. /\ DOMAIN gs = DOMAIN fs \ {file}
         /\ \A f \in DOMAIN gs : gs[f] = fs[f]
    BY <1>5 DEF FilesAfterExtract, file
  <2>11. FilesOf(e) = FilesOf(q) \ {file}
    <3>1. FilesOf(e) = {<<q.id, k>> : k \in ((R + 1) + 1)..(W - 1)}
      BY <2>3, <2>5, <2>6 DEF FilesOf
    <3>2. FilesOf(q) = {<<q.id, k>> : k \in (R + 1)..(W - 1)}
      BY DEF FilesOf
    <3>3. (R + 1)..(W - 1) = {R + 1} \cup (((R + 1) + 1)..(W - 1)) /\ R + 1 \notin ((R + 1) + 1)..(W - 1)
      BY <1>0, <2>1
    <3> HIDE DEF R, W
    <3> QED
      BY <2>2, <3>1, <3>2, <3>3
  <2>12. \A p \in (R + 1)..W : DataOfPage(e, gs, p) = DataOfPage(q, fs, p)
    <3> SUFFICES ASSUME NEW p \in (R + 1)..W PROVE DataOfPage(e, gs, p) = DataOfPage(q, fs, p)
      OBVIOUS
    <3>1. p # R
      BY <1>0
    <3>2. CASE p = R + 1
      BY <2>1, <2>2, <2>3, <2>6, <3>1, <3>2 DEF DataOfPage
    <3>3. CASE p # R + 1 /\ p = W
      BY <2>3, <2>6, <3>1, <3>3 DEF DataOfPage
    <3>4. CASE p # R + 1 /\ p # W
      <4>1. <<q.id, p>> \in FilesOf(q) /\ <<q.id, p>> # file
        BY <1>0, <2>2, <3>4 DEF FilesOf
      <4>2. gs[<<q.id, p>>] = fs[<<q.id, p>>]
        BY <1>0, <2>10, <4>1
      <4> QED
        BY <2>3, <2>5, <2>6, <3>1, <3>4, <4>2 DEF DataOfPage
    <3> QED
      BY <3>2, <3>3, <3>4
  <2>13. \A i \in 1..n : Cell(e, gs, ReadPage(e).read_from_idx + i - 1)
                         = Cell(q, fs, ReadPage(q).read_from_idx + i - 1)
    BY <1>4, <2>3, <2>6, <2>12
  <2>14. file \in FilesOf(q)
    BY <2>2
  <2> HIDE DEF e, gs, n
  <2> QED
    BY <2>5, <2>7, <2>8, <2>9, <2>10, <2>11, <2>13, <2>14
<1>6. CASE ~ReadsFile(q)
  <2>1. R + 1 = W
    BY <1>6 DEF ReadsFile
  <2>2. e = [[q EXCEPT !.page_idx_for_backup = v] EXCEPT !.page_idx_to_read_from = w]
    <3>1. e = [q EXCEPT !.page_idx_for_backup = v, !.page_idx_to_read_from = w]
      BY <1>6 DEF Advanced
    <3> QED
      BY <1>0, <3>1 DEF Queue
  <2> HIDE DEF v, w
  <2>3. /\ e \in Queue /\ e.id = q.id /\ e.stats = q.stats /\ e.pages = q.pages
        /\ e.page_idx_to_read_from = w /\ e.page_idx_for_backup = v
        /\ e.page_idx_to_write_to = q.page_idx_to_write_to
    BY <1>0, <2>2 DEF Queue
  <2>4. ReadPage(e) = WritePage(q) /\ WritePage(e) = WritePage(q)
    BY <2>3 DEF ReadPage, WritePage, w
  <2>5. WritePage(q).read_from_idx = 0
    BY <1>0, <1>2 DEF PlacesInv
  <2>6. PlacesInv(e)
    BY <1>0, <1>2, <2>3, <2>4, <2>5 DEF PlacesInv, SpareExact, SamePage, v, w
  <2>7. Span(q) = 1 /\ Span(e) = 0
    BY <1>0, <2>1, <2>4 DEF Span
  <2>8. n = b
    BY <1>0, <1>3, <2>7
  <2>9. NumItems(e) = n
    BY <2>3 DEF NumItems
  <2>10. CanExtract(ReadPage(e))
    BY <1>0, <2>4, <2>5, <2>8 DEF CanExtract
  <2>11. Counted(e)
    BY <1>0, <2>4, <2>5, <2>7, <2>8, <2>9 DEF Counted
  <2>12. gs = fs /\ FilesOf(q) = {} /\ FilesOf(e) = {}
    BY <1>0, <1>6, <2>1, <2>4 DEF FilesAfterExtract, FilesOf
  <2>13. \A p \in (R + 1)..W : DataOfPage(e, gs, p) = DataOfPage(q, fs, p)
    BY <1>0, <2>1, <2>4, <2>12 DEF DataOfPage
  <2>14. \A i \in 1..n : Cell(e, gs, ReadPage(e).read_from_idx + i - 1)
                         = Cell(q, fs, ReadPage(q).read_from_idx + i - 1)
    BY <1>4, <2>1, <2>4, <2>5, <2>13
  <2> HIDE DEF e, gs, n
  <2> QED
    BY <2>3, <2>6, <2>10, <2>11, <2>12, <2>14
<1> QED
  BY <1>5, <1>6

\* Then the place to read from goes on by one.
Taken(page) == [page EXCEPT !.read_from_idx = @ + 1]

\* queue_page__extract(): a page with an item to take differs afterwards in its reading place.
LEMMA TakenPage ==
    ASSUME NEW page \in Page, CanExtract(page)
    PROVE  /\ Taken(page) \in Page
           /\ Taken(page).page_index = page.page_index
           /\ Taken(page).write_to_idx = page.write_to_idx
           /\ Taken(page).read_from_idx = page.read_from_idx + 1
           /\ Taken(page).data = page.data
<1>1. page.read_from_idx + 1 \in 0..ItemsPerPage
  BY PageAssumption, PageFields DEF CanExtract
<1> QED
  BY <1>1 DEF Taken, Page

\* An extraction moves the reading place of the page gone on to, and nothing else of it.
LEMMA ExtractFields ==
    ASSUME NEW q, NEW fs, QueueInv(q, fs), ~IsEmpty(q.stats),
           \A f \in FilesOf(q) : fs[f] \in Data,
           NEW adv, adv = Advanced(q, fs)
    PROVE  /\ PlacesInv(Extract(q, fs)) /\ Counted(Extract(q, fs))
           /\ Extract(q, fs).id = q.id
           /\ Extract(q, fs).stats = StatsExtract(q.stats)
           /\ ReadPage(Extract(q, fs)).page_index = ReadPage(adv).page_index
           /\ ReadPage(Extract(q, fs)).read_from_idx = ReadPage(adv).read_from_idx + 1
           /\ \A gs, p : DataOfPage(Extract(q, fs), gs, p) = DataOfPage(adv, gs, p)
           /\ FilesOf(Extract(q, fs)) = FilesOf(adv)
<1> DEFINE v == adv.page_idx_to_read_from
           page == Taken(ReadPage(adv))
           e == Extract(q, fs)
           m == WithPage(adv, v, page)
<1>1. /\ PlacesInv(adv) /\ Counted(adv) /\ adv.id = q.id /\ adv.stats = q.stats
      /\ CanExtract(ReadPage(adv)) /\ NumItems(q) # 0
  <2>1. NumItems(q) # 0
    BY DEF NumItems, IsEmpty
  <2> QED
    BY <2>1, AdvancedFields
<1>2. /\ adv \in Queue /\ v \in {0, 1} /\ ReadPage(adv) \in Page /\ adv.stats \in Stats
  BY <1>1, QueueFields DEF PlacesInv
<1>3. /\ page \in Page /\ page.page_index = ReadPage(adv).page_index
      /\ page.write_to_idx = ReadPage(adv).write_to_idx
      /\ page.read_from_idx = ReadPage(adv).read_from_idx + 1
      /\ page.data = ReadPage(adv).data
  BY <1>1, <1>2, TakenPage
<1>4. e = [m EXCEPT !.stats = StatsExtract(adv.stats)]
  <2>1. e = [adv EXCEPT !.pages[v].read_from_idx = @ + 1, !.stats = StatsExtract(@)]
    BY DEF Extract
  <2>2. adv.pages[v] = ReadPage(adv) /\ adv.pages \in [{0, 1} -> Page]
    BY <1>2, QueueFields DEF ReadPage
  <2>3. m = [adv EXCEPT !.pages[v].read_from_idx = @ + 1]
    BY <1>2, <2>2 DEF WithPage, Taken
  <2> HIDE DEF v, m
  <2> QED
    BY <1>2, <2>1, <2>3 DEF Queue
<1>5. /\ m \in Queue /\ m.id = q.id
      /\ m.pages = [adv.pages EXCEPT ![v] = page]
      /\ m.page_idx_to_write_to = adv.page_idx_to_write_to
      /\ m.page_idx_for_backup = adv.page_idx_for_backup
      /\ m.page_idx_to_read_from = v
  BY <1>1, <1>2, <1>3, WithPageFields
<1>6. StatsExtract(adv.stats) \in Stats /\ StatsExtract(adv.stats) = StatsExtract(q.stats)
      /\ StatsExtract(q.stats).num_items_in_queue = NumItems(q) - 1
  BY <1>1, <1>2, StatsCount DEF NumItems
<1> HIDE DEF m, e
<1>7. /\ e \in Queue /\ e.id = q.id /\ e.stats = StatsExtract(q.stats)
      /\ e.pages = [adv.pages EXCEPT ![v] = page]
      /\ e.page_idx_to_write_to = adv.page_idx_to_write_to
      /\ e.page_idx_for_backup = adv.page_idx_for_backup
      /\ e.page_idx_to_read_from = v
  BY <1>4, <1>5, <1>6 DEF Queue
<1>8. /\ ReadPage(e) = page
      /\ WritePage(e) = IF SamePage(adv) THEN page ELSE WritePage(adv)
  BY <1>2, <1>7, QueueFields DEF WritePage, ReadPage, SamePage
<1>9. SamePage(e) <=> SamePage(adv)
  BY <1>7 DEF SamePage
<1>10. SamePage(adv) => ReadPage(adv) = WritePage(adv)
  BY DEF SamePage, ReadPage, WritePage
<1>11. /\ WritePage(e).page_index = WritePage(adv).page_index
       /\ WritePage(e).write_to_idx = WritePage(adv).write_to_idx
       /\ WritePage(e).data = WritePage(adv).data
  BY <1>3, <1>8, <1>10
<1>12. PlacesInv(e)
  <2>1. SpareExact(e)
    BY <1>1, <1>7 DEF PlacesInv, SpareExact
  <2>2. /\ ReadPage(adv).read_from_idx \in 0..ItemsPerPage
        /\ ReadPage(adv).write_to_idx \in 0..ItemsPerPage /\ ItemsPerPage \in Nat
    BY <1>2, PageFields, PageAssumption
  <2>3. page.read_from_idx <= page.write_to_idx
    BY <1>1, <1>3, <2>2 DEF CanExtract
  <2> QED
    BY <1>1, <1>3, <1>7, <1>8, <1>9, <1>10, <1>11, <2>1, <2>3 DEF PlacesInv
<1>13. Counted(e)
  <2>1. Span(e) = Span(adv) /\ Span(adv) \in Nat
    BY <1>1, <1>3, <1>8, <1>11, Places DEF Span
  <2>2. PICK z \in Nat : z = Span(adv) * ItemsPerPage
    BY <2>1, PageAssumption
  <2>3. NumItems(e) = NumItems(q) - 1 /\ NumItems(adv) = NumItems(q)
    BY <1>1, <1>6, <1>7 DEF NumItems
  <2>4. NumItems(q) = z + WritePage(adv).write_to_idx - ReadPage(adv).read_from_idx
    BY <1>1, <2>2, <2>3 DEF Counted
  <2>5. WritePage(adv).write_to_idx \in Nat /\ ReadPage(adv).read_from_idx \in Nat
    BY <1>1, Places, PageAssumption
  <2>6. NumItems(e) = z + WritePage(adv).write_to_idx - (ReadPage(adv).read_from_idx + 1)
    BY <2>3, <2>4, <2>5
  <2> QED
    BY <1>3, <1>8, <1>11, <2>1, <2>2, <2>6 DEF Counted
<1>14. \A gs, p : DataOfPage(e, gs, p) = DataOfPage(adv, gs, p)
  BY <1>1, <1>3, <1>7, <1>8, <1>11 DEF DataOfPage
<1>15. FilesOf(e) = FilesOf(adv)
  BY <1>1, <1>3, <1>7, <1>8, <1>11 DEF FilesOf
<1> QED
  BY <1>3, <1>7, <1>8, <1>12, <1>13, <1>14, <1>15 DEF e

\* fcs_offloading_queue__extract(): the item is the one that has been there longest, and the
\* others stay in their order.
LEMMA ExtractTakesHead ==
    ASSUME NEW q, NEW fs, QueueInv(q, fs), ~IsEmpty(q.stats),
           \A f \in FilesOf(q) : fs[f] \in Data
    PROVE  /\ QueueInv(Extract(q, fs), FilesAfterExtract(q, fs))
           /\ Contents(q, fs) \in Seq(Items) \ {<<>>}
           /\ Extracted(q, fs) = Head(Contents(q, fs))
           /\ Contents(Extract(q, fs), FilesAfterExtract(q, fs)) = Tail(Contents(q, fs))
<1> DEFINE adv == Advanced(q, fs)
           e == Extract(q, fs)
           gs == FilesAfterExtract(q, fs)
           N == ItemsPerPage
           n == NumItems(q)
           A == Contents(q, fs)
           B == Contents(e, gs)
           a == ReadPage(q).read_from_idx
           r == ReadPage(adv).read_from_idx
<1>1. /\ PlacesInv(adv) /\ CanExtract(ReadPage(adv)) /\ n # 0 /\ n \in Nat
      /\ DOMAIN gs = DOMAIN fs \ (FilesOf(q) \ FilesOf(adv))
      /\ FilesOf(adv) \subseteq FilesOf(q) /\ FilesOf(q) \subseteq DOMAIN fs
      /\ \A i \in 1..n : Cell(adv, gs, r + i - 1) = Cell(q, fs, a + i - 1)
  <2>1. n # 0 /\ n \in Nat /\ FilesOf(q) \subseteq DOMAIN fs
    BY Places, QueueFields, StatsCount DEF NumItems, IsEmpty, QueueInv
  <2> QED
    BY <2>1, AdvancedFields
<1>2. /\ PlacesInv(e) /\ Counted(e) /\ e.stats = StatsExtract(q.stats)
      /\ ReadPage(e).page_index = ReadPage(adv).page_index
      /\ ReadPage(e).read_from_idx = r + 1
      /\ \A p : DataOfPage(e, gs, p) = DataOfPage(adv, gs, p)
      /\ FilesOf(e) = FilesOf(adv)
  BY ExtractFields
<1>3. NumItems(e) = n - 1
  BY <1>1, Places, QueueFields, StatsCount, <1>2 DEF NumItems, QueueInv
<1>4. r \in 0..(N - 1) /\ N \in Nat \ {0}
  <2>1. ReadPage(adv) \in Page
    BY <1>1, Places, QueueFields
  <2> QED
    BY <1>1, <2>1, PageFields, PageAssumption DEF CanExtract
<1>5. A = [i \in 1..n |-> Cell(q, fs, a + i - 1)]
  BY ContentsByPlace
<1>6. B = [i \in 1..(n - 1) |-> Cell(e, gs, (r + 1) + i - 1)]
  BY <1>2, <1>3, ContentsByPlace
<1>7. A \in Seq(Items) /\ Len(A) = n
  <2>1. \A i \in DOMAIN A : A[i] \in Items
    BY DEF QueueInv
  <2>2. DOMAIN A = 1..n /\ A = [i \in 1..n |-> A[i]]
    BY <1>5
  <2> HIDE DEF A
  <2>3. A \in [1..n -> Items]
    BY <2>1, <2>2
  <2> QED
    BY <1>1, <2>3
<1>8. Extracted(q, fs) = A[1]
  <2>1. A[1] = Cell(adv, gs, r + 1 - 1)
    BY <1>1, <1>5
  <2>2. r + 1 - 1 = r
    BY <1>4
  <2>3. r \div N = 0 /\ r % N = r
    <3>1. (0 * N + r) \div N = 0 /\ (0 * N + r) % N = r
      <4> HIDE DEF N, r
      <4> QED
        BY <1>4, DivMod
    <3>2. 0 * N + r = r
      BY <1>4
    <3> QED
      BY <3>1, <3>2
  <2>4. DataOfPage(adv, gs, ReadPage(adv).page_index + 0) = ReadPage(adv).data
    BY <1>1, Places DEF DataOfPage
  <2> QED
    BY <2>1, <2>2, <2>3, <2>4 DEF Cell, Extracted
<1>9. \A i \in 1..(n - 1) : B[i] = A[i + 1]
  <2> SUFFICES ASSUME NEW i \in 1..(n - 1) PROVE B[i] = A[i + 1]
    OBVIOUS
  <2>1. i + 1 \in 1..n /\ r + (i + 1) - 1 = (r + 1) + i - 1
    BY <1>1, <1>4
  <2>2. A[i + 1] = Cell(adv, gs, r + (i + 1) - 1)
    BY <1>1, <1>5, <2>1
  <2>3. B[i] = Cell(e, gs, (r + 1) + i - 1)
    BY <1>6
  <2> QED
    BY <1>2, <2>1, <2>2, <2>3 DEF Cell
<1> HIDE DEF A, B
<1>10. A # <<>> /\ Head(A) = A[1]
  BY <1>1, <1>7
<1>11. /\ Tail(A) \in Seq(Items) /\ Len(Tail(A)) = n - 1
       /\ \A i \in 1..(n - 1) : Tail(A)[i] = A[i + 1]
  BY <1>1, <1>7, <1>10
<1>12. B = Tail(A)
  <2>1. \A i \in 1..(n - 1) : B[i] \in Items
    BY <1>1, <1>7, <1>9
  <2>2. B \in Seq(Items) /\ Len(B) = n - 1
    <3>1. B \in [1..(n - 1) -> Items]
      BY <1>6, <2>1
    <3> QED
      BY <1>1, <3>1
  <2> QED
    BY <1>9, <1>11, <2>2, SeqEqual
<1>13. \A i \in DOMAIN B : B[i] \in Items
  BY <1>11, <1>12
<1>14. FilesOf(e) \subseteq DOMAIN gs
  BY <1>1, <1>2
<1> QED
  BY <1>2, <1>7, <1>8, <1>10, <1>12, <1>13, <1>14 DEF QueueInv, Counted, NumItems, A, B

-----------------------------------------------------------------------------
(***************************************************************************)
(* The queues in the array, over one directory.                            *)
(***************************************************************************)
\* What is done to the files of other queues is nothing to a queue.
LEMMA OwnFilesOnly ==
    ASSUME NEW q, NEW fs, NEW gs, QueueInv(q, fs),
           \A f \in FilesOf(q) : f \in DOMAIN gs /\ gs[f] = fs[f]
    PROVE  QueueInv(q, gs) /\ Contents(q, gs) = Contents(q, fs)
<1> DEFINE a == ReadPage(q).read_from_idx
           n == NumItems(q)
<1>0. PlacesInv(q) /\ Counted(q) /\ n \in Nat
  BY Places, QueueFields, StatsCount DEF QueueInv, Counted, NumItems
<1>1. ASSUME NEW i \in 1..n PROVE Cell(q, gs, a + i - 1) = Cell(q, fs, a + i - 1)
  <2> DEFINE p == ReadPage(q).page_index + ((a + i - 1) \div ItemsPerPage)
  <2>1. p \in ReadPage(q).page_index..WritePage(q).page_index
    BY <1>0, PlaceOfItem DEF Counted
  <2> HIDE DEF p
  <2>2. DataOfPage(q, gs, p) = DataOfPage(q, fs, p)
    <3>1. CASE p = ReadPage(q).page_index \/ p = WritePage(q).page_index
      BY <3>1 DEF DataOfPage
    <3>2. CASE ~(p = ReadPage(q).page_index \/ p = WritePage(q).page_index)
      <4>1. <<q.id, p>> \in FilesOf(q)
        BY <1>0, <2>1, <3>2, Places DEF FilesOf
      <4> QED
        BY <3>2, <4>1 DEF DataOfPage
    <3> QED
      BY <3>1, <3>2
  <2> QED
    BY <2>2 DEF Cell, p
<1>2. Contents(q, gs) = Contents(q, fs)
  BY <1>1, ContentsByPlace
<1> QED
  BY <1>2 DEF QueueInv

\* A new queue is empty.
LEMMA NewQueueIsEmpty ==
    ASSUME NEW id \in Nat, NEW fs
    PROVE  /\ QueueInv(NewQueue(id), fs) /\ NewQueue(id).id = id
           /\ Contents(NewQueue(id), fs) = <<>>
           /\ FilesOf(NewQueue(id)) = {}
           /\ NumItems(NewQueue(id)) = 0
           /\ ~Offloads(NewQueue(id))
<1> DEFINE q == NewQueue(id)
<1>1. NewPage \in Page /\ NewPage.page_index = 0 /\ NewPage.write_to_idx = 0
      /\ NewPage.read_from_idx = 0
  BY PageAssumption DEF NewPage, Page, Data, PageNumber
<1>2. NewStats \in Stats /\ NewStats.num_items_in_queue = 0
  BY DEF NewStats, Stats
<1>3. /\ q \in Queue /\ q.id = id /\ q.stats = NewStats
      /\ q.page_idx_to_write_to = 0 /\ q.page_idx_for_backup = 1
      /\ q.page_idx_to_read_from = 0
      /\ ReadPage(q) = NewPage /\ WritePage(q) = NewPage
  BY <1>1, <1>2 DEF NewQueue, Queue, QueueId, ReadPage, WritePage
<1> HIDE DEF q
<1>4. PlacesInv(q)
  BY <1>1, <1>3 DEF PlacesInv, SpareExact, SamePage
<1>5. FilesOf(q) = {}
  BY <1>1, <1>3 DEF FilesOf
<1>6. NumItems(q) = 0
  BY <1>2, <1>3 DEF NumItems
<1>7. Contents(q, fs) = <<>>
  BY <1>6, ContentsByPlace
<1>8. Span(q) = 0 /\ 0 * ItemsPerPage = 0
  BY <1>1, <1>3, PageAssumption DEF Span
<1>9. QueueInv(q, fs)
  BY <1>1, <1>3, <1>4, <1>5, <1>6, <1>7, <1>8 DEF QueueInv, NumItems
<1>10. ~Offloads(q)
  BY <1>3 DEF Offloads
<1> QED
  BY <1>3, <1>5, <1>6, <1>7, <1>9, <1>10 DEF q

\* The larger of two depths.
LEMMA MaxOfTwo ==
    ASSUME NEW d \in Nat, NEW e \in Nat
    PROVE  Max({d, e}) = IF e <= d THEN d ELSE e
<1>1. \E x \in {d, e} : \A y \in {d, e} : x >= y
  OBVIOUS
<1>2. Max({d, e}) \in {d, e} /\ \A y \in {d, e} : Max({d, e}) >= y
  BY <1>1 DEF Max
<1> QED
  BY <1>2

\* The least of a set of slots.
LEMMA MinIsLeast ==
    ASSUME NEW S \in SUBSET Nat, S # {}
    PROVE  Min(S) \in S /\ \A y \in S : Min(S) <= y
<1>1. PICK x \in S : \A y \in S : ~(<<y, x>> \in OpToRel(<, Nat))
  BY WFMin, NatLessThanWellFounded
<1>2. ASSUME NEW y \in S PROVE x <= y
  <2>1. x \in Nat /\ y \in Nat
    OBVIOUS
  <2>2. ~(y < x)
    BY <1>1, <2>1 DEF OpToRel
  <2> QED
    BY <2>1, <2>2
<1> QED
  BY <1>1, <1>2 DEF Min

(***************************************************************************)
(* The margin of the array, depth by depth.                                *)
(***************************************************************************)
\* A set of numbers that holds 0 and goes on from one to the next holds all.
LEMMA StepByStep ==
    ASSUME NEW m \in Nat, NEW S, 0 \in S, \A i \in 0..(m - 1) : i \in S => i + 1 \in S
    PROVE  \A i \in 0..m : i \in S
<1> DEFINE T == (0..m) \ S
           R == OpToRel(<, Nat)
<1> SUFFICES ASSUME T # {} PROVE FALSE
  OBVIOUS
<1>1. PICK d \in T : \A e \in T : ~(<<e, d>> \in R)
  <2>1. IsWellFoundedOn(R, Nat)
    BY NatLessThanWellFounded
  <2>2. T \in SUBSET Nat /\ T # {}
    OBVIOUS
  <2> HIDE DEF T
  <2> QED
    BY <2>1, <2>2, WFMin
<1>2. \A e \in T : ~(e < d)
  <2>1. T \subseteq Nat
    OBVIOUS
  <2> HIDE DEF T
  <2> QED
    BY <1>1, <2>1 DEF OpToRel
<1>3. d # 0 /\ d \in 0..m /\ d \notin S
  OBVIOUS
<1>4. d - 1 \in 0..(m - 1) /\ d - 1 \notin T
  BY <1>2, <1>3
<1>5. d - 1 \in S
  BY <1>4
<1> QED
  BY <1>3, <1>4, <1>5

MarginsUpTo(f, lo, first, hi) ==
    f = [d \in lo..hi |-> IF d = lo THEN first ELSE Margin(f[d - 1], d)]

\* For any size of the array the margins that it grows by are defined: by induction on how
\* far the array is from its first size.
LEMMA MarginsExist ==
    ASSUME NEW lo \in Nat, NEW first, NEW m \in Nat
    PROVE  \E f : MarginsUpTo(f, lo, first, lo + m)
<1> DEFINE S == {n \in 0..m : \E f : MarginsUpTo(f, lo, first, lo + n)}
<1>1. 0 \in S
  <2>1. MarginsUpTo([d \in lo..(lo + 0) |-> first], lo, first, lo + 0)
    BY DEF MarginsUpTo
  <2> QED
    BY <2>1
<1>2. ASSUME NEW i \in 0..(m - 1), i \in S
      PROVE  i + 1 \in S
  <2>1. PICK f : MarginsUpTo(f, lo, first, lo + i)
    BY <1>2
  <2> DEFINE k == lo + i
             g == [d \in lo..(k + 1) |-> IF d = k + 1 THEN Margin(f[k], k + 1) ELSE f[d]]
  <2>2. \A d \in lo..k : f[d] = IF d = lo THEN first ELSE Margin(f[d - 1], d)
    BY <2>1 DEF MarginsUpTo
  <2>3. \A d \in lo..(k + 1) : g[d] = IF d = lo THEN first ELSE Margin(g[d - 1], d)
    <3> SUFFICES ASSUME NEW d \in lo..(k + 1)
                 PROVE  g[d] = IF d = lo THEN first ELSE Margin(g[d - 1], d)
      OBVIOUS
    <3>1. CASE d = k + 1
      <4>1. d # lo /\ d - 1 = k /\ k \in lo..(k + 1) /\ k # k + 1
        BY <3>1
      <4>2. g[k] = f[k] /\ g[d] = Margin(f[k], k + 1)
        BY <3>1, <4>1
      <4> QED
        BY <3>1, <4>1, <4>2
    <3>2. CASE d # k + 1
      <4>1. d \in lo..k /\ g[d] = f[d]
        BY <3>2
      <4>2. d # lo => d - 1 \in lo..k /\ g[d - 1] = f[d - 1]
        BY <4>1
      <4> QED
        BY <2>2, <4>1, <4>2
    <3> QED
      BY <3>1, <3>2
  <2>4. lo + (i + 1) = k + 1
    OBVIOUS
  <2>5. g = [d \in lo..(k + 1) |-> g[d]]
    OBVIOUS
  <2> HIDE DEF g, k
  <2>6. MarginsUpTo(g, lo, first, k + 1)
    BY <2>3, <2>5 DEF MarginsUpTo
  <2>7. i + 1 \in 0..m
    OBVIOUS
  <2> QED
    BY <2>4, <2>6, <2>7
<1> HIDE DEF S
<1>3. m \in S
  BY <1>1, <1>2, StepByStep
<1> QED
  BY <1>3 DEF S

\* The array has room for one more depth than there are, and does not shrink.
LEMMA MarginsGrow ==
    ASSUME NEW lo \in Nat, NEW first \in Nat, lo < first, NEW m \in Nat,
           NEW f, MarginsUpTo(f, lo, first, lo + m)
    PROVE  f[lo + m] \in Nat /\ lo + m < f[lo + m] /\ first <= f[lo + m]
<1> DEFINE S == {n \in 0..m : f[lo + n] \in Nat /\ lo + n < f[lo + n] /\ first <= f[lo + n]}
<1>0. \A d \in lo..(lo + m) : f[d] = IF d = lo THEN first ELSE Margin(f[d - 1], d)
  BY DEF MarginsUpTo
<1>1. 0 \in S
  <2>1. f[lo + 0] = first
    BY <1>0
  <2> QED
    BY <2>1
<1>2. ASSUME NEW i \in 0..(m - 1), i \in S
      PROVE  i + 1 \in S
  <2>1. PICK v \in Nat : v = f[lo + i] /\ lo + i < v /\ first <= v
    BY <1>2
  <2>2. f[lo + (i + 1)] = Margin(v, lo + (i + 1))
    <3>1. lo + (i + 1) \in lo..(lo + m) /\ lo + (i + 1) # lo /\ (lo + (i + 1)) - 1 = lo + i
      OBVIOUS
    <3> QED
      BY <1>0, <2>1, <3>1
  <2>3. Margin(v, lo + (i + 1)) = IF lo + (i + 1) = v THEN v + GrowBy ELSE v
    BY DEF Margin
  <2>4. GrowBy \in Nat \ {0}
    BY DepthAssumption
  <2> QED
    BY <2>1, <2>2, <2>3, <2>4
<1> HIDE DEF S
<1>3. m \in S
  BY <1>1, <1>2, StepByStep
<1> QED
  BY <1>3 DEF S

\* The array is grown beyond the depth that is asked for, and never shrinks.
LEMMA MarginAfterGrows ==
    ASSUME max_depth \in Nat, max_depth_margin \in Nat, max_depth < max_depth_margin,
           NEW depth \in Nat
    PROVE  /\ MarginAfter(depth) \in Nat
           /\ Max({depth, max_depth}) < MarginAfter(depth)
           /\ max_depth_margin <= MarginAfter(depth)
<1>1. PICK hi \in Nat : hi = Max({depth, max_depth}) /\ max_depth <= hi
  BY MaxOfTwo
<1> DEFINE R(f) == f = [d \in max_depth..hi |->
                          IF d = max_depth THEN max_depth_margin ELSE Margin(f[d - 1], d)]
<1>2. MarginAfter(depth) = (CHOOSE f : R(f))[hi]
  BY <1>1, Zenon DEF MarginAfter
<1>3. PICK m \in Nat : hi = max_depth + m
  <2>1. hi - max_depth \in Nat /\ hi = max_depth + (hi - max_depth)
    BY <1>1
  <2> QED
    BY <2>1
<1>4. \E f : R(f)
  <2>1. PICK f : MarginsUpTo(f, max_depth, max_depth_margin, hi)
    BY <1>3, MarginsExist
  <2>2. R(f)
    BY <2>1 DEF MarginsUpTo
  <2> QED
    BY <2>2
<1>5. R(CHOOSE f : R(f))
  <2> HIDE DEF R
  <2> QED
    BY <1>4
<1>6. MarginsUpTo((CHOOSE f : R(f)), max_depth, max_depth_margin, hi)
  BY <1>5, Zenon DEF MarginsUpTo
<1>7. PICK f : f = (CHOOSE g : R(g)) /\ MarginsUpTo(f, max_depth, max_depth_margin, hi)
  BY <1>6
<1> HIDE DEF R
<1>8. f[hi] \in Nat /\ hi < f[hi] /\ max_depth_margin <= f[hi]
  BY <1>3, <1>7, MarginsGrow
<1> QED
  BY <1>1, <1>2, <1>7, <1>8

-----------------------------------------------------------------------------
(***************************************************************************)
(* The array.  An insertion makes the queues up to the new depth first,    *)
(* all of them empty, and then is one into a queue that there is.          *)
(***************************************************************************)
\* What of IInv is about each queue and the directory.
ShelfInv(qs, fs, next) ==
    /\ \A s \in DOMAIN qs : QueueInv(qs[s], fs) /\ qs[s].id < next
    /\ \A s, t \in DOMAIN qs : qs[s].id = qs[t].id => s = t
    /\ DOMAIN fs = UNION {FilesOf(qs[s]) : s \in DOMAIN qs}
    /\ \A f \in DOMAIN fs : fs[f] \in Data

\* Files of different queues have different names.
LEMMA FilesApart ==
    ASSUME NEW q, NEW r, q.id # r.id
    PROVE  FilesOf(q) \cap FilesOf(r) = {}
BY DEF FilesOf

ShelfInsert(qs, s, x) == [qs EXCEPT ![s] = Insert(qs[s], x)]
ShelfExtract(qs, s, fs) == [qs EXCEPT ![s] = Extract(qs[s], fs)]

\* One queue is inserted into ...
LEMMA ShelfAfterInsert ==
    ASSUME NEW qs, NEW fs, NEW next \in Nat, ShelfInv(qs, fs, next), NEW s \in DOMAIN qs,
           NEW x \in Items
    PROVE  LET ps == ShelfInsert(qs, s, x)
               gs == FilesAfterInsert(qs[s], fs)
           IN  /\ ShelfInv(ps, gs, next)
               /\ Contents(ps[s], gs) = Append(Contents(qs[s], fs), x)
               /\ \A t \in DOMAIN qs : t # s => Contents(ps[t], gs) = Contents(qs[t], fs)
               /\ NumItems(ps[s]) = NumItems(qs[s]) + 1
<1> DEFINE ps == ShelfInsert(qs, s, x)
           gs == FilesAfterInsert(qs[s], fs)
           q == qs[s]
           e == Insert(q, x)
           room == MadeRoom(q)
<1>1. QueueInv(q, fs) /\ PlacesInv(q) /\ FilesOf(q) \subseteq DOMAIN fs
  BY DEF ShelfInv, QueueInv
<1>2. /\ QueueInv(e, gs) /\ Contents(e, gs) = Append(Contents(q, fs), x)
  BY <1>1, InsertAppends
<1>3. e.id = q.id /\ e.stats = StatsInsert(q.stats)
  BY <1>1, InsertFields
<1>4. NumItems(e) = NumItems(q) + 1
  BY <1>1, <1>3, Places, QueueFields, StatsCount DEF NumItems
<1>5. /\ DOMAIN gs = DOMAIN fs \cup (FilesOf(e) \ FilesOf(q)) /\ FilesOf(q) \subseteq FilesOf(e)
  <2>1. /\ DOMAIN gs = DOMAIN fs \cup (FilesOf(room) \ FilesOf(q))
        /\ FilesOf(q) \subseteq FilesOf(room)
        /\ PlacesInv(room) /\ CanInsert(WritePage(room)) /\ room.id = q.id
        /\ ReadPage(room) = ReadPage(q)
    BY <1>1, RoomForMore
  <2>2. /\ WritePage(e) = Put(WritePage(room), x)
        /\ ReadPage(e).page_index = ReadPage(q).page_index
    BY <1>1, InsertFields
  <2>3. WritePage(e).page_index = WritePage(room).page_index
    BY <2>1, <2>2, Places, QueueFields, PutPage
  <2>4. FilesOf(e) = FilesOf(room)
    BY <1>3, <2>1, <2>2, <2>3 DEF FilesOf
  <2> QED
    BY <2>1, <2>4
<1>6. \A f \in DOMAIN gs : gs[f] \in Data /\ (f \in DOMAIN fs /\ f # PageFile(q, WritePage(q)) => gs[f] = fs[f])
  <2>1. \A f \in DOMAIN fs : fs[f] \in Data
    BY DEF ShelfInv
  <2>2. WritePage(q).data \in Data
    BY <1>1, Places, QueueFields, PageFields DEF Data
  <2>3. CASE Offloads(q)
    BY <2>1, <2>2, <2>3 DEF FilesAfterInsert
  <2>4. CASE ~Offloads(q)
    BY <2>1, <2>4 DEF FilesAfterInsert
  <2> QED
    BY <2>3, <2>4
<1>7. DOMAIN ps = DOMAIN qs /\ ps[s] = e /\ \A t \in DOMAIN qs : t # s => ps[t] = qs[t]
  BY DEF ShelfInsert
<1>8. ASSUME NEW t \in DOMAIN qs, t # s
      PROVE  QueueInv(ps[t], gs) /\ Contents(ps[t], gs) = Contents(qs[t], fs)
  <2>1. QueueInv(qs[t], fs) /\ qs[t].id # q.id /\ FilesOf(qs[t]) \subseteq DOMAIN fs
    BY <1>8 DEF ShelfInv, QueueInv
  <2>2. \A f \in FilesOf(qs[t]) : f \in DOMAIN gs /\ gs[f] = fs[f]
    <3> SUFFICES ASSUME NEW f \in FilesOf(qs[t]) PROVE f \in DOMAIN gs /\ gs[f] = fs[f]
      OBVIOUS
    <3>1. f # PageFile(q, WritePage(q))
      BY <2>1 DEF FilesOf, PageFile
    <3> QED
      BY <1>5, <1>6, <2>1, <3>1
  <2> QED
    BY <1>7, <1>8, <2>1, <2>2, OwnFilesOnly
<1> HIDE DEF q, e, room, ps, gs
<1>9. ShelfInv(ps, gs, next)
  <2>1. \A t \in DOMAIN ps : QueueInv(ps[t], gs) /\ ps[t].id = qs[t].id
    BY <1>2, <1>3, <1>7, <1>8 DEF q
  <2>2. DOMAIN gs = UNION {FilesOf(ps[t]) : t \in DOMAIN ps}
    <3>1. DOMAIN fs = UNION {FilesOf(qs[t]) : t \in DOMAIN qs}
      BY DEF ShelfInv
    <3>2. \A t \in DOMAIN qs : t # s => FilesOf(ps[t]) = FilesOf(qs[t])
      BY <1>7
    <3>3. FilesOf(ps[s]) = FilesOf(e) /\ FilesOf(qs[s]) \subseteq FilesOf(e)
      BY <1>5, <1>7 DEF q
    <3>4. ASSUME NEW f \in DOMAIN gs PROVE \E t \in DOMAIN ps : f \in FilesOf(ps[t])
      <4>1. CASE f \in FilesOf(e)
        BY <1>7, <3>3, <4>1
      <4>2. CASE f \notin FilesOf(e)
        <5>1. f \in DOMAIN fs
          BY <1>5, <4>2
        <5>2. PICK t \in DOMAIN qs : f \in FilesOf(qs[t])
          BY <3>1, <5>1
        <5> QED
          BY <1>7, <3>2, <3>3, <4>2, <5>2
      <4> QED
        BY <4>1, <4>2
    <3>5. ASSUME NEW t \in DOMAIN ps, NEW f \in FilesOf(ps[t]) PROVE f \in DOMAIN gs
      <4>1. CASE t = s
        <5>1. FilesOf(q) \subseteq DOMAIN fs
          BY <1>1
        <5> QED
          BY <1>5, <3>3, <4>1, <5>1
      <4>2. CASE t # s
        <5>1. f \in DOMAIN fs
          BY <1>7, <3>1, <3>2, <4>2
        <5> QED
          BY <1>5, <5>1
      <4> QED
        BY <4>1, <4>2
    <3> QED
      BY <3>4, <3>5
  <2>3. \A t \in DOMAIN qs : qs[t].id < next
    BY DEF ShelfInv
  <2>4. \A t, u \in DOMAIN qs : qs[t].id = qs[u].id => t = u
    BY DEF ShelfInv
  <2>5. \A t \in DOMAIN ps : ps[t].id < next
    BY <1>7, <2>1, <2>3
  <2>6. \A t, u \in DOMAIN ps : ps[t].id = ps[u].id => t = u
    BY <1>7, <2>1, <2>4
  <2> QED
    BY <1>6, <2>1, <2>2, <2>5, <2>6 DEF ShelfInv
<1> QED
  BY <1>2, <1>4, <1>7, <1>8, <1>9 DEF q, ps, gs

\* ... or extracted from ...
LEMMA ShelfAfterExtract ==
    ASSUME NEW qs, NEW fs, NEW next \in Nat, ShelfInv(qs, fs, next), NEW s \in DOMAIN qs,
           ~IsEmpty(qs[s].stats)
    PROVE  LET ps == ShelfExtract(qs, s, fs)
               gs == FilesAfterExtract(qs[s], fs)
           IN  /\ ShelfInv(ps, gs, next)
               /\ Contents(qs[s], fs) \in Seq(Items) \ {<<>>}
               /\ Extracted(qs[s], fs) = Head(Contents(qs[s], fs))
               /\ Contents(ps[s], gs) = Tail(Contents(qs[s], fs))
               /\ \A t \in DOMAIN qs : t # s => Contents(ps[t], gs) = Contents(qs[t], fs)
               /\ NumItems(ps[s]) = NumItems(qs[s]) - 1
<1> DEFINE ps == ShelfExtract(qs, s, fs)
           gs == FilesAfterExtract(qs[s], fs)
           q == qs[s]
           e == Extract(q, fs)
           adv == Advanced(q, fs)
<1>1. /\ QueueInv(q, fs) /\ PlacesInv(q) /\ FilesOf(q) \subseteq DOMAIN fs
      /\ \A f \in DOMAIN fs : fs[f] \in Data
  BY DEF ShelfInv, QueueInv
<1>2. /\ QueueInv(e, gs) /\ Contents(e, gs) = Tail(Contents(q, fs))
      /\ Contents(q, fs) \in Seq(Items) \ {<<>>}
      /\ Extracted(q, fs) = Head(Contents(q, fs))
  BY <1>1, ExtractTakesHead
<1>3. /\ e.id = q.id /\ e.stats = StatsExtract(q.stats) /\ FilesOf(e) = FilesOf(adv)
  BY <1>1, ExtractFields
<1>4. NumItems(e) = NumItems(q) - 1 /\ NumItems(q) # 0
  BY <1>1, <1>3, Places, QueueFields, StatsCount DEF NumItems, IsEmpty
<1>5. /\ DOMAIN gs = DOMAIN fs \ (FilesOf(q) \ FilesOf(e)) /\ FilesOf(e) \subseteq FilesOf(q)
      /\ \A f \in DOMAIN gs : gs[f] = fs[f]
  <2>1. \A f \in FilesOf(q) : fs[f] \in Data
    BY <1>1
  <2> HIDE DEF q
  <2>2. /\ DOMAIN FilesAfterExtract(q, fs) = DOMAIN fs \ (FilesOf(q) \ FilesOf(Advanced(q, fs)))
        /\ FilesOf(Advanced(q, fs)) \subseteq FilesOf(q)
        /\ \A f \in DOMAIN FilesAfterExtract(q, fs) : FilesAfterExtract(q, fs)[f] = fs[f]
    <3>1. QueueInv(q, fs) /\ NumItems(q) # 0
      BY <1>1, <1>4
    <3>2. DOMAIN FilesAfterExtract(q, fs) = DOMAIN fs \ (FilesOf(q) \ FilesOf(Advanced(q, fs)))
      BY <3>1, <2>1, AdvancedFields
    <3>3. FilesOf(Advanced(q, fs)) \subseteq FilesOf(q)
      BY <3>1, <2>1, AdvancedFields
    <3>4. \A f \in DOMAIN FilesAfterExtract(q, fs) : FilesAfterExtract(q, fs)[f] = fs[f]
      BY DEF FilesAfterExtract
    <3> QED
      BY <3>2, <3>3, <3>4
  <2>3. gs = FilesAfterExtract(q, fs)
    BY DEF q
  <2> HIDE DEF e
  <2> QED
    BY <1>3, <2>2, <2>3
<1>7. DOMAIN ps = DOMAIN qs /\ ps[s] = e /\ \A t \in DOMAIN qs : t # s => ps[t] = qs[t]
  BY DEF ShelfExtract
<1>8. ASSUME NEW t \in DOMAIN qs, t # s
      PROVE  QueueInv(ps[t], gs) /\ Contents(ps[t], gs) = Contents(qs[t], fs)
  <2>1. QueueInv(qs[t], fs) /\ qs[t].id # q.id /\ FilesOf(qs[t]) \subseteq DOMAIN fs
    BY <1>8 DEF ShelfInv, QueueInv
  <2>2. FilesOf(qs[t]) \cap FilesOf(q) = {}
    BY <2>1, FilesApart
  <2> HIDE DEF q, e
  <2>3. \A f \in FilesOf(qs[t]) : f \in DOMAIN gs /\ gs[f] = fs[f]
    BY <1>5, <2>1, <2>2
  <2> QED
    BY <1>7, <1>8, <2>1, <2>3, OwnFilesOnly
<1> HIDE DEF q, e, adv, ps, gs
<1>9. ShelfInv(ps, gs, next)
  <2>1. \A t \in DOMAIN ps : QueueInv(ps[t], gs) /\ ps[t].id = qs[t].id
    BY <1>2, <1>3, <1>7, <1>8 DEF q
  <2>2. DOMAIN gs = UNION {FilesOf(ps[t]) : t \in DOMAIN ps}
    <3>1. DOMAIN fs = UNION {FilesOf(qs[t]) : t \in DOMAIN qs}
      BY DEF ShelfInv
    <3>2. \A t \in DOMAIN qs : t # s => FilesOf(ps[t]) = FilesOf(qs[t])
      BY <1>7
    <3>3. FilesOf(ps[s]) = FilesOf(e) /\ FilesOf(qs[s]) = FilesOf(q)
      BY <1>7 DEF q
    <3>4. ASSUME NEW f \in DOMAIN gs PROVE \E t \in DOMAIN ps : f \in FilesOf(ps[t])
      <4>1. PICK t \in DOMAIN qs : f \in FilesOf(qs[t])
        BY <1>5, <3>1, <3>4
      <4>2. CASE t = s
        BY <1>5, <1>7, <3>3, <3>4, <4>1, <4>2
      <4>3. CASE t # s
        BY <1>7, <3>2, <4>1, <4>3
      <4> QED
        BY <4>2, <4>3
    <3>5. ASSUME NEW t \in DOMAIN ps, NEW f \in FilesOf(ps[t]) PROVE f \in DOMAIN gs
      <4>1. CASE t = s
        BY <1>1, <1>5, <3>3, <3>5, <4>1
      <4>2. CASE t # s
        <5>1. f \in DOMAIN fs
          BY <1>7, <3>1, <3>2, <3>5, <4>2
        <5>2. FilesOf(qs[t]) \cap FilesOf(q) = {}
          <6>1. qs[t].id # q.id
            BY <1>7, <3>5, <4>2 DEF ShelfInv, q
          <6> QED
            BY <6>1, FilesApart
        <5> QED
          BY <1>5, <1>7, <3>2, <3>5, <4>2, <5>1, <5>2
      <4> QED
        BY <4>1, <4>2
    <3>6. DOMAIN gs \subseteq UNION {FilesOf(ps[t]) : t \in DOMAIN ps}
      BY <3>4
    <3>7. UNION {FilesOf(ps[t]) : t \in DOMAIN ps} \subseteq DOMAIN gs
      BY <3>5
    <3> QED
      BY <3>6, <3>7
  <2>3. \A t \in DOMAIN qs : qs[t].id < next
    BY DEF ShelfInv
  <2>4. \A t, u \in DOMAIN qs : qs[t].id = qs[u].id => t = u
    BY DEF ShelfInv
  <2>5. \A t \in DOMAIN ps : ps[t].id < next
    BY <1>7, <2>1, <2>3
  <2>6. \A t, u \in DOMAIN ps : ps[t].id = ps[u].id => t = u
    BY <1>7, <2>1, <2>4
  <2>7. \A f \in DOMAIN gs : gs[f] \in Data
    BY <1>1, <1>5
  <2> QED
    BY <2>1, <2>2, <2>5, <2>6, <2>7 DEF ShelfInv
<1> QED
  BY <1>2, <1>4, <1>7, <1>8, <1>9 DEF q, ps, gs

-----------------------------------------------------------------------------
(***************************************************************************)
(* The count.  The items held are one more after an insertion and one less *)
(* after an extraction.                                                    *)
(***************************************************************************)
Held(qs) == {h \in (DOMAIN qs) \X (Nat \ {0}) : h[2] <= NumItems(qs[h[1]])}

\* Insertion.
LEMMA HeldAfterInsert ==
    ASSUME NEW qs, NEW ps, DOMAIN ps = DOMAIN qs, NEW s \in DOMAIN qs,
           \A t \in DOMAIN qs : t # s => ps[t] = qs[t],
           NumItems(qs[s]) \in Nat, NumItems(ps[s]) = NumItems(qs[s]) + 1,
           IsFiniteSet(Held(qs))
    PROVE  /\ IsFiniteSet(Held(ps))
           /\ Cardinality(Held(ps)) = Cardinality(Held(qs)) + 1
<1> DEFINE n == NumItems(qs[s])
           new == <<s, n + 1>>
<1>1. new \notin Held(qs)
  BY DEF Held
<1>2. Held(ps) = Held(qs) \cup {new}
  <2>1. ASSUME NEW h \in Held(ps) PROVE h \in Held(qs) \cup {new}
    <3>1. h = <<h[1], h[2]>> /\ h[1] \in DOMAIN qs /\ h[2] \in Nat \ {0} /\ h[2] <= NumItems(ps[h[1]])
      BY <2>1 DEF Held
    <3>2. CASE h[1] = s /\ h[2] = n + 1
      BY <3>1, <3>2
    <3>3. CASE h[1] = s /\ h[2] # n + 1
      <4>1. h[2] <= NumItems(qs[h[1]])
        BY <3>1, <3>3
      <4> QED
        BY <3>1, <4>1 DEF Held
    <3>4. CASE h[1] # s
      <4>1. h[2] <= NumItems(qs[h[1]])
        BY <3>1, <3>4
      <4> QED
        BY <3>1, <4>1 DEF Held
    <3> QED
      BY <3>2, <3>3, <3>4
  <2>2. ASSUME NEW h \in Held(qs) PROVE h \in Held(ps)
    <3>1. h = <<h[1], h[2]>> /\ h[1] \in DOMAIN qs /\ h[2] \in Nat \ {0} /\ h[2] <= NumItems(qs[h[1]])
      BY <2>2 DEF Held
    <3>2. h[2] <= NumItems(ps[h[1]])
      BY <3>1
    <3> QED
      BY <3>1, <3>2 DEF Held
  <2>3. new \in Held(ps)
    BY DEF Held
  <2> QED
    BY <2>1, <2>2, <2>3
<1> HIDE DEF n, new
<1> QED
  BY <1>1, <1>2, FS_AddElement

\* Extraction.
LEMMA HeldAfterExtract ==
    ASSUME NEW qs, NEW ps, DOMAIN ps = DOMAIN qs, NEW s \in DOMAIN qs,
           \A t \in DOMAIN qs : t # s => ps[t] = qs[t],
           NumItems(qs[s]) \in Nat \ {0}, NumItems(ps[s]) = NumItems(qs[s]) - 1,
           IsFiniteSet(Held(qs))
    PROVE  /\ IsFiniteSet(Held(ps))
           /\ Cardinality(Held(ps)) = Cardinality(Held(qs)) - 1
<1> DEFINE n == NumItems(qs[s])
           old == <<s, n>>
<1>1. old \in Held(qs)
  BY DEF Held
<1>2. Held(ps) = Held(qs) \ {old}
  <2>1. ASSUME NEW h \in Held(ps) PROVE h \in Held(qs) \ {old}
    <3>1. h = <<h[1], h[2]>> /\ h[1] \in DOMAIN qs /\ h[2] \in Nat \ {0} /\ h[2] <= NumItems(ps[h[1]])
      BY <2>1 DEF Held
    <3>2. h[2] <= NumItems(qs[h[1]]) /\ (h[1] = s => h[2] # n)
      BY <3>1
    <3>3. h \in Held(qs)
      BY <3>1, <3>2 DEF Held
    <3>4. h # old
      BY <3>2
    <3> QED
      BY <3>3, <3>4
  <2>2. ASSUME NEW h \in Held(qs), h # old PROVE h \in Held(ps)
    <3>1. h = <<h[1], h[2]>> /\ h[1] \in DOMAIN qs /\ h[2] \in Nat \ {0} /\ h[2] <= NumItems(qs[h[1]])
      BY <2>2 DEF Held
    <3>2. h[1] = s => h[2] # n
      BY <2>2, <3>1
    <3>3. h[2] <= NumItems(ps[h[1]])
      BY <3>1, <3>2
    <3> QED
      BY <3>1, <3>3 DEF Held
  <2> QED
    BY <2>1, <2>2
<1> HIDE DEF n, old
<1> QED
  BY <1>1, <1>2, FS_RemoveElement

\* No item is held exactly if the count is zero.
LEMMA NoneHeld ==
    ASSUME NEW qs, IsFiniteSet(Held(qs)), \A s \in DOMAIN qs : NumItems(qs[s]) \in Nat
    PROVE  Cardinality(Held(qs)) = 0 <=> \A s \in DOMAIN qs : NumItems(qs[s]) = 0
<1>1. Cardinality(Held(qs)) = 0 <=> Held(qs) = {}
  BY FS_EmptySet
<1>2. ASSUME NEW s \in DOMAIN qs, NumItems(qs[s]) # 0 PROVE Held(qs) # {}
  <2>1. <<s, 1>> \in Held(qs)
    BY <1>2 DEF Held
  <2> QED
    BY <2>1
<1>3. ASSUME NEW h \in Held(qs) PROVE \E s \in DOMAIN qs : NumItems(qs[s]) # 0
  BY <1>3 DEF Held
<1> QED
  BY <1>1, <1>2, <1>3

-----------------------------------------------------------------------------
(***************************************************************************)
(* Growth.  The queues that are made have ids of their own and nothing in  *)
(* them, so that the shelf is the same but for them.                       *)
(***************************************************************************)
Shelf ==
    /\ max_depth \in Nat /\ min_depth \in Nat /\ min_depth <= max_depth
    /\ next_queue_id \in Nat
    /\ Slots = 0..(max_depth - min_depth)
    /\ ShelfInv(queues_by_depth, files, next_queue_id)

\* Growing the array of queues up to a depth adds empty queues with ids of their own, and
\* touches neither the queues it has nor their files.
LEMMA ShelfGrows ==
    ASSUME Shelf, NEW depth \in Nat, min_depth <= depth,
           NEW top, top = Max({depth, max_depth}), NEW g, g = Grown(depth)
    PROVE  /\ top \in Nat /\ max_depth <= top /\ depth <= top
           /\ top = max_depth \/ top = depth
           /\ DOMAIN g = 0..(top - min_depth) /\ Slots \subseteq DOMAIN g
           /\ ShelfInv(g, files, next_queue_id + (top - max_depth))
           /\ \A s \in Slots : g[s] = queues_by_depth[s]
           /\ \A s \in DOMAIN g \ Slots : NumItems(g[s]) = 0 /\ Contents(g[s], files) = <<>>
           /\ Held(g) = Held(queues_by_depth)
<1> USE DEF Slots
<1> DEFINE next == next_queue_id + (top - max_depth)
<1>1. /\ top \in Nat /\ max_depth <= top /\ depth <= top /\ (top = max_depth \/ top = depth)
      /\ max_depth \in Nat /\ min_depth \in Nat /\ min_depth <= max_depth
      /\ next_queue_id \in Nat /\ Slots = 0..(max_depth - min_depth)
      /\ ShelfInv(queues_by_depth, files, next_queue_id)
  BY MaxOfTwo DEF Shelf
<1>2. /\ DOMAIN g = 0..(top - min_depth)
      /\ \A s \in DOMAIN g : g[s] = IF s \in Slots THEN queues_by_depth[s]
                                     ELSE NewQueue(next_queue_id + (s + min_depth - max_depth - 1))
  <2>1. g = [s \in 0..(top - min_depth) |->
                IF s \in Slots THEN queues_by_depth[s] ELSE NewQueue(QueueIdAt(s + min_depth))]
    BY DEF Grown
  <2>2. DOMAIN g = 0..(top - min_depth)
    BY <2>1
  <2>3. ASSUME NEW s \in DOMAIN g
        PROVE  g[s] = IF s \in Slots THEN queues_by_depth[s]
                      ELSE NewQueue(next_queue_id + (s + min_depth - max_depth - 1))
    <3>1. g[s] = IF s \in Slots THEN queues_by_depth[s] ELSE NewQueue(QueueIdAt(s + min_depth))
      BY <2>1, <2>2
    <3>2. QueueIdAt(s + min_depth) = next_queue_id + (s + min_depth - max_depth - 1)
      BY <1>1, <2>2 DEF QueueIdAt
    <3> QED
      BY <3>1, <3>2
  <2> QED
    BY <2>2, <2>3
<1>3. Slots \subseteq DOMAIN g
  BY <1>1, <1>2
<1>4. \A s \in Slots : g[s] = queues_by_depth[s]
  BY <1>2, <1>3
<1>5. ASSUME NEW s \in DOMAIN g \ Slots
      PROVE  /\ QueueInv(g[s], files) /\ Contents(g[s], files) = <<>>
             /\ FilesOf(g[s]) = {} /\ NumItems(g[s]) = 0
             /\ g[s].id = next_queue_id + (s + min_depth - max_depth - 1)
             /\ s \in Nat /\ max_depth < s + min_depth /\ s + min_depth <= top
  <2>1. s \in Nat /\ max_depth < s + min_depth /\ s + min_depth <= top
    BY <1>1, <1>2
  <2>2. PICK id \in Nat : id = next_queue_id + (s + min_depth - max_depth - 1)
    BY <1>1, <2>1
  <2>3. g[s] = NewQueue(id)
    BY <1>2, <2>2
  <2> QED
    BY <2>1, <2>2, <2>3, NewQueueIsEmpty
<1>6. ASSUME NEW s \in Slots
      PROVE  QueueInv(g[s], files) /\ g[s].id \in Nat /\ g[s].id < next_queue_id
  <2>1. QueueInv(queues_by_depth[s], files) /\ queues_by_depth[s].id < next_queue_id
    BY <1>1, <1>6 DEF ShelfInv
  <2>2. queues_by_depth[s].id \in Nat
    BY <2>1, Places, QueueFields DEF QueueInv
  <2> QED
    BY <1>4, <2>1, <2>2
<1>7. ShelfInv(g, files, next)
  <2>1. ASSUME NEW s \in DOMAIN g PROVE QueueInv(g[s], files) /\ g[s].id < next
    <3>0. top \in Nat /\ max_depth \in Nat /\ max_depth <= top /\ next_queue_id \in Nat /\ min_depth \in Nat
      BY <1>1
    <3>1. CASE s \in Slots
      <4>1. QueueInv(g[s], files) /\ g[s].id \in Nat /\ g[s].id < next_queue_id
        BY <1>6, <3>1
      <4> QED
        BY <3>0, <4>1
    <3>2. CASE s \notin Slots
      <4>1. /\ QueueInv(g[s], files)
            /\ g[s].id = next_queue_id + (s + min_depth - max_depth - 1)
            /\ s \in Nat /\ max_depth < s + min_depth /\ s + min_depth <= top
        BY <1>5, <3>2
      <4> QED
        BY <3>0, <4>1
    <3> QED
      BY <3>1, <3>2
  <2>2. ASSUME NEW s \in DOMAIN g, NEW t \in DOMAIN g, g[s].id = g[t].id PROVE s = t
    <3>1. CASE s \in Slots /\ t \in Slots
      <4>1. queues_by_depth[s].id = queues_by_depth[t].id
        BY <1>4, <2>2, <3>1
      <4> QED
        BY <1>1, <3>1, <4>1 DEF ShelfInv
    <3>2. CASE s \in Slots /\ t \notin Slots
      BY <1>1, <1>5, <1>6, <2>2, <3>2
    <3>3. CASE s \notin Slots /\ t \in Slots
      BY <1>1, <1>5, <1>6, <2>2, <3>3
    <3>4. CASE s \notin Slots /\ t \notin Slots
      BY <1>1, <1>5, <2>2, <3>4
    <3> QED
      BY <3>1, <3>2, <3>3, <3>4
  <2>3. DOMAIN files = UNION {FilesOf(g[s]) : s \in DOMAIN g}
    <3>1. DOMAIN files = UNION {FilesOf(queues_by_depth[s]) : s \in Slots}
      BY <1>1 DEF ShelfInv
    <3>2. ASSUME NEW f \in DOMAIN files PROVE \E s \in DOMAIN g : f \in FilesOf(g[s])
      <4>1. PICK s \in Slots : f \in FilesOf(queues_by_depth[s])
        BY <3>1
      <4> QED
        BY <1>3, <1>4, <4>1
    <3>3. ASSUME NEW s \in DOMAIN g, NEW f \in FilesOf(g[s]) PROVE f \in DOMAIN files
      <4>1. s \in Slots
        BY <1>5, <3>3
      <4> QED
        BY <1>4, <3>1, <3>3, <4>1
    <3>4. DOMAIN files \subseteq UNION {FilesOf(g[s]) : s \in DOMAIN g}
      BY <3>2
    <3>5. UNION {FilesOf(g[s]) : s \in DOMAIN g} \subseteq DOMAIN files
      BY <3>3
    <3> QED
      BY <3>4, <3>5
  <2>4. \A f \in DOMAIN files : files[f] \in Data
    BY <1>1 DEF ShelfInv
  <2> QED
    BY <2>1, <2>2, <2>3, <2>4 DEF ShelfInv
<1>8. Held(g) = Held(queues_by_depth)
  <2>1. ASSUME NEW h \in Held(g) PROVE h \in Held(queues_by_depth)
    <3>1. h = <<h[1], h[2]>> /\ h[1] \in DOMAIN g /\ h[2] \in Nat \ {0} /\ h[2] <= NumItems(g[h[1]])
      BY <2>1 DEF Held
    <3>2. h[1] \in Slots
      BY <1>5, <3>1
    <3> QED
      BY <1>4, <3>1, <3>2 DEF Held
  <2>2. ASSUME NEW h \in Held(queues_by_depth) PROVE h \in Held(g)
    <3>1. h = <<h[1], h[2]>> /\ h[1] \in Slots /\ h[2] \in Nat \ {0}
          /\ h[2] <= NumItems(queues_by_depth[h[1]])
      BY <2>2 DEF Held
    <3> QED
      BY <1>3, <1>4, <3>1 DEF Held
  <2> QED
    BY <2>1, <2>2
<1> QED
  BY <1>1, <1>2, <1>3, <1>4, <1>5, <1>7, <1>8

-----------------------------------------------------------------------------
(***************************************************************************)
(* The inductive invariant: the shelf, the room that the array has for it, *)
(* and the count of what all queues hold.                                  *)
(***************************************************************************)
ArrayInv ==
    /\ max_depth <= DeepestDepth
    /\ max_depth_margin \in Nat /\ allocated \in Nat
    /\ max_depth < max_depth_margin
    /\ max_depth_margin - min_depth <= allocated

CountInv ==
    /\ stats \in Stats
    /\ IsFiniteSet(Held(queues_by_depth))
    /\ stats.num_items_in_queue = Cardinality(Held(queues_by_depth))

GivenInv == given \in (min_depth..max_depth) \X Items \cup {Nothing}

IInv == Shelf /\ ArrayInv /\ CountInv /\ GivenInv

\* What follows from it.
LEMMA InvIsEnough == IInv => DirectoryExact
<1> SUFFICES ASSUME IInv PROVE DirectoryExact
  OBVIOUS
<1> USE DEF Slots
<1>1. /\ Shelf /\ ArrayInv /\ CountInv /\ GivenInv /\ FirstDepth \in Nat /\ DeepestDepth \in Nat
  BY DepthAssumption DEF IInv
<1>2. ASSUME NEW s \in Slots
      PROVE  /\ s < allocated /\ queues_by_depth[s] \in Queue /\ SpareExact(queues_by_depth[s])
             /\ FilesOf(queues_by_depth[s]) \subseteq QueueId \X PageNumber
  <2> DEFINE q == queues_by_depth[s]
  <2>1. PlacesInv(q) /\ q \in Queue
    BY <1>1 DEF Shelf, ShelfInv, QueueInv, PlacesInv
  <2>2. SpareExact(q) /\ q.id \in Nat
        /\ ReadPage(q).page_index \in Nat /\ WritePage(q).page_index \in Nat
    BY <2>1, Places, QueueFields DEF PlacesInv
  <2>3. FilesOf(q) \subseteq QueueId \X PageNumber
    BY <2>2 DEF FilesOf, QueueId, PageNumber
  <2>4. s < allocated
    BY <1>1, <1>2 DEF Shelf, ArrayInv
  <2> QED
    BY <2>1, <2>2, <2>3, <2>4
<1>3. DOMAIN files \subseteq QueueId \X PageNumber
  BY <1>1, <1>2 DEF Shelf, ShelfInv
<1>4. TypeOK
  <2>1. max_depth \in min_depth..DeepestDepth /\ max_depth_margin \in Nat /\ allocated \in Nat
    BY <1>1 DEF Shelf, ArrayInv, min_depth
  <2>2. Slots = 0..(max_depth - min_depth) /\ next_queue_id \in Nat
    BY <1>1 DEF Shelf
  <2>3. \A f \in DOMAIN files : files[f] \in Data
    BY <1>1 DEF Shelf, ShelfInv
  <2>4. stats \in Stats
    BY <1>1 DEF CountInv
  <2>5. given \in (min_depth..max_depth) \X Items \cup {Nothing}
    BY <1>1 DEF GivenInv
  <2> QED
    BY <1>2, <1>3, <2>1, <2>2, <2>3, <2>4, <2>5 DEF TypeOK
<1>5. /\ DOMAIN files = UNION {FilesOf(queues_by_depth[s]) : s \in Slots}
      /\ \A s, t \in Slots : queues_by_depth[s].id = queues_by_depth[t].id => s = t
  BY <1>1 DEF Shelf, ShelfInv
<1> QED
  BY <1>2, <1>4, <1>5 DEF DirectoryExact

-----------------------------------------------------------------------------
(***************************************************************************)
(* What DepthFifo sees of the shelf.                                       *)
(***************************************************************************)
Seen(qs, fs) ==
    [d \in min_depth..DeepestDepth |->
        IF d - min_depth \in DOMAIN qs THEN Contents(qs[d - min_depth], fs) ELSE <<>>]

\* One queue of it changes.
LEMMA SeenChange ==
    ASSUME NEW qs, NEW fs, NEW ps, NEW gs, NEW s \in Nat, s \in DOMAIN qs, DOMAIN ps = DOMAIN qs,
           \A t \in DOMAIN qs : t # s => Contents(ps[t], gs) = Contents(qs[t], fs),
           min_depth \in Nat
    PROVE  Seen(ps, gs) = [Seen(qs, fs) EXCEPT ![s + min_depth] = Contents(ps[s], gs)]
<1> DEFINE D == min_depth..DeepestDepth
           c == Contents(ps[s], gs)
<1>1. Seen(ps, gs) = [d \in D |-> IF d - min_depth \in DOMAIN ps THEN Contents(ps[d - min_depth], gs) ELSE <<>>]
  BY DEF Seen
<1>2. Seen(qs, fs) = [d \in D |-> IF d - min_depth \in DOMAIN qs THEN Contents(qs[d - min_depth], fs) ELSE <<>>]
  BY DEF Seen
<1>3. ASSUME NEW d \in D
      PROVE  (IF d - min_depth \in DOMAIN ps THEN Contents(ps[d - min_depth], gs) ELSE <<>>)
             = IF d = s + min_depth THEN c
               ELSE IF d - min_depth \in DOMAIN qs THEN Contents(qs[d - min_depth], fs) ELSE <<>>
  <2>1. d \in Int /\ (d = s + min_depth <=> d - min_depth = s)
    BY DepthAssumption DEF min_depth
  <2> QED
    BY <2>1
<1> HIDE DEF D, c
<1>4. Seen(ps, gs) = [Seen(qs, fs) EXCEPT ![s + min_depth] = c]
  BY <1>1, <1>2, <1>3
<1> QED
  BY <1>4 DEF c

\* Growing changes nothing of it.
LEMMA SeenGrows ==
    ASSUME NEW qs, NEW fs, NEW g, DOMAIN qs \subseteq DOMAIN g,
           \A s \in DOMAIN qs : g[s] = qs[s],
           \A s \in DOMAIN g \ DOMAIN qs : Contents(g[s], fs) = <<>>
    PROVE  Seen(g, fs) = Seen(qs, fs)
<1>1. ASSUME NEW d \in min_depth..DeepestDepth
      PROVE  (IF d - min_depth \in DOMAIN g THEN Contents(g[d - min_depth], fs) ELSE <<>>)
             = IF d - min_depth \in DOMAIN qs THEN Contents(qs[d - min_depth], fs) ELSE <<>>
  <2>1. CASE d - min_depth \in DOMAIN qs
    BY <2>1
  <2>2. CASE d - min_depth \notin DOMAIN qs
    BY <2>2
  <2> QED
    BY <2>1, <2>2
<1> QED
  BY <1>1 DEF Seen

-----------------------------------------------------------------------------
(***************************************************************************)
(* The initial state: one queue, with one item.                            *)
(***************************************************************************)
LEMMA InitInv == QueueInit => IInv /\ Fifo!Init
<1> SUFFICES ASSUME QueueInit PROVE IInv /\ Fifo!Init
  OBVIOUS
<1> USE DEF Slots
<1> DEFINE q == NewQueue(0)
           none == [s \in {0} |-> q]
<1>1. /\ FirstDepth \in Nat /\ DeepestDepth \in Nat /\ FirstDepth <= DeepestDepth
      /\ FirstItem \in Items /\ GrowBy \in Nat \ {0} /\ min_depth = FirstDepth
  BY DepthAssumption DEF min_depth
<1>2. /\ stats = StatsInsert(NewStats) /\ max_depth = FirstDepth
      /\ max_depth_margin = FirstDepth + GrowBy /\ allocated = GrowBy + 1
      /\ queues_by_depth = [s \in {0} |-> Insert(q, FirstItem)]
      /\ next_queue_id = 1 /\ files = FilesAfterInsert(q, <<>>) /\ given = Nothing
  BY DEF QueueInit
<1>3. /\ QueueInv(q, <<>>) /\ q.id = 0 /\ Contents(q, <<>>) = <<>> /\ FilesOf(q) = {} /\ NumItems(q) = 0
  BY NewQueueIsEmpty
<1> HIDE DEF q
<1>4. ShelfInv(none, <<>>, 1)
  <2>1. DOMAIN none = {0} /\ none[0] = q /\ DOMAIN <<>> = {}
    OBVIOUS
  <2>2. \A s \in DOMAIN none : QueueInv(none[s], <<>>) /\ none[s].id < 1 /\ FilesOf(none[s]) = {}
    BY <1>3, <2>1
  <2> HIDE DEF none
  <2>3. UNION {FilesOf(none[s]) : s \in DOMAIN none} = {}
    BY <2>2
  <2> QED
    BY <2>1, <2>2, <2>3 DEF ShelfInv
<1>5. queues_by_depth = ShelfInsert(none, 0, FirstItem)
  BY <1>2 DEF ShelfInsert
<1>6. 0 \in DOMAIN none /\ none[0] = q /\ DOMAIN queues_by_depth = {0}
  BY <1>2, <1>5 DEF ShelfInsert
<1> HIDE DEF none
<1>7. /\ ShelfInv(queues_by_depth, files, 1)
      /\ Contents(queues_by_depth[0], files) = Append(<<>>, FirstItem)
      /\ NumItems(queues_by_depth[0]) = 1
  <2> DEFINE ps == ShelfInsert(none, 0, FirstItem)
             gs == FilesAfterInsert(none[0], <<>>)
  <2>1. /\ ShelfInv(ps, gs, 1) /\ Contents(ps[0], gs) = Append(Contents(none[0], <<>>), FirstItem)
        /\ NumItems(ps[0]) = NumItems(none[0]) + 1
    BY <1>1, <1>4, <1>6, ShelfAfterInsert
  <2>2. ps = queues_by_depth /\ gs = files
    BY <1>2, <1>5, <1>6
  <2>3. Contents(none[0], <<>>) = <<>> /\ NumItems(none[0]) = 0
    BY <1>3, <1>6
  <2> HIDE DEF ps, gs
  <2>4. ShelfInv(ps, gs, 1) /\ Contents(ps[0], gs) = Append(<<>>, FirstItem) /\ NumItems(ps[0]) = 1
    <3>1. NumItems(ps[0]) = 1
      BY <2>1, <2>3
    <3>2. ShelfInv(ps, gs, 1) /\ Contents(ps[0], gs) = Append(<<>>, FirstItem)
      BY <2>1, <2>3, Zenon
    <3> QED
      BY <3>1, <3>2
  <2> QED
    BY <2>2, <2>4
<1>8. Shelf
  BY <1>1, <1>2, <1>6, <1>7 DEF Shelf
<1>9. ArrayInv
  BY <1>1, <1>2 DEF ArrayInv
<1>10. CountInv
  <2>1. NewStats \in Stats /\ NewStats.num_items_in_queue = 0
    BY DEF NewStats, Stats
  <2>2. stats \in Stats /\ stats.num_items_in_queue = 1
    BY <1>2, <2>1, StatsCount
  <2>3. Held(queues_by_depth) = {<<0, 1>>}
    <3>1. ASSUME NEW h \in Held(queues_by_depth) PROVE h = <<0, 1>>
      <4>1. h = <<h[1], h[2]>> /\ h[1] \in DOMAIN queues_by_depth /\ h[2] \in Nat \ {0}
            /\ h[2] <= NumItems(queues_by_depth[h[1]])
        BY <3>1 DEF Held
      <4> QED
        BY <1>6, <1>7, <4>1
    <3>2. <<0, 1>> \in Held(queues_by_depth)
      BY <1>6, <1>7 DEF Held
    <3> QED
      BY <3>1, <3>2
  <2>4. IsFiniteSet({<<0, 1>>}) /\ Cardinality({<<0, 1>>}) = 1
    BY FS_Singleton
  <2> QED
    BY <2>2, <2>3, <2>4 DEF CountInv
<1>11. GivenInv
  BY <1>2 DEF GivenInv
<1>12. Fifo!Init
  <2>1. ASSUME NEW d \in min_depth..DeepestDepth
        PROVE  (IF d - min_depth \in DOMAIN queues_by_depth
                THEN Contents(queues_by_depth[d - min_depth], files) ELSE <<>>)
               = IF d = FirstDepth THEN <<FirstItem>> ELSE <<>>
    <3>1. d \in Int /\ (d - min_depth = 0 <=> d = FirstDepth)
      BY <1>1
    <3>2. Append(<<>>, FirstItem) = <<FirstItem>>
      OBVIOUS
    <3> QED
      BY <1>6, <1>7, <3>1, <3>2
  <2> QED
    BY <1>2, <2>1 DEF Fifo!Init
<1> QED
  BY <1>8, <1>9, <1>10, <1>11, <1>12 DEF IInv

-----------------------------------------------------------------------------
(***************************************************************************)
(* The steps.                                                              *)
(***************************************************************************)
\* The numbers of items on a shelf.
LEMMA ShelfNumbers ==
    ASSUME NEW qs, NEW fs, NEW next, ShelfInv(qs, fs, next)
    PROVE  \A s \in DOMAIN qs : NumItems(qs[s]) \in Nat /\ qs[s].stats \in Stats
BY Places, QueueFields, StatsCount DEF ShelfInv, QueueInv, NumItems

\* fcs_depth_multi_queue__insert() keeps the invariant, and is an insertion of DepthFifo.
LEMMA InsertStep ==
    ASSUME IInv, NEW depth \in min_depth..DeepestDepth, NEW x \in Items, InsertAtDepth(depth, x)
    PROVE  IInv' /\ Seen(queues_by_depth', files') =
                        [Seen(queues_by_depth, files) EXCEPT ![depth] = Append(@, x)]
<1> USE DEF Slots
<1> DEFINE top == Max({depth, max_depth})
           g == Grown(depth)
           slot == depth - min_depth
           ps == queues_by_depth'
           gs == files'
<1>1. /\ Shelf /\ ArrayInv /\ CountInv /\ GivenInv
      /\ depth \in Nat /\ min_depth <= depth /\ depth <= DeepestDepth
      /\ min_depth \in Nat /\ DeepestDepth \in Nat
      /\ max_depth \in Nat /\ next_queue_id \in Nat /\ min_depth' = min_depth
  BY DepthAssumption DEF IInv, Shelf, min_depth
<1>2. /\ max_depth' = top /\ max_depth_margin' = MarginAfter(depth)
      /\ allocated' = IF max_depth_margin' # max_depth_margin THEN max_depth_margin' ELSE allocated
      /\ next_queue_id' = next_queue_id + (top - max_depth)
      /\ ps = ShelfInsert(g, slot, x)
      /\ gs = FilesAfterInsert(g[slot], files)
      /\ stats' = StatsInsert(stats) /\ given' = given
  BY DEF InsertAtDepth, ShelfInsert
<1>3. /\ top \in Nat /\ max_depth <= top /\ depth <= top
      /\ top = max_depth \/ top = depth
      /\ DOMAIN g = 0..(top - min_depth) /\ DOMAIN queues_by_depth \subseteq DOMAIN g
      /\ ShelfInv(g, files, next_queue_id + (top - max_depth))
      /\ \A s \in DOMAIN queues_by_depth : g[s] = queues_by_depth[s]
      /\ \A s \in DOMAIN g \ DOMAIN queues_by_depth : NumItems(g[s]) = 0 /\ Contents(g[s], files) = <<>>
      /\ Held(g) = Held(queues_by_depth)
  BY <1>1, ShelfGrows
<1>4. slot \in Nat /\ slot \in DOMAIN g
  BY <1>1, <1>3
<1> HIDE DEF g, top
<1>5. /\ ShelfInv(ps, gs, next_queue_id')
      /\ Contents(ps[slot], gs) = Append(Contents(g[slot], files), x)
      /\ \A t \in DOMAIN g : t # slot => Contents(ps[t], gs) = Contents(g[t], files)
      /\ NumItems(ps[slot]) = NumItems(g[slot]) + 1
  <2>1. next_queue_id' \in Nat /\ ShelfInv(g, files, next_queue_id')
    <3>1. next_queue_id + (top - max_depth) \in Nat
      BY <1>1, <1>3
    <3> QED
      BY <1>2, <1>3, <3>1
  <2> DEFINE r == ShelfInsert(g, slot, x)
             h == FilesAfterInsert(g[slot], files)
  <2>2. /\ ShelfInv(r, h, next_queue_id')
        /\ Contents(r[slot], h) = Append(Contents(g[slot], files), x)
        /\ \A t \in DOMAIN g : t # slot => Contents(r[t], h) = Contents(g[t], files)
        /\ NumItems(r[slot]) = NumItems(g[slot]) + 1
    <3> HIDE DEF slot
    <3>1. slot \in DOMAIN g /\ x \in Items
      BY <1>4
    <3> QED
      BY ONLY <2>1, <3>1, ShelfAfterInsert
  <2> HIDE DEF r, h
  <2> QED
    BY <1>2, <2>2 DEF r, h
<1>6. DOMAIN ps = DOMAIN g /\ \A t \in DOMAIN g : t # slot => ps[t] = g[t]
  BY <1>2 DEF ShelfInsert
<1>7. Shelf'
  BY <1>1, <1>2, <1>3, <1>5, <1>6 DEF Shelf
<1>8. ArrayInv'
  <2>1. /\ MarginAfter(depth) \in Nat /\ top < MarginAfter(depth)
        /\ max_depth_margin <= MarginAfter(depth)
    BY <1>1, MarginAfterGrows DEF ArrayInv, top
  <2> QED
    BY <1>1, <1>2, <1>3, <2>1 DEF ArrayInv
<1>9. CountInv'
  <2>1. NumItems(g[slot]) \in Nat
    BY <1>3, <1>4, ShelfNumbers
  <2>2. IsFiniteSet(Held(g)) /\ stats.num_items_in_queue = Cardinality(Held(g)) /\ stats \in Stats
    BY <1>1, <1>3 DEF CountInv
  <2>3. IsFiniteSet(Held(ps)) /\ Cardinality(Held(ps)) = Cardinality(Held(g)) + 1
    BY <1>4, <1>5, <1>6, <2>1, <2>2, HeldAfterInsert
  <2>4. stats' \in Stats /\ stats'.num_items_in_queue = stats.num_items_in_queue + 1
    BY <1>2, <2>2, StatsCount
  <2> QED
    BY <2>2, <2>3, <2>4 DEF CountInv
<1>10. GivenInv'
  BY <1>1, <1>2, <1>3 DEF GivenInv
<1>11. Seen(ps, gs) = [Seen(queues_by_depth, files) EXCEPT ![depth] = Append(@, x)]
  <2>1. Seen(g, files) = Seen(queues_by_depth, files)
    BY <1>3, SeenGrows
  <2>2. Seen(ps, gs) = [Seen(g, files) EXCEPT ![slot + min_depth] = Append(Contents(g[slot], files), x)]
    <3>1. Seen(ps, gs) = [Seen(g, files) EXCEPT ![slot + min_depth] = Contents(ps[slot], gs)]
      BY <1>1, <1>4, <1>5, <1>6, SeenChange
    <3> QED
      BY <1>5, <3>1
  <2>3. slot + min_depth = depth
    BY <1>1
  <2>4. Seen(g, files)[depth] = Contents(g[slot], files)
    BY <1>4 DEF Seen
  <2> HIDE DEF slot
  <2> QED
    BY <2>1, <2>2, <2>3, <2>4
<1> QED
  BY <1>7, <1>8, <1>9, <1>10, <1>11 DEF IInv

\* The queue is empty exactly if its queues all are.
LEMMA EmptyAll ==
    ASSUME IInv
    PROVE  /\ \A s \in Slots : IsEmpty(queues_by_depth[s].stats) <=> NumItems(queues_by_depth[s]) = 0
           /\ IsEmpty(stats) <=> NonEmpty = {}
<1> USE DEF Slots
<1>1. /\ \A s \in Slots : NumItems(queues_by_depth[s]) \in Nat
      /\ IsFiniteSet(Held(queues_by_depth)) /\ stats.num_items_in_queue = Cardinality(Held(queues_by_depth))
  BY ShelfNumbers DEF IInv, Shelf, CountInv
<1>2. IsEmpty(stats) <=> \A s \in Slots : NumItems(queues_by_depth[s]) = 0
  BY <1>1, NoneHeld DEF IsEmpty
<1>3. \A s \in Slots : IsEmpty(queues_by_depth[s].stats) <=> NumItems(queues_by_depth[s]) = 0
  BY DEF IsEmpty, NumItems
<1> QED
  BY <1>2, <1>3 DEF NonEmpty

\* An empty queue has no contents.
LEMMA EmptyContents ==
    ASSUME NEW q, NEW fs, NumItems(q) = 0
    PROVE  Contents(q, fs) = <<>>
BY ContentsByPlace

\* fcs_depth_multi_queue__extract() keeps the invariant, and takes what DepthFifo lets it take:
\* the oldest item of the first depth that holds any.
LEMMA ExtractStep ==
    ASSUME IInv, ExtractFirst
    PROVE  IInv' /\ \E d \in min_depth..DeepestDepth :
              /\ Seen(queues_by_depth, files)[d] # <<>>
              /\ \A e \in min_depth..DeepestDepth : e < d => Seen(queues_by_depth, files)[e] = <<>>
              /\ given' = <<d, Head(Seen(queues_by_depth, files)[d])>>
              /\ Seen(queues_by_depth', files')
                    = [Seen(queues_by_depth, files) EXCEPT ![d] = Tail(@)]
<1> USE DEF Slots
<1> DEFINE qs == queues_by_depth
           slot == Min(NonEmpty)
           q == qs[slot]
           d == slot + min_depth
           ps == queues_by_depth'
           gs == files'
<1>1. /\ Shelf /\ ArrayInv /\ CountInv /\ GivenInv
      /\ min_depth \in Nat /\ DeepestDepth \in Nat /\ max_depth \in Nat /\ min_depth <= max_depth
      /\ next_queue_id \in Nat /\ DOMAIN qs = 0..(max_depth - min_depth)
      /\ ShelfInv(qs, files, next_queue_id)
  BY DepthAssumption DEF IInv, Shelf, min_depth
<1>2. /\ ~IsEmpty(stats) /\ given' = <<d, Extracted(q, files)>>
      /\ ps = ShelfExtract(qs, slot, files)
      /\ gs = FilesAfterExtract(q, files)
      /\ stats' = StatsExtract(stats)
      /\ UNCHANGED <<max_depth, max_depth_margin, allocated, next_queue_id>>
  BY DEF ExtractFirst, ShelfExtract
<1>3. /\ slot \in NonEmpty /\ \A s \in NonEmpty : slot <= s
  <2>1. NonEmpty \in SUBSET Nat /\ NonEmpty # {}
    BY <1>1, <1>2, EmptyAll DEF NonEmpty
  <2> QED
    BY <2>1, MinIsLeast
<1>4. /\ slot \in DOMAIN qs /\ slot \in Nat /\ ~IsEmpty(q.stats)
      /\ NumItems(q) \in Nat \ {0}
      /\ \A s \in DOMAIN qs : s < slot => NumItems(qs[s]) = 0
  <2>1. slot \in DOMAIN qs /\ slot \in Nat /\ ~IsEmpty(q.stats)
    BY <1>1, <1>3 DEF NonEmpty
  <2>2. NumItems(q) \in Nat \ {0}
    BY <1>1, <2>1, ShelfNumbers, EmptyAll
  <2>3. ASSUME NEW s \in DOMAIN qs, s < slot PROVE NumItems(qs[s]) = 0
    <3>1. s \notin NonEmpty
      BY <1>1, <1>3, <2>1, <2>3
    <3> QED
      BY <3>1, EmptyAll DEF NonEmpty
  <2> QED
    BY <2>1, <2>2, <2>3
<1> HIDE DEF slot
<1>5. /\ ShelfInv(ps, gs, next_queue_id)
      /\ Contents(q, files) \in Seq(Items) \ {<<>>}
      /\ Extracted(q, files) = Head(Contents(q, files))
      /\ Contents(ps[slot], gs) = Tail(Contents(q, files))
      /\ \A t \in DOMAIN qs : t # slot => Contents(ps[t], gs) = Contents(qs[t], files)
      /\ NumItems(ps[slot]) = NumItems(q) - 1
  <2> DEFINE ns == ShelfExtract(qs, slot, files)
             fs == FilesAfterExtract(q, files)
  <2>1. next_queue_id \in Nat /\ ShelfInv(qs, files, next_queue_id)
    BY <1>1
  <2>2. /\ ShelfInv(ns, fs, next_queue_id)
        /\ Contents(q, files) \in Seq(Items) \ {<<>>}
        /\ Extracted(q, files) = Head(Contents(q, files))
        /\ Contents(ns[slot], fs) = Tail(Contents(q, files))
        /\ \A t \in DOMAIN qs : t # slot => Contents(ns[t], fs) = Contents(qs[t], files)
        /\ NumItems(ns[slot]) = NumItems(q) - 1
    BY ONLY <1>4, <2>1, ShelfAfterExtract
  <2>3. ps = ns /\ gs = fs
    BY <1>2
  <2> QED
    BY ONLY <2>2, <2>3, Zenon
<1>6. DOMAIN ps = DOMAIN qs /\ \A t \in DOMAIN qs : t # slot => ps[t] = qs[t]
  BY <1>2 DEF ShelfExtract
<1>7. Shelf'
  BY <1>1, <1>2, <1>5, <1>6 DEF Shelf
<1>8. ArrayInv'
  BY <1>1, <1>2 DEF ArrayInv
<1>9. CountInv'
  <2>1. IsFiniteSet(Held(qs)) /\ stats.num_items_in_queue = Cardinality(Held(qs)) /\ stats \in Stats
    BY <1>1 DEF CountInv
  <2>2. IsFiniteSet(Held(ps)) /\ Cardinality(Held(ps)) = Cardinality(Held(qs)) - 1
    BY <1>4, <1>5, <1>6, <2>1, HeldAfterExtract
  <2>3. stats' \in Stats /\ stats'.num_items_in_queue = stats.num_items_in_queue - 1
    BY <1>2, <2>1, StatsCount
  <2> QED
    BY <2>1, <2>2, <2>3 DEF CountInv
<1>10. d \in min_depth..max_depth /\ d \in min_depth..DeepestDepth
  BY <1>1, <1>4 DEF ArrayInv
<1>11. GivenInv'
  <2>1. Head(Contents(q, files)) \in Items
    BY <1>5
  <2>2. given' \in (min_depth..max_depth) \X Items
    BY <1>2, <1>5, <1>10, <2>1
  <2> QED
    BY <1>2, <2>2 DEF GivenInv, min_depth
<1>12. Seen(qs, files)[d] = Contents(q, files)
  <2>1. d - min_depth = slot
    BY <1>1, <1>4
  <2> QED
    BY <1>4, <1>10, <2>1 DEF Seen
<1>13. ASSUME NEW e \in min_depth..DeepestDepth, e < d PROVE Seen(qs, files)[e] = <<>>
  <2>1. e - min_depth < slot
    BY <1>1, <1>4, <1>13
  <2>2. e - min_depth \in DOMAIN qs => NumItems(qs[e - min_depth]) = 0
    BY <1>4, <2>1
  <2>3. e - min_depth \in DOMAIN qs => Contents(qs[e - min_depth], files) = <<>>
    BY <2>2, EmptyContents
  <2> QED
    BY <2>3 DEF Seen
<1>14. Seen(ps, gs) = [Seen(qs, files) EXCEPT ![d] = Tail(Contents(q, files))]
  <2>1. Seen(ps, gs) = [Seen(qs, files) EXCEPT ![slot + min_depth] = Contents(ps[slot], gs)]
    <3>1. /\ slot \in Nat /\ slot \in DOMAIN qs /\ DOMAIN ps = DOMAIN qs /\ min_depth \in Nat
          /\ \A t \in DOMAIN qs : t # slot => Contents(ps[t], gs) = Contents(qs[t], files)
      BY <1>1, <1>4, <1>5, <1>6
    <3> HIDE DEF qs
    <3> QED
      BY ONLY <3>1, SeenChange
  <2> QED
    BY <1>5, <2>1
<1> HIDE DEF q, d, qs
<1>15. IInv'
  BY <1>7, <1>8, <1>9, <1>11 DEF IInv
<1>16. /\ Seen(qs, files)[d] # <<>>
       /\ given' = <<d, Head(Seen(qs, files)[d])>>
       /\ Seen(ps, gs) = [Seen(qs, files) EXCEPT ![d] = Tail(@)]
  BY <1>2, <1>5, <1>12, <1>14
<1> QED
  BY <1>10, <1>13, <1>15, <1>16 DEF qs

-----------------------------------------------------------------------------
(***************************************************************************)
(* The theorems.                                                           *)
(***************************************************************************)
\* Each step keeps the invariant, and is one of DepthFifo or changes nothing
\* of what that sees.
LEMMA StepInv == IInv /\ [QueueNext]_queueVars => IInv' /\ [Fifo!Next]_(Fifo!vars)
<1> SUFFICES ASSUME IInv, [QueueNext]_queueVars PROVE IInv' /\ [Fifo!Next]_(Fifo!vars)
  OBVIOUS
<1> USE DEF Slots
<1> DEFINE fifo == Seen(queues_by_depth, files)
           D == min_depth..DeepestDepth
<1>1. CASE \E depth \in D, x \in Items : InsertAtDepth(depth, x)
  <2>1. PICK depth \in D, x \in Items : InsertAtDepth(depth, x)
    BY <1>1
  <2>2. IInv' /\ Seen(queues_by_depth', files') = [fifo EXCEPT ![depth] = Append(@, x)]
    BY <2>1, InsertStep
  <2>3. UNCHANGED given
    BY <2>1 DEF InsertAtDepth
  <2>4. Fifo!Insert
    BY <2>2, <2>3 DEF Fifo!Insert, Seen, min_depth
  <2> QED
    BY <2>2, <2>4 DEF Fifo!Next
<1>2. CASE ExtractFirst
  <2>1. IInv' /\ \E d \in D :
              /\ fifo[d] # <<>>
              /\ \A e \in D : e < d => fifo[e] = <<>>
              /\ given' = <<d, Head(fifo[d])>>
              /\ Seen(queues_by_depth', files') = [fifo EXCEPT ![d] = Tail(@)]
    BY <1>2, ExtractStep
  <2>2. Fifo!Extract
    BY <2>1 DEF Fifo!Extract, Seen, min_depth
  <2> QED
    BY <2>1, <2>2 DEF Fifo!Next
<1>3. CASE ExtractNothing
  <2>1. /\ IsEmpty(stats) /\ given' = Nothing
        /\ UNCHANGED <<stats, max_depth, max_depth_margin, queues_by_depth,
                       allocated, next_queue_id, files>>
    BY <1>3 DEF ExtractNothing
  <2>2. \A s \in Slots : Contents(queues_by_depth[s], files) = <<>>
    BY <2>1, EmptyAll, EmptyContents DEF NonEmpty
  <2>3. \A d \in D : fifo[d] = <<>>
    BY <2>2 DEF Seen
  <2>4. fifo' = fifo
    BY <2>1 DEF Seen, min_depth
  <2>5. Fifo!ExtractNothing
    BY <2>1, <2>3, <2>4 DEF Fifo!ExtractNothing, Seen, min_depth
  <2>6. IInv'
    BY <2>1 DEF IInv, Shelf, ArrayInv, CountInv, GivenInv, min_depth
  <2> QED
    BY <2>5, <2>6 DEF Fifo!Next
<1>4. CASE UNCHANGED queueVars
  <2>1. UNCHANGED <<stats, max_depth, max_depth_margin, queues_by_depth,
                    allocated, next_queue_id, files, given>>
    BY <1>4 DEF queueVars
  <2>2. IInv'
    BY <2>1 DEF IInv, Shelf, ArrayInv, CountInv, GivenInv, min_depth
  <2>3. UNCHANGED Fifo!vars
    BY <2>1 DEF Fifo!vars, min_depth
  <2> QED
    BY <2>2, <2>3
<1> QED
  BY <1>1, <1>2, <1>3, <1>4 DEF QueueNext

\* The directory holds the pages between the one that a queue reads and the one
\* it writes and no others, none of them another queue's, there is a spare buffer
\* exactly when one page serves for both, and every queue lies in the memory that
\* the array has grown to (fcs_offloading_queue__insert() and __extract(),
\* fcs_depth_multi_queue__insert() and __extract()).
THEOREM DirectoryIsExact == QueueSpec => []DirectoryExact
<1>1. QueueInit => IInv
  BY InitInv
<1>2. IInv /\ [QueueNext]_queueVars => IInv'
  BY StepInv
<1>3. IInv => DirectoryExact
  BY InvIsEnough
<1> QED
  BY <1>1, <1>2, <1>3, PTL DEF QueueSpec

\* Pages, files and the array that grows implement a first-in first-out queue
\* for each depth: what is inserted comes out once, in order, from the shallowest
\* depth that has any, and an extraction fails only if there is none.
THEOREM QueueImplementsFifo == QueueSpec => ImplementsFifo
<1>1. QueueInit => IInv /\ Fifo!Init
  BY InitInv
<1>2. IInv /\ [QueueNext]_queueVars => IInv' /\ [Fifo!Next]_(Fifo!vars)
  BY StepInv
<1> QED
  BY <1>1, <1>2, PTL DEF QueueSpec, ImplementsFifo, Fifo!Spec
=============================================================================
