--------------------------- MODULE FrontEndProofs ---------------------------
(***************************************************************************)
(* Theorems about the programs that drive the solver from outside.  The    *)
(* first part is about those that solve a range of deals with threads,     *)
(* with child processes, and one after the other with restarts, for any    *)
(* range, any batch size, any number of workers, any size of the buffer    *)
(* and any number of iterations of each board.  The second is about the    *)
(* search by fully connected components, for any positions and components, *)
(* any number of threads and any number of kills.  The third is about the  *)
(* depth-first search that is started again from its log, for any          *)
(* positions, any cache of two places or more and any number of kills.     *)
(***************************************************************************)
EXTENDS RangePrograms, SplitFcc, PseudoDfs, FiniteSetTheorems, SequenceTheorems, WellFoundedInduction, TLAPS

-----------------------------------------------------------------------------
(***************************************************************************)
(* Sums of iterations.  SumOver is a recursive function over the boards:   *)
(* that it exists, and what it computes, follow step by step along the     *)
(* boards.                                                                 *)
(***************************************************************************)
\* A set of numbers that holds the first of an interval and goes on to the
\* next one holds the interval.
LEMMA StepByStep ==
    ASSUME NEW m \in Nat, NEW S, 0 \in S, \A i \in 0..(m - 1) : i \in S => i + 1 \in S
    PROVE  \A i \in 0..m : i \in S
<1> DEFINE T == (0..m) \ S
           R == OpToRel(<, Nat)
<1> SUFFICES ASSUME T # {} PROVE FALSE
  OBVIOUS
<1>1. PICK d \in T : \A e \in T : ~(<<e, d>> \in R)
  <2>1. IsWellFoundedOn(R, Nat)
    BY NatLessThanWellFounded
  <2>2. T \in SUBSET Nat /\ T # {}
    OBVIOUS
  <2> HIDE DEF T
  <2> QED
    BY <2>1, <2>2, WFMin
<1>2. \A e \in T : ~(e < d)
  <2>1. T \subseteq Nat
    OBVIOUS
  <2> HIDE DEF T
  <2> QED
    BY <1>1, <2>1 DEF OpToRel
<1>3. d # 0 /\ d \in 0..m /\ d \notin S
  OBVIOUS
<1>4. d - 1 \in 0..(m - 1) /\ d - 1 \notin T
  BY <1>2, <1>3
<1>5. d - 1 \in S
  BY <1>4
<1> QED
  BY <1>3, <1>4, <1>5

\* f is the sum of the boards in bs up to each number.
SumsUpTo(f, bs, m) ==
    f = [b \in 0..m |-> IF b = 0 THEN 0 ELSE f[b - 1] + (IF b \in bs THEN Iters[b] ELSE 0)]

\* There are such sums: each follows from the one before it.
LEMMA SumsExist ==
    ASSUME NEW bs, NEW m \in Nat
    PROVE  \E f : SumsUpTo(f, bs, m)
<1> DEFINE S == {n \in 0..m : \E f : SumsUpTo(f, bs, n)}
           Of(b) == IF b \in bs THEN Iters[b] ELSE 0
<1>1. 0 \in S
  <2>1. SumsUpTo([b \in 0..0 |-> 0], bs, 0)
    BY DEF SumsUpTo
  <2> QED
    BY <2>1
<1>2. ASSUME NEW i \in 0..(m - 1), i \in S
      PROVE  i + 1 \in S
  <2>1. PICK f : SumsUpTo(f, bs, i)
    BY <1>2
  <2> DEFINE g == [b \in 0..(i + 1) |-> IF b = i + 1 THEN f[i] + Of(b) ELSE f[b]]
  <2> HIDE DEF Of
  <2>2. \A b \in 0..i : f[b] = IF b = 0 THEN 0 ELSE f[b - 1] + Of(b)
    BY <2>1 DEF SumsUpTo, Of
  <2>3. \A b \in 0..(i + 1) : g[b] = IF b = 0 THEN 0 ELSE g[b - 1] + Of(b)
    <3> SUFFICES ASSUME NEW b \in 0..(i + 1)
                 PROVE  g[b] = IF b = 0 THEN 0 ELSE g[b - 1] + Of(b)
      OBVIOUS
    <3>1. CASE b = i + 1
      BY <3>1
    <3>2. CASE b # i + 1
      BY <2>2, <3>2
    <3> QED
      BY <3>1, <3>2
  <2>4. SumsUpTo(g, bs, i + 1)
    BY <2>3 DEF SumsUpTo, Of
  <2> QED
    BY <2>4
<1> HIDE DEF S
<1>3. m \in S
  BY <1>1, <1>2, StepByStep
<1> QED
  BY <1>3 DEF S

\* SumOver is the last of those sums.
LEMMA SumIsLast ==
    ASSUME NEW bs
    PROVE  \E f : SumsUpTo(f, bs, EndBoard) /\ SumOver(bs) = f[EndBoard]
<1> DEFINE R(f) == f = [b \in 0..EndBoard |->
                          IF b = 0 THEN 0 ELSE f[b - 1] + (IF b \in bs THEN Iters[b] ELSE 0)]
<1>1. SumOver(bs) = (CHOOSE f : R(f))[EndBoard]
  BY Zenon DEF SumOver
<1>2. \E f : R(f)
  <2>1. PICK f : SumsUpTo(f, bs, EndBoard)
    BY SumsExist, RangeAssumption
  <2>2. R(f)
    BY <2>1 DEF SumsUpTo
  <2> QED
    BY <2>2
<1>3. R(CHOOSE f : R(f))
  <2> HIDE DEF R
  <2> QED
    BY <1>2
<1>4. SumsUpTo((CHOOSE f : R(f)), bs, EndBoard)
  BY <1>3, Zenon DEF SumsUpTo
<1> HIDE DEF R
<1> QED
  BY <1>1, <1>4

\* A sum is a number, that of no boards is 0, ...
LEMMA SumOfNone == SumOver({}) = 0
<1>1. PICK f : SumsUpTo(f, {}, EndBoard) /\ SumOver({}) = f[EndBoard]
  BY SumIsLast
<1>2. \A b \in 0..EndBoard : f[b] = IF b = 0 THEN 0 ELSE f[b - 1] + 0
  BY <1>1 DEF SumsUpTo
<1> DEFINE S == {b \in 0..EndBoard : f[b] = 0}
<1>3. EndBoard \in Nat
  BY RangeAssumption
<1>4. 0 \in S
  BY <1>2, <1>3
<1>5. ASSUME NEW i \in 0..(EndBoard - 1), i \in S PROVE i + 1 \in S
  <2>1. i + 1 \in 0..EndBoard /\ i + 1 # 0 /\ (i + 1) - 1 = i
    BY <1>3
  <2> QED
    BY <1>2, <1>5, <2>1
<1> HIDE DEF S
<1>6. EndBoard \in S
  BY <1>3, <1>4, <1>5, StepByStep
<1> QED
  BY <1>1, <1>6 DEF S

\* ... that of one is its iterations, ...
LEMMA SumOfOne ==
    ASSUME NEW d \in Boards
    PROVE  SumOver({d}) = Iters[d]
<1>1. PICK f : SumsUpTo(f, {d}, EndBoard) /\ SumOver({d}) = f[EndBoard]
  BY SumIsLast
<1>2. \A b \in 0..EndBoard : f[b] = IF b = 0 THEN 0
                                    ELSE f[b - 1] + (IF b = d THEN Iters[d] ELSE 0)
  BY <1>1 DEF SumsUpTo
<1> DEFINE S == {b \in 0..EndBoard : f[b] = IF b < d THEN 0 ELSE Iters[d]}
<1>3. EndBoard \in Nat /\ d \in 1..EndBoard /\ Iters[d] \in Nat
  BY RangeAssumption DEF Boards
<1>4. 0 \in S
  BY <1>2, <1>3
<1>5. ASSUME NEW i \in 0..(EndBoard - 1), i \in S PROVE i + 1 \in S
  BY <1>2, <1>3, <1>5
<1> HIDE DEF S
<1>6. EndBoard \in S
  BY <1>3, <1>4, <1>5, StepByStep
<1> QED
  BY <1>1, <1>3, <1>6 DEF S

\* ... and boards that are in two sets are counted in either.
LEMMA SumOfBoth ==
    ASSUME NEW A \in SUBSET Boards, NEW B \in SUBSET Boards, A \cap B = {}
    PROVE  /\ SumOver(A) \in Nat /\ SumOver(B) \in Nat
           /\ SumOver(A \cup B) = SumOver(A) + SumOver(B)
<1>1. PICK f : SumsUpTo(f, A, EndBoard) /\ SumOver(A) = f[EndBoard]
  BY SumIsLast
<1>2. PICK g : SumsUpTo(g, B, EndBoard) /\ SumOver(B) = g[EndBoard]
  BY SumIsLast
<1>3. PICK h : SumsUpTo(h, A \cup B, EndBoard) /\ SumOver(A \cup B) = h[EndBoard]
  BY SumIsLast
<1> DEFINE S == {b \in 0..EndBoard : f[b] \in Nat /\ g[b] \in Nat /\ h[b] = f[b] + g[b]}
           Of(b, bs) == IF b \in bs THEN Iters[b] ELSE 0
<1>4. EndBoard \in Nat /\ \A b \in Boards : Iters[b] \in Nat
  BY RangeAssumption
<1>5. \A b \in 0..EndBoard : /\ f[b] = IF b = 0 THEN 0 ELSE f[b - 1] + Of(b, A)
                             /\ g[b] = IF b = 0 THEN 0 ELSE g[b - 1] + Of(b, B)
                             /\ h[b] = IF b = 0 THEN 0 ELSE h[b - 1] + Of(b, A \cup B)
  BY <1>1, <1>2, <1>3 DEF SumsUpTo
<1>6. \A b : /\ Of(b, A) \in Nat /\ Of(b, B) \in Nat
             /\ Of(b, A \cup B) = Of(b, A) + Of(b, B)
  BY <1>4
<1> HIDE DEF Of
<1>7. 0 \in S
  BY <1>4, <1>5
<1>8. ASSUME NEW i \in 0..(EndBoard - 1), i \in S PROVE i + 1 \in S
  <2>1. i + 1 \in 0..EndBoard /\ i + 1 # 0 /\ (i + 1) - 1 = i
    BY <1>4
  <2>2. /\ f[i + 1] = f[i] + Of(i + 1, A) /\ g[i + 1] = g[i] + Of(i + 1, B)
        /\ h[i + 1] = h[i] + Of(i + 1, A \cup B)
    BY <1>5, <2>1
  <2> QED
    BY <1>6, <1>8, <2>1, <2>2
<1> HIDE DEF S
<1>9. EndBoard \in S
  BY <1>4, <1>7, <1>8, StepByStep
<1> QED
  BY <1>1, <1>2, <1>3, <1>9 DEF S

\* One more board.
LEMMA SumWithOne ==
    ASSUME NEW A \in SUBSET Boards, NEW d \in Boards, d \notin A
    PROVE  SumOver(A) \in Nat /\ SumOver(A \cup {d}) = SumOver(A) + Iters[d]
<1>1. {d} \in SUBSET Boards /\ A \cap {d} = {}
  OBVIOUS
<1> QED
  BY <1>1, SumOfBoth, SumOfOne

-----------------------------------------------------------------------------
(***************************************************************************)
(* Threads.  Held(w) is what thread w has taken and not solved; batches do *)
(* not overlap and lie below the counter.  by[b] is the thread that solved *)
(* b, 0 if none has: what a thread counts is the sum over its boards, and  *)
(* the total the sum over those of the threads that were joined.           *)
(***************************************************************************)
RangeThreads == 1..Threads
WorkerState == [pc : {"take", "solve", "done"}, board_num : Nat, quota_end : Nat,
                num_iters : Nat]

Held(w) == IF worker[w].pc = "solve" THEN worker[w].board_num..(worker[w].quota_end - 1)
           ELSE {}

ThreadedType ==
    /\ next_board_num \in Nat /\ next_board_num >= StartBoard
    /\ worker \in [RangeThreads -> WorkerState]
    /\ joined \in 0..Threads
    /\ total_num_iters \in Nat
    /\ plan_error \in BOOLEAN
    /\ solved \in [Boards -> Nat]

BatchesInv ==
    /\ \A w \in RangeThreads : worker[w].pc = "solve" =>
          /\ StartBoard <= worker[w].board_num /\ worker[w].board_num <= next_board_num
          /\ worker[w].quota_end <= next_board_num /\ worker[w].quota_end <= PastEnd
          /\ worker[w].board_num <= worker[w].quota_end \/ worker[w].board_num >= PastEnd
    /\ \A v, w \in RangeThreads : v # w => Held(v) \cap Held(w) = {}
    /\ \A w \in RangeThreads : worker[w].pc = "done" /\ ~plan_error => next_board_num >= PastEnd
    /\ \A w \in 1..joined : worker[w].pc = "done"

SolvedBy(who, ws) == {b \in Boards : who[b] \in ws}

CountedInv ==
    IF plan_error THEN \A b \in Boards : solved[b] = 0
    ELSE \E who \in [Boards -> 0..Threads] :
            /\ \A b \in Boards : solved[b] = IF who[b] = 0 THEN 0 ELSE 1
            /\ \A b \in Boards : who[b] = 0 <=>
                  b >= next_board_num \/ \E w \in RangeThreads : b \in Held(w)
            /\ \A w \in RangeThreads : worker[w].num_iters = SumOver(SolvedBy(who, {w}))
            /\ total_num_iters = SumOver(SolvedBy(who, 1..joined))

ThreadedInv == ThreadedType /\ BatchesInv /\ CountedInv

\* Before a thread has started nothing is taken and nothing is solved.
LEMMA InitThreadedInv == ThreadedInit => ThreadedInv
<1> SUFFICES ASSUME ThreadedInit PROVE ThreadedInv
  OBVIOUS
<1> USE DEF ThreadedInit
<1>0. /\ Threads \in Nat \ {0} /\ PlanErrors \subseteq BOOLEAN
      /\ StartBoard \in Nat \ {0} /\ EndBoard \in Nat
  BY RangeAssumption, WorkersAssumption
<1>1. ThreadedType
  BY <1>0 DEF ThreadedType, RangeThreads, WorkerState
<1>2. \A w \in RangeThreads : Held(w) = {} /\ worker[w].pc = "take" /\ worker[w].num_iters = 0
  BY DEF Held, RangeThreads
<1>3. BatchesInv
  BY <1>0, <1>2 DEF BatchesInv
<1>4. CountedInv
  <2> DEFINE who == [b \in Boards |-> 0]
  <2>1. who \in [Boards -> 0..Threads] /\ \A b \in Boards : who[b] = 0
    BY <1>0
  <2>2. \A w \in RangeThreads : SolvedBy(who, {w}) = {}
    BY <1>0 DEF SolvedBy, RangeThreads
  <2>3. SolvedBy(who, 1..joined) = {}
    BY DEF SolvedBy
  <2>4. \A b \in Boards : b >= next_board_num /\ solved[b] = 0
    BY <1>0 DEF Boards
  <2> HIDE DEF who
  <2> QED
    BY <1>2, <2>1, <2>2, <2>3, <2>4, SumOfNone DEF CountedInv
<1> QED
  BY <1>1, <1>3, <1>4 DEF ThreadedInv

\* The records that the steps of a thread leave.
LEMMA BatchTaken ==
    ASSUME worker \in [RangeThreads -> WorkerState], NEW w \in RangeThreads, NEW b \in Nat, NEW q \in Nat,
           worker' = [worker EXCEPT ![w].pc = "solve", ![w].board_num = b, ![w].quota_end = q]
    PROVE  /\ worker' \in [RangeThreads -> WorkerState]
           /\ \A v \in RangeThreads : v # w => worker'[v] = worker[v]
           /\ worker'[w].pc = "solve" /\ worker'[w].board_num = b
           /\ worker'[w].quota_end = q /\ worker'[w].num_iters = worker[w].num_iters
<1>1. worker' \in [RangeThreads -> WorkerState]
  BY ZenonT(60) DEF WorkerState
<1> QED
  BY <1>1, ZenonT(60) DEF WorkerState

\* A thread that goes on to something else has nothing in hand.
LEMMA ThreadMoved ==
    ASSUME worker \in [RangeThreads -> WorkerState], NEW w \in RangeThreads, NEW p \in {"take", "done"},
           worker' = [worker EXCEPT ![w].pc = p]
    PROVE  /\ worker' \in [RangeThreads -> WorkerState]
           /\ \A v \in RangeThreads : v # w => worker'[v] = worker[v]
           /\ worker'[w].pc = p /\ worker'[w].num_iters = worker[w].num_iters
           /\ Held(w)' = {}
<1>1. worker' \in [RangeThreads -> WorkerState]
  BY Zenon DEF WorkerState
<1>2. /\ \A v \in RangeThreads : v # w => worker'[v] = worker[v]
      /\ worker'[w].pc = p /\ worker'[w].num_iters = worker[w].num_iters
  BY <1>1, Zenon DEF WorkerState
<1> QED
  BY <1>1, <1>2 DEF Held

\* What the boards are counted by stays, if no board changes hands.
LEMMA CountsStay ==
    ASSUME CountedInv, UNCHANGED <<next_board_num, joined, total_num_iters, plan_error, solved>>,
           \A v \in RangeThreads : Held(v)' = Held(v) /\ worker'[v].num_iters = worker[v].num_iters
    PROVE  CountedInv'
<1>1. CASE plan_error
  BY <1>1 DEF CountedInv
<1>2. CASE ~plan_error
  <2>1. PICK who \in [Boards -> 0..Threads] :
           /\ \A b \in Boards : solved[b] = IF who[b] = 0 THEN 0 ELSE 1
           /\ \A b \in Boards : who[b] = 0 <=>
                 b >= next_board_num \/ \E v \in RangeThreads : b \in Held(v)
           /\ \A v \in RangeThreads : worker[v].num_iters = SumOver(SolvedBy(who, {v}))
           /\ total_num_iters = SumOver(SolvedBy(who, 1..joined))
    BY <1>2 DEF CountedInv
  <2>2. \A b : (\E v \in RangeThreads : b \in Held(v)') <=> \E v \in RangeThreads : b \in Held(v)
    OBVIOUS
  <2>3. \A b \in Boards : who[b] = 0 <=>
           b >= next_board_num \/ \E v \in RangeThreads : b \in Held(v)'
    BY <2>1, <2>2
  <2> QED
    BY <1>2, <2>1, <2>3 DEF CountedInv
<1> QED
  BY <1>1, <1>2

\* A batch is taken from the counter on, and the counter put behind it.
LEMMA TakeBatchKeeps ==
    ASSUME ThreadedInv, NEW w \in RangeThreads, TakeBatch(w)
    PROVE  ThreadedInv'
<1> DEFINE next == next_board_num + BoardNumStep
           q == Least(next, PastEnd)
<1>0. /\ next_board_num \in Nat /\ next_board_num >= StartBoard /\ BoardNumStep \in Nat \ {0}
      /\ StartBoard \in Nat \ {0} /\ EndBoard \in Nat /\ PastEnd = EndBoard + 1
      /\ worker \in [RangeThreads -> WorkerState] /\ joined \in 0..Threads /\ Threads \in Nat
  BY RangeAssumption, WorkersAssumption DEF ThreadedInv, ThreadedType, PastEnd
<1>q. q \in Nat /\ q <= next /\ q <= PastEnd /\ (q = next \/ q = PastEnd) /\ next \in Nat
      /\ next > next_board_num
  BY <1>0 DEF Least
<1>1. /\ next_board_num' = next /\ worker[w].pc = "take"
      /\ UNCHANGED <<joined, total_num_iters, plan_error, solved>>
      /\ worker' = [worker EXCEPT ![w].pc = "solve", ![w].board_num = next_board_num,
                       ![w].quota_end = q]
  BY DEF TakeBatch
<1> HIDE DEF q, next
<1>2. /\ worker' \in [RangeThreads -> WorkerState]
      /\ \A v \in RangeThreads : v # w => worker'[v] = worker[v]
      /\ worker'[w].pc = "solve" /\ worker'[w].board_num = next_board_num
      /\ worker'[w].quota_end = q /\ worker'[w].num_iters = worker[w].num_iters
  BY <1>0, <1>q, <1>1, BatchTaken
<1>3. ThreadedType'
  BY <1>0, <1>q, <1>1, <1>2 DEF ThreadedInv, ThreadedType
<1>4. /\ \A v \in RangeThreads : v # w => Held(v)' = Held(v)
      /\ Held(w)' = next_board_num..(q - 1) /\ Held(w) = {}
  BY <1>1, <1>2 DEF Held
<1>5. \A v \in RangeThreads : \A b \in Held(v) : b < next_board_num /\ b \in Int
  BY <1>0 DEF ThreadedInv, BatchesInv, Held, WorkerState
<1>6. BatchesInv'
  <2>1. ASSUME NEW v \in RangeThreads, NEW u \in RangeThreads, v # u
        PROVE  Held(v)' \cap Held(u)' = {}
    <3>1. Held(v) \cap Held(u) = {}
      BY <2>1 DEF ThreadedInv, BatchesInv
    <3>2. CASE v = w
      BY <1>0, <1>q, <1>4, <1>5, <2>1, <3>2
    <3>3. CASE u = w
      BY <1>0, <1>q, <1>4, <1>5, <2>1, <3>3
    <3> QED
      BY <1>4, <3>1, <3>2, <3>3
  <2>2. ASSUME NEW v \in RangeThreads, worker'[v].pc = "solve"
        PROVE  /\ StartBoard <= worker'[v].board_num /\ worker'[v].board_num <= next
               /\ worker'[v].quota_end <= next /\ worker'[v].quota_end <= PastEnd
               /\ \/ worker'[v].board_num <= worker'[v].quota_end
                  \/ worker'[v].board_num >= PastEnd
    <3>1. CASE v = w
      BY <1>0, <1>q, <1>2, <3>1
    <3>2. CASE v # w
      BY <1>0, <1>q, <1>2, <2>2, <3>2 DEF ThreadedInv, BatchesInv, WorkerState
    <3> QED
      BY <3>1, <3>2
  <2>3. ASSUME NEW v \in RangeThreads, worker'[v].pc = "done", ~plan_error'
        PROVE  next >= PastEnd
    <3>1. worker[v].pc = "done" /\ ~plan_error
      BY <1>1, <1>2, <2>3
    <3>2. next_board_num >= PastEnd
      BY <3>1 DEF ThreadedInv, BatchesInv
    <3> QED
      BY <1>0, <1>q, <3>2
  <2>4. \A v \in 1..joined : worker'[v].pc = "done"
    BY <1>0, <1>1, <1>2 DEF ThreadedInv, BatchesInv, RangeThreads
  <2>5. PastEnd' = PastEnd
    BY DEF PastEnd
  <2> QED
    BY <1>1, <2>1, <2>2, <2>3, <2>4, <2>5, Zenon DEF BatchesInv
<1>7. CountedInv'
  <2>1. CASE plan_error
    BY <1>1, <2>1 DEF ThreadedInv, CountedInv
  <2>2. CASE ~plan_error
    <3>1. PICK who \in [Boards -> 0..Threads] :
             /\ \A b \in Boards : solved[b] = IF who[b] = 0 THEN 0 ELSE 1
             /\ \A b \in Boards : who[b] = 0 <=>
                   b >= next_board_num \/ \E v \in RangeThreads : b \in Held(v)
             /\ \A v \in RangeThreads : worker[v].num_iters = SumOver(SolvedBy(who, {v}))
             /\ total_num_iters = SumOver(SolvedBy(who, 1..joined))
      BY <2>2 DEF ThreadedInv, CountedInv
    <3>2. \A b \in Boards : b >= next_board_num <=> b >= next \/ b \in Held(w)'
      BY <1>0, <1>q, <1>4 DEF Boards
    <3>3. \A b \in Boards : who[b] = 0 <=>
             b >= next_board_num' \/ \E v \in RangeThreads : b \in Held(v)'
      <4>1. \A b : (\E v \in RangeThreads : b \in Held(v)')
                     <=> b \in Held(w)' \/ \E v \in RangeThreads : b \in Held(v)
        BY <1>4
      <4> QED
        BY <1>1, <3>1, <3>2, <4>1
    <3>4. \A v \in RangeThreads : worker'[v].num_iters = SumOver(SolvedBy(who, {v}))
      BY <1>2, <3>1
    <3> QED
      BY <1>1, <2>2, <3>1, <3>3, <3>4 DEF CountedInv
  <2> QED
    BY <2>1, <2>2
<1> QED
  BY <1>3, <1>6, <1>7 DEF ThreadedInv

\* A board that is solved leaves its batch and is counted by its thread, which
\* main has not joined yet.
LEMMA SolveNextKeeps ==
    ASSUME ThreadedInv, NEW w \in RangeThreads, SolveNext(w), ~plan_error
    PROVE  ThreadedInv'
<1> DEFINE d == worker[w].board_num
<1>0. /\ next_board_num \in Nat /\ StartBoard \in Nat \ {0} /\ EndBoard \in Nat
      /\ PastEnd = EndBoard + 1 /\ PastEnd' = PastEnd
      /\ worker \in [RangeThreads -> WorkerState] /\ joined \in 0..Threads /\ Threads \in Nat
      /\ RangeThreads = 1..Threads /\ solved \in [Boards -> Nat]
  BY RangeAssumption, WorkersAssumption DEF ThreadedInv, ThreadedType, PastEnd, RangeThreads
<1>1. /\ worker[w].pc = "solve" /\ d < worker[w].quota_end
      /\ solved' = [solved EXCEPT ![d] = @ + 1]
      /\ worker' = [worker EXCEPT ![w].board_num = d + 1, ![w].num_iters = @ + Iters[d]]
      /\ UNCHANGED <<next_board_num, joined, total_num_iters, plan_error>>
  BY DEF SolveNext
<1>2. /\ StartBoard <= d /\ worker[w].quota_end <= next_board_num
      /\ worker[w].quota_end <= PastEnd /\ d \in Nat /\ worker[w].quota_end \in Nat
      /\ worker[w].num_iters \in Nat
  BY <1>0, <1>1 DEF ThreadedInv, BatchesInv, WorkerState
<1>3. d \in Boards /\ Iters[d] \in Nat /\ d < next_board_num /\ d \in Held(w)
  <2>1. d < next_board_num /\ d \in Held(w) /\ d \in StartBoard..EndBoard
    BY <1>0, <1>1, <1>2 DEF Held
  <2>2. \A b \in Boards : Iters[b] \in Nat
    BY RangeAssumption
  <2> QED
    BY <2>1, <2>2 DEF Boards
<1>4. /\ worker' \in [RangeThreads -> WorkerState]
      /\ \A v \in RangeThreads : v # w => worker'[v] = worker[v]
      /\ worker'[w].pc = "solve" /\ worker'[w].board_num = d + 1
      /\ worker'[w].quota_end = worker[w].quota_end
      /\ worker'[w].num_iters = worker[w].num_iters + Iters[d]
  <2> DEFINE n == worker[w].num_iters + Iters[d]
  <2>1. n \in Nat /\ d + 1 \in Nat
    BY <1>2, <1>3
  <2>2. worker' = [worker EXCEPT ![w].board_num = d + 1, ![w].num_iters = n]
    BY <1>0, <1>1, Zenon
  <2> DEFINE k == d + 1
  <2> HIDE DEF n, k
  <2>3. /\ worker' \in [RangeThreads -> WorkerState]
        /\ \A v \in RangeThreads : v # w => worker'[v] = worker[v]
        /\ worker'[w].pc = worker[w].pc /\ worker'[w].board_num = k
        /\ worker'[w].quota_end = worker[w].quota_end /\ worker'[w].num_iters = n
    <3>1. k \in Nat /\ n \in Nat /\ worker \in [RangeThreads -> WorkerState]
          /\ worker' = [worker EXCEPT ![w].board_num = k, ![w].num_iters = n]
      BY <1>0, <2>1, <2>2 DEF k
    <3> HIDE DEF d
    <3> QED
      <4>1. worker' \in [RangeThreads -> WorkerState]
        BY <3>1, Zenon DEF WorkerState
      <4> QED
        BY <3>1, <4>1, Zenon DEF WorkerState
  <2> QED
    BY <1>1, <2>3 DEF n, k
<1>5. /\ \A v \in RangeThreads : v # w => Held(v)' = Held(v)
      /\ Held(w)' = Held(w) \ {d}
  BY <1>1, <1>2, <1>4 DEF Held
<1> HIDE DEF d
<1>6. w \notin 1..joined
  BY <1>1 DEF ThreadedInv, BatchesInv
<1>7. ThreadedType'
  BY <1>0, <1>1, <1>3, <1>4 DEF ThreadedInv, ThreadedType
<1>8. BatchesInv'
  <2>1. ASSUME NEW v \in RangeThreads, NEW u \in RangeThreads, v # u
        PROVE  Held(v)' \cap Held(u)' = {}
    <3>1. Held(v) \cap Held(u) = {} /\ Held(v)' \subseteq Held(v) /\ Held(u)' \subseteq Held(u)
      BY <1>5, <2>1 DEF ThreadedInv, BatchesInv
    <3> QED
      BY <3>1
  <2>2. ASSUME NEW v \in RangeThreads, worker'[v].pc = "solve"
        PROVE  /\ StartBoard <= worker'[v].board_num /\ worker'[v].board_num <= next_board_num
               /\ worker'[v].quota_end <= next_board_num /\ worker'[v].quota_end <= PastEnd
               /\ \/ worker'[v].board_num <= worker'[v].quota_end
                  \/ worker'[v].board_num >= PastEnd
    <3>1. CASE v = w
      BY <1>0, <1>1, <1>2, <1>4, <3>1 DEF d
    <3>2. CASE v # w
      BY <1>4, <2>2, <3>2 DEF ThreadedInv, BatchesInv
    <3> QED
      BY <3>1, <3>2
  <2>3. ASSUME NEW v \in RangeThreads, worker'[v].pc = "done", ~plan_error'
        PROVE  next_board_num >= PastEnd
    <3>1. worker[v].pc = "done" /\ ~plan_error
      BY <1>1, <1>4, <2>3
    <3> QED
      BY <3>1 DEF ThreadedInv, BatchesInv
  <2>4. \A v \in 1..joined : worker'[v].pc = "done"
    BY <1>0, <1>4, <1>6 DEF ThreadedInv, BatchesInv
  <2> QED
    BY <1>0, <1>1, <2>1, <2>2, <2>3, <2>4, Zenon DEF BatchesInv
<1>9. CountedInv'
  <2>1. PICK who \in [Boards -> 0..Threads] :
           /\ \A b \in Boards : solved[b] = IF who[b] = 0 THEN 0 ELSE 1
           /\ \A b \in Boards : who[b] = 0 <=>
                 b >= next_board_num \/ \E v \in RangeThreads : b \in Held(v)
           /\ \A v \in RangeThreads : worker[v].num_iters = SumOver(SolvedBy(who, {v}))
           /\ total_num_iters = SumOver(SolvedBy(who, 1..joined))
    BY DEF ThreadedInv, CountedInv
  <2>2. who[d] = 0
    BY <1>3, <2>1
  <2> DEFINE to == [who EXCEPT ![d] = w]
  <2>3. to \in [Boards -> 0..Threads] /\ to[d] = w /\ w # 0
        /\ \A b \in Boards : b # d => to[b] = who[b]
    BY <1>0, <1>3
  <2> HIDE DEF to
  <2>4. \A b \in Boards : solved'[b] = IF to[b] = 0 THEN 0 ELSE 1
    <3> SUFFICES ASSUME NEW b \in Boards PROVE solved'[b] = IF to[b] = 0 THEN 0 ELSE 1
      OBVIOUS
    <3>1. CASE b = d
      BY <1>0, <1>1, <1>3, <2>1, <2>2, <2>3, <3>1
    <3>2. CASE b # d
      BY <1>0, <1>1, <1>3, <2>1, <2>3, <3>2
    <3> QED
      BY <3>1, <3>2
  <2>5. \A b \in Boards : to[b] = 0 <=>
           b >= next_board_num \/ \E v \in RangeThreads : b \in Held(v)'
    <3> SUFFICES ASSUME NEW b \in Boards
                 PROVE  to[b] = 0 <=> b >= next_board_num \/ \E v \in RangeThreads : b \in Held(v)'
      OBVIOUS
    <3>1. CASE b = d
      <4>1. ASSUME NEW v \in RangeThreads PROVE d \notin Held(v)'
        BY <1>3, <1>5 DEF ThreadedInv, BatchesInv
      <4>2. ~(d >= next_board_num)
        BY <1>0, <1>2, <1>3 DEF d
      <4> QED
        BY <2>3, <3>1, <4>1, <4>2
    <3>2. CASE b # d
      <4>1. \A v \in RangeThreads : b \in Held(v)' <=> b \in Held(v)
        BY <1>5, <3>2
      <4> QED
        BY <2>1, <2>3, <3>2, <4>1
    <3> QED
      BY <3>1, <3>2
  <2>6. ASSUME NEW v \in RangeThreads
        PROVE  worker'[v].num_iters = SumOver(SolvedBy(to, {v}))
    <3>1. CASE v = w
      <4>1. /\ SolvedBy(to, {w}) = SolvedBy(who, {w}) \cup {d} /\ d \notin SolvedBy(who, {w})
            /\ SolvedBy(who, {w}) \in SUBSET Boards
        BY <1>3, <2>2, <2>3 DEF SolvedBy
      <4>2. SumOver(SolvedBy(who, {w}) \cup {d}) = SumOver(SolvedBy(who, {w})) + Iters[d]
        BY <1>3, <4>1, SumWithOne
      <4> QED
        BY <1>3, <1>4, <2>1, <3>1, <4>1, <4>2
    <3>2. CASE v # w
      <4>1. SolvedBy(to, {v}) = SolvedBy(who, {v})
        BY <1>0, <1>3, <2>2, <2>3, <3>2 DEF SolvedBy
      <4> QED
        BY <1>4, <2>1, <3>2, <4>1
    <3> QED
      BY <3>1, <3>2
  <2>7. SolvedBy(to, 1..joined) = SolvedBy(who, 1..joined)
    <3>1. 0 \notin 1..joined
      BY <1>0
    <3>2. \A b \in Boards : to[b] \in 1..joined <=> who[b] \in 1..joined
      BY <1>6, <2>2, <2>3, <3>1
    <3> QED
      BY <3>2 DEF SolvedBy
  <2> QED
    BY <1>1, <2>1, <2>3, <2>4, <2>5, <2>6, <2>7, Zenon DEF CountedInv
<1> QED
  BY <1>7, <1>8, <1>9 DEF ThreadedInv

\* A thread whose plan is erroneous leaves at once, one whose batch is solved
\* goes for another or has seen the end of the range.
LEMMA LeavingKeeps ==
    ASSUME ThreadedInv, NEW w \in RangeThreads, BatchDone(w) \/ (SolveNext(w) /\ plan_error)
    PROVE  ThreadedInv'
<1>0. /\ next_board_num \in Nat /\ EndBoard \in Nat
      /\ PastEnd = EndBoard + 1 /\ PastEnd' = PastEnd
      /\ worker \in [RangeThreads -> WorkerState] /\ joined \in 0..Threads
      /\ RangeThreads = 1..Threads /\ Threads \in Nat
  BY RangeAssumption, WorkersAssumption DEF ThreadedInv, ThreadedType, PastEnd, RangeThreads
<1>1. /\ UNCHANGED <<next_board_num, joined, total_num_iters, plan_error, solved>>
      /\ worker[w].pc = "solve"
      /\ \E p \in {"take", "done"} :
            /\ worker' = [worker EXCEPT ![w].pc = p]
            /\ p = "done" /\ ~plan_error => worker[w].board_num >= PastEnd
      /\ ~plan_error => worker[w].board_num >= worker[w].quota_end
  BY <1>0 DEF BatchDone, SolveNext, WorkerState
<1>2. PICK p \in {"take", "done"} :
            /\ worker' = [worker EXCEPT ![w].pc = p]
            /\ p = "done" /\ ~plan_error => worker[w].board_num >= PastEnd
  BY <1>1
<1>3. /\ worker' \in [RangeThreads -> WorkerState]
      /\ \A v \in RangeThreads : v # w => worker'[v] = worker[v] /\ Held(v)' = Held(v)
      /\ worker'[w].pc = p /\ worker'[w].num_iters = worker[w].num_iters
      /\ Held(w)' = {}
  BY <1>0, <1>2, ThreadMoved DEF Held
<1>4. ~plan_error => Held(w) = {}
  BY <1>0, <1>1 DEF Held, WorkerState
<1>5. worker[w].board_num <= next_board_num /\ worker[w].board_num \in Nat
  BY <1>0, <1>1 DEF ThreadedInv, BatchesInv, WorkerState
<1>6. w \notin 1..joined
  BY <1>1 DEF ThreadedInv, BatchesInv
<1>7. ThreadedType'
  BY <1>0, <1>1, <1>3 DEF ThreadedInv, ThreadedType
<1>8. BatchesInv'
  <2>1. ASSUME NEW v \in RangeThreads, NEW u \in RangeThreads, v # u
        PROVE  Held(v)' \cap Held(u)' = {}
    BY <1>3, <2>1 DEF ThreadedInv, BatchesInv
  <2>2. ASSUME NEW v \in RangeThreads, worker'[v].pc = "solve"
        PROVE  /\ StartBoard <= worker'[v].board_num /\ worker'[v].board_num <= next_board_num
               /\ worker'[v].quota_end <= next_board_num /\ worker'[v].quota_end <= PastEnd
               /\ \/ worker'[v].board_num <= worker'[v].quota_end
                  \/ worker'[v].board_num >= PastEnd
    <3>1. worker'[v] = worker[v]
      BY <1>3, <2>2
    <3> QED
      BY <2>2, <3>1 DEF ThreadedInv, BatchesInv
  <2>3. ASSUME NEW v \in RangeThreads, worker'[v].pc = "done", ~plan_error'
        PROVE  next_board_num >= PastEnd
    <3>1. CASE v = w
      BY <1>0, <1>1, <1>2, <1>3, <1>5, <2>3, <3>1
    <3>2. CASE v # w
      BY <1>1, <1>3, <2>3, <3>2 DEF ThreadedInv, BatchesInv
    <3> QED
      BY <3>1, <3>2
  <2>4. \A v \in 1..joined : worker'[v].pc = "done"
    BY <1>0, <1>3, <1>6 DEF ThreadedInv, BatchesInv
  <2> QED
    BY <1>0, <1>1, <2>1, <2>2, <2>3, <2>4, Zenon DEF BatchesInv
<1>9. CountedInv'
  <2>1. CASE plan_error
    BY <1>1, <2>1 DEF ThreadedInv, CountedInv
  <2>2. CASE ~plan_error
    <3>1. /\ \A v \in RangeThreads : Held(v)' = Held(v)
          /\ \A v \in RangeThreads : worker'[v].num_iters = worker[v].num_iters
      BY <1>3, <1>4, <2>2
    <3> QED
      BY <1>1, <3>1, CountsStay DEF ThreadedInv
  <2> QED
    BY <2>1, <2>2
<1> QED
  BY <1>7, <1>8, <1>9 DEF ThreadedInv

\* main adds what the next thread has counted.
LEMMA JoinNextKeeps ==
    ASSUME ThreadedInv, JoinNext
    PROVE  ThreadedInv'
<1> DEFINE w == joined + 1
<1>0. /\ joined \in 0..Threads /\ Threads \in Nat /\ total_num_iters \in Nat
      /\ worker \in [RangeThreads -> WorkerState] /\ RangeThreads = 1..Threads
  BY WorkersAssumption DEF ThreadedInv, ThreadedType, RangeThreads
<1>1. /\ joined < Threads /\ worker[w].pc = "done" /\ joined' = w
      /\ total_num_iters' = total_num_iters + worker[w].num_iters
      /\ UNCHANGED <<next_board_num, worker, plan_error, solved>>
  BY DEF JoinNext
<1>2. w \in RangeThreads /\ w \in 0..Threads /\ 1..w = (1..joined) \cup {w} /\ w \notin 1..joined
  BY <1>0, <1>1
<1> HIDE DEF w
<1>3. worker[w].num_iters \in Nat
  BY <1>0, <1>2 DEF WorkerState
<1>4. ThreadedType'
  BY <1>0, <1>1, <1>2, <1>3 DEF ThreadedInv, ThreadedType
<1>5. \A v \in RangeThreads : Held(v)' = Held(v)
  BY <1>1 DEF Held
<1>6. BatchesInv'
  <2>1. \A v \in 1..w : worker[v].pc = "done"
    BY <1>1, <1>2 DEF ThreadedInv, BatchesInv
  <2>2. PastEnd' = PastEnd
    BY DEF PastEnd
  <2> QED
    BY <1>1, <1>5, <2>1, <2>2, Zenon DEF ThreadedInv, BatchesInv
<1>7. CountedInv'
  <2>1. CASE plan_error
    BY <1>1, <2>1 DEF ThreadedInv, CountedInv
  <2>2. CASE ~plan_error
    <3>1. PICK who \in [Boards -> 0..Threads] :
             /\ \A b \in Boards : solved[b] = IF who[b] = 0 THEN 0 ELSE 1
             /\ \A b \in Boards : who[b] = 0 <=>
                   b >= next_board_num \/ \E v \in RangeThreads : b \in Held(v)
             /\ \A v \in RangeThreads : worker[v].num_iters = SumOver(SolvedBy(who, {v}))
             /\ total_num_iters = SumOver(SolvedBy(who, 1..joined))
      BY <2>2 DEF ThreadedInv, CountedInv
    <3>2. /\ SolvedBy(who, 1..w) = SolvedBy(who, 1..joined) \cup SolvedBy(who, {w})
          /\ SolvedBy(who, 1..joined) \cap SolvedBy(who, {w}) = {}
          /\ SolvedBy(who, 1..joined) \in SUBSET Boards /\ SolvedBy(who, {w}) \in SUBSET Boards
      BY <1>2 DEF SolvedBy
    <3>3. total_num_iters' = SumOver(SolvedBy(who, 1..w))
      <4>1. SumOver(SolvedBy(who, 1..w))
              = SumOver(SolvedBy(who, 1..joined)) + SumOver(SolvedBy(who, {w}))
        BY <3>2, SumOfBoth
      <4> QED
        BY <1>1, <1>2, <3>1, <4>1
    <3> QED
      BY <1>1, <1>5, <2>2, <3>1, <3>3, Zenon DEF CountedInv
  <2> QED
    BY <2>1, <2>2
<1> QED
  BY <1>4, <1>6, <1>7 DEF ThreadedInv

\* ThreadedExact: no board is solved by two threads, and when main has joined
\* them all, each was solved and the total printed is that of all boards.
THEOREM ThreadedRangeIsExact == ThreadedInit /\ [][ThreadedNext]_threadedVars => []ThreadedExact
<1>1. ASSUME ThreadedInv, UNCHANGED threadedVars PROVE ThreadedInv'
  <2>1. /\ UNCHANGED <<next_board_num, worker, joined, total_num_iters, plan_error, solved>>
        /\ \A v \in RangeThreads : Held(v)' = Held(v)
        /\ PastEnd' = PastEnd
    BY <1>1 DEF threadedVars, Held, PastEnd
  <2> QED
    BY <1>1, <2>1, CountsStay DEF ThreadedInv, ThreadedType, BatchesInv
<1>2. ASSUME ThreadedInv, [ThreadedNext]_threadedVars PROVE ThreadedInv'
  BY <1>1, <1>2, TakeBatchKeeps, SolveNextKeeps, LeavingKeeps, JoinNextKeeps
  DEF ThreadedNext, ThreadedWorker, RangeThreads
<1>3. ASSUME ThreadedInv PROVE ThreadedExact
  <2>0. /\ Threads \in Nat \ {0} /\ StartBoard \in Nat /\ EndBoard \in Nat
        /\ RangeThreads = 1..Threads /\ next_board_num \in Nat
    BY <1>3, RangeAssumption, WorkersAssumption DEF ThreadedInv, ThreadedType, RangeThreads
  <2>1. CASE plan_error
    BY <1>3, <2>1 DEF ThreadedInv, CountedInv, ThreadedExact
  <2>2. CASE ~plan_error
    <3>1. PICK who \in [Boards -> 0..Threads] :
             /\ \A b \in Boards : solved[b] = IF who[b] = 0 THEN 0 ELSE 1
             /\ \A b \in Boards : who[b] = 0 <=>
                   b >= next_board_num \/ \E v \in RangeThreads : b \in Held(v)
             /\ total_num_iters = SumOver(SolvedBy(who, 1..joined))
      BY <1>3, <2>2 DEF ThreadedInv, CountedInv
    <3>2. \A b \in Boards : solved[b] <= 1
      BY <3>1
    <3>3. ASSUME joined = Threads
          PROVE  /\ \A b \in Boards : solved[b] = 1
                 /\ total_num_iters = SumOver(Boards)
      <4>1. \A w \in RangeThreads : worker[w].pc = "done"
        BY <1>3, <2>0, <3>3 DEF ThreadedInv, BatchesInv
      <4>2. next_board_num >= EndBoard + 1
        BY <1>3, <2>0, <2>2, <4>1 DEF ThreadedInv, BatchesInv, PastEnd
      <4>3. \A b \in Boards : who[b] # 0
        BY <2>0, <3>1, <4>1, <4>2 DEF Held, Boards
      <4>4. SolvedBy(who, 1..joined) = Boards
        BY <2>0, <3>3, <4>3 DEF SolvedBy
      <4> QED
        BY <3>1, <4>3, <4>4
    <3> QED
      BY <2>2, <3>2, <3>3 DEF ThreadedExact
  <2> QED
    BY <2>1, <2>2
<1> QED
  BY InitThreadedInv, <1>2, <1>3, PTL

-----------------------------------------------------------------------------
(***************************************************************************)
(* Children.  A child has one thing at a time: a request in its pipe, a    *)
(* batch that it solves, or a response.  Handed(c) is what c was given and *)
(* has not solved.  by[b] says who has solved b and not passed it on, 0 if *)
(* it is the master who was told; Nobody has solved it yet if it is ahead  *)
(* of the master or handed to some child.                                  *)
(***************************************************************************)
Batch == [board_num : Nat, quota_end : Nat]
Response == [num_iters : Nat, num_finished_boards : Nat]
AtMostOne(S) == {<<>>} \cup {<<x>> : x \in S}
Nobody == Children + 1

MasterState == [pc : {"start", "loop", "wait", "finished"}, next_board_num : Nat, started : Nat,
                events : SUBSET Child, iters : Nat, finished : Nat, waited : Nat]
ChildState == [pc : {"read", "solve", "gone"}, batch : Batch, iters : Nat, count : Nat]

BatchOf(c) == IF request[c] # <<>> THEN Head(request[c])
              ELSE IF child[c].pc = "solve" THEN child[c].batch ELSE NoBatch
Handed(c) == BatchOf(c).board_num..BatchOf(c).quota_end

ForkingType ==
    /\ master \in MasterState
    /\ master.next_board_num \in StartBoard..(EndBoard + 1)
    /\ master.started \in 0..Children
    /\ request \in [Child -> AtMostOne(Batch)]
    /\ response \in [Child -> AtMostOne(Response)]
    /\ child \in [Child -> ChildState]
    /\ answered \in [Boards -> Nat]

ExchangeInv ==
    /\ \A c \in Child : /\ request[c] = <<>> \/ child[c].pc # "solve"
                        /\ request[c] = <<>> \/ response[c] = <<>>
                        /\ child[c].pc # "solve" \/ response[c] = <<>>
    /\ \A c \in Child : c > master.started =>
          request[c] = <<>> /\ response[c] = <<>> /\ child[c].pc # "solve"
    /\ master.pc \in {"wait", "finished"} => master.finished >= Cardinality(Boards)

HandedInv ==
    /\ \A c \in Child :
          \/ BatchOf(c) = NoBatch
          \/ /\ StartBoard <= BatchOf(c).board_num
             /\ BatchOf(c).board_num <= BatchOf(c).quota_end + 1
             /\ BatchOf(c).quota_end < master.next_board_num
    /\ \A c, d \in Child : c # d => Handed(c) \cap Handed(d) = {}

ChildBooks(who, c) ==
    /\ child[c].pc = "solve" =>
          /\ child[c].iters = SumOver(SolvedBy(who, {c}))
          /\ child[c].count = Cardinality(SolvedBy(who, {c}))
                                + (child[c].batch.quota_end + 1 - child[c].batch.board_num)
    /\ response[c] # <<>> =>
          /\ Head(response[c]).num_iters = SumOver(SolvedBy(who, {c}))
          /\ Head(response[c]).num_finished_boards = Cardinality(SolvedBy(who, {c}))
    /\ child[c].pc # "solve" /\ response[c] = <<>> => SolvedBy(who, {c}) = {}

Books(who) ==
    /\ \A b \in Boards : answered[b] = IF who[b] = Nobody THEN 0 ELSE 1
    /\ \A b \in Boards : who[b] = Nobody <=>
          b >= master.next_board_num \/ \E c \in Child : b \in Handed(c)
    /\ master.iters = SumOver(SolvedBy(who, {0}))
    /\ master.finished = Cardinality(SolvedBy(who, {0}))
    /\ \A c \in Child : ChildBooks(who, c)

BooksInv == \E who \in [Boards -> 0..Nobody] : Books(who)

ForkingInv == ForkingType /\ ExchangeInv /\ HandedInv /\ BooksInv

\* What the assumptions say of the numbers.
LEMMA RangeNumbers ==
    /\ StartBoard \in Nat \ {0} /\ EndBoard \in Nat /\ BoardNumStep \in Nat \ {0}
    /\ StartBoard <= EndBoard /\ Children \in Nat \ {0} /\ Nobody = Children + 1
    /\ Child = 1..Children
BY RangeAssumption, ChildrenAssumption DEF Nobody, Child

\* Sets of boards are finite, and so are their counts.
LEMMA BoardsFinite ==
    /\ IsFiniteSet(Boards)
    /\ \A A \in SUBSET Boards : IsFiniteSet(A) /\ Cardinality(A) \in Nat
<1>1. IsFiniteSet(Boards)
  BY RangeNumbers, FS_Interval DEF Boards
<1>2. ASSUME NEW A \in SUBSET Boards PROVE IsFiniteSet(A) /\ Cardinality(A) \in Nat
  BY <1>1, FS_Subset, FS_CardinalityType
<1> QED
  BY <1>1, <1>2

\* Before the first request no child has a batch.
LEMMA InitForkingInv == ForkingInit => ForkingInv
<1> SUFFICES ASSUME ForkingInit PROVE ForkingInv
  OBVIOUS
<1> USE RangeNumbers DEF ForkingInit
<1>1. ForkingType
  <2>1. master \in MasterState
    BY DEF MasterState
  <2>2. NoBatch \in Batch
    BY DEF Batch, NoBatch
  <2>3. child \in [Child -> ChildState]
    BY <2>2 DEF ChildState
  <2>4. request \in [Child -> AtMostOne(Batch)] /\ response \in [Child -> AtMostOne(Response)]
    BY DEF AtMostOne
  <2>5. master.next_board_num \in StartBoard..(EndBoard + 1) /\ master.started \in 0..Children
    <3>1. master.next_board_num = StartBoard /\ master.started = 0
      OBVIOUS
    <3> QED
      BY <3>1
  <2>6. answered \in [Boards -> Nat]
    OBVIOUS
  <2> QED
    BY <2>1, <2>3, <2>4, <2>5, <2>6, Zenon DEF ForkingType
<1>2. \A c \in Child : request[c] = <<>> /\ response[c] = <<>> /\ child[c].pc = "read"
  OBVIOUS
<1>3. ExchangeInv
  BY <1>2 DEF ExchangeInv
<1>4. \A c \in Child : BatchOf(c) = NoBatch /\ Handed(c) = {}
  BY <1>2 DEF BatchOf, Handed, NoBatch
<1>5. HandedInv
  BY <1>4 DEF HandedInv
<1>6. BooksInv
  <2> DEFINE who == [b \in Boards |-> Nobody]
  <2>1. who \in [Boards -> 0..Nobody] /\ \A b \in Boards : who[b] = Nobody
    OBVIOUS
  <2>2. \A c \in Child : SolvedBy(who, {c}) = {}
    BY DEF SolvedBy
  <2>3. SolvedBy(who, {0}) = {}
    BY DEF SolvedBy
  <2> HIDE DEF who
  <2>4. \A b \in Boards : answered[b] = 0 /\ b >= master.next_board_num
    BY DEF Boards
  <2>5. Cardinality({}) = 0
    BY FS_EmptySet
  <2>6. \A c \in Child : ChildBooks(who, c)
    BY <1>2, <2>2 DEF ChildBooks
  <2>7. Books(who)
    BY <2>1, <2>3, <2>4, <2>5, <2>6, SumOfNone DEF Books
  <2> QED
    BY <2>1, <2>7 DEF BooksInv
<1> QED
  BY <1>1, <1>3, <1>5, <1>6 DEF ForkingInv


-----------------------------------------------------------------------------
\* What a pipe holds.
LEMMA PipeOfOne ==
    ASSUME NEW S, NEW p \in AtMostOne(S), p # <<>>
    PROVE  Head(p) \in S /\ Tail(p) = <<>>
<1>1. PICK x \in S : p = <<x>>
  BY DEF AtMostOne
<1>2. Head(<<x>>) = x /\ Tail(<<x>>) = <<>>
  OBVIOUS
<1> QED
  BY <1>1, <1>2

\* What is written to an empty pipe is what is read from it.
LEMMA PipeFilled ==
    ASSUME NEW S, NEW p, p = <<>>, NEW x \in S
    PROVE  /\ Append(p, x) \in AtMostOne(S) /\ Append(p, x) # <<>>
           /\ Head(Append(p, x)) = x
<1>1. Append(<<>>, x) = <<x>> /\ <<x>> # <<>> /\ Head(<<x>>) = x
  OBVIOUS
<1> QED
  BY <1>1 DEF AtMostOne

\* What the master does when it writes to child c: m is the master so far, and
\* c is given the boards that m has ahead of it and the master afterwards not.
Given(c, from) ==
    /\ master'.next_board_num \in from..(EndBoard + 1)
    /\ \A d \in Child : d # c => request'[d] = request[d]
    /\ child' = child
    /\ \/ BatchOf(c)' = NoBatch /\ master'.next_board_num = from
       \/ /\ BatchOf(c)'.board_num = from
          /\ BatchOf(c)'.quota_end = master'.next_board_num - 1

\* Writing a request gives the child the boards that the master moves past, and
\* changes nothing else of the master.
LEMMA WriteRequestFields ==
    ASSUME request \in [Child -> AtMostOne(Batch)], NEW c \in Child, NEW m \in MasterState,
           m.next_board_num \in StartBoard..(EndBoard + 1),
           request[c] = <<>>, child[c].pc # "solve", child' = child, WriteRequest(c, m)
    PROVE  /\ master' \in MasterState
           /\ master'.pc = m.pc /\ master'.started = m.started
           /\ master'.iters = m.iters /\ master'.finished = m.finished
           /\ request' \in [Child -> AtMostOne(Batch)]
           /\ Given(c, m.next_board_num)
<1> DEFINE from == m.next_board_num
           next == Least(from + BoardNumStep, EndBoard + 1)
           req == [board_num |-> from, quota_end |-> next - 1]
<1>0. from \in Nat /\ StartBoard <= from /\ from <= EndBoard + 1
  BY RangeNumbers
<1>1. CASE from > EndBoard
  <2>1. master' = m /\ request' = request
    BY <1>1 DEF WriteRequest
  <2>2. BatchOf(c)' = NoBatch
    BY <2>1 DEF BatchOf
  <2>3. master'.next_board_num \in from..(EndBoard + 1)
    BY <1>0, <2>1, RangeNumbers
  <2> QED
    BY <2>1, <2>2, <2>3 DEF Given
<1>2. CASE ~(from > EndBoard)
  <2>1. /\ master' = [m EXCEPT !.next_board_num = next]
        /\ request' = [request EXCEPT ![c] = Append(@, req)]
    BY <1>2 DEF WriteRequest
  <2>2. next \in Nat /\ from < next /\ next <= EndBoard + 1 /\ next - 1 \in Nat
    BY <1>0, <1>2, RangeNumbers DEF Least
  <2>3. req \in Batch /\ req.board_num = from /\ req.quota_end = next - 1
    BY <1>0, <2>2 DEF Batch
  <2> HIDE DEF req, next
  <2>4. master' \in MasterState
    BY <2>1, <2>2, Zenon DEF MasterState
  <2>5. /\ master'.pc = m.pc /\ master'.started = m.started
        /\ master'.iters = m.iters /\ master'.finished = m.finished
        /\ master'.next_board_num = next
    BY <2>1, <2>4, Zenon DEF MasterState
  <2>6. /\ Append(request[c], req) \in AtMostOne(Batch) /\ Append(request[c], req) # <<>>
        /\ Head(Append(request[c], req)) = req
    BY <2>3, PipeFilled
  <2>7. /\ request' \in [Child -> AtMostOne(Batch)]
        /\ \A d \in Child : d # c => request'[d] = request[d]
        /\ request'[c] = Append(request[c], req)
    <3> DEFINE a == Append(request[c], req)
    <3>1. request' = [request EXCEPT ![c] = a]
      BY <2>1
    <3>2. a \in AtMostOne(Batch)
      BY <2>6
    <3> HIDE DEF a
    <3>3. /\ request' \in [Child -> AtMostOne(Batch)]
          /\ \A d \in Child : d # c => request'[d] = request[d]
          /\ request'[c] = a
      BY <3>1, <3>2
    <3> QED
      BY <3>3 DEF a
  <2>8. BatchOf(c)' = req
    BY <2>6, <2>7 DEF BatchOf
  <2>9. master'.next_board_num \in from..(EndBoard + 1)
    BY <1>0, <2>2, <2>5, RangeNumbers
  <2> HIDE DEF from
  <2>10. Given(c, from)
    BY <2>3, <2>5, <2>7, <2>8, <2>9 DEF Given
  <2> QED
    BY <2>4, <2>5, <2>7, <2>10 DEF from
<1> QED
  BY <1>1, <1>2

\* The batch that a child has.
LEMMA BatchIsOne ==
    ASSUME request \in [Child -> AtMostOne(Batch)], child \in [Child -> ChildState],
           NEW c \in Child
    PROVE  BatchOf(c) \in Batch
<1>1. NoBatch \in Batch
  BY DEF NoBatch, Batch
<1>2. request[c] # <<>> => Head(request[c]) \in Batch
  BY PipeOfOne
<1>3. child[c].batch \in Batch
  BY DEF ChildState
<1> QED
  BY <1>1, <1>2, <1>3 DEF BatchOf

\* A child that is given something new has it alone.
LEMMA GivenKeeps ==
    ASSUME ForkingType, HandedInv, NEW c \in Child, BatchOf(c) = NoBatch,
           request' \in [Child -> AtMostOne(Batch)], Given(c, master.next_board_num)
    PROVE  /\ HandedInv'
           /\ \A b \in Boards :
                 (b >= master'.next_board_num \/ \E d \in Child : b \in Handed(d)')
                 <=> (b >= master.next_board_num \/ \E d \in Child : b \in Handed(d))
<1> DEFINE from == master.next_board_num
           to == master'.next_board_num
<1>1. /\ from \in Nat /\ to \in Nat /\ StartBoard <= from /\ from <= to
      /\ StartBoard \in Nat \ {0} /\ to <= EndBoard + 1
  BY RangeNumbers DEF Given, ForkingType
<1>2. \A d \in Child : BatchOf(d) \in Batch
  BY BatchIsOne DEF ForkingType
<1>3. \A d \in Child : BatchOf(d)' \in Batch
  <2>1. child' \in [Child -> ChildState]
    BY DEF ForkingType, Given
  <2>2. NoBatch \in Batch
    BY DEF NoBatch, Batch
  <2> SUFFICES ASSUME NEW d \in Child PROVE BatchOf(d)' \in Batch
    OBVIOUS
  <2>3. request'[d] # <<>> => Head(request'[d]) \in Batch
    BY PipeOfOne
  <2>4. child'[d].batch \in Batch
    BY <2>1 DEF ChildState
  <2> QED
    BY <2>2, <2>3, <2>4 DEF BatchOf
<1>4. \A d \in Child : d # c => BatchOf(d)' = BatchOf(d) /\ Handed(d)' = Handed(d)
  BY DEF Given, BatchOf, Handed
<1>5. Handed(c) = {}
  BY DEF Handed, NoBatch
<1>6. \/ BatchOf(c)' = NoBatch /\ to = from
      \/ BatchOf(c)'.board_num = from /\ BatchOf(c)'.quota_end = to - 1
  BY DEF Given
<1>7. \A b \in Int : b \in Handed(c)' <=> from <= b /\ b < to
  <2>1. CASE BatchOf(c)' = NoBatch /\ to = from
    <3>1. Handed(c)' = {}
      BY <2>1 DEF Handed, NoBatch
    <3> QED
      BY <1>1, <2>1, <3>1
  <2>2. CASE BatchOf(c)'.board_num = from /\ BatchOf(c)'.quota_end = to - 1
    <3>1. Handed(c)' = from..(to - 1)
      BY <2>2 DEF Handed
    <3> QED
      BY <1>1, <3>1
  <2> QED
    BY <1>6, <2>1, <2>2
<1> HIDE DEF from, to
<1>8. \A d \in Child : \/ BatchOf(d) = NoBatch
                       \/ /\ StartBoard <= BatchOf(d).board_num
                          /\ BatchOf(d).board_num <= BatchOf(d).quota_end + 1
                          /\ BatchOf(d).quota_end < from
  BY DEF HandedInv, from
<1>9. \A d \in Child : \A b \in Handed(d) : b \in Int /\ b < from
  <2> SUFFICES ASSUME NEW d \in Child, NEW b \in Handed(d) PROVE b \in Int /\ b < from
    OBVIOUS
  <2>1. BatchOf(d).board_num \in Nat /\ BatchOf(d).quota_end \in Nat
    BY <1>2 DEF Batch
  <2>2. b \in Int /\ BatchOf(d).board_num <= b /\ b <= BatchOf(d).quota_end
    BY <2>1 DEF Handed
  <2>3. BatchOf(d) # NoBatch
    BY <2>2 DEF NoBatch
  <2> QED
    BY <1>1, <1>8, <2>1, <2>2, <2>3
<1>10. \A d \in Child : \/ BatchOf(d)' = NoBatch
                        \/ /\ StartBoard <= BatchOf(d)'.board_num
                           /\ BatchOf(d)'.board_num <= BatchOf(d)'.quota_end + 1
                           /\ BatchOf(d)'.quota_end < to
  <2> SUFFICES ASSUME NEW d \in Child, BatchOf(d)' # NoBatch
               PROVE  /\ StartBoard <= BatchOf(d)'.board_num
                      /\ BatchOf(d)'.board_num <= BatchOf(d)'.quota_end + 1
                      /\ BatchOf(d)'.quota_end < to
    OBVIOUS
  <2>1. CASE d = c
    BY <1>1, <1>6, <2>1
  <2>2. CASE d # c
    <3>1. BatchOf(d).board_num \in Nat /\ BatchOf(d).quota_end \in Nat
      BY <1>2 DEF Batch
    <3> QED
      BY <1>1, <1>4, <1>8, <2>2, <3>1
  <2> QED
    BY <2>1, <2>2
<1>11. \A d, e \in Child : d # e => Handed(d)' \cap Handed(e)' = {}
  <2>0. \A d \in Child : d # c => Handed(d)' \cap Handed(c)' = {}
    <3> SUFFICES ASSUME NEW d \in Child, d # c, NEW b \in Handed(d), b \in Handed(c)'
                 PROVE  FALSE
      BY <1>4
    <3>1. b \in Int /\ b < from
      BY <1>9
    <3>2. from <= b
      BY <1>7, <3>1
    <3> QED
      BY <1>1, <3>1, <3>2
  <2> SUFFICES ASSUME NEW d \in Child, NEW e \in Child, d # e
               PROVE  Handed(d)' \cap Handed(e)' = {}
    OBVIOUS
  <2>1. CASE d # c /\ e # c
    BY <1>4, <2>1 DEF HandedInv
  <2>2. CASE d = c \/ e = c
    BY <2>0, <2>2
  <2> QED
    BY <2>1, <2>2
<1>12. HandedInv'
  BY <1>10, <1>11, Zenon DEF HandedInv, to
<1>13. ASSUME NEW b \in Boards
       PROVE  (b >= to \/ \E d \in Child : b \in Handed(d)')
              <=> (b >= from \/ \E d \in Child : b \in Handed(d))
  <2>1. b \in Int
    BY RangeNumbers DEF Boards
  <2>2. (\E d \in Child : b \in Handed(d)')
        <=> (from <= b /\ b < to) \/ \E d \in Child : b \in Handed(d)
    BY <1>4, <1>5, <1>7, <2>1
  <2> QED
    BY <1>1, <2>1, <2>2
<1> QED
  BY <1>12, <1>13 DEF from, to

-----------------------------------------------------------------------------
\* Nothing but where the master is, what it was told and whom it waited for.
LEMMA MasterMoves ==
    ASSUME ForkingInv, master' \in MasterState,
           UNCHANGED <<request, response, child, answered>>,
           master'.next_board_num = master.next_board_num,
           master'.started = master.started, master'.iters = master.iters,
           master'.finished = master.finished,
           master'.pc \in {"wait", "finished"} => master.finished >= Cardinality(Boards)
    PROVE  ForkingInv'
<1>1. ForkingType'
  BY DEF ForkingInv, ForkingType
<1>2. ExchangeInv'
  BY DEF ForkingInv, ExchangeInv
<1>3. \A c : BatchOf(c)' = BatchOf(c) /\ Handed(c)' = Handed(c)
  BY DEF BatchOf, Handed
<1>4. HandedInv'
  BY <1>3 DEF ForkingInv, HandedInv
<1>5. BooksInv'
  <2>1. PICK who \in [Boards -> 0..Nobody] : Books(who)
    BY DEF ForkingInv, BooksInv
  <2>2. \A c \in Child : ChildBooks(who, c)'
    BY <2>1 DEF Books, ChildBooks
  <2>3. Books(who)'
    BY <1>3, <2>1, <2>2 DEF Books
  <2> QED
    BY <2>1, <2>3, Zenon DEF BooksInv
<1> QED
  BY <1>1, <1>2, <1>4, <1>5 DEF ForkingInv

\* The types of what the master counts.
LEMMA MasterType ==
    ASSUME ForkingInv
    PROVE  /\ master \in MasterState /\ StartBoard \in Nat
           /\ master.next_board_num \in StartBoard..(EndBoard + 1)
           /\ master.started \in 0..Children
BY RangeNumbers DEF ForkingInv, ForkingType

\* Taking the events that epoll has is a move of the master only, ...
LEMMA StepEpollWait == ForkingInv /\ EpollWait => ForkingInv'
<1> SUFFICES ASSUME ForkingInv, EpollWait PROVE ForkingInv'
  OBVIOUS
<1>0. master \in MasterState
  BY MasterType
<1>1. PICK evs \in SUBSET Readable : master' = [master EXCEPT !.pc = "loop", !.events = evs]
  BY DEF EpollWait
<1>2. evs \in SUBSET Child
  BY DEF Readable
<1>3. master' \in MasterState
  BY <1>0, <1>1, <1>2, Zenon DEF MasterState
<1>4. /\ master'.next_board_num = master.next_board_num
      /\ master'.started = master.started /\ master'.iters = master.iters
      /\ master'.finished = master.finished /\ master'.pc = "loop"
  BY <1>0, <1>1, <1>3, Zenon DEF MasterState
<1>5. UNCHANGED <<request, response, child, answered>>
  BY DEF EpollWait
<1> QED
  BY <1>3, <1>4, <1>5, MasterMoves

\* ... so is seeing that all boards are finished, ...
LEMMA StepAllFinished == ForkingInv /\ AllFinished => ForkingInv'
<1> SUFFICES ASSUME ForkingInv, AllFinished PROVE ForkingInv'
  OBVIOUS
<1>0. master \in MasterState
  BY MasterType
<1>1. /\ master' = [master EXCEPT !.pc = "wait"] /\ master.finished >= Cardinality(Boards)
      /\ UNCHANGED <<request, response, child, answered>>
  BY DEF AllFinished
<1>2. master' \in MasterState
  BY <1>0, <1>1, Zenon DEF MasterState
<1>3. /\ master'.next_board_num = master.next_board_num
      /\ master'.started = master.started /\ master'.iters = master.iters
      /\ master'.finished = master.finished
  BY <1>0, <1>1, <1>2, Zenon DEF MasterState
<1> QED
  BY <1>1, <1>2, <1>3, MasterMoves

\* ... and so is waiting for a child.
LEMMA StepWaitForChild == ForkingInv /\ WaitForChild => ForkingInv'
<1> SUFFICES ASSUME ForkingInv, WaitForChild PROVE ForkingInv'
  OBVIOUS
<1>0. master \in MasterState
  BY MasterType
<1> DEFINE w == master.waited + 1
           p == IF w = Children THEN "finished" ELSE "wait"
<1>1. /\ master.pc = "wait" /\ UNCHANGED <<request, response, child, answered>>
      /\ master' = [master EXCEPT !.waited = w, !.pc = p]
  BY DEF WaitForChild
<1>2. w \in Nat /\ p \in {"wait", "finished"}
  BY <1>0 DEF MasterState
<1> HIDE DEF w, p
<1>3. master' \in MasterState
  BY <1>0, <1>1, <1>2, Zenon DEF MasterState
<1>4. /\ master'.next_board_num = master.next_board_num
      /\ master'.started = master.started /\ master'.iters = master.iters
      /\ master'.finished = master.finished
  BY <1>0, <1>1, <1>3, Zenon DEF MasterState
<1>5. master.finished >= Cardinality(Boards)
  BY <1>1 DEF ForkingInv, ExchangeInv
<1> QED
  BY <1>1, <1>3, <1>4, <1>5, MasterMoves

\* The first requests.
LEMMA StepFirstRequest == ForkingInv /\ FirstRequest => ForkingInv'
<1> SUFFICES ASSUME ForkingInv, FirstRequest PROVE ForkingInv'
  OBVIOUS
<1> DEFINE c == master.started + 1
           m == [master EXCEPT !.started = c]
<1>0. /\ master \in MasterState /\ master.next_board_num \in StartBoard..(EndBoard + 1)
      /\ master.started \in 0..Children
  BY MasterType
<1>1. /\ WriteRequest(c, m) /\ master.started < Children /\ master.pc = "start"
      /\ UNCHANGED <<response, child, answered>>
  BY DEF FirstRequest
<1>2. c \in Child /\ c \in Nat /\ c > master.started /\ c \in 0..Children
  BY <1>0, <1>1, RangeNumbers
<1>3. request[c] = <<>> /\ response[c] = <<>> /\ child[c].pc # "solve"
  BY <1>2 DEF ForkingInv, ExchangeInv
<1> HIDE DEF c
<1>4. m \in MasterState
  BY <1>0, <1>2, Zenon DEF MasterState
<1>5. /\ m.next_board_num = master.next_board_num /\ m.pc = master.pc /\ m.started = c
      /\ m.iters = master.iters /\ m.finished = master.finished
  BY <1>0, <1>4, Zenon DEF MasterState
<1> HIDE DEF m
<1>6. request \in [Child -> AtMostOne(Batch)]
  BY DEF ForkingInv, ForkingType
<1>7. m.next_board_num \in StartBoard..(EndBoard + 1)
  BY <1>0, <1>5
<1>8. /\ master' \in MasterState
      /\ master'.pc = master.pc /\ master'.started = c
      /\ master'.iters = master.iters /\ master'.finished = master.finished
      /\ request' \in [Child -> AtMostOne(Batch)]
      /\ Given(c, master.next_board_num)
  <2>1. child' = child
    BY <1>1
  <2> QED
    BY <1>1, <1>2, <1>3, <1>4, <1>5, <1>6, <1>7, <2>1, WriteRequestFields
<1>9. BatchOf(c) = NoBatch
  BY <1>3 DEF BatchOf
<1>10. /\ HandedInv'
       /\ \A b \in Boards :
             (b >= master'.next_board_num \/ \E d \in Child : b \in Handed(d)')
             <=> (b >= master.next_board_num \/ \E d \in Child : b \in Handed(d))
  BY <1>2, <1>8, <1>9, GivenKeeps DEF ForkingInv
<1>11. ForkingType'
  <2>1. master'.next_board_num \in StartBoard..(EndBoard + 1)
    BY <1>0, <1>8, RangeNumbers DEF Given
  <2> QED
    BY <1>1, <1>2, <1>8, <2>1 DEF ForkingInv, ForkingType
<1>12. ExchangeInv'
  <2>1. \A d \in Child : d # c => request'[d] = request[d]
    BY <1>8 DEF Given
  <2>2. \A d \in Child : d > c => d > master.started
    BY <1>0, <1>2, RangeNumbers
  <2>3. \A d \in Child : /\ request'[d] = <<>> \/ child'[d].pc # "solve"
                         /\ request'[d] = <<>> \/ response'[d] = <<>>
                         /\ child'[d].pc # "solve" \/ response'[d] = <<>>
    BY <1>1, <1>3, <2>1 DEF ForkingInv, ExchangeInv
  <2>4. \A d \in Child : d > master'.started =>
           request'[d] = <<>> /\ response'[d] = <<>> /\ child'[d].pc # "solve"
    <3>1. \A d \in Child : d > c => d # c
      BY <1>2, RangeNumbers
    <3> QED
      BY <1>1, <1>8, <2>1, <2>2, <3>1 DEF ForkingInv, ExchangeInv
  <2> QED
    BY <1>1, <1>8, <2>3, <2>4 DEF ExchangeInv
<1>13. BooksInv'
  <2>1. PICK who \in [Boards -> 0..Nobody] : Books(who)
    BY DEF ForkingInv, BooksInv
  <2>2. \A d \in Child : ChildBooks(who, d)'
    BY <1>1, <2>1 DEF Books, ChildBooks
  <2>3. \A b \in Boards : who[b] = Nobody <=>
           (b >= master'.next_board_num \/ \E d \in Child : b \in Handed(d)')
    BY <1>10, <2>1 DEF Books
  <2>4. Books(who)'
    BY <1>1, <1>8, <2>1, <2>2, <2>3 DEF Books
  <2> QED
    BY <2>1, <2>4, Zenon DEF BooksInv
<1> QED
  BY <1>10, <1>11, <1>12, <1>13 DEF ForkingInv

\* Counting boards of two sets.
LEMMA CountOfBoth ==
    ASSUME NEW A \in SUBSET Boards, NEW B \in SUBSET Boards, A \cap B = {}
    PROVE  /\ Cardinality(A) \in Nat /\ Cardinality(B) \in Nat
           /\ Cardinality(A \cup B) = Cardinality(A) + Cardinality(B)
<1>1. /\ IsFiniteSet(A) /\ IsFiniteSet(B)
      /\ Cardinality(A) \in Nat /\ Cardinality(B) \in Nat
  BY BoardsFinite
<1>2. Cardinality(A \cup B) = Cardinality(A) + Cardinality(B) - Cardinality(A \cap B)
  BY <1>1, FS_Union
<1>3. Cardinality(A \cap B) = 0
  BY FS_EmptySet
<1> QED
  BY <1>1, <1>2, <1>3

\* A child has told the master what it has solved, and the master gives it
\* more.
LEMMA StepTold ==
    ASSUME ForkingInv, NEW c \in Child, response[c] # <<>>, master.pc = "loop",
           response' = [response EXCEPT ![c] = Tail(@)],
           UNCHANGED <<child, answered>>,
           WriteRequest(c, [[master EXCEPT !.events = @ \ {c}]
                              EXCEPT !.iters = @ + Head(response[c]).num_iters,
                                     !.finished = @ + Head(response[c]).num_finished_boards])
    PROVE  ForkingInv'
<1> DEFINE r == Head(response[c])
           evs == master.events \ {c}
           its == master.iters + r.num_iters
           fin == master.finished + r.num_finished_boards
           m == [master EXCEPT !.events = evs, !.iters = its, !.finished = fin]
<1>0. /\ master \in MasterState /\ master.next_board_num \in StartBoard..(EndBoard + 1)
      /\ master.started \in 0..Children
  BY MasterType
<1>1. /\ request \in [Child -> AtMostOne(Batch)] /\ response \in [Child -> AtMostOne(Response)]
      /\ child \in [Child -> ChildState]
  BY DEF ForkingInv, ForkingType
<1>2. r \in Response /\ Tail(response[c]) = <<>>
  BY <1>1, PipeOfOne
<1>3. r.num_iters \in Nat /\ r.num_finished_boards \in Nat
  BY <1>2 DEF Response
<1>4. evs \in SUBSET Child /\ its \in Nat /\ fin \in Nat
  <2>1. master.events \in SUBSET Child /\ master.iters \in Nat /\ master.finished \in Nat
    BY <1>0, Zenon DEF MasterState
  <2> HIDE DEF r
  <2> QED
    BY <1>3, <2>1
<1>5. WriteRequest(c, m)
  <2>1. [[master EXCEPT !.events = @ \ {c}]
             EXCEPT !.iters = @ + Head(response[c]).num_iters,
                    !.finished = @ + Head(response[c]).num_finished_boards] = m
    BY <1>0, Zenon DEF MasterState
  <2> QED
    BY <2>1, Zenon
<1> HIDE DEF r, evs, its, fin
<1>6. m \in MasterState
  BY <1>0, <1>4, Zenon DEF MasterState
<1>7. /\ m.next_board_num = master.next_board_num /\ m.pc = master.pc
      /\ m.started = master.started /\ m.iters = its /\ m.finished = fin
  BY <1>0, <1>6, Zenon DEF MasterState
<1> HIDE DEF m
<1>8. request[c] = <<>> /\ child[c].pc # "solve" /\ ~(c > master.started)
  BY DEF ForkingInv, ExchangeInv
<1>9. /\ master' \in MasterState
      /\ master'.pc = "loop" /\ master'.started = master.started
      /\ master'.iters = its /\ master'.finished = fin
      /\ request' \in [Child -> AtMostOne(Batch)]
      /\ Given(c, master.next_board_num)
  <2>1. m.next_board_num \in StartBoard..(EndBoard + 1)
    BY <1>0, <1>7
  <2> QED
    BY <1>1, <1>5, <1>6, <1>7, <1>8, <2>1, WriteRequestFields
<1>10. /\ response' \in [Child -> AtMostOne(Response)] /\ response'[c] = <<>>
       /\ \A d \in Child : d # c => response'[d] = response[d]
  BY <1>1, <1>2 DEF AtMostOne
<1>11. BatchOf(c) = NoBatch
  BY <1>8 DEF BatchOf
<1>12. /\ HandedInv'
       /\ \A b \in Boards :
             (b >= master'.next_board_num \/ \E d \in Child : b \in Handed(d)')
             <=> (b >= master.next_board_num \/ \E d \in Child : b \in Handed(d))
  BY <1>9, <1>11, GivenKeeps DEF ForkingInv
<1>13. ForkingType'
  <2>1. master'.next_board_num \in StartBoard..(EndBoard + 1)
    BY <1>0, <1>9, RangeNumbers DEF Given
  <2>2. UNCHANGED child /\ UNCHANGED answered
    OBVIOUS
  <2> QED
    BY <1>0, <1>9, <1>10, <2>1, <2>2 DEF ForkingInv, ForkingType
<1>14. ExchangeInv'
  <2>1. \A d \in Child : d # c => request'[d] = request[d] /\ response'[d] = response[d]
    BY <1>9, <1>10 DEF Given
  <2>2. \A d \in Child : /\ request'[d] = <<>> \/ child'[d].pc # "solve"
                         /\ request'[d] = <<>> \/ response'[d] = <<>>
                         /\ child'[d].pc # "solve" \/ response'[d] = <<>>
    BY <1>8, <1>10, <2>1 DEF ForkingInv, ExchangeInv
  <2>3. \A d \in Child : d > master'.started =>
           request'[d] = <<>> /\ response'[d] = <<>> /\ child'[d].pc # "solve"
    BY <1>8, <1>9, <2>1 DEF ForkingInv, ExchangeInv
  <2> QED
    BY <1>9, <2>2, <2>3 DEF ExchangeInv
<1>15. BooksInv'
  <2>1. PICK who \in [Boards -> 0..Nobody] : Books(who)
    BY DEF ForkingInv, BooksInv
  <2> DEFINE to == [b \in Boards |-> IF who[b] = c THEN 0 ELSE who[b]]
             Mine == SolvedBy(who, {0})
             Its == SolvedBy(who, {c})
  <2>0. c \in Nat /\ c # 0 /\ c # Nobody /\ Nobody \in Nat /\ Nobody # 0
    BY RangeNumbers
  <2>2. to \in [Boards -> 0..Nobody]
    BY <2>0, <2>1
  <2>3. \A b \in Boards : to[b] = IF who[b] = c THEN 0 ELSE who[b]
    OBVIOUS
  <2> HIDE DEF to
  <2>4. SolvedBy(to, {0}) = Mine \cup Its /\ Mine \cap Its = {} /\ SolvedBy(to, {c}) = {}
    BY <2>0, <2>3 DEF SolvedBy
  <2>5. \A d \in Child : d # c => SolvedBy(to, {d}) = SolvedBy(who, {d})
    BY <2>0, <2>3, RangeNumbers DEF SolvedBy
  <2>6. \A b \in Boards : to[b] = Nobody <=> who[b] = Nobody
    BY <2>0, <2>3
  <2>7. Mine \in SUBSET Boards /\ Its \in SUBSET Boards
    BY DEF SolvedBy
  <2>8. r.num_iters = SumOver(Its) /\ r.num_finished_boards = Cardinality(Its)
    BY <2>1 DEF Books, ChildBooks, r
  <2>9. master.iters = SumOver(Mine) /\ master.finished = Cardinality(Mine)
    BY <2>1 DEF Books
  <2> HIDE DEF Mine, Its
  <2>10. master'.iters = SumOver(SolvedBy(to, {0}))
    <3>1. SumOver(Mine \cup Its) = SumOver(Mine) + SumOver(Its)
      BY <2>4, <2>7, SumOfBoth
    <3> QED
      BY <1>9, <2>4, <2>8, <2>9, <3>1 DEF its
  <2>11. master'.finished = Cardinality(SolvedBy(to, {0}))
    <3>1. Cardinality(Mine \cup Its) = Cardinality(Mine) + Cardinality(Its)
      BY <2>4, <2>7, CountOfBoth
    <3> QED
      BY <1>9, <2>4, <2>8, <2>9, <3>1 DEF fin
  <2>12. \A d \in Child : ChildBooks(to, d)'
    <3> SUFFICES ASSUME NEW d \in Child PROVE ChildBooks(to, d)'
      OBVIOUS
    <3>1. CASE d = c
      BY <1>8, <1>10, <2>4, <3>1 DEF ChildBooks
    <3>2. CASE d # c
      <4>1. response'[d] = response[d] /\ SolvedBy(to, {d}) = SolvedBy(who, {d})
        BY <1>10, <2>5, <3>2
      <4>2. ChildBooks(who, d)
        BY <2>1 DEF Books
      <4> QED
        BY <4>1, <4>2 DEF ChildBooks
    <3> QED
      BY <3>1, <3>2
  <2>13. \A b \in Boards : to[b] = Nobody <=>
            (b >= master'.next_board_num \/ \E d \in Child : b \in Handed(d)')
    BY <1>12, <2>1, <2>6 DEF Books
  <2>14. \A b \in Boards : answered'[b] = IF to[b] = Nobody THEN 0 ELSE 1
    BY <2>1, <2>6 DEF Books
  <2>15. Books(to)'
    BY <2>10, <2>11, <2>12, <2>13, <2>14, Zenon DEF Books
  <2> QED
    BY <2>2, <2>15, Zenon DEF BooksInv
<1> QED
  BY <1>12, <1>13, <1>14, <1>15 DEF ForkingInv

\* A transaction: the end of a pipe, or a response (StepTold).
LEMMA StepTransaction == ForkingInv /\ Transaction => ForkingInv'
<1> SUFFICES ASSUME ForkingInv, Transaction PROVE ForkingInv'
  OBVIOUS
<1>0. master \in MasterState
  BY MasterType
<1>1. PICK c \in master.events :
         IF response[c] = <<>>
         THEN /\ master' = [master EXCEPT !.events = @ \ {c}]
              /\ UNCHANGED <<request, response, closed>>
         ELSE /\ response' = [response EXCEPT ![c] = Tail(@)]
              /\ WriteRequest(c, [[master EXCEPT !.events = @ \ {c}]
                                    EXCEPT !.iters = @ + Head(response[c]).num_iters,
                                           !.finished = @ + Head(response[c]).num_finished_boards])
  BY Zenon DEF Transaction
<1>2. c \in Child
  BY <1>0 DEF MasterState
<1>3. master.pc = "loop" /\ UNCHANGED <<child, answered>>
  BY DEF Transaction
<1>4. CASE response[c] = <<>>
  <2> DEFINE evs == master.events \ {c}
  <2>1. master' = [master EXCEPT !.events = evs] /\ UNCHANGED <<request, response>>
    BY <1>1, <1>4
  <2>2. evs \in SUBSET Child
    BY <1>0 DEF MasterState
  <2> HIDE DEF evs
  <2>3. master' \in MasterState
    BY <1>0, <2>1, <2>2, Zenon DEF MasterState
  <2>4. /\ master'.next_board_num = master.next_board_num
        /\ master'.started = master.started /\ master'.iters = master.iters
        /\ master'.finished = master.finished /\ master'.pc = "loop"
    BY <1>0, <1>3, <2>1, <2>3, Zenon DEF MasterState
  <2> QED
    BY <1>3, <2>1, <2>3, <2>4, MasterMoves
<1>5. CASE response[c] # <<>>
  BY <1>1, <1>2, <1>3, <1>5, StepTold
<1> QED
  BY <1>4, <1>5

-----------------------------------------------------------------------------
\* A step of one child, which has no more to solve afterwards than before.
LEMMA OneChild ==
    ASSUME ForkingInv, NEW c \in Child, master' = master, answered' \in [Boards -> Nat],
           request' \in [Child -> AtMostOne(Batch)],
           response' \in [Child -> AtMostOne(Response)],
           child' \in [Child -> ChildState],
           \A d \in Child : d # c => /\ request'[d] = request[d]
                                     /\ response'[d] = response[d] /\ child'[d] = child[d],
           request'[c] = <<>>, child'[c].pc # "solve" \/ response'[c] = <<>>,
           \/ c <= master.started
           \/ response'[c] = <<>> /\ child'[c].pc # "solve",
           \/ BatchOf(c)' = NoBatch
           \/ /\ StartBoard <= BatchOf(c)'.board_num
              /\ BatchOf(c)'.board_num <= BatchOf(c)'.quota_end + 1
              /\ BatchOf(c)'.quota_end < master.next_board_num,
           Handed(c)' \subseteq Handed(c)
    PROVE  /\ ForkingType' /\ ExchangeInv' /\ HandedInv'
           /\ \A d \in Child : d # c => Handed(d)' = Handed(d)
<1>1. ForkingType'
  BY DEF ForkingInv, ForkingType
<1>2. ExchangeInv'
  <2>1. \A d \in Child : /\ request'[d] = <<>> \/ child'[d].pc # "solve"
                         /\ request'[d] = <<>> \/ response'[d] = <<>>
                         /\ child'[d].pc # "solve" \/ response'[d] = <<>>
    BY DEF ForkingInv, ExchangeInv
  <2>2. \A d \in Child : d > master'.started =>
           request'[d] = <<>> /\ response'[d] = <<>> /\ child'[d].pc # "solve"
    <3>1. ~(c <= master.started /\ c > master.started)
      BY MasterType, RangeNumbers
    <3> QED
      BY <3>1 DEF ForkingInv, ExchangeInv
  <2> QED
    BY <2>1, <2>2 DEF ForkingInv, ExchangeInv
<1>3. \A d \in Child : d # c => BatchOf(d)' = BatchOf(d) /\ Handed(d)' = Handed(d)
  BY DEF BatchOf, Handed
<1>4. HandedInv'
  <2>1. \A d \in Child : \/ BatchOf(d)' = NoBatch
                         \/ /\ StartBoard <= BatchOf(d)'.board_num
                            /\ BatchOf(d)'.board_num <= BatchOf(d)'.quota_end + 1
                            /\ BatchOf(d)'.quota_end < master'.next_board_num
    <3> SUFFICES ASSUME NEW d \in Child, BatchOf(d)' # NoBatch
                 PROVE  /\ StartBoard <= BatchOf(d)'.board_num
                        /\ BatchOf(d)'.board_num <= BatchOf(d)'.quota_end + 1
                        /\ BatchOf(d)'.quota_end < master'.next_board_num
      OBVIOUS
    <3>1. CASE d = c
      BY <3>1
    <3>2. CASE d # c
      BY <1>3, <3>2 DEF ForkingInv, HandedInv
    <3> QED
      BY <3>1, <3>2
  <2>2. \A d, e \in Child : d # e => Handed(d)' \cap Handed(e)' = {}
    <3> SUFFICES ASSUME NEW d \in Child, NEW e \in Child, d # e
                 PROVE  Handed(d)' \cap Handed(e)' = {}
      OBVIOUS
    <3>1. Handed(d)' \subseteq Handed(d) /\ Handed(e)' \subseteq Handed(e)
      BY <1>3
    <3>2. Handed(d) \cap Handed(e) = {}
      BY DEF ForkingInv, HandedInv
    <3> QED
      BY <3>1, <3>2
  <2> QED
    BY <2>1, <2>2, Zenon DEF HandedInv
<1> QED
  BY <1>1, <1>2, <1>3, <1>4

\* What ForkingInv says of one child.
LEMMA OneExchange ==
    ASSUME ForkingInv, NEW c \in Child
    PROVE  /\ request[c] = <<>> \/ child[c].pc # "solve"
           /\ request[c] = <<>> \/ response[c] = <<>>
           /\ child[c].pc # "solve" \/ response[c] = <<>>
           /\ request[c] # <<>> \/ response[c] # <<>> \/ child[c].pc = "solve"
                 => c <= master.started
           /\ BatchOf(c) \in Batch
           /\ BatchOf(c).board_num <= BatchOf(c).quota_end + 1
           /\ \/ BatchOf(c) = NoBatch
              \/ /\ StartBoard <= BatchOf(c).board_num
                 /\ BatchOf(c).quota_end < master.next_board_num
<1>1. /\ request[c] = <<>> \/ child[c].pc # "solve"
      /\ request[c] = <<>> \/ response[c] = <<>>
      /\ child[c].pc # "solve" \/ response[c] = <<>>
  BY DEF ForkingInv, ExchangeInv
<1>2. request[c] # <<>> \/ response[c] # <<>> \/ child[c].pc = "solve" => ~(c > master.started)
  BY DEF ForkingInv, ExchangeInv
<1>3. ~(c > master.started) => c <= master.started
  BY MasterType, RangeNumbers
<1>4. BatchOf(c) \in Batch
  BY BatchIsOne DEF ForkingInv, ForkingType
<1>5. \/ BatchOf(c) = NoBatch
      \/ /\ StartBoard <= BatchOf(c).board_num
         /\ BatchOf(c).board_num <= BatchOf(c).quota_end + 1
         /\ BatchOf(c).quota_end < master.next_board_num
  BY DEF ForkingInv, HandedInv
<1>6. NoBatch.board_num <= NoBatch.quota_end + 1
  BY DEF NoBatch
<1> QED
  BY <1>1, <1>2, <1>3, <1>4, <1>5, <1>6

\* The books of a child that nobody has touched.
LEMMA ChildBooksStay ==
    ASSUME NEW d \in Child, NEW who, NEW to, ChildBooks(who, d),
           child'[d] = child[d], response'[d] = response[d],
           SolvedBy(to, {d}) = SolvedBy(who, {d})
    PROVE  ChildBooks(to, d)'
BY DEF ChildBooks

\* The books after a step of child c that solves nothing.
LEMMA BooksAfter ==
    ASSUME ForkingInv, NEW c \in Child, NEW who \in [Boards -> 0..Nobody], Books(who),
           master' = master, answered' = answered,
           \A d \in Child : d # c => /\ response'[d] = response[d] /\ child'[d] = child[d]
                                     /\ Handed(d)' = Handed(d),
           Handed(c)' = Handed(c), ChildBooks(who, c)'
    PROVE  BooksInv'
<1>1. \A d \in Child : ChildBooks(who, d)'
  <2> SUFFICES ASSUME NEW d \in Child PROVE ChildBooks(who, d)'
    OBVIOUS
  <2>1. CASE d = c
    BY <2>1
  <2>2. CASE d # c
    <3>1. ChildBooks(who, d)
      BY DEF Books
    <3> QED
      BY <2>2, <3>1, ChildBooksStay
  <2> QED
    BY <2>1, <2>2
<1>2. \A d \in Child : Handed(d)' = Handed(d)
  OBVIOUS
<1>3. Books(who)'
  BY <1>1, <1>2 DEF Books
<1> QED
  BY <1>3, Zenon DEF BooksInv

\* The types of the pipes and the children.
LEMMA ForkingTypes ==
    ASSUME ForkingInv
    PROVE  /\ request \in [Child -> AtMostOne(Batch)] /\ response \in [Child -> AtMostOne(Response)]
           /\ child \in [Child -> ChildState] /\ answered \in [Boards -> Nat]
BY DEF ForkingInv, ForkingType

\* A request that is read is the batch that is solved from there on.
LEMMA StepReadRequest ==
    ASSUME ForkingInv, NEW c \in Child, ReadRequest(c)
    PROVE  ForkingInv'
<1> DEFINE req == Head(request[c])
           now == [pc |-> "solve", batch |-> req, iters |-> 0,
                   count |-> req.quota_end - req.board_num + 1]
<1>1. /\ child[c].pc = "read" /\ request[c] # <<>>
      /\ request' = [request EXCEPT ![c] = Tail(@)]
      /\ child' = [child EXCEPT ![c] = now]
      /\ master' = master /\ response' = response /\ answered' = answered
  BY DEF ReadRequest
<1>2. /\ response[c] = <<>> /\ c <= master.started /\ BatchOf(c) \in Batch
      /\ BatchOf(c).board_num <= BatchOf(c).quota_end + 1
      /\ \/ BatchOf(c) = NoBatch
         \/ StartBoard <= BatchOf(c).board_num /\ BatchOf(c).quota_end < master.next_board_num
  BY <1>1, OneExchange
<1>3. BatchOf(c) = req
  BY <1>1 DEF BatchOf
<1>4. req.board_num \in Nat /\ req.quota_end \in Nat /\ req \in Batch
  BY <1>2, <1>3 DEF Batch
<1> HIDE DEF req
<1>5. req.quota_end - req.board_num + 1 \in Nat
  BY <1>2, <1>3, <1>4
<1>6. now \in ChildState /\ now.pc = "solve" /\ now.batch = req /\ now.iters = 0
      /\ now.count = req.quota_end + 1 - req.board_num
  BY <1>4, <1>5 DEF ChildState
<1> HIDE DEF now
<1>7. /\ child' \in [Child -> ChildState] /\ child'[c] = now
      /\ \A d \in Child : d # c => child'[d] = child[d]
  BY <1>1, <1>6, ForkingTypes
<1>8. /\ request' \in [Child -> AtMostOne(Batch)] /\ request'[c] = <<>>
      /\ \A d \in Child : d # c => request'[d] = request[d]
  <2>1. Tail(request[c]) = <<>> /\ Tail(request[c]) \in AtMostOne(Batch)
    BY <1>1, ForkingTypes, PipeOfOne DEF AtMostOne
  <2> QED
    BY <1>1, <2>1, ForkingTypes
<1>9. BatchOf(c)' = req
  BY <1>6, <1>7, <1>8 DEF BatchOf
<1>10. Handed(c)' = Handed(c)
  BY <1>3, <1>9 DEF Handed
<1>11. /\ ForkingType' /\ ExchangeInv' /\ HandedInv'
       /\ \A d \in Child : d # c => Handed(d)' = Handed(d)
  <2>1. /\ answered' \in [Boards -> Nat] /\ response' \in [Child -> AtMostOne(Response)]
        /\ response'[c] = <<>> /\ \A d \in Child : response'[d] = response[d]
    BY <1>1, <1>2, ForkingTypes
  <2>2. \/ BatchOf(c)' = NoBatch
        \/ /\ StartBoard <= BatchOf(c)'.board_num
           /\ BatchOf(c)'.board_num <= BatchOf(c)'.quota_end + 1
           /\ BatchOf(c)'.quota_end < master.next_board_num
    BY <1>2, <1>3, <1>9
  <2> QED
    BY <1>1, <1>2, <1>7, <1>8, <1>10, <2>1, <2>2, OneChild
<1>12. BooksInv'
  <2>1. PICK who \in [Boards -> 0..Nobody] : Books(who)
    BY DEF ForkingInv, BooksInv
  <2>2. SolvedBy(who, {c}) = {}
    BY <1>1, <1>2, <2>1 DEF Books, ChildBooks
  <2>3. Cardinality({}) = 0
    BY FS_EmptySet
  <2>4. ChildBooks(who, c)'
    <3>1. now.iters = SumOver({})
      BY <1>6, SumOfNone
    <3>2. now.count = Cardinality({}) + (now.batch.quota_end + 1 - now.batch.board_num)
      BY <1>4, <1>6, <2>3
    <3>3. response'[c] = <<>>
      BY <1>1, <1>2
    <3> QED
      BY <1>6, <1>7, <2>2, <3>1, <3>2, <3>3 DEF ChildBooks
  <2> QED
    BY <1>1, <1>7, <1>10, <1>11, <2>1, <2>4, BooksAfter
<1> QED
  BY <1>11, <1>12 DEF ForkingInv

\* A child responds when its batch is at its end: what it counted at the start
\* is what it has solved.
LEMMA StepRespond ==
    ASSUME ForkingInv, NEW c \in Child, Respond(c)
    PROVE  ForkingInv'
<1> DEFINE r == [num_iters |-> child[c].iters, num_finished_boards |-> child[c].count]
           now == [child[c] EXCEPT !.pc = "read"]
<1>1. /\ child[c].pc = "solve" /\ child[c].batch.board_num > child[c].batch.quota_end
      /\ response' = [response EXCEPT ![c] = Append(@, r)]
      /\ child' = [child EXCEPT ![c] = now]
      /\ master' = master /\ request' = request /\ answered' = answered
  BY DEF Respond
<1>2. /\ response[c] = <<>> /\ request[c] = <<>> /\ c <= master.started
      /\ BatchOf(c) \in Batch /\ BatchOf(c).board_num <= BatchOf(c).quota_end + 1
  BY <1>1, OneExchange
<1>3. BatchOf(c) = child[c].batch
  BY <1>1, <1>2 DEF BatchOf
<1>4. /\ child[c].batch.board_num \in Nat /\ child[c].batch.quota_end \in Nat
      /\ child[c].batch.board_num = child[c].batch.quota_end + 1
  BY <1>1, <1>2, <1>3 DEF Batch
<1>5. child[c] \in ChildState
  BY ForkingTypes
<1>6. r \in Response /\ r.num_iters = child[c].iters /\ r.num_finished_boards = child[c].count
  BY <1>5 DEF Response, ChildState
<1>7. now \in ChildState /\ now.pc = "read"
  BY <1>5, Zenon DEF ChildState
<1> HIDE DEF r, now
<1>8. /\ child' \in [Child -> ChildState] /\ child'[c] = now
      /\ \A d \in Child : d # c => child'[d] = child[d]
  BY <1>1, <1>7, ForkingTypes
<1>9. /\ response' \in [Child -> AtMostOne(Response)]
      /\ response'[c] # <<>> /\ Head(response'[c]) = r
      /\ \A d \in Child : d # c => response'[d] = response[d]
  <2> DEFINE a == Append(response[c], r)
  <2>1. response' = [response EXCEPT ![c] = a]
    BY <1>1
  <2>2. a \in AtMostOne(Response) /\ a # <<>> /\ Head(a) = r
    BY <1>2, <1>6, PipeFilled
  <2> HIDE DEF a
  <2> QED
    BY <2>1, <2>2, ForkingTypes
<1>10. BatchOf(c)' = NoBatch
  BY <1>1, <1>2, <1>7, <1>8 DEF BatchOf
<1>11. Handed(c)' = {} /\ Handed(c) = {}
  BY <1>3, <1>4, <1>10 DEF Handed, NoBatch
<1>12. /\ ForkingType' /\ ExchangeInv' /\ HandedInv'
       /\ \A d \in Child : d # c => Handed(d)' = Handed(d)
  <2>1. /\ answered' \in [Boards -> Nat] /\ request' \in [Child -> AtMostOne(Batch)]
        /\ request'[c] = <<>> /\ \A d \in Child : request'[d] = request[d]
    BY <1>1, <1>2, ForkingTypes
  <2>2. child'[c].pc # "solve"
    BY <1>7, <1>8
  <2> QED
    BY <1>1, <1>2, <1>8, <1>9, <1>10, <1>11, <2>1, <2>2, OneChild
<1>13. BooksInv'
  <2>1. PICK who \in [Boards -> 0..Nobody] : Books(who)
    BY DEF ForkingInv, BooksInv
  <2>2. /\ child[c].iters = SumOver(SolvedBy(who, {c}))
        /\ child[c].count = Cardinality(SolvedBy(who, {c}))
                              + (child[c].batch.quota_end + 1 - child[c].batch.board_num)
    BY <1>1, <2>1 DEF Books, ChildBooks
  <2>3. Cardinality(SolvedBy(who, {c})) \in Nat
    BY BoardsFinite DEF SolvedBy
  <2>4. child[c].count = Cardinality(SolvedBy(who, {c}))
    BY <1>4, <2>2, <2>3
  <2>5. ChildBooks(who, c)'
    BY <1>6, <1>7, <1>8, <1>9, <2>2, <2>4 DEF ChildBooks
  <2> QED
    BY <1>1, <1>8, <1>9, <1>11, <1>12, <2>1, <2>5, BooksAfter
<1> QED
  BY <1>12, <1>13 DEF ForkingInv

\* A child that leaves has nothing in hand.
LEMMA StepLeaveChild ==
    ASSUME ForkingInv, NEW c \in Child, LeaveChild(c)
    PROVE  ForkingInv'
<1> DEFINE now == [child[c] EXCEPT !.pc = "gone"]
<1>1. /\ child[c].pc = "read" /\ request[c] = <<>>
      /\ child' = [child EXCEPT ![c] = now]
      /\ master' = master /\ request' = request /\ response' = response
      /\ answered' = answered
  BY DEF LeaveChild
<1>2. now \in ChildState /\ now.pc = "gone"
  <2>1. child[c] \in ChildState
    BY ForkingTypes
  <2> QED
    BY <2>1, Zenon DEF ChildState
<1> HIDE DEF now
<1>3. /\ child' \in [Child -> ChildState] /\ child'[c] = now
      /\ \A d \in Child : d # c => child'[d] = child[d]
  BY <1>1, <1>2, ForkingTypes
<1>4. BatchOf(c)' = NoBatch /\ BatchOf(c) = NoBatch
  BY <1>1, <1>2, <1>3 DEF BatchOf
<1>5. Handed(c)' = Handed(c)
  BY <1>4 DEF Handed
<1>6. child'[c].pc # "solve"
  BY <1>2, <1>3
<1>7. /\ ForkingType' /\ ExchangeInv' /\ HandedInv'
      /\ \A d \in Child : d # c => Handed(d)' = Handed(d)
  <2>1. /\ answered' \in [Boards -> Nat] /\ request' \in [Child -> AtMostOne(Batch)]
        /\ response' \in [Child -> AtMostOne(Response)] /\ request'[c] = <<>>
        /\ \A d \in Child : request'[d] = request[d] /\ response'[d] = response[d]
    BY <1>1, ForkingTypes
  <2>2. c <= master.started \/ response'[c] = <<>>
    BY <1>1, OneExchange
  <2> QED
    BY <1>1, <1>3, <1>4, <1>5, <1>6, <2>1, <2>2, OneChild
<1>8. BooksInv'
  <2>1. PICK who \in [Boards -> 0..Nobody] : Books(who)
    BY DEF ForkingInv, BooksInv
  <2>2. ChildBooks(who, c)
    BY <2>1 DEF Books
  <2>3. response'[c] = response[c]
    BY <1>1
  <2>4. ChildBooks(who, c)'
    BY <1>1, <1>6, <2>2, <2>3 DEF ChildBooks
  <2> QED
    BY <1>1, <1>3, <1>5, <1>7, <2>1, <2>4, BooksAfter
<1> QED
  BY <1>7, <1>8 DEF ForkingInv

\* A board that is solved passes from the batch to the boards of the child: it
\* was nobody's before.
LEMMA StepSolveBoardOf ==
    ASSUME ForkingInv, NEW c \in Child, SolveBoardOf(c)
    PROVE  ForkingInv'
<1> DEFINE b == child[c].batch.board_num
           q == child[c].batch.quota_end
           rest == [child[c].batch EXCEPT !.board_num = b + 1]
           its == child[c].iters + Iters[b]
           now == [child[c] EXCEPT !.batch = rest, !.iters = its]
<1>1. /\ child[c].pc = "solve" /\ b <= q
      /\ answered' = [answered EXCEPT ![b] = @ + 1]
      /\ master' = master /\ request' = request /\ response' = response
  BY DEF SolveBoardOf
<1>2. /\ response[c] = <<>> /\ request[c] = <<>> /\ c <= master.started
      /\ BatchOf(c) \in Batch /\ BatchOf(c).board_num <= BatchOf(c).quota_end + 1
      /\ \/ BatchOf(c) = NoBatch
         \/ StartBoard <= BatchOf(c).board_num /\ BatchOf(c).quota_end < master.next_board_num
  BY <1>1, OneExchange
<1>3. BatchOf(c) = child[c].batch
  BY <1>1, <1>2 DEF BatchOf
<1>4. /\ child[c].batch \in Batch /\ b \in Nat /\ q \in Nat
  BY <1>2, <1>3 DEF Batch
<1>5. StartBoard <= b /\ q < master.next_board_num
  <2>1. CASE BatchOf(c) = NoBatch
    <3>1. b = 1 /\ q = 0
      BY <1>3, <2>1 DEF NoBatch
    <3> QED
      BY <1>1, <3>1
  <2>2. CASE BatchOf(c) # NoBatch
    BY <1>2, <1>3, <2>2
  <2> QED
    BY <2>1, <2>2
<1>6. child[c] \in ChildState /\ child[c].iters \in Nat /\ child[c].count \in Nat
  <2>1. child[c] \in ChildState
    BY ForkingTypes
  <2> QED
    BY <2>1 DEF ChildState
<1>7. b \in Boards /\ Iters[b] \in Nat
  <2> DEFINE next == master.next_board_num
  <2>1. next \in StartBoard..(EndBoard + 1)
    BY MasterType
  <2>2. b <= q /\ b \in Nat /\ q \in Nat /\ StartBoard <= b /\ q < next
    BY <1>1, <1>4, <1>5
  <2> HIDE DEF b, q, next
  <2>3. b \in Boards
    BY <2>1, <2>2, RangeNumbers DEF Boards
  <2> QED
    BY <2>3, RangeAssumption
<1>8. child' = [child EXCEPT ![c] = now]
  <2>1. child' = [child EXCEPT ![c].batch.board_num = b + 1, ![c].iters = @ + Iters[b]]
    BY DEF SolveBoardOf
  <2>2. [child EXCEPT ![c].batch.board_num = b + 1, ![c].iters = @ + Iters[b]]
          = [child EXCEPT ![c] = now]
    BY <1>6, ForkingTypes, Zenon DEF ChildState
  <2> QED
    BY <2>1, <2>2
<1>9. b + 1 \in Nat /\ its \in Nat
  BY <1>4, <1>6, <1>7
<1>10. rest \in Batch /\ rest.board_num = b + 1 /\ rest.quota_end = q
  BY <1>4, <1>9 DEF Batch
<1> HIDE DEF rest, its
<1>11. /\ now \in ChildState /\ now.pc = "solve" /\ now.batch = rest /\ now.iters = its
       /\ now.count = child[c].count
  BY <1>1, <1>6, <1>9, <1>10, Zenon DEF ChildState
<1> HIDE DEF now
<1>12. /\ child' \in [Child -> ChildState] /\ child'[c] = now
       /\ \A d \in Child : d # c => child'[d] = child[d]
  BY <1>8, <1>11, ForkingTypes
<1> HIDE DEF b, q
<1>13. BatchOf(c)' = rest
  BY <1>1, <1>2, <1>11, <1>12 DEF BatchOf
<1>14. Handed(c) = b..q /\ Handed(c)' = (b + 1)..q
  BY <1>3, <1>10, <1>13 DEF Handed, b, q
<1>15. /\ b \in Handed(c) /\ Handed(c)' \subseteq Handed(c)
       /\ \A e \in Boards : e # b => (e \in Handed(c)' <=> e \in Handed(c))
  BY <1>1, <1>4, <1>14, RangeNumbers DEF Boards
<1>16. /\ answered' \in [Boards -> Nat] /\ answered'[b] = answered[b] + 1
       /\ \A e \in Boards : e # b => answered'[e] = answered[e]
  <2>1. answered[b] \in Nat
    BY <1>7, ForkingTypes
  <2> QED
    BY <1>1, <1>7, <2>1, ForkingTypes
<1>17. /\ ForkingType' /\ ExchangeInv' /\ HandedInv'
       /\ \A d \in Child : d # c => Handed(d)' = Handed(d)
  <2>1. /\ request' \in [Child -> AtMostOne(Batch)]
        /\ response' \in [Child -> AtMostOne(Response)]
        /\ request'[c] = <<>> /\ response'[c] = <<>>
        /\ \A d \in Child : request'[d] = request[d] /\ response'[d] = response[d]
    BY <1>1, <1>2, ForkingTypes
  <2>2. /\ StartBoard <= BatchOf(c)'.board_num
        /\ BatchOf(c)'.board_num <= BatchOf(c)'.quota_end + 1
        /\ BatchOf(c)'.quota_end < master.next_board_num
    BY <1>1, <1>4, <1>5, <1>10, <1>13, RangeNumbers
  <2> QED
    BY <1>1, <1>2, <1>12, <1>15, <1>16, <2>1, <2>2, OneChild
<1>18. BooksInv'
  <2>1. PICK who \in [Boards -> 0..Nobody] : Books(who)
    BY DEF ForkingInv, BooksInv
  <2> DEFINE Its == SolvedBy(who, {c})
  <2>2. c \in Nat /\ c # 0 /\ c # Nobody /\ Nobody \in Nat /\ c \in 0..Nobody
    BY RangeNumbers
  <2>3. PICK to \in [Boards -> 0..Nobody] :
           to[b] = c /\ \A e \in Boards : e # b => to[e] = who[e]
    <3> DEFINE now_by == [who EXCEPT ![b] = c]
    <3>1. now_by \in [Boards -> 0..Nobody]
      BY <1>7, <2>1, <2>2
    <3>2. now_by[b] = c /\ \A e \in Boards : e # b => now_by[e] = who[e]
      BY <1>7, <2>1
    <3> HIDE DEF now_by
    <3> QED
      BY <3>1, <3>2
  <2>4. who[b] = Nobody
    BY <1>7, <1>15, <2>1 DEF Books
  <2>5. \A d : d # c /\ d # Nobody => SolvedBy(to, {d}) = SolvedBy(who, {d})
    BY <2>3, <2>4 DEF SolvedBy
  <2>6. SolvedBy(to, {c}) = Its \cup {b} /\ b \notin Its /\ Its \in SUBSET Boards
    BY <1>7, <2>2, <2>3, <2>4 DEF SolvedBy
  <2>7. /\ child[c].iters = SumOver(Its)
        /\ child[c].count = Cardinality(Its) + (q + 1 - b)
    BY <1>1, <2>1 DEF Books, ChildBooks, q, b
  <2> HIDE DEF Its
  <2>8. now.iters = SumOver(Its \cup {b})
    BY <1>7, <1>11, <2>6, <2>7, SumWithOne DEF its
  <2>9. now.count = Cardinality(Its \cup {b}) + (now.batch.quota_end + 1 - now.batch.board_num)
    <3>1. IsFiniteSet(Its) /\ Cardinality(Its) \in Nat
      BY <2>6, BoardsFinite
    <3>2. Cardinality(Its \cup {b}) = Cardinality(Its) + 1
      BY <2>6, <3>1, FS_AddElement
    <3> QED
      BY <1>4, <1>10, <1>11, <2>7, <3>1, <3>2
  <2>10. ChildBooks(to, c)'
    BY <1>1, <1>2, <1>11, <1>12, <2>6, <2>8, <2>9 DEF ChildBooks
  <2>11. \A d \in Child : ChildBooks(to, d)'
    <3> SUFFICES ASSUME NEW d \in Child, d # c PROVE ChildBooks(to, d)'
      BY <2>10
    <3>1. ChildBooks(who, d)
      BY <2>1 DEF Books
    <3>2. child'[d] = child[d] /\ response'[d] = response[d]
      BY <1>1, <1>12
    <3>3. d # Nobody
      BY RangeNumbers
    <3>4. SolvedBy(to, {d}) = SolvedBy(who, {d})
      BY <2>5, <3>3, Zenon
    <3> QED
      BY <3>1, <3>2, <3>4, ChildBooksStay
  <2>12. \A e \in Boards : answered'[e] = IF to[e] = Nobody THEN 0 ELSE 1
    <3>1. \A e \in Boards : answered[e] = IF who[e] = Nobody THEN 0 ELSE 1
      BY <2>1 DEF Books
    <3> QED
      BY <1>7, <1>16, <2>2, <2>3, <2>4, <3>1
  <2>13. \A e \in Boards : to[e] = Nobody <=>
            e >= master'.next_board_num \/ \E d \in Child : e \in Handed(d)'
    <3> SUFFICES ASSUME NEW e \in Boards
                 PROVE  to[e] = Nobody <=>
                           e >= master.next_board_num \/ \E d \in Child : e \in Handed(d)'
      BY <1>1
    <3>1. who[e] = Nobody <=> e >= master.next_board_num \/ \E d \in Child : e \in Handed(d)
      BY <2>1 DEF Books
    <3>2. CASE e = b
      <4>1. e \notin Handed(c)'
        BY <1>4, <1>14, <3>2
      <4>2. \A d \in Child : d # c => e \notin Handed(d)'
        <5>1. \A d \in Child : d # c => Handed(d) \cap Handed(c) = {}
          BY DEF ForkingInv, HandedInv
        <5> QED
          BY <1>15, <1>17, <3>2, <5>1
      <4>3. ~(e >= master.next_board_num)
        BY <1>1, <1>4, <1>5, <3>2, MasterType, RangeNumbers
      <4> QED
        BY <2>2, <2>3, <3>2, <4>1, <4>2, <4>3
    <3>3. CASE e # b
      <4>1. (\E d \in Child : e \in Handed(d)') <=> \E d \in Child : e \in Handed(d)
        BY <1>15, <1>17, <3>3
      <4> QED
        BY <2>3, <3>1, <3>3, <4>1
    <3> QED
      BY <3>2, <3>3
  <2>14. /\ master'.iters = SumOver(SolvedBy(to, {0}))
         /\ master'.finished = Cardinality(SolvedBy(to, {0}))
    <3>1. SolvedBy(to, {0}) = SolvedBy(who, {0})
      BY <2>2, <2>3, <2>4, RangeNumbers DEF SolvedBy
    <3> QED
      BY <1>1, <2>1, <3>1 DEF Books
  <2>15. Books(to)'
    BY <2>11, <2>12, <2>13, <2>14, Zenon DEF Books
  <2> QED
    BY <2>3, <2>15, Zenon DEF BooksInv
<1> QED
  BY <1>17, <1>18 DEF ForkingInv

-----------------------------------------------------------------------------
\* Boards that the master counts are solved; as many as there are, are all.
LEMMA ForkingInvHolds == ForkingInv => ForkingExact
<1> SUFFICES ASSUME ForkingInv PROVE ForkingExact
  OBVIOUS
<1>1. PICK who \in [Boards -> 0..Nobody] : Books(who)
  BY DEF ForkingInv, BooksInv
<1> DEFINE Told == SolvedBy(who, {0})
           Done == {b \in Boards : answered[b] = 1}
<1>2. \A b \in Boards : answered[b] = IF who[b] = Nobody THEN 0 ELSE 1
  BY <1>1 DEF Books
<1>3. Told \subseteq Done /\ Done \in SUBSET Boards /\ Told \in SUBSET Boards
  BY <1>2, RangeNumbers DEF SolvedBy
<1>4. master.finished = Cardinality(Told) /\ master.iters = SumOver(Told)
  BY <1>1 DEF Books
<1> HIDE DEF Told
<1>5. master.finished <= Cardinality(Done)
  <2>1. IsFiniteSet(Done)
    BY <1>3, BoardsFinite
  <2> HIDE DEF Done
  <2> QED
    BY <1>3, <1>4, <2>1, FS_Subset
<1>6. ASSUME master.pc = "finished"
      PROVE  (\A b \in Boards : answered[b] = 1) /\ master.iters = SumOver(Boards)
  <2>1. master.finished >= Cardinality(Boards)
    BY <1>6 DEF ForkingInv, ExchangeInv
  <2>2. /\ Cardinality(Told) \in Nat /\ Cardinality(Boards) \in Nat
        /\ Cardinality(Told) <= Cardinality(Boards)
    BY <1>3, BoardsFinite, FS_Subset
  <2>3. Cardinality(Told) = Cardinality(Boards)
    BY <1>4, <2>1, <2>2
  <2>4. Told = Boards
    BY <1>3, <2>3, BoardsFinite, FS_Subset
  <2> QED
    BY <1>3, <1>4, <2>4
<1> QED
  BY <1>2, <1>5, <1>6 DEF ForkingExact

\* Nothing happens.
LEMMA ForkingStuttering == ForkingInv /\ UNCHANGED forkingVars => ForkingInv'
<1> SUFFICES ASSUME ForkingInv, UNCHANGED forkingVars PROVE ForkingInv'
  OBVIOUS
<1>1. /\ master' = master
      /\ UNCHANGED <<request, response, child, answered>>
  BY DEF forkingVars
<1>2. master.pc \in {"wait", "finished"} => master.finished >= Cardinality(Boards)
  BY DEF ForkingInv, ExchangeInv
<1> QED
  BY <1>1, <1>2, MasterType, MasterMoves

\* ForkingExact: no board is given to two children, the master counts none as
\* finished that was not solved, and when it has waited for all its children it
\* has the iterations of every board (forking_range_solver.c).
THEOREM ForkingRangeIsExact == ForkingInit /\ [][ForkingNext]_forkingVars => []ForkingExact
<1>1. ForkingInv /\ [ForkingNext]_forkingVars => ForkingInv'
  <2> SUFFICES ASSUME ForkingInv, ForkingNext PROVE ForkingInv'
    BY ForkingStuttering
  <2>1. CASE MasterStep
    BY <2>1, StepFirstRequest, StepEpollWait, StepTransaction, StepAllFinished,
       StepWaitForChild DEF MasterStep
  <2>2. ASSUME NEW c \in Child, ChildStep(c) PROVE ForkingInv'
    BY <2>2, StepReadRequest, StepSolveBoardOf, StepRespond, StepLeaveChild DEF ChildStep
  <2> QED
    BY <2>1, <2>2 DEF ForkingNext
<1> QED
  BY InitForkingInv, ForkingInvHolds, <1>1, PTL

-----------------------------------------------------------------------------
(***************************************************************************)
(* The file.  What was written and what is still in the buffer continue    *)
(* each other as Expected does, and while boards are solved both together  *)
(* end before the board that is next.                                      *)
(***************************************************************************)
Numbers == {StartBoard, EndBoard, PerBoardLimit} \cup {Iters[b] : b \in Boards}

\* s is what Expected has after its first numbers, as many as from.
Continues(s, from) == \A i \in 1..Len(s) : s[i] = Expected[from + i]

SerialInv ==
    /\ file \in Seq(Numbers) /\ buffer \in Seq(Numbers)
    /\ Continues(file, 0) /\ Continues(buffer, Len(file))
    /\ exists \/ (file = <<>> /\ program = "begin")
    /\ IF program = "solving"
       THEN /\ board_num \in StartBoard..(EndBoard + 1)
            /\ Len(file) + Len(buffer) = 3 + board_num - StartBoard
       ELSE buffer = <<>>
    /\ Len(file) + Len(buffer) <= Len(Expected)
    /\ program = "closed" => Len(file) = Len(Expected)
    /\ program = "already_finished" => Len(file) >= Len(Expected) - 1

\* The numbers of a complete file: three at its head, then one for each board.
LEMMA ExpectedIs ==
    /\ Expected \in Seq(Numbers)
    /\ Len(Expected) = EndBoard - StartBoard + 4
    /\ Header \in Seq(Numbers) /\ Len(Header) = 3
    /\ Continues(Header, 0)
    /\ Expected[1] = StartBoard /\ Expected[2] = EndBoard
    /\ \A b \in Boards : Expected[b - StartBoard + 4] = Iters[b]
<1> DEFINE n == EndBoard - StartBoard + 1
           rest == [k \in 1..n |-> Iters[StartBoard + k - 1]]
<1>1. /\ StartBoard \in Nat /\ EndBoard \in Nat /\ StartBoard <= EndBoard /\ n \in Nat
  BY RangeAssumption
<1>2. Cardinality(Boards) = n
  BY <1>1, FS_Interval DEF Boards
<1>3. Expected = Header \o rest
  BY <1>2 DEF Expected
<1>4. Header \in Seq(Numbers) /\ Len(Header) = 3
  BY DEF Header, Numbers
<1>5. rest \in Seq(Numbers) /\ Len(rest) = n /\ \A k \in 1..n : rest[k] = Iters[StartBoard + k - 1]
  <2>1. \A k \in 1..n : StartBoard + k - 1 \in Boards
    BY <1>1 DEF Boards
  <2>2. \A k \in 1..n : Iters[StartBoard + k - 1] \in Numbers
    BY <2>1 DEF Numbers
  <2> HIDE DEF n
  <2>3. rest \in [1..n -> Numbers]
    BY <2>2
  <2>4. n \in Nat /\ \A k \in 1..n : rest[k] = Iters[StartBoard + k - 1]
    BY <1>1
  <2> HIDE DEF rest
  <2>5. rest \in Seq(Numbers) /\ Len(rest) = n
    BY <2>3, <2>4
  <2> QED
    BY <2>4, <2>5
<1> HIDE DEF rest, n
<1>6. /\ Expected \in Seq(Numbers) /\ Len(Expected) = 3 + n
      /\ \A i \in 1..(3 + n) : Expected[i] = IF i <= 3 THEN Header[i] ELSE rest[i - 3]
  <2>1. /\ Header \o rest \in Seq(Numbers) /\ Len(Header \o rest) = Len(Header) + Len(rest)
        /\ \A i \in 1..(Len(Header) + Len(rest)) :
              (Header \o rest)[i] = IF i <= Len(Header) THEN Header[i] ELSE rest[i - Len(Header)]
    BY <1>4, <1>5, ConcatProperties
  <2> QED
    BY <1>3, <1>4, <1>5, <2>1
<1>7. Continues(Header, 0)
  BY <1>1, <1>4, <1>6 DEF Continues
<1>8. Expected[1] = StartBoard /\ Expected[2] = EndBoard
  <2>1. 1 \in 1..(3 + n) /\ 2 \in 1..(3 + n) /\ 1 <= 3 /\ 2 <= 3
    BY <1>1
  <2>2. Expected[1] = Header[1] /\ Expected[2] = Header[2]
    BY <1>6, <2>1
  <2> QED
    BY <2>2 DEF Header
<1>9. ASSUME NEW b \in Boards PROVE Expected[b - StartBoard + 4] = Iters[b]
  <2> DEFINE i == b - StartBoard + 4
             k == i - 3
  <2>1. b \in Nat /\ i \in 1..(3 + n) /\ ~(i <= 3) /\ k \in 1..n /\ StartBoard + k - 1 = b
    BY <1>1 DEF Boards, n
  <2>2. Expected[i] = rest[k]
    BY <1>6, <2>1
  <2>3. rest[k] = Iters[StartBoard + k - 1]
    BY <1>5, <2>1
  <2> QED
    BY <2>1, <2>2, <2>3
<1>10. Len(Expected) = EndBoard - StartBoard + 4
  BY <1>1, <1>6 DEF n
<1> QED
  BY <1>4, <1>6, <1>7, <1>8, <1>9, <1>10

\* A sequence that continues another continues it when the two are one.
LEMMA ContinuesBoth ==
    ASSUME NEW s \in Seq(Numbers), NEW t \in Seq(Numbers),
           Continues(s, 0), Continues(t, Len(s))
    PROVE  /\ s \o t \in Seq(Numbers) /\ Len(s \o t) = Len(s) + Len(t)
           /\ Continues(s \o t, 0)
<1>1. Len(s) \in Nat /\ Len(t) \in Nat
  BY LenProperties
<1>2. /\ s \o t \in Seq(Numbers) /\ Len(s \o t) = Len(s) + Len(t)
      /\ \A i \in 1..(Len(s) + Len(t)) :
            (s \o t)[i] = IF i <= Len(s) THEN s[i] ELSE t[i - Len(s)]
  BY ConcatProperties
<1>3. ASSUME NEW i \in 1..(Len(s) + Len(t)) PROVE (s \o t)[i] = Expected[i]
  <2>1. CASE i <= Len(s)
    <3>1. i \in 1..Len(s) /\ 0 + i = i
      BY <1>1, <2>1
    <3> QED
      BY <1>2, <2>1, <3>1 DEF Continues
  <2>2. CASE ~(i <= Len(s))
    <3>1. i - Len(s) \in 1..Len(t) /\ Len(s) + (i - Len(s)) = i
      BY <1>1, <2>2
    <3> QED
      BY <1>2, <2>2, <3>1 DEF Continues
  <2> QED
    BY <2>1, <2>2
<1>4. \A i \in 1..Len(s \o t) : 0 + i = i
  BY <1>1, <1>2
<1> QED
  BY <1>2, <1>3, <1>4 DEF Continues

\* One more number.
LEMMA ContinuesLonger ==
    ASSUME NEW s \in Seq(Numbers), NEW from \in Nat, NEW x \in Numbers, Continues(s, from),
           x = Expected[from + (Len(s) + 1)]
    PROVE  /\ Append(s, x) \in Seq(Numbers) /\ Len(Append(s, x)) = Len(s) + 1
           /\ Continues(Append(s, x), from)
<1>1. Len(s) \in Nat
  BY LenProperties
<1>2. /\ Append(s, x) \in Seq(Numbers) /\ Len(Append(s, x)) = Len(s) + 1
      /\ \A i \in 1..(Len(s) + 1) : Append(s, x)[i] = IF i <= Len(s) THEN s[i] ELSE x
  BY <1>1
<1>3. ASSUME NEW i \in 1..(Len(s) + 1) PROVE Append(s, x)[i] = Expected[from + i]
  <2>1. CASE i <= Len(s)
    <3>1. i \in 1..Len(s)
      BY <1>1, <2>1
    <3> QED
      BY <1>2, <2>1, <3>1 DEF Continues
  <2>2. CASE ~(i <= Len(s))
    <3>1. i = Len(s) + 1
      BY <1>1, <2>2
    <3> QED
      BY <1>2, <2>2, <3>1
  <2> QED
    BY <2>1, <2>2
<1> QED
  BY <1>2, <1>3 DEF Continues

\* The beginning of what continues another continues it.
LEMMA ContinuesShorter ==
    ASSUME NEW s \in Seq(Numbers), NEW from \in Nat, NEW n \in 0..Len(s), Continues(s, from)
    PROVE  /\ SubSeq(s, 1, n) \in Seq(Numbers) /\ Len(SubSeq(s, 1, n)) = n
           /\ Continues(SubSeq(s, 1, n), from)
<1>1. Len(s) \in Nat /\ n \in Nat /\ n <= Len(s)
  BY LenProperties
<1>2. \A i \in 1..n : i \in 1..Len(s)
  BY <1>1
<1>3. \A i \in 1..n : s[i] \in Numbers
  BY <1>2, ElementOfSeq
<1>4. /\ SubSeq(s, 1, n) \in Seq(Numbers)
      /\ Len(SubSeq(s, 1, n)) = IF 1 <= n THEN n - 1 + 1 ELSE 0
      /\ \A i \in 1..(n - 1 + 1) : SubSeq(s, 1, n)[i] = s[1 + i - 1]
  BY <1>1, <1>3, SubSeqProperties
<1>5. Len(SubSeq(s, 1, n)) = n /\ \A i \in 1..n : SubSeq(s, 1, n)[i] = s[i]
  BY <1>1, <1>4
<1> QED
  BY <1>2, <1>4, <1>5 DEF Continues

\* Nothing continues anything.
LEMMA NothingContinues ==
    ASSUME NEW from
    PROVE  <<>> \in Seq(Numbers) /\ Len(<<>>) = 0 /\ Continues(<<>>, from)
BY DEF Continues

\* The lengths are numbers.
LEMMA SerialLengths ==
    ASSUME SerialInv
    PROVE  /\ Len(file) \in Nat /\ Len(buffer) \in Nat /\ Len(Expected) \in Nat
           /\ StartBoard \in Nat /\ EndBoard \in Nat /\ StartBoard <= EndBoard
           /\ Len(Expected) = EndBoard - StartBoard + 4
<1>1. Len(file) \in Nat /\ Len(buffer) \in Nat
  BY LenProperties DEF SerialInv
<1> QED
  BY <1>1, ExpectedIs, RangeAssumption

\* There is no file at first.
LEMMA InitSerialInv == SerialInit => SerialInv
<1> SUFFICES ASSUME SerialInit PROVE SerialInv
  OBVIOUS
<1>1. file = <<>> /\ buffer = <<>> /\ program = "begin"
  BY DEF SerialInit
<1>2. Len(Expected) \in Nat
  BY ExpectedIs, RangeAssumption
<1>3. Len(file) = 0 /\ Len(buffer) = 0
  BY <1>1
<1> QED
  BY <1>1, <1>2, <1>3, NothingContinues DEF SerialInv

\* Where a run that was killed goes on.
LEMMA ResumedAtIs ==
    ASSUME SerialInv, Len(file) >= Len(Header)
    PROVE  ResumedAt = StartBoard + Len(file) - 3 /\ file[2] = EndBoard
<1>1. Len(Header) = 3
  BY ExpectedIs
<1>2. 1 \in 1..Len(file) /\ 2 \in 1..Len(file) /\ 0 + 1 = 1 /\ 0 + 2 = 2
  BY <1>1, SerialLengths
<1>3. file[1] = Expected[1] /\ file[2] = Expected[2]
  BY <1>2 DEF SerialInv, Continues
<1> QED
  BY <1>1, <1>3, ExpectedIs DEF ResumedAt

\* The number of the board that is next is the one that is missing.
LEMMA NextContinues ==
    ASSUME SerialInv, program = "solving", board_num <= EndBoard, NEW more,
           more = Append(buffer, Iters[board_num])
    PROVE  /\ more \in Seq(Numbers) /\ Continues(more, Len(file))
           /\ board_num + 1 \in StartBoard..(EndBoard + 1)
           /\ 3 + (board_num + 1) - StartBoard = Len(file) + Len(more)
           /\ Len(file) + Len(more) <= Len(Expected)
<1> DEFINE x == Iters[board_num]
<1>2. /\ board_num \in StartBoard..(EndBoard + 1)
      /\ Len(file) + Len(buffer) = 3 + board_num - StartBoard
      /\ file \in Seq(Numbers) /\ buffer \in Seq(Numbers)
      /\ Continues(file, 0) /\ Continues(buffer, Len(file))
  BY DEF SerialInv
<1>3. board_num \in Boards /\ board_num \in Nat
  BY <1>2, SerialLengths DEF Boards
<1>4. x \in Numbers /\ x = Expected[board_num - StartBoard + 4]
  BY <1>3, ExpectedIs DEF Numbers
<1> DEFINE lf == Len(file)
           lb == Len(buffer)
<1>5. lf + (lb + 1) = board_num - StartBoard + 4
  <2>1. lf \in Nat /\ lb \in Nat /\ StartBoard \in Nat
    BY SerialLengths
  <2>2. lf + lb = 3 + board_num - StartBoard
    BY <1>2
  <2> HIDE DEF lf, lb
  <2> QED
    BY <1>3, <2>1, <2>2
<1>6. /\ more \in Seq(Numbers) /\ Len(more) = Len(buffer) + 1 /\ Continues(more, Len(file))
  <2>1. x = Expected[lf + (lb + 1)] /\ more = Append(buffer, x)
    BY <1>4, <1>5
  <2> HIDE DEF x
  <2> QED
    BY <1>2, <1>4, <2>1, SerialLengths, ContinuesLonger
<1>7. /\ board_num + 1 \in StartBoard..(EndBoard + 1)
      /\ 3 + (board_num + 1) - StartBoard = Len(file) + Len(more)
      /\ Len(file) + Len(more) <= Len(Expected)
  <2> DEFINE lm == Len(more)
             le == Len(Expected)
  <2>1. /\ lf \in Nat /\ lb \in Nat /\ StartBoard \in Nat /\ EndBoard \in Nat
        /\ le = EndBoard - StartBoard + 4
    BY SerialLengths
  <2>2. lm = lb + 1
    BY <1>6
  <2>3. board_num <= EndBoard /\ board_num \in StartBoard..(EndBoard + 1)
    BY <1>2
  <2> HIDE DEF lf, lb, lm, le
  <2>4. /\ board_num + 1 \in StartBoard..(EndBoard + 1)
        /\ 3 + (board_num + 1) - StartBoard = lf + lm /\ lf + lm <= le
    BY <1>3, <1>5, <2>1, <2>2, <2>3
  <2> QED
    BY <2>4 DEF lf, lm, le
<1> QED
  BY <1>6, <1>7

\* That number is put into the buffer, or written with it.
LEMMA StepSolveAndPrint == SerialInv /\ SolveAndPrint => SerialInv'
<1> SUFFICES ASSUME SerialInv, SolveAndPrint PROVE SerialInv'
  OBVIOUS
<1> DEFINE x == Iters[board_num]
<1>1. /\ program = "solving" /\ board_num <= EndBoard
      /\ buffer' = PrintInt(buffer, x) /\ file' = file \o Written(buffer, x)
      /\ board_num' = board_num + 1 /\ program' = program /\ exists' = exists
  BY DEF SolveAndPrint
<1>2. /\ file \in Seq(Numbers) /\ Continues(file, 0)
  BY DEF SerialInv
<1>3. PICK more : more = Append(buffer, x)
  OBVIOUS
<1>6. /\ more \in Seq(Numbers) /\ Continues(more, Len(file))
      /\ board_num + 1 \in StartBoard..(EndBoard + 1)
      /\ 3 + (board_num + 1) - StartBoard = Len(file) + Len(more)
      /\ Len(file) + Len(more) <= Len(Expected)
  BY <1>1, <1>3, NextContinues
<1>7. /\ board_num' \in StartBoard..(EndBoard + 1)
      /\ 3 + board_num' - StartBoard = Len(file) + Len(more)
      /\ Len(file) + Len(more) <= Len(Expected)
  BY <1>1, <1>6
<1> HIDE DEF x
<1>8. \/ PrintInt(buffer, x) = <<>> /\ Written(buffer, x) = more
      \/ PrintInt(buffer, x) = more /\ Written(buffer, x) = <<>>
  BY <1>3 DEF PrintInt, Written
<1>9. exists
  BY <1>1 DEF SerialInv
<1>10. CASE PrintInt(buffer, x) = <<>> /\ Written(buffer, x) = more
  <2>1. buffer' = <<>> /\ file' = file \o more
    BY <1>1, <1>10
  <2>2. /\ file' \in Seq(Numbers) /\ Len(file') = Len(file) + Len(more) /\ Continues(file', 0)
    BY <1>2, <1>6, <2>1, ContinuesBoth
  <2>3. buffer' \in Seq(Numbers) /\ Len(buffer') = 0 /\ Continues(buffer', Len(file'))
    BY <2>1, NothingContinues
  <2>4. Len(file') + Len(buffer') = Len(file) + Len(more)
    BY <1>6, <2>2, <2>3, SerialLengths
  <2>5. Continues(file, 0)' /\ Continues(buffer, Len(file))'
    BY <2>2, <2>3 DEF Continues, Expected, Header
  <2>6. Len(Expected)' = Len(Expected)
    BY DEF Expected, Header
  <2> QED
    BY <1>1, <1>7, <1>9, <2>2, <2>3, <2>4, <2>5, <2>6 DEF SerialInv
<1>11. CASE PrintInt(buffer, x) = more /\ Written(buffer, x) = <<>>
  <2>1. buffer' = more /\ file' = file
    BY <1>1, <1>2, <1>11, ConcatEmptySeq
  <2> QED
    BY <1>1, <1>2, <1>6, <1>7, <1>9, <2>1 DEF SerialInv, Continues
<1> QED
  BY <1>8, <1>10, <1>11

\* Every step of the program, and being killed and started again.
LEMMA StepSerial == SerialInv /\ [SerialNext]_serialVars => SerialInv'
<1> SUFFICES ASSUME SerialInv, [SerialNext]_serialVars PROVE SerialInv'
  OBVIOUS
<1>0. /\ Len(file) \in Nat /\ Len(buffer) \in Nat /\ Len(Expected) \in Nat
      /\ StartBoard \in Nat /\ EndBoard \in Nat /\ StartBoard <= EndBoard
      /\ Len(Expected) = EndBoard - StartBoard + 4 /\ Len(Header) = 3
  BY SerialLengths, ExpectedIs
<1>1. CASE NewFile
  <2>1. /\ file' = <<>> /\ buffer' = Header /\ board_num' = StartBoard /\ program' = "solving"
        /\ exists'
    BY <1>1 DEF NewFile
  <2>2. Len(<<>>) = 0
    OBVIOUS
  <2>3. 0 + 3 = 3 + StartBoard - StartBoard /\ StartBoard \in StartBoard..(EndBoard + 1)
        /\ 0 + 3 <= Len(Expected)
    BY <1>0
  <2> QED
    BY <1>0, <2>1, <2>2, <2>3, ExpectedIs, NothingContinues DEF SerialInv
<1>2. CASE FileTooShort
  BY <1>2 DEF FileTooShort, TurnedDown, SerialInv
<1>10. CASE InvalidLength
  BY <1>10 DEF InvalidLength, HeaderRead, TurnedDown, SerialInv
<1>3. CASE AlreadyFinished
  <2>1. Len(file) >= Len(Expected) - 1
    BY <1>0, <1>3, ResumedAtIs DEF AlreadyFinished, HeaderRead
  <2> QED
    BY <1>3, <2>1 DEF AlreadyFinished, HeaderRead, TurnedDown, SerialInv
<1>4. CASE ResumeFile
  <2>1. /\ program = "begin" /\ exists /\ board_num' = ResumedAt /\ ResumedAt < file[2]
        /\ Len(file) >= Len(Header)
        /\ buffer' = <<>> /\ program' = "solving" /\ file' = file /\ exists' = exists
    BY <1>4 DEF ResumeFile, HeaderRead
  <2>2. ResumedAt = StartBoard + Len(file) - 3 /\ file[2] = EndBoard
    BY <2>1, ResumedAtIs
  <2>3. /\ board_num' \in StartBoard..(EndBoard + 1)
        /\ Len(file) + 0 = 3 + board_num' - StartBoard
        /\ Len(file) + 0 <= Len(Expected)
    BY <1>0, <2>1, <2>2
  <2> QED
    BY <2>1, <2>3, NothingContinues DEF SerialInv
<1>5. CASE SolveAndPrint
  BY <1>5, StepSolveAndPrint
<1>6. ASSUME NEW why \in {"closed", "plan_error"}, program = "solving", BinClose(why),
             why = "closed" => board_num > EndBoard
      PROVE  SerialInv'
  <2>1. file' = file \o buffer /\ buffer' = <<>> /\ program' = why /\ exists' = exists
    BY <1>6 DEF BinClose
  <2>2. /\ file' \in Seq(Numbers) /\ Len(file') = Len(file) + Len(buffer) /\ Continues(file', 0)
    BY <2>1, ContinuesBoth DEF SerialInv
  <2>3. why = "closed" => Len(file') = Len(Expected)
    BY <1>0, <1>6, <2>2 DEF SerialInv
  <2>4. Len(file') + 0 <= Len(Expected)
    BY <1>0, <2>2 DEF SerialInv
  <2>5. exists
    BY <1>6 DEF SerialInv
  <2> QED
    BY <2>1, <2>2, <2>3, <2>4, <2>5, NothingContinues DEF SerialInv
<1>11. CASE RangeDone
  BY <1>6, <1>11 DEF RangeDone
<1>12. CASE StopAtPlanError
  BY <1>6, <1>12 DEF StopAtPlanError
<1>7. CASE Kill
  <2>1. /\ buffer' = <<>> /\ program' = "killed" /\ exists' = exists
        /\ program = "solving"
    BY <1>7 DEF Kill
  <2>0. PICK sent \in OnItsWay : \E n \in 0..Len(sent) : file' = file \o SubSeq(sent, 1, n)
    BY <1>7 DEF Kill
  <2>2. PICK n \in 0..Len(sent) : file' = file \o SubSeq(sent, 1, n)
    BY <2>0
  <2>3. sent \in Seq(Numbers) /\ Continues(sent, Len(file)) /\ Len(file) + Len(sent) <= Len(Expected)
    <3>1. CASE sent = buffer
      BY <3>1 DEF SerialInv
    <3>2. CASE sent # buffer
      <4>1. board_num <= EndBoard /\ sent = Written(buffer, Iters[board_num])
        BY <2>0, <3>2 DEF OnItsWay
      <4>2. CASE sent = <<>>
        <5>1. Len(file) + 0 <= Len(Expected)
          BY <1>0 DEF SerialInv
        <5> QED
          BY <4>2, <5>1, NothingContinues
      <4>3. CASE sent # <<>>
        <5>1. sent = Append(buffer, Iters[board_num])
          BY <4>1, <4>3 DEF Written
        <5> QED
          BY <2>1, <4>1, <5>1, NextContinues
      <4> QED
        BY <4>2, <4>3
    <3> QED
      BY <3>1, <3>2
  <2>4. PICK head : head = SubSeq(sent, 1, n)
    OBVIOUS
  <2>5. /\ head \in Seq(Numbers) /\ Len(head) = n /\ Continues(head, Len(file))
    BY <1>0, <2>3, <2>4, ContinuesShorter
  <2>6. /\ file' \in Seq(Numbers) /\ Len(file') = Len(file) + n /\ Continues(file', 0)
    <3>1. file \in Seq(Numbers) /\ Continues(file, 0)
      BY DEF SerialInv
    <3>2. file \o head \in Seq(Numbers) /\ Len(file \o head) = Len(file) + Len(head)
          /\ Continues(file \o head, 0)
      BY <2>5, <3>1, ContinuesBoth
    <3>3. file' = file \o head
      BY <2>2, <2>4
    <3> QED
      BY <2>5, <3>2, <3>3
  <2>7. Len(file') + 0 <= Len(Expected)
    <3>1. Len(sent) \in Nat /\ n \in Nat /\ n <= Len(sent)
      BY <2>3, LenProperties
    <3> QED
      BY <1>0, <2>3, <2>6, <3>1
  <2>8. exists
    BY <2>1 DEF SerialInv
  <2> QED
    BY <2>1, <2>6, <2>7, <2>8, NothingContinues DEF SerialInv
<1>8. CASE StartAgain
  BY <1>8 DEF StartAgain, SerialInv
<1>9. CASE UNCHANGED serialVars
  BY <1>9 DEF serialVars, SerialInv
<1> QED
  BY <1>1, <1>2, <1>3, <1>4, <1>5, <1>7, <1>8, <1>9, <1>10, <1>11, <1>12 DEF SerialNext, SerialStep

\* A file that continues nothing as Expected does is a beginning of it.
LEMMA SerialInvHolds == SerialInv => SerialExact
<1> SUFFICES ASSUME SerialInv PROVE SerialExact
  OBVIOUS
<1> DEFINE n == Len(file)
<1>0. /\ n \in Nat /\ Len(Expected) \in Nat /\ Expected \in Seq(Numbers)
      /\ file \in Seq(Numbers) /\ Continues(file, 0)
  BY SerialLengths, ExpectedIs DEF SerialInv
<1>1. n <= Len(Expected)
  BY SerialLengths DEF SerialInv
<1>2. \A i \in 1..n : i \in 1..Len(Expected) /\ 0 + i = i
  BY <1>0, <1>1
<1>3. \A i \in 1..n : Expected[i] \in Numbers /\ file[i] = Expected[i]
  BY <1>0, <1>2, ElementOfSeq DEF Continues
<1> HIDE DEF n
<1>4. /\ SubSeq(Expected, 1, n) \in Seq(Numbers)
      /\ Len(SubSeq(Expected, 1, n)) = IF 1 <= n THEN n - 1 + 1 ELSE 0
      /\ \A i \in 1..(n - 1 + 1) : SubSeq(Expected, 1, n)[i] = Expected[1 + i - 1]
  BY <1>0, <1>3, SubSeqProperties
<1>5. Len(SubSeq(Expected, 1, n)) = n /\ \A i \in 1..n : SubSeq(Expected, 1, n)[i] = Expected[i]
  BY <1>0, <1>4
<1>6. file = SubSeq(Expected, 1, n)
  BY <1>0, <1>3, <1>4, <1>5, SeqEqual DEF n
<1>7. program = "closed" => file = Expected
  <2> SUFFICES ASSUME program = "closed" PROVE file = Expected
    OBVIOUS
  <2>1. Len(file) = Len(Expected)
    BY DEF SerialInv
  <2> QED
    BY <1>0, <1>3, <2>1, SeqEqual DEF n
<1> QED
  BY <1>6, <1>7 DEF SerialInv, SerialExact, n

-----------------------------------------------------------------------------
\* A program that is killed and started again with the same arguments, however
\* often and at whatever point, leaves in its output file the result of each
\* board in its place (serial_range_solver.c, range_solvers_binary_output.h).
THEOREM SerialRangeIsExact == SerialSpec => []SerialExact
BY InitSerialInv, StepSerial, SerialInvHolds, PTL DEF SerialSpec

\* The three programs together.
THEOREM RangesAreExact == ThreadedSpec /\ ForkingSpec /\ SerialSpec => []RangeExact
<1>1. ThreadedExact /\ ForkingExact /\ SerialExact => RangeExact
  BY DEF RangeExact
<1> QED
  BY <1>1, ThreadedRangeIsExact, ForkingRangeIsExact, SerialRangeIsExact, PTL
     DEF ThreadedSpec, ForkingSpec

-----------------------------------------------------------------------------
(***************************************************************************)
(* What positions lead to.  Spread is a recursive function over numbers of *)
(* rounds: that it exists, that no round adds anything after as many as    *)
(* there are positions, and that it is the least set that is closed.       *)
(***************************************************************************)
\* The positions that a round adds to ks, and the rounds up to m.
Added(ks, fs) == {k \in UNION {Derives[j] : j \in ks} : Fingerprint[k] \in fs}
RoundsTo(c, ks, fs, m) ==
    c = [n \in 0..m |-> IF n = 0 THEN ks ELSE c[n - 1] \cup Added(c[n - 1], fs)]

\* There are such rounds: each follows from the one before it.
LEMMA RoundsExist ==
    ASSUME NEW ks, NEW fs, NEW m \in Nat
    PROVE  \E c : RoundsTo(c, ks, fs, m)
<1> DEFINE S == {n \in 0..m : \E c : RoundsTo(c, ks, fs, n)}
<1>1. 0 \in S
  <2>1. RoundsTo([n \in 0..0 |-> ks], ks, fs, 0)
    BY DEF RoundsTo
  <2> QED
    BY <2>1
<1>2. ASSUME NEW i \in 0..(m - 1), i \in S
      PROVE  i + 1 \in S
  <2>1. PICK c : RoundsTo(c, ks, fs, i)
    BY <1>2
  <2> DEFINE g == [n \in 0..(i + 1) |-> IF n = i + 1 THEN c[i] \cup Added(c[i], fs) ELSE c[n]]
  <2>2. \A n \in 0..i : c[n] = IF n = 0 THEN ks ELSE c[n - 1] \cup Added(c[n - 1], fs)
    BY <2>1 DEF RoundsTo
  <2>3. \A n \in 0..(i + 1) : g[n] = IF n = 0 THEN ks ELSE g[n - 1] \cup Added(g[n - 1], fs)
    <3> SUFFICES ASSUME NEW n \in 0..(i + 1)
                 PROVE  g[n] = IF n = 0 THEN ks ELSE g[n - 1] \cup Added(g[n - 1], fs)
      OBVIOUS
    <3>1. CASE n = i + 1
      <4>1. n \in 0..(i + 1) /\ n # 0 /\ n - 1 = i /\ i \in 0..(i + 1) /\ i # i + 1
        BY <3>1
      <4>2. g[n] = c[i] \cup Added(c[i], fs) /\ g[i] = c[i]
        BY <3>1, <4>1, Zenon
      <4> HIDE DEF g
      <4> QED
        BY <4>1, <4>2, Zenon
    <3>2. CASE n # i + 1
      <4>1. n \in 0..i /\ n - 1 # i + 1 /\ (n # 0 => n - 1 \in 0..i)
        BY <3>2
      <4>2. g[n] = c[n] /\ (n # 0 => g[n - 1] = c[n - 1])
        BY <3>2, <4>1
      <4> HIDE DEF g
      <4> QED
        BY <2>2, <4>1, <4>2
    <3> QED
      BY <3>1, <3>2
  <2>4. RoundsTo(g, ks, fs, i + 1)
    BY <2>3 DEF RoundsTo
  <2> QED
    BY <2>4
<1> HIDE DEF S
<1>3. m \in S
  BY <1>1, <1>2, StepByStep
<1> QED
  BY <1>3 DEF S

\* Spread is the last of those rounds.
LEMMA SpreadIsLast ==
    ASSUME NEW ks, NEW fs, NEW N \in Nat, N = Cardinality(Layouts)
    PROVE  \E c : RoundsTo(c, ks, fs, N) /\ Spread(ks, fs) = c[N]
<1> DEFINE R(c) == c = [n \in 0..N |->
                          IF n = 0 THEN ks
                          ELSE c[n - 1] \cup {k \in UNION {Derives[j] : j \in c[n - 1]} : Fingerprint[k] \in fs}]
<1>1. Spread(ks, fs) = (CHOOSE c : R(c))[N]
  BY Zenon DEF Spread
<1>2. \E c : R(c)
  <2>1. PICK c : RoundsTo(c, ks, fs, N)
    BY RoundsExist
  <2>2. R(c)
    BY <2>1, Zenon DEF RoundsTo, Added
  <2> QED
    BY <2>2
<1>3. R(CHOOSE c : R(c))
  <2> HIDE DEF R
  <2> QED
    BY <1>2
<1>4. RoundsTo((CHOOSE c : R(c)), ks, fs, N)
  BY <1>3, Zenon DEF RoundsTo, Added
<1> HIDE DEF R
<1> QED
  BY <1>1, <1>4

\* What a round adds are positions.
LEMMA AddedArePositions ==
    ASSUME NEW ks \in SUBSET Layouts, NEW fs
    PROVE  Added(ks, fs) \in SUBSET Layouts
BY SplitAssumption DEF Added

\* The rounds hold positions only, and grow.
Growing(c, ks, fs, m) ==
    /\ c[0] = ks
    /\ \A n \in 0..(m - 1) : c[n + 1] = c[n] \cup Added(c[n], fs)
    /\ \A n \in 0..m : c[n] \in SUBSET Layouts /\ ks \subseteq c[n]

LEMMA RoundsGrow ==
    ASSUME NEW ks \in SUBSET Layouts, NEW fs, NEW N \in Nat, NEW c, RoundsTo(c, ks, fs, N)
    PROVE  Growing(c, ks, fs, N)
<1>1. \A n \in 0..N : c[n] = IF n = 0 THEN ks ELSE c[n - 1] \cup Added(c[n - 1], fs)
  BY DEF RoundsTo
<1>2. c[0] = ks
  <2>1. 0 \in 0..N
    OBVIOUS
  <2>2. c[0] = IF 0 = 0 THEN ks ELSE c[0 - 1] \cup Added(c[0 - 1], fs)
    BY <1>1, <2>1, Zenon
  <2> QED
    BY <2>2, Zenon
<1>3. \A n \in 0..(N - 1) : c[n + 1] = c[n] \cup Added(c[n], fs)
  <2> SUFFICES ASSUME NEW n \in 0..(N - 1) PROVE c[n + 1] = c[n] \cup Added(c[n], fs)
    OBVIOUS
  <2>1. n + 1 \in 0..N /\ n + 1 # 0 /\ (n + 1) - 1 = n
    OBVIOUS
  <2>2. c[n + 1] = c[(n + 1) - 1] \cup Added(c[(n + 1) - 1], fs)
    BY <1>1, <2>1
  <2> QED
    BY <2>1, <2>2
<1> DEFINE S == {n \in 0..N : c[n] \in SUBSET Layouts /\ ks \subseteq c[n]}
<1>4. 0 \in S
  BY <1>2
<1>5. ASSUME NEW i \in 0..(N - 1), i \in S PROVE i + 1 \in S
  <2>1. c[i + 1] = c[i] \cup Added(c[i], fs)
    BY <1>3
  <2>2. c[i] \in SUBSET Layouts /\ ks \subseteq c[i] /\ i + 1 \in 0..N
    BY <1>5
  <2>3. Added(c[i], fs) \in SUBSET Layouts
    BY <2>2, AddedArePositions
  <2> QED
    BY <2>1, <2>2, <2>3
<1>6. \A n \in 0..N : n \in S
  <2> HIDE DEF S
  <2> QED
    BY <1>4, <1>5, StepByStep
<1> QED
  BY <1>2, <1>3, <1>6 DEF Growing

\* The last round is closed: each that is not the last adds a position, or none
\* does after it.
LEMMA LastRoundIsClosed ==
    ASSUME NEW ks \in SUBSET Layouts, NEW fs, NEW N \in Nat, N = Cardinality(Layouts),
           NEW c, RoundsTo(c, ks, fs, N)
    PROVE  Added(c[N], fs) \subseteq c[N]
<1>0. IsFiniteSet(Layouts)
  BY SplitAssumption
<1>1. /\ c[0] = ks
      /\ \A n \in 0..(N - 1) : c[n + 1] = c[n] \cup Added(c[n], fs)
      /\ \A n \in 0..N : c[n] \in SUBSET Layouts /\ ks \subseteq c[n]
  <2>1. Growing(c, ks, fs, N)
    BY RoundsGrow, Zenon
  <2> QED
    BY <2>1 DEF Growing
<1> DEFINE S == {n \in 0..N : Added(c[n], fs) \subseteq c[n] \/ Cardinality(c[n]) >= n}
<1>2. \A n \in 0..N : IsFiniteSet(c[n]) /\ Cardinality(c[n]) \in Nat
  BY <1>0, <1>1, FS_Subset, FS_CardinalityType
<1>3. 0 \in S
  BY <1>2
<1>4. ASSUME NEW i \in 0..(N - 1), i \in S PROVE i + 1 \in S
  <2>0. i \in 0..N /\ i + 1 \in 0..N
    OBVIOUS
  <2>1. c[i + 1] = c[i] \cup Added(c[i], fs)
    BY <1>1
  <2>2. CASE Added(c[i], fs) \subseteq c[i]
    <3>1. c[i + 1] = c[i]
      BY <2>1, <2>2
    <3> QED
      BY <2>0, <2>2, <3>1
  <2>3. CASE ~(Added(c[i], fs) \subseteq c[i])
    <3>1. c[i] \subseteq c[i + 1] /\ c[i] # c[i + 1]
      BY <2>1, <2>3
    <3>2. Cardinality(c[i]) >= i
      BY <1>4, <2>3
    <3>3. Cardinality(c[i]) <= Cardinality(c[i + 1]) /\ Cardinality(c[i]) # Cardinality(c[i + 1])
      <4>1. c[i] \in SUBSET c[i + 1] /\ IsFiniteSet(c[i + 1])
        BY <1>2, <2>0, <3>1
      <4> QED
        BY <3>1, <4>1, FS_Subset
    <3>4. Cardinality(c[i + 1]) >= i + 1
      BY <1>2, <2>0, <3>2, <3>3
    <3> QED
      BY <2>0, <3>4
  <2> QED
    BY <2>2, <2>3
<1>5. N \in S
  <2> HIDE DEF S
  <2> QED
    BY <1>3, <1>4, StepByStep
<1>6. CASE Added(c[N], fs) \subseteq c[N]
  BY <1>6
<1>7. CASE Cardinality(c[N]) >= N
  <2>1. c[N] \in SUBSET Layouts
    BY <1>1
  <2>2. Cardinality(c[N]) <= N /\ Cardinality(c[N]) \in Nat
    BY <1>0, <1>2, <2>1, FS_Subset
  <2>3. c[N] = Layouts
    BY <1>0, <1>7, <2>1, <2>2, FS_Subset
  <2> QED
    BY <2>1, <2>3, AddedArePositions
<1> QED
  BY <1>5, <1>6, <1>7

\* What Spread(ks, fs) is.
LEMMA SpreadIsLeast ==
    ASSUME NEW ks \in SUBSET Layouts, NEW fs
    PROVE  /\ Spread(ks, fs) \in SUBSET Layouts
           /\ ks \subseteq Spread(ks, fs)
           /\ \A j \in Spread(ks, fs) : \A k \in Derives[j] :
                 Fingerprint[k] \in fs => k \in Spread(ks, fs)
           /\ \A S : /\ ks \subseteq S
                     /\ \A j \in S \cap Layouts : \A k \in Derives[j] : Fingerprint[k] \in fs => k \in S
                     => Spread(ks, fs) \subseteq S
<1>1. PICK N \in Nat : N = Cardinality(Layouts)
  BY SplitAssumption, FS_CardinalityType
<1>2. PICK c : RoundsTo(c, ks, fs, N) /\ Spread(ks, fs) = c[N]
  BY <1>1, SpreadIsLast
<1>3. /\ c[0] = ks
      /\ \A n \in 0..(N - 1) : c[n + 1] = c[n] \cup Added(c[n], fs)
      /\ \A n \in 0..N : c[n] \in SUBSET Layouts /\ ks \subseteq c[n]
  <2>1. Growing(c, ks, fs, N)
    BY <1>2, RoundsGrow, Zenon
  <2> QED
    BY <2>1 DEF Growing
<1>4. Added(c[N], fs) \subseteq c[N]
  BY <1>1, <1>2, LastRoundIsClosed
<1>5. ASSUME NEW j \in c[N], NEW k \in Derives[j], Fingerprint[k] \in fs PROVE k \in c[N]
  BY <1>4, <1>5 DEF Added
<1>6. ASSUME NEW S, ks \subseteq S,
             \A j \in S \cap Layouts : \A k \in Derives[j] : Fingerprint[k] \in fs => k \in S
      PROVE  c[N] \subseteq S
  <2> DEFINE T == {n \in 0..N : c[n] \subseteq S}
  <2>1. 0 \in T
    BY <1>3, <1>6
  <2>2. ASSUME NEW i \in 0..(N - 1), i \in T PROVE i + 1 \in T
    <3>1. c[i] \subseteq S /\ c[i] \in SUBSET Layouts /\ i + 1 \in 0..N
      BY <1>3, <2>2
    <3>2. c[i + 1] = c[i] \cup Added(c[i], fs)
      BY <1>3
    <3>3. Added(c[i], fs) \subseteq S
      BY <1>6, <3>1 DEF Added
    <3> QED
      BY <3>1, <3>2, <3>3
  <2>3. N \in T
    <3> HIDE DEF T
    <3> QED
      BY <2>1, <2>2, StepByStep
  <2> QED
    BY <2>3
<1> QED
  BY <1>2, <1>3, <1>5, <1>6

\* All that the deal leads to: the deal, and what its moves lead on to.
LEMMA ReachedIsClosed ==
    /\ FirstLayout \in AllReached /\ AllReached \in SUBSET Layouts
    /\ \A j \in AllReached : \A k \in Derives[j] : k \in AllReached
<1>1. {FirstLayout} \in SUBSET Layouts
  BY SplitAssumption
<1>2. /\ AllReached \in SUBSET Layouts /\ {FirstLayout} \subseteq AllReached
      /\ \A j \in AllReached : \A k \in Derives[j] : Fingerprint[k] \in Fingerprints => k \in AllReached
  BY <1>1, SpreadIsLeast DEF AllReached
<1>3. \A j \in Layouts : \A k \in Derives[j] : Fingerprint[k] \in Fingerprints
  BY SplitAssumption DEF Fingerprints
<1> QED
  BY <1>2, <1>3

-----------------------------------------------------------------------------
(***************************************************************************)
(* What is known of the files and of the solver, and what is complete.     *)
(***************************************************************************)
FccLines == [state : Layouts, depth : Nat]
Entries == [key : Layouts, ancestor : Nat, depth : Nat]
States(lines) == {l.state : l \in lines}
SplitSpec == SplitInit /\ [][SplitNext]_splitVars

\* The types.
SplitTypeOK ==
    /\ input \in [Fingerprints -> SUBSET FccLines]
    /\ by_fingerprint \in [Fingerprints -> SUBSET FccLines]
    /\ finished \in SUBSET Fingerprints /\ success \in SUBSET Fingerprints
    /\ exits \in SUBSET FccLines
    /\ stage \in {"idle", "solving", "sorting", "merging"}
    /\ fcc \in Fingerprints /\ renamed \in Fingerprints \cup {Nowhere}
    /\ coll \in [queue : SUBSET Entries, store : SUBSET Layouts, in_flight : Int, terminate : BOOLEAN]
    /\ thread \in [Workers -> [pc : {"take", "check", "expand", "insert", "done"},
                               item : Entries \cup {NoItem}, held : BOOLEAN,
                               derived : SUBSET Layouts, seen : Int]]

\* A line belongs to the file of f; the lines of all files do, each position once, and
\* nothing was left in ./by.
Belongs(f, l) == Fingerprint[l.state] = f /\ l.state \in AllReached /\ l.depth <= FccDepth[f]
FilesInv ==
    /\ by = {}
    /\ \A f \in Fingerprints :
          /\ \A l \in input[f] : Belongs(f, l) /\ \A m \in input[f] : m.state = l.state => m = l
          /\ \A l \in by_fingerprint[f] : Belongs(f, l)
    /\ FirstLayout \in States(input[Fingerprint[FirstLayout]])

\* The components whose new lines are not merged yet.  No component that is left is
\* less deep than one that is finished, nor than the one being searched, and only
\* deeper ones are merged into.
Unmerged == {f \in Fingerprints : by_fingerprint[f] # {}}
OrderInv ==
    /\ \A f \in finished, g \in Pending : FccDepth[f] <= FccDepth[g]
    /\ stage # "idle" \/ Unmerged # {} =>
          fcc \in Pending /\ \A g \in Pending : FccDepth[fcc] <= FccDepth[g]
    /\ \A f \in Unmerged : FccDepth[f] > FccDepth[fcc]
    /\ renamed # Nowhere => stage = "merging" /\ renamed \in Unmerged

\* What is queued is of the component, and what is written is of deeper ones.
OfFcc(i) == Fingerprint[i.key] = fcc /\ i.key \in AllReached /\ i.ancestor <= FccDepth[fcc]
ExitsInv ==
    stage \in {"solving", "sorting"} =>
        \A l \in exits : /\ l.state \in AllReached /\ l.depth <= FccDepth[Fingerprint[l.state]]
                         /\ FccDepth[Fingerprint[l.state]] > FccDepth[fcc]
\* The threads that have an item, and what each knows of its own.
Holders == {t \in Workers : thread[t].held}
ThreadInv(t) ==
    LET h == thread[t] IN
    /\ h.held => h.item \in Entries /\ OfFcc(h.item)
    /\ h.pc \in {"expand", "insert"} => h.held
    /\ h.pc = "check" /\ ~h.held => h.item = NoItem \/ coll.terminate
    /\ h.pc = "check" /\ h.held => h.seen > 0
    /\ h.pc = "insert" => h.derived \subseteq Derives[h.item.key] /\ h.derived # {}
\* Of each position of the component that is known: it is queued, or a thread has it,
\* or what is derived from it is stored, or about to be by a thread with the lock.
Expanding(t, k) == thread[t].pc \in {"check", "expand"} /\ thread[t].held /\ thread[t].item.key = k
Inserting(t, k) == thread[t].pc = "insert" /\ k \in thread[t].derived
Known == {k \in States(input[fcc]) \cup coll.store : Fingerprint[k] = fcc}
Expanded(k) == k # WonLayout /\ \A j \in Derives[k] : j \in coll.store \/ \E t \in Workers : Inserting(t, j)
WorkInv ==
    fcc \in success \/ \A k \in Known :
        \/ \E i \in coll.queue : i.key = k
        \/ \E t \in Workers : Expanding(t, k)
        \/ Expanded(k)
\* A thread that leaves does so when there is nothing queued and no other has an item.
Leaving(t) == thread[t].pc = "done" \/ (thread[t].pc = "check" /\ thread[t].seen = 0)
QuietInv ==
    fcc \in success \/ ((\E t \in Workers : Leaving(t)) => coll.queue = {} /\ Holders = {})
SolverInv ==
    stage = "solving" =>
        /\ \A i \in coll.queue : OfFcc(i)
        /\ \A t \in Workers : ThreadInv(t)
        /\ coll.in_flight = Cardinality(Holders)
        /\ coll.terminate => fcc \in success
        /\ \A k \in coll.store : Fingerprint[k] # fcc => k \in States(exits)
        /\ WorkInv
        /\ QuietInv
\* There are no threads but those of the solver.
IdleInv == stage # "solving" => \A t \in Workers : thread[t].pc = "done"
BaseInv == SplitTypeOK /\ FilesInv /\ OrderInv /\ ExitsInv /\ IdleInv /\ SolverInv

\* What a component is, where it is left, and whether all that has arrived: in the file
\* of exits, then in those sorted by component or in the input files, then in these.
Inside(f) == Within(f, States(input[f]))
Leaves(f) == {k \in UNION {Derives[j] : j \in Inside(f)} : Fingerprint[k] # f}
Entered == {k \in Layouts : k \in States(input[Fingerprint[k]])}
Sorted == {k \in Layouts : k \in States(by_fingerprint[Fingerprint[k]])}
Searched(f, ks) == WonLayout \notin Inside(f) /\ Leaves(f) \subseteq ks
DoneInv ==
    /\ stage = "sorting" /\ fcc \notin success => Searched(fcc, States(exits))
    /\ stage = "merging" /\ fcc \notin success =>
          Searched(fcc, Entered \cup Sorted)
    /\ \A f \in finished \ success : Searched(f, Entered)
    /\ renamed # Nowhere => States(by_fingerprint[renamed]) \subseteq States(input[renamed])

\* The positions that a merge drops are those of new lines at the depth of the last line
\* of the file, and only when no new line is deeper.
DropsOnlyTheLast ==
    \A f \in Fingerprints : renamed = Nowhere /\ renamed' = f =>
        \A l \in LeastDeep(by_fingerprint[f]) : l.state \notin States(input'[f]) =>
            /\ input[f] # {} /\ l.depth = Max(Depths(input[f]))
            /\ \A m \in LeastDeep(by_fingerprint[f]) : m.depth <= l.depth

\* No merge drops a position, as the one of the finding does.
NothingDropped ==
    \A f \in Fingerprints : renamed = Nowhere /\ renamed' = f
        => States(by_fingerprint[f]) \subseteq States(input'[f])

-----------------------------------------------------------------------------
\* The greatest of a set of numbers up to some bound.
LEMMA MaxIsGreatest ==
    ASSUME NEW D \in Nat, NEW S \in SUBSET (0..D), S # {}
    PROVE  Max(S) \in S /\ \A y \in S : y <= Max(S)
<1> DEFINE U == {D - x : x \in S}
<1>1. U \in SUBSET Nat /\ U # {}
  <2>1. \A x \in S : x \in 0..D /\ D - x \in Nat
    OBVIOUS
  <2>2. PICK x \in S : TRUE
    OBVIOUS
  <2> QED
    BY <2>1, <2>2
<1>2. PICK u \in U : \A v \in U : ~(<<v, u>> \in OpToRel(<, Nat))
  <2> HIDE DEF U
  <2> QED
    BY <1>1, WFMin, NatLessThanWellFounded
<1>3. PICK x \in S : u = D - x
  OBVIOUS
<1>4. ASSUME NEW y \in S PROVE x >= y
  <2>1. x \in 0..D /\ y \in 0..D
    OBVIOUS
  <2>2. D - y \in U /\ D - y \in Nat /\ u \in Nat
    BY <2>1, <1>3
  <2>3. ~(D - y < u)
    <3> HIDE DEF U
    <3> QED
      BY <1>2, <2>2 DEF OpToRel
  <2> QED
    BY <1>3, <2>1, <2>3
<1>5. Max(S) \in S /\ \A y \in S : Max(S) >= y
  BY <1>4 DEF Max
<1> QED
  BY <1>5

\* A merge keeps the positions of the old lines, brings in new lines only, and
\* leaves one line of each position.
LEMMA MergedIsClean ==
    ASSUME NEW D \in Nat, NEW old \in SUBSET FccLines, NEW lines \in SUBSET FccLines,
           old # {}, \A l \in old : l.depth <= D,
           \A l, m \in old : m.state = l.state => m = l,
           NEW max_depth \in Nat,
           NEW M, M = Merged(old, LeastDeep(lines), max_depth)
    PROVE  /\ M \subseteq old \cup lines
           /\ \A l, m \in M : m.state = l.state => m = l
           /\ \A l \in old : \E m \in M : m.state = l.state
<1> DEFINE new == LeastDeep(lines)
           last == Max(Depths(old))
           left == {l \in new : \A m \in old : m.state = l.state => m.depth > l.depth}
<1>1. new \subseteq lines /\ \A l, m \in new : m.state = l.state => m = l
  <2>1. new \subseteq lines
    BY DEF LeastDeep
  <2>2. ASSUME NEW l \in new, NEW m \in new, m.state = l.state PROVE m = l
    <3>1. l \in FccLines /\ m \in FccLines
      BY <2>1
    <3>2. l.depth <= m.depth /\ m.depth <= l.depth
      BY <2>2 DEF LeastDeep
    <3> QED
      BY <2>2, <3>1, <3>2 DEF FccLines
  <2> QED
    BY <2>1, <2>2
<1>2. last \in Nat /\ \A l \in old : l.depth <= last
  <2>1. Depths(old) \in SUBSET (0..D) /\ Depths(old) # {}
    BY DEF Depths, FccLines
  <2>2. last \in Depths(old) /\ \A y \in Depths(old) : y <= last
    BY <2>1, MaxIsGreatest
  <2> QED
    BY <2>1, <2>2 DEF Depths
<1>3. M = Kept(old, new) \cup {l \in left : l.depth < last}
            \cup (IF last < max_depth THEN {l \in left : l.depth >= last} ELSE {})
  BY DEF Merged
<1> HIDE DEF new, last
<1>4. M \subseteq Kept(old, new) \cup left
  BY <1>3
<1>5. Kept(old, new) \subseteq old /\ left \subseteq new
  BY DEF Kept
<1>6. ASSUME NEW l \in Kept(old, new), NEW m \in left PROVE m.state # l.state
  <2>1. l \in old /\ m \in new /\ l \in FccLines /\ m \in FccLines
    BY <1>1, <1>5
  <2>2. m.state = l.state => m.depth >= l.depth
    BY <2>1 DEF Kept
  <2>3. m.state = l.state => l.depth > m.depth
    BY <2>1
  <2> QED
    BY <2>1, <2>2, <2>3 DEF FccLines
<1>7. ASSUME NEW l \in old PROVE \E m \in M : m.state = l.state
  <2>1. CASE l \in Kept(old, new)
    BY <1>3, <2>1
  <2>2. CASE l \notin Kept(old, new)
    <3>1. PICK m \in new : m.state = l.state /\ ~(m.depth >= l.depth)
      BY <2>2 DEF Kept
    <3>2. l \in FccLines /\ m \in FccLines
      BY <1>1
    <3>3. m.depth < l.depth /\ m.depth < last
      BY <1>2, <3>1, <3>2 DEF FccLines
    <3>4. m \in left
      BY <3>1, <3>3
    <3> QED
      BY <1>3, <3>1, <3>3, <3>4
  <2> QED
    BY <2>1, <2>2
<1>8. M \subseteq old \cup lines
  BY <1>1, <1>4, <1>5
<1>9. ASSUME NEW l \in M, NEW m \in M, m.state = l.state PROVE m = l
  <2>1. l \in Kept(old, new) \/ l \in left
    BY <1>4
  <2>2. m \in Kept(old, new) \/ m \in left
    BY <1>4
  <2> HIDE DEF left
  <2> QED
    BY <1>1, <1>5, <1>6, <1>9, <2>1, <2>2
<1> QED
  BY <1>7, <1>8, <1>9

\* What a merge drops: new lines whose depth is that of the last old line, when no new
\* line is deeper.
LEMMA MergeDropsTheLast ==
    ASSUME NEW D \in Nat, NEW old \in SUBSET FccLines, NEW lines \in SUBSET FccLines,
           old # {}, \A l \in old : l.depth <= D,
           \A l, m \in old : m.state = l.state => m = l,
           NEW max_depth \in Nat, \A l \in LeastDeep(lines) : l.depth <= max_depth,
           NEW l \in LeastDeep(lines), l.state \notin States(Merged(old, LeastDeep(lines), max_depth))
    PROVE  l.depth = Max(Depths(old)) /\ \A m \in LeastDeep(lines) : m.depth <= l.depth
<1> DEFINE new == LeastDeep(lines)
           last == Max(Depths(old))
           M == Merged(old, new, max_depth)
           left == {i \in new : \A m \in old : m.state = i.state => m.depth > i.depth}
<1>1. \A i \in new : i \in FccLines /\ i.depth \in Nat
  BY DEF LeastDeep, FccLines
<1>2. last \in Nat
  <2>1. Depths(old) \in SUBSET (0..D) /\ Depths(old) # {}
    BY DEF Depths, FccLines
  <2>2. last \in Depths(old)
    BY <2>1, MaxIsGreatest
  <2> QED
    BY <2>1, <2>2
<1>3. \A i \in old : \E m \in M : m.state = i.state
  BY MergedIsClean
<1>4. l.state \notin States(old)
  BY <1>3 DEF States
<1>5. l \in left /\ l \notin M
  BY <1>4 DEF States
<1>6. M = Kept(old, new) \cup {i \in left : i.depth < last}
            \cup (IF last < max_depth THEN {i \in left : i.depth >= last} ELSE {})
  BY DEF Merged
<1> HIDE DEF new, last, M, left
<1>7. ~(l.depth < last) /\ ~(last < max_depth /\ l.depth >= last)
  BY <1>5, <1>6
<1>8. l \in new /\ l.depth \in Nat /\ l.depth <= max_depth
  BY <1>1 DEF new
<1>9. l.depth = last /\ max_depth = last
  BY <1>2, <1>7, <1>8
<1>10. \A m \in new : m.depth <= l.depth
  BY <1>1, <1>9 DEF new
<1> QED
  BY <1>9, <1>10 DEF new, last

-----------------------------------------------------------------------------
(***************************************************************************)
(* The types.                                                              *)
(***************************************************************************)
\* The thread's record after a step, field by field.
Thread == [pc : {"take", "check", "expand", "insert", "done"},
           item : Entries \cup {NoItem}, held : BOOLEAN, derived : SUBSET Layouts, seen : Int]
Coll == [queue : SUBSET Entries, store : SUBSET Layouts, in_flight : Int, terminate : BOOLEAN]

\* Threads that are done have their type.
LEMMA IdleWorkersAreThreads ==
    /\ IdleWorkers \in [Workers -> Thread]
    /\ [t \in Workers |-> [IdleWorkers[t] EXCEPT !.pc = "take"]] \in [Workers -> Thread]
<1> DEFINE idle == [pc |-> "done", item |-> NoItem, held |-> FALSE, derived |-> {}, seen |-> 0]
<1>1. idle \in Thread
  BY DEF Thread
<1>2. IdleWorkers = [t \in Workers |-> idle]
  BY DEF IdleWorkers
<1> HIDE DEF idle
<1>3. [idle EXCEPT !.pc = "take"] \in Thread
  BY <1>1 DEF Thread
<1> QED
  BY <1>1, <1>2, <1>3

\* The types hold at first, and when a component is started.
LEMMA InitIsTyped == SplitInit => SplitTypeOK
<1> SUFFICES ASSUME SplitInit PROVE SplitTypeOK
  OBVIOUS
<1>1. FirstLayout \in Layouts /\ Fingerprint[FirstLayout] \in Fingerprints
  BY SplitAssumption DEF Fingerprints
<1>2. FccLine(FirstLayout, 0) \in FccLines
  BY <1>1 DEF FccLine, FccLines
<1>3. thread \in [Workers -> Thread]
  BY IdleWorkersAreThreads DEF SplitInit
<1>4. coll \in Coll
  BY DEF SplitInit, Coll
<1> QED
  BY <1>1, <1>2, <1>3, <1>4 DEF SplitInit, SplitTypeOK, Thread, Coll

LEMMA StartIsTyped == SplitTypeOK /\ StartFcc => SplitTypeOK'
<1> SUFFICES ASSUME SplitTypeOK, StartFcc PROVE SplitTypeOK'
  OBVIOUS
<1>1. PICK f \in Pending : fcc' = f /\ coll' = [queue |-> {[key |-> l.state, ancestor |-> l.depth, depth |-> l.depth]
                                 : l \in input[f]},
                      store |-> {}, in_flight |-> 0, terminate |-> FALSE]
  BY DEF StartFcc
<1>2. f \in Fingerprints /\ input[f] \subseteq FccLines
  BY DEF Pending, SplitTypeOK
<1>3. coll' \in Coll
  <2>1. \A l \in input[f] : [key |-> l.state, ancestor |-> l.depth, depth |-> l.depth] \in Entries
    BY <1>2 DEF FccLines, Entries
  <2> QED
    BY <1>1, <2>1 DEF Coll
<1>4. thread' \in [Workers -> Thread]
  BY IdleWorkersAreThreads DEF StartFcc
<1> QED
  BY <1>1, <1>2, <1>3, <1>4 DEF StartFcc, SplitTypeOK, Thread, Coll

(***************************************************************************)
(* The steps of a thread, field by field.                                  *)
(***************************************************************************)
LEMMA TakeFields ==
    ASSUME NEW t \in Workers, SplitTypeOK, Take(t), NEW left, left = LeftInFlight(t)
    PROVE  /\ thread[t].pc = "take" /\ left \in Int
           /\ thread' \in [Workers -> Thread] /\ coll' \in Coll
           /\ \A u \in Workers : u # t => thread'[u] = thread[u]
           /\ thread'[t].pc = "check" /\ thread'[t].derived = thread[t].derived
           /\ coll'.store = coll.store /\ coll'.terminate = coll.terminate
           /\ UNCHANGED <<splitFiles, stage, fcc, renamed>>
           /\ \/ /\ coll.terminate /\ coll'.queue = coll.queue /\ coll'.in_flight = left
                 /\ ~thread'[t].held /\ thread'[t].item = thread[t].item
                 /\ thread'[t].seen = thread[t].seen
              \/ /\ ~coll.terminate /\ coll.queue = {} /\ coll'.queue = {}
                 /\ coll'.in_flight = left
                 /\ ~thread'[t].held /\ thread'[t].item = NoItem /\ thread'[t].seen = left
              \/ \E i \in coll.queue :
                    /\ ~coll.terminate /\ coll'.queue = coll.queue \ {i}
                    /\ coll'.in_flight = left + 1
                    /\ thread'[t].held /\ thread'[t].item = i /\ thread'[t].seen = left + 1
<1>0. thread \in [Workers -> Thread] /\ coll \in Coll /\ thread[t] \in Thread
  BY DEF SplitTypeOK, Thread, Coll
<1>1. left \in Int
  BY <1>0 DEF LeftInFlight, Coll
<1>2. thread[t].pc = "take" /\ UNCHANGED <<splitFiles, stage, fcc, renamed>>
  BY DEF Take, splitFiles
<1>3. CASE /\ coll.terminate
           /\ coll' = [coll EXCEPT !.in_flight = left]
           /\ thread' = [thread EXCEPT ![t].pc = "check", ![t].held = FALSE]
  <2>1. coll' \in Coll
    BY <1>0, <1>1, <1>3 DEF Coll
  <2>2. thread' = [thread EXCEPT ![t] = [thread[t] EXCEPT !.pc = "check", !.held = FALSE]]
    BY <1>0, <1>3 DEF Thread
  <2>3. [thread[t] EXCEPT !.pc = "check", !.held = FALSE] \in Thread
    BY <1>0 DEF Thread
  <2>4. thread' \in [Workers -> Thread]
    BY <1>0, <2>2, <2>3
  <2> QED
    BY <1>0, <1>1, <1>2, <1>3, <2>1, <2>4 DEF Thread, Coll
<1>4. CASE /\ ~coll.terminate /\ coll.queue = {}
           /\ coll' = [coll EXCEPT !.in_flight = left]
           /\ thread' = [thread EXCEPT ![t].pc = "check", ![t].item = NoItem,
                                       ![t].held = FALSE, ![t].seen = left]
  <2>1. coll' \in Coll
    BY <1>0, <1>1, <1>4 DEF Coll
  <2>2. thread' = [thread EXCEPT ![t] = [thread[t] EXCEPT !.pc = "check", !.item = NoItem,
                                                          !.held = FALSE, !.seen = left]]
    BY <1>0, <1>1, <1>4 DEF Thread
  <2>3. [thread[t] EXCEPT !.pc = "check", !.item = NoItem, !.held = FALSE, !.seen = left] \in Thread
    BY <1>0, <1>1 DEF Thread
  <2>4. thread' \in [Workers -> Thread]
    BY <1>0, <2>2, <2>3
  <2> QED
    BY <1>0, <1>1, <1>2, <1>4, <2>1, <2>4 DEF Thread, Coll
<1>5. ASSUME NEW i \in coll.queue, ~coll.terminate,
             coll' = [coll EXCEPT !.queue = @ \ {i}, !.in_flight = left + 1],
             thread' = [thread EXCEPT ![t].pc = "check", ![t].item = i,
                                      ![t].held = TRUE, ![t].seen = left + 1]
      PROVE  /\ thread' \in [Workers -> Thread] /\ coll' \in Coll
             /\ \A u \in Workers : u # t => thread'[u] = thread[u]
             /\ thread'[t].pc = "check" /\ thread'[t].derived = thread[t].derived
             /\ coll'.store = coll.store /\ coll'.terminate = coll.terminate
             /\ coll'.queue = coll.queue \ {i} /\ coll'.in_flight = left + 1
             /\ thread'[t].held /\ thread'[t].item = i /\ thread'[t].seen = left + 1
  <2>0. PICK n \in Int : n = left + 1
    BY <1>1
  <2>1. coll' \in Coll
    <3>1. coll' = [coll EXCEPT !.queue = @ \ {i}, !.in_flight = n]
      BY <1>5, <2>0
    <3> QED
      BY <1>0, <3>1 DEF Coll
  <2>2. i \in Entries
    BY <1>0 DEF Coll
  <2>3. thread' = [thread EXCEPT ![t] = [thread[t] EXCEPT !.pc = "check", !.item = i,
                                                          !.held = TRUE, !.seen = n]]
    <3>1. thread' = [thread EXCEPT ![t].pc = "check", ![t].item = i,
                                   ![t].held = TRUE, ![t].seen = n]
      BY <1>5, <2>0
    <3> QED
      BY <1>0, <3>1 DEF Thread
  <2>4. [thread[t] EXCEPT !.pc = "check", !.item = i, !.held = TRUE, !.seen = n] \in Thread
    BY <1>0, <2>2 DEF Thread
  <2>5. thread' \in [Workers -> Thread]
    BY <1>0, <2>3, <2>4
  <2> QED
    BY <1>0, <1>1, <1>5, <2>1, <2>5 DEF Thread, Coll
<1>6. \/ /\ coll.terminate
         /\ coll' = [coll EXCEPT !.in_flight = left]
         /\ thread' = [thread EXCEPT ![t].pc = "check", ![t].held = FALSE]
      \/ /\ ~coll.terminate /\ coll.queue = {}
         /\ coll' = [coll EXCEPT !.in_flight = left]
         /\ thread' = [thread EXCEPT ![t].pc = "check", ![t].item = NoItem,
                                     ![t].held = FALSE, ![t].seen = left]
      \/ \E i \in coll.queue :
            /\ ~coll.terminate
            /\ coll' = [coll EXCEPT !.queue = @ \ {i}, !.in_flight = left + 1]
            /\ thread' = [thread EXCEPT ![t].pc = "check", ![t].item = i,
                                        ![t].held = TRUE, ![t].seen = left + 1]
  BY DEF Take
<1>7. CASE \E i \in coll.queue :
            /\ ~coll.terminate
            /\ coll' = [coll EXCEPT !.queue = @ \ {i}, !.in_flight = left + 1]
            /\ thread' = [thread EXCEPT ![t].pc = "check", ![t].item = i,
                                        ![t].held = TRUE, ![t].seen = left + 1]
  BY <1>1, <1>2, <1>5, <1>7
<1> QED
  BY <1>3, <1>4, <1>6, <1>7

\* What a look at should_terminate reads and writes.
LEMMA CheckFields ==
    ASSUME NEW t \in Workers, SplitTypeOK, Check(t)
    PROVE  /\ thread[t].pc = "check" /\ thread' \in [Workers -> Thread]
           /\ \A u \in Workers : u # t => thread'[u] = thread[u]
           /\ thread'[t].held = thread[t].held /\ thread'[t].item = thread[t].item
           /\ thread'[t].derived = thread[t].derived /\ thread'[t].seen = thread[t].seen
           /\ UNCHANGED <<splitFiles, stage, fcc, renamed, coll>>
           /\ \/ thread'[t].pc = "done" /\ (coll.terminate \/ thread[t].seen = 0)
              \/ /\ thread'[t].pc = (IF thread[t].item = NoItem THEN "take" ELSE "expand")
                 /\ ~coll.terminate
<1>0. thread \in [Workers -> Thread] /\ thread[t] \in Thread
  BY DEF SplitTypeOK, Thread
<1> DEFINE next == IF coll.terminate \/ thread[t].seen = 0 THEN "done"
                   ELSE IF thread[t].item = NoItem THEN "take" ELSE "expand"
<1>1. thread[t].pc = "check" /\ thread' = [thread EXCEPT ![t].pc = next]
  BY DEF Check
<1>2. next \in {"take", "expand", "done"}
  OBVIOUS
<1>3. \/ next = "done" /\ (coll.terminate \/ thread[t].seen = 0)
      \/ next = (IF thread[t].item = NoItem THEN "take" ELSE "expand") /\ ~coll.terminate
  OBVIOUS
<1> HIDE DEF next
<1>4. /\ thread' \in [Workers -> Thread] /\ thread'[t].pc = next
      /\ \A u \in Workers : u # t => thread'[u] = thread[u]
      /\ thread'[t].held = thread[t].held /\ thread'[t].item = thread[t].item
      /\ thread'[t].derived = thread[t].derived /\ thread'[t].seen = thread[t].seen
  BY <1>0, <1>1, <1>2 DEF Thread
<1>5. UNCHANGED <<splitFiles, stage, fcc, renamed, coll>>
  BY DEF Check
<1> QED
  BY <1>1, <1>3, <1>4, <1>5

\* What expanding an item reads and writes.
LEMMA ExpandFields ==
    ASSUME NEW t \in Workers, SplitTypeOK, Expand(t), NEW k, k = thread[t].item.key
    PROVE  /\ thread[t].pc = "expand" /\ k \in Layouts
           /\ thread' \in [Workers -> Thread] /\ coll' \in Coll /\ success' \in SUBSET Fingerprints
           /\ \A u \in Workers : u # t => thread'[u] = thread[u]
           /\ thread'[t].held = thread[t].held /\ thread'[t].item = thread[t].item
           /\ thread'[t].seen = thread[t].seen
           /\ coll'.queue = coll.queue /\ coll'.store = coll.store /\ coll'.in_flight = coll.in_flight
           /\ UNCHANGED <<input, finished, exits, by_fingerprint, by, stage, fcc, renamed>>
           /\ \/ /\ k = WonLayout /\ coll'.terminate /\ success' = success \cup {fcc}
                 /\ thread'[t].pc = "done"
              \/ /\ k # WonLayout /\ coll' = coll /\ success' = success
                 /\ thread'[t].derived = Derives[k]
                 /\ thread'[t].pc = (IF Derives[k] = {} THEN "take" ELSE "insert")
<1>0. thread \in [Workers -> Thread] /\ coll \in Coll /\ thread[t] \in Thread
  BY DEF SplitTypeOK, Thread, Coll
<1>1. k \in Layouts /\ Derives[k] \in SUBSET Layouts
  <2>1. thread[t].item \in Entries \cup {NoItem}
    BY <1>0 DEF Thread
  <2> QED
    BY <2>1, SplitAssumption DEF Entries, NoItem
<1>2. thread[t].pc = "expand" /\ UNCHANGED <<input, finished, exits, by_fingerprint, by, stage, fcc, renamed>>
  BY DEF Expand
<1>3. CASE k = WonLayout
  <2>1. /\ coll' = [coll EXCEPT !.terminate = TRUE]
        /\ success' = success \cup {fcc}
        /\ thread' = [thread EXCEPT ![t].pc = "done"]
    BY <1>3 DEF Expand
  <2>2. coll' \in Coll
    BY <1>0, <2>1 DEF Coll
  <2>3. thread' \in [Workers -> Thread]
    BY <1>0, <2>1 DEF Thread
  <2>4. success' \in SUBSET Fingerprints
    BY <2>1 DEF SplitTypeOK
  <2>5. coll'.terminate /\ coll'.queue = coll.queue /\ coll'.store = coll.store
        /\ coll'.in_flight = coll.in_flight
    BY <1>0, <2>1 DEF Coll
  <2>6. /\ \A u \in Workers : u # t => thread'[u] = thread[u]
        /\ thread'[t].held = thread[t].held /\ thread'[t].item = thread[t].item
        /\ thread'[t].seen = thread[t].seen /\ thread'[t].pc = "done"
    BY <1>0, <2>1 DEF Thread
  <2> QED
    BY <1>1, <1>2, <1>3, <2>1, <2>2, <2>3, <2>4, <2>5, <2>6
<1>4. CASE k # WonLayout
  <2> DEFINE next == IF Derives[k] = {} THEN "take" ELSE "insert"
  <2>1. /\ coll' = coll /\ success' = success
        /\ thread' = [thread EXCEPT ![t].pc = next, ![t].derived = Derives[k]]
    BY <1>4 DEF Expand
  <2>2. next \in {"take", "insert"} /\ next = IF Derives[k] = {} THEN "take" ELSE "insert"
    OBVIOUS
  <2> HIDE DEF next
  <2>3. thread' = [thread EXCEPT ![t] = [thread[t] EXCEPT !.pc = next, !.derived = Derives[k]]]
    BY <1>0, <1>1, <2>1 DEF Thread
  <2>4. [thread[t] EXCEPT !.pc = next, !.derived = Derives[k]] \in Thread
    BY <1>0, <1>1, <2>2 DEF Thread
  <2>5. thread' \in [Workers -> Thread]
    BY <1>0, <2>3, <2>4
  <2>6. /\ \A u \in Workers : u # t => thread'[u] = thread[u]
        /\ thread'[t].held = thread[t].held /\ thread'[t].item = thread[t].item
        /\ thread'[t].seen = thread[t].seen /\ thread'[t].pc = next
        /\ thread'[t].derived = Derives[k]
    BY <1>0, <1>1, <2>1 DEF Thread
  <2> QED
    BY <1>0, <1>1, <1>2, <1>4, <2>1, <2>2, <2>5, <2>6 DEF SplitTypeOK
<1> QED
  BY <1>3, <1>4

\* What inserting a position reads and writes.
LEMMA CheckKeyFields ==
    ASSUME NEW t \in Workers, SplitTypeOK, CheckKey(t), NEW it, it = thread[t].item
    PROVE  /\ thread[t].pc = "insert" /\ thread' \in [Workers -> Thread] /\ coll' \in Coll
           /\ exits' \in SUBSET FccLines
           /\ \A u \in Workers : u # t => thread'[u] = thread[u]
           /\ thread'[t].held = thread[t].held /\ thread'[t].item = it
           /\ thread'[t].seen = thread[t].seen
           /\ coll'.terminate = coll.terminate /\ coll'.in_flight = coll.in_flight
           /\ UNCHANGED <<input, finished, by_fingerprint, by, success, stage, fcc, renamed>>
           /\ \E k \in thread[t].derived :
                 /\ k \in Layouts
                 /\ thread'[t].derived = thread[t].derived \ {k}
                 /\ thread'[t].pc = (IF thread'[t].derived = {} THEN "take" ELSE "insert")
                 /\ coll'.store = coll.store \cup {k}
                 /\ \/ k \in coll.store /\ coll'.queue = coll.queue /\ exits' = exits
                    \/ /\ Fingerprint[k] = fcc /\ exits' = exits
                       /\ coll'.queue = coll.queue
                             \cup {[key |-> k, ancestor |-> it.ancestor, depth |-> it.depth + 1]}
                    \/ /\ Fingerprint[k] # fcc /\ coll'.queue = coll.queue
                       /\ exits' = exits \cup {FccLine(k, it.ancestor + 1)}
<1>0. thread \in [Workers -> Thread] /\ coll \in Coll /\ thread[t] \in Thread
  BY DEF SplitTypeOK, Thread, Coll
<1>1. PICK k \in thread[t].derived :
          LET new == k \notin coll.store
              here == Fingerprint[k] = fcc
              rest == thread[t].derived \ {k}
          IN /\ coll' = IF ~new THEN coll
                        ELSE [coll EXCEPT
                           !.store = @ \cup {k},
                           !.queue = IF here
                              THEN @ \cup {[key |-> k, ancestor |-> it.ancestor, depth |-> it.depth + 1]}
                              ELSE @]
             /\ exits' = IF new /\ ~here THEN exits \cup {FccLine(k, it.ancestor + 1)} ELSE exits
             /\ thread' = [thread EXCEPT ![t].derived = rest,
                                         ![t].pc = IF rest = {} THEN "take" ELSE "insert"]
  BY DEF CheckKey
<1> DEFINE entry == [key |-> k, ancestor |-> it.ancestor, depth |-> it.depth + 1]
           line == FccLine(k, it.ancestor + 1)
           rest == thread[t].derived \ {k}
           next == IF rest = {} THEN "take" ELSE "insert"
<1>2. k \in Layouts /\ it \in Entries \cup {NoItem} /\ rest \in SUBSET Layouts
  BY <1>0 DEF Thread
<1>3. entry \in Entries /\ line \in FccLines
  <2>1. it.ancestor \in Nat /\ it.depth + 1 \in Nat
    BY <1>2 DEF Entries, NoItem
  <2> QED
    BY <1>2, <2>1 DEF Entries, FccLine, FccLines
<1>4. thread' = [thread EXCEPT ![t].derived = rest, ![t].pc = next]
  BY <1>1
<1>5. next \in {"take", "insert"} /\ next = IF rest = {} THEN "take" ELSE "insert"
  OBVIOUS
<1>6. /\ \/ k \in coll.store /\ coll' = coll /\ exits' = exits
         \/ /\ Fingerprint[k] = fcc /\ exits' = exits
            /\ coll' = [coll EXCEPT !.store = @ \cup {k}, !.queue = @ \cup {entry}]
         \/ /\ Fingerprint[k] # fcc /\ exits' = exits \cup {line}
            /\ coll' = [coll EXCEPT !.store = @ \cup {k}, !.queue = @]
  BY <1>1
<1> HIDE DEF entry, line, next
<1>7. /\ coll' \in Coll /\ exits' \in SUBSET FccLines
      /\ coll'.terminate = coll.terminate /\ coll'.in_flight = coll.in_flight
      /\ coll'.store = coll.store \cup {k}
      /\ \/ k \in coll.store /\ coll'.queue = coll.queue /\ exits' = exits
         \/ Fingerprint[k] = fcc /\ exits' = exits /\ coll'.queue = coll.queue \cup {entry}
         \/ Fingerprint[k] # fcc /\ coll'.queue = coll.queue /\ exits' = exits \cup {line}
  <2>0. exits \in SUBSET FccLines
    BY DEF SplitTypeOK
  <2>1. CASE k \in coll.store /\ coll' = coll /\ exits' = exits
    <3>1. coll'.store = coll.store \cup {k}
      BY <2>1
    <3> QED
      BY <1>0, <2>0, <2>1, <3>1
  <2>2. CASE /\ Fingerprint[k] = fcc /\ exits' = exits
             /\ coll' = [coll EXCEPT !.store = @ \cup {k}, !.queue = @ \cup {entry}]
    <3>1. coll' \in Coll
      BY <1>0, <1>2, <1>3, <2>2 DEF Coll
    <3> QED
      BY <1>0, <2>0, <2>2, <3>1 DEF Coll
  <2>3. CASE /\ Fingerprint[k] # fcc /\ exits' = exits \cup {line}
             /\ coll' = [coll EXCEPT !.store = @ \cup {k}, !.queue = @]
    <3>1. coll' \in Coll
      BY <1>0, <1>2, <1>3, <2>3 DEF Coll
    <3> QED
      BY <1>0, <1>3, <2>0, <2>3, <3>1 DEF Coll
  <2> QED
    BY <1>6, <2>1, <2>2, <2>3
<1>8. thread' = [thread EXCEPT ![t] = [thread[t] EXCEPT !.derived = rest, !.pc = next]]
  BY <1>0, <1>2, <1>4 DEF Thread
<1>9. [thread[t] EXCEPT !.derived = rest, !.pc = next] \in Thread
  BY <1>0, <1>2, <1>5 DEF Thread
<1>10. thread' \in [Workers -> Thread]
  BY <1>0, <1>8, <1>9
<1>11. /\ \A u \in Workers : u # t => thread'[u] = thread[u]
       /\ thread'[t].held = thread[t].held /\ thread'[t].item = it
       /\ thread'[t].seen = thread[t].seen /\ thread'[t].pc = next
       /\ thread'[t].derived = rest
  BY <1>0, <1>2, <1>4 DEF Thread
<1>12. thread[t].pc = "insert" /\ UNCHANGED <<input, finished, by_fingerprint, by, success, stage, fcc, renamed>>
  BY DEF CheckKey
<1>13. thread'[t].pc = (IF thread'[t].derived = {} THEN "take" ELSE "insert")
  BY <1>5, <1>11
<1> QED
  BY <1>2, <1>7, <1>10, <1>11, <1>12, <1>13 DEF entry, line

\* The steps of threads keep the types.
LEMMA WorkerIsTyped ==
    ASSUME NEW t \in Workers, SplitTypeOK, WorkerStep(t) PROVE SplitTypeOK'
<1>1. CASE Take(t)
  BY <1>1, TakeFields DEF SplitTypeOK, Thread, Coll, splitFiles
<1>2. CASE Check(t)
  BY <1>2, CheckFields DEF SplitTypeOK, Thread, splitFiles
<1>3. CASE Expand(t)
  BY <1>3, ExpandFields DEF SplitTypeOK, Thread, Coll
<1>4. CASE CheckKey(t)
  BY <1>4, CheckKeyFields DEF SplitTypeOK, Thread, Coll
<1> QED
  BY <1>1, <1>2, <1>3, <1>4 DEF WorkerStep

\* And so does what is left when the solver is gone.
LEMMA NoSolverIsTyped ==
    ASSUME NoSolver PROVE thread' \in [Workers -> Thread] /\ coll' \in Coll
BY IdleWorkersAreThreads DEF NoSolver, Coll

\* What a merge reads and writes.
Merging(f, M) ==
    /\ renamed = Nowhere /\ by_fingerprint[f] # {} /\ stage = "merging" /\ renamed' = f
    /\ by = {} => by' = {}
    /\ input' = [input EXCEPT ![f] = by \cup M]
    /\ \/ input[f] = {} /\ M = LeastDeep(by_fingerprint[f]) /\ by = {}
       \/ /\ input[f] # {}
          /\ \E max_depth \in Depths(by_fingerprint[f]) :
                /\ max_depth >= Max(Depths(LeastDeep(by_fingerprint[f])))
                /\ M = Merged(input[f], LeastDeep(by_fingerprint[f]), max_depth)

\* Either way of merging, as one.
LEMMA MergeReadsAndWrites ==
    ASSUME SplitTypeOK, FilesInv, Merge
    PROVE  \E f \in Fingerprints : \E M : Merging(f, M)
<1>0. by = {}
  BY DEF FilesInv
<1>1. stage = "merging" /\ renamed = Nowhere
  BY DEF Merge
<1>2. PICK f \in Fingerprints :
          LET new == LeastDeep(by_fingerprint[f])
          IN /\ by_fingerprint[f] # {}
             /\ \/ /\ input[f] = {}
                   /\ input' = [input EXCEPT ![f] = new]
                   /\ UNCHANGED by
                \/ /\ input[f] # {}
                   /\ \E max_depth \in Depths(by_fingerprint[f]) :
                         /\ max_depth >= Max(Depths(new))
                         /\ input' = [input EXCEPT ![f] = by \cup Merged(@, new, max_depth)]
                   /\ by' = {}
             /\ renamed' = f
  BY DEF Merge
<1>3. CASE /\ input[f] = {} /\ UNCHANGED by
           /\ input' = [input EXCEPT ![f] = LeastDeep(by_fingerprint[f])]
  <2>1. Merging(f, LeastDeep(by_fingerprint[f]))
    BY <1>0, <1>1, <1>2, <1>3 DEF Merging
  <2> QED
    BY <2>1
<1>4. CASE /\ input[f] # {} /\ by' = {}
           /\ \E max_depth \in Depths(by_fingerprint[f]) :
                 /\ max_depth >= Max(Depths(LeastDeep(by_fingerprint[f])))
                 /\ input' = [input EXCEPT ![f] = by \cup Merged(@, LeastDeep(by_fingerprint[f]), max_depth)]
  <2>1. PICK max_depth \in Depths(by_fingerprint[f]) :
                 /\ max_depth >= Max(Depths(LeastDeep(by_fingerprint[f])))
                 /\ input' = [input EXCEPT ![f] = by \cup Merged(@, LeastDeep(by_fingerprint[f]), max_depth)]
    BY <1>4
  <2> DEFINE M == Merged(input[f], LeastDeep(by_fingerprint[f]), max_depth)
  <2>2. input' = [input EXCEPT ![f] = by \cup M]
    BY <2>1 DEF SplitTypeOK
  <2>3. Merging(f, M)
    BY <1>0, <1>1, <1>2, <1>4, <2>1, <2>2 DEF Merging
  <2> QED
    BY <2>3
<1> QED
  BY <1>2, <1>3, <1>4

\* What a merge leaves of the lines of a component.
LEMMA MergingFields ==
    ASSUME SplitTypeOK, FilesInv, Merge
    PROVE  \E f \in Fingerprints :
              /\ renamed = Nowhere /\ by_fingerprint[f] # {} /\ stage = "merging" /\ renamed' = f
              /\ by' = {}
              /\ input' \in [Fingerprints -> SUBSET FccLines]
              /\ \A g \in Fingerprints : g # f => input'[g] = input[g]
              /\ input'[f] \subseteq input[f] \cup by_fingerprint[f]
              /\ \A l, m \in input'[f] : m.state = l.state => m = l
              /\ States(input[f]) \subseteq States(input'[f])
              /\ UNCHANGED <<finished, exits, by_fingerprint, success, stage, fcc, solverVars>>
<1>0. PICK f \in Fingerprints : \E M : Merging(f, M)
  BY MergeReadsAndWrites
<1>1. PICK M : Merging(f, M)
  BY <1>0
<1>2. by = {} /\ by' = {}
  BY <1>1 DEF FilesInv, Merging
<1>3. input[f] \in SUBSET FccLines /\ by_fingerprint[f] \in SUBSET FccLines
  BY DEF SplitTypeOK
<1>4. /\ M \subseteq input[f] \cup by_fingerprint[f]
      /\ \A l, m \in M : m.state = l.state => m = l
      /\ \A l \in input[f] : \E m \in M : m.state = l.state
  <2>1. CASE input[f] = {} /\ M = LeastDeep(by_fingerprint[f])
    <3>1. \A l, m \in M : l \in FccLines /\ m \in FccLines
      BY <1>3, <2>1 DEF LeastDeep
    <3>2. \A l, m \in M : m.state = l.state => l.depth <= m.depth /\ m.depth <= l.depth
      BY <2>1 DEF LeastDeep
    <3>3. \A l, m \in M : m.state = l.state => m = l
      BY <3>1, <3>2 DEF FccLines
    <3> QED
      BY <2>1, <3>3 DEF LeastDeep
  <2>2. CASE input[f] # {} /\ \E max_depth \in Depths(by_fingerprint[f]) :
                M = Merged(input[f], LeastDeep(by_fingerprint[f]), max_depth)
    <3>1. PICK max_depth \in Depths(by_fingerprint[f]) :
                M = Merged(input[f], LeastDeep(by_fingerprint[f]), max_depth)
      BY <2>2
    <3>2. max_depth \in Nat
      BY <1>3 DEF Depths, FccLines
    <3>3. FccDepth[f] \in Nat /\ \A l \in input[f] : l.depth <= FccDepth[f]
      BY SplitAssumption DEF FilesInv, Belongs
    <3>4. \A l, m \in input[f] : m.state = l.state => m = l
      BY DEF FilesInv
    <3> QED
      BY <1>3, <2>2, <3>1, <3>2, <3>3, <3>4, MergedIsClean
  <2> QED
    BY <1>1, <2>1, <2>2 DEF Merging
<1>5. input' = [input EXCEPT ![f] = M]
  BY <1>1, <1>2 DEF Merging
<1>6. input'[f] = M /\ input' \in [Fingerprints -> SUBSET FccLines]
  BY <1>3, <1>4, <1>5 DEF SplitTypeOK
<1>7. \A g \in Fingerprints : g # f => input'[g] = input[g]
  BY <1>5 DEF SplitTypeOK
<1>8. States(input[f]) \subseteq States(input'[f])
  BY <1>4, <1>6 DEF States
<1>9. UNCHANGED <<finished, exits, by_fingerprint, success, stage, fcc, solverVars>>
  BY DEF Merge
<1> QED
  BY <1>1, <1>2, <1>4, <1>6, <1>7, <1>8, <1>9 DEF Merging

\* Every step keeps the types.
LEMMA StepIsTyped ==
    ASSUME SplitTypeOK, FilesInv, SplitNext
    PROVE  SplitTypeOK'
<1>1. CASE StartFcc
  BY <1>1, StartIsTyped
<1>2. CASE \E t \in Workers : WorkerStep(t)
  BY <1>2, WorkerIsTyped
<1>3. CASE Joined
  BY <1>3, NoSolverIsTyped DEF Joined, SplitTypeOK, splitFiles, Thread, Coll
<1>4. CASE Sort
  <2>1. by_fingerprint' \in [Fingerprints -> SUBSET FccLines]
    BY <1>4 DEF Sort, SplitTypeOK
  <2> QED
    BY <1>4, <2>1 DEF Sort, SplitTypeOK, solverVars
<1>5. CASE Merge
  BY <1>5, MergingFields DEF SplitTypeOK, solverVars
<1>6. CASE Unlink
  BY <1>6 DEF Unlink, SplitTypeOK, solverVars
<1>7. CASE FinishFcc
  BY <1>7 DEF FinishFcc, SplitTypeOK, solverVars
<1>8. CASE KillSplit
  BY <1>8, NoSolverIsTyped DEF KillSplit, SplitTypeOK, Thread, Coll
<1> QED
  BY <1>1, <1>2, <1>3, <1>4, <1>5, <1>6, <1>7, <1>8 DEF SplitNext, DriverStep

-----------------------------------------------------------------------------
(***************************************************************************)
(* The files, and the order of the components.                             *)
(***************************************************************************)
\* A kill leaves the files as they are, but for those of ./by.
LEMMA KillFields ==
    ASSUME KillSplit, "writing" \notin KilledIn
    PROVE  /\ stage' = "idle" /\ renamed' = Nowhere
           /\ UNCHANGED <<by, input, finished, exits, by_fingerprint, success, fcc>>
BY DEF KillSplit

\* The threads leave all files but the one of exits as they are.
LEMMA WorkerFields ==
    ASSUME NEW t \in Workers, WorkerStep(t)
    PROVE  /\ UNCHANGED <<input, finished, by_fingerprint, by, stage, fcc, renamed>>
           /\ success \subseteq success'
<1>1. CASE Take(t)
  BY <1>1 DEF Take, splitFiles
<1>2. CASE Check(t)
  BY <1>2 DEF Check, splitFiles
<1>3. CASE Expand(t)
  BY <1>3 DEF Expand
<1>4. CASE CheckKey(t)
  BY <1>4 DEF CheckKey
<1> QED
  BY <1>1, <1>2, <1>3, <1>4 DEF WorkerStep

\* Every step keeps what is in the files.
LEMMA FilesStep ==
    ASSUME SplitTypeOK, FilesInv, ExitsInv, "writing" \notin KilledIn, SplitNext
    PROVE  FilesInv'
<1>1. CASE UNCHANGED <<by, input, by_fingerprint>>
  BY <1>1 DEF FilesInv, Belongs, States
<1>2. CASE \E t \in Workers : WorkerStep(t)
  BY <1>1, <1>2, WorkerFields
<1>3. CASE Sort
  <2>1. /\ stage = "sorting" /\ UNCHANGED <<by, input>>
        /\ by_fingerprint' = [f \in Fingerprints |->
                            by_fingerprint[f] \cup {l \in exits : Fingerprint[l.state] = f}]
    BY <1>3 DEF Sort
  <2>2. ASSUME NEW f \in Fingerprints, NEW l \in by_fingerprint'[f] PROVE Belongs(f, l)
    <3>1. l \in by_fingerprint[f] \/ (l \in exits /\ Fingerprint[l.state] = f)
      BY <2>1, <2>2
    <3>2. CASE l \in by_fingerprint[f]
      BY <3>2 DEF FilesInv
    <3>3. CASE l \in exits /\ Fingerprint[l.state] = f
      BY <2>1, <3>3 DEF ExitsInv, Belongs
    <3> QED
      BY <3>1, <3>2, <3>3
  <2> QED
    BY <2>1, <2>2 DEF FilesInv, Belongs, States
<1>4. CASE Merge
  <2>1. PICK f \in Fingerprints :
              /\ renamed = Nowhere /\ by_fingerprint[f] # {} /\ stage = "merging" /\ renamed' = f
              /\ by' = {}
              /\ input' \in [Fingerprints -> SUBSET FccLines]
              /\ \A g \in Fingerprints : g # f => input'[g] = input[g]
              /\ input'[f] \subseteq input[f] \cup by_fingerprint[f]
              /\ \A l, m \in input'[f] : m.state = l.state => m = l
              /\ States(input[f]) \subseteq States(input'[f])
              /\ UNCHANGED <<finished, exits, by_fingerprint, success, stage, fcc, solverVars>>
    BY <1>4, MergingFields
  <2>2. ASSUME NEW g \in Fingerprints
        PROVE  \A l \in input'[g] : Belongs(g, l) /\ \A m \in input'[g] : m.state = l.state => m = l
    <3>1. CASE g = f
      BY <2>1, <3>1 DEF FilesInv
    <3>2. CASE g # f
      BY <2>1, <3>2 DEF FilesInv
    <3> QED
      BY <3>1, <3>2
  <2>3. FirstLayout \in States(input'[Fingerprint[FirstLayout]])
    <3>1. Fingerprint[FirstLayout] \in Fingerprints
      BY SplitAssumption DEF Fingerprints
    <3>2. CASE Fingerprint[FirstLayout] = f
      BY <2>1, <3>2 DEF FilesInv
    <3>3. CASE Fingerprint[FirstLayout] # f
      BY <2>1, <3>1, <3>3 DEF FilesInv
    <3> QED
      BY <3>2, <3>3
  <2>4. \A g \in Fingerprints : \A l \in by_fingerprint'[g] : Belongs(g, l)
    BY <2>1 DEF FilesInv
  <2> QED
    BY <2>1, <2>2, <2>3, <2>4 DEF FilesInv, Belongs, States
<1>5. CASE Unlink
  <2>1. /\ UNCHANGED <<by, input>>
        /\ \A f \in Fingerprints : by_fingerprint'[f] \subseteq by_fingerprint[f]
    BY <1>5 DEF Unlink, SplitTypeOK
  <2> QED
    BY <2>1 DEF FilesInv, Belongs, States
<1>6. CASE StartFcc \/ Joined \/ FinishFcc
  BY <1>1, <1>6 DEF StartFcc, Joined, FinishFcc, splitFiles
<1>7. CASE KillSplit
  BY <1>1, <1>7, KillFields
<1> QED
  BY <1>2, <1>3, <1>4, <1>5, <1>6, <1>7 DEF SplitNext, DriverStep

\* Every step keeps the order of components.
LEMMA OrderStep ==
    ASSUME SplitTypeOK, FilesInv, OrderInv, ExitsInv, "writing" \notin KilledIn, SplitNext
    PROVE  OrderInv'
<1>0. \A f \in Fingerprints : FccDepth[f] \in Nat
  BY SplitAssumption
<1>1. fcc \in Fingerprints /\ finished \subseteq Fingerprints /\ Pending \subseteq Fingerprints
      /\ Unmerged \subseteq Fingerprints
  BY DEF SplitTypeOK, Pending, Unmerged
<1>2. CASE \E t \in Workers : WorkerStep(t)
  <2>1. UNCHANGED <<input, finished, by_fingerprint, by, stage, fcc, renamed>>
    BY <1>2, WorkerFields
  <2> QED
    BY <2>1 DEF OrderInv, Pending, Unmerged
<1>3. CASE StartFcc
  <2>1. /\ stage = "idle" /\ fcc' \in Pending /\ \A g \in Pending : FccDepth[fcc'] <= FccDepth[g]
        /\ UNCHANGED <<input, finished, by_fingerprint, renamed>>
    BY <1>3 DEF StartFcc
  <2>2. Pending' = Pending /\ Unmerged' = Unmerged
    BY <2>1 DEF Pending, Unmerged
  <2>3. renamed' = Nowhere
    BY <2>1 DEF OrderInv
  <2>4. ASSUME NEW f \in Unmerged PROVE FccDepth[f] > FccDepth[fcc']
    <3>1. fcc \in Pending /\ FccDepth[f] > FccDepth[fcc]
      BY <2>4 DEF OrderInv
    <3>2. FccDepth[fcc'] <= FccDepth[fcc]
      BY <2>1, <3>1
    <3> QED
      BY <1>0, <1>1, <2>1, <3>1, <3>2
  <2> QED
    BY <2>1, <2>2, <2>3, <2>4 DEF OrderInv
<1>4. CASE Joined
  <2>1. stage # "idle" /\ UNCHANGED <<input, finished, by_fingerprint, fcc, renamed>> /\ stage = "solving"
    BY <1>4 DEF Joined, splitFiles
  <2>2. Pending' = Pending /\ Unmerged' = Unmerged /\ renamed' = Nowhere
    BY <2>1 DEF Pending, Unmerged, OrderInv
  <2> QED
    BY <2>1, <2>2 DEF OrderInv
<1>5. CASE Sort
  <2>1. /\ stage = "sorting" /\ UNCHANGED <<input, finished, fcc, renamed>>
        /\ by_fingerprint' = [f \in Fingerprints |->
                            by_fingerprint[f] \cup {l \in exits : Fingerprint[l.state] = f}]
    BY <1>5 DEF Sort
  <2>2. Pending' = Pending /\ renamed' = Nowhere
    BY <2>1 DEF Pending, OrderInv
  <2>3. ASSUME NEW f \in Unmerged' PROVE FccDepth[f] > FccDepth[fcc]
    <3>1. f \in Fingerprints /\ by_fingerprint'[f] # {}
      BY <2>3 DEF Unmerged
    <3>2. CASE by_fingerprint[f] # {}
      BY <3>1, <3>2 DEF Unmerged, OrderInv
    <3>3. CASE by_fingerprint[f] = {}
      <4>1. PICK l \in exits : Fingerprint[l.state] = f
        BY <2>1, <3>1, <3>3
      <4> QED
        BY <2>1, <4>1 DEF ExitsInv
    <3> QED
      BY <3>2, <3>3
  <2> QED
    BY <2>1, <2>2, <2>3 DEF OrderInv
<1>6. CASE Merge
  <2>1. PICK f \in Fingerprints :
              /\ renamed = Nowhere /\ by_fingerprint[f] # {} /\ stage = "merging" /\ renamed' = f
              /\ by' = {}
              /\ input' \in [Fingerprints -> SUBSET FccLines]
              /\ \A g \in Fingerprints : g # f => input'[g] = input[g]
              /\ input'[f] \subseteq input[f] \cup by_fingerprint[f]
              /\ \A l, m \in input'[f] : m.state = l.state => m = l
              /\ States(input[f]) \subseteq States(input'[f])
              /\ UNCHANGED <<finished, exits, by_fingerprint, success, stage, fcc, solverVars>>
    BY <1>6, MergingFields
  <2>2. f \in Unmerged /\ Unmerged' = Unmerged
    BY <2>1 DEF Unmerged
  <2>3. fcc \in Pending /\ (\A g \in Pending : FccDepth[fcc] <= FccDepth[g]) /\ FccDepth[f] > FccDepth[fcc]
    BY <2>1, <2>2 DEF OrderInv
  <2>4. ASSUME NEW g \in Pending' PROVE g = f \/ g \in Pending
    BY <2>1, <2>4 DEF Pending
  <2>5. fcc \in Pending'
    <3>1. fcc # f
      BY <1>0, <1>1, <2>3
    <3> QED
      BY <2>1, <2>3, <3>1 DEF Pending
  <2>6. \A g \in Pending' : FccDepth[fcc] <= FccDepth[g]
    BY <1>0, <1>1, <2>3, <2>4
  <2>7. ASSUME NEW h \in finished, NEW g \in Pending' PROVE FccDepth[h] <= FccDepth[g]
    <3>1. FccDepth[h] <= FccDepth[fcc] /\ FccDepth[fcc] <= FccDepth[g]
      BY <2>3, <2>6 DEF OrderInv
    <3>2. g \in Fingerprints /\ h \in Fingerprints
      BY <1>1, <2>4
    <3> QED
      BY <1>0, <1>1, <3>1, <3>2
  <2>8. \A g \in Unmerged : FccDepth[g] > FccDepth[fcc]
    BY DEF OrderInv
  <2>9. renamed' # Nowhere => stage' = "merging" /\ renamed' \in Unmerged'
    BY <2>1, <2>2
  <2> QED
    BY <2>1, <2>2, <2>5, <2>6, <2>7, <2>8, <2>9 DEF OrderInv
<1>7. CASE Unlink
  <2>1. /\ stage = "merging" /\ renamed' = Nowhere /\ UNCHANGED <<input, finished, stage, fcc>>
        /\ \A f \in Fingerprints : by_fingerprint'[f] \subseteq by_fingerprint[f]
    BY <1>7 DEF Unlink, SplitTypeOK
  <2>2. Pending' = Pending /\ Unmerged' \subseteq Unmerged
    BY <2>1 DEF Pending, Unmerged
  <2> QED
    BY <2>1, <2>2 DEF OrderInv
<1>8. CASE FinishFcc
  <2>1. /\ stage = "merging" /\ (\A f \in Fingerprints : by_fingerprint[f] = {})
        /\ finished' = finished \cup {fcc} /\ stage' = "idle"
        /\ UNCHANGED <<input, by_fingerprint, fcc, renamed>>
    BY <1>8 DEF FinishFcc
  <2>2. Pending' \subseteq Pending /\ Unmerged = {} /\ Unmerged' = {}
    BY <2>1 DEF Pending, Unmerged
  <2>3. renamed' = Nowhere
    BY <2>1, <2>2 DEF OrderInv
  <2>4. ASSUME NEW h \in finished', NEW g \in Pending' PROVE FccDepth[h] <= FccDepth[g]
    BY <2>1, <2>2 DEF OrderInv
  <2> QED
    BY <2>1, <2>2, <2>3, <2>4 DEF OrderInv
<1>9. CASE KillSplit
  <2>1. stage' = "idle" /\ renamed' = Nowhere /\ UNCHANGED <<input, finished, by_fingerprint, fcc>>
    BY <1>9, KillFields
  <2>2. Pending' = Pending /\ Unmerged' = Unmerged
    BY <2>1 DEF Pending, Unmerged
  <2> QED
    BY <2>1, <2>2 DEF OrderInv
<1> QED
  BY <1>2, <1>3, <1>4, <1>5, <1>6, <1>7, <1>8, <1>9 DEF SplitNext, DriverStep

\* Every step keeps what is written of exits.
LEMMA ExitsStep ==
    ASSUME SplitTypeOK, OrderInv, ExitsInv, IdleInv, SolverInv, "writing" \notin KilledIn, SplitNext
    PROVE  ExitsInv'
<1>0. \A f \in Fingerprints : FccDepth[f] \in Nat
  BY SplitAssumption
<1>1. CASE \E t \in Workers : Take(t) \/ Check(t) \/ Expand(t)
  <2>1. UNCHANGED <<stage, exits, fcc>>
    BY <1>1 DEF Take, Check, Expand, splitFiles
  <2> QED
    BY <2>1 DEF ExitsInv
<1>2. ASSUME NEW t \in Workers, CheckKey(t) PROVE ExitsInv'
  <2> SUFFICES ASSUME stage' \in {"solving", "sorting"}, NEW l \in exits'
               PROVE  /\ l.state \in AllReached /\ l.depth <= FccDepth[Fingerprint[l.state]]
                      /\ FccDepth[Fingerprint[l.state]] > FccDepth[fcc']
    BY DEF ExitsInv
  <2>1. PICK it : it = thread[t].item
    OBVIOUS
  <2>2. thread[t].pc = "insert" /\ fcc' = fcc /\ stage' = stage
    BY <1>2, <2>1, CheckKeyFields
  <2>3. PICK k \in thread[t].derived : exits' = exits \/ (Fingerprint[k] # fcc /\ exits' = exits \cup {FccLine(k, it.ancestor + 1)})
    BY <1>2, <2>1, CheckKeyFields
  <2>4. CASE l \in exits
    BY <2>2, <2>4 DEF ExitsInv
  <2>5. CASE Fingerprint[k] # fcc /\ l = FccLine(k, it.ancestor + 1)
    <3>1. stage = "solving"
      BY <2>2 DEF IdleInv
    <3>2. OfFcc(it) /\ it \in Entries /\ k \in Derives[it.key]
      BY <2>1, <2>2, <3>1 DEF SolverInv, ThreadInv
    <3>3. it.key \in Layouts /\ k \in AllReached /\ k \in Layouts /\ it.ancestor \in Nat
      BY <3>2, ReachedIsClosed DEF OfFcc, Entries
    <3>4. FccDepth[Fingerprint[k]] > FccDepth[fcc]
      BY <2>5, <3>2, <3>3, SplitAssumption DEF OfFcc
    <3>5. Fingerprint[k] \in Fingerprints /\ fcc \in Fingerprints
      BY <3>3 DEF Fingerprints, SplitTypeOK
    <3>6. it.ancestor + 1 <= FccDepth[Fingerprint[k]]
      BY <1>0, <3>2, <3>3, <3>4, <3>5 DEF OfFcc
    <3> QED
      BY <2>2, <2>5, <3>3, <3>4, <3>6 DEF FccLine
  <2> QED
    BY <2>3, <2>4, <2>5
<1>3. CASE StartFcc
  BY <1>3 DEF StartFcc, ExitsInv
<1>4. CASE Joined
  BY <1>4 DEF Joined, ExitsInv, splitFiles
<1>5. CASE Sort \/ Merge \/ Unlink
  BY <1>5 DEF Sort, Merge, Unlink, ExitsInv
<1>6. CASE FinishFcc
  BY <1>6 DEF FinishFcc, ExitsInv
<1>7. CASE KillSplit
  BY <1>7, KillFields DEF ExitsInv
<1> QED
  BY <1>1, <1>2, <1>3, <1>4, <1>5, <1>6, <1>7 DEF SplitNext, DriverStep, WorkerStep

\* Threads are started for the solver only, and joined after it.
LEMMA IdleStep ==
    ASSUME SplitTypeOK, IdleInv, SplitNext
    PROVE  IdleInv'
<1>1. ASSUME NEW t \in Workers, WorkerStep(t) PROVE IdleInv'
  <2>1. stage' = stage
    BY <1>1, WorkerFields
  <2>2. thread[t].pc # "done"
    BY <1>1 DEF WorkerStep, Take, Check, Expand, CheckKey
  <2> QED
    BY <2>1, <2>2 DEF IdleInv
<1>2. CASE StartFcc
  BY <1>2 DEF StartFcc, IdleInv
<1>3. CASE NoSolver
  BY <1>3 DEF NoSolver, IdleWorkers, IdleInv
<1>4. CASE Sort \/ Merge \/ Unlink \/ FinishFcc
  BY <1>4 DEF Sort, Merge, Unlink, FinishFcc, IdleInv, solverVars
<1> QED
  BY <1>1, <1>2, <1>3, <1>4 DEF SplitNext, DriverStep, Joined, KillSplit

-----------------------------------------------------------------------------
(***************************************************************************)
(* The solver.                                                             *)
(***************************************************************************)
LEMMA HoldersAreFinite == Holders \in SUBSET Workers /\ IsFiniteSet(Holders) /\ Cardinality(Holders) \in Nat
BY SplitAssumption, FS_Subset, FS_CardinalityType DEF Holders

\* The items in flight but for that of one thread.
LEMMA LeftIsCounted ==
    ASSUME SplitTypeOK, NEW t \in Workers, coll.in_flight = Cardinality(Holders)
    PROVE  LeftInFlight(t) = Cardinality(Holders \ {t}) /\ IsFiniteSet(Holders \ {t})
<1>1. Cardinality(Holders \ {t}) = (IF t \in Holders THEN Cardinality(Holders) - 1 ELSE Cardinality(Holders))
      /\ IsFiniteSet(Holders \ {t})
  BY HoldersAreFinite, FS_RemoveElement
<1>2. t \in Holders <=> thread[t].held
  BY DEF Holders
<1> QED
  BY <1>1, <1>2, HoldersAreFinite DEF LeftInFlight

\* The mark for no item is none.
LEMMA NoItemIsNoEntry == NoItem \notin Entries
<1>1. NoItem.depth = -1
  BY DEF NoItem
<1>2. \A i \in Entries : i.depth \in Nat
  BY DEF Entries
<1> QED
  BY <1>1, <1>2

\* Taking an item: the last one that is returned is the last there is.
LEMMA TakeKeepsSolver ==
    ASSUME BaseInv, stage = "solving", NEW t \in Workers, Take(t)
    PROVE  SolverInv'
<1> DEFINE left == LeftInFlight(t)
<1>0. /\ SplitTypeOK /\ thread \in [Workers -> Thread] /\ coll \in Coll
      /\ \A i \in coll.queue : OfFcc(i)
      /\ \A u \in Workers : ThreadInv(u)
      /\ coll.in_flight = Cardinality(Holders)
      /\ coll.terminate => fcc \in success
      /\ \A k \in coll.store : Fingerprint[k] # fcc => k \in States(exits)
      /\ WorkInv /\ QuietInv
  BY DEF BaseInv, SolverInv, SplitTypeOK, Thread, Coll
<1>1. /\ thread[t].pc = "take" /\ left \in Int
      /\ thread' \in [Workers -> Thread] /\ coll' \in Coll
      /\ \A u \in Workers : u # t => thread'[u] = thread[u]
      /\ thread'[t].pc = "check" /\ thread'[t].derived = thread[t].derived
      /\ coll'.store = coll.store /\ coll'.terminate = coll.terminate
      /\ UNCHANGED <<input, finished, exits, by_fingerprint, by, success, stage, fcc, renamed>>
      /\ \/ /\ coll.terminate /\ coll'.queue = coll.queue /\ coll'.in_flight = left
            /\ ~thread'[t].held /\ thread'[t].item = thread[t].item
            /\ thread'[t].seen = thread[t].seen
         \/ /\ ~coll.terminate /\ coll.queue = {} /\ coll'.queue = {}
            /\ coll'.in_flight = left
            /\ ~thread'[t].held /\ thread'[t].item = NoItem /\ thread'[t].seen = left
         \/ \E i \in coll.queue :
               /\ ~coll.terminate /\ coll'.queue = coll.queue \ {i}
               /\ coll'.in_flight = left + 1
               /\ thread'[t].held /\ thread'[t].item = i /\ thread'[t].seen = left + 1
  BY <1>0, TakeFields DEF splitFiles
<1>2. left = Cardinality(Holders \ {t}) /\ IsFiniteSet(Holders \ {t}) /\ left \in Nat
  BY <1>0, LeftIsCounted, FS_CardinalityType
<1>3. Holders' = IF thread'[t].held THEN (Holders \ {t}) \cup {t} ELSE Holders \ {t}
  BY <1>1 DEF Holders
<1>4. coll'.in_flight = Cardinality(Holders')
  <2>1. CASE thread'[t].held
    <3>1. coll'.in_flight = left + 1
      BY <1>1, <2>1
    <3>2. Cardinality((Holders \ {t}) \cup {t}) = Cardinality(Holders \ {t}) + 1
      <4>1. t \notin Holders \ {t}
        OBVIOUS
      <4> QED
        BY <1>2, <4>1, FS_AddElement
    <3> QED
      BY <1>2, <1>3, <2>1, <3>1, <3>2
  <2>2. CASE ~thread'[t].held
    BY <1>1, <1>2, <1>3, <2>2
  <2> QED
    BY <2>1, <2>2
<1>5. \A i \in coll'.queue : OfFcc(i)'
  BY <1>0, <1>1 DEF OfFcc
<1>6. ASSUME NEW u \in Workers PROVE ThreadInv(u)'
  <2>1. CASE u # t
    <3>1. thread'[u] = thread[u] /\ ThreadInv(u)
      BY <1>0, <1>1, <2>1
    <3> QED
      BY <1>1, <3>1 DEF ThreadInv, OfFcc
  <2>2. CASE u = t
    <3>1. thread'[t].held => thread'[t].item \in coll.queue /\ thread'[t].seen > 0
      <4>1. thread'[t].held => \E i \in coll.queue : thread'[t].item = i /\ thread'[t].seen = left + 1
        BY <1>1, Zenon
      <4>2. left + 1 > 0
        BY <1>2
      <4> QED
        BY <4>1, <4>2
    <3>2. coll.queue \subseteq Entries
      BY <1>0 DEF Coll
    <3>3. ~thread'[t].held => thread'[t].item = NoItem \/ coll'.terminate
      BY <1>1
    <3> QED
      BY <1>0, <1>1, <2>2, <3>1, <3>2, <3>3 DEF ThreadInv, OfFcc
  <2> QED
    BY <2>1, <2>2
<1>7. WorkInv'
  <2>1. CASE fcc \in success
    BY <1>1, <2>1 DEF WorkInv
  <2>2. CASE fcc \notin success
    <3>1. Known' = Known
      BY <1>1 DEF Known, States
    <3>2. ASSUME NEW k \in Known
          PROVE  \/ \E i \in coll'.queue : i.key = k
                 \/ \E u \in Workers : Expanding(u, k)'
                 \/ Expanded(k)'
      <4>1. CASE \E i \in coll.queue : i.key = k
        <5>1. PICK i \in coll.queue : i.key = k
          BY <4>1
        <5>2. CASE i \in coll'.queue
          BY <5>1, <5>2
        <5>3. CASE i \notin coll'.queue
          <6>1. thread'[t].held /\ thread'[t].item = i
            BY <1>1, <5>3
          <6>2. Expanding(t, k)'
            BY <1>1, <5>1, <6>1 DEF Expanding
          <6> QED
            BY <6>2
        <5> QED
          BY <5>2, <5>3
      <4>2. CASE \E u \in Workers : Expanding(u, k)
        BY <1>1, <4>2 DEF Expanding
      <4>3. CASE Expanded(k)
        BY <1>1, <4>3 DEF Expanded, Inserting
      <4> QED
        BY <1>0, <2>2, <4>1, <4>2, <4>3 DEF WorkInv
    <3> QED
      BY <3>1, <3>2 DEF WorkInv
  <2> QED
    BY <2>1, <2>2
<1>8. QuietInv'
  <2>1. CASE fcc \in success
    BY <1>1, <2>1 DEF QuietInv
  <2>2. CASE fcc \notin success
    <3> SUFFICES ASSUME NEW u \in Workers, Leaving(u)' PROVE coll'.queue = {} /\ Holders' = {}
      BY DEF QuietInv
    <3>1. ~coll.terminate
      BY <1>0, <2>2
    <3>2. CASE u # t
      <4>1. Leaving(u)
        BY <1>1, <3>2 DEF Leaving
      <4>2. coll.queue = {} /\ Holders = {}
        BY <1>0, <2>2, <4>1 DEF QuietInv
      <4> QED
        BY <1>1, <1>3, <3>1, <4>2
    <3>3. CASE u = t
      <4>1. thread'[t].seen = 0
        BY <1>1, <3>3 DEF Leaving
      <4>2. coll'.queue = {} /\ ~thread'[t].held /\ left = 0
        <5>1. \/ coll'.queue = {} /\ ~thread'[t].held /\ thread'[t].seen = left
              \/ thread'[t].seen = left + 1
          BY <1>1, <3>1, Zenon
        <5>2. left + 1 # 0
          BY <1>2
        <5> QED
          BY <4>1, <5>1, <5>2, Zenon
      <4>3. Holders' = {}
        BY <1>2, <1>3, <4>2, FS_EmptySet
      <4> QED
        BY <4>2, <4>3
    <3> QED
      BY <3>2, <3>3
  <2> QED
    BY <2>1, <2>2
<1>9. /\ coll'.terminate => fcc' \in success'
      /\ \A k \in coll'.store : Fingerprint[k] # fcc' => k \in States(exits')
  BY <1>0, <1>1
<1> QED
  BY <1>4, <1>5, <1>6, <1>7, <1>8, <1>9 DEF SolverInv

\* Looking at should_terminate: who leaves has seen no item of any thread.
LEMMA CheckKeepsSolver ==
    ASSUME BaseInv, stage = "solving", NEW t \in Workers, Check(t)
    PROVE  SolverInv'
<1>0. /\ SplitTypeOK /\ thread \in [Workers -> Thread]
      /\ \A i \in coll.queue : OfFcc(i)
      /\ \A u \in Workers : ThreadInv(u)
      /\ coll.in_flight = Cardinality(Holders)
      /\ coll.terminate => fcc \in success
      /\ \A k \in coll.store : Fingerprint[k] # fcc => k \in States(exits)
      /\ WorkInv /\ QuietInv
  BY DEF BaseInv, SolverInv, SplitTypeOK, Thread
<1>1. /\ thread[t].pc = "check" /\ thread' \in [Workers -> Thread]
      /\ \A u \in Workers : u # t => thread'[u] = thread[u]
      /\ thread'[t].held = thread[t].held /\ thread'[t].item = thread[t].item
      /\ thread'[t].derived = thread[t].derived /\ thread'[t].seen = thread[t].seen
      /\ UNCHANGED <<input, finished, exits, by_fingerprint, by, success, stage, fcc, renamed, coll>>
      /\ \/ thread'[t].pc = "done" /\ (coll.terminate \/ thread[t].seen = 0)
         \/ /\ thread'[t].pc = (IF thread[t].item = NoItem THEN "take" ELSE "expand")
            /\ ~coll.terminate
  BY <1>0, CheckFields DEF splitFiles
<1>2. /\ thread[t].held => thread[t].item # NoItem /\ thread[t].seen > 0
      /\ ~coll.terminate /\ thread[t].item # NoItem => thread[t].held
  BY <1>0, <1>1, NoItemIsNoEntry DEF ThreadInv
<1>3. Holders' = Holders
  BY <1>1 DEF Holders
<1>4. ASSUME NEW u \in Workers PROVE ThreadInv(u)'
  <2>1. CASE u # t
    <3>1. thread'[u] = thread[u] /\ ThreadInv(u)
      BY <1>0, <1>1, <2>1
    <3> QED
      BY <1>1, <3>1 DEF ThreadInv, OfFcc
  <2>2. CASE u = t
    <3>1. thread'[t].pc = "expand" => thread'[t].held
      BY <1>1, <1>2
    <3>2. thread'[t].pc \in {"done", "take", "expand"}
      BY <1>1
    <3>3. ASSUME thread'[t].held PROVE thread'[t].item \in Entries /\ OfFcc(thread[t].item)'
      <4>1. thread[t].held /\ thread'[t].item = thread[t].item /\ fcc' = fcc
        BY <1>1, <3>3, Zenon
      <4>2. thread[t].item \in Entries /\ OfFcc(thread[t].item)
        BY <1>0, <4>1, Zenon DEF ThreadInv
      <4> QED
        BY <4>1, <4>2 DEF OfFcc
    <3> QED
      BY <2>2, <3>1, <3>2, <3>3 DEF ThreadInv, OfFcc
  <2> QED
    BY <2>1, <2>2
<1>5. WorkInv'
  <2>1. CASE fcc \in success
    BY <1>1, <2>1 DEF WorkInv
  <2>2. CASE fcc \notin success
    <3>1. Known' = Known
      BY <1>1 DEF Known, States
    <3>2. ASSUME NEW u \in Workers, NEW k, Expanding(u, k) PROVE Expanding(u, k)'
      <4>1. CASE u = t
        <5>1. thread'[t].pc = "expand"
          BY <1>0, <1>1, <1>2, <2>2, <3>2, <4>1 DEF Expanding
        <5> QED
          BY <1>1, <3>2, <4>1, <5>1 DEF Expanding
      <4>2. CASE u # t
        BY <1>1, <3>2, <4>2 DEF Expanding
      <4> QED
        BY <4>1, <4>2
    <3>3. ASSUME NEW u \in Workers, NEW k, Inserting(u, k) PROVE Inserting(u, k)'
      BY <1>1, <3>3 DEF Inserting
    <3>4. ASSUME NEW k, Expanded(k) PROVE Expanded(k)'
      BY <1>1, <3>3, <3>4 DEF Expanded
    <3> QED
      BY <1>0, <1>1, <2>2, <3>1, <3>2, <3>4 DEF WorkInv
  <2> QED
    BY <2>1, <2>2
<1>6. QuietInv'
  <2>1. CASE fcc \in success
    BY <1>1, <2>1 DEF QuietInv
  <2>2. CASE fcc \notin success
    <3> SUFFICES ASSUME NEW u \in Workers, Leaving(u)' PROVE Leaving(u)
      BY <1>0, <1>1, <1>3, <2>2 DEF QuietInv
    <3> QED
      BY <1>0, <1>1, <2>2 DEF Leaving
  <2> QED
    BY <2>1, <2>2
<1> QED
  BY <1>0, <1>1, <1>3, <1>4, <1>5, <1>6 DEF SolverInv, OfFcc

\* Expanding an item: its list is with the thread then, or it is the goal.
LEMMA ExpandKeepsSolver ==
    ASSUME BaseInv, stage = "solving", NEW t \in Workers, Expand(t)
    PROVE  SolverInv'
<1>0. /\ SplitTypeOK /\ thread \in [Workers -> Thread]
      /\ \A i \in coll.queue : OfFcc(i)
      /\ \A u \in Workers : ThreadInv(u)
      /\ coll.in_flight = Cardinality(Holders)
      /\ coll.terminate => fcc \in success
      /\ \A k \in coll.store : Fingerprint[k] # fcc => k \in States(exits)
      /\ WorkInv /\ QuietInv
  BY DEF BaseInv, SolverInv, SplitTypeOK, Thread
<1> DEFINE key == thread[t].item.key
<1>1. /\ thread[t].pc = "expand"
      /\ thread' \in [Workers -> Thread]
      /\ \A u \in Workers : u # t => thread'[u] = thread[u]
      /\ thread'[t].held = thread[t].held /\ thread'[t].item = thread[t].item
      /\ coll'.queue = coll.queue /\ coll'.store = coll.store /\ coll'.in_flight = coll.in_flight
      /\ UNCHANGED <<input, finished, exits, by_fingerprint, by, stage, fcc, renamed>>
      /\ \/ /\ key = WonLayout /\ coll'.terminate /\ success' = success \cup {fcc}
            /\ thread'[t].pc = "done"
         \/ /\ key # WonLayout /\ coll' = coll /\ success' = success
            /\ thread'[t].derived = Derives[key]
            /\ thread'[t].pc = (IF Derives[key] = {} THEN "take" ELSE "insert")
  BY <1>0, ExpandFields
<1>2. thread[t].held /\ thread[t].item \in Entries /\ OfFcc(thread[t].item)
  BY <1>0, <1>1 DEF ThreadInv
<1>3. Holders' = Holders /\ thread'[t].held
  BY <1>1, <1>2 DEF Holders
<1>4. ASSUME NEW u \in Workers PROVE ThreadInv(u)'
  <2>1. CASE u # t
    <3>1. thread'[u] = thread[u] /\ ThreadInv(u) /\ fcc' = fcc /\ (coll.terminate => coll'.terminate)
      BY <1>0, <1>1, <2>1
    <3> QED
      BY <3>1 DEF ThreadInv, OfFcc
  <2>2. CASE u = t
    <3>1. thread'[t].pc # "check"
      BY <1>1
    <3>2. thread'[t].pc = "insert" => thread'[t].derived = Derives[key] /\ thread'[t].derived # {}
      BY <1>1
    <3> QED
      BY <1>1, <1>2, <1>3, <2>2, <3>1, <3>2 DEF ThreadInv, OfFcc
  <2> QED
    BY <2>1, <2>2
<1>5. CASE fcc' \in success'
  <2>1. WorkInv' /\ QuietInv'
    BY <1>5 DEF WorkInv, QuietInv
  <2> QED
    BY <1>0, <1>1, <1>3, <1>4, <1>5, <2>1 DEF SolverInv, OfFcc
<1>6. CASE fcc' \notin success'
  <2>1. /\ key # WonLayout /\ coll' = coll /\ success' = success
        /\ thread'[t].derived = Derives[key]
        /\ thread'[t].pc = (IF Derives[key] = {} THEN "take" ELSE "insert")
    BY <1>1, <1>6
  <2>2. Known' = Known
    BY <1>1 DEF Known, States
  <2>3. ASSUME NEW u \in Workers, NEW k, Inserting(u, k) PROVE Inserting(u, k)'
    BY <1>1, <2>3 DEF Inserting
  <2>4. ASSUME NEW k, Expanded(k) PROVE Expanded(k)'
    BY <2>1, <2>3, <2>4 DEF Expanded
  <2>5. Expanded(key)'
    <3>1. \A j \in Derives[key] : Inserting(t, j)'
      BY <2>1 DEF Inserting
    <3> QED
      BY <1>1, <2>1, <3>1 DEF Expanded
  <2>6. ASSUME NEW u \in Workers, NEW k, Expanding(u, k) PROVE Expanding(u, k)' \/ Expanded(k)'
    <3>1. CASE u = t
      <4>1. k = thread'[t].item.key
        BY <1>1, <2>6, <3>1 DEF Expanding
      <4> QED
        BY <2>5, <4>1
    <3>2. CASE u # t
      BY <1>1, <2>6, <3>2 DEF Expanding
    <3> QED
      BY <3>1, <3>2
  <2>7. WorkInv'
    BY <1>0, <1>1, <1>6, <2>1, <2>2, <2>4, <2>6 DEF WorkInv
  <2>8. QuietInv'
    <3> SUFFICES ASSUME NEW u \in Workers, Leaving(u)' PROVE FALSE
      BY DEF QuietInv
    <3>1. u # t
      BY <2>1 DEF Leaving
    <3>2. Leaving(u)
      BY <1>1, <3>1 DEF Leaving
    <3>3. Holders = {}
      BY <1>0, <1>1, <1>6, <2>1, <3>2 DEF QuietInv
    <3> QED
      BY <1>2, <3>3 DEF Holders
  <2> QED
    BY <1>0, <1>1, <1>3, <1>4, <2>1, <2>7, <2>8 DEF SolverInv, OfFcc
<1> QED
  BY <1>5, <1>6

\* Inserting a position: it is stored, and queued or written.
LEMMA CheckKeyKeepsSolver ==
    ASSUME BaseInv, stage = "solving", NEW t \in Workers, CheckKey(t)
    PROVE  SolverInv'
<1>0. /\ SplitTypeOK /\ thread \in [Workers -> Thread]
      /\ \A i \in coll.queue : OfFcc(i)
      /\ \A u \in Workers : ThreadInv(u)
      /\ coll.in_flight = Cardinality(Holders)
      /\ coll.terminate => fcc \in success
      /\ \A k \in coll.store : Fingerprint[k] # fcc => k \in States(exits)
      /\ WorkInv /\ QuietInv
  BY DEF BaseInv, SolverInv, SplitTypeOK, Thread
<1>1. PICK it : it = thread[t].item
  OBVIOUS
<1>2. /\ thread[t].pc = "insert" /\ thread' \in [Workers -> Thread]
      /\ \A u \in Workers : u # t => thread'[u] = thread[u]
      /\ thread'[t].held = thread[t].held /\ thread'[t].item = it
      /\ coll'.terminate = coll.terminate /\ coll'.in_flight = coll.in_flight
      /\ UNCHANGED <<input, finished, by_fingerprint, by, success, stage, fcc, renamed>>
  BY <1>0, <1>1, CheckKeyFields
<1>3. PICK k \in thread[t].derived :
         /\ k \in Layouts
         /\ thread'[t].derived = thread[t].derived \ {k}
         /\ thread'[t].pc = (IF thread'[t].derived = {} THEN "take" ELSE "insert")
         /\ coll'.store = coll.store \cup {k}
         /\ \/ k \in coll.store /\ coll'.queue = coll.queue /\ exits' = exits
            \/ /\ Fingerprint[k] = fcc /\ exits' = exits
               /\ coll'.queue = coll.queue
                     \cup {[key |-> k, ancestor |-> it.ancestor, depth |-> it.depth + 1]}
            \/ /\ Fingerprint[k] # fcc /\ coll'.queue = coll.queue
               /\ exits' = exits \cup {FccLine(k, it.ancestor + 1)}
  BY <1>0, <1>1, CheckKeyFields
<1> DEFINE entry == [key |-> k, ancestor |-> it.ancestor, depth |-> it.depth + 1]
<1>4. /\ thread[t].held /\ it \in Entries /\ OfFcc(it)
      /\ thread[t].derived \subseteq Derives[it.key]
  BY <1>0, <1>1, <1>2 DEF ThreadInv
<1>5. Holders' = Holders
  BY <1>2 DEF Holders
<1>6. \A i \in coll'.queue : OfFcc(i)'
  <2>1. \A i \in coll.queue : OfFcc(i)'
    BY <1>0, <1>2 DEF OfFcc
  <2>2. Fingerprint[k] = fcc => OfFcc(entry)'
    <3>1. k \in AllReached
      BY <1>3, <1>4, ReachedIsClosed DEF OfFcc
    <3> QED
      BY <1>2, <1>4, <3>1 DEF OfFcc
  <2> QED
    BY <1>3, <2>1, <2>2
<1>7. ASSUME NEW u \in Workers PROVE ThreadInv(u)'
  <2>1. CASE u # t
    <3>1. thread'[u] = thread[u] /\ ThreadInv(u) /\ fcc' = fcc /\ coll.terminate = coll'.terminate
      BY <1>0, <1>2, <2>1
    <3> QED
      BY <3>1 DEF ThreadInv, OfFcc
  <2>2. CASE u = t
    <3>1. thread'[t].pc # "check"
      BY <1>3
    <3>2. thread'[t].pc = "insert" => thread'[t].derived \subseteq Derives[it.key] /\ thread'[t].derived # {}
      BY <1>3, <1>4
    <3> QED
      BY <1>2, <1>4, <2>2, <3>1, <3>2 DEF ThreadInv, OfFcc
  <2> QED
    BY <2>1, <2>2
<1>8. \A j \in coll'.store : Fingerprint[j] # fcc' => j \in States(exits')
  <2>1. States(exits) \subseteq States(exits')
    BY <1>3 DEF States
  <2>2. Fingerprint[k] # fcc => k \in coll.store \/ k \in States(exits')
    <3> DEFINE line == FccLine(k, it.ancestor + 1)
    <3>1. line.state = k
      BY DEF FccLine
    <3>2. Fingerprint[k] # fcc => k \in coll.store \/ line \in exits'
      BY <1>3
    <3> HIDE DEF line
    <3> QED
      BY <3>1, <3>2 DEF States
  <2> QED
    BY <1>0, <1>2, <1>3, <2>1, <2>2
<1>9. WorkInv'
  <2>1. CASE fcc \in success
    BY <1>2, <2>1 DEF WorkInv
  <2>2. CASE fcc \notin success
    <3>1. ASSUME NEW j \in Known' PROVE j \in Known \/ (j = k /\ entry \in coll'.queue)
      BY <1>2, <1>3, <3>1 DEF Known, States
    <3>2. ASSUME NEW u \in Workers, NEW j, Inserting(u, j) PROVE Inserting(u, j)' \/ j \in coll'.store
      <4>1. CASE u = t
        BY <1>3, <3>2, <4>1 DEF Inserting
      <4>2. CASE u # t
        BY <1>2, <3>2, <4>2 DEF Inserting
      <4> QED
        BY <4>1, <4>2
    <3>3. ASSUME NEW j, Expanded(j) PROVE Expanded(j)'
      BY <1>3, <3>2, <3>3 DEF Expanded
    <3>4. ASSUME NEW u \in Workers, NEW j, Expanding(u, j) PROVE Expanding(u, j)'
      BY <1>2, <3>4 DEF Expanding
    <3>5. coll.queue \subseteq coll'.queue
      BY <1>3
    <3>6. ASSUME NEW j \in Known'
          PROVE  \/ \E i \in coll'.queue : i.key = j
                 \/ \E u \in Workers : Expanding(u, j)'
                 \/ Expanded(j)'
      <4>1. CASE j \in Known
        BY <1>0, <2>2, <3>3, <3>4, <3>5, <4>1 DEF WorkInv
      <4>2. CASE j = k /\ entry \in coll'.queue
        BY <4>2
      <4> QED
        BY <3>1, <4>1, <4>2
    <3> QED
      BY <3>6 DEF WorkInv
  <2> QED
    BY <2>1, <2>2
<1>10. QuietInv'
  <2>1. CASE fcc \in success
    BY <1>2, <2>1 DEF QuietInv
  <2>2. CASE fcc \notin success
    <3> SUFFICES ASSUME NEW u \in Workers, Leaving(u)' PROVE FALSE
      BY DEF QuietInv
    <3>1. u # t
      BY <1>3 DEF Leaving
    <3>2. Leaving(u)
      BY <1>2, <3>1 DEF Leaving
    <3>3. Holders = {}
      BY <1>0, <2>2, <3>2 DEF QuietInv
    <3> QED
      BY <1>4, <3>3 DEF Holders
  <2> QED
    BY <2>1, <2>2
<1>11. (coll'.terminate => fcc' \in success') /\ coll'.in_flight = Cardinality(Holders')
  BY <1>0, <1>2, <1>5
<1> QED
  BY <1>6, <1>7, <1>8, <1>9, <1>10, <1>11 DEF SolverInv

\* A solver that is started has the entry points queued.
LEMMA StartMakesSolver ==
    ASSUME SplitTypeOK, FilesInv, StartFcc
    PROVE  SolverInv'
<1>1. /\ fcc' \in Fingerprints /\ input' = input
      /\ coll' = [queue |-> {[key |-> l.state, ancestor |-> l.depth, depth |-> l.depth] : l \in input[fcc']},
                  store |-> {}, in_flight |-> 0, terminate |-> FALSE]
      /\ thread' = [t \in Workers |-> [IdleWorkers[t] EXCEPT !.pc = "take"]]
  BY DEF StartFcc, Pending
<1>2. \A t \in Workers : thread'[t].pc = "take" /\ ~thread'[t].held
  BY <1>1 DEF IdleWorkers
<1>3. Holders' = {} /\ coll'.in_flight = Cardinality(Holders')
  BY <1>1, <1>2, FS_EmptySet DEF Holders
<1>4. \A i \in coll'.queue : OfFcc(i)'
  BY <1>1 DEF OfFcc, FilesInv, Belongs
<1>5. \A t \in Workers : ThreadInv(t)'
  BY <1>2 DEF ThreadInv
<1>6. WorkInv'
  <2> SUFFICES ASSUME NEW k \in Known' PROVE \E i \in coll'.queue : i.key = k
    BY DEF WorkInv
  <2>1. PICK l \in input[fcc'] : l.state = k
    BY <1>1 DEF Known, States
  <2>2. [key |-> l.state, ancestor |-> l.depth, depth |-> l.depth] \in coll'.queue
    BY <1>1
  <2> QED
    BY <2>1, <2>2
<1>7. QuietInv'
  BY <1>2 DEF QuietInv, Leaving
<1>8. ~coll'.terminate /\ coll'.store = {}
  BY <1>1
<1> QED
  BY <1>3, <1>4, <1>5, <1>6, <1>7, <1>8 DEF SolverInv

\* Every step keeps what is known of the solver.
LEMMA SolverStep ==
    ASSUME BaseInv, "writing" \notin KilledIn, SplitNext
    PROVE  SolverInv'
<1>1. ASSUME NEW t \in Workers, WorkerStep(t) PROVE SolverInv'
  <2>1. thread[t].pc # "done"
    BY <1>1 DEF WorkerStep, Take, Check, Expand, CheckKey
  <2>2. stage = "solving"
    BY <2>1 DEF BaseInv, IdleInv
  <2> QED
    BY <1>1, <2>2, TakeKeepsSolver, CheckKeepsSolver, ExpandKeepsSolver, CheckKeyKeepsSolver DEF WorkerStep
<1>2. CASE StartFcc
  BY <1>2, StartMakesSolver DEF BaseInv
<1>3. CASE Joined \/ Sort
  BY <1>3 DEF Joined, Sort, SolverInv
<1>4. CASE Merge \/ Unlink
  BY <1>4 DEF Merge, Unlink, SolverInv
<1>5. CASE FinishFcc \/ KillSplit
  BY <1>5 DEF FinishFcc, KillSplit, SolverInv
<1> QED
  BY <1>1, <1>2, <1>3, <1>4, <1>5 DEF SplitNext, DriverStep

-----------------------------------------------------------------------------
\* The invariant of files and solver holds at first, and every step keeps it.
LEMMA BaseInvInitially == SplitInit => BaseInv
<1> SUFFICES ASSUME SplitInit PROVE BaseInv
  OBVIOUS
<1>1. SplitTypeOK
  BY InitIsTyped
<1>2. FirstLayout \in Layouts /\ Fingerprint[FirstLayout] \in Fingerprints /\ FirstLayout \in AllReached
      /\ FccDepth[Fingerprint[FirstLayout]] \in Nat
  BY SplitAssumption, ReachedIsClosed DEF Fingerprints
<1>3. FilesInv
  <2>1. input[Fingerprint[FirstLayout]] = {FccLine(FirstLayout, 0)}
    BY <1>2 DEF SplitInit
  <2>2. \A f \in Fingerprints : by_fingerprint[f] = {} /\ (f # Fingerprint[FirstLayout] => input[f] = {})
    BY DEF SplitInit
  <2>3. FccLine(FirstLayout, 0).state = FirstLayout /\ FccLine(FirstLayout, 0).depth = 0
    BY DEF FccLine
  <2>4. by = {}
    BY DEF SplitInit
  <2>5. ASSUME NEW f \in Fingerprints, NEW l \in input[f]
        PROVE  Belongs(f, l) /\ \A m \in input[f] : m.state = l.state => m = l
    <3>1. f = Fingerprint[FirstLayout] /\ l = FccLine(FirstLayout, 0)
      BY <2>1, <2>2
    <3> QED
      BY <1>2, <2>1, <2>3, <3>1 DEF Belongs
  <2> QED
    BY <2>1, <2>2, <2>3, <2>4, <2>5 DEF FilesInv, States
<1>4. OrderInv
  BY DEF SplitInit, OrderInv, Unmerged
<1>5. ExitsInv /\ SolverInv
  BY DEF SplitInit, ExitsInv, SolverInv
<1>6. IdleInv
  BY DEF SplitInit, IdleInv, IdleWorkers
<1> QED
  BY <1>1, <1>3, <1>4, <1>5, <1>6 DEF BaseInv

LEMMA BaseInvStutters ==
    ASSUME BaseInv, UNCHANGED splitVars
    PROVE  BaseInv'
<1>1. UNCHANGED <<input, finished, exits, by_fingerprint, by, success, stage, fcc, coll, thread, renamed>>
  BY DEF splitVars, splitFiles, solverVars
<1>2. SplitTypeOK' /\ FilesInv' /\ OrderInv' /\ ExitsInv' /\ IdleInv'
  BY <1>1 DEF BaseInv, SplitTypeOK, FilesInv, Belongs, States, OrderInv, Pending, Unmerged, ExitsInv, IdleInv
<1>3. SolverInv'
  BY <1>1 DEF BaseInv, SolverInv, OfFcc, ThreadInv, Holders, States, WorkInv, Known, Expanding,
              Expanded, Inserting, QuietInv, Leaving
<1> QED
  BY <1>2, <1>3 DEF BaseInv

LEMMA BaseInvStep ==
    ASSUME BaseInv, "writing" \notin KilledIn, [SplitNext]_splitVars
    PROVE  BaseInv'
<1>1. CASE SplitNext
  <2>1. SplitTypeOK' /\ FilesInv' /\ OrderInv' /\ ExitsInv' /\ IdleInv'
    BY <1>1, StepIsTyped, FilesStep, OrderStep, ExitsStep, IdleStep DEF BaseInv
  <2> QED
    BY <1>1, <2>1, SolverStep DEF BaseInv
<1> QED
  BY <1>1, BaseInvStutters

-----------------------------------------------------------------------------
(***************************************************************************)
(* What a component that is searched has led to.                           *)
(***************************************************************************)
\* When the threads are joined and none has found the goal, what is stored is all of
\* the component, and where it is left is in the file of exits.
LEMMA JoinedSearched ==
    ASSUME BaseInv, Joined, fcc \notin success
    PROVE  Searched(fcc, States(exits))
<1>0. /\ SplitTypeOK /\ FilesInv /\ stage = "solving"
      /\ \A k \in coll.store : Fingerprint[k] # fcc => k \in States(exits)
      /\ WorkInv /\ QuietInv /\ \A t \in Workers : thread[t].pc = "done"
  BY DEF BaseInv, SolverInv, Joined
<1>1. fcc \in Fingerprints /\ input[fcc] \in SUBSET FccLines /\ coll.store \in SUBSET Layouts
  BY <1>0 DEF SplitTypeOK
<1>2. coll.queue = {}
  BY <1>0, SplitAssumption DEF QuietInv, Leaving
<1>3. ASSUME NEW k \in Known PROVE k # WonLayout /\ Derives[k] \subseteq coll.store
  BY <1>0, <1>2 DEF WorkInv, Expanding, Expanded, Inserting
<1>4. States(input[fcc]) \in SUBSET Layouts /\ States(input[fcc]) \subseteq Known
  BY <1>0, <1>1 DEF States, Known, FccLines, FilesInv, Belongs
<1>5. \A j \in Known \cap Layouts : \A k \in Derives[j] : Fingerprint[k] \in {fcc} => k \in Known
  BY <1>3 DEF Known
<1>6. Inside(fcc) \subseteq Known
  BY <1>4, <1>5, SpreadIsLeast DEF Inside, Within
<1>7. WonLayout \notin Inside(fcc)
  BY <1>3, <1>6
<1>8. ASSUME NEW k \in Leaves(fcc) PROVE k \in States(exits)
  <2>1. PICK j \in Inside(fcc) : k \in Derives[j] /\ Fingerprint[k] # fcc
    BY DEF Leaves
  <2>2. k \in coll.store
    BY <1>3, <1>6, <2>1
  <2> QED
    BY <1>0, <2>1, <2>2
<1> QED
  BY <1>7, <1>8 DEF Searched

\* The components that are finished are not merged into, nor is the one that is
\* being searched.
LEMMA DeeperAreMerged ==
    ASSUME SplitTypeOK, OrderInv, stage = "merging", NEW f \in Fingerprints, by_fingerprint[f] # {}
    PROVE  f # fcc /\ f \notin finished
<1>1. f \in Unmerged /\ fcc \in Pending /\ FccDepth[f] > FccDepth[fcc]
  BY DEF OrderInv, Unmerged
<1>2. \A g \in finished : FccDepth[g] <= FccDepth[fcc]
  BY <1>1 DEF OrderInv
<1>3. FccDepth[f] \in Nat /\ FccDepth[fcc] \in Nat
  BY SplitAssumption DEF SplitTypeOK
<1> QED
  BY <1>1, <1>2, <1>3

\* Nothing is searched at first.
LEMMA DoneInvInitially == SplitInit => DoneInv
BY DEF SplitInit, DoneInv

\* A merge adds to files of components that are deeper than all that were searched.
LEMMA MergeKeepsDone ==
    ASSUME BaseInv, DoneInv, Merge, NothingDropped
    PROVE  DoneInv'
<1>0. SplitTypeOK /\ FilesInv /\ OrderInv
  BY DEF BaseInv
<1>1. PICK f \in Fingerprints :
         /\ renamed = Nowhere /\ by_fingerprint[f] # {} /\ stage = "merging" /\ renamed' = f
         /\ \A g \in Fingerprints : g # f => input'[g] = input[g]
         /\ States(input[f]) \subseteq States(input'[f])
         /\ UNCHANGED <<finished, exits, by_fingerprint, success, stage, fcc>>
  BY <1>0, MergingFields
<1>2. f # fcc /\ f \notin finished /\ fcc \in Fingerprints /\ finished \subseteq Fingerprints
  BY <1>0, <1>1, DeeperAreMerged DEF SplitTypeOK
<1>3. \A g \in Fingerprints : States(input[g]) \subseteq States(input'[g])
  BY <1>1 DEF States
<1>4. Entered \subseteq Entered' /\ Sorted' = Sorted
  <2>1. \A k \in Layouts : Fingerprint[k] \in Fingerprints
    BY DEF Fingerprints
  <2>2. Entered \subseteq Entered'
    BY <1>3, <2>1 DEF Entered, States
  <2>3. Sorted' = Sorted
    BY <1>1 DEF Sorted, States
  <2> QED
    BY <2>2, <2>3
<1>5. fcc' \notin success' => Searched(fcc, Entered \cup Sorted)'
  <2> SUFFICES ASSUME fcc \notin success PROVE Searched(fcc, Entered \cup Sorted)'
    BY <1>1
  <2>1. Searched(fcc, Entered \cup Sorted)
    BY <1>1 DEF DoneInv
  <2>2. WonLayout \notin Inside(fcc) /\ Leaves(fcc) \subseteq Entered \cup Sorted
    BY <2>1 DEF Searched
  <2>3. Inside(fcc)' = Inside(fcc) /\ Leaves(fcc)' = Leaves(fcc)
    BY <1>1, <1>2 DEF Inside, States, Leaves
  <2> QED
    BY <1>4, <2>2, <2>3 DEF Searched
<1>6. ASSUME NEW g \in finished' \ success' PROVE Searched(g, Entered)'
  <2>1. g \in finished \ success /\ g \in Fingerprints /\ g # f
    BY <1>1, <1>2
  <2>2. WonLayout \notin Inside(g) /\ Leaves(g) \subseteq Entered
    BY <2>1 DEF DoneInv, Searched
  <2>3. Inside(g)' = Inside(g) /\ Leaves(g)' = Leaves(g)
    BY <1>1, <2>1 DEF Inside, States, Leaves
  <2> QED
    BY <1>4, <2>2, <2>3 DEF Searched
<1>7. States(by_fingerprint'[renamed']) \subseteq States(input'[renamed'])
  BY <1>1 DEF NothingDropped
<1>8. stage' # "sorting"
  BY <1>1
<1>9. (States(by_fingerprint[renamed]) \subseteq States(input[renamed]))'
  BY <1>7 DEF States
<1> QED
  BY <1>5, <1>6, <1>8, <1>9 DEF DoneInv

\* Sorted lines are those of exits, and unlinked ones those that were merged.
LEMMA SortAndUnlinkKeepDone ==
    ASSUME BaseInv, DoneInv, Sort \/ Unlink
    PROVE  DoneInv'
<1>0. SplitTypeOK /\ FilesInv /\ OrderInv
  BY DEF BaseInv
<1>1. UNCHANGED <<input, finished, success, fcc>>
  BY DEF Sort, Unlink
<1>2. Entered' = Entered /\ \A f : Inside(f)' = Inside(f) /\ Leaves(f)' = Leaves(f)
  BY <1>1 DEF Entered, Inside, Leaves, States
<1>3. \A g \in finished' \ success' : Searched(g, Entered)'
  BY <1>1, <1>2 DEF DoneInv, Searched
<1>4. \A k \in Layouts : Fingerprint[k] \in Fingerprints
  BY DEF Fingerprints
<1>5. CASE Sort
  <2>1. /\ stage = "sorting" /\ stage' = "merging" /\ renamed' = Nowhere
        /\ by_fingerprint' = [f \in Fingerprints |->
                            by_fingerprint[f] \cup {l \in exits : Fingerprint[l.state] = f}]
    BY <1>0, <1>5 DEF Sort, OrderInv
  <2>2. States(exits) \subseteq Sorted'
    <3> SUFFICES ASSUME NEW l \in exits PROVE l.state \in Sorted'
      BY DEF States
    <3>1. l.state \in Layouts
      BY <1>0 DEF SplitTypeOK, FccLines
    <3>2. l \in by_fingerprint'[Fingerprint[l.state]]
      BY <1>4, <2>1, <3>1
    <3> QED
      BY <3>1, <3>2 DEF Sorted, States
  <2>3. fcc' \notin success' => Searched(fcc, Entered \cup Sorted)'
    BY <1>1, <1>2, <2>1, <2>2 DEF DoneInv, Searched
  <2> QED
    BY <1>3, <2>1, <2>3 DEF DoneInv
<1>6. CASE Unlink
  <2>1. /\ stage = "merging" /\ stage' = "merging" /\ renamed # Nowhere /\ renamed' = Nowhere
        /\ by_fingerprint' = [by_fingerprint EXCEPT ![renamed] = {}]
    BY <1>6 DEF Unlink
  <2>2. ASSUME NEW k \in Sorted PROVE k \in Entered \cup Sorted'
    <3>1. k \in Layouts /\ k \in States(by_fingerprint[Fingerprint[k]])
      BY DEF Sorted
    <3>2. CASE Fingerprint[k] = renamed
      BY <2>1, <3>1, <3>2 DEF DoneInv, Entered
    <3>3. CASE Fingerprint[k] # renamed
      <4>1. by_fingerprint'[Fingerprint[k]] = by_fingerprint[Fingerprint[k]]
        BY <1>0, <1>4, <2>1, <3>1, <3>3 DEF SplitTypeOK
      <4> QED
        BY <3>1, <4>1 DEF Sorted, States
    <3> QED
      BY <3>2, <3>3
  <2>3. fcc' \notin success' => Searched(fcc, Entered \cup Sorted)'
    <3> SUFFICES ASSUME fcc \notin success PROVE Searched(fcc, Entered \cup Sorted)'
      BY <1>1
    <3>1. WonLayout \notin Inside(fcc) /\ Leaves(fcc) \subseteq Entered \cup Sorted
      BY <2>1 DEF DoneInv, Searched
    <3> QED
      BY <1>1, <1>2, <2>2, <3>1 DEF Searched
  <2> QED
    BY <1>3, <2>1, <2>3 DEF DoneInv
<1> QED
  BY <1>5, <1>6

\* The steps that change neither the lines nor what is searched.
LEMMA FilesKeepDone ==
    ASSUME DoneInv, UNCHANGED <<input, finished>>, success \subseteq success',
           stage' \notin {"sorting", "merging"}, renamed' = Nowhere
    PROVE  DoneInv'
<1>1. Entered' = Entered /\ \A f : Inside(f)' = Inside(f) /\ Leaves(f)' = Leaves(f)
  BY DEF Entered, Inside, Leaves, States
<1>2. \A g \in finished' \ success' : Searched(g, Entered)'
  BY <1>1 DEF DoneInv, Searched
<1> QED
  BY <1>2 DEF DoneInv

\* What was searched stays so with every step that drops no line.
LEMMA DoneInvStep ==
    ASSUME BaseInv, DoneInv, "writing" \notin KilledIn, SplitNext, NothingDropped
    PROVE  DoneInv'
<1>0. SplitTypeOK /\ FilesInv /\ OrderInv
  BY DEF BaseInv
<1>1. CASE \E t \in Workers : WorkerStep(t)
  <2>1. PICK t \in Workers : WorkerStep(t)
    BY <1>1
  <2>2. thread[t].pc # "done"
    BY <2>1 DEF WorkerStep, Take, Check, Expand, CheckKey
  <2>3. stage = "solving" /\ renamed = Nowhere
    BY <1>0, <2>2 DEF BaseInv, IdleInv, OrderInv
  <2>4. /\ UNCHANGED <<input, finished, stage, renamed>> /\ success \subseteq success'
    BY <2>1, WorkerFields
  <2> QED
    BY <2>3, <2>4, FilesKeepDone
<1>2. CASE StartFcc
  <2>1. stage' = "solving" /\ renamed' = Nowhere /\ UNCHANGED <<input, finished, success>>
    BY <1>0, <1>2 DEF StartFcc, OrderInv
  <2> QED
    BY <2>1, FilesKeepDone
<1>3. CASE Joined
  <2>1. /\ stage' = "sorting" /\ UNCHANGED <<input, finished, exits, success, fcc, renamed>>
        /\ renamed = Nowhere
    BY <1>0, <1>3 DEF Joined, splitFiles, OrderInv
  <2>2. Entered' = Entered /\ \A f : Inside(f)' = Inside(f) /\ Leaves(f)' = Leaves(f)
    BY <2>1 DEF Entered, Inside, Leaves, States
  <2>3. fcc' \notin success' => Searched(fcc, States(exits))'
    <3> SUFFICES ASSUME fcc \notin success PROVE Searched(fcc, States(exits))'
      BY <2>1
    <3>1. WonLayout \notin Inside(fcc) /\ Leaves(fcc) \subseteq States(exits)
      BY <1>3, JoinedSearched DEF Searched
    <3> QED
      BY <2>1, <2>2, <3>1 DEF Searched, States
  <2>4. \A g \in finished' \ success' : Searched(g, Entered)'
    BY <2>1, <2>2 DEF DoneInv, Searched
  <2> QED
    BY <2>1, <2>3, <2>4 DEF DoneInv
<1>4. CASE Sort \/ Unlink
  BY <1>4, SortAndUnlinkKeepDone
<1>5. CASE Merge
  BY <1>5, MergeKeepsDone
<1>6. CASE FinishFcc
  <2>1. /\ stage = "merging" /\ \A f \in Fingerprints : by_fingerprint[f] = {}
        /\ finished' = finished \cup {fcc} /\ stage' = "idle"
        /\ UNCHANGED <<input, success, fcc, renamed>>
    BY <1>6 DEF FinishFcc
  <2>2. renamed' = Nowhere
    BY <1>0, <2>1 DEF OrderInv, Unmerged
  <2>3. Sorted = {}
    BY <2>1 DEF Sorted, States, Fingerprints
  <2>4. Entered' = Entered /\ \A f : Inside(f)' = Inside(f) /\ Leaves(f)' = Leaves(f)
    BY <2>1 DEF Entered, Inside, Leaves, States
  <2>5. \A g \in finished \ success : Searched(g, Entered)
    BY DEF DoneInv
  <2>6. fcc \notin success => Searched(fcc, Entered)
    BY <2>1, <2>3 DEF DoneInv
  <2>7. \A g \in finished' \ success' : Searched(g, Entered)'
    BY <2>1, <2>4, <2>5, <2>6 DEF Searched
  <2> QED
    BY <2>1, <2>2, <2>7 DEF DoneInv
<1>7. CASE KillSplit
  BY <1>7, KillFields, FilesKeepDone
<1> QED
  BY <1>1, <1>2, <1>3, <1>4, <1>5, <1>6, <1>7 DEF SplitNext, DriverStep

LEMMA DoneInvStutters ==
    ASSUME DoneInv, UNCHANGED splitVars
    PROVE  DoneInv'
<1>1. UNCHANGED <<input, finished, exits, by_fingerprint, success, stage, fcc, renamed>>
  BY DEF splitVars, splitFiles
<1> QED
  BY <1>1 DEF DoneInv, Searched, Inside, Leaves, Entered, Sorted, States

-----------------------------------------------------------------------------
\* The lines of the files, as the property has it.
LEMMA FilesBelong == SplitTypeOK /\ FilesInv => InputsBelong
BY DEF SplitTypeOK, FilesInv, Belongs, InputsBelong

\* What is searched has arrived; and when nothing is left, all that the deal leads to
\* is inside of a component that was searched.
LEMMA DoneIsExact ==
    ASSUME BaseInv, DoneInv
    PROVE  SplitExact
<1>0. SplitTypeOK /\ FilesInv
  BY DEF BaseInv
<1>1. ExitsArrive
  <2> SUFFICES ASSUME NEW f \in finished \ success
               PROVE  \A k \in UNION {Derives[j] : j \in Inside(f)} :
                         Fingerprint[k] # f => \E l \in input[Fingerprint[k]] : l.state = k
    BY DEF ExitsArrive, Inside, States
  <2> SUFFICES ASSUME NEW k \in UNION {Derives[j] : j \in Inside(f)}, Fingerprint[k] # f
               PROVE  \E l \in input[Fingerprint[k]] : l.state = k
    OBVIOUS
  <2>1. k \in Leaves(f)
    BY DEF Leaves
  <2>2. k \in Entered
    BY <2>1 DEF DoneInv, Searched
  <2> QED
    BY <2>2 DEF Entered, States
<1>2. InputsBelong
  BY <1>0, FilesBelong
<1>3. SearchedAll
  <2> SUFFICES ASSUME Pending = {}, success = {} PROVE WonLayout \notin AllReached
    BY DEF SearchedAll
  <2> DEFINE S == {k \in Layouts : Fingerprint[k] \in finished /\ k \in Inside(Fingerprint[k])}
  <2>1. ASSUME NEW f \in Fingerprints
        PROVE  /\ Inside(f) \in SUBSET Layouts /\ States(input[f]) \subseteq Inside(f)
               /\ \A j \in Inside(f) : \A k \in Derives[j] : Fingerprint[k] = f => k \in Inside(f)
    <3>1. States(input[f]) \in SUBSET Layouts
      BY <1>0 DEF SplitTypeOK, FccLines, States
    <3> QED
      BY <3>1, SpreadIsLeast DEF Inside, Within
  <2>2. \A k \in Layouts : Fingerprint[k] \in Fingerprints
    BY DEF Fingerprints
  <2>3. ASSUME NEW k \in Entered PROVE k \in S
    <3>1. k \in Layouts /\ Fingerprint[k] \in Fingerprints /\ k \in States(input[Fingerprint[k]])
      BY <2>2 DEF Entered
    <3>2. Fingerprint[k] \in finished
      BY <3>1 DEF Pending, States
    <3> QED
      BY <2>1, <3>1, <3>2
  <2>4. FirstLayout \in S
    BY <1>0, <2>3, SplitAssumption DEF FilesInv, Entered
  <2>5. ASSUME NEW j \in S, NEW k \in Derives[j] PROVE k \in S
    <3>1. k \in Layouts /\ j \in Layouts /\ Fingerprint[j] \in Fingerprints /\ j \in Inside(Fingerprint[j])
          /\ Fingerprint[j] \in finished
      BY <2>2, SplitAssumption
    <3>2. CASE Fingerprint[k] = Fingerprint[j]
      BY <2>1, <3>1, <3>2
    <3>3. CASE Fingerprint[k] # Fingerprint[j]
      <4>1. k \in Leaves(Fingerprint[j])
        BY <3>1, <3>3 DEF Leaves
      <4>2. k \in Entered
        BY <3>1, <4>1 DEF DoneInv, Searched
      <4> QED
        BY <2>3, <4>2
    <3> QED
      BY <3>2, <3>3
  <2>6. AllReached \subseteq S
    <3> HIDE DEF S
    <3>1. {FirstLayout} \in SUBSET Layouts /\ {FirstLayout} \subseteq S
      BY <2>4, SplitAssumption
    <3> QED
      BY <2>5, <3>1, SpreadIsLeast DEF AllReached
  <2>7. WonLayout \notin S
    BY DEF DoneInv, Searched
  <2> QED
    BY <2>6, <2>7
<1> QED
  BY <1>1, <1>2, <1>3 DEF SplitExact

\* A merge drops no line but one at the depth of the last line of the file, and only
\* when no new line is deeper.
LEMMA MergeStepDrops ==
    ASSUME SplitTypeOK, FilesInv, Merge
    PROVE  DropsOnlyTheLast
<1> SUFFICES ASSUME NEW f \in Fingerprints, renamed' = f,
                    NEW l \in LeastDeep(by_fingerprint[f]), l.state \notin States(input'[f])
             PROVE  /\ input[f] # {} /\ l.depth = Max(Depths(input[f]))
                    /\ \A m \in LeastDeep(by_fingerprint[f]) : m.depth <= l.depth
  BY DEF DropsOnlyTheLast
<1>1. PICK M : Merging(f, M)
  <2>1. PICK g \in Fingerprints : \E M : Merging(g, M)
    BY MergeReadsAndWrites
  <2>2. g = f
    BY <2>1 DEF Merging
  <2> QED
    BY <2>1, <2>2
<1>2. by = {} /\ input' = [input EXCEPT ![f] = by \cup M]
  BY <1>1 DEF FilesInv, Merging
<1>3. input'[f] = M
  BY <1>2 DEF SplitTypeOK
<1>4. input[f] \in SUBSET FccLines /\ by_fingerprint[f] \in SUBSET FccLines
  BY DEF SplitTypeOK
<1>5. CASE input[f] = {} /\ M = LeastDeep(by_fingerprint[f])
  BY <1>3, <1>5 DEF States
<1>6. CASE /\ input[f] # {}
           /\ \E max_depth \in Depths(by_fingerprint[f]) :
                 /\ max_depth >= Max(Depths(LeastDeep(by_fingerprint[f])))
                 /\ M = Merged(input[f], LeastDeep(by_fingerprint[f]), max_depth)
  <2> DEFINE new == LeastDeep(by_fingerprint[f])
  <2>1. PICK max_depth \in Depths(by_fingerprint[f]) :
                 max_depth >= Max(Depths(new)) /\ M = Merged(input[f], new, max_depth)
    BY <1>6
  <2>2. max_depth \in Nat
    BY <1>4 DEF Depths, FccLines
  <2>3. FccDepth[f] \in Nat /\ \A i \in input[f] \cup by_fingerprint[f] : i.depth <= FccDepth[f]
    BY SplitAssumption DEF FilesInv, Belongs
  <2>4. \A i, m \in input[f] : m.state = i.state => m = i
    BY DEF FilesInv
  <2>5. \A i \in new : i.depth <= max_depth
    <3>1. Depths(new) \in SUBSET (0..FccDepth[f]) /\ Depths(new) # {}
      BY <1>4, <2>3 DEF Depths, FccLines, LeastDeep
    <3>2. Max(Depths(new)) \in Nat /\ \A y \in Depths(new) : y <= Max(Depths(new))
      <4>1. PICK depth \in Nat : depth = FccDepth[f]
        BY <2>3
      <4>2. PICK D \in SUBSET (0..depth) : D = Depths(new)
        BY <3>1, <4>1
      <4>3. D # {} /\ Max(D) \in D /\ \A y \in D : y <= Max(D)
        BY <3>1, <4>2, MaxIsGreatest
      <4> QED
        BY <4>2, <4>3
    <3>3. ASSUME NEW i \in new PROVE i.depth <= max_depth
      <4>1. i.depth \in Depths(new) /\ i.depth \in Nat
        BY <3>1 DEF Depths
      <4> HIDE DEF new
      <4> QED
        BY <2>1, <2>2, <3>2, <4>1
    <3> QED
      BY <3>3
  <2>6. l.state \notin States(Merged(input[f], new, max_depth))
    BY <1>3, <2>1
  <2> QED
    BY <1>4, <1>6, <2>2, <2>3, <2>4, <2>5, <2>6, MergeDropsTheLast
<1> QED
  BY <1>1, <1>5, <1>6 DEF Merging

LEMMA StepDrops ==
    ASSUME BaseInv, [SplitNext]_splitVars
    PROVE  [DropsOnlyTheLast]_splitVars
<1>1. CASE Merge
  BY <1>1, MergeStepDrops DEF BaseInv
<1>2. CASE renamed' = renamed \/ renamed' = Nowhere
  <2>1. Nowhere \notin Fingerprints
    BY SplitAssumption DEF Nowhere
  <2> QED
    BY <1>2, <2>1 DEF DropsOnlyTheLast
<1>3. CASE \E t \in Workers : WorkerStep(t)
  BY <1>2, <1>3, WorkerFields
<1>4. CASE StartFcc \/ Joined \/ Sort \/ Unlink \/ FinishFcc \/ KillSplit
  BY <1>2, <1>4 DEF StartFcc, Joined, Sort, Unlink, FinishFcc, KillSplit
<1> QED
  BY <1>1, <1>3, <1>4 DEF SplitNext, DriverStep

\* Whatever its threads and its kills interleave, the lines of every input file of the
\* driver belong there, as long as no kill leaves an unfinished file behind in ./by.
THEOREM InputsAreClean ==
    ASSUME "writing" \notin KilledIn
    PROVE  SplitSpec => []InputsBelong
<1>1. BaseInv /\ [SplitNext]_splitVars => BaseInv'
  BY BaseInvStep
<1>2. BaseInv => InputsBelong
  BY FilesBelong DEF BaseInv
<1> QED
  BY <1>1, <1>2, BaseInvInitially, PTL DEF SplitSpec

\* And where no merge drops a line, the search by components is exact.
THEOREM SplitIsExact ==
    ASSUME "writing" \notin KilledIn
    PROVE  SplitSpec /\ [][NothingDropped]_splitVars => []SplitExact
<1>1. BaseInv /\ [SplitNext]_splitVars => BaseInv'
  BY BaseInvStep
<1>2. BaseInv /\ DoneInv /\ [SplitNext]_splitVars /\ [NothingDropped]_splitVars => DoneInv'
  BY DoneInvStep, DoneInvStutters
<1>3. BaseInv /\ DoneInv => SplitExact
  BY DoneIsExact
<1> QED
  BY <1>1, <1>2, <1>3, BaseInvInitially, DoneInvInitially, PTL DEF SplitSpec

\* The lines that the merging of SplitFcc.pm loses, which run split_merge shows, are
\* those at the depth of the last line of the old file when no new one is deeper.
THEOREM DropsAreOfTheLastDepth ==
    ASSUME "writing" \notin KilledIn
    PROVE  SplitSpec => [][DropsOnlyTheLast]_splitVars
<1>1. BaseInv /\ [SplitNext]_splitVars => BaseInv'
  BY BaseInvStep
<1>2. BaseInv /\ [SplitNext]_splitVars => [DropsOnlyTheLast]_splitVars
  BY StepDrops
<1> QED
  BY <1>1, <1>2, BaseInvInitially, PTL DEF SplitSpec

-----------------------------------------------------------------------------
(***************************************************************************)
(* The depth-first search.  Lists of positions, the inserting of many keys *)
(* and the reading of a line are recursive functions over places: each     *)
(* value follows from the one before it, and so they exist.                *)
(***************************************************************************)
Iterates(f, X, x, m, G) ==
    f \in [0..m -> X] /\ \A n \in 0..m : f[n] = IF n = 0 THEN x ELSE G[n][f[n - 1]]
LEMMA IterationExists ==
    ASSUME NEW X, NEW x \in X, NEW m \in Nat, NEW G \in [1..m -> [X -> X]]
    PROVE  \E f : Iterates(f, X, x, m, G)
<1> DEFINE Upto(f, i) == f \in [0..i -> X] /\ \A n \in 0..i : f[n] = IF n = 0 THEN x ELSE G[n][f[n - 1]]
           S == {i \in 0..m : \E f : Upto(f, i)}
<1>1. 0 \in S
  <2>1. PICK f : f = [n \in 0..0 |-> x]
    OBVIOUS
  <2>2. f \in [0..0 -> X] /\ \A n \in 0..0 : n = 0 /\ f[n] = x
    BY <2>1
  <2>3. Upto(f, 0)
    BY <2>2
  <2>4. 0 \in 0..m
    OBVIOUS
  <2> HIDE DEF Upto
  <2> QED
    BY <2>3, <2>4
<1>2. ASSUME NEW i \in 0..(m - 1), i \in S
      PROVE  i + 1 \in S
  <2>1. PICK f : Upto(f, i)
    BY <1>2
  <2> DEFINE g == [n \in 0..(i + 1) |-> IF n = i + 1 THEN G[i + 1][f[i]] ELSE f[n]]
  <2>2. f[i] \in X /\ i + 1 \in 1..m /\ G[i + 1] \in [X -> X] /\ G[i + 1][f[i]] \in X
    BY <2>1
  <2>3. g \in [0..(i + 1) -> X]
    <3>1. ASSUME NEW n \in 0..(i + 1) PROVE g[n] \in X
      <4>1. n = i + 1 \/ n \in 0..i
        OBVIOUS
      <4> QED
        BY <2>1, <2>2, <4>1
    <3> QED
      BY <3>1
  <2>4. \A n \in 0..(i + 1) : g[n] = IF n = 0 THEN x ELSE G[n][g[n - 1]]
    <3> SUFFICES ASSUME NEW n \in 0..(i + 1)
                 PROVE  g[n] = IF n = 0 THEN x ELSE G[n][g[n - 1]]
      OBVIOUS
    <3>1. CASE n = i + 1
      <4>1. n \in 0..(i + 1) /\ n # 0 /\ n - 1 = i /\ i \in 0..(i + 1) /\ i # i + 1
        BY <3>1
      <4>2. g[n] = G[n][f[i]] /\ g[i] = f[i]
        BY <3>1, <4>1, Zenon
      <4> HIDE DEF g
      <4> QED
        BY <4>1, <4>2, Zenon
    <3>2. CASE n # i + 1
      <4>1. n \in 0..i /\ n - 1 # i + 1 /\ (n # 0 => n - 1 \in 0..i)
        BY <3>2
      <4>2. g[n] = f[n] /\ (n # 0 => g[n - 1] = f[n - 1])
        BY <3>2, <4>1
      <4> HIDE DEF g
      <4> QED
        BY <2>1, <4>1, <4>2
    <3> QED
      BY <3>1, <3>2
  <2>5. Upto(g, i + 1)
    BY <2>3, <2>4
  <2> HIDE DEF Upto
  <2> QED
    BY <2>5
<1>3. m \in S
  <2> HIDE DEF S
  <2>1. \A i \in 0..(m - 1) : i \in S => i + 1 \in S
    BY <1>2
  <2>2. \A i \in 0..m : i \in S
    BY <1>1, <2>1, StepByStep, Zenon
  <2>3. m \in 0..m
    OBVIOUS
  <2> QED
    BY <2>2, <2>3, Zenon
<1>4. PICK f : Upto(f, m)
  <2> HIDE DEF Upto
  <2> QED
    BY <1>3
<1> QED
  BY <1>4 DEF Iterates

\* The list of a position, place by place.
ListTo(f, store, k) ==
    \A n \in 0..Len(Derived[k]) :
        f[n] = IF n = 0 THEN << >>
               ELSE IF Derived[k][n] \in store \cup ToSet(f[n - 1]) THEN f[n - 1]
               ELSE Append(f[n - 1], Derived[k][n])
LEMMA UnlistedIsLast ==
    ASSUME NEW store, NEW k \in Spots
    PROVE  \E f : ListTo(f, store, k) /\ Unlisted(store, k) = f[Len(Derived[k])]
<1> DEFINE m == Len(Derived[k])
           Next(n, list) == IF Derived[k][n] \in store \cup ToSet(list) THEN list
                            ELSE Append(list, Derived[k][n])
           R(f) == f = [n \in 0..m |-> IF n = 0 THEN << >>
                                       ELSE IF Derived[k][n] \in store \cup ToSet(f[n - 1]) THEN f[n - 1]
                                       ELSE Append(f[n - 1], Derived[k][n])]
<1>0. m \in Nat /\ Derived[k] \in Seq(Spots) /\ \A n \in 1..m : Derived[k][n] \in Spots
  BY SpotsAssumption
<1>1. Unlisted(store, k) = (CHOOSE f : R(f))[m]
  BY Zenon DEF Unlisted
<1>2. \E f : R(f)
  <2> DEFINE X == Seq(Spots)
             G == [n \in 1..m |-> [list \in X |-> Next(n, list)]]
  <2>1. ASSUME NEW n \in 1..m, NEW list \in X PROVE Next(n, list) \in X
    BY <1>0, AppendProperties
  <2>2. G \in [1..m -> [X -> X]] /\ << >> \in X
    BY <2>1
  <2> HIDE DEF m, G, X
  <2>5. PICK f : Iterates(f, X, << >>, m, G)
    BY <1>0, <2>2, IterationExists, Zenon
  <2>3. /\ f \in [0..m -> X]
        /\ \A n \in 0..m : f[n] = IF n = 0 THEN << >> ELSE G[n][f[n - 1]]
    BY <2>5 DEF Iterates
  <2>4. ASSUME NEW n \in 0..m
        PROVE  f[n] = IF n = 0 THEN << >>
                      ELSE IF Derived[k][n] \in store \cup ToSet(f[n - 1]) THEN f[n - 1]
                      ELSE Append(f[n - 1], Derived[k][n])
    <3>1. CASE n = 0
      BY <2>3, <3>1
    <3>2. CASE n # 0
      <4>1. n \in 1..m /\ n - 1 \in 0..m
        BY <1>0, <3>2
      <4>2. f[n - 1] \in X /\ f[n] = G[n][f[n - 1]]
        BY <2>3, <3>2, <4>1
      <4>3. G[n][f[n - 1]] = Next(n, f[n - 1])
        BY <4>1, <4>2 DEF G
      <4> QED
        BY <3>2, <4>2, <4>3
    <3> QED
      BY <3>1, <3>2
  <2>6. R(f)
    BY <2>3, <2>4 DEF m
  <2> QED
    BY <2>6
<1>3. R(CHOOSE f : R(f))
  <2> HIDE DEF R
  <2> QED
    BY <1>2
<1>4. PICK f : f = CHOOSE g : R(g)
  OBVIOUS
<1>5. R(f) /\ Unlisted(store, k) = f[m]
  BY <1>1, <1>3, <1>4
<1>6. ListTo(f, store, k)
  BY <1>5, Zenon DEF ListTo
<1> QED
  BY <1>5, <1>6

\* A list holds what is derived and not stored, each once.
LEMMA UnlistedIs ==
    ASSUME NEW store, NEW k \in Spots
    PROVE  /\ Unlisted(store, k) \in Seq(Spots)
           /\ ToSet(Unlisted(store, k)) = ToSet(Derived[k]) \ store
           /\ \A i, j \in 1..Len(Unlisted(store, k)) :
                 Unlisted(store, k)[i] = Unlisted(store, k)[j] => i = j
<1> DEFINE d == Derived[k]
           m == Len(d)
<1>0. m \in Nat /\ d \in Seq(Spots) /\ \A n \in 1..m : d[n] \in Spots
  BY SpotsAssumption
<1>1. PICK f : ListTo(f, store, k) /\ Unlisted(store, k) = f[m]
  BY UnlistedIsLast
<1>2. /\ f[0] = << >>
      /\ \A n \in 1..m : f[n] = IF d[n] \in store \cup ToSet(f[n - 1]) THEN f[n - 1]
                                ELSE Append(f[n - 1], d[n])
  BY <1>0, <1>1 DEF ListTo
<1> DEFINE Fine(n) == /\ f[n] \in Seq(Spots)
                      /\ ToSet(f[n]) = {d[i] : i \in 1..n} \ store
                      /\ \A i, j \in 1..Len(f[n]) : f[n][i] = f[n][j] => i = j
           S == {n \in 0..m : Fine(n)}
<1> HIDE DEF m, d
<1>3. 0 \in S
  <2>1. Fine(0)
    BY <1>2 DEF ToSet
  <2> QED
    BY <1>0, <2>1
<1>4. ASSUME NEW i \in 0..(m - 1), i \in S PROVE i + 1 \in S
  <2>1. Fine(i) /\ i + 1 \in 1..m /\ i + 1 \in 0..m /\ d[i + 1] \in Spots /\ (i + 1) - 1 = i
    BY <1>0, <1>4
  <2>2. {d[n] : n \in 1..(i + 1)} = {d[n] : n \in 1..i} \cup {d[i + 1]}
    <3>1. 1..(i + 1) = (1..i) \cup {i + 1}
      OBVIOUS
    <3> QED
      BY <3>1
  <2>3. CASE d[i + 1] \in store \cup ToSet(f[i])
    <3>1. f[i + 1] = f[i]
      BY <1>2, <2>1, <2>3
    <3>2. {d[n] : n \in 1..(i + 1)} \ store = {d[n] : n \in 1..i} \ store
      BY <2>1, <2>2, <2>3
    <3> QED
      BY <2>1, <3>1, <3>2
  <2>4. CASE d[i + 1] \notin store \cup ToSet(f[i])
    <3>1. f[i + 1] = Append(f[i], d[i + 1])
      BY <1>2, <2>1, <2>4
    <3>2. PICK list \in Seq(Spots) : list = f[i]
      BY <2>1
    <3>3. PICK e \in Spots : e = d[i + 1]
      BY <2>1
    <3>4. /\ f[i + 1] = Append(list, e) /\ f[i + 1] \in Seq(Spots) /\ Len(f[i + 1]) = Len(list) + 1
          /\ \A n \in 1..Len(list) : f[i + 1][n] = list[n]
          /\ f[i + 1][Len(list) + 1] = e
      BY <3>1, <3>2, <3>3
    <3>5. e \notin ToSet(list) /\ Len(list) \in Nat
      BY <2>4, <3>2, <3>3
    <3>6. ToSet(f[i + 1]) = ToSet(list) \cup {e}
      <4>1. 1..(Len(list) + 1) = (1..Len(list)) \cup {Len(list) + 1}
        BY <3>5
      <4>2. DOMAIN list = 1..Len(list) /\ DOMAIN f[i + 1] = 1..(Len(list) + 1)
        BY <3>2, <3>4
      <4> QED
        BY <3>4, <4>1, <4>2 DEF ToSet
    <3>7. ASSUME NEW a \in 1..Len(f[i + 1]), NEW b \in 1..Len(f[i + 1]), f[i + 1][a] = f[i + 1][b]
          PROVE  a = b
      <4>1. \A n \in 1..Len(list) : list[n] # e
        BY <3>5 DEF ToSet
      <4>2. \A x, y \in 1..Len(list) : list[x] = list[y] => x = y
        BY <2>1, <3>2
      <4>3. (a \in 1..Len(list) \/ a = Len(list) + 1) /\ (b \in 1..Len(list) \/ b = Len(list) + 1)
        BY <3>4, <3>5
      <4> QED
        BY <3>4, <3>7, <4>1, <4>2, <4>3
    <3>8. ToSet(f[i + 1]) = {d[n] : n \in 1..(i + 1)} \ store
      BY <2>1, <2>2, <2>4, <3>2, <3>3, <3>6
    <3> QED
      BY <2>1, <3>4, <3>7, <3>8
  <2> QED
    BY <2>3, <2>4
<1>5. m \in S
  <2> HIDE DEF S
  <2>1. \A i \in 0..(m - 1) : i \in S => i + 1 \in S
    BY <1>4
  <2>2. m \in Nat /\ m \in 0..m
    BY <1>0
  <2>3. \A i \in 0..m : i \in S
    BY <1>3, <2>1, <2>2, StepByStep, Zenon
  <2> QED
    BY <2>2, <2>3, Zenon
<1>6. Fine(m)
  <2> HIDE DEF Fine
  <2> QED
    BY <1>5
<1>7. ToSet(d) = {d[i] : i \in 1..m}
  BY <1>0 DEF ToSet, m
<1> QED
  BY <1>1, <1>6, <1>7 DEF d, m

-----------------------------------------------------------------------------
(***************************************************************************)
(* The cache.  Its nodes lie along an order o, from the lowest up, in      *)
(* which each is once; the links lead along it in both directions.         *)
(***************************************************************************)
Nodes == [key : Spots, lower : Nat, higher : Nat]
CacheTypes ==
    [map : UNION {[A -> Nat] : A \in SUBSET Spots}, node : Seq(Nodes), lowest : Nat, highest : Nat]

\* The order of N nodes.
OrderOf(o, N) ==
    /\ o \in [1..N -> 1..N]
    /\ \A i, j \in 1..N : o[i] = o[j] => i = j
    /\ \A n \in 1..N : \E i \in 1..N : o[i] = n
Linked(c, o, N) ==
    /\ c.lowest = IF N = 0 THEN NoNode ELSE o[1]
    /\ c.highest = IF N = 0 THEN NoNode ELSE o[N]
    /\ \A i \in 1..N : /\ c.node[o[i]].lower = IF i = 1 THEN NoNode ELSE o[i - 1]
                       /\ c.node[o[i]].higher = IF i = N THEN NoNode ELSE o[i + 1]
MapLeads(c) == \A k \in DOMAIN c.map : c.map[k] \in 1..Len(c.node) /\ c.node[c.map[k]].key = k
Caches == {c \in CacheTypes : /\ \E o : OrderOf(o, Len(c.node)) /\ Linked(c, o, Len(c.node))
                              /\ MapLeads(c)}

LEMMA CacheIs ==
    ASSUME NEW c \in Caches
    PROVE  /\ c \in CacheTypes /\ MapLeads(c)
           /\ Len(c.node) \in Nat /\ c.node \in Seq(Nodes)
           /\ DOMAIN c.map \subseteq Spots
           /\ \E o : OrderOf(o, Len(c.node)) /\ Linked(c, o, Len(c.node))
<1>1. /\ c \in CacheTypes /\ MapLeads(c)
      /\ \E o : OrderOf(o, Len(c.node)) /\ Linked(c, o, Len(c.node))
  BY Zenon DEF Caches
<1>2. c.node \in Seq(Nodes) /\ c.map \in UNION {[A -> Nat] : A \in SUBSET Spots}
  BY <1>1 DEF CacheTypes
<1>3. Len(c.node) \in Nat /\ DOMAIN c.map \subseteq Spots
  BY <1>2
<1> QED
  BY <1>1, <1>2, <1>3, Zenon

LEMMA EmptyCacheIsCache == EmptyCache \in Caches /\ DOMAIN EmptyCache.map = {}
<1>0. << >> \in Seq(Nodes) /\ << >> \in [{} -> Nat] /\ DOMAIN << >> = {} /\ Len(<< >>) = 0
  BY EmptySeq
<1>1. EmptyCache \in CacheTypes
  BY <1>0 DEF EmptyCache, CacheTypes, NoNode
<1>2. PICK o : o = << >>
  OBVIOUS
<1>3. OrderOf(o, 0)
  <2>1. 1..0 = {}
    OBVIOUS
  <2> QED
    BY <1>0, <1>2, <2>1 DEF OrderOf
<1>4. Linked(EmptyCache, o, 0)
  <2>1. 1..0 = {}
    OBVIOUS
  <2> QED
    BY <2>1 DEF EmptyCache, Linked, NoNode
<1>5. MapLeads(EmptyCache) /\ Len(EmptyCache.node) = 0 /\ DOMAIN EmptyCache.map = {}
  BY <1>0 DEF EmptyCache, MapLeads
<1> QED
  BY <1>1, <1>3, <1>4, <1>5, Zenon DEF Caches

\* A node that is promoted goes behind all those that were above it.
Raised(o, N, p) == [i \in 1..N |-> IF i < p THEN o[i] ELSE IF i < N THEN o[i + 1] ELSE o[p]]
LEMMA RaisedIsOrder ==
    ASSUME NEW N \in Nat, NEW o, OrderOf(o, N), NEW p \in 1..N
    PROVE  OrderOf(Raised(o, N, p), N)
<1> DEFINE r == Raised(o, N, p)
<1>1. \A i \in 1..N : r[i] = IF i < p THEN o[i] ELSE IF i < N THEN o[i + 1] ELSE o[p]
  BY DEF Raised
<1>0. /\ \A i \in 1..N : o[i] \in 1..N
      /\ \A i, j \in 1..N : o[i] = o[j] => i = j
  BY DEF OrderOf
<1>a. ASSUME NEW i \in 1..N
      PROVE  \E j \in 1..N : /\ r[i] = o[j]
                             /\ i < p => j = i
                             /\ i >= p /\ i < N => j = i + 1
                             /\ i >= p /\ i = N => j = p
  <2> HIDE DEF r
  <2>1. CASE i < p
    BY <1>1, <2>1
  <2>2. CASE i >= p /\ i < N
    <3>1. i + 1 \in 1..N /\ ~(i < p)
      BY <2>2
    <3> QED
      BY <1>1, <2>2, <3>1
  <2>3. CASE i >= p /\ i = N
    BY <1>1, <2>3
  <2> QED
    BY <2>1, <2>2, <2>3
<1>2. r \in [1..N -> 1..N]
  <2>1. \A i \in 1..N : r[i] \in 1..N
    <3> HIDE DEF r
    <3> QED
      BY <1>0, <1>a
  <2>2. r = [i \in 1..N |-> r[i]]
    BY DEF Raised
  <2> HIDE DEF r
  <2> QED
    BY <2>1, <2>2
<1>3. ASSUME NEW i \in 1..N, NEW j \in 1..N, r[i] = r[j] PROVE i = j
  <2> HIDE DEF r
  <2>1. PICK a \in 1..N : /\ r[i] = o[a]
                          /\ i < p => a = i
                          /\ i >= p /\ i < N => a = i + 1
                          /\ i >= p /\ i = N => a = p
    BY <1>a
  <2>2. PICK b \in 1..N : /\ r[j] = o[b]
                          /\ j < p => b = j
                          /\ j >= p /\ j < N => b = j + 1
                          /\ j >= p /\ j = N => b = p
    BY <1>a
  <2>3. a = b
    BY <1>0, <1>3, <2>1, <2>2
  <2> QED
    BY <2>1, <2>2, <2>3
<1>4. ASSUME NEW n \in 1..N PROVE \E i \in 1..N : r[i] = n
  <2>1. PICK j \in 1..N : o[j] = n
    BY DEF OrderOf
  <2>2. CASE j < p
    BY <1>1, <2>1, <2>2
  <2>3. CASE j = p
    <3>1. N \in 1..N /\ ~(N < p) /\ ~(N < N)
      OBVIOUS
    <3> QED
      BY <1>1, <2>1, <2>3, <3>1
  <2>4. CASE j > p
    <3>1. j - 1 \in 1..N /\ ~(j - 1 < p) /\ j - 1 < N /\ (j - 1) + 1 = j
      BY <2>4
    <3> QED
      BY <1>1, <2>1, <3>1
  <2> QED
    BY <2>2, <2>3, <2>4
<1> HIDE DEF r
<1>5. OrderOf(r, N)
  BY <1>2, <1>3, <1>4 DEF OrderOf
<1> QED
  BY <1>5 DEF r

\* One link of a node is changed.
LowerIs(new, node, n, l) ==
    /\ new \in Seq(Nodes) /\ Len(new) = Len(node)
    /\ \A m \in 1..Len(node) : /\ new[m].key = node[m].key /\ new[m].higher = node[m].higher
                                /\ new[m].lower = IF m = n THEN l ELSE node[m].lower
LEMMA RelinkLower ==
    ASSUME NEW node \in Seq(Nodes), NEW n \in 1..Len(node), NEW l \in Nat
    PROVE  LowerIs([node EXCEPT ![n].lower = l], node, n, l)
<1> DEFINE e == [node[n] EXCEPT !.lower = l]
           new == [node EXCEPT ![n] = e]
<1>1. node[n] \in Nodes
  BY ElementOfSeq
<1>2. e \in Nodes /\ e.key = node[n].key /\ e.higher = node[n].higher /\ e.lower = l
  BY <1>1 DEF Nodes
<1>5. [node EXCEPT ![n].lower = l] = new
  OBVIOUS
<1> HIDE DEF e
<1>3. /\ new \in Seq(Nodes) /\ Len(new) = Len(node)
      /\ \A m \in 1..Len(node) : new[m] = IF m = n THEN e ELSE node[m]
  BY <1>2, ExceptSeq
<1> HIDE DEF new
<1>4. \A m \in 1..Len(node) : /\ new[m].key = node[m].key /\ new[m].higher = node[m].higher
                              /\ new[m].lower = IF m = n THEN l ELSE node[m].lower
  BY <1>2, <1>3
<1> QED
  BY <1>3, <1>4, <1>5 DEF LowerIs
HigherIs(new, node, n, h) ==
    /\ new \in Seq(Nodes) /\ Len(new) = Len(node)
    /\ \A m \in 1..Len(node) : /\ new[m].key = node[m].key /\ new[m].lower = node[m].lower
                                /\ new[m].higher = IF m = n THEN h ELSE node[m].higher
LEMMA RelinkHigher ==
    ASSUME NEW node \in Seq(Nodes), NEW n \in 1..Len(node), NEW h \in Nat
    PROVE  HigherIs([node EXCEPT ![n].higher = h], node, n, h)
<1> DEFINE e == [node[n] EXCEPT !.higher = h]
           new == [node EXCEPT ![n] = e]
<1>1. node[n] \in Nodes
  BY ElementOfSeq
<1>2. e \in Nodes /\ e.key = node[n].key /\ e.lower = node[n].lower /\ e.higher = h
  BY <1>1 DEF Nodes
<1>5. [node EXCEPT ![n].higher = h] = new
  OBVIOUS
<1> HIDE DEF e
<1>3. /\ new \in Seq(Nodes) /\ Len(new) = Len(node)
      /\ \A m \in 1..Len(node) : new[m] = IF m = n THEN e ELSE node[m]
  BY <1>2, ExceptSeq
<1> HIDE DEF new
<1>4. \A m \in 1..Len(node) : /\ new[m].key = node[m].key /\ new[m].lower = node[m].lower
                              /\ new[m].higher = IF m = n THEN h ELSE node[m].higher
  BY <1>2, <1>3
<1> QED
  BY <1>3, <1>4, <1>5 DEF HigherIs

\* The links when the node at place p was put on top of the order.
Relinked(c, d, o, N, p) ==
    LET n == o[p]
        low == c.node[n].lower
        high == c.node[n].higher
    IN /\ \A m \in 1..N :
             /\ d.node[m].lower = IF m = n THEN c.highest ELSE IF m = high THEN low ELSE c.node[m].lower
             /\ d.node[m].higher = IF m = n THEN NoNode ELSE IF m = c.highest THEN n
                                  ELSE IF low # NoNode /\ m = low THEN high ELSE c.node[m].higher
       /\ d.lowest = IF low = NoNode THEN high ELSE c.lowest
       /\ d.highest = n
LEMMA RaisedIsLinked ==
    ASSUME NEW c, NEW d, NEW o, NEW N \in Nat, NEW p \in 1..N, p < N,
           OrderOf(o, N), Linked(c, o, N), Relinked(c, d, o, N, p)
    PROVE  Linked(d, Raised(o, N, p), N)
<1> DEFINE r == Raised(o, N, p)
           n == o[p]
           low == c.node[n].lower
           high == c.node[n].higher
           node4 == d.node
<1>N. N \in Nat /\ p \in Nat /\ 1 <= p /\ p <= N
  OBVIOUS
<1>1. OrderOf(o, N) /\ Linked(c, o, N)
  OBVIOUS
<1>2. n \in 1..N
  BY DEF OrderOf
<1>3. o[p] = n
  OBVIOUS
<1>4. /\ low = IF p = 1 THEN NoNode ELSE o[p - 1]
      /\ high = IF p = N THEN NoNode ELSE o[p + 1]
      /\ c.highest = o[N] /\ c.lowest = o[1]
  BY DEF Linked
<1>5. p < N /\ high = o[p + 1]
  BY <1>4
<1>6. Relinked(c, d, o, N, p)
  OBVIOUS
<1>7. \A m \in 1..N :
         /\ node4[m].lower = IF m = n THEN c.highest ELSE IF m = high THEN low ELSE c.node[m].lower
         /\ node4[m].higher = IF m = n THEN NoNode ELSE IF m = c.highest THEN n
                              ELSE IF low # NoNode /\ m = low THEN high ELSE c.node[m].higher
  BY <1>6, Zenon DEF Relinked
<1>8. d.lowest = (IF low = NoNode THEN high ELSE c.lowest) /\ d.highest = n
  BY <1>6, Zenon DEF Relinked
<1>11. \A i \in 1..N : r[i] = IF i < p THEN o[i] ELSE IF i < N THEN o[i + 1] ELSE o[p]
  BY DEF Raised
<1> HIDE DEF r, n, low, high, node4
<1>12. /\ \A i \in 1..N : o[i] \in 1..N
       /\ \A i, j \in 1..N : o[i] = o[j] => i = j
       /\ \A i \in 1..N : /\ c.node[o[i]].lower = IF i = 1 THEN NoNode ELSE o[i - 1]
                          /\ c.node[o[i]].higher = IF i = N THEN NoNode ELSE o[i + 1]
  BY <1>1 DEF OrderOf, Linked
<1>13. \A i \in 1..N : /\ o[i] = n <=> i = p
                       /\ o[i] = high <=> i = p + 1
                       /\ o[i] = c.highest <=> i = N
                       /\ low # NoNode /\ o[i] = low <=> i = p - 1
  <2>1. p + 1 \in 1..N /\ N \in 1..N /\ (p # 1 => p - 1 \in 1..N)
    BY <1>N, <1>5
  <2>2. low # NoNode <=> p # 1
    BY <1>4, <1>12, <2>1 DEF NoNode
  <2> QED
    BY <1>3, <1>4, <1>5, <1>12, <2>1, <2>2
<1>14. ASSUME NEW i \in 1..N
       PROVE  /\ node4[r[i]].lower = IF i = 1 THEN NoNode ELSE r[i - 1]
              /\ node4[r[i]].higher = IF i = N THEN NoNode ELSE r[i + 1]
  <2>1. CASE i < p
    <3>1. r[i] = o[i] /\ i # N /\ o[i] # n /\ o[i] # high /\ o[i] # c.highest /\ o[i] \in 1..N
      BY <1>N, <1>5, <1>11, <1>12, <1>13, <2>1
    <3>2. node4[r[i]].lower = c.node[o[i]].lower
      BY <1>7, <3>1
    <3>3. i # 1 => i - 1 \in 1..N /\ r[i - 1] = o[i - 1]
      BY <1>N, <1>11, <2>1
    <3>4. CASE i = p - 1
      <4>1. low # NoNode /\ o[i] = low
        BY <1>13, <3>4
      <4>2. node4[r[i]].higher = high
        BY <1>7, <3>1, <4>1
      <4>3. r[i + 1] = high
        BY <1>5, <1>11, <3>4
      <4> QED
        BY <1>12, <3>1, <3>2, <3>3, <4>2, <4>3
    <3>5. CASE i # p - 1
      <4>1. node4[r[i]].higher = c.node[o[i]].higher
        BY <1>7, <1>13, <3>1, <3>5
      <4>2. i + 1 \in 1..N /\ r[i + 1] = o[i + 1]
        BY <1>N, <1>11, <2>1, <3>5
      <4> QED
        BY <1>12, <3>1, <3>2, <3>3, <4>1, <4>2
    <3> QED
      BY <3>4, <3>5
  <2>2. CASE i >= p /\ i < N
    <3>0. i + 1 \in 1..N /\ ~(i < p)
      BY <1>N, <2>2
    <3>1. r[i] = o[i + 1] /\ o[i + 1] # n /\ o[i + 1] \in 1..N /\ ~(low # NoNode /\ o[i + 1] = low)
      BY <1>11, <1>12, <1>13, <2>2, <3>0
    <3>2. /\ node4[r[i]].lower = IF i = p THEN low ELSE c.node[o[i + 1]].lower
          /\ node4[r[i]].higher = IF i + 1 = N THEN n ELSE c.node[o[i + 1]].higher
      BY <1>7, <1>13, <3>0, <3>1
    <3>3. /\ c.node[o[i + 1]].lower = o[i]
          /\ i + 1 # N => c.node[o[i + 1]].higher = o[i + 2]
      <4>1. i + 1 # 1 /\ (i + 1) - 1 = i /\ (i + 1) + 1 = i + 2
        BY <3>0
      <4> QED
        BY <1>12, <3>0, <4>1
    <3>4. CASE i = p
      <4>1. i # 1 => i - 1 \in 1..N /\ r[i - 1] = o[i - 1]
        BY <1>N, <1>11, <3>4
      <4> QED
        BY <1>N, <1>3, <1>4, <1>11, <3>0, <3>2, <3>3, <3>4, <4>1
    <3>5. CASE i # p
      <4>1. i # 1 /\ i - 1 \in 1..N /\ ~(i - 1 < p) /\ i - 1 < N /\ (i - 1) + 1 = i
        BY <1>N, <2>2, <3>5
      <4>2. r[i - 1] = o[i]
        BY <1>11, <4>1
      <4> QED
        BY <1>N, <1>3, <1>11, <2>2, <3>0, <3>2, <3>3, <3>5, <4>1, <4>2
    <3> QED
      BY <3>4, <3>5
  <2>3. CASE i = N
    <3>1. r[i] = n /\ ~(i < p) /\ n \in 1..N /\ i # 1
      BY <1>N, <1>2, <1>3, <1>5, <1>11, <2>3
    <3>2. i - 1 \in 1..N /\ ~(i - 1 < p) /\ i - 1 < N /\ (i - 1) + 1 = i
      BY <1>5, <2>3
    <3>3. r[i - 1] = o[i]
      BY <1>11, <3>2
    <3>4. node4[n].lower = c.highest /\ node4[n].higher = NoNode
      BY <1>7, <3>1
    <3> QED
      BY <1>4, <2>3, <3>1, <3>3, <3>4
  <2> QED
    BY <1>N, <2>1, <2>2, <2>3
<1>15. Linked(d, r, N)
  <2>1. N \in 1..N /\ 1 \in 1..N /\ ~(N < p) /\ N # 0 /\ 2 \in 1..N
    BY <1>N, <1>5
  <2>2. r[N] = n
    BY <1>3, <1>11, <2>1
  <2>3. r[1] = IF p = 1 THEN o[2] ELSE o[1]
    BY <1>5, <1>11, <2>1
  <2>4. low = NoNode <=> p = 1
    <3>1. p # 1 => p - 1 \in 1..N
      BY <1>N
    <3> QED
      BY <1>4, <1>12, <3>1 DEF NoNode
  <2>5. d.lowest = r[1]
    BY <1>4, <1>5, <1>8, <2>3, <2>4
  <2> QED
    BY <1>8, <1>14, <2>1, <2>2, <2>5 DEF Linked, node4
<1> QED
  BY <1>15 DEF r

LEMMA PromotedIsCache ==
    ASSUME NEW c \in Caches, NEW k \in DOMAIN c.map
    PROVE  Promoted(c, k) \in Caches /\ Promoted(c, k).map = c.map
<1> DEFINE N == Len(c.node)
           n == c.map[k]
           low == c.node[n].lower
           high == c.node[n].higher
           node1 == [c.node EXCEPT ![high].lower = low]
           node2 == IF low # NoNode THEN [node1 EXCEPT ![low].higher = high] ELSE node1
           node3 == [node2 EXCEPT ![c.highest].higher = n]
           node4 == [node3 EXCEPT ![n].lower = c.highest, ![n].higher = NoNode]
           d == Promoted(c, k)
<1>0. /\ c \in CacheTypes /\ MapLeads(c) /\ N \in Nat /\ c.node \in Seq(Nodes)
      /\ \E o : OrderOf(o, N) /\ Linked(c, o, N)
  BY CacheIs
<1>1. CASE high = NoNode
  BY <1>1 DEF Promoted
<1>2. CASE high # NoNode
  <2>0. d = [c EXCEPT !.node = node4, !.lowest = IF low = NoNode THEN high ELSE @, !.highest = n]
    BY <1>2 DEF Promoted
  <2>1. PICK o : OrderOf(o, N) /\ Linked(c, o, N)
    BY <1>0
  <2>2. n \in 1..N /\ c.node[n].key = k
    BY <1>0 DEF MapLeads
  <2>3. PICK p \in 1..N : o[p] = n
    BY <2>1, <2>2 DEF OrderOf
  <2>4. /\ low = IF p = 1 THEN NoNode ELSE o[p - 1]
        /\ high = IF p = N THEN NoNode ELSE o[p + 1]
        /\ c.highest = o[N] /\ c.lowest = o[1]
    BY <2>1, <2>3 DEF Linked
  <2>5. p < N /\ high = o[p + 1]
    BY <1>2, <2>3, <2>4
  <2>6. /\ high \in 1..N /\ c.highest \in 1..N /\ (low # NoNode => low \in 1..N)
        /\ c.highest # n /\ high # n /\ low # n /\ low # high
    <3>1. N \in 1..N /\ p + 1 \in 1..N /\ 1 \in 1..N /\ (p # 1 => p - 1 \in 1..N)
      BY <2>5, <1>0
    <3>2. \A i \in 1..N : o[i] \in 1..N
      BY <2>1 DEF OrderOf
    <3>3. \A i, j \in 1..N : o[i] = o[j] => i = j
      BY <2>1 DEF OrderOf
    <3> QED
      BY <2>3, <2>4, <2>5, <3>1, <3>2, <3>3 DEF NoNode
  <2>N. N \in Nat /\ p \in Nat /\ 1 <= p /\ p <= N
    BY <1>0
  <2> HIDE DEF n, low, high, N
  <2>7. /\ node4 \in Seq(Nodes) /\ Len(node4) = N
        /\ \A m \in 1..N :
           /\ node4[m].key = c.node[m].key
           /\ node4[m].lower = IF m = n THEN c.highest ELSE IF m = high THEN low ELSE c.node[m].lower
           /\ node4[m].higher = IF m = n THEN NoNode ELSE IF m = c.highest THEN n
                                ELSE IF low # NoNode /\ m = low THEN high ELSE c.node[m].higher
    <3>0. PICK node, highest : node = c.node /\ highest = c.highest
      OBVIOUS
    <3>1. /\ node \in Seq(Nodes) /\ Len(node) = N /\ highest \in Nat /\ n \in Nat
          /\ low \in Nat /\ high \in Nat
      BY <1>0, <2>2, <2>4, <2>6, <3>0 DEF N, NoNode
    <3>2. LowerIs(node1, node, high, low)
      <4>1. high \in 1..Len(node) /\ node1 = [node EXCEPT ![high].lower = low]
        BY <2>6, <3>0, <3>1
      <4> HIDE DEF node1
      <4> QED
        BY <3>1, <4>1, RelinkLower
    <3> HIDE DEF node1
    <3>3. IF low = NoNode THEN node2 = node1 ELSE HigherIs(node2, node1, low, high)
      <4>1. CASE low = NoNode
        BY <4>1
      <4>2. CASE low # NoNode
        <5>1. low \in 1..Len(node1) /\ node1 \in Seq(Nodes)
          BY <2>6, <3>1, <3>2, <4>2 DEF LowerIs
        <5>2. HigherIs([node1 EXCEPT ![low].higher = high], node1, low, high)
          BY <3>1, <5>1, RelinkHigher
        <5> QED
          BY <4>2, <5>2
      <4> QED
        BY <4>1, <4>2
    <3> HIDE DEF node2
    <3>a. node2 \in Seq(Nodes) /\ Len(node2) = N
      BY <3>1, <3>2, <3>3 DEF LowerIs, HigherIs
    <3>4. HigherIs(node3, node2, highest, n)
      <4>1. highest \in 1..Len(node2) /\ node3 = [node2 EXCEPT ![highest].higher = n]
        BY <2>6, <3>0, <3>a
      <4> HIDE DEF node3
      <4> QED
        BY <3>1, <3>a, <4>1, RelinkHigher
    <3> DEFINE node5 == [node3 EXCEPT ![n].lower = highest]
    <3>6. node4 = [node5 EXCEPT ![n].higher = NoNode]
      BY <3>0
    <3> HIDE DEF node3
    <3>b. node3 \in Seq(Nodes) /\ Len(node3) = N
      BY <3>a, <3>4 DEF HigherIs
    <3>5. LowerIs(node5, node3, n, highest)
      <4>1. n \in 1..Len(node3)
        BY <2>2, <3>b
      <4> QED
        BY <3>1, <3>b, <4>1, RelinkLower
    <3> HIDE DEF node5, node4
    <3>7. HigherIs(node4, node5, n, NoNode)
      <4>1. NoNode \in Nat /\ node5 \in Seq(Nodes) /\ n \in 1..Len(node5)
        BY <2>2, <3>b, <3>5 DEF NoNode, LowerIs
      <4> QED
        BY <3>6, <4>1, RelinkHigher
    <3>8. node4 \in Seq(Nodes) /\ Len(node4) = N
      BY <3>b, <3>5, <3>7 DEF LowerIs, HigherIs
    <3>9. ASSUME NEW m \in 1..N
          PROVE  /\ node4[m].key = c.node[m].key
                 /\ node4[m].lower = IF m = n THEN c.highest ELSE IF m = high THEN low ELSE c.node[m].lower
                 /\ node4[m].higher = IF m = n THEN NoNode ELSE IF m = c.highest THEN n
                                ELSE IF low # NoNode /\ m = low THEN high ELSE c.node[m].higher
      <4>1. /\ node1[m].key = node[m].key /\ node1[m].higher = node[m].higher
            /\ node1[m].lower = IF m = high THEN low ELSE node[m].lower
        BY <3>1, <3>2 DEF LowerIs
      <4>2. /\ node2[m].key = node1[m].key /\ node2[m].lower = node1[m].lower
            /\ node2[m].higher = IF low # NoNode /\ m = low THEN high ELSE node1[m].higher
        BY <3>1, <3>2, <3>3 DEF HigherIs, LowerIs
      <4>3. /\ node3[m].key = node2[m].key /\ node3[m].lower = node2[m].lower
            /\ node3[m].higher = IF m = highest THEN n ELSE node2[m].higher
        BY <3>a, <3>4 DEF HigherIs
      <4>4. /\ node5[m].key = node3[m].key /\ node5[m].higher = node3[m].higher
            /\ node5[m].lower = IF m = n THEN highest ELSE node3[m].lower
        BY <3>b, <3>5 DEF LowerIs
      <4>5. /\ node4[m].key = node5[m].key /\ node4[m].lower = node5[m].lower
            /\ node4[m].higher = IF m = n THEN NoNode ELSE node5[m].higher
        BY <3>b, <3>5, <3>7 DEF LowerIs, HigherIs
      <4> QED
        BY <3>0, <4>1, <4>2, <4>3, <4>4, <4>5
    <3> QED
      BY <3>8, <3>9
  <2> HIDE DEF node4
  <2>8. d \in CacheTypes /\ d.map = c.map /\ d.node = node4 /\ d.highest = n
        /\ d.lowest = IF low = NoNode THEN high ELSE c.lowest
    <3>1. low \in Nat /\ high \in Nat /\ n \in Nat
      BY <1>0, <2>2, <2>4, <2>6 DEF N, NoNode
    <3> HIDE DEF d
    <3> QED
      BY <1>0, <2>0, <2>7, <3>1 DEF CacheTypes
  <2> HIDE DEF d
  <2>9. MapLeads(d)
    <3>1. \A j \in DOMAIN c.map : c.map[j] \in 1..N /\ c.node[c.map[j]].key = j
      BY <1>0 DEF MapLeads, N
    <3> QED
      BY <2>7, <2>8, <3>1 DEF MapLeads
  <2> DEFINE r == Raised(o, N, p)
  <2>10. OrderOf(r, N)
    BY <1>0, <2>1, RaisedIsOrder
  <2> HIDE DEF r
  <2>12. Relinked(c, d, o, N, p)
    <3>1. o[p] = n
      BY <2>3
    <3> QED
      BY <2>7, <2>8, <3>1 DEF Relinked, low, high
  <2>15. Linked(d, r, N)
    BY <2>N, <2>1, <2>5, <2>12, RaisedIsLinked DEF r
  <2>16. Len(d.node) = N
    BY <2>7, <2>8
  <2>17. \E q : OrderOf(q, Len(d.node)) /\ Linked(d, q, Len(d.node))
    BY <2>10, <2>15, <2>16
  <2>18. d \in Caches
    BY <2>8, <2>9, <2>17, Zenon DEF Caches
  <2> QED
    BY <2>8, <2>18 DEF d
<1> QED
  BY <1>1, <1>2

\* A key that is inserted is on top, and nothing but it gets into the map.
Grown(o, N) == [i \in 1..(N + 1) |-> IF i <= N THEN o[i] ELSE N + 1]
LEMMA GrownIsOrder ==
    ASSUME NEW N \in Nat, NEW o, OrderOf(o, N)
    PROVE  OrderOf(Grown(o, N), N + 1)
<1> DEFINE g == Grown(o, N)
<1>1. \A i \in 1..(N + 1) : g[i] = IF i <= N THEN o[i] ELSE N + 1
  BY DEF Grown
<1>2. /\ \A i \in 1..N : o[i] \in 1..N
      /\ \A i, j \in 1..N : o[i] = o[j] => i = j
      /\ \A n \in 1..N : \E i \in 1..N : o[i] = n
  BY DEF OrderOf
<1>3. g = [i \in 1..(N + 1) |-> g[i]]
  BY DEF Grown
<1> HIDE DEF g
<1>4. \A i \in 1..(N + 1) : g[i] \in 1..(N + 1)
  BY <1>1, <1>2
<1>5. g \in [1..(N + 1) -> 1..(N + 1)]
  BY <1>3, <1>4
<1>6. ASSUME NEW i \in 1..(N + 1), NEW j \in 1..(N + 1), g[i] = g[j] PROVE i = j
  <2>1. (i \in 1..N \/ i = N + 1) /\ (j \in 1..N \/ j = N + 1)
    OBVIOUS
  <2>2. (i \in 1..N => g[i] = o[i] /\ g[i] # N + 1) /\ (i = N + 1 => g[i] = N + 1)
    BY <1>1, <1>2
  <2>3. (j \in 1..N => g[j] = o[j] /\ g[j] # N + 1) /\ (j = N + 1 => g[j] = N + 1)
    BY <1>1, <1>2
  <2> QED
    BY <1>2, <1>6, <2>1, <2>2, <2>3
<1>7. ASSUME NEW n \in 1..(N + 1) PROVE \E i \in 1..(N + 1) : g[i] = n
  <2>1. CASE n = N + 1
    BY <1>1, <2>1
  <2>2. CASE n \in 1..N
    <3>1. PICK i \in 1..N : o[i] = n
      BY <1>2, <2>2
    <3>2. i \in 1..(N + 1) /\ g[i] = n
      BY <1>1, <3>1
    <3> QED
      BY <3>2
  <2> QED
    BY <2>1, <2>2
<1>8. OrderOf(g, N + 1)
  BY <1>5, <1>6, <1>7 DEF OrderOf
<1> QED
  BY <1>8 DEF g

LEMMA InsertedWithRoom ==
    ASSUME NEW c \in Caches, NEW k \in Spots, ~(Len(c.node) >= CacheRoom)
    PROVE  /\ Inserted(c, k) \in Caches
           /\ DOMAIN Inserted(c, k).map = DOMAIN c.map \cup {k}
<1> DEFINE N == Len(c.node)
           n == N + 1
           new == [key |-> k, lower |-> c.highest, higher |-> NoNode]
           node1 == Append(c.node, new)
           node2 == IF c.highest # NoNode THEN [node1 EXCEPT ![c.highest].higher = n] ELSE node1
           map == [j \in DOMAIN c.map \cup {k} |-> IF j = k THEN n ELSE c.map[j]]
           d == [map |-> map, node |-> node2, lowest |-> IF c.highest = NoNode THEN n ELSE c.lowest,
                 highest |-> n]
<1>0. /\ c \in CacheTypes /\ MapLeads(c) /\ N \in Nat /\ c.node \in Seq(Nodes)
      /\ \E o : OrderOf(o, N) /\ Linked(c, o, N)
  BY CacheIs
<1>1. Inserted(c, k) = d
  BY DEF Inserted
<1>2. PICK o : OrderOf(o, N) /\ Linked(c, o, N)
  BY <1>0
<1>3. N # 0 => N \in 1..N /\ o[N] \in 1..N /\ c.highest = o[N] /\ c.highest # NoNode
  <2>0. N \in Nat
    BY <1>0
  <2> HIDE DEF N
  <2>1. N # 0 => N \in 1..N
    BY <2>0
  <2>2. \A i \in 1..N : o[i] \in 1..N
    BY <1>2 DEF OrderOf
  <2>3. c.highest = IF N = 0 THEN NoNode ELSE o[N]
    BY <1>2 DEF Linked
  <2> QED
    BY <2>1, <2>2, <2>3 DEF NoNode
<1>4. N = 0 => c.highest = NoNode /\ c.lowest = NoNode
  BY <1>2 DEF Linked
<1>5. c.highest \in Nat /\ c.lowest \in Nat /\ c.map \in UNION {[A -> Nat] : A \in SUBSET Spots}
  BY <1>0 DEF CacheTypes
<1>6. new \in Nodes /\ n \in Nat /\ n \in 1..n
  BY <1>0, <1>5 DEF Nodes, NoNode
<1> HIDE DEF N
<1>7. /\ node1 \in Seq(Nodes) /\ Len(node1) = n /\ node1[n] = new
      /\ \A m \in 1..N : m \in 1..n /\ node1[m] = c.node[m] /\ m # n
  <2>1. c.node \in Seq(Nodes) /\ new \in Nodes
    BY <1>0, <1>6
  <2> HIDE DEF new
  <2>2. /\ node1 \in Seq(Nodes) /\ Len(node1) = Len(c.node) + 1
        /\ \A m \in 1..Len(c.node) : node1[m] = c.node[m]
        /\ node1[Len(c.node) + 1] = new
    BY <2>1, AppendProperties
  <2> HIDE DEF node1
  <2> QED
    BY <1>0, <2>2 DEF N
<1>8. node1[n].key = k /\ node1[n].lower = c.highest /\ node1[n].higher = NoNode
  BY <1>7
<1> HIDE DEF new, n, node1
<1>9. IF c.highest = NoNode THEN node2 = node1 ELSE HigherIs(node2, node1, c.highest, n)
  <2>1. CASE c.highest = NoNode
    BY <2>1
  <2>2. CASE c.highest # NoNode
    <3>1. PICK h : h = c.highest
      OBVIOUS
    <3>2. h \in 1..Len(node1) /\ node2 = [node1 EXCEPT ![h].higher = n]
      BY <1>3, <1>4, <1>7, <2>2, <3>1
    <3> HIDE DEF node2
    <3>3. HigherIs(node2, node1, h, n)
      BY <1>6, <1>7, <3>2, RelinkHigher
    <3> QED
      BY <2>2, <3>1, <3>3
  <2> QED
    BY <2>1, <2>2
<1> HIDE DEF node2
<1>10. node2 \in Seq(Nodes) /\ Len(node2) = n
  BY <1>7, <1>9 DEF HigherIs
<1>11. \A m \in 1..n :
          /\ node2[m].key = node1[m].key /\ node2[m].lower = node1[m].lower
          /\ node2[m].higher = IF c.highest # NoNode /\ m = c.highest THEN n ELSE node1[m].higher
  BY <1>7, <1>9 DEF HigherIs
<1>12. map \in UNION {[A -> Nat] : A \in SUBSET Spots} /\ DOMAIN map = DOMAIN c.map \cup {k}
  <2>1. DOMAIN c.map \subseteq Spots /\ \A j \in DOMAIN c.map : c.map[j] \in Nat
    BY <1>5
  <2>2. \A j \in DOMAIN map : map[j] \in Nat
    BY <1>6, <2>1
  <2>3. map \in [DOMAIN c.map \cup {k} -> Nat] /\ DOMAIN c.map \cup {k} \in SUBSET Spots
    BY <2>1, <2>2
  <2> QED
    BY <2>3
<1>13. \A j \in DOMAIN map : map[j] = IF j = k THEN n ELSE c.map[j]
  OBVIOUS
<1> HIDE DEF map
<1>14. /\ d \in CacheTypes /\ d.map = map /\ d.node = node2 /\ d.highest = n
       /\ d.lowest = IF c.highest = NoNode THEN n ELSE c.lowest
  BY <1>5, <1>6, <1>10, <1>12 DEF CacheTypes
<1> HIDE DEF d
<1>15. MapLeads(d)
  <2>1. ASSUME NEW j \in DOMAIN d.map PROVE d.map[j] \in 1..Len(d.node) /\ d.node[d.map[j]].key = j
    <3>1. CASE j = k
      BY <1>6, <1>8, <1>10, <1>11, <1>13, <1>14, <3>1
    <3>2. CASE j # k
      <4>1. j \in DOMAIN c.map /\ d.map[j] = c.map[j]
        BY <1>12, <1>13, <1>14, <3>2
      <4>2. c.map[j] \in 1..N /\ c.node[c.map[j]].key = j
        BY <1>0, <4>1 DEF MapLeads, N
      <4> QED
        BY <1>7, <1>10, <1>11, <1>14, <4>1, <4>2
    <3> QED
      BY <3>1, <3>2
  <2> QED
    BY <2>1 DEF MapLeads
<1> DEFINE g == Grown(o, N)
<1>16. OrderOf(g, n)
  BY <1>0, <1>2, GrownIsOrder DEF n
<1>17. \A i \in 1..n : g[i] = IF i <= N THEN o[i] ELSE n
  BY DEF Grown, n
<1> HIDE DEF g
<1>18. /\ \A i \in 1..N : o[i] \in 1..N
       /\ \A i, j \in 1..N : o[i] = o[j] => i = j
       /\ \A i \in 1..N : /\ c.node[o[i]].lower = IF i = 1 THEN NoNode ELSE o[i - 1]
                          /\ c.node[o[i]].higher = IF i = N THEN NoNode ELSE o[i + 1]
  BY <1>2 DEF OrderOf, Linked
<1>19. ASSUME NEW i \in 1..n
       PROVE  /\ d.node[g[i]].lower = IF i = 1 THEN NoNode ELSE g[i - 1]
              /\ d.node[g[i]].higher = IF i = n THEN NoNode ELSE g[i + 1]
  <2>1. CASE i = n
    <3>1. g[i] = n /\ n \in 1..n
      BY <1>0, <1>6, <1>17, <2>1 DEF n
    <3>2. d.node[n].lower = c.highest /\ d.node[n].higher = NoNode
      <4>1. c.highest # NoNode => c.highest # n
        BY <1>3, <1>4, <1>7
      <4> QED
        BY <1>6, <1>8, <1>11, <1>14, <4>1
    <3>3. CASE N = 0
      BY <1>4, <2>1, <3>1, <3>2, <3>3 DEF n
    <3>4. CASE N # 0
      <4>1. i # 1 /\ i - 1 = N /\ N \in 1..n
        BY <1>0, <2>1, <3>4 DEF n
      <4>2. g[i - 1] = o[N]
        BY <1>17, <4>1
      <4> QED
        BY <1>3, <2>1, <3>1, <3>2, <3>4, <4>1, <4>2
    <3> QED
      BY <3>3, <3>4
  <2>2. CASE i # n
    <3>1. i \in 1..N /\ i + 1 \in 1..n /\ (i # 1 => i - 1 \in 1..n /\ i - 1 <= N) /\ i <= N /\ N # 0
      BY <1>0, <2>2 DEF n
    <3>2. g[i] = o[i] /\ (i # 1 => g[i - 1] = o[i - 1]) /\ o[i] \in 1..N
      BY <1>17, <1>18, <3>1
    <3>3. g[i + 1] = IF i = N THEN n ELSE o[i + 1]
      <4>1. i + 1 <= N <=> i # N
        BY <1>0, <3>1
      <4> QED
        BY <1>17, <3>1, <4>1
    <3>4. o[i] = c.highest <=> i = N
      BY <1>3, <1>18, <3>1
    <3>5. /\ d.node[o[i]].lower = c.node[o[i]].lower
          /\ d.node[o[i]].higher = IF i = N THEN n ELSE c.node[o[i]].higher
      BY <1>3, <1>7, <1>11, <1>14, <3>1, <3>2, <3>4
    <3> QED
      BY <1>18, <2>2, <3>1, <3>2, <3>3, <3>5
  <2> QED
    BY <2>1, <2>2
<1>20. Linked(d, g, n)
  <2>1. n # 0 /\ n \in 1..n /\ 1 \in 1..n /\ (1 <= N <=> N # 0) /\ ~(n <= N)
    BY <1>0 DEF n
  <2>2. g[n] = n /\ g[1] = IF N # 0 THEN o[1] ELSE n
    BY <1>17, <2>1
  <2>3. d.lowest = g[1]
    <3>1. N # 0 => c.lowest = o[1]
      BY <1>2 DEF Linked
    <3> QED
      BY <1>3, <1>4, <1>14, <2>2, <3>1
  <2> QED
    BY <1>14, <1>19, <2>1, <2>2, <2>3 DEF Linked
<1>21. Len(d.node) = n
  BY <1>10, <1>14
<1>22. \E q : OrderOf(q, Len(d.node)) /\ Linked(d, q, Len(d.node))
  BY <1>16, <1>20, <1>21
<1>23. d \in Caches
  BY <1>14, <1>15, <1>22, Zenon DEF Caches
<1> QED
  BY <1>1, <1>12, <1>14, <1>23

LEMMA InsertedWhenFull ==
    ASSUME NEW c \in Caches, NEW k \in Spots, Len(c.node) >= CacheRoom
    PROVE  /\ Inserted(c, k) \in Caches
           /\ DOMAIN Inserted(c, k).map \subseteq DOMAIN c.map \cup {k}
<1> DEFINE N == Len(c.node)
           n == c.lowest
           next == c.node[n].higher
           gone == c.node[n].key
           stay == [j \in DOMAIN c.map \ {gone} |-> c.map[j]]
           node0 == [c.node EXCEPT ![next].lower = NoNode]
           room == [c EXCEPT !.map = stay, !.node = node0, !.lowest = next]
           new == [key |-> k, lower |-> c.highest, higher |-> NoNode]
           node1 == [node0 EXCEPT ![n] = new]
           node2 == [node1 EXCEPT ![c.highest].higher = n]
           map == [j \in (DOMAIN c.map \ {gone}) \cup {k} |-> IF j = k THEN n ELSE c.map[j]]
           d == [map |-> map, node |-> node2, lowest |-> next, highest |-> n]
<1>0. /\ c \in CacheTypes /\ MapLeads(c) /\ N \in Nat /\ c.node \in Seq(Nodes)
      /\ \E o : OrderOf(o, N) /\ Linked(c, o, N)
  BY CacheIs
<1>N. N >= 2
  BY <1>0, CacheAssumption
<1>1. PICK o : OrderOf(o, N) /\ Linked(c, o, N)
  BY <1>0
<1>2. /\ n = o[1] /\ c.highest = o[N] /\ o[1] \in 1..N /\ o[2] \in 1..N /\ o[N] \in 1..N
      /\ o[1] # o[2] /\ o[1] # o[N] /\ next = o[2] /\ c.node[n].lower = NoNode
  <2>0. N \in Nat
    BY <1>0
  <2>a. n = c.lowest /\ next = c.node[n].higher
    OBVIOUS
  <2> HIDE DEF N, n, next
  <2>1. 1 \in 1..N /\ 2 \in 1..N /\ N \in 1..N /\ 1 # N /\ N # 0
    BY <1>N, <2>0
  <2>2. /\ \A i \in 1..N : o[i] \in 1..N
        /\ \A i, j \in 1..N : o[i] = o[j] => i = j
    BY <1>1 DEF OrderOf
  <2>3. n = o[1] /\ c.highest = o[N]
    BY <1>1, <2>1, <2>a DEF Linked
  <2>4. next = o[2] /\ c.node[n].lower = NoNode
    BY <1>1, <2>1, <2>3, <2>a DEF Linked
  <2>5. 1 # 2
    OBVIOUS
  <2> QED
    BY <2>1, <2>2, <2>3, <2>4, <2>5
<1>3. c.highest # NoNode /\ next # NoNode
  BY <1>2 DEF NoNode
<1>4. Inserted(c, k) = d
  <2>1. Evicted(c) = room
    BY DEF Evicted
  <2>2. room.map = stay /\ room.node = node0 /\ room.lowest = next /\ room.highest = c.highest
    BY <1>0 DEF CacheTypes
  <2>3. [j \in DOMAIN stay \cup {k} |-> IF j = k THEN n ELSE stay[j]] = map
    BY Zenon
  <2> HIDE DEF room, stay, node0
  <2> QED
    BY <1>3, <2>1, <2>2, <2>3 DEF Inserted
<1>5. c.highest \in Nat /\ n \in Nat /\ c.map \in UNION {[A -> Nat] : A \in SUBSET Spots}
  BY <1>0 DEF CacheTypes
<1>6. new \in Nodes /\ new.key = k /\ new.lower = c.highest /\ new.higher = NoNode
  BY <1>5 DEF Nodes, NoNode
<1>7. DOMAIN c.map \subseteq Spots /\ \A j \in DOMAIN c.map : c.map[j] \in Nat
  BY <1>5
<1>8. map \in UNION {[A -> Nat] : A \in SUBSET Spots} /\ DOMAIN map = (DOMAIN c.map \ {gone}) \cup {k}
  <2>1. \A j \in DOMAIN map : map[j] \in Nat
    BY <1>5, <1>7
  <2>2. map \in [(DOMAIN c.map \ {gone}) \cup {k} -> Nat]
        /\ (DOMAIN c.map \ {gone}) \cup {k} \in SUBSET Spots
    BY <1>7, <2>1
  <2> QED
    BY <2>2
<1>9. \A j \in DOMAIN map : map[j] = IF j = k THEN n ELSE c.map[j]
  OBVIOUS
<1> HIDE DEF N, n, next, gone, map, new
<1>10. LowerIs(node0, c.node, next, NoNode)
  <2>1. PICK node : node = c.node
    OBVIOUS
  <2>2. node \in Seq(Nodes) /\ next \in 1..Len(node) /\ NoNode \in Nat
        /\ node0 = [node EXCEPT ![next].lower = NoNode]
    BY <1>0, <1>2, <2>1 DEF NoNode, N
  <2> HIDE DEF node0
  <2> QED
    BY <2>1, <2>2, RelinkLower
<1> HIDE DEF node0
<1>11. node0 \in Seq(Nodes) /\ Len(node0) = N
  BY <1>10 DEF LowerIs, N
<1>12. /\ node1 \in Seq(Nodes) /\ Len(node1) = N
       /\ \A m \in 1..N : node1[m] = IF m = n THEN new ELSE node0[m]
  <2>1. n \in 1..Len(node0)
    BY <1>2, <1>11
  <2> QED
    BY <1>6, <1>11, <2>1, ExceptSeq
<1> HIDE DEF node1
<1>13. HigherIs(node2, node1, c.highest, n)
  <2>1. PICK h : h = c.highest
    OBVIOUS
  <2>2. h \in 1..Len(node1) /\ node2 = [node1 EXCEPT ![h].higher = n] /\ n \in Nat
    BY <1>2, <1>5, <1>12, <2>1
  <2> HIDE DEF node2
  <2> QED
    BY <1>12, <2>1, <2>2, RelinkHigher
<1> HIDE DEF node2
<1>14. node2 \in Seq(Nodes) /\ Len(node2) = N
  BY <1>12, <1>13 DEF HigherIs
<1>15. ASSUME NEW m \in 1..N
       PROVE  /\ node2[m].key = IF m = n THEN k ELSE c.node[m].key
              /\ node2[m].lower = IF m = n THEN c.highest ELSE IF m = next THEN NoNode ELSE c.node[m].lower
              /\ node2[m].higher = IF m = n THEN NoNode ELSE IF m = c.highest THEN n ELSE c.node[m].higher
  <2>1. /\ node0[m].key = c.node[m].key /\ node0[m].higher = c.node[m].higher
        /\ node0[m].lower = IF m = next THEN NoNode ELSE c.node[m].lower
    BY <1>10 DEF LowerIs, N
  <2>2. node1[m] = IF m = n THEN new ELSE node0[m]
    BY <1>12
  <2>3. /\ node2[m].key = node1[m].key /\ node2[m].lower = node1[m].lower
        /\ node2[m].higher = IF m = c.highest THEN n ELSE node1[m].higher
    BY <1>12, <1>13 DEF HigherIs
  <2> QED
    BY <1>2, <1>6, <2>1, <2>2, <2>3
<1>16. d \in CacheTypes /\ d.map = map /\ d.node = node2 /\ d.highest = n /\ d.lowest = next
  <2>1. next \in Nat
    BY <1>2
  <2> QED
    BY <1>5, <1>8, <1>14, <2>1 DEF CacheTypes
<1> HIDE DEF d
<1>17. MapLeads(d)
  <2>1. ASSUME NEW j \in DOMAIN d.map PROVE d.map[j] \in 1..Len(d.node) /\ d.node[d.map[j]].key = j
    <3>1. CASE j = k
      BY <1>2, <1>9, <1>14, <1>15, <1>16, <3>1
    <3>2. CASE j # k
      <4>1. j \in DOMAIN c.map /\ j # gone /\ d.map[j] = c.map[j]
        BY <1>8, <1>9, <1>16, <3>2
      <4>2. c.map[j] \in 1..N /\ c.node[c.map[j]].key = j
        BY <1>0, <4>1 DEF MapLeads, N
      <4>3. c.map[j] # n
        BY <4>1, <4>2 DEF gone
      <4> QED
        BY <1>14, <1>15, <1>16, <4>1, <4>2, <4>3
    <3> QED
      BY <3>1, <3>2
  <2> QED
    BY <2>1 DEF MapLeads
<1> DEFINE r == Raised(o, N, 1)
<1>18. 1 \in 1..N /\ 1 < N /\ N \in Nat
  BY <1>0, <1>N
<1>19. OrderOf(r, N)
  BY <1>1, <1>18, RaisedIsOrder
<1>20. Relinked(c, d, o, N, 1)
  <2>1. o[1] = n /\ c.node[n].lower = NoNode /\ c.node[n].higher = next
    BY <1>2 DEF next
  <2> QED
    BY <1>15, <1>16, <2>1 DEF Relinked
<1>21. Linked(d, r, N)
  BY <1>1, <1>18, <1>20, RaisedIsLinked
<1>22. Len(d.node) = N
  BY <1>14, <1>16
<1>23. \E q : OrderOf(q, Len(d.node)) /\ Linked(d, q, Len(d.node))
  BY <1>19, <1>21, <1>22
<1>24. d \in Caches
  BY <1>16, <1>17, <1>23, Zenon DEF Caches
<1> QED
  BY <1>4, <1>8, <1>16, <1>24

LEMMA InsertedIsCache ==
    ASSUME NEW c \in Caches, NEW k \in Spots
    PROVE  /\ Inserted(c, k) \in Caches
           /\ DOMAIN Inserted(c, k).map \subseteq DOMAIN c.map \cup {k}
<1>1. CASE Len(c.node) >= CacheRoom
  BY <1>1, InsertedWhenFull
<1>2. CASE ~(Len(c.node) >= CacheRoom)
  BY <1>2, InsertedWithRoom
<1> QED
  BY <1>1, <1>2

\* Keys inserted one after the other.
InsertsTo(f, c, keys) ==
    \A n \in 0..Len(keys) : f[n] = IF n = 0 THEN c ELSE Inserted(f[n - 1], keys[n])
LEMMA AllInsertedIsLast ==
    ASSUME NEW c \in Caches, NEW keys \in Seq(Spots)
    PROVE  \E f : /\ InsertsTo(f, c, keys) /\ AllInserted(c, keys) = f[Len(keys)]
                  /\ f \in [0..Len(keys) -> Caches]
<1> DEFINE m == Len(keys)
           R(f) == f = [n \in 0..m |-> IF n = 0 THEN c ELSE Inserted(f[n - 1], keys[n])]
<1>0. m \in Nat /\ \A n \in 1..m : keys[n] \in Spots
  OBVIOUS
<1>1. AllInserted(c, keys) = (CHOOSE f : R(f))[m]
  BY Zenon DEF AllInserted
<1>2. ASSUME NEW f, R(f) PROVE InsertsTo(f, c, keys)
  BY <1>2, Zenon DEF InsertsTo
<1>3. \E f : R(f)
  <2> DEFINE G == [n \in 1..m |-> [b \in Caches |-> Inserted(b, keys[n])]]
  <2>1. ASSUME NEW n \in 1..m, NEW b \in Caches PROVE Inserted(b, keys[n]) \in Caches
    BY <1>0, InsertedIsCache
  <2>2. G \in [1..m -> [Caches -> Caches]]
    BY <2>1
  <2> HIDE DEF m, G
  <2>5. PICK f : Iterates(f, Caches, c, m, G)
    BY <1>0, <2>2, IterationExists, Zenon
  <2>3. /\ f \in [0..m -> Caches]
        /\ \A n \in 0..m : f[n] = IF n = 0 THEN c ELSE G[n][f[n - 1]]
    BY <2>5 DEF Iterates
  <2>4. ASSUME NEW n \in 0..m
        PROVE  f[n] = IF n = 0 THEN c ELSE Inserted(f[n - 1], keys[n])
    <3>1. CASE n = 0
      BY <2>3, <3>1
    <3>2. CASE n # 0
      <4>1. n \in 1..m /\ n - 1 \in 0..m
        BY <1>0, <3>2
      <4>2. f[n - 1] \in Caches /\ f[n] = G[n][f[n - 1]]
        BY <2>3, <3>2, <4>1
      <4>3. G[n][f[n - 1]] = Inserted(f[n - 1], keys[n])
        BY <4>1, <4>2 DEF G
      <4> QED
        BY <3>2, <4>2, <4>3
    <3> QED
      BY <3>1, <3>2
  <2>6. R(f)
    BY <2>3, <2>4 DEF m
  <2> QED
    BY <2>6
<1>4. R(CHOOSE f : R(f))
  <2> HIDE DEF R
  <2> QED
    BY <1>3
<1>5. PICK f : f = CHOOSE g : R(g)
  OBVIOUS
<1>6. R(f) /\ AllInserted(c, keys) = f[m] /\ InsertsTo(f, c, keys)
  BY <1>1, <1>2, <1>4, <1>5
<1>7. \A n \in 0..m : f[n] \in Caches
  <2> DEFINE S == {n \in 0..m : f[n] \in Caches}
  <2>0. \A n \in 0..m : f[n] = IF n = 0 THEN c ELSE Inserted(f[n - 1], keys[n])
    BY <1>6 DEF InsertsTo
  <2> HIDE DEF m, R
  <2>1. 0 \in S
    BY <1>0, <2>0
  <2>2. ASSUME NEW i \in 0..(m - 1), i \in S PROVE i + 1 \in S
    <3>1. i + 1 \in 0..m /\ i + 1 # 0 /\ (i + 1) - 1 = i /\ i + 1 \in 1..m /\ f[i] \in Caches
      BY <1>0, <2>2
    <3>2. f[i + 1] = Inserted(f[i], keys[i + 1])
      BY <2>0, <3>1
    <3>3. Inserted(f[i], keys[i + 1]) \in Caches
      BY <1>0, <3>1, InsertedIsCache
    <3> QED
      BY <3>1, <3>2, <3>3
  <2>3. \A n \in 0..m : n \in S
    <3> HIDE DEF S
    <3>1. \A i \in 0..(m - 1) : i \in S => i + 1 \in S
      BY <2>2
    <3>2. m \in Nat
      BY <1>0
    <3> QED
      BY <2>1, <3>1, <3>2, StepByStep, Zenon
  <2> QED
    BY <2>3
<1>8. f = [n \in 0..m |-> f[n]]
  BY <1>6
<1>9. f \in [0..m -> Caches]
  <2> HIDE DEF m, R
  <2> QED
    BY <1>7, <1>8
<1> QED
  BY <1>6, <1>9

LEMMA AllInsertedIsCache ==
    ASSUME NEW c \in Caches, NEW keys \in Seq(Spots)
    PROVE  /\ AllInserted(c, keys) \in Caches
           /\ DOMAIN AllInserted(c, keys).map \subseteq DOMAIN c.map \cup ToSet(keys)
<1> DEFINE m == Len(keys)
<1>0. m \in Nat /\ \A n \in 1..m : keys[n] \in Spots /\ keys[n] \in ToSet(keys)
  BY DEF ToSet
<1>1. PICK f : /\ InsertsTo(f, c, keys) /\ AllInserted(c, keys) = f[m]
               /\ f \in [0..m -> Caches]
  BY AllInsertedIsLast
<1> DEFINE S == {n \in 0..m : DOMAIN f[n].map \subseteq DOMAIN c.map \cup ToSet(keys)}
<1>2. \A n \in 0..m : f[n] = IF n = 0 THEN c ELSE Inserted(f[n - 1], keys[n])
  BY <1>1 DEF InsertsTo
<1> HIDE DEF m
<1>3. 0 \in S
  BY <1>0, <1>2
<1>4. ASSUME NEW i \in 0..(m - 1), i \in S PROVE i + 1 \in S
  <2>1. i + 1 \in 0..m /\ i + 1 # 0 /\ (i + 1) - 1 = i /\ i + 1 \in 1..m /\ i \in 0..m
    BY <1>0, <1>4
  <2>2. f[i + 1] = Inserted(f[i], keys[i + 1]) /\ f[i] \in Caches
    BY <1>1, <1>2, <2>1
  <2>3. DOMAIN Inserted(f[i], keys[i + 1]).map \subseteq DOMAIN f[i].map \cup {keys[i + 1]}
    BY <1>0, <2>1, <2>2, InsertedIsCache
  <2> QED
    BY <1>0, <1>4, <2>1, <2>2, <2>3
<1>5. \A n \in 0..m : n \in S
  <2> HIDE DEF S
  <2>1. \A i \in 0..(m - 1) : i \in S => i + 1 \in S
    BY <1>4
  <2>2. m \in Nat
    BY <1>0
  <2> QED
    BY <1>3, <2>1, <2>2, StepByStep, Zenon
<1>6. m \in 0..m
  BY <1>0
<1> QED
  BY <1>1, <1>5, <1>6

\* Climbing goes along the order, from the lowest node up.
LEMMA ClimbingIsOrder ==
    ASSUME NEW c, NEW o, NEW N \in Nat, Len(c.node) = N, OrderOf(o, N), Linked(c, o, N)
    PROVE  Climbing(c) = o
<1> DEFINE T(i) == [j \in 1..i |-> o[j]]
           B(f, n) == IF n = 0 THEN << >>
                      ELSE LET next == IF f[n - 1] = << >> THEN c.lowest
                                       ELSE c.node[Last(f[n - 1])].higher
                           IN IF next = NoNode THEN f[n - 1] ELSE Append(f[n - 1], next)
           R(f) == f = [n \in 0..N |-> B(f, n)]
<1>1. Climbing(c) = (CHOOSE f : R(f))[N]
  BY Zenon DEF Climbing
<1>2. /\ \A i \in 1..N : o[i] \in 1..N
      /\ o \in [1..N -> 1..N]
  BY DEF OrderOf
<1>a. ASSUME NEW i \in 0..N
      PROVE  T(i) \in Seq(1..N) /\ Len(T(i)) = i /\ \A j \in 1..i : T(i)[j] = o[j]
  <2>1. \A j \in 1..i : o[j] \in 1..N
    BY <1>2
  <2> QED
    BY <2>1
<1>b. ASSUME NEW i \in 1..N
      PROVE  T(i) = Append(T(i - 1), o[i])
  <2>1. i \in 0..N /\ i - 1 \in 0..N
    OBVIOUS
  <2>2. /\ T(i) \in Seq(1..N) /\ Len(T(i)) = i /\ \A j \in 1..i : T(i)[j] = o[j]
        /\ T(i - 1) \in Seq(1..N) /\ Len(T(i - 1)) = i - 1 /\ \A j \in 1..(i - 1) : T(i - 1)[j] = o[j]
    BY <1>a, <2>1
  <2> HIDE DEF T
  <2>3. o[i] \in 1..N
    BY <1>2
  <2>4. PICK s \in Seq(1..N), e \in 1..N : s = T(i - 1) /\ e = o[i]
    BY <2>2, <2>3
  <2>5. /\ Append(s, e) \in Seq(1..N) /\ Len(Append(s, e)) = Len(s) + 1
        /\ \A j \in 1..Len(s) : Append(s, e)[j] = s[j]
        /\ Append(s, e)[Len(s) + 1] = e
    BY AppendProperties
  <2>6. PICK t \in Seq(1..N) : t = Append(s, e)
    BY <2>5
  <2>7. PICK u \in Seq(1..N) : u = T(i)
    BY <2>2
  <2>8. Len(t) = i /\ Len(u) = i
    BY <2>2, <2>4, <2>5, <2>6, <2>7
  <2>9. ASSUME NEW j \in 1..i PROVE t[j] = u[j]
    <3>1. u[j] = o[j]
      BY <2>2, <2>7
    <3>2. CASE j = i
      <4>1. Len(s) + 1 = i
        BY <2>2, <2>4
      <4> QED
        BY <2>4, <2>5, <2>6, <3>1, <3>2, <4>1
    <3>3. CASE j # i
      <4>1. j \in 1..(i - 1) /\ Len(s) = i - 1
        BY <2>2, <2>4, <3>3
      <4>2. t[j] = s[j] /\ s[j] = o[j]
        BY <2>2, <2>4, <2>5, <2>6, <4>1
      <4> QED
        BY <3>1, <4>2
    <3> QED
      BY <3>2, <3>3
  <2>10. t = u
    BY <2>8, <2>9, SeqEqual
  <2> QED
    BY <2>4, <2>6, <2>7, <2>10
<1>4. T(0) = << >>
  <2>1. 0 \in 0..N
    OBVIOUS
  <2>2. T(0) \in Seq(1..N) /\ Len(T(0)) = 0
    BY <1>a, <2>1
  <2> HIDE DEF T
  <2> QED
    BY <2>2, EmptySeq
<1>c. /\ N # 0 => c.lowest = o[1]
      /\ \A i \in 1..N : i # 1 => c.node[o[i - 1]].higher = o[i]
  <2>1. N # 0 => c.lowest = o[1]
    BY DEF Linked
  <2>2. ASSUME NEW i \in 1..N, i # 1 PROVE c.node[o[i - 1]].higher = o[i]
    <3>1. i - 1 \in 1..N /\ i - 1 # N /\ (i - 1) + 1 = i
      BY <2>2
    <3> QED
      BY <3>1 DEF Linked
  <2> QED
    BY <2>1, <2>2
<1>3. ASSUME NEW i \in 1..N, NEW f, f[i - 1] = T(i - 1) PROVE B(f, i) = T(i)
  <2>0. i # 0 /\ o[i] # NoNode /\ N # 0 /\ i - 1 \in 0..N
    BY <1>2 DEF NoNode
  <2>1. T(i) = Append(T(i - 1), o[i])
    BY <1>b
  <2>2. CASE i = 1
    <3>1. T(i - 1) = << >>
      BY <1>4, <2>2
    <3> HIDE DEF T
    <3> QED
      BY <1>3, <1>c, <2>0, <2>1, <2>2, <3>1
  <2>3. CASE i # 1
    <3>1. T(i - 1) \in Seq(1..N) /\ Len(T(i - 1)) = i - 1 /\ T(i - 1)[i - 1] = o[i - 1]
      <4>1. i - 1 \in 1..(i - 1)
        BY <2>3
      <4> QED
        BY <1>a, <2>0, <4>1
    <3> HIDE DEF T
    <3>2. T(i - 1) # << >> /\ Last(T(i - 1)) = o[i - 1]
      <4>1. Len(T(i - 1)) # 0
        BY <2>3, <3>1
      <4> QED
        BY <3>1, <4>1, EmptySeq DEF Last
    <3>3. c.node[Last(f[i - 1])].higher = o[i]
      BY <1>3, <1>c, <2>3, <3>2
    <3> QED
      BY <1>3, <2>0, <2>1, <3>2, <3>3
  <2> QED
    BY <2>2, <2>3
<1>5. \E f : R(f)
  <2> DEFINE g == [n \in 0..N |-> T(n)]
  <2>1. ASSUME NEW n \in 0..N PROVE g[n] = B(g, n)
    <3>1. CASE n = 0
      BY <1>4, <3>1
    <3>2. CASE n # 0
      <4>1. n \in 1..N /\ n - 1 \in 0..N
        BY <3>2
      <4>2. g[n] = T(n) /\ g[n - 1] = T(n - 1)
        BY <4>1
      <4> HIDE DEF g, B, T
      <4> QED
        BY <1>3, <4>1, <4>2
    <3> QED
      BY <3>1, <3>2
  <2>2. g = [n \in 0..N |-> g[n]]
    OBVIOUS
  <2> HIDE DEF B, g
  <2>3. R(g)
    BY <2>1, <2>2
  <2> HIDE DEF R
  <2> QED
    BY <2>3
<1>6. ASSUME NEW f, R(f) PROVE f[N] = T(N)
  <2> DEFINE S == {n \in 0..N : f[n] = T(n)}
  <2>0. \A n \in 0..N : f[n] = B(f, n)
    <3> HIDE DEF B
    <3> QED
      BY <1>6
  <2>1. 0 \in S
    <3>1. f[0] = B(f, 0) /\ 0 \in 0..N
      BY <2>0
    <3>2. B(f, 0) = << >>
      OBVIOUS
    <3> HIDE DEF T, B
    <3> QED
      BY <1>4, <3>1, <3>2
  <2> HIDE DEF B, T
  <2>2. ASSUME NEW i \in 0..(N - 1), i \in S PROVE i + 1 \in S
    <3>1. i + 1 \in 1..N /\ i + 1 \in 0..N /\ (i + 1) - 1 = i /\ f[i] = T(i)
      BY <2>2
    <3>2. f[i + 1] = T(i + 1)
      BY <1>3, <2>0, <3>1
    <3> QED
      BY <3>1, <3>2
  <2>3. \A n \in 0..N : n \in S
    <3> HIDE DEF S
    <3>1. \A i \in 0..(N - 1) : i \in S => i + 1 \in S
      BY <2>2
    <3> QED
      BY <2>1, <3>1, StepByStep, Zenon
  <2>4. N \in 0..N
    OBVIOUS
  <2> QED
    BY <2>3, <2>4
<1>7. R(CHOOSE f : R(f))
  <2> HIDE DEF R
  <2> QED
    BY <1>5
<1>8. T(N) = o
  BY <1>2
<1> HIDE DEF R, T
<1> QED
  BY <1>1, <1>6, <1>7, <1>8

LEMMA CachesAreExact ==
    ASSUME NEW c \in Caches
    PROVE  ListExact(c)
<1> DEFINE N == Len(c.node)
<1>1. MapLeads(c) /\ N \in Nat /\ \E o : OrderOf(o, N) /\ Linked(c, o, N)
  BY CacheIs
<1>2. PICK o : OrderOf(o, N) /\ Linked(c, o, N)
  BY <1>1
<1>3. Climbing(c) = o
  BY <1>1, <1>2, ClimbingIsOrder
<1> HIDE DEF N
<1>4. /\ o \in [1..N -> 1..N] /\ \A i, j \in 1..N : o[i] = o[j] => i = j
      /\ \A i \in 1..N : o[i] \in 1..N
  BY <1>2 DEF OrderOf
<1>5. o \in Seq(1..N) /\ Len(o) = N /\ DOMAIN o = 1..N
  BY <1>1, <1>4
<1>6. IsInjective(o)
  BY <1>4, <1>5 DEF IsInjective
<1>7. Len(o) > 0 => /\ c.highest = Last(o)
                    /\ c.node[c.highest].higher = NoNode /\ c.node[c.lowest].lower = NoNode
  <2>1. ASSUME N > 0
        PROVE  /\ c.highest = Last(o)
               /\ c.node[c.highest].higher = NoNode /\ c.node[c.lowest].lower = NoNode
    <3>1. N \in 1..N /\ 1 \in 1..N /\ N # 0
      BY <1>1, <2>1
    <3>2. c.highest = o[N] /\ c.lowest = o[1] /\ Last(o) = o[N]
      BY <1>2, <1>5, <3>1 DEF Linked, Last
    <3> QED
      BY <1>2, <3>1, <3>2 DEF Linked
  <2> QED
    BY <1>5, <2>1
<1>8. \A i \in 2..Len(o) : c.node[o[i]].lower = o[i - 1]
  <2>1. \A i \in 2..N : i \in 1..N /\ i # 1
    BY <1>1
  <2> QED
    BY <1>2, <1>5, <2>1 DEF Linked
<1>9. \A k \in DOMAIN c.map : c.node[c.map[k]].key = k
  BY <1>1 DEF MapLeads
<1>10. Len(o) = Len(c.node)
  BY <1>5 DEF N
<1> QED
  BY <1>3, <1>6, <1>7, <1>8, <1>9, <1>10 DEF ListExact

-----------------------------------------------------------------------------
(***************************************************************************)
(* The stack.  A stack s of the deal d is at a place (n, c) when its level *)
(* n is on top and c positions of that level's list were entered.          *)
(***************************************************************************)
WalkLevels == [state : Spots, next_states : Seq(Spots), idx : Nat]
Stacks == Seq(WalkLevels)

\* What the first m levels list, and the deal.
ListedBy(d, s, m) == {d} \cup UNION {ToSet(s[i].next_states) : i \in 1..m}
OpenBy(s, n) == {s[i].state : i \in 1..n}
\* What they list and is still to be entered.
AheadOf(s, n, c) ==
    {x \in Spots : \E i \in 1..n : \E j \in 1..Len(s[i].next_states) :
        j > (IF i = n THEN c ELSE s[i].idx) /\ x = s[i].next_states[j]}

\* D is what the search may be done with at that place: nothing is derived from D
\* and from the open positions but what is one of these or lies ahead.
Sound(d, s, n, c, D) ==
    /\ Won \notin D \cup OpenBy(s, n)
    /\ \A k \in D \cup OpenBy(s, n) :
          ToSet(Derived[k]) \subseteq D \cup OpenBy(s, n) \cup AheadOf(s, n, c)
    /\ ListedBy(d, s, n) \subseteq D \cup OpenBy(s, n) \cup AheadOf(s, n, c)

\* Each level has the list of its position, and is of the position that was last
\* entered from the level below.
Shape(d, s) ==
    /\ \A i \in 1..Len(s) :
          /\ s[i].idx \in 0..Len(s[i].next_states)
          /\ s[i].state \in Reached(d)
          /\ s[i].next_states = IF s[i].state = Won THEN << >>
                                ELSE Unlisted(ListedBy(d, s, i - 1), s[i].state)
    /\ Len(s) > 0 => s[1].state = d
    /\ \A i \in 1..Len(s) : i < Len(s) =>
          s[i].idx >= 1 /\ s[i + 1].state = s[i].next_states[s[i].idx]

\* Wherever the search was with the levels that the stack has, it was right.
Past(d, s) ==
    \A n \in 1..Len(s) : \A c \in 0..(s[n].idx - 1) : \E D \in SUBSET Spots : Sound(d, s, n, c, D)

EnteredAt(s, n) == IF n = 0 THEN 0 ELSE s[n].idx
Here(d, s, D) == Sound(d, s, Len(s), EnteredAt(s, Len(s)), D)

-----------------------------------------------------------------------------
\* Stacks whose first n levels are the same, but for how much of the last was entered.
Agree(s, t, n) ==
    /\ n <= Len(s) /\ n <= Len(t)
    /\ \A i \in 1..n : /\ s[i].state = t[i].state /\ s[i].next_states = t[i].next_states
                       /\ i < n => s[i].idx = t[i].idx

LEMMA StackLevel ==
    ASSUME NEW s \in Stacks, NEW i \in 1..Len(s)
    PROVE  /\ s[i] \in WalkLevels /\ s[i].state \in Spots /\ s[i].next_states \in Seq(Spots)
           /\ s[i].idx \in Nat /\ Len(s[i].next_states) \in Nat
           /\ \A j \in 1..Len(s[i].next_states) : s[i].next_states[j] \in Spots
           /\ ToSet(s[i].next_states) = {s[i].next_states[j] : j \in 1..Len(s[i].next_states)}
<1>1. s[i] \in WalkLevels
  BY DEF Stacks
<1>2. s[i].state \in Spots /\ s[i].next_states \in Seq(Spots) /\ s[i].idx \in Nat
  BY <1>1 DEF WalkLevels
<1>3. PICK list \in Seq(Spots) : list = s[i].next_states
  BY <1>2
<1>4. Len(list) \in Nat /\ (\A j \in 1..Len(list) : list[j] \in Spots) /\ DOMAIN list = 1..Len(list)
  OBVIOUS
<1>5. ToSet(list) = {list[j] : j \in 1..Len(list)}
  BY <1>4 DEF ToSet
<1> QED
  BY <1>1, <1>2, <1>3, <1>4, <1>5

LEMMA ListedAgrees ==
    ASSUME NEW d, NEW s, NEW t, NEW m \in Nat,
           \A i \in 1..m : s[i].next_states = t[i].next_states
    PROVE  ListedBy(d, s, m) = ListedBy(d, t, m)
<1>1. {ToSet(s[i].next_states) : i \in 1..m} = {ToSet(t[i].next_states) : i \in 1..m}
  OBVIOUS
<1> QED
  BY <1>1, Zenon DEF ListedBy

LEMMA SoundAgrees ==
    ASSUME NEW d, NEW s, NEW t, NEW n \in Nat, NEW c, NEW D, Agree(s, t, n), Sound(d, s, n, c, D)
    PROVE  Sound(d, t, n, c, D)
<1>1. \A i \in 1..n : /\ s[i].state = t[i].state /\ s[i].next_states = t[i].next_states
                      /\ i # n => s[i].idx = t[i].idx
  BY DEF Agree
<1>2. ListedBy(d, s, n) = ListedBy(d, t, n)
  BY <1>1, ListedAgrees
<1>3. OpenBy(s, n) = OpenBy(t, n)
  BY <1>1 DEF OpenBy
<1>4. AheadOf(s, n, c) = AheadOf(t, n, c)
  BY <1>1 DEF AheadOf
<1> QED
  BY <1>2, <1>3, <1>4 DEF Sound

\* The lists of a level more.
LEMMA ListedByMore ==
    ASSUME NEW d, NEW s, NEW n \in Nat
    PROVE  ListedBy(d, s, n + 1) = ListedBy(d, s, n) \cup ToSet(s[n + 1].next_states)
<1>1. 1..(n + 1) = (1..n) \cup {n + 1}
  OBVIOUS
<1>2. {ToSet(s[i].next_states) : i \in 1..(n + 1)}
        = {ToSet(s[i].next_states) : i \in 1..n} \cup {ToSet(s[n + 1].next_states)}
  BY <1>1
<1> QED
  BY <1>2 DEF ListedBy

LEMMA OpenByMore ==
    ASSUME NEW s, NEW n \in Nat
    PROVE  OpenBy(s, n + 1) = OpenBy(s, n) \cup {s[n + 1].state}
<1>1. 1..(n + 1) = (1..n) \cup {n + 1}
  OBVIOUS
<1> QED
  BY <1>1 DEF OpenBy

\* What lies ahead with a level more on top, and with the next of a list entered.
LEMMA AheadWithLevel ==
    ASSUME NEW t \in Stacks, NEW n \in Nat, n + 1 \in 1..Len(t)
    PROVE  AheadOf(t, n + 1, 0) = AheadOf(t, n, EnteredAt(t, n)) \cup ToSet(t[n + 1].next_states)
<1> DEFINE e == t[n + 1].next_states
<1>1. /\ \A i \in 1..n : i # n + 1
      /\ 1..(n + 1) = (1..n) \cup {n + 1}
      /\ \A i \in 1..n : (IF i = n THEN EnteredAt(t, n) ELSE t[i].idx) = t[i].idx
  BY DEF EnteredAt
<1>2. ToSet(e) = {e[j] : j \in 1..Len(e)} /\ (\A j \in 1..Len(e) : e[j] \in Spots) /\ Len(e) \in Nat
  BY StackLevel
<1> HIDE DEF e
<1>3. ASSUME NEW x \in Spots
      PROVE  x \in AheadOf(t, n + 1, 0) <=> x \in AheadOf(t, n, EnteredAt(t, n)) \cup ToSet(e)
  <2>1. x \in AheadOf(t, n + 1, 0)
        <=> \E i \in 1..(n + 1) : \E j \in 1..Len(t[i].next_states) :
                j > (IF i = n + 1 THEN 0 ELSE t[i].idx) /\ x = t[i].next_states[j]
    BY DEF AheadOf
  <2>2. x \in AheadOf(t, n, EnteredAt(t, n))
        <=> \E i \in 1..n : \E j \in 1..Len(t[i].next_states) :
                j > t[i].idx /\ x = t[i].next_states[j]
    BY <1>1 DEF AheadOf
  <2>3. x \in ToSet(e) <=> \E j \in 1..Len(e) : j > 0 /\ x = e[j]
    BY <1>2
  <2>4. (\E i \in 1..(n + 1) : \E j \in 1..Len(t[i].next_states) :
            j > (IF i = n + 1 THEN 0 ELSE t[i].idx) /\ x = t[i].next_states[j])
        <=> \/ \E i \in 1..n : \E j \in 1..Len(t[i].next_states) :
                  j > t[i].idx /\ x = t[i].next_states[j]
            \/ \E j \in 1..Len(e) : j > 0 /\ x = e[j]
    BY <1>1 DEF e
  <2> QED
    BY <2>1, <2>2, <2>3, <2>4
<1>4. AheadOf(t, n + 1, 0) \subseteq Spots /\ AheadOf(t, n, EnteredAt(t, n)) \subseteq Spots
  BY DEF AheadOf
<1>5. ToSet(e) \subseteq Spots
  BY <1>2
<1> QED
  BY <1>3, <1>4, <1>5 DEF e

LEMMA AheadWithoutNext ==
    ASSUME NEW s \in Stacks, NEW n \in 1..Len(s), NEW c \in 1..Len(s[n].next_states)
    PROVE  AheadOf(s, n, c - 1) = AheadOf(s, n, c) \cup {s[n].next_states[c]}
<1> DEFINE e == s[n].next_states
<1>0. Len(e) \in Nat /\ e[c] \in Spots
  BY StackLevel
<1>1. ASSUME NEW x \in AheadOf(s, n, c - 1) PROVE x \in AheadOf(s, n, c) \/ x = e[c]
  <2>1. PICK i \in 1..n : \E j \in 1..Len(s[i].next_states) :
           j > (IF i = n THEN c - 1 ELSE s[i].idx) /\ x = s[i].next_states[j]
    BY <1>1 DEF AheadOf
  <2>2. PICK j \in 1..Len(s[i].next_states) :
           j > (IF i = n THEN c - 1 ELSE s[i].idx) /\ x = s[i].next_states[j]
    BY <2>1
  <2>3. CASE i = n /\ j = c
    BY <2>2, <2>3
  <2>4. CASE ~(i = n /\ j = c)
    <3>1. j > (IF i = n THEN c ELSE s[i].idx)
      BY <1>0, <2>2, <2>4
    <3>2. x \in Spots
      BY <1>1 DEF AheadOf
    <3> QED
      BY <2>2, <3>1, <3>2 DEF AheadOf
  <2> QED
    BY <2>3, <2>4
<1>2. ASSUME NEW x \in AheadOf(s, n, c) PROVE x \in AheadOf(s, n, c - 1)
  <2>1. PICK i \in 1..n : \E j \in 1..Len(s[i].next_states) :
           j > (IF i = n THEN c ELSE s[i].idx) /\ x = s[i].next_states[j]
    BY <1>2 DEF AheadOf
  <2>2. PICK j \in 1..Len(s[i].next_states) :
           j > (IF i = n THEN c ELSE s[i].idx) /\ x = s[i].next_states[j]
    BY <2>1
  <2>3. j > (IF i = n THEN c - 1 ELSE s[i].idx)
    <3>1. CASE i = n
      BY <1>0, <2>2, <3>1
    <3>2. CASE i # n
      BY <2>2, <3>2
    <3> QED
      BY <3>1, <3>2
  <2>4. x \in Spots
    BY <1>2 DEF AheadOf
  <2> QED
    BY <2>2, <2>3, <2>4 DEF AheadOf
<1>3. e[c] \in AheadOf(s, n, c - 1)
  <2>1. n \in 1..n /\ c \in 1..Len(s[n].next_states) /\ c > c - 1
    BY <1>0
  <2> QED
    BY <1>0, <2>1 DEF AheadOf
<1> QED
  BY <1>1, <1>2, <1>3

LEMMA AheadAtEnd ==
    ASSUME NEW s \in Stacks, NEW n \in Nat, n + 1 \in 1..Len(s)
    PROVE  AheadOf(s, n + 1, Len(s[n + 1].next_states)) = AheadOf(s, n, EnteredAt(s, n))
<1> DEFINE m == Len(s[n + 1].next_states)
<1>1. /\ m \in Nat
      /\ \A i \in 1..n : i # n + 1 /\ i \in 1..(n + 1)
      /\ \A i \in 1..(n + 1) : i = n + 1 \/ i \in 1..n
      /\ \A i \in 1..n : (IF i = n THEN EnteredAt(s, n) ELSE s[i].idx) = s[i].idx
  BY StackLevel DEF EnteredAt
<1>2. ASSUME NEW x \in AheadOf(s, n + 1, m) PROVE x \in AheadOf(s, n, EnteredAt(s, n))
  <2>1. PICK i \in 1..(n + 1) : \E j \in 1..Len(s[i].next_states) :
           j > (IF i = n + 1 THEN m ELSE s[i].idx) /\ x = s[i].next_states[j]
    BY <1>2 DEF AheadOf
  <2>2. PICK j \in 1..Len(s[i].next_states) :
           j > (IF i = n + 1 THEN m ELSE s[i].idx) /\ x = s[i].next_states[j]
    BY <2>1
  <2>3. i # n + 1
    BY <1>1, <2>2
  <2>4. x \in Spots
    BY <1>2 DEF AheadOf
  <2>5. i \in 1..n /\ j > s[i].idx
    BY <1>1, <2>2, <2>3
  <2> QED
    BY <1>1, <2>2, <2>4, <2>5 DEF AheadOf
<1>3. ASSUME NEW x \in AheadOf(s, n, EnteredAt(s, n)) PROVE x \in AheadOf(s, n + 1, m)
  <2>1. PICK i \in 1..n : \E j \in 1..Len(s[i].next_states) :
           j > s[i].idx /\ x = s[i].next_states[j]
    BY <1>1, <1>3 DEF AheadOf
  <2>2. x \in Spots
    BY <1>3 DEF AheadOf
  <2>3. i \in 1..(n + 1) /\ i # n + 1
    BY <1>1
  <2> QED
    BY <2>1, <2>2, <2>3 DEF AheadOf
<1> QED
  BY <1>2, <1>3

-----------------------------------------------------------------------------
(***************************************************************************)
(* How a stack changes: positions of the list on top are entered up to     *)
(* place c, a level is put on top, the level on top is taken off.          *)
(***************************************************************************)
MarkedAt(t, s, n, c) ==
    /\ t \in Stacks /\ Len(t) = Len(s)
    /\ \A i \in 1..Len(s) : /\ t[i].state = s[i].state /\ t[i].next_states = s[i].next_states
                            /\ t[i].idx = IF i = n THEN c ELSE s[i].idx
LEMMA Marking ==
    ASSUME NEW s \in Stacks, NEW n \in 1..Len(s), NEW c \in Nat
    PROVE  MarkedAt([s EXCEPT ![n].idx = c], s, n, c)
<1> DEFINE e == [s[n] EXCEPT !.idx = c]
           t == [s EXCEPT ![n] = e]
<1>0. s \in Seq(WalkLevels)
  BY DEF Stacks
<1>1. s[n] \in WalkLevels
  BY <1>0, ElementOfSeq
<1>2. e \in WalkLevels /\ e.state = s[n].state /\ e.next_states = s[n].next_states /\ e.idx = c
  BY <1>1 DEF WalkLevels
<1>5. [s EXCEPT ![n].idx = c] = t
  OBVIOUS
<1> HIDE DEF e
<1>3. /\ t \in Seq(WalkLevels) /\ Len(t) = Len(s)
      /\ \A m \in 1..Len(s) : t[m] = IF m = n THEN e ELSE s[m]
  BY <1>0, <1>2, ExceptSeq
<1> HIDE DEF t
<1>4. \A i \in 1..Len(s) : /\ t[i].state = s[i].state /\ t[i].next_states = s[i].next_states
                           /\ t[i].idx = IF i = n THEN c ELSE s[i].idx
  BY <1>2, <1>3
<1> QED
  BY <1>3, <1>4, <1>5 DEF MarkedAt, Stacks

\* A level that was put on top of s.
PushedOn(t, s, l) ==
    /\ t \in Stacks /\ Len(t) = Len(s) + 1 /\ t[Len(s) + 1] = l
    /\ \A i \in 1..Len(s) : t[i] = s[i]
LEMMA Pushing ==
    ASSUME NEW s \in Stacks, NEW l \in WalkLevels
    PROVE  PushedOn(Append(s, l), s, l)
BY AppendProperties DEF PushedOn, Stacks

LEMMA Popping ==
    ASSUME NEW s \in Stacks, Len(s) > 0
    PROVE  PushedOn(s, Front(s), s[Len(s)]) /\ Front(s) \in Stacks /\ Len(Front(s)) = Len(s) - 1
<1>0. s \in Seq(WalkLevels) /\ Len(s) \in Nat
  BY DEF Stacks
<1>1. Front(s) = SubSeq(s, 1, Len(s) - 1)
  BY DEF Front
<1>2. /\ SubSeq(s, 1, Len(s) - 1) \in Seq(WalkLevels)
      /\ Len(SubSeq(s, 1, Len(s) - 1)) = Len(s) - 1
      /\ \A i \in 1..(Len(s) - 1) : SubSeq(s, 1, Len(s) - 1)[i] = s[i]
  <2>1. PICK n \in Nat : n = Len(s) - 1
    BY <1>0
  <2>2. 1 \in Int /\ n \in Int /\ \A i \in 1..n : s[i] \in WalkLevels
    BY <1>0, <2>1
  <2>3. /\ SubSeq(s, 1, n) \in Seq(WalkLevels)
        /\ Len(SubSeq(s, 1, n)) = IF 1 <= n THEN n - 1 + 1 ELSE 0
        /\ \A i \in 1..(n - 1 + 1) : SubSeq(s, 1, n)[i] = s[1 + i - 1]
    BY <2>2, SubSeqProperties
  <2>4. Len(SubSeq(s, 1, n)) = n
    BY <2>3
  <2>5. \A i \in 1..n : i \in 1..(n - 1 + 1) /\ 1 + i - 1 = i
    OBVIOUS
  <2>6. \A i \in 1..n : SubSeq(s, 1, n)[i] = s[i]
    BY <2>3, <2>5
  <2> QED
    BY <2>1, <2>3, <2>4, <2>6
<1> QED
  BY <1>0, <1>1, <1>2 DEF PushedOn, Stacks

\* The positions of the stack are listed below them, and each level lists others
\* than those below it.
LEMMA ShapeFacts ==
    ASSUME NEW d \in Spots, NEW s \in Stacks, Shape(d, s), NEW i \in 1..Len(s)
    PROVE  /\ s[i].state \in Reached(d) /\ s[i].state \in ListedBy(d, s, i - 1)
           /\ ToSet(s[i].next_states) \cap ListedBy(d, s, i - 1) = {}
           /\ s[i].state # Won => ToSet(Derived[s[i].state]) \subseteq ListedBy(d, s, i)
           /\ s[i].idx >= 1 => s[i].state # Won
           /\ \A a, b \in 1..Len(s[i].next_states) :
                 s[i].next_states[a] = s[i].next_states[b] => a = b
<1> DEFINE k == s[i].state
           e == s[i].next_states
           store == ListedBy(d, s, i - 1)
<1>0. k \in Spots /\ Len(s) \in Nat /\ i - 1 \in Nat /\ i - 1 \in 0..Len(s)
  <2>1. Len(s) \in Nat
    BY DEF Stacks
  <2> QED
    BY <2>1, StackLevel
<1>1. /\ s[i].idx \in 0..Len(e) /\ k \in Reached(d)
      /\ e = IF k = Won THEN << >> ELSE Unlisted(store, k)
  BY DEF Shape
<1>2. k \in store
  <2>1. CASE i = 1
    <3>1. k = d
      BY <1>0, <2>1 DEF Shape
    <3> QED
      BY <3>1 DEF ListedBy
  <2>2. CASE i # 1
    <3>1. PICK h \in 1..Len(s) : h = i - 1 /\ h < Len(s) /\ h + 1 = i
      BY <1>0, <2>2
    <3>2. s[h].idx >= 1 /\ s[h + 1].state = s[h].next_states[s[h].idx] /\ s[h].idx \in 0..Len(s[h].next_states)
      BY <3>1 DEF Shape
    <3>3. /\ ToSet(s[h].next_states) = {s[h].next_states[j] : j \in 1..Len(s[h].next_states)}
          /\ Len(s[h].next_states) \in Nat
      BY StackLevel
    <3>4. s[h].idx \in 1..Len(s[h].next_states)
      BY <3>2, <3>3
    <3>5. k \in ToSet(s[h].next_states)
      BY <3>1, <3>2, <3>3, <3>4
    <3>6. h \in 1..(i - 1)
      BY <3>1
    <3> QED
      BY <3>5, <3>6 DEF ListedBy
  <2> QED
    BY <2>1, <2>2
<1>3. CASE k = Won
  <2>1. e = << >>
    BY <1>1, <1>3
  <2>2. ToSet(<< >>) = {} /\ Len(<< >>) = 0
    BY EmptySeq DEF ToSet
  <2>3. ToSet(e) = {} /\ Len(e) = 0
    BY <2>1, <2>2
  <2>4. s[i].idx = 0
    BY <1>1, <2>3
  <2> HIDE DEF e
  <2>5. \A a, b \in 1..Len(e) : e[a] = e[b] => a = b
    BY <2>3
  <2> QED
    BY <1>1, <1>2, <1>3, <2>3, <2>4, <2>5 DEF e
<1>4. CASE k # Won
  <2>1. e = Unlisted(store, k)
    BY <1>1, <1>4
  <2>2. /\ ToSet(e) = ToSet(Derived[k]) \ store
        /\ \A a, b \in 1..Len(e) : e[a] = e[b] => a = b
    BY <1>0, <2>1, UnlistedIs
  <2>3. ListedBy(d, s, i) = store \cup ToSet(e)
    <3>1. (i - 1) + 1 = i
      OBVIOUS
    <3> QED
      BY <1>0, <3>1, ListedByMore
  <2> HIDE DEF k, e, store
  <2>4. ToSet(Derived[k]) \subseteq ListedBy(d, s, i) /\ ToSet(e) \cap store = {}
    BY <2>2, <2>3
  <2> QED
    BY <1>1, <1>2, <1>4, <2>2, <2>4 DEF k, e, store
<1> QED
  BY <1>3, <1>4

LEMMA ListedGrows ==
    ASSUME NEW d, NEW s, NEW i \in Nat, NEW j \in Nat, i <= j
    PROVE  ListedBy(d, s, i) \subseteq ListedBy(d, s, j)
<1>1. \A m \in 1..i : m \in 1..j
  OBVIOUS
<1> QED
  BY <1>1 DEF ListedBy

\* The first levels of a stack are a stack: its shape and its past are theirs, and
\* back.
LEMMA ShapeOfPushed ==
    ASSUME NEW d \in Spots, NEW s \in Stacks, NEW t \in Stacks, NEW l \in WalkLevels,
           PushedOn(t, s, l), Shape(d, s),
           l.idx = 0, l.state \in Reached(d),
           l.next_states = IF l.state = Won THEN << >> ELSE Unlisted(ListedBy(d, s, Len(s)), l.state),
           Len(s) = 0 => l.state = d,
           Len(s) > 0 => s[Len(s)].idx >= 1 /\ l.state = s[Len(s)].next_states[s[Len(s)].idx]
    PROVE  Shape(d, t)
<1> DEFINE n == Len(s)
<1>0. n \in Nat /\ Len(t) = n + 1 /\ t[n + 1] = l /\ \A i \in 1..n : t[i] = s[i]
  BY DEF PushedOn, Stacks
<1> HIDE DEF n
<1>1. ASSUME NEW m \in 0..n PROVE ListedBy(d, t, m) = ListedBy(d, s, m)
  <2>1. \A i \in 1..m : t[i].next_states = s[i].next_states
    BY <1>0, <1>1
  <2> QED
    BY <2>1, ListedAgrees
<1>2. ASSUME NEW i \in 1..(n + 1)
      PROVE  /\ t[i].idx \in 0..Len(t[i].next_states)
             /\ t[i].state \in Reached(d)
             /\ t[i].next_states = IF t[i].state = Won THEN << >>
                                   ELSE Unlisted(ListedBy(d, t, i - 1), t[i].state)
  <2>1. CASE i = n + 1
    <3>1. Len(l.next_states) \in Nat
      BY DEF WalkLevels
    <3>2. i - 1 = n /\ n \in 0..n
      BY <1>0, <2>1
    <3>3. ListedBy(d, t, i - 1) = ListedBy(d, s, n)
      BY <1>1, <3>2
    <3> QED
      BY <1>0, <2>1, <3>1, <3>3 DEF n
  <2>2. CASE i # n + 1
    <3>1. i \in 1..n /\ i - 1 \in 0..n
      BY <1>0, <2>2
    <3>2. t[i] = s[i] /\ ListedBy(d, t, i - 1) = ListedBy(d, s, i - 1)
      BY <1>0, <1>1, <3>1
    <3> QED
      BY <3>1, <3>2 DEF Shape, n
  <2> QED
    BY <2>1, <2>2
<1>3. t[1].state = d
  <2>1. CASE n = 0
    BY <1>0, <2>1 DEF n
  <2>2. CASE n # 0
    <3>1. 1 \in 1..n /\ n > 0
      BY <1>0, <2>2
    <3> QED
      BY <1>0, <3>1 DEF Shape, n
  <2> QED
    BY <2>1, <2>2
<1>4. ASSUME NEW i \in 1..(n + 1), i < n + 1
      PROVE  t[i].idx >= 1 /\ t[i + 1].state = t[i].next_states[t[i].idx]
  <2>1. i \in 1..n
    BY <1>0, <1>4
  <2>2. CASE i = n
    <3>1. n > 0 /\ t[n] = s[n] /\ t[i + 1] = l
      BY <1>0, <2>1, <2>2
    <3> QED
      BY <2>2, <3>1 DEF n
  <2>3. CASE i # n
    <3>1. i < n /\ i + 1 \in 1..n
      BY <1>0, <2>1, <2>3
    <3>2. s[i].idx >= 1 /\ s[i + 1].state = s[i].next_states[s[i].idx]
      BY <2>1, <3>1 DEF Shape, n
    <3> QED
      BY <1>0, <2>1, <3>1, <3>2
  <2> QED
    BY <2>2, <2>3
<1> QED
  BY <1>0, <1>2, <1>3, <1>4 DEF Shape

LEMMA ShapeOfPopped ==
    ASSUME NEW d \in Spots, NEW s \in Stacks, NEW t \in Stacks, NEW l,
           PushedOn(t, s, l), Shape(d, t)
    PROVE  Shape(d, s)
<1> DEFINE n == Len(s)
<1>0. n \in Nat /\ Len(t) = n + 1 /\ \A i \in 1..n : t[i] = s[i]
  BY DEF PushedOn, Stacks
<1> HIDE DEF n
<1>1. ASSUME NEW m \in 0..n PROVE ListedBy(d, t, m) = ListedBy(d, s, m)
  <2>1. \A i \in 1..m : t[i].next_states = s[i].next_states
    BY <1>0, <1>1
  <2> QED
    BY <2>1, ListedAgrees
<1>2. ASSUME NEW i \in 1..n
      PROVE  /\ s[i].idx \in 0..Len(s[i].next_states)
             /\ s[i].state \in Reached(d)
             /\ s[i].next_states = IF s[i].state = Won THEN << >>
                                   ELSE Unlisted(ListedBy(d, s, i - 1), s[i].state)
             /\ i < n => s[i].idx >= 1 /\ s[i + 1].state = s[i].next_states[s[i].idx]
  <2>1. i \in 1..Len(t) /\ i - 1 \in 0..n /\ t[i] = s[i] /\ i < Len(t)
        /\ (i < n => i + 1 \in 1..n /\ t[i + 1] = s[i + 1])
    BY <1>0
  <2>2. ListedBy(d, t, i - 1) = ListedBy(d, s, i - 1)
    BY <1>1, <2>1
  <2>3. /\ t[i].idx \in 0..Len(t[i].next_states)
        /\ t[i].state \in Reached(d)
        /\ t[i].next_states = IF t[i].state = Won THEN << >>
                              ELSE Unlisted(ListedBy(d, t, i - 1), t[i].state)
        /\ t[i].idx >= 1 /\ t[i + 1].state = t[i].next_states[t[i].idx]
    BY <2>1 DEF Shape
  <2> QED
    BY <2>1, <2>2, <2>3
<1>3. n > 0 => s[1].state = d
  <2>1. n > 0 => 1 \in 1..n /\ Len(t) > 0
    BY <1>0
  <2> QED
    BY <1>0, <2>1 DEF Shape
<1> QED
  BY <1>2, <1>3 DEF Shape, n

LEMMA ShapeOfMarked ==
    ASSUME NEW d \in Spots, NEW s \in Stacks, NEW t \in Stacks, NEW c \in Nat, Len(s) > 0,
           MarkedAt(t, s, Len(s), c), Shape(d, s), c <= Len(s[Len(s)].next_states)
    PROVE  Shape(d, t)
<1> DEFINE n == Len(s)
<1>0. /\ n \in Nat /\ n > 0 /\ Len(t) = n
      /\ \A i \in 1..n : /\ t[i].state = s[i].state /\ t[i].next_states = s[i].next_states
                         /\ t[i].idx = IF i = n THEN c ELSE s[i].idx
  BY DEF MarkedAt, Stacks
<1> HIDE DEF n
<1>1. ASSUME NEW m \in 0..n PROVE ListedBy(d, t, m) = ListedBy(d, s, m)
  <2>1. \A i \in 1..m : t[i].next_states = s[i].next_states
    BY <1>0, <1>1
  <2> QED
    BY <2>1, ListedAgrees
<1>2. ASSUME NEW i \in 1..n
      PROVE  /\ t[i].idx \in 0..Len(t[i].next_states)
             /\ t[i].state \in Reached(d)
             /\ t[i].next_states = IF t[i].state = Won THEN << >>
                                   ELSE Unlisted(ListedBy(d, t, i - 1), t[i].state)
             /\ i < n => t[i].idx >= 1 /\ t[i + 1].state = t[i].next_states[t[i].idx]
  <2>1. i - 1 \in 0..n /\ (i < n => i + 1 \in 1..n)
    BY <1>0
  <2>2. ListedBy(d, t, i - 1) = ListedBy(d, s, i - 1)
    BY <1>1, <2>1
  <2>3. /\ s[i].idx \in 0..Len(s[i].next_states)
        /\ s[i].state \in Reached(d)
        /\ s[i].next_states = IF s[i].state = Won THEN << >>
                              ELSE Unlisted(ListedBy(d, s, i - 1), s[i].state)
        /\ i < n => s[i].idx >= 1 /\ s[i + 1].state = s[i].next_states[s[i].idx]
    BY DEF Shape, n
  <2>4. t[i].idx \in 0..Len(t[i].next_states)
    <3>1. c \in 0..Len(s[n].next_states)
      <4>1. n \in 1..Len(s)
        BY <1>0 DEF n
      <4>2. Len(s[n].next_states) \in Nat
        BY <4>1, StackLevel
      <4> QED
        BY <4>2 DEF n
    <3> QED
      BY <1>0, <2>3, <3>1
  <2> QED
    BY <1>0, <2>1, <2>2, <2>3, <2>4
<1>3. t[1].state = d
  <2>1. 1 \in 1..n
    BY <1>0
  <2> QED
    BY <1>0, <2>1 DEF Shape, n
<1> QED
  BY <1>0, <1>2, <1>3 DEF Shape

\* The past of a stack is that of its levels.
LEMMA PushedAgrees ==
    ASSUME NEW s \in Stacks, NEW t, NEW l, PushedOn(t, s, l), NEW n \in 0..Len(s)
    PROVE  Agree(t, s, n) /\ Agree(s, t, n)
<1>1. Len(s) \in Nat /\ Len(t) = Len(s) + 1 /\ \A i \in 1..Len(s) : t[i] = s[i]
  BY DEF PushedOn, Stacks
<1> QED
  BY <1>1 DEF Agree

LEMMA MarkedAgrees ==
    ASSUME NEW s \in Stacks, NEW t, NEW c, NEW m \in 0..Len(s), NEW n \in 0..m, MarkedAt(t, s, m, c)
    PROVE  Agree(t, s, n) /\ Agree(s, t, n)
<1>1. /\ Len(s) \in Nat /\ Len(t) = Len(s)
      /\ \A i \in 1..Len(s) : /\ t[i].state = s[i].state /\ t[i].next_states = s[i].next_states
                              /\ t[i].idx = IF i = m THEN c ELSE s[i].idx
  BY DEF MarkedAt, Stacks
<1>2. \A i \in 1..n : i \in 1..Len(s) /\ (i < n => i # m)
  BY <1>1
<1> QED
  BY <1>1, <1>2 DEF Agree

LEMMA PastOfPopped ==
    ASSUME NEW d, NEW s \in Stacks, NEW t, NEW l, PushedOn(t, s, l), Past(d, t)
    PROVE  Past(d, s)
<1>0. Len(s) \in Nat /\ Len(t) = Len(s) + 1 /\ \A i \in 1..Len(s) : t[i] = s[i]
  BY DEF PushedOn, Stacks
<1>1. ASSUME NEW n \in 1..Len(s), NEW c \in 0..(s[n].idx - 1)
      PROVE  \E D \in SUBSET Spots : Sound(d, s, n, c, D)
  <2>1. n \in 1..Len(t) /\ c \in 0..(t[n].idx - 1) /\ n \in 0..Len(s) /\ n \in Nat
    BY <1>0
  <2>2. PICK D \in SUBSET Spots : Sound(d, t, n, c, D)
    BY <2>1 DEF Past
  <2>3. Agree(t, s, n)
    BY <2>1, PushedAgrees
  <2>4. Sound(d, s, n, c, D)
    BY <2>1, <2>2, <2>3, SoundAgrees
  <2> QED
    BY <2>4
<1> QED
  BY <1>1 DEF Past

LEMMA PastOfPushed ==
    ASSUME NEW d, NEW s \in Stacks, NEW t, NEW l, PushedOn(t, s, l), l.idx = 0, Past(d, s)
    PROVE  Past(d, t)
<1>0. Len(s) \in Nat /\ Len(t) = Len(s) + 1 /\ t[Len(s) + 1] = l /\ \A i \in 1..Len(s) : t[i] = s[i]
  BY DEF PushedOn, Stacks
<1>1. ASSUME NEW n \in 1..Len(t), NEW c \in 0..(t[n].idx - 1)
      PROVE  \E D \in SUBSET Spots : Sound(d, t, n, c, D)
  <2>0. n # Len(s) + 1
    <3>1. ASSUME n = Len(s) + 1 PROVE FALSE
      <4>1. t[n].idx = 0
        BY <1>0, <3>1
      <4> QED
        BY <4>1
    <3> QED
      BY <3>1
  <2>1. n \in 1..Len(s) /\ n \in 0..Len(s) /\ n \in Nat
    BY <1>0, <2>0
  <2>a. c \in 0..(s[n].idx - 1)
    BY <1>0, <2>1
  <2>2. PICK D \in SUBSET Spots : Sound(d, s, n, c, D)
    BY <2>1, <2>a DEF Past
  <2>3. Agree(s, t, n)
    BY <2>1, PushedAgrees
  <2>4. Sound(d, t, n, c, D)
    BY <2>1, <2>2, <2>3, SoundAgrees
  <2> QED
    BY <2>4
<1> QED
  BY <1>1 DEF Past

LEMMA PastOfMarked ==
    ASSUME NEW d, NEW s \in Stacks, NEW t, NEW c \in Nat, Len(s) > 0,
           MarkedAt(t, s, Len(s), c), Past(d, s),
           \A b \in 0..(c - 1) : \E D \in SUBSET Spots : Sound(d, s, Len(s), b, D)
    PROVE  Past(d, t)
<1> DEFINE m == Len(s)
<1>0. /\ m \in Nat /\ m > 0 /\ Len(t) = m
      /\ \A i \in 1..m : t[i].idx = IF i = m THEN c ELSE s[i].idx
  BY DEF MarkedAt, Stacks
<1>1. ASSUME NEW n \in 1..m, NEW b \in 0..(t[n].idx - 1)
      PROVE  \E D \in SUBSET Spots : Sound(d, t, n, b, D)
  <2>1. \E D \in SUBSET Spots : Sound(d, s, n, b, D)
    <3>1. CASE n = m
      <4>1. b \in 0..(c - 1)
        BY <1>0, <3>1
      <4> QED
        BY <3>1, <4>1
    <3>2. CASE n # m
      <4>1. b \in 0..(s[n].idx - 1)
        BY <1>0, <3>2
      <4> QED
        BY <4>1 DEF Past
    <3> QED
      BY <3>1, <3>2
  <2>2. PICK D \in SUBSET Spots : Sound(d, s, n, b, D)
    BY <2>1
  <2>3. m \in 0..Len(s) /\ n \in 0..m /\ n \in Nat
    BY <1>0
  <2>4. Agree(s, t, n)
    BY <2>3, MarkedAgrees
  <2>5. Sound(d, t, n, b, D)
    BY <2>2, <2>3, <2>4, SoundAgrees
  <2> QED
    BY <2>5
<1> QED
  BY <1>0, <1>1 DEF Past

-----------------------------------------------------------------------------
\* What is open and what lies ahead was listed.
LEMMA OpenIsListed ==
    ASSUME NEW d \in Spots, NEW s \in Stacks, Shape(d, s), NEW n \in 0..Len(s), NEW c
    PROVE  OpenBy(s, n) \subseteq ListedBy(d, s, n) /\ AheadOf(s, n, c) \subseteq ListedBy(d, s, n)
<1>0. Len(s) \in Nat
  BY DEF Stacks
<1>1. ASSUME NEW i \in 1..n PROVE s[i].state \in ListedBy(d, s, n)
  <2>1. i \in 1..Len(s) /\ i - 1 \in Nat /\ n \in Nat /\ i - 1 <= n
    BY <1>0
  <2>2. s[i].state \in ListedBy(d, s, i - 1)
    BY <2>1, ShapeFacts
  <2>3. ListedBy(d, s, i - 1) \subseteq ListedBy(d, s, n)
    BY <2>1, ListedGrows
  <2> QED
    BY <2>2, <2>3
<1>2. ASSUME NEW x \in AheadOf(s, n, c) PROVE x \in ListedBy(d, s, n)
  <2>1. PICK i \in 1..n : \E j \in 1..Len(s[i].next_states) : x = s[i].next_states[j]
    BY DEF AheadOf
  <2>2. PICK j \in 1..Len(s[i].next_states) : x = s[i].next_states[j]
    BY <2>1
  <2>3. i \in 1..Len(s)
    BY <1>0
  <2>4. ToSet(s[i].next_states) = {s[i].next_states[h] : h \in 1..Len(s[i].next_states)}
    BY <2>3, StackLevel
  <2>5. x \in ToSet(s[i].next_states)
    BY <2>2, <2>4
  <2> QED
    BY <2>5 DEF ListedBy
<1> QED
  BY <1>1, <1>2 DEF OpenBy

\* The next of the list on top is entered, and a level is put on top for it.
LEMMA SoundOfEntered ==
    ASSUME NEW d \in Spots, NEW s \in Stacks, NEW t \in Stacks, NEW u \in Stacks, NEW l, NEW D, Len(s) > 0,
           NEW c \in 1..Len(s[Len(s)].next_states),
           MarkedAt(t, s, Len(s), c), PushedOn(u, t, l), Shape(d, u),
           l.state = s[Len(s)].next_states[c], l.state # Won,
           Sound(d, s, Len(s), c - 1, D)
    PROVE  Sound(d, u, Len(u), 0, D)
<1> DEFINE n == Len(s)
           A == AheadOf(s, n, c)
           O == OpenBy(s, n)
           e == ToSet(l.next_states)
<1>0. /\ n \in Nat /\ n > 0 /\ Len(t) = n /\ Len(u) = n + 1 /\ u[n + 1] = l
      /\ \A i \in 1..n : u[i] = t[i]
  BY DEF MarkedAt, PushedOn, Stacks
<1>1. n \in 1..n /\ n \in 0..n /\ n + 1 \in 1..(n + 1) /\ n + 1 \in 0..(n + 1)
  BY <1>0
<1>a. \A i \in 1..n : /\ t[i].state = s[i].state /\ t[i].next_states = s[i].next_states
                      /\ t[i].idx = IF i = n THEN c ELSE s[i].idx
  BY DEF MarkedAt
<1>2. Agree(s, u, n)
  BY <1>0, <1>a DEF Agree
<1> HIDE DEF n
<1>3. ListedBy(d, s, n) = ListedBy(d, u, n) /\ OpenBy(s, n) = OpenBy(u, n)
      /\ AheadOf(s, n, c) = AheadOf(u, n, c)
  <2>1. \A i \in 1..n : /\ s[i].state = u[i].state /\ s[i].next_states = u[i].next_states
                        /\ i # n => s[i].idx = u[i].idx
    BY <1>0, <1>a
  <2>2. ListedBy(d, s, n) = ListedBy(d, u, n)
    BY <1>0, <2>1, ListedAgrees
  <2>3. OpenBy(s, n) = OpenBy(u, n)
    BY <2>1 DEF OpenBy
  <2>4. AheadOf(s, n, c) = AheadOf(u, n, c)
    BY <2>1 DEF AheadOf
  <2> QED
    BY <2>2, <2>3, <2>4
<1>4. OpenBy(u, n + 1) = O \cup {l.state}
  BY <1>0, <1>3, OpenByMore
<1>5. AheadOf(u, n + 1, 0) = A \cup e
  <2>1. EnteredAt(u, n) = c
    BY <1>0, <1>1, <1>a DEF EnteredAt
  <2>2. AheadOf(u, n + 1, 0) = AheadOf(u, n, EnteredAt(u, n)) \cup ToSet(u[n + 1].next_states)
    BY <1>0, <1>1, AheadWithLevel
  <2> QED
    BY <1>0, <1>3, <2>1, <2>2
<1>6. ListedBy(d, u, n + 1) = ListedBy(d, s, n) \cup e
  <2>1. ListedBy(d, u, n + 1) = ListedBy(d, u, n) \cup ToSet(u[n + 1].next_states)
    <3>1. n \in Nat
      BY <1>0
    <3> HIDE DEF n
    <3> QED
      BY <3>1, ListedByMore, Zenon
  <2> QED
    BY <1>0, <1>3, <2>1
<1>7. AheadOf(s, n, c - 1) = A \cup {l.state}
  <2>1. n \in 1..Len(s)
    BY <1>0 DEF n
  <2>2. c \in 1..Len(s[n].next_states) /\ l.state = s[n].next_states[c]
    BY DEF n
  <2> QED
    BY <2>1, <2>2, AheadWithoutNext
<1>8. ToSet(Derived[l.state]) \subseteq ListedBy(d, u, n + 1)
  BY <1>0, <1>1, ShapeFacts
<1>9. /\ Won \notin D \cup O
      /\ \A k \in D \cup O : ToSet(Derived[k]) \subseteq D \cup O \cup (A \cup {l.state})
      /\ ListedBy(d, s, n) \subseteq D \cup O \cup (A \cup {l.state})
  <2>1. Sound(d, s, n, c - 1, D)
    BY DEF n
  <2> QED
    BY <1>7, <2>1 DEF Sound
<1> HIDE DEF A, O, e
<1>10. Won \notin D \cup (O \cup {l.state})
  BY <1>9
<1>11. ListedBy(d, u, n + 1) \subseteq D \cup (O \cup {l.state}) \cup (A \cup e)
  BY <1>6, <1>9
<1>12. \A k \in D \cup (O \cup {l.state}) :
          ToSet(Derived[k]) \subseteq D \cup (O \cup {l.state}) \cup (A \cup e)
  BY <1>8, <1>9, <1>11
<1> QED
  BY <1>0, <1>4, <1>5, <1>10, <1>11, <1>12 DEF Sound

\* The next of the list is one that the search is done with.
LEMMA SoundOfSkipped ==
    ASSUME NEW d \in Spots, NEW s \in Stacks, NEW t \in Stacks, NEW D, Len(s) > 0,
           NEW c \in 1..Len(s[Len(s)].next_states),
           MarkedAt(t, s, Len(s), c), s[Len(s)].next_states[c] \in D,
           Sound(d, s, Len(s), c - 1, D)
    PROVE  Sound(d, t, Len(t), c, D)
<1> DEFINE n == Len(s)
<1>0. n \in Nat /\ n > 0 /\ Len(t) = n /\ n \in 0..n /\ n \in 1..n
  BY DEF MarkedAt, Stacks
<1>1. AheadOf(s, n, c - 1) = AheadOf(s, n, c) \cup {s[n].next_states[c]}
  <2>1. n \in 1..Len(s)
    BY <1>0
  <2>2. c \in 1..Len(s[n].next_states)
    OBVIOUS
  <2> HIDE DEF n
  <2> QED
    BY <2>1, <2>2, AheadWithoutNext
<1>2. Sound(d, s, n, c, D)
  BY <1>1 DEF Sound
<1>3. Agree(s, t, n)
  BY <1>0, MarkedAgrees
<1> HIDE DEF n
<1>4. Sound(d, t, n, c, D)
  BY <1>0, <1>2, <1>3, SoundAgrees
<1> QED
  BY <1>0, <1>4

\* The level on top is done with.
LEMMA SoundOfPopped ==
    ASSUME NEW d \in Spots, NEW s \in Stacks, NEW t \in Stacks, NEW l, NEW D,
           PushedOn(t, s, l), Shape(d, t), Sound(d, t, Len(t), Len(l.next_states), D)
    PROVE  /\ Here(d, s, D \cup {l.state})
           /\ ToSet(l.next_states) \subseteq D \cup {l.state}
           /\ ListedBy(d, t, Len(t)) \ ToSet(l.next_states) = ListedBy(d, s, Len(s))
<1> DEFINE n == Len(s)
           A == AheadOf(s, n, EnteredAt(s, n))
           O == OpenBy(s, n)
           e == ToSet(l.next_states)
           L == ListedBy(d, s, n)
<1>0. /\ n \in Nat /\ Len(t) = n + 1 /\ t[n + 1] = l /\ \A i \in 1..n : t[i] = s[i]
      /\ n + 1 \in 1..Len(t) /\ n \in 0..Len(t) /\ n \in 0..Len(s)
  BY DEF PushedOn, Stacks
<1> HIDE DEF n
<1>1. /\ ListedBy(d, t, n) = L /\ OpenBy(t, n) = O
      /\ AheadOf(t, n, EnteredAt(t, n)) = A
  <2>1. ListedBy(d, t, n) = L
    BY <1>0, ListedAgrees
  <2>2. OpenBy(t, n) = O
    BY <1>0 DEF OpenBy
  <2>3. EnteredAt(t, n) = EnteredAt(s, n)
    <3>1. n # 0 => n \in 1..n
      BY <1>0
    <3> QED
      BY <1>0, <3>1 DEF EnteredAt
  <2>4. AheadOf(t, n, EnteredAt(s, n)) = A
    BY <1>0 DEF AheadOf
  <2> QED
    BY <2>1, <2>2, <2>3, <2>4
<1>2. OpenBy(t, n + 1) = O \cup {l.state}
  BY <1>0, <1>1, OpenByMore
<1>3. AheadOf(t, n + 1, Len(l.next_states)) = A
  BY <1>0, <1>1, AheadAtEnd
<1>4. ListedBy(d, t, n + 1) = L \cup e
  BY <1>0, <1>1, ListedByMore
<1>5. O \subseteq L /\ A \subseteq L
  <2>1. Shape(d, s)
    <3>1. l \in WalkLevels
      BY <1>0, StackLevel
    <3> QED
      BY <3>1, ShapeOfPopped
  <2> QED
    BY <1>0, <2>1, OpenIsListed
<1>6. e \cap L = {}
  <2>1. (n + 1) - 1 = n
    BY <1>0
  <2> QED
    BY <1>0, <1>1, <2>1, ShapeFacts
<1>7. /\ Won \notin D \cup (O \cup {l.state})
      /\ \A k \in D \cup (O \cup {l.state}) : ToSet(Derived[k]) \subseteq D \cup (O \cup {l.state}) \cup A
      /\ L \cup e \subseteq D \cup (O \cup {l.state}) \cup A
  <2>1. Sound(d, t, n + 1, Len(l.next_states), D)
    BY <1>0
  <2> QED
    BY <1>2, <1>3, <1>4, <2>1 DEF Sound
<1> HIDE DEF A, O, e, L
<1>8. e \subseteq D \cup {l.state}
  BY <1>5, <1>6, <1>7
<1>9. Won \notin (D \cup {l.state}) \cup O
  BY <1>7
<1>10. \A k \in (D \cup {l.state}) \cup O : ToSet(Derived[k]) \subseteq (D \cup {l.state}) \cup O \cup A
  BY <1>7
<1>11. L \subseteq (D \cup {l.state}) \cup O \cup A
  BY <1>7
<1>12. Here(d, s, D \cup {l.state})
  BY <1>9, <1>10, <1>11 DEF Here, Sound, n, A, O, L
<1>13. (L \cup e) \ e = L
  BY <1>6
<1> QED
  BY <1>0, <1>4, <1>8, <1>12, <1>13 DEF n, e, L

\* The search begins with nothing done and one position open, and when no position
\* is open and nothing ahead, what it is done with is all that the deal leads to.
LEMMA SoundOfStarted ==
    ASSUME NEW d \in Spots, d # Won, NEW s \in Stacks, Len(s) = 1, Shape(d, s)
    PROVE  Sound(d, s, 1, 0, {})
<1>0. 0 \in Nat /\ 0 + 1 = 1 /\ 1 \in 1..Len(s) /\ 1 - 1 = 0
  OBVIOUS
<1>1. s[1].state = d
  BY DEF Shape
<1>2. ListedBy(d, s, 0) = {d} /\ OpenBy(s, 0) = {}
  BY DEF ListedBy, OpenBy
<1>3. OpenBy(s, 1) = {d}
  <2>1. OpenBy(s, 0 + 1) = OpenBy(s, 0) \cup {s[0 + 1].state}
    BY OpenByMore
  <2> QED
    BY <1>0, <1>1, <1>2, <2>1
<1>4. ListedBy(d, s, 1) = {d} \cup ToSet(s[1].next_states)
  <2>1. ListedBy(d, s, 0 + 1) = ListedBy(d, s, 0) \cup ToSet(s[0 + 1].next_states)
    BY ListedByMore
  <2> QED
    BY <1>0, <1>2, <2>1
<1>5. ToSet(s[1].next_states) \subseteq AheadOf(s, 1, 0)
  <2>1. AheadOf(s, 0 + 1, 0) = AheadOf(s, 0, EnteredAt(s, 0)) \cup ToSet(s[0 + 1].next_states)
    BY <1>0, AheadWithLevel
  <2> QED
    BY <1>0, <2>1
<1>6. ToSet(Derived[d]) \subseteq ListedBy(d, s, 1)
  BY <1>0, <1>1, ShapeFacts
<1> QED
  BY <1>3, <1>4, <1>5, <1>6 DEF Sound

LEMMA ReachedFacts ==
    ASSUME NEW d \in Spots
    PROVE  /\ d \in Reached(d) /\ Reached(d) \subseteq Spots
           /\ \A k \in Reached(d) : ToSet(Derived[k]) \subseteq Reached(d)
<1>1. d \in Reached(d) /\ Reached(d) \subseteq Spots
  BY DEF Reached
<1>2. ASSUME NEW k \in Reached(d), NEW j \in ToSet(Derived[k]) PROVE j \in Reached(d)
  <2>1. k \in Spots
    BY <1>1
  <2>2. j \in Spots
    <3>1. PICK list \in Seq(Spots) : list = Derived[k]
      BY <2>1, SpotsAssumption
    <3> QED
      BY <3>1 DEF ToSet
  <2>3. ASSUME NEW S \in SUBSET Spots, d \in S, \A i \in S : ToSet(Derived[i]) \subseteq S
        PROVE  j \in S
    <3>1. k \in S
      BY <2>3 DEF Reached
    <3> QED
      BY <2>3, <3>1
  <2> QED
    BY <2>2, <2>3 DEF Reached
<1> QED
  BY <1>1, <1>2

LEMMA SoundOfEmpty ==
    ASSUME NEW d \in Spots, NEW s, NEW D \in SUBSET Spots, Sound(d, s, 0, 0, D)
    PROVE  Won \notin Reached(d)
<1>1. OpenBy(s, 0) = {} /\ AheadOf(s, 0, 0) = {} /\ d \in ListedBy(d, s, 0)
  BY DEF OpenBy, AheadOf, ListedBy
<1>2. d \in D /\ Won \notin D /\ \A k \in D : ToSet(Derived[k]) \subseteq D
  BY <1>1 DEF Sound
<1> QED
  BY <1>2 DEF Reached

-----------------------------------------------------------------------------
(***************************************************************************)
(* The walk: its stack is in shape, its store holds what the stack lists,  *)
(* and what the cache has is of a set of positions that it may be done     *)
(* with.                                                                   *)
(***************************************************************************)
Walks ==
    [stack : Stacks, store : SUBSET Spots, cache : Caches,
     terminate : {"NO", "QUEUE", "SOLUTION_FOUND", "STRAY"}, processed : Nat]

Tidy(d, w) ==
    /\ w \in Walks /\ Shape(d, w.stack) /\ Past(d, w.stack)
    /\ w.store = ListedBy(d, w.stack, Len(w.stack))
Right(d, w) ==
    IF w.terminate = "SOLUTION_FOUND"
    THEN Len(w.stack) > 0 /\ w.stack[Len(w.stack)].state = Won
    ELSE \E D \in SUBSET Spots : DOMAIN w.cache.map \subseteq D /\ Here(d, w.stack, D)
WalkOK(d, w) ==
    /\ Tidy(d, w) /\ Right(d, w)
    /\ w.terminate # "STRAY" /\ (w.terminate = "QUEUE" => Len(w.stack) = 0)

LEMMA WalkTypes ==
    ASSUME NEW w \in Walks
    PROVE  /\ w.stack \in Stacks /\ w.store \in SUBSET Spots /\ w.cache \in Caches
           /\ w.terminate \in {"NO", "QUEUE", "SOLUTION_FOUND", "STRAY"} /\ w.processed \in Nat
           /\ Len(w.stack) \in Nat
<1>1. /\ w.stack \in Stacks /\ w.store \in SUBSET Spots /\ w.cache \in Caches
      /\ w.terminate \in {"NO", "QUEUE", "SOLUTION_FOUND", "STRAY"} /\ w.processed \in Nat
  BY DEF Walks
<1> QED
  BY <1>1 DEF Stacks

\* What a position does to the walk that it is entered in.
ListFor(store, k) == IF k = Won THEN << >> ELSE Unlisted(store, k)
Hit(w, k, v) ==
    /\ k \in DOMAIN w.cache.map
    /\ v.stack = w.stack /\ v.store = w.store /\ v.terminate = w.terminate
Miss(w, k, v) ==
    /\ k \notin DOMAIN w.cache.map
    /\ v.stack = Append(w.stack, Level(k, ListFor(w.store, k)))
    /\ v.store = w.store \cup ToSet(ListFor(w.store, k))
    /\ v.terminate = IF k = Won THEN "SOLUTION_FOUND" ELSE w.terminate
LEMMA InspectedIs ==
    ASSUME NEW w \in Walks, NEW k \in Spots
    PROVE  /\ Inspected(w, k) \in Walks /\ Inspected(w, k).cache.map = w.cache.map
           /\ Hit(w, k, Inspected(w, k)) \/ Miss(w, k, Inspected(w, k))
           /\ Level(k, ListFor(w.store, k)) \in WalkLevels
<1> DEFINE list == Unlisted(w.store, k)
           entered == [w EXCEPT !.processed = @ + 1]
<1>0. /\ w.stack \in Stacks /\ w.store \in SUBSET Spots /\ w.cache \in Caches
      /\ w.terminate \in {"NO", "QUEUE", "SOLUTION_FOUND", "STRAY"} /\ w.processed \in Nat
  BY WalkTypes
<1>1. /\ entered \in Walks /\ entered.stack = w.stack /\ entered.store = w.store
      /\ entered.cache = w.cache /\ entered.terminate = w.terminate
  BY <1>0 DEF Walks
<1>2. list \in Seq(Spots) /\ ToSet(list) \subseteq Spots /\ ToSet(<< >>) = {} /\ << >> \in Seq(Spots)
  <2>1. list \in Seq(Spots)
    BY UnlistedIs
  <2> HIDE DEF list
  <2>2. ToSet(list) \subseteq Spots
    BY <2>1 DEF ToSet
  <2>3. ToSet(<< >>) = {} /\ << >> \in Seq(Spots)
    BY EmptySeq DEF ToSet
  <2> QED
    BY <2>1, <2>2, <2>3
<1>3. Level(k, list) \in WalkLevels /\ Level(k, << >>) \in WalkLevels
  BY <1>2 DEF Level, WalkLevels
<1>4. /\ Append(w.stack, Level(k, list)) \in Stacks /\ Append(w.stack, Level(k, << >>)) \in Stacks
  BY <1>0, <1>3, AppendProperties DEF Stacks
<1> HIDE DEF list, entered
<1>5. CASE k \in DOMAIN w.cache.map
  <2>1. Inspected(w, k) = [entered EXCEPT !.cache = Promoted(@, k)]
    BY <1>1, <1>5 DEF Inspected, DoesKeyExist, entered
  <2>2. Promoted(w.cache, k) \in Caches /\ Promoted(w.cache, k).map = w.cache.map
    BY <1>0, <1>5, PromotedIsCache
  <2>3. /\ Inspected(w, k) \in Walks /\ Inspected(w, k).cache = Promoted(w.cache, k)
        /\ Inspected(w, k).stack = w.stack /\ Inspected(w, k).store = w.store
        /\ Inspected(w, k).terminate = w.terminate
    BY <1>1, <2>1, <2>2 DEF Walks
  <2>4. Level(k, ListFor(w.store, k)) \in WalkLevels
    BY <1>3 DEF ListFor, list
  <2> QED
    BY <1>5, <2>2, <2>3, <2>4 DEF Hit
<1>6. CASE k \notin DOMAIN w.cache.map /\ k = Won
  <2>1. Inspected(w, k) = [entered EXCEPT !.stack = Append(@, Level(k, << >>)), !.terminate = "SOLUTION_FOUND"]
    BY <1>1, <1>6 DEF Inspected, DoesKeyExist, entered
  <2>2. /\ Inspected(w, k) \in Walks /\ Inspected(w, k).cache = w.cache
        /\ Inspected(w, k).stack = Append(w.stack, Level(k, << >>)) /\ Inspected(w, k).store = w.store
        /\ Inspected(w, k).terminate = "SOLUTION_FOUND"
    <3>1. PICK q \in Stacks : q = Append(w.stack, Level(k, << >>))
      BY <1>4
    <3>2. Inspected(w, k) = [entered EXCEPT !.stack = q, !.terminate = "SOLUTION_FOUND"]
      BY <1>1, <2>1, <3>1
    <3>3. /\ Inspected(w, k) \in Walks /\ Inspected(w, k).cache = entered.cache
          /\ Inspected(w, k).stack = q /\ Inspected(w, k).store = entered.store
          /\ Inspected(w, k).terminate = "SOLUTION_FOUND"
      BY <1>1, <3>2 DEF Walks
    <3> QED
      BY <1>1, <3>1, <3>3
  <2> QED
    BY <1>2, <1>3, <1>6, <2>2 DEF Miss, ListFor
<1>7. CASE k \notin DOMAIN w.cache.map /\ k # Won
  <2>1. Inspected(w, k) = [entered EXCEPT !.stack = Append(@, Level(k, list)), !.store = @ \cup ToSet(list)]
    BY <1>1, <1>7 DEF Inspected, DoesKeyExist, entered, list
  <2>2. /\ Inspected(w, k) \in Walks /\ Inspected(w, k).cache = w.cache
        /\ Inspected(w, k).stack = Append(w.stack, Level(k, list))
        /\ Inspected(w, k).store = w.store \cup ToSet(list)
        /\ Inspected(w, k).terminate = w.terminate
    <3>1. PICK store \in SUBSET Spots : store = w.store \cup ToSet(list)
      BY <1>0, <1>2
    <3>2. PICK q \in Stacks : q = Append(w.stack, Level(k, list))
      BY <1>4
    <3>3. Inspected(w, k) = [entered EXCEPT !.stack = q, !.store = store]
      BY <1>1, <2>1, <3>1, <3>2
    <3>4. /\ Inspected(w, k) \in Walks /\ Inspected(w, k).cache = entered.cache
          /\ Inspected(w, k).stack = q /\ Inspected(w, k).store = store
          /\ Inspected(w, k).terminate = entered.terminate
      BY <1>1, <3>3 DEF Walks
    <3> QED
      BY <1>1, <3>1, <3>2, <3>4
  <2>3. ListFor(w.store, k) = list
    BY <1>7 DEF ListFor, list
  <2> QED
    BY <1>3, <1>7, <2>2, <2>3 DEF Miss
<1> QED
  BY <1>5, <1>6, <1>7

\* The next of the list on top is entered.
EnteredNext(w, c) == [w EXCEPT !.stack[Len(w.stack)].idx = c]
LEMMA EnteredNextIs ==
    ASSUME NEW w \in Walks, Len(w.stack) > 0, NEW c \in Nat
    PROVE  /\ EnteredNext(w, c) \in Walks /\ EnteredNext(w, c).cache = w.cache
           /\ EnteredNext(w, c).store = w.store /\ EnteredNext(w, c).terminate = w.terminate
           /\ MarkedAt(EnteredNext(w, c).stack, w.stack, Len(w.stack), c)
<1> DEFINE s == w.stack
           n == Len(s)
           t == [s EXCEPT ![n].idx = c]
<1>1. s \in Stacks /\ n \in 1..Len(s)
  BY WalkTypes
<1>2. EnteredNext(w, c) = [w EXCEPT !.stack = t]
  BY DEF EnteredNext
<1> HIDE DEF s, n
<1>3. MarkedAt(t, s, n, c)
  BY <1>1, Marking
<1> HIDE DEF t
<1>4. t \in Stacks
  BY <1>3 DEF MarkedAt
<1>5. /\ EnteredNext(w, c) \in Walks /\ EnteredNext(w, c).cache = w.cache
      /\ EnteredNext(w, c).store = w.store /\ EnteredNext(w, c).terminate = w.terminate
      /\ EnteredNext(w, c).stack = t
  BY <1>2, <1>4 DEF Walks
<1> QED
  BY <1>3, <1>5 DEF s, n

RightAfter(d, w, c, k, v) ==
    /\ WalkOK(d, v) /\ v.cache.map = w.cache.map
    /\ k \notin DOMAIN w.cache.map =>
          /\ \E l : PushedOn(v.stack, EnteredNext(w, c).stack, l) /\ l.state = k /\ l.idx = 0
          /\ v.terminate = IF k = Won THEN "SOLUTION_FOUND" ELSE "NO"
LEMMA EntersRight ==
    ASSUME NEW d \in Spots, NEW w, Tidy(d, w), w.terminate = "NO", Len(w.stack) > 0,
           NEW c \in 1..Len(w.stack[Len(w.stack)].next_states),
           \A b \in 0..(c - 1) : \E E \in SUBSET Spots : Sound(d, w.stack, Len(w.stack), b, E),
           NEW D \in SUBSET Spots, DOMAIN w.cache.map \subseteq D, Sound(d, w.stack, Len(w.stack), c - 1, D)
    PROVE  RightAfter(d, w, c, w.stack[Len(w.stack)].next_states[c],
                      Inspected(EnteredNext(w, c), w.stack[Len(w.stack)].next_states[c]))
<1> DEFINE s == w.stack
           n == Len(s)
           k == s[n].next_states[c]
           x == EnteredNext(w, c)
           t == x.stack
           v == Inspected(x, k)
           l == Level(k, ListFor(x.store, k))
<1>0. w \in Walks /\ Shape(d, s) /\ Past(d, s) /\ w.store = ListedBy(d, s, n)
  BY DEF Tidy
<1>1. s \in Stacks /\ n \in Nat /\ n \in 1..Len(s) /\ w.cache \in Caches
  BY <1>0, WalkTypes
<1>2. k \in Spots /\ Len(s[n].next_states) \in Nat /\ c \in Nat /\ c \in 1..Len(s[n].next_states)
      /\ c <= Len(s[n].next_states)
  BY <1>1, StackLevel
<1>3. x \in Walks /\ x.cache = w.cache /\ x.store = w.store /\ x.terminate = "NO"
      /\ MarkedAt(t, s, n, c)
  BY <1>0, <1>2, EnteredNextIs
<1>4. /\ v \in Walks /\ v.cache.map = w.cache.map /\ (Hit(x, k, v) \/ Miss(x, k, v)) /\ l \in WalkLevels
  BY <1>2, <1>3, InspectedIs
<1>5. /\ t \in Stacks /\ Len(t) = n
      /\ \A i \in 1..n : /\ t[i].state = s[i].state /\ t[i].next_states = s[i].next_states
                         /\ t[i].idx = IF i = n THEN c ELSE s[i].idx
  BY <1>3 DEF MarkedAt
<1>a. /\ n > 0 /\ Sound(d, s, n, c - 1, D)
      /\ \A b \in 0..(c - 1) : \E E \in SUBSET Spots : Sound(d, s, n, b, E)
  OBVIOUS
<1>b. DOMAIN w.cache.map \subseteq D
  OBVIOUS
<1>c. l.state = k /\ l.idx = 0 /\ l.next_states = ListFor(x.store, k)
  BY DEF Level
<1> HIDE DEF s, n, k, x, t, v, l
<1>6. Shape(d, t)
  BY <1>0, <1>1, <1>2, <1>3, <1>5, <1>a, ShapeOfMarked DEF n
<1>7. Past(d, t)
  BY <1>0, <1>1, <1>2, <1>3, <1>a, PastOfMarked DEF n
<1>8. ListedBy(d, t, n) = ListedBy(d, s, n)
  BY <1>1, <1>5, ListedAgrees
<1>9. CASE Hit(x, k, v)
  <2>1. v.stack = t /\ v.store = w.store /\ v.terminate = "NO" /\ k \in D
    BY <1>3, <1>9, <1>b DEF Hit, t
  <2>2. Tidy(d, v)
    BY <1>0, <1>4, <1>5, <1>6, <1>7, <1>8, <2>1 DEF Tidy
  <2>3. Sound(d, t, Len(t), c, D)
    <3>1. /\ s \in Stacks /\ t \in Stacks /\ Len(s) > 0 /\ c \in 1..Len(s[Len(s)].next_states)
          /\ MarkedAt(t, s, Len(s), c) /\ Sound(d, s, Len(s), c - 1, D)
      BY <1>1, <1>2, <1>3, <1>5, <1>a DEF n
    <3>2. s[Len(s)].next_states[c] \in D
      BY <2>1 DEF n, k
    <3> QED
      BY <3>1, <3>2, SoundOfSkipped
  <2>4. EnteredAt(t, Len(t)) = c
    <3>1. n # 0 /\ n \in 1..n
      BY <1>1, <1>a
    <3> QED
      BY <1>5, <3>1 DEF EnteredAt
  <2>5. Here(d, v.stack, D)
    BY <2>1, <2>3, <2>4 DEF Here
  <2>6. WalkOK(d, v)
    BY <1>4, <1>b, <2>1, <2>2, <2>5 DEF WalkOK, Right
  <2>7. k \in DOMAIN w.cache.map
    BY <1>3, <1>9 DEF Hit
  <2> QED
    BY <1>4, <2>6, <2>7 DEF RightAfter, s, n, k, x, v
<1>10. CASE Miss(x, k, v)
  <2>1. /\ v.stack = Append(t, l) /\ v.store = w.store \cup ToSet(l.next_states)
        /\ v.terminate = IF k = Won THEN "SOLUTION_FOUND" ELSE "NO"
    BY <1>3, <1>10, <1>c DEF Miss, t, l
  <2>2. PICK u : u = v.stack
    OBVIOUS
  <2>3. PushedOn(u, t, l)
    BY <1>4, <1>5, <2>1, <2>2, Pushing
  <2>4. u \in Stacks /\ Len(u) = n + 1 /\ u[n + 1] = l
    BY <1>5, <2>3 DEF PushedOn
  <2>5. Shape(d, u)
    <3>1. /\ l.state \in Reached(d) /\ l.state = t[Len(t)].next_states[t[Len(t)].idx]
          /\ t[Len(t)].idx >= 1
      <4>1. n \in 1..n /\ t[n].idx = c /\ t[n].next_states = s[n].next_states /\ t[n].state \in Reached(d)
            /\ t[n].state = s[n].state
        BY <1>1, <1>5, <1>6, <1>a DEF Shape
      <4>2. t[n].state # Won
        <5>1. n \in 1..Len(t) /\ t[n].idx >= 1
          BY <1>1, <1>2, <1>5, <4>1
        <5> QED
          BY <1>5, <1>6, <5>1, ShapeFacts
      <4>3. k \in Reached(d)
        <5>1. s[n].next_states = Unlisted(ListedBy(d, s, n - 1), s[n].state)
          BY <1>0, <1>1, <4>1, <4>2 DEF Shape
        <5>2. s[n].state \in Spots /\ ToSet(s[n].next_states) = {s[n].next_states[j] : j \in 1..Len(s[n].next_states)}
          BY <1>1, StackLevel
        <5>3. ToSet(s[n].next_states) \subseteq ToSet(Derived[s[n].state])
          BY <5>1, <5>2, UnlistedIs
        <5>4. k \in ToSet(Derived[s[n].state])
          BY <1>2, <5>2, <5>3 DEF k
        <5> QED
          BY <4>1, <5>4, ReachedFacts
      <4> QED
        BY <1>2, <1>5, <1>c, <4>1, <4>3 DEF k
    <3>2. l.next_states = IF l.state = Won THEN << >> ELSE Unlisted(ListedBy(d, t, Len(t)), l.state)
      BY <1>0, <1>3, <1>5, <1>8, <1>c DEF ListFor
    <3>3. Len(t) # 0
      BY <1>1, <1>5, <1>a
    <3> QED
      BY <1>4, <1>5, <1>6, <1>c, <2>3, <2>4, <3>1, <3>2, <3>3, ShapeOfPushed
  <2>6. Past(d, u)
    BY <1>5, <1>7, <1>c, <2>3, PastOfPushed
  <2>7. v.store = ListedBy(d, u, Len(u))
    <3>1. ListedBy(d, u, n + 1) = ListedBy(d, u, n) \cup ToSet(u[n + 1].next_states)
      BY <1>1, ListedByMore
    <3>2. ListedBy(d, u, n) = ListedBy(d, t, n)
      <4>1. \A i \in 1..n : u[i].next_states = t[i].next_states
        BY <1>5, <2>3 DEF PushedOn
      <4> QED
        BY <1>1, <4>1, ListedAgrees
    <3> QED
      BY <1>0, <1>8, <2>1, <2>4, <3>1, <3>2
  <2>8. Tidy(d, v)
    BY <1>4, <2>2, <2>5, <2>6, <2>7 DEF Tidy
  <2>9. Right(d, v)
    <3>1. CASE k = Won
      <4>1. v.terminate = "SOLUTION_FOUND" /\ Len(v.stack) > 0 /\ v.stack[Len(v.stack)].state = Won
        BY <1>1, <1>c, <2>1, <2>2, <2>4, <3>1
      <4> QED
        BY <4>1 DEF Right
    <3>2. CASE k # Won
      <4>1. Sound(d, u, Len(u), 0, D)
        BY <1>1, <1>2, <1>3, <1>5, <1>a, <1>c, <2>3, <2>4, <2>5, <3>2, SoundOfEntered DEF n, k
      <4>2. EnteredAt(u, Len(u)) = 0
        <5>1. n + 1 # 0
          BY <1>1
        <5> QED
          BY <1>c, <2>4, <5>1 DEF EnteredAt
      <4>3. Here(d, v.stack, D) /\ v.terminate = "NO"
        BY <2>1, <2>2, <3>2, <4>1, <4>2 DEF Here
      <4> QED
        BY <1>4, <1>b, <4>3 DEF Right
    <3> QED
      BY <3>1, <3>2
  <2>10. WalkOK(d, v)
    BY <2>1, <2>8, <2>9 DEF WalkOK
  <2>11. \E m : PushedOn(v.stack, t, m) /\ m.state = k /\ m.idx = 0
    BY <1>c, <2>2, <2>3
  <2> QED
    BY <1>4, <2>1, <2>10, <2>11 DEF RightAfter, s, n, k, x, t, v
<1> QED
  BY <1>4, <1>9, <1>10

LEMMA StartsRight ==
    ASSUME dealt \in Dealt
    PROVE  /\ WalkOK(dealt, Started) /\ DOMAIN Started.cache.map = {}
           /\ Len(Started.stack) = 1 /\ Started.stack[1].state = dealt /\ Started.stack[1].idx = 0
           /\ Started.terminate = IF dealt = Won THEN "SOLUTION_FOUND" ELSE "NO"
<1> DEFINE w == [stack |-> << >>, store |-> {dealt}, cache |-> EmptyCache,
                 terminate |-> "NO", processed |-> 0]
           l == Level(dealt, ListFor(w.store, dealt))
<1>1. PICK d \in Spots : d = dealt
  BY SpotsAssumption
<1>2. << >> \in Stacks /\ Len(<< >>) = 0 /\ EmptyCache \in Caches /\ DOMAIN EmptyCache.map = {}
  BY EmptySeq, EmptyCacheIsCache DEF Stacks
<1>3. /\ w \in Walks /\ w.stack = << >> /\ w.store = {d} /\ w.cache = EmptyCache /\ w.terminate = "NO"
  BY <1>1, <1>2 DEF Walks
<1>4. Started = Inspected(w, d)
  BY <1>1 DEF Started
<1> HIDE DEF w
<1>5. PICK v : v = Started
  OBVIOUS
<1>6. /\ v \in Walks /\ v.cache.map = w.cache.map /\ (Hit(w, d, v) \/ Miss(w, d, v)) /\ l \in WalkLevels
  BY <1>1, <1>3, <1>4, <1>5, InspectedIs
<1>7. Miss(w, d, v) /\ DOMAIN v.cache.map = {}
  BY <1>2, <1>3, <1>6 DEF Hit
<1>8. l.state = d /\ l.idx = 0 /\ l.next_states = ListFor({d}, d)
  BY <1>1, <1>3 DEF Level
<1>9. /\ v.stack = Append(<< >>, l) /\ v.store = {d} \cup ToSet(l.next_states)
      /\ v.terminate = IF d = Won THEN "SOLUTION_FOUND" ELSE "NO"
  BY <1>1, <1>3, <1>7, <1>8 DEF Miss
<1> HIDE DEF l
<1>10. PICK u : u = v.stack
  OBVIOUS
<1>11. PushedOn(u, << >>, l)
  BY <1>2, <1>6, <1>9, <1>10, Pushing
<1>12. u \in Stacks /\ Len(u) = 1 /\ u[1] = l
  <2>1. 0 + 1 = 1
    OBVIOUS
  <2> QED
    BY <1>2, <1>11, <2>1 DEF PushedOn
<1>13. ListedBy(d, << >>, 0) = {d}
  BY DEF ListedBy
<1>14. Shape(d, << >>) /\ Past(d, << >>)
  BY <1>2 DEF Shape, Past
<1>15. Shape(d, u)
  <2>1. l.next_states = IF l.state = Won THEN << >> ELSE Unlisted(ListedBy(d, << >>, Len(<< >>)), l.state)
    BY <1>2, <1>8, <1>13 DEF ListFor
  <2>2. l.state \in Reached(d)
    BY <1>8, ReachedFacts
  <2>3. PICK s \in Stacks : s = << >> /\ Len(s) = 0 /\ Shape(d, s)
    BY <1>2, <1>14
  <2> QED
    BY <1>6, <1>8, <1>11, <1>12, <2>1, <2>2, <2>3, ShapeOfPushed
<1>16. Past(d, u)
  BY <1>2, <1>8, <1>11, <1>14, PastOfPushed
<1>17. ListedBy(d, u, 1) = {d} \cup ToSet(l.next_states)
  <2>1. ListedBy(d, u, 0 + 1) = ListedBy(d, u, 0) \cup ToSet(u[0 + 1].next_states)
    BY ListedByMore
  <2>2. ListedBy(d, u, 0) = {d} /\ 0 + 1 = 1
    BY DEF ListedBy
  <2> QED
    BY <1>12, <2>1, <2>2
<1>18. Tidy(d, v)
  BY <1>6, <1>9, <1>10, <1>12, <1>15, <1>16, <1>17 DEF Tidy
<1>19. Right(d, v)
  <2>1. CASE d = Won
    BY <1>8, <1>9, <1>10, <1>12, <2>1 DEF Right
  <2>2. CASE d # Won
    <3>1. Sound(d, u, 1, 0, {})
      BY <1>12, <1>15, <2>2, SoundOfStarted
    <3>2. Here(d, u, {})
      BY <1>8, <1>12, <3>1 DEF Here, EnteredAt
    <3>3. {} \in SUBSET Spots /\ DOMAIN v.cache.map \subseteq {}
      BY <1>7
    <3> QED
      BY <1>9, <1>10, <2>2, <3>2, <3>3 DEF Right
  <2> QED
    BY <2>1, <2>2
<1>20. WalkOK(d, v)
  BY <1>9, <1>18, <1>19 DEF WalkOK
<1> QED
  BY <1>1, <1>5, <1>7, <1>8, <1>9, <1>10, <1>12, <1>20

LEMMA TurnsRight ==
    ASSUME NEW d \in Spots, NEW w, WalkOK(d, w), w.terminate = "NO"
    PROVE  WalkOK(d, Turn(w))
<1> DEFINE s == w.stack
           n == Len(s)
<1>0. /\ w \in Walks /\ Shape(d, s) /\ Past(d, s) /\ w.store = ListedBy(d, s, n) /\ Tidy(d, w)
      /\ \E D \in SUBSET Spots : DOMAIN w.cache.map \subseteq D /\ Here(d, s, D)
  BY DEF WalkOK, Tidy, Right
<1>1. s \in Stacks /\ n \in Nat /\ w.cache \in Caches /\ w.store \in SUBSET Spots
  BY <1>0, WalkTypes
<1>2. PICK D \in SUBSET Spots : DOMAIN w.cache.map \subseteq D /\ Here(d, s, D)
  BY <1>0
<1>3. w.terminate = "NO"
  OBVIOUS
<1>4. s = << >> <=> n = 0
  BY <1>1, EmptySeq DEF Stacks
<1>5. Top(w) = s[n]
  BY DEF Top, Last
<1>6. CASE n = 0
  <2>1. Turn(w) = [w EXCEPT !.terminate = "QUEUE"]
    BY <1>4, <1>6 DEF Turn
  <2>2. PICK v : v = Turn(w)
    OBVIOUS
  <2>3. v \in Walks /\ v.stack = s /\ v.store = w.store /\ v.cache = w.cache /\ v.terminate = "QUEUE"
    BY <1>0, <2>1, <2>2 DEF Walks
  <2> HIDE DEF s, n
  <2>4. Tidy(d, v) /\ Right(d, v)
    BY <1>0, <1>2, <2>3 DEF Tidy, Right, n
  <2>5. Len(v.stack) = 0
    BY <1>6, <2>3 DEF n
  <2> QED
    BY <2>2, <2>3, <2>4, <2>5 DEF WalkOK
<1>7. CASE n # 0 /\ s[n].idx = Len(s[n].next_states)
  <2> DEFINE list == s[n].next_states
             cache == AllInserted(w.cache, list)
             store == w.store \ ToSet(list)
             f == Front(s)
             E == D \cup {s[n].state}
  <2>1. Turn(w) = Demoted(w)
    BY <1>4, <1>5, <1>7 DEF Turn
  <2>2. Demoted(w) = [w EXCEPT !.cache = cache, !.store = store, !.stack = f]
    BY <1>0, <1>5 DEF Demoted, Walks
  <2>3. n \in 1..Len(s) /\ Len(s) > 0 /\ n > 0
    BY <1>1, <1>7
  <2>4. list \in Seq(Spots) /\ s[n].state \in Spots /\ s[n] \in WalkLevels
    BY <1>1, <2>3, StackLevel
  <2>5. PushedOn(s, f, s[n]) /\ f \in Stacks /\ Len(f) = n - 1
    BY <1>1, <2>3, Popping
  <2> HIDE DEF list, f
  <2>6. cache \in Caches /\ DOMAIN cache.map \subseteq DOMAIN w.cache.map \cup ToSet(list)
    BY <1>1, <2>4, AllInsertedIsCache
  <2>7. PICK v : v = Turn(w)
    OBVIOUS
  <2> HIDE DEF cache
  <2>8. store \in SUBSET Spots
    BY <1>1
  <2> HIDE DEF store
  <2>9. v \in Walks /\ v.stack = f /\ v.store = store /\ v.cache = cache /\ v.terminate = "NO"
    <3>1. v = [w EXCEPT !.cache = cache, !.store = store, !.stack = f]
      BY <2>1, <2>2, <2>7
    <3>2. w \in Walks /\ cache \in Caches /\ store \in SUBSET Spots /\ f \in Stacks
      BY <1>0, <2>5, <2>6, <2>8
    <3>3. v \in Walks /\ v.stack = f /\ v.store = store /\ v.cache = cache /\ v.terminate = w.terminate
      BY <3>1, <3>2 DEF Walks
    <3> QED
      BY <1>3, <3>3
  <2>10. Sound(d, s, Len(s), Len(s[n].next_states), D)
    <3>1. EnteredAt(s, n) = Len(s[n].next_states)
      BY <1>7 DEF EnteredAt
    <3> QED
      BY <1>2, <3>1 DEF Here
  <2> HIDE DEF s, n
  <2>11. /\ Here(d, f, E) /\ ToSet(list) \subseteq E
         /\ ListedBy(d, s, Len(s)) \ ToSet(list) = ListedBy(d, f, Len(f))
    <3>1. PICK l : l = s[n]
      OBVIOUS
    <3>2. /\ PushedOn(s, f, l) /\ f \in Stacks /\ s \in Stacks /\ Shape(d, s)
          /\ Sound(d, s, Len(s), Len(l.next_states), D)
      BY <1>0, <1>1, <2>5, <2>10, <3>1
    <3>3. /\ Here(d, f, D \cup {l.state}) /\ ToSet(l.next_states) \subseteq D \cup {l.state}
          /\ ListedBy(d, s, Len(s)) \ ToSet(l.next_states) = ListedBy(d, f, Len(f))
      BY <3>2, SoundOfPopped
    <3> QED
      BY <3>1, <3>3 DEF list
  <2>12. E \in SUBSET Spots /\ DOMAIN cache.map \subseteq E
    BY <1>2, <2>4, <2>6, <2>11
  <2>13. Shape(d, f) /\ Past(d, f)
    BY <1>0, <1>1, <2>4, <2>5, ShapeOfPopped, PastOfPopped
  <2>14. store = ListedBy(d, f, Len(f))
    BY <1>0, <2>11 DEF store, n
  <2> HIDE DEF E
  <2>15. Tidy(d, v)
    BY <2>9, <2>13, <2>14 DEF Tidy
  <2>16. Right(d, v)
    BY <2>9, <2>11, <2>12 DEF Right
  <2> QED
    BY <2>7, <2>9, <2>15, <2>16 DEF WalkOK
<1>8. CASE n # 0 /\ s[n].idx # Len(s[n].next_states)
  <2> DEFINE c == s[n].idx + 1
             k == s[n].next_states[c]
  <2>1. Turn(w) = Descended(w)
    BY <1>4, <1>5, <1>8 DEF Turn
  <2>2. n \in 1..Len(s) /\ Len(s) > 0 /\ n > 0
    BY <1>1, <1>8
  <2>3. s[n].idx \in 0..Len(s[n].next_states) /\ Len(s[n].next_states) \in Nat
    BY <1>0, <1>1, <2>2, StackLevel DEF Shape
  <2>4. c \in 1..Len(s[n].next_states) /\ c - 1 = s[n].idx /\ c \in Nat
    BY <1>8, <2>3
  <2>5. Descended(w) = Inspected(EnteredNext(w, c), k)
    <3>1. [w EXCEPT !.stack[n].idx = @ + 1] = EnteredNext(w, c)
      BY <1>0, <1>1, <2>2 DEF EnteredNext, Walks, Stacks, WalkLevels
    <3> QED
      BY <1>5, <3>1 DEF Descended
  <2>6. Sound(d, s, n, c - 1, D)
    <3>1. EnteredAt(s, n) = c - 1
      BY <1>8, <2>4 DEF EnteredAt
    <3> QED
      BY <1>2, <3>1 DEF Here
  <2>7. ASSUME NEW b \in 0..(c - 1) PROVE \E E \in SUBSET Spots : Sound(d, s, n, b, E)
    <3>1. CASE b = c - 1
      BY <2>6, <3>1
    <3>2. CASE b # c - 1
      <4>1. b \in 0..(s[n].idx - 1)
        BY <2>3, <2>4, <3>2
      <4> QED
        BY <1>0, <2>2, <4>1 DEF Past
    <3> QED
      BY <3>1, <3>2
  <2> HIDE DEF c
  <2>8. WalkOK(d, Inspected(EnteredNext(w, c), k))
    <3>1. RightAfter(d, w, c, k, Inspected(EnteredNext(w, c), k))
      BY <1>0, <1>2, <1>3, <2>2, <2>4, <2>6, <2>7, EntersRight
    <3> QED
      BY <3>1 DEF RightAfter
  <2> QED
    BY <2>1, <2>5, <2>8
<1> QED
  BY <1>6, <1>7, <1>8

-----------------------------------------------------------------------------
(***************************************************************************)
(* The log: its numbers lead back along the stack that it was written      *)
(* from.                                                                   *)
(***************************************************************************)
Logs == [coords : Seq(Nat), count : Nat, torn : BOOLEAN, from : Stacks]
LogOK(d, g) ==
    /\ g \in Logs /\ Shape(d, g.from) /\ Past(d, g.from)
    /\ Len(g.coords) <= Len(g.from)
    /\ \A i \in 1..Len(g.coords) : /\ g.coords[i] \in 0..g.from[i].idx
                                   /\ i < Len(g.coords) => g.coords[i] = g.from[i].idx

\* What has been read of a line when i of its numbers were.
Retraced(d, g, i, w) ==
    /\ WalkOK(d, w) /\ DOMAIN w.cache.map = {}
    /\ Len(w.stack) >= i
    /\ \A j \in 1..i : /\ w.stack[j].state = g.from[j].state
                       /\ w.stack[j].next_states = g.from[j].next_states
                       /\ w.stack[j].idx = g.coords[j]
    /\ i < Len(g.coords) =>
          /\ Len(w.stack) = i + 1 /\ w.stack[i + 1].idx = 0
          /\ w.stack[i + 1].state = g.from[i + 1].state
          /\ w.stack[i + 1].next_states = g.from[i + 1].next_states
          /\ w.terminate = IF g.from[i + 1].state = Won THEN "SOLUTION_FOUND" ELSE "NO"

LEMMA LogTypes ==
    ASSUME NEW d, NEW g, LogOK(d, g)
    PROVE  /\ g \in Logs /\ g.coords \in Seq(Nat) /\ g.count \in Nat /\ g.torn \in BOOLEAN
           /\ g.from \in Stacks /\ Len(g.coords) \in Nat /\ Len(g.from) \in Nat
           /\ Shape(d, g.from) /\ Past(d, g.from) /\ Len(g.coords) <= Len(g.from)
           /\ \A i \in 1..Len(g.coords) : /\ g.coords[i] \in 0..g.from[i].idx /\ g.coords[i] \in Nat
                                          /\ i < Len(g.coords) => g.coords[i] = g.from[i].idx
<1>1. g \in Logs
  BY DEF LogOK
<1>2. g.coords \in Seq(Nat) /\ g.count \in Nat /\ g.torn \in BOOLEAN /\ g.from \in Stacks
  BY <1>1 DEF Logs
<1>3. Len(g.coords) \in Nat /\ Len(g.from) \in Nat /\ \A i \in 1..Len(g.coords) : g.coords[i] \in Nat
  BY <1>2 DEF Stacks
<1> QED
  BY <1>1, <1>2, <1>3 DEF LogOK

LEMMA RetraceStep ==
    ASSUME NEW d \in Spots, NEW g, LogOK(d, g), NEW i \in Nat, i < Len(g.coords), NEW w, Retraced(d, g, i, w)
    PROVE  Retraced(d, g, i + 1, Reentered(w, g.coords[i + 1]))
<1> DEFINE m == Len(g.coords)
           n == i + 1
           s == w.stack
           f == g.from
           c == g.coords[n]
<1>0. /\ g.coords \in Seq(Nat) /\ f \in Stacks /\ m \in Nat /\ Len(f) \in Nat
      /\ Shape(d, f) /\ Past(d, f) /\ m <= Len(f)
      /\ \A j \in 1..m : /\ g.coords[j] \in 0..f[j].idx /\ g.coords[j] \in Nat
                         /\ j < m => g.coords[j] = f[j].idx
  BY LogTypes
<1>1. /\ WalkOK(d, w) /\ DOMAIN w.cache.map = {}
      /\ \A j \in 1..i : /\ s[j].state = f[j].state /\ s[j].next_states = f[j].next_states
                         /\ s[j].idx = g.coords[j]
      /\ Len(s) = n /\ s[n].idx = 0
      /\ s[n].state = f[n].state /\ s[n].next_states = f[n].next_states
      /\ w.terminate = IF f[n].state = Won THEN "SOLUTION_FOUND" ELSE "NO"
  BY DEF Retraced
<1>2. /\ n \in 1..m /\ n \in 1..Len(f) /\ n \in Nat /\ n \in 1..n /\ n > 0 /\ n - 1 = i /\ n \in 0..n
      /\ \A j \in 1..n : j = n \/ j \in 1..i
      /\ \A j \in 1..i : j < m /\ j \in 1..m /\ j # n
  <2>1. m \in Nat /\ Len(f) \in Nat /\ m <= Len(f) /\ i < m
    BY <1>0
  <2>2. n \in 1..m /\ n \in 1..Len(f) /\ n \in Nat /\ n \in 1..n /\ n > 0 /\ n - 1 = i /\ n \in 0..n
    BY <2>1
  <2>3. /\ \A j \in 1..n : j = n \/ j \in 1..i
        /\ \A j \in 1..i : j < m /\ j \in 1..m /\ j # n
    BY <2>1
  <2> QED
    BY <2>2, <2>3
<1>3. c \in 0..f[n].idx /\ c \in Nat /\ (n < m => c = f[n].idx)
  BY <1>0, <1>2
<1>4. w \in Walks /\ s \in Stacks /\ Tidy(d, w)
  <2>1. w \in Walks /\ Tidy(d, w)
    BY <1>1 DEF WalkOK, Tidy
  <2> QED
    BY <2>1, WalkTypes
<1>5. Top(w) = s[n]
  BY <1>1 DEF Top, Last
<1> HIDE DEF s, f, c, n, m
<1>6. CASE c = 0
  <2>1. Reentered(w, c) = w
    BY <1>6 DEF Reentered
  <2>2. ~(n < m)
    <3>1. ASSUME n < m PROVE FALSE
      <4>1. n < Len(f)
        BY <1>0, <1>2, <3>1
      <4>2. f[n].idx >= 1
        BY <1>0, <1>2, <4>1 DEF Shape
      <4> QED
        BY <1>3, <1>6, <3>1, <4>2
    <3> QED
      BY <3>1
  <2>3. \A j \in 1..n : /\ s[j].state = f[j].state /\ s[j].next_states = f[j].next_states
                        /\ s[j].idx = g.coords[j]
    BY <1>1, <1>2, <1>6 DEF c
  <2>4. Len(s) >= n
    BY <1>1, <1>2
  <2>5. Retraced(d, g, n, w)
    BY <1>1, <2>2, <2>3, <2>4 DEF Retraced, s, f, m
  <2> QED
    BY <2>1, <2>5 DEF c, n
<1>7. CASE c # 0
  <2> DEFINE k == s[n].next_states[c]
             x == EnteredNext(w, c)
             t == x.stack
             v == Inspected(x, k)
             u == v.stack
  <2>1. /\ f[n].idx >= 1 /\ f[n].state # Won /\ c <= Len(s[n].next_states)
        /\ Len(s[n].next_states) \in Nat /\ c >= 1
    <3>1. f[n].idx \in 0..Len(f[n].next_states) /\ Len(f[n].next_states) \in Nat
      BY <1>0, <1>2, StackLevel DEF Shape
    <3>2. f[n].idx >= 1
      BY <1>3, <1>7, <3>1
    <3>3. f[n].state # Won
      BY <1>0, <1>2, <3>2, ShapeFacts
    <3> QED
      BY <1>1, <1>3, <1>7, <3>1, <3>2, <3>3
  <2>2. Reentered(w, c) = v
    <3>1. ~(c > Len(s[n].next_states))
      BY <1>3, <2>1
    <3>2. Reentered(w, c) = Inspected([w EXCEPT !.stack[Len(w.stack)].idx = c], Top(w).next_states[c])
      BY <1>5, <1>7, <3>1 DEF Reentered
    <3> QED
      BY <1>5, <3>2 DEF EnteredNext
  <2>3. c \in 1..Len(s[Len(s)].next_states) /\ Len(s) > 0 /\ w.terminate = "NO"
    BY <1>1, <1>2, <1>3, <2>1
  <2>4. Agree(f, s, n)
    <3>1. \A j \in 1..n : /\ f[j].state = s[j].state /\ f[j].next_states = s[j].next_states
                          /\ j < n => f[j].idx = s[j].idx
      BY <1>0, <1>1, <1>2
    <3> QED
      BY <1>1, <1>2, <3>1 DEF Agree
  <2>5. ASSUME NEW b \in 0..(c - 1) PROVE \E E \in SUBSET Spots : Sound(d, s, n, b, E)
    <3>1. b \in 0..(f[n].idx - 1)
      <4>1. f[n].idx \in Nat
        BY <1>0, <1>2, StackLevel
      <4> QED
        BY <1>3, <4>1
    <3>2. PICK E \in SUBSET Spots : Sound(d, f, n, b, E)
      BY <1>0, <1>2, <3>1 DEF Past
    <3>3. Sound(d, s, n, b, E)
      BY <1>2, <2>4, <3>2, SoundAgrees
    <3> QED
      BY <3>3
  <2>6. PICK D \in SUBSET Spots : Sound(d, s, n, c - 1, D)
    <3>1. c - 1 \in 0..(c - 1)
      BY <1>3, <1>7
    <3> QED
      BY <2>5, <3>1
  <2>7. k = s[Len(s)].next_states[c] /\ Len(s) = n
    BY <1>1
  <2>8. /\ WalkOK(d, v) /\ v.cache.map = w.cache.map
        /\ \E l : PushedOn(u, t, l) /\ l.state = k /\ l.idx = 0
        /\ v.terminate = IF k = Won THEN "SOLUTION_FOUND" ELSE "NO"
    <3>1. /\ c \in 1..Len(w.stack[Len(w.stack)].next_states) /\ Len(w.stack) > 0
          /\ \A b \in 0..(c - 1) : \E E \in SUBSET Spots : Sound(d, w.stack, Len(w.stack), b, E)
          /\ Sound(d, w.stack, Len(w.stack), c - 1, D)
          /\ DOMAIN w.cache.map \subseteq D
      BY <1>1, <2>3, <2>5, <2>6, <2>7 DEF s
    <3>2. PICK e : e = w.stack[Len(w.stack)].next_states[c]
      OBVIOUS
    <3>3. PICK y : y = Inspected(EnteredNext(w, c), e)
      OBVIOUS
    <3>4. RightAfter(d, w, c, e, y)
      BY <1>4, <2>3, <3>1, <3>2, <3>3, EntersRight
    <3>5. e \notin DOMAIN w.cache.map
      BY <1>1
    <3>6. e = k /\ y = v
      BY <2>7, <3>2, <3>3 DEF s
    <3> QED
      BY <3>4, <3>5, <3>6 DEF RightAfter, x, t, u
  <2>9. PICK l : PushedOn(u, t, l) /\ l.state = k /\ l.idx = 0
    BY <2>8
  <2>10. MarkedAt(t, s, n, c)
    BY <1>3, <1>4, <2>3, <2>7, EnteredNextIs DEF s
  <2> HIDE DEF v, u, x, t
  <2>11. /\ u \in Stacks /\ Len(u) = n + 1 /\ u[n + 1] = l
         /\ \A j \in 1..n : /\ u[j].state = s[j].state /\ u[j].next_states = s[j].next_states
                            /\ u[j].idx = IF j = n THEN c ELSE s[j].idx
    <3>1. /\ t \in Stacks /\ Len(t) = n
          /\ \A j \in 1..n : /\ t[j].state = s[j].state /\ t[j].next_states = s[j].next_states
                             /\ t[j].idx = IF j = n THEN c ELSE s[j].idx
      BY <1>1, <2>10 DEF MarkedAt
    <3> QED
      BY <2>9, <3>1 DEF PushedOn
  <2>12. \A j \in 1..n : /\ u[j].state = f[j].state /\ u[j].next_states = f[j].next_states
                         /\ u[j].idx = g.coords[j]
    BY <1>1, <1>2, <2>11 DEF c
  <2>13. ASSUME n < m
         PROVE  /\ u[n + 1].idx = 0 /\ u[n + 1].state = f[n + 1].state
                /\ u[n + 1].next_states = f[n + 1].next_states
                /\ v.terminate = IF f[n + 1].state = Won THEN "SOLUTION_FOUND" ELSE "NO"
    <3>1. n < Len(f) /\ n + 1 \in 1..Len(f) /\ n + 1 \in 1..Len(u) /\ (n + 1) - 1 = n
      BY <1>0, <1>2, <2>11, <2>13
    <3>2. f[n + 1].state = f[n].next_states[f[n].idx]
      BY <1>0, <1>2, <3>1 DEF Shape
    <3>3. f[n + 1].state = k
      BY <1>1, <1>3, <2>13, <3>2
    <3>4. ListedBy(d, u, n) = ListedBy(d, f, n)
      BY <1>2, <2>12, ListedAgrees
    <3>5. u[n + 1].next_states = IF u[n + 1].state = Won THEN << >>
                                 ELSE Unlisted(ListedBy(d, u, n), u[n + 1].state)
      <4>1. Shape(d, u)
        BY <2>8 DEF WalkOK, Tidy, u
      <4> QED
        BY <3>1, <4>1 DEF Shape
    <3>6. f[n + 1].next_states = IF f[n + 1].state = Won THEN << >>
                                 ELSE Unlisted(ListedBy(d, f, n), f[n + 1].state)
      BY <1>0, <3>1 DEF Shape
    <3> QED
      BY <2>8, <2>9, <2>11, <3>3, <3>4, <3>5, <3>6
  <2>14. Len(u) >= n /\ DOMAIN v.cache.map = {}
    BY <1>1, <1>2, <2>8, <2>11
  <2>15. Retraced(d, g, n, v)
    BY <2>8, <2>11, <2>12, <2>13, <2>14 DEF Retraced, u, f, m
  <2> QED
    BY <2>2, <2>15 DEF c, n
<1> QED
  BY <1>6, <1>7

-----------------------------------------------------------------------------
\* Nothing of a line was read, and the walk is where the line begins.
LEMMA RetraceBegins ==
    ASSUME dealt \in Dealt, NEW g, LogOK(dealt, g)
    PROVE  Retraced(dealt, g, 0, Started)
<1> DEFINE f == g.from
           s == Started.stack
<1>0. /\ f \in Stacks /\ Len(g.coords) \in Nat /\ Len(f) \in Nat /\ Shape(dealt, f)
      /\ Len(g.coords) <= Len(f)
  BY LogTypes
<1>1. /\ WalkOK(dealt, Started) /\ DOMAIN Started.cache.map = {}
      /\ Len(s) = 1 /\ s[1].state = dealt /\ s[1].idx = 0
      /\ Started.terminate = IF dealt = Won THEN "SOLUTION_FOUND" ELSE "NO"
  BY StartsRight
<1>2. Shape(dealt, s)
  BY <1>1 DEF WalkOK, Tidy
<1> HIDE DEF f, s
<1>3. ASSUME 0 < Len(g.coords)
      PROVE  f[1].state = dealt /\ s[1].next_states = f[1].next_states
  <2>1. 1 \in 1..Len(f) /\ 1 \in 1..Len(s) /\ Len(f) > 0 /\ 1 - 1 = 0
    BY <1>0, <1>1, <1>3
  <2>2. f[1].state = dealt
    BY <1>0, <2>1 DEF Shape
  <2>3. ListedBy(dealt, f, 0) = ListedBy(dealt, s, 0)
    <3>1. \A i \in 1..0 : f[i].next_states = s[i].next_states
      OBVIOUS
    <3> QED
      BY <3>1, ListedAgrees
  <2>4. f[1].next_states = IF dealt = Won THEN << >> ELSE Unlisted(ListedBy(dealt, f, 0), dealt)
    BY <1>0, <2>1, <2>2 DEF Shape
  <2>5. s[1].next_states = IF dealt = Won THEN << >> ELSE Unlisted(ListedBy(dealt, s, 0), dealt)
    BY <1>1, <1>2, <2>1 DEF Shape
  <2> QED
    BY <2>2, <2>3, <2>4, <2>5
<1> QED
  BY <1>1, <1>3 DEF Retraced, f, s

\* A reading that goes on wherever what it comes to is a walk retraces the line.
LEMMA RetracesAlong ==
    ASSUME dealt \in Dealt, NEW g, LogOK(dealt, g), NEW f, f[0] = Started,
           \A n \in 1..Len(g.coords) :
               Reentered(f[n - 1], g.coords[n]) \in Walks => f[n] = Reentered(f[n - 1], g.coords[n])
    PROVE  \A n \in 0..Len(g.coords) : Retraced(dealt, g, n, f[n])
<1> DEFINE m == Len(g.coords)
           S == {n \in 0..m : Retraced(dealt, g, n, f[n])}
<1>0. m \in Nat /\ dealt \in Spots
  BY LogTypes, SpotsAssumption
<1>1. 0 \in S
  BY <1>0, RetraceBegins
<1>2. ASSUME NEW i \in 0..(m - 1), i \in S PROVE i + 1 \in S
  <2>1. i \in Nat /\ i < m /\ i + 1 \in 1..m /\ i + 1 \in 0..m /\ (i + 1) - 1 = i
    BY <1>0
  <2>2. Retraced(dealt, g, i, f[i])
    BY <1>2
  <2>3. PICK v : v = Reentered(f[i], g.coords[i + 1])
    OBVIOUS
  <2>4. Retraced(dealt, g, i + 1, v)
    BY <1>0, <2>1, <2>2, <2>3, RetraceStep
  <2>5. v \in Walks
    BY <2>4 DEF Retraced, WalkOK, Tidy
  <2>6. f[i + 1] = v
    BY <2>1, <2>3, <2>5
  <2> QED
    BY <2>1, <2>4, <2>6
<1> HIDE DEF S
<1>3. \A i \in 0..(m - 1) : i \in S => i + 1 \in S
  BY <1>2
<1> HIDE DEF m
<1>4. \A n \in 0..m : n \in S
  BY <1>0, <1>1, <1>3, StepByStep, Zenon
<1> QED
  BY <1>4 DEF S, m

\* To read the log again leads back to where it was written.
LEMMA LoadedRetraces ==
    ASSUME dealt \in Dealt, NEW g, LogOK(dealt, g)
    PROVE  Retraced(dealt, g, Len(g.coords), Loaded(Started, g.coords))
<1> DEFINE m == Len(g.coords)
           R(f) == f = [n \in 0..m |-> IF n = 0 THEN Started ELSE Reentered(f[n - 1], g.coords[n])]
<1>0. m \in Nat /\ g.coords \in Seq(Nat)
  BY LogTypes
<1>1. Loaded(Started, g.coords) = (CHOOSE f : R(f))[m]
  BY Zenon DEF Loaded
<1>2. \E f : R(f)
  <2> DEFINE Onward(n, w) == IF Reentered(w, g.coords[n]) \in Walks THEN Reentered(w, g.coords[n]) ELSE w
             G == [n \in 1..m |-> [w \in Walks |-> Onward(n, w)]]
  <2>1. G \in [1..m -> [Walks -> Walks]]
    OBVIOUS
  <2>2. Started \in Walks
    BY StartsRight DEF WalkOK, Tidy
  <2>3. PICK f : Iterates(f, Walks, Started, m, G)
    <3> HIDE DEF m, G
    <3> QED
      BY <1>0, <2>1, <2>2, IterationExists, Zenon
  <2>4. /\ f \in [0..m -> Walks]
        /\ \A n \in 0..m : f[n] = IF n = 0 THEN Started ELSE G[n][f[n - 1]]
    <3> HIDE DEF m, G
    <3> QED
      BY <2>3 DEF Iterates
  <2>5. \A n \in 1..m : n - 1 \in 0..m /\ n \in 0..m /\ n # 0
    BY <1>0
  <2>6. \A n \in 1..m : f[n] = Onward(n, f[n - 1])
    <3>1. \A n \in 1..m : f[n - 1] \in Walks /\ f[n] = G[n][f[n - 1]]
      <4> HIDE DEF m, G
      <4> QED
        BY <2>4, <2>5
    <3> HIDE DEF m, Onward
    <3> QED
      BY <3>1 DEF G
  <2>7. f[0] = Started
    <3>1. 0 \in 0..m
      BY <1>0
    <3> HIDE DEF m, G
    <3> QED
      BY <2>4, <3>1
  <2>8. \A n \in 0..m : Retraced(dealt, g, n, f[n])
    BY <2>6, <2>7, RetracesAlong
  <2>9. \A n \in 1..m : Reentered(f[n - 1], g.coords[n]) \in Walks
    <3> SUFFICES ASSUME NEW n \in 1..m PROVE Reentered(f[n - 1], g.coords[n]) \in Walks
      OBVIOUS
    <3>1. n - 1 \in Nat /\ n - 1 < m /\ n - 1 \in 0..m /\ (n - 1) + 1 = n
      BY <1>0
    <3>2. PICK i \in Nat : i = n - 1
      BY <3>1
    <3>3. Retraced(dealt, g, i, f[i]) /\ i < m /\ n = i + 1
      BY <2>8, <3>1, <3>2
    <3>4. Retraced(dealt, g, i + 1, Reentered(f[i], g.coords[i + 1]))
      BY <3>3, RetraceStep, SpotsAssumption
    <3> QED
      BY <3>2, <3>3, <3>4 DEF Retraced, WalkOK, Tidy
  <2>10. \A n \in 0..m : f[n] = IF n = 0 THEN Started ELSE Reentered(f[n - 1], g.coords[n])
    <3>1. \A n \in 0..m : n = 0 \/ n \in 1..m
      BY <1>0
    <3> QED
      BY <2>5, <2>6, <2>7, <2>9, <3>1
  <2> HIDE DEF m
  <2>11. R(f)
    BY <2>4, <2>10
  <2> QED
    BY <2>11
<1>3. R(CHOOSE f : R(f))
  <2> HIDE DEF R
  <2> QED
    BY <1>2
<1>4. PICK f : f = CHOOSE h : R(h)
  OBVIOUS
<1>5. R(f) /\ Loaded(Started, g.coords) = f[m]
  BY <1>1, <1>3, <1>4
<1>6. \A n \in 0..m : f[n] = IF n = 0 THEN Started ELSE Reentered(f[n - 1], g.coords[n])
  BY <1>5, Zenon
<1> HIDE DEF R
<1>7. f[0] = Started /\ \A n \in 1..m : f[n] = Reentered(f[n - 1], g.coords[n])
  <2>1. 0 \in 0..m /\ \A n \in 1..m : n \in 0..m /\ n # 0
    BY <1>0
  <2> HIDE DEF m
  <2> QED
    BY <1>6, <2>1
<1>8. Retraced(dealt, g, m, f[m])
  <2>1. m \in 0..m
    BY <1>0
  <2>2. \A n \in 0..m : Retraced(dealt, g, n, f[n])
    BY <1>7, RetracesAlong
  <2> QED
    BY <2>1, <2>2
<1> QED
  BY <1>5, <1>8

-----------------------------------------------------------------------------
(***************************************************************************)
(* The invariant: the walk is in order, and so would be one that is begun  *)
(* from the log.                                                           *)
(***************************************************************************)
WalkInv == dealt \in Dealt /\ WalkOK(dealt, walk) /\ LogOK(dealt, log) /\ MessageTrue

LEMMA LeadsBack ==
    ASSUME WalkInv
    PROVE  LogLeadsBack
<1> DEFINE again == Loaded(Started, log.coords)
           m == Len(log.coords)
<1>1. LogOK(dealt, log) /\ dealt \in Dealt
  BY DEF WalkInv
<1>2. Retraced(dealt, log, m, again)
  BY <1>1, LoadedRetraces
<1>3. /\ m \in Nat /\ DOMAIN log.coords = 1..m
      /\ \A i \in 1..m : log.coords[i] \in 0..log.from[i].idx /\ log.from[i].idx \in Nat
  <2>1. /\ log.coords \in Seq(Nat) /\ log.from \in Stacks /\ m <= Len(log.from) /\ m \in Nat
        /\ Len(log.from) \in Nat /\ \A i \in 1..m : log.coords[i] \in 0..log.from[i].idx
    BY <1>1, LogTypes
  <2>2. \A i \in 1..m : i \in 1..Len(log.from)
    BY <2>1
  <2>3. \A i \in 1..m : log.from[i].idx \in Nat
    BY <2>1, <2>2, StackLevel
  <2> QED
    BY <2>1, <2>3
<1> HIDE DEF again
<1>4. /\ again.terminate # "STRAY"
      /\ \A j \in 1..m : /\ again.stack[j].state = log.from[j].state
                         /\ again.stack[j].next_states = log.from[j].next_states
                         /\ again.stack[j].idx = log.coords[j]
  BY <1>2 DEF Retraced, WalkOK
<1>5. \A j \in 1..m : again.stack[j].idx <= log.from[j].idx
  BY <1>3, <1>4
<1> HIDE DEF m
<1> QED
  BY <1>3, <1>4, <1>5 DEF LogLeadsBack, again

LEMMA StoreIsStack ==
    ASSUME WalkInv
    PROVE  StackExact
<1> DEFINE s == walk.stack
           places == UNION {{i} \X DOMAIN s[i].next_states : i \in DOMAIN s}
           listed(p) == s[p[1]].next_states[p[2]]
<1>0. /\ dealt \in Spots /\ s \in Stacks /\ Len(s) \in Nat /\ DOMAIN s = 1..Len(s)
      /\ Shape(dealt, s) /\ walk.store = ListedBy(dealt, s, Len(s))
  <2>1. dealt \in Spots /\ Tidy(dealt, walk)
    BY SpotsAssumption DEF WalkInv, WalkOK
  <2>2. walk \in Walks /\ Shape(dealt, s) /\ walk.store = ListedBy(dealt, s, Len(s))
    BY <2>1 DEF Tidy
  <2> QED
    BY <2>1, <2>2, WalkTypes DEF Stacks
<1>1. \A i \in 1..Len(s) : DOMAIN s[i].next_states = 1..Len(s[i].next_states)
  <2>1. \A i \in 1..Len(s) : s[i].next_states \in Seq(Spots)
    BY <1>0, StackLevel
  <2> QED
    BY <2>1
<1> HIDE DEF s
<1>2. \A p \in places : /\ p[1] \in 1..Len(s) /\ p[2] \in 1..Len(s[p[1]].next_states)
                        /\ p = <<p[1], p[2]>>
  BY <1>0, <1>1
<1>3. \A i \in 1..Len(s) : \A j \in 1..Len(s[i].next_states) : <<i, j>> \in places
  BY <1>0, <1>1
<1>4. \A i \in 1..Len(s) : ToSet(s[i].next_states) = {s[i].next_states[j] : j \in 1..Len(s[i].next_states)}
  BY <1>0, StackLevel
<1>5. walk.store = {dealt} \cup {listed(p) : p \in places}
  <2>1. ASSUME NEW x \in UNION {ToSet(s[i].next_states) : i \in 1..Len(s)}
        PROVE  x \in {listed(p) : p \in places}
    <3>1. PICK i \in 1..Len(s) : x \in ToSet(s[i].next_states)
      OBVIOUS
    <3>2. PICK j \in 1..Len(s[i].next_states) : x = s[i].next_states[j]
      BY <1>4, <3>1
    <3>3. <<i, j>> \in places /\ listed(<<i, j>>) = x
      BY <1>3, <3>2
    <3> HIDE DEF places, listed
    <3> QED
      BY <3>3
  <2>2. ASSUME NEW p \in places
        PROVE  listed(p) \in UNION {ToSet(s[i].next_states) : i \in 1..Len(s)}
    <3>1. p[1] \in 1..Len(s) /\ p[2] \in 1..Len(s[p[1]].next_states)
      BY <1>2
    <3>2. listed(p) \in ToSet(s[p[1]].next_states)
      BY <1>4, <3>1
    <3> HIDE DEF places, listed
    <3> QED
      BY <3>1, <3>2
  <2>3. UNION {ToSet(s[i].next_states) : i \in 1..Len(s)} = {listed(p) : p \in places}
    <3> HIDE DEF places, listed
    <3> QED
      BY <2>1, <2>2
  <2> HIDE DEF places, listed
  <2> QED
    BY <1>0, <2>3 DEF ListedBy
<1>6. \A i \in 1..Len(s) :
         /\ ToSet(s[i].next_states) \cap ListedBy(dealt, s, i - 1) = {}
         /\ \A a, b \in 1..Len(s[i].next_states) : s[i].next_states[a] = s[i].next_states[b] => a = b
  BY <1>0, ShapeFacts
<1>7. ASSUME NEW i \in 1..Len(s), NEW h \in 1..Len(s), h < i
      PROVE  ToSet(s[i].next_states) \cap ToSet(s[h].next_states) = {}
  <2>1. h \in 1..(i - 1)
    BY <1>7
  <2>2. ToSet(s[h].next_states) \subseteq ListedBy(dealt, s, i - 1)
    BY <2>1, Zenon DEF ListedBy
  <2> QED
    BY <1>6, <2>2
<1>8. ASSUME NEW p \in places PROVE listed(p) # dealt
  <2>1. p[1] \in 1..Len(s) /\ p[2] \in 1..Len(s[p[1]].next_states)
    BY <1>2
  <2>2. listed(p) \in ToSet(s[p[1]].next_states)
    BY <1>4, <2>1
  <2>3. dealt \in ListedBy(dealt, s, p[1] - 1)
    BY DEF ListedBy
  <2> HIDE DEF listed
  <2> QED
    BY <1>6, <2>1, <2>2, <2>3
<1>9. ASSUME NEW p \in places, NEW q \in places, listed(p) = listed(q) PROVE p = q
  <2>1. /\ p[1] \in 1..Len(s) /\ p[2] \in 1..Len(s[p[1]].next_states) /\ p = <<p[1], p[2]>>
        /\ q[1] \in 1..Len(s) /\ q[2] \in 1..Len(s[q[1]].next_states) /\ q = <<q[1], q[2]>>
    BY <1>2
  <2>2. listed(p) \in ToSet(s[p[1]].next_states) /\ listed(q) \in ToSet(s[q[1]].next_states)
    BY <1>4, <2>1
  <2>3. p[1] = q[1]
    <3>1. ~(p[1] < q[1])
      <4> HIDE DEF listed
      <4> QED
        BY <1>7, <1>9, <2>1, <2>2
    <3>2. ~(q[1] < p[1])
      <4> HIDE DEF listed
      <4> QED
        BY <1>7, <1>9, <2>1, <2>2
    <3>3. p[1] \in Int /\ q[1] \in Int
      BY <2>1
    <3> QED
      BY <3>1, <3>2, <3>3
  <2>4. p[2] = q[2]
    BY <1>6, <1>9, <2>1, <2>3
  <2> HIDE DEF places
  <2> QED
    BY <2>1, <2>3, <2>4
<1> QED
  BY <1>5, <1>8, <1>9 DEF StackExact, s

LEMMA InvIsExact == WalkInv => WalkExact
<1> SUFFICES ASSUME WalkInv PROVE WalkExact
  OBVIOUS
<1>1. walk.cache \in Caches
  <2>1. walk \in Walks
    BY DEF WalkInv, WalkOK, Tidy
  <2> QED
    BY <2>1, WalkTypes
<1>2. MessageTrue
  BY DEF WalkInv
<1> QED
  BY <1>1, <1>2, LeadsBack, StoreIsStack, CachesAreExact DEF WalkExact

-----------------------------------------------------------------------------
\* What a message that is printed when the walk has ended says is so.
LEMMA EndsRight ==
    ASSUME NEW d \in Spots, NEW w, WalkOK(d, w)
    PROVE  /\ w.terminate = "SOLUTION_FOUND" => Won \in Reached(d)
           /\ w.terminate = "QUEUE" => Won \notin Reached(d)
           /\ w.terminate \in {"NO", "QUEUE", "SOLUTION_FOUND"}
<1>1. /\ w \in Walks /\ Shape(d, w.stack) /\ Right(d, w)
      /\ w.terminate # "STRAY" /\ (w.terminate = "QUEUE" => Len(w.stack) = 0)
  BY DEF WalkOK, Tidy
<1>2. w.terminate \in {"NO", "QUEUE", "SOLUTION_FOUND"} /\ Len(w.stack) \in Nat
  BY <1>1, WalkTypes
<1>3. ASSUME w.terminate = "SOLUTION_FOUND" PROVE Won \in Reached(d)
  <2>1. Len(w.stack) > 0 /\ w.stack[Len(w.stack)].state = Won
    BY <1>1, <1>3 DEF Right
  <2>2. Len(w.stack) \in 1..Len(w.stack)
    BY <1>2, <2>1
  <2> QED
    BY <1>1, <2>1, <2>2 DEF Shape
<1>4. ASSUME w.terminate = "QUEUE" PROVE Won \notin Reached(d)
  <2>1. PICK D \in SUBSET Spots : Here(d, w.stack, D)
    BY <1>1, <1>4 DEF Right
  <2>2. Sound(d, w.stack, 0, 0, D)
    BY <1>1, <1>4, <2>1 DEF Here, EnteredAt
  <2> QED
    BY <2>2, SoundOfEmpty
<1> QED
  BY <1>2, <1>3, <1>4

\* The clock of a walk is not part of what is right about it.
LEMMA CountsAside ==
    ASSUME NEW d, NEW w, WalkOK(d, w), NEW count \in Nat
    PROVE  WalkOK(d, [w EXCEPT !.processed = count])
<1>1. w \in Walks
  BY DEF WalkOK, Tidy
<1>2. PICK v : v = [w EXCEPT !.processed = count]
  OBVIOUS
<1>3. /\ v \in Walks /\ v.stack = w.stack /\ v.store = w.store /\ v.cache = w.cache
      /\ v.terminate = w.terminate
  BY <1>1, <1>2 DEF Walks
<1> QED
  BY <1>2, <1>3 DEF WalkOK, Tidy, Right

\* What is written of a walk leads back.
LEMMA LinesAreRight ==
    ASSUME WalkInv, NEW coords \in Seq(Nat), Len(coords) <= Len(walk.stack), NEW torn \in BOOLEAN,
           \A i \in 1..Len(coords) : /\ coords[i] \in 0..walk.stack[i].idx
                                     /\ i < Len(coords) => coords[i] = walk.stack[i].idx
    PROVE  LogOK(dealt, WalkLine(coords, torn))
<1>0. LogOK(dealt, log) /\ Tidy(dealt, walk)
  BY DEF WalkInv, WalkOK
<1>1. PICK line : line = WalkLine(coords, torn)
  OBVIOUS
<1>2. CASE log.torn
  <2>1. line = [log EXCEPT !.torn = torn] /\ log \in Logs
    BY <1>0, <1>1, <1>2 DEF WalkLine, LogOK
  <2>2. line \in Logs /\ line.coords = log.coords /\ line.from = log.from
    BY <2>1 DEF Logs
  <2> QED
    BY <1>0, <1>1, <2>2 DEF LogOK
<1>3. CASE ~log.torn
  <2>1. line = [coords |-> coords, count |-> walk.processed, torn |-> torn, from |-> walk.stack]
    BY <1>1, <1>3 DEF WalkLine
  <2>2. walk.processed \in Nat /\ walk.stack \in Stacks /\ Shape(dealt, walk.stack) /\ Past(dealt, walk.stack)
    BY <1>0, WalkTypes DEF Tidy
  <2>3. line \in Logs /\ line.coords = coords /\ line.from = walk.stack
    BY <2>1, <2>2 DEF Logs
  <2> QED
    BY <1>1, <2>2, <2>3 DEF LogOK
<1> QED
  BY <1>2, <1>3

LEMMA CoordsAre ==
    ASSUME WalkInv
    PROVE  /\ Coords \in Seq(Nat) /\ Len(Coords) = Len(walk.stack) /\ Len(walk.stack) \in Nat
           /\ \A i \in 1..Len(walk.stack) : Coords[i] = walk.stack[i].idx /\ Coords[i] \in Nat
<1>1. walk.stack \in Stacks /\ Len(walk.stack) \in Nat /\ DOMAIN walk.stack = 1..Len(walk.stack)
  <2>1. walk \in Walks
    BY DEF WalkInv, WalkOK, Tidy
  <2>2. walk.stack \in Stacks
    BY <2>1, WalkTypes
  <2> QED
    BY <2>2 DEF Stacks
<1>2. \A i \in 1..Len(walk.stack) : walk.stack[i].idx \in Nat
  BY <1>1, StackLevel
<1>3. Coords = [i \in 1..Len(walk.stack) |-> walk.stack[i].idx]
  BY <1>1 DEF Coords
<1>4. Coords \in Seq(Nat) /\ Len(Coords) = Len(walk.stack)
  BY <1>1, <1>2, <1>3
<1> QED
  BY <1>1, <1>2, <1>3, <1>4

LEMMA TornLinesAreRight ==
    ASSUME WalkInv, NEW coords \in TornCoords(Coords)
    PROVE  LogOK(dealt, WalkLine(coords, TRUE))
<1> DEFINE s == walk.stack
<1>0. /\ Coords \in Seq(Nat) /\ Len(Coords) = Len(s) /\ Len(s) \in Nat
      /\ \A i \in 1..Len(s) : Coords[i] = s[i].idx /\ Coords[i] \in Nat
  BY CoordsAre
<1> HIDE DEF s
<1>1. /\ coords \in Seq(Nat) /\ Len(coords) <= Len(s)
      /\ \A i \in 1..Len(coords) : coords[i] \in 0..s[i].idx /\ (i < Len(coords) => coords[i] = s[i].idx)
  <2>1. CASE coords = << >>
    BY <1>0, <2>1
  <2>2. CASE coords # << >>
    <3>1. DOMAIN Coords = 1..Len(s)
      BY <1>0
    <3>2. PICK n \in 1..Len(s) : \E c \in 0..Coords[n] : coords = Append(SubSeq(Coords, 1, n - 1), c)
      BY <2>2, <3>1 DEF TornCoords
    <3>3. PICK c \in 0..Coords[n] : coords = Append(SubSeq(Coords, 1, n - 1), c)
      BY <3>2
    <3>4. PICK head : head = SubSeq(Coords, 1, n - 1)
      OBVIOUS
    <3>5. /\ head \in Seq(Nat) /\ Len(head) = n - 1 /\ n \in Nat
          /\ \A i \in 1..(n - 1) : head[i] = Coords[i]
      <4>1. n \in Nat /\ 1 <= n /\ n <= Len(s)
        BY <1>0
      <4>2. PICK whole \in Seq(Nat) : whole = Coords
        BY <1>0
      <4>3. /\ SubSeq(whole, 1, n - 1) \in Seq(Nat) /\ Len(SubSeq(whole, 1, n - 1)) = n - 1
            /\ \A i \in 1..(n - 1) : SubSeq(whole, 1, n - 1)[i] = whole[i]
        BY <1>0, <4>1, <4>2, SubSeqProperties
      <4> QED
        BY <3>4, <4>1, <4>2, <4>3
    <3>6. c \in Nat /\ c \in 0..s[n].idx
      BY <1>0
    <3>7. /\ coords \in Seq(Nat) /\ Len(coords) = n /\ coords[n] = c
          /\ \A i \in 1..(n - 1) : coords[i] = head[i]
      BY <3>3, <3>4, <3>5, <3>6
    <3>8. ASSUME NEW i \in 1..n
          PROVE  coords[i] \in 0..s[i].idx /\ (i < n => coords[i] = s[i].idx)
      <4>1. CASE i = n
        BY <3>5, <3>6, <3>7, <4>1
      <4>2. CASE i # n
        <5>1. i \in 1..(n - 1) /\ i \in 1..Len(s)
          BY <1>0, <4>2
        <5>2. coords[i] = s[i].idx /\ s[i].idx \in Nat
          BY <1>0, <3>5, <3>7, <5>1
        <5> QED
          BY <5>2
      <4> QED
        BY <4>1, <4>2
    <3>9. n <= Len(s)
      BY <1>0
    <3> QED
      BY <3>7, <3>8, <3>9
  <2> QED
    BY <2>1, <2>2
<1> QED
  BY <1>1, LinesAreRight DEF s

\* What is said of a walk that is as it should be.
LEMMA SaysTrue ==
    ASSUME NEW w, dealt \in Dealt, WalkOK(dealt, w), dealt' = dealt, pdfs' = Said(w.terminate)
    PROVE  MessageTrue'
<1>1. /\ w.terminate = "SOLUTION_FOUND" => Won \in Reached(dealt)
      /\ w.terminate = "QUEUE" => Won \notin Reached(dealt)
      /\ w.terminate \in {"NO", "QUEUE", "SOLUTION_FOUND"}
  BY EndsRight, SpotsAssumption
<1>2. CASE w.terminate = "NO"
  <2>1. pdfs' = "running"
    BY <1>2 DEF Said
  <2> QED
    BY <2>1 DEF MessageTrue
<1>3. CASE w.terminate = "SOLUTION_FOUND"
  <2>1. pdfs' = "Solution was found."
    BY <1>3 DEF Said
  <2> QED
    BY <1>1, <1>3, <2>1 DEF MessageTrue
<1>4. CASE w.terminate = "QUEUE"
  <2>1. pdfs' = "I could not solve it."
    BY <1>4 DEF Said
  <2> QED
    BY <1>1, <1>4, <2>1 DEF MessageTrue
<1> QED
  BY <1>1, <1>2, <1>3, <1>4

LEMMA WalkInvInit == WalkInit => WalkInv
<1> SUFFICES ASSUME WalkInit PROVE WalkInv
  OBVIOUS
<1>1. dealt \in Dealt /\ log = NoLog /\ walk = Started /\ pdfs = "off"
  BY DEF WalkInit
<1>2. WalkOK(dealt, walk)
  BY <1>1, StartsRight
<1>3. LogOK(dealt, log)
  <2>1. << >> \in Stacks /\ << >> \in Seq(Nat) /\ Len(<< >>) = 0
    BY EmptySeq DEF Stacks
  <2>2. log \in Logs /\ log.coords = << >> /\ log.from = << >>
    BY <1>1, <2>1 DEF NoLog, Logs
  <2>3. Shape(dealt, << >>)
    BY <2>1 DEF Shape
  <2>4. Past(dealt, << >>)
    BY <2>1 DEF Past
  <2> QED
    BY <2>1, <2>2, <2>3, <2>4 DEF LogOK
<1>4. MessageTrue
  BY <1>1 DEF MessageTrue
<1> QED
  BY <1>1, <1>2, <1>3, <1>4 DEF WalkInv

LEMMA WalkInvNext == WalkInv /\ [WalkNext]_walkVars => WalkInv'
<1> SUFFICES ASSUME WalkInv, [WalkNext]_walkVars PROVE WalkInv'
  OBVIOUS
<1>0. dealt \in Dealt /\ dealt \in Spots /\ WalkOK(dealt, walk) /\ LogOK(dealt, log) /\ MessageTrue
  BY SpotsAssumption DEF WalkInv
<1>1. CASE StartWalk
  <2>1. dealt' = dealt /\ log' = log /\ pdfs' = Said(walk'.terminate)
    BY <1>1 DEF StartWalk
  <2>2. WalkOK(dealt, walk')
    <3>1. CASE log = NoLog
      <4>1. walk' = Started
        BY <1>1, <3>1 DEF StartWalk
      <4> QED
        BY <1>0, <4>1, StartsRight
    <3>2. CASE log # NoLog
      <4>1. walk' = [Loaded(Started, log.coords) EXCEPT !.processed = log.count]
        BY <1>1, <3>2 DEF StartWalk
      <4>2. WalkOK(dealt, Loaded(Started, log.coords))
        BY <1>0, LoadedRetraces DEF Retraced
      <4>3. log.count \in Nat
        BY <1>0, LogTypes
      <4> QED
        BY <4>1, <4>2, <4>3, CountsAside
    <3> QED
      BY <3>1, <3>2
  <2>3. MessageTrue'
    BY <1>0, <2>1, <2>2, SaysTrue
  <2> QED
    BY <1>0, <2>1, <2>2, <2>3 DEF WalkInv
<1>2. CASE Iterate
  <2>1. dealt' = dealt /\ log' = log /\ pdfs' = pdfs /\ walk' = Turn(walk) /\ walk.terminate = "NO"
        /\ pdfs = "running"
    BY <1>2 DEF Iterate, WalkGoesOn
  <2>2. WalkOK(dealt, walk')
    BY <1>0, <2>1, TurnsRight
  <2>3. MessageTrue'
    BY <2>1 DEF MessageTrue
  <2> QED
    BY <1>0, <2>1, <2>2, <2>3 DEF WalkInv
<1>3. CASE WriteLog
  <2>1. /\ dealt' = dealt /\ walk' = walk /\ log' = WalkLine(Coords, FALSE)
        /\ pdfs' = Said(walk.terminate)
    BY <1>3 DEF WriteLog
  <2>2. LogOK(dealt, WalkLine(Coords, FALSE))
    <3>1. /\ Coords \in Seq(Nat) /\ Len(Coords) = Len(walk.stack) /\ Len(walk.stack) \in Nat
          /\ \A i \in 1..Len(walk.stack) : Coords[i] = walk.stack[i].idx /\ Coords[i] \in Nat
      BY CoordsAre
    <3>2. \A i \in 1..Len(Coords) : /\ Coords[i] \in 0..walk.stack[i].idx
                                    /\ i < Len(Coords) => Coords[i] = walk.stack[i].idx
      BY <3>1
    <3>3. Len(Coords) <= Len(walk.stack)
      BY <3>1
    <3> QED
      BY <3>1, <3>2, <3>3, LinesAreRight
  <2>4. MessageTrue'
    BY <1>0, <2>1, SaysTrue
  <2> QED
    BY <1>0, <2>1, <2>2, <2>4 DEF WalkInv
<1>4. CASE KillWalk
  <2>1. dealt' = dealt /\ walk' = walk /\ log' = log /\ pdfs' = "off"
    BY <1>4 DEF KillWalk
  <2>2. MessageTrue'
    BY <2>1 DEF MessageTrue
  <2> QED
    BY <1>0, <2>1, <2>2 DEF WalkInv
<1>5. CASE KillInLine
  <2>1. dealt' = dealt /\ walk' = walk /\ pdfs' = "off"
    BY <1>5 DEF KillInLine
  <2>2. PICK coords \in TornCoords(Coords) : log' = WalkLine(coords, TRUE)
    BY <1>5 DEF KillInLine
  <2>3. LogOK(dealt, log')
    BY <2>2, TornLinesAreRight
  <2>4. MessageTrue'
    BY <2>1 DEF MessageTrue
  <2> QED
    BY <1>0, <2>1, <2>3, <2>4 DEF WalkInv
<1>6. CASE UNCHANGED walkVars
  <2>1. dealt' = dealt /\ walk' = walk /\ log' = log /\ pdfs' = pdfs
    BY <1>6 DEF walkVars
  <2>2. MessageTrue'
    BY <1>0, <2>1 DEF MessageTrue
  <2> QED
    BY <1>0, <2>1, <2>2 DEF WalkInv
<1> QED
  BY <1>1, <1>2, <1>3, <1>4, <1>5, <1>6 DEF WalkNext, WalkStep

\* What the depth-first search says of a board is so, however often it was killed and
\* started again: the log leads back to the place it was written at, the store holds
\* what the stack lists and nothing else, and the cache's list and map agree.
THEOREM WalkIsExact == WalkInit /\ [][WalkNext]_walkVars => []WalkExact
<1>1. WalkInv => WalkExact
  BY InvIsExact
<1> QED
  BY <1>1, WalkInvInit, WalkInvNext, PTL
=============================================================================
