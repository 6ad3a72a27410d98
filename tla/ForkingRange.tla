---------------------------- MODULE ForkingRange ----------------------------
(***************************************************************************)
(* freecell-solver-fork-solve (forking_range_solver.c): a master gives      *)
(* batches of boards to child processes through pipes, and takes their     *)
(* responses as epoll reports them.  A child leaves when its pipe is at an *)
(* end, which is not before every process that has the writing end of it   *)
(* has closed it: the master, and the children forked later, which have    *)
(* inherited it and close it only by leaving.                              *)
(***************************************************************************)
EXTENDS RangeSolvers

CONSTANTS Children,    \* the number of child processes
          MaxEvents    \* 4, the events that epoll_wait() may give at a time

\* An array of no children is not a program (forking_range_solver.c:133).
ASSUME ChildrenAssumption == Children \in Nat \ {0} /\ MaxEvents \in Nat \ {0}

VARIABLES
    master,    \* pc, next_board_num, the workers still to be written to
               \* at first, events, the totals, the children waited for
    request,   \* for each child: its pipe from the master
    response,  \* and to it
    closed,    \* the children whose pipe the master has closed
    child,     \* for each child: pc and the batch it is at
    answered   \* how often each board was solved (no variable of the code)
forkingVars == <<master, request, response, closed, child, answered>>

Child == 1..Children
NoBatch == [board_num |-> 1, quota_end |-> 0]

\* After the children were forked.
ForkingInit ==
    /\ master = [pc |-> "start", next_board_num |-> StartBoard, started |-> 0, events |-> {},
                 iters |-> 0, finished |-> 0, waited |-> 0]
    /\ request = [c \in Child |-> << >>]
    /\ response = [c \in Child |-> << >>]
    /\ closed = {}
    /\ child = [c \in Child |-> [pc |-> "read", batch |-> NoBatch, iters |-> 0, count |-> 0]]
    /\ answered = [b \in Boards |-> 0]

\* Mutant of WriteRequest: the end of a batch is taken for the one past it.
WriteRequestOverlap(c, m) ==
    IF m.next_board_num > EndBoard
    THEN /\ master' = m
         /\ closed' = closed \cup {c}
         /\ UNCHANGED request
    ELSE LET next == Least(m.next_board_num + BoardNumStep, EndBoard + 1)
         IN /\ master' = [m EXCEPT !.next_board_num = next]
            /\ request' = [request EXCEPT ![c] =
                  Append(@, [board_num |-> m.next_board_num, quota_end |-> Least(next, EndBoard)])]
            /\ UNCHANGED closed

\* Mutant of WriteRequest: a child without a further batch is left to wait.
WriteRequestLeftOpen(c, m) ==
    IF m.next_board_num > EndBoard
    THEN master' = m /\ UNCHANGED <<closed, request>>
    ELSE LET next == Least(m.next_board_num + BoardNumStep, EndBoard + 1)
         IN /\ master' = [m EXCEPT !.next_board_num = next]
            /\ request' = [request EXCEPT ![c] =
                  Append(@, [board_num |-> m.next_board_num, quota_end |-> next - 1])]
            /\ UNCHANGED closed

\* The next batch for c, or the end of its work; m is the master so far.
WriteRequest(c, m) ==
    IF m.next_board_num > EndBoard
    THEN /\ master' = m
         /\ closed' = closed \cup {c}
         /\ UNCHANGED request
    ELSE LET next == Least(m.next_board_num + BoardNumStep, EndBoard + 1)
         IN /\ master' = [m EXCEPT !.next_board_num = next]
            /\ request' = [request EXCEPT ![c] =
                  Append(@, [board_num |-> m.next_board_num, quota_end |-> next - 1])]
            /\ UNCHANGED closed

FirstRequest ==
    /\ master.pc = "start" /\ master.started < Children
    /\ WriteRequest(master.started + 1, [master EXCEPT !.started = @ + 1])
    /\ UNCHANGED <<response, child, answered>>

Running == Child \ {c \in Child : child[c].pc = "gone"}

\* What epoll reports: a response, or the end of the pipe of a child that left.
Readable == {c \in Child : response[c] # << >> \/ c \notin Running}

EpollWait ==
    /\ \/ master.pc = "start" /\ master.started = Children
       \/ master.pc = "loop" /\ master.events = {}
    /\ master.finished < Cardinality(Boards)
    /\ Readable # {}
    /\ \E evs \in SUBSET Readable :
          /\ Cardinality(evs) = Least(MaxEvents, Cardinality(Readable))
          /\ master' = [master EXCEPT !.pc = "loop", !.events = evs]
    /\ UNCHANGED <<request, response, closed, child, answered>>

Transaction ==
    /\ master.pc = "loop"
    /\ \E c \in master.events :
       LET m == [master EXCEPT !.events = @ \ {c}]
       IN IF response[c] = << >>
          THEN master' = m /\ UNCHANGED <<request, response, closed>>
          ELSE LET r == Head(response[c])
               IN /\ response' = [response EXCEPT ![c] = Tail(@)]
                  /\ WriteRequest(c, [m EXCEPT !.iters = @ + r.num_iters,
                                               !.finished = @ + r.num_finished_boards])
    /\ UNCHANGED <<child, answered>>

AllFinished ==
    /\ master.pc = "loop" /\ master.events = {}
    /\ master.finished >= Cardinality(Boards)
    /\ master' = [master EXCEPT !.pc = "wait"]
    /\ UNCHANGED <<request, response, closed, child, answered>>

\* wait() for any child.
WaitForChild ==
    /\ master.pc = "wait"
    /\ master.waited < Children - Cardinality(Running)
    /\ master' = [master EXCEPT !.waited = @ + 1,
                     !.pc = IF master.waited + 1 = Children THEN "finished" ELSE @]
    /\ UNCHANGED <<request, response, closed, child, answered>>

ReadRequest(c) ==
    /\ child[c].pc = "read" /\ request[c] # << >>
    /\ request' = [request EXCEPT ![c] = Tail(@)]
    /\ LET req == Head(request[c])
       IN child' = [child EXCEPT ![c] = [pc |-> "solve", batch |-> req, iters |-> 0,
                                          count |-> req.quota_end - req.board_num + 1]]
    /\ UNCHANGED <<master, response, closed, answered>>

SolveBoardOf(c) ==
    LET b == child[c].batch.board_num
    IN /\ child[c].pc = "solve" /\ b <= child[c].batch.quota_end
       /\ answered' = [answered EXCEPT ![b] = @ + 1]
       /\ child' = [child EXCEPT ![c].batch.board_num = b + 1, ![c].iters = @ + Iters[b]]
       /\ UNCHANGED <<master, request, response, closed>>

Respond(c) ==
    /\ child[c].pc = "solve" /\ child[c].batch.board_num > child[c].batch.quota_end
    /\ response' = [response EXCEPT ![c] =
          Append(@, [num_iters |-> child[c].iters, num_finished_boards |-> child[c].count])]
    /\ child' = [child EXCEPT ![c].pc = "read"]
    /\ UNCHANGED <<master, request, closed, answered>>

\* The end of the pipe.
LeaveChild(c) ==
    /\ child[c].pc = "read" /\ request[c] = << >>
    /\ c \in closed /\ \A later \in Running : later <= c
    /\ child' = [child EXCEPT ![c].pc = "gone"]
    /\ UNCHANGED <<master, request, response, closed, answered>>

ChildStep(c) == ReadRequest(c) \/ SolveBoardOf(c) \/ Respond(c) \/ LeaveChild(c)
MasterStep == FirstRequest \/ EpollWait \/ Transaction \/ AllFinished \/ WaitForChild
ForkingNext == MasterStep \/ \E c \in Child : ChildStep(c)

\* No board is given to two children, the master counts no board as finished
\* that was not solved, and at the end it has counted each board's iterations.
ForkingExact ==
    /\ \A b \in Boards : answered[b] <= 1
    /\ master.finished <= Cardinality({b \in Boards : answered[b] = 1})
    /\ master.pc = "finished" =>
          /\ \A b \in Boards : answered[b] = 1
          /\ master.iters = SumOver(Boards)
=============================================================================
