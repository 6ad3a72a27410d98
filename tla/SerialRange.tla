---------------------------- MODULE SerialRange ----------------------------
(***************************************************************************)
(* freecell-solver-range-parallel-solve (serial_range_solver.c) with       *)
(* --binary-output-to: the result of each board is written to a file       *)
(* through a buffer (range_solvers_binary_output.h).  A run that was       *)
(* killed is started again with the same arguments, and one that stopped   *)
(* at an error in its flares plan with a better plan; both go on at the    *)
(* board that the length of the file tells.                                *)
(***************************************************************************)
EXTENDS RangeSolvers

CONSTANTS
    BufferInts,    \* 16, the numbers that the buffer holds
    PerBoardLimit  \* --total-iterations-limit, the third number of the file

VARIABLES
    program,      \* "begin", "solving", "closed", "plan_error", "killed", or why it refused
    file,         \* the numbers in the file
    ragged,       \* whether a part of one more number follows them
    exists,       \* whether there is a file
    buffer,       \* the numbers still to be written
    board_num,
    num_iters
serialVars == <<program, file, ragged, exists, buffer, board_num, num_iters>>

Header == <<StartBoard, EndBoard, PerBoardLimit>>

SerialInit ==
    /\ program = "begin" /\ exists = FALSE
    /\ file = << >> /\ ragged = FALSE /\ buffer = << >>
    /\ board_num = 0 /\ num_iters = 0

\* A full buffer is written at once.
PrintInt(buf, n) == IF Len(buf) + 1 = BufferInts THEN << >> ELSE Append(buf, n)
Written(buf, n) == IF Len(buf) + 1 = BufferInts THEN Append(buf, n) ELSE << >>

NewFile ==
    /\ program = "begin" /\ ~exists
    /\ exists' = TRUE
    /\ file' = << >> /\ buffer' = Header
    /\ board_num' = StartBoard /\ num_iters' = 0
    /\ program' = "solving"
    /\ UNCHANGED ragged

\* Mutant of ResumedAt: the three numbers at the head are counted as boards.
ResumedAtHeader == file[1] + Len(file)

ResumedAt == file[1] + Len(file) - Len(Header)

TurnedDown(why) ==
    /\ program' = why
    /\ UNCHANGED <<file, ragged, exists, buffer, board_num, num_iters>>
HeaderRead == program = "begin" /\ exists /\ Len(file) >= Len(Header)

FileTooShort ==
    /\ program = "begin" /\ exists /\ Len(file) < Len(Header)
    /\ TurnedDown("too_short")
InvalidLength == HeaderRead /\ ragged /\ TurnedDown("invalid_length")
AlreadyFinished ==
    /\ HeaderRead /\ ~ragged /\ ResumedAt >= file[2]
    /\ TurnedDown("already_finished")

ResumeFile ==
    /\ HeaderRead /\ ~ragged /\ ResumedAt < file[2]
    /\ board_num' = ResumedAt /\ num_iters' = 0
    /\ buffer' = << >>
    /\ program' = "solving"
    /\ UNCHANGED <<file, ragged, exists>>

\* The number for a board: its iterations if it is solved.
SolveAndPrint ==
    /\ program = "solving" /\ board_num <= EndBoard
    /\ buffer' = PrintInt(buffer, Iters[board_num])
    /\ file' = file \o Written(buffer, Iters[board_num])
    /\ num_iters' = num_iters + Iters[board_num]
    /\ board_num' = board_num + 1
    /\ UNCHANGED <<program, ragged, exists>>

BinClose(why) ==
    /\ file' = file \o buffer /\ buffer' = << >>
    /\ program' = why
    /\ UNCHANGED <<ragged, exists, board_num, num_iters>>
RangeDone == program = "solving" /\ board_num > EndBoard /\ BinClose("closed")
\* The plan is compiled for the first board of a run, and its error ends the run,
\* with no number for that board.
StopAtPlanError ==
    /\ program = "solving" /\ board_num <= EndBoard /\ num_iters = 0
    /\ BinClose("plan_error")

\* What the program may be writing when it is killed.
OnItsWay ==
    (IF board_num > EndBoard \/ num_iters = 0 THEN {buffer} ELSE {})
    \cup (IF board_num <= EndBoard THEN {Written(buffer, Iters[board_num])} ELSE {})

\* What is in the buffer is lost, but for the beginning of what is being written,
\* which may end within a number.
Kill ==
    /\ program = "solving"
    /\ \E sent \in OnItsWay : \E n \in 0..Len(sent) :
          /\ file' = file \o SubSeq(sent, 1, n)
          /\ ragged' \in (IF n < Len(sent) THEN BOOLEAN ELSE {FALSE})
    /\ buffer' = << >>
    /\ program' = "killed"
    /\ UNCHANGED <<exists, board_num, num_iters>>
StartAgain ==
    /\ program \in {"killed", "plan_error"}
    /\ program' = "begin"
    /\ UNCHANGED <<file, ragged, exists, buffer, board_num, num_iters>>

SerialStep == NewFile \/ FileTooShort \/ InvalidLength \/ AlreadyFinished \/ ResumeFile
              \/ SolveAndPrint \/ RangeDone \/ StopAtPlanError
SerialNext == SerialStep \/ Kill \/ StartAgain

Expected == Header \o [k \in 1..Cardinality(Boards) |-> Iters[StartBoard + k - 1]]

\* Whatever was lost when the program was killed, the file tells of each board
\* in its place: nothing is missing, repeated or told of another board, and when
\* the program closes the file at the end of its range it is complete.  A file that it takes for one
\* that was finished before may lack the last board (ResumedAt = EndBoard).
SerialExact ==
    /\ file = SubSeq(Expected, 1, Len(file))
    /\ program = "closed" => file = Expected
    /\ program = "already_finished" => Len(file) >= Len(Expected) - 1
=============================================================================
