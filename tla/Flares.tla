------------------------------- MODULE Flares -------------------------------
(***************************************************************************)
(* The public interface of the library (lib.c): a board is handed to a     *)
(* series of instances, tried one after the other.  An instance has        *)
(* several flares, searches of the same board with different strategies,   *)
(* which a plan runs in turn for so many iterations each; at a checkpoint  *)
(* the flare with the shortest solution so far, if any, gives the answer.  *)
(* The user limits the iterations of the whole, softly or not, is told     *)
(* when the limit is met, and may resume with a higher one.                *)
(*                                                                         *)
(* A flare is reduced to what its search returns on a board: after so many *)
(* iterations it has solved it, with a solution of some length, or has     *)
(* given up.  Scans models the search itself, and its QuotaRespected says  *)
(* that it stops at a limit.  There is no limit on stored states here.     *)
(***************************************************************************)
EXTENDS Integers, Sequences, FiniteSets

CONSTANTS
    Flare,       \* the flares of all instances
    Configs,     \* the instances a user may set up, see ConfigsAssumption
    Board,       \* the strings a user may pass for a board
    Result,      \* what each board comes to, see ResultAssumption
    FactorNum,   \* flares_iters_factor, as a fraction
    FactorDen,
    Limit,       \* the limits of iterations a user may set
    NoLimit,     \* -1 in the code
    NoFlare      \* a null pointer

LimitOrNone == Limit \cup {NoLimit}
RunItem == [type : {"run"}, flare : Flare, count : Nat]
IndefItem == [type : {"indef"}, flare : Flare]
Checkpoint == [type |-> "checkpoint"]
UnknownFlare == [type |-> "unknown"]

\* An instance: its flares in order, the items of its plan string (an empty one
\* is no plan at all), and a limit of its own.
InstanceSetup ==
    [flares : Seq(Flare) \ {<< >>},
     plan : Seq(RunItem \cup IndefItem \cup {Checkpoint, UnknownFlare}),
     limit : Nat \cup {NoLimit}]
FlaresIn(instance) == {instance.flares[k] : k \in DOMAIN instance.flares}

\* A flare belongs to one instance, and find_flare() looks for the name that an
\* item gives among the flares of the instance.
ConfigsAssumption ==
    \A c \in Configs :
        /\ c \in Seq(InstanceSetup) \ {<< >>}
        /\ \A i \in DOMAIN c : \A k \in DOMAIN c[i].plan :
              c[i].plan[k].type \in {"run", "indef"} => c[i].plan[k].flare \in FlaresIn(c[i])
        /\ \A i, j \in DOMAIN c : i # j => FlaresIn(c[i]) \cap FlaresIn(c[j]) = {}
ResultAssumption ==
    \A b \in Board :
        /\ Result[b].kind \in {"too_long", "invalid", "ok"}
        /\ \A f \in Flare :
              Result[b].search[f] \in [iters : Nat \ {0}, solved : BOOLEAN, length : Nat]
LimitsAssumption == Limit \subseteq Nat /\ NoLimit \notin Int /\ NoFlare \notin Flare
FactorAssumption == FactorNum \in Nat /\ FactorDen \in Nat \ {0}

ASSUME ConfigsAssumption
ASSUME ResultAssumption
ASSUME LimitsAssumption
ASSUME FactorAssumption

VARIABLES
    conf,       \* the instances, as they were set up
    board,      \* the board being solved
    at,         \* where the program is: "user", or a place of resume_solution()
    answer,     \* user->ret_code
    moves_read, \* whether the user took the moves of that answer
    limits,     \* current_iterations_limit and the soft one
    inst,       \* for each instance: its plan, place in it, best flares
    flare,      \* for each flare: ret_code, stats, whether ready, moves
    user,       \* current_instance, active_flare, the counts, all_suspended
    run,        \* the local variables of resume_solution()
    given_up    \* the flares that gave up on this board, and the instances
                \* left at their own limit (no variable of the code)

vars == <<conf, board, at, answer, moves_read, limits, inst, flare, user, run, given_up>>

Instances == DOMAIN conf

-----------------------------------------------------------------------------
(* Plans.                                                                  *)

Quota(count) == (FactorNum * count) \div FactorDen
PlanItem(item) ==
    [type |-> item.type,
     flare |-> IF item.type = "checkpoint" THEN NoFlare ELSE item.flare,
     initial |-> IF item.type = "run" THEN Quota(item.count) ELSE NoLimit,
     remaining |-> IF item.type = "run" THEN Quota(item.count) ELSE NoLimit]

Bad(plan) ==
    \E k \in DOMAIN plan : \/ plan[k] = UnknownFlare
                           \/ plan[k].type = "indef" /\ k < Len(plan)

\* A plan ends with a checkpoint, which is added if need be.
Closed(plan) ==
    IF plan[Len(plan)] = Checkpoint THEN plan ELSE Append(plan, Checkpoint)

Compile(instance) ==
    LET plan == IF instance.plan = << >>
                   THEN << [type |-> "indef", flare |-> instance.flares[1]] >>
                   ELSE instance.plan
        items == Closed(plan)
    IN [k \in DOMAIN items |-> PlanItem(items[k])]

-----------------------------------------------------------------------------
(* Limits.                                                                 *)

AtMost(S, none) ==
    LET set == S \ {NoLimit}
    IN IF set = {} THEN none ELSE CHOOSE n \in set : \A m \in set : n <= m

\* The lower one of both limits, and the local one as well.
IterationsLimit == AtMost({limits.hard, limits.soft}, NoLimit)
UpperLimit(i, f, quota) ==
    LET mine == AtMost({conf[i].limit, IterationsLimit,
                        IF quota = NoLimit THEN NoLimit ELSE user.started + quota},
                       NoLimit)
    IN IF mine = NoLimit THEN NoLimit ELSE flare[f].checked + mine - user.started

SoftIsLower ==
    limits.soft # NoLimit /\ (limits.hard # NoLimit => limits.soft < limits.hard)

GetNumTimes(u) == u.started + flare[u.active].obj - u.init

-----------------------------------------------------------------------------
(* Recycling.                                                              *)

FreshFlare == [code |-> "not_begun", checked |-> 0, obj |-> 0, ready |-> TRUE,
               traced |-> FALSE, moves |-> 0]
FlaresOf(i) == FlaresIn(conf[i])

\* The flag that says that a solution was traced outlives the recycling.
RecycledFlare(fl) == [FreshFlare EXCEPT !.traced = fl.traced]
RecycledFlares(is) ==
    [f \in Flare |-> IF \E i \in is : f \in FlaresOf(i) THEN RecycledFlare(flare[f])
                                                        ELSE flare[f]]
RecycledInst(it) == [it EXCEPT !.idx = 0, !.minimal = NoFlare, !.intractable = NoFlare]
InitAfterRecycle(is) ==
    IF \E i \in is : \E f \in FlaresOf(i) : flare[f].code # "not_begun" THEN 0 ELSE user.init

RecycleInstanceItem(i) ==
    /\ flare' = RecycledFlares({i})
    /\ inst' = [inst EXCEPT ![i] = RecycledInst(@)]
    /\ user' = [user EXCEPT !.init = InitAfterRecycle({i}), !.current = i + 1]

-----------------------------------------------------------------------------
(* Solutions.                                                              *)

\* How many moves tracing yields: once an instance is recycled, its states are
\* no longer there, and what is read in their place may be anything.
MaxJunk == 1
TracedLengths(fls, f) ==
    IF fls[f].traced THEN {fls[f].moves}
    ELSE IF fls[f].ready THEN 0..MaxJunk
    ELSE IF fls[f].code = "solved" THEN {Result[board].search[f].length}
    ELSE {0}  \* the position that the scan has got to

Traced(fl, length) ==
    [fl EXCEPT !.traced = TRUE, !.moves = length, !.ready = TRUE,
               !.obj = fl.checked, !.checked = 0]
TraceSolution(fls, f, length) ==
    IF fls[f].traced THEN fls ELSE [fls EXCEPT ![f] = Traced(@, length)]

-----------------------------------------------------------------------------
(* What the user does.  Between an answer and the next board the user      *)
(* recycles; a search is resumed if it was suspended, limits are not        *)
(* lowered then, and the moves up to a suspended position were not asked    *)
(* for, as that recycles the flare (see the hazards).                       *)

NoUser == [current |-> 1, active |-> NoFlare, init |-> 0, started |-> 0,
           all_suspended |-> TRUE]
NoRun == [ret |-> "unsolvable", soft |-> FALSE, item |-> 0, now |-> FALSE]

Init ==
    /\ conf \in Configs
    /\ board \in Board
    /\ at = "user" /\ answer = "none" /\ moves_read = FALSE
    /\ limits = [hard |-> NoLimit, soft |-> NoLimit]
    /\ inst = [i \in Instances |-> [plan |-> << >>, idx |-> 0, minimal |-> NoFlare,
                                    intractable |-> NoFlare, all_finished |-> TRUE]]
    /\ flare = [f \in Flare |-> FreshFlare]
    /\ user = NoUser
    /\ run = NoRun
    /\ given_up = [flares |-> {}, instances |-> {}]

StringIsTooLong(b) ==
    /\ at = "user" /\ answer = "none"
    /\ Result[b].kind = "too_long"
    /\ answer' = "premature_end"
    /\ UNCHANGED <<conf, board, at, moves_read, limits, inst, flare, user, run, given_up>>

PlanError(b) ==
    /\ at = "user" /\ answer = "none"
    /\ Result[b].kind # "too_long"
    /\ \E i \in Instances : Bad(conf[i].plan)
    /\ answer' = "plan_error"
    /\ UNCHANGED <<conf, board, at, moves_read, limits, inst, flare, user, run, given_up>>

SolveBoard(b, hard, soft) ==
    /\ at = "user" /\ answer = "none"
    /\ Result[b].kind # "too_long"
    /\ \A i \in Instances : ~Bad(conf[i].plan)
    /\ board' = b
    /\ limits' = [hard |-> hard, soft |-> soft]
    /\ inst' = [i \in Instances |-> [inst[i] EXCEPT !.plan = Compile(conf[i])]]
    /\ user' = [user EXCEPT !.current = 1]
    /\ run' = NoRun
    /\ at' = "loop"
    /\ UNCHANGED <<conf, answer, moves_read, flare, given_up>>

NotLower(new, old) == new # NoLimit => IF old = NoLimit THEN FALSE ELSE new >= old

ResumeSolution(hard, soft) ==
    /\ at = "user" /\ answer \in {"suspended", "soft_suspended"} /\ ~moves_read
    /\ user.current \in Instances
    /\ NotLower(hard, limits.hard) /\ NotLower(soft, limits.soft)
    /\ limits' = [hard |-> hard, soft |-> soft]
    /\ run' = NoRun
    /\ at' = "loop"
    /\ UNCHANGED <<conf, board, answer, moves_read, inst, flare, user, given_up>>

SingleFlare(it) == IF it.minimal # NoFlare THEN it.minimal ELSE it.intractable

\* The first call of it traces the solution, the others take its moves.
GetNextMove ==
    /\ at = "user" /\ answer \in {"solved", "suspended"} /\ ~moves_read
    /\ user.current \in Instances
    /\ LET f == SingleFlare(inst[user.current])
       IN \E n \in TracedLengths(flare, f) : flare' = TraceSolution(flare, f, n)
    /\ moves_read' = TRUE
    /\ UNCHANGED <<conf, board, at, answer, limits, inst, user, run, given_up>>

Recycle ==
    /\ at = "user" /\ answer # "none"
    /\ flare' = RecycledFlares(Instances)
    /\ inst' = [i \in Instances |-> RecycledInst(inst[i])]
    /\ user' = [user EXCEPT !.init = InitAfterRecycle(Instances), !.started = 0]
    /\ answer' = "none" /\ moves_read' = FALSE
    /\ given_up' = [flares |-> {}, instances |-> {}]
    /\ UNCHANGED <<conf, board, at, limits, run>>

-----------------------------------------------------------------------------
(* resume_solution().  "loop" is the head of the loop, "ran" the place      *)
(* after a flare has run, "leave" the one after the loop.                   *)

Current == user.current
CurrInst == inst[Current]
Item == CurrInst.plan[run.item]

\* The test at the end of the loop, for the instance that comes next.
Loop(current) == IF current \in Instances THEN "loop" ELSE "leave"

\* Every item has said its last word: on to the next instance.
NextInstance ==
    /\ at = "loop" /\ CurrInst.idx = Len(CurrInst.plan) /\ CurrInst.all_finished
    /\ RecycleInstanceItem(Current)
    /\ run' = [run EXCEPT !.soft = FALSE]
    /\ at' = Loop(Current + 1)
    /\ UNCHANGED <<conf, board, answer, moves_read, limits, given_up>>

RestartPlan ==
    /\ at = "loop" /\ CurrInst.idx = Len(CurrInst.plan) /\ ~CurrInst.all_finished
    /\ inst' = [inst EXCEPT ![Current].all_finished = TRUE, ![Current].idx = 0]
    /\ UNCHANGED <<conf, board, at, answer, moves_read, limits, flare, user, run, given_up>>

TakeItem(checkpoint) ==
    /\ at = "loop" /\ CurrInst.idx < Len(CurrInst.plan)
    /\ (CurrInst.plan[CurrInst.idx + 1].type = "checkpoint") = checkpoint
    /\ inst' = [inst EXCEPT ![Current].idx = @ + 1]

AnswerMinimal(it) ==
    /\ user' = [user EXCEPT !.active = it.minimal, !.init = flare[it.minimal].obj]
    /\ answer' = "solved"

CheckpointSolved ==
    /\ TakeItem(TRUE)
    /\ CurrInst.minimal # NoFlare
    /\ AnswerMinimal(CurrInst)
    /\ at' = "user"
    /\ UNCHANGED <<conf, board, moves_read, limits, flare, run, given_up>>

CheckpointPassed ==
    /\ TakeItem(TRUE)
    /\ CurrInst.minimal = NoFlare
    /\ run' = [run EXCEPT !.soft = FALSE]
    /\ UNCHANGED <<conf, board, at, answer, moves_read, limits, flare, user, given_up>>

NextFlare == CurrInst.plan[CurrInst.idx + 1].flare

InvalidBoard ==
    /\ TakeItem(FALSE)
    /\ flare[NextFlare].code = "not_begun" /\ Result[board].kind = "invalid"
    /\ user' = [user EXCEPT !.active = NextFlare, !.init = flare[NextFlare].checked]
    /\ answer' = "invalid" /\ at' = "user"
    /\ UNCHANGED <<conf, board, moves_read, limits, flare, run, given_up>>

\* Where a search may stand when it stops: at its end or at the limit.  One
\* that has nothing left to try may find that out before or after the limit.
Searched(f, max) ==
    LET end == Result[board].search[f]
        now == flare[f].checked
        last == IF end.solved THEN "solved" ELSE "unsolvable"
    IN IF max # NoLimit /\ max <= now THEN {<<"suspended", now>>}
       ELSE IF max # NoLimit /\ max < end.iters THEN {<<"suspended", max>>}
       ELSE {<<last, end.iters>>}
            \cup (IF max = end.iters /\ ~end.solved THEN {<<"suspended", max>>} ELSE {})

\* The iterations that a flare has done count for the board and for its item,
\* whose quota is not used up below zero.
NormalizeItersQuota(i) == IF i < 0 THEN 0 ELSE i
QuotaLeft(quota, delta) ==
    IF quota = NoLimit THEN NoLimit ELSE NormalizeItersQuota(quota - delta)
UpdateStats(checked, delta) ==
    [user EXCEPT !.init = checked, !.started = @ + delta]

\* What a flare returns, if it was run now, and the counts that are told of it.
RanFlare(fl, now, ret, checked) ==
    [fl EXCEPT !.checked = checked, !.obj = checked,
               !.code = IF now THEN ret ELSE @, !.ready = IF now THEN FALSE ELSE @]

\* Taking a flare up, running it if it is still in the race, and counting its
\* iterations.  Otherwise the return value of an earlier flare stays.
RunFlare ==
    LET f == NextFlare
        quota == CurrInst.plan[CurrInst.idx + 1].remaining
        now == flare[f].code \in {"not_begun", "suspended"}
    IN /\ at = "loop" /\ CurrInst.idx < Len(CurrInst.plan)
       /\ CurrInst.plan[CurrInst.idx + 1].type # "checkpoint"
       /\ flare[f].code = "not_begun" => Result[board].kind # "invalid"
       /\ \E r \in IF now THEN Searched(f, UpperLimit(Current, f, quota))
                          ELSE {<<run.ret, flare[f].checked>>} :
            LET delta == r[2] - flare[f].checked
            IN /\ flare' = [flare EXCEPT ![f] = RanFlare(@, now, r[1], r[2])]
               /\ user' = [UpdateStats(r[2], delta) EXCEPT
                               !.active = f, !.all_suspended = @ /\ r[1] = "suspended"]
               /\ inst' = [inst EXCEPT ![Current].idx = @ + 1,
                     ![Current].plan[CurrInst.idx + 1].remaining = QuotaLeft(quota, delta)]
               /\ run' = [ret |-> r[1], soft |-> SoftIsLower, item |-> CurrInst.idx + 1, now |-> now]
               /\ given_up' = IF now /\ r[1] = "unsolvable"
                                 THEN [given_up EXCEPT !.flares = @ \cup {f}]
                                 ELSE given_up
       /\ at' = "ran"
       /\ UNCHANGED <<conf, board, answer, moves_read, limits>>

\* The better one of two solutions stays, for which both are traced.
FlareSolved ==
    /\ at = "ran" /\ run.ret = "solved"
    /\ LET f == Item.flare
           m == CurrInst.minimal
           untraced == [flare EXCEPT ![f].traced = FALSE]
       IN IF m = NoFlare
             THEN /\ flare' = untraced
                  /\ inst' = [inst EXCEPT ![Current].minimal = f]
             ELSE \E old \in TracedLengths(untraced, m) :
                  LET traced == TraceSolution(untraced, m, old)
                  IN \E new \in TracedLengths(traced, f) :
                        /\ flare' = TraceSolution(traced, f, new)
                        /\ inst' = [inst EXCEPT ![Current].minimal =
                                       IF old > new THEN f ELSE @]
    /\ run' = [run EXCEPT !.ret = "unsolvable"]
    /\ at' = "loop"
    /\ UNCHANGED <<conf, board, answer, moves_read, limits, user, given_up>>

FlareUnsolvable ==
    /\ at = "ran" /\ run.ret = "unsolvable"
    /\ flare' = IF run.now THEN [flare EXCEPT ![Item.flare].checked = 0,
                                              ![Item.flare].ready = TRUE]
                           ELSE flare
    /\ at' = "loop"
    /\ UNCHANGED <<conf, board, answer, moves_read, limits, inst, user, run, given_up>>

BoardLimitMet == IterationsLimit # NoLimit /\ user.started >= IterationsLimit
QuotaMet == Item.type = "run" /\ Item.remaining = 0
LocalLimitMet(f) == conf[Current].limit # NoLimit /\ flare[f].checked >= conf[Current].limit

\* Mutant of LimitsExceeded: a resumed plan goes on with the next item.
LimitsExceededPassesOn ==
    /\ at = "ran" /\ run.ret = "suspended"
    /\ BoardLimitMet /\ ~QuotaMet
    /\ inst' = [inst EXCEPT ![Current].intractable = Item.flare]
    /\ flare' = [flare EXCEPT ![Item.flare].traced = FALSE]
    /\ at' = "leave"
    /\ UNCHANGED <<conf, board, answer, moves_read, limits, user, run, given_up>>

\* The limit of the user: the item will be taken up again.
LimitsExceeded ==
    /\ at = "ran" /\ run.ret = "suspended"
    /\ BoardLimitMet /\ ~QuotaMet
    /\ inst' = [inst EXCEPT ![Current].intractable = Item.flare, ![Current].idx = @ - 1]
    /\ flare' = [flare EXCEPT ![Item.flare].traced = FALSE]
    /\ at' = "leave"
    /\ UNCHANGED <<conf, board, answer, moves_read, limits, user, run, given_up>>

\* The limit of the instance: nothing of it is kept.
LocalLimitExceeded ==
    LET f == Item.flare
    IN /\ at = "ran" /\ run.ret = "suspended"
       /\ ~(BoardLimitMet /\ ~QuotaMet)
       /\ LocalLimitMet(f)
       /\ flare' = [RecycledFlares({Current}) EXCEPT ![f].traced = FALSE]
       /\ inst' = [inst EXCEPT ![Current] =
             RecycledInst([@ EXCEPT !.plan[run.item].remaining = Item.initial])]
       /\ user' = [user EXCEPT !.init = 0, !.current = @ + 1]
       /\ at' = Loop(Current + 1)
       /\ given_up' = [given_up EXCEPT !.instances = @ \cup {Current}]
       /\ UNCHANGED <<conf, board, answer, moves_read, limits, run>>

\* Mutant of QuotaExceeded: a quota that was used up stays so.
QuotaExceededNotFilled ==
    LET f == Item.flare
    IN /\ at = "ran" /\ run.ret = "suspended"
       /\ ~(BoardLimitMet /\ ~QuotaMet)
       /\ ~LocalLimitMet(f)
       /\ inst' = [inst EXCEPT ![Current].intractable = f, ![Current].all_finished = FALSE]
       /\ flare' = [flare EXCEPT ![f].traced = FALSE]
       /\ at' = "loop"
       /\ UNCHANGED <<conf, board, answer, moves_read, limits, user, run, given_up>>

\* The quota of the item: it is filled up for the next round.
QuotaExceeded ==
    LET f == Item.flare
    IN /\ at = "ran" /\ run.ret = "suspended"
       /\ ~(BoardLimitMet /\ ~QuotaMet)
       /\ ~LocalLimitMet(f)
       /\ inst' = [inst EXCEPT ![Current].intractable = f, ![Current].all_finished = FALSE,
                               ![Current].plan[run.item].remaining = Item.initial]
       /\ flare' = [flare EXCEPT ![f].traced = FALSE]
       /\ at' = "loop"
       /\ UNCHANGED <<conf, board, answer, moves_read, limits, user, run, given_up>>

-----------------------------------------------------------------------------
(* The answer (eval_resume_ret_code).                                       *)

Returned == IF user.all_suspended THEN "suspended" ELSE run.ret
SoftlySuspended ==
    /\ Returned = "suspended" /\ run.soft
    /\ limits.hard # NoLimit => limits.hard > GetNumTimes(user)

Leave(ret) ==
    /\ at = "leave"
    /\ answer' = ret
    /\ at' = "user"
    /\ UNCHANGED <<conf, board, moves_read, limits, inst, flare, run, given_up>>

LeaveWithout ==
    Returned # "suspended" /\ Leave(Returned) /\ UNCHANGED user
LeaveSoftly ==
    SoftlySuspended /\ Leave("soft_suspended") /\ UNCHANGED user

\* After the last instance there is no current one, whose best flare is read
\* all the same: there may or may not be something that looks like one.
LeaveSuspended ==
    /\ Returned = "suspended" /\ ~SoftlySuspended
    /\ Current \in Instances => CurrInst.minimal = NoFlare
    /\ Leave("suspended") /\ UNCHANGED user
LeaveSolved ==
    /\ Returned = "suspended" /\ ~SoftlySuspended
    /\ Current \in Instances /\ CurrInst.minimal # NoFlare
    /\ Leave("solved") /\ AnswerMinimal(CurrInst)
LeaveOutOfRange ==
    /\ Returned = "suspended" /\ ~SoftlySuspended
    /\ Current \notin Instances
    /\ Leave("solved") /\ UNCHANGED user

-----------------------------------------------------------------------------

CallSolver ==
    \E hard, soft \in LimitOrNone :
        \/ \E b \in Board : SolveBoard(b, hard, soft)
        \/ ResumeSolution(hard, soft)
UserStep ==
    \/ \E b \in Board : StringIsTooLong(b) \/ PlanError(b)
    \/ CallSolver \/ GetNextMove \/ Recycle

Step ==
    \/ NextInstance \/ RestartPlan \/ CheckpointSolved \/ CheckpointPassed
    \/ InvalidBoard \/ RunFlare
    \/ FlareSolved \/ FlareUnsolvable
    \/ LimitsExceeded \/ LocalLimitExceeded \/ QuotaExceeded
    \/ LeaveWithout \/ LeaveSoftly \/ LeaveSuspended \/ LeaveSolved \/ LeaveOutOfRange

Next == UserStep \/ Step

\* A call runs on in the thread of its caller; the user need not call.
Fairness == WF_vars(Step)
Spec == Init /\ [][Next]_vars /\ Fairness

-----------------------------------------------------------------------------
(* What the interface promises, of set-ups that keep clear of four flaws:   *)
(* an item of quota 0 makes no progress and is taken up for ever; the limit *)
(* of an instance is compared with the iterations of all instances and then *)
(* with those of one flare, and after the last instance there is none to go *)
(* on to; a flare whose solution was traced is traced again, from states    *)
(* that are no longer there, if its plan comes back to it before the next   *)
(* checkpoint; and a plan of checkpoints alone suspends a search that was   *)
(* never begun.                                                             *)

PositiveQuotas == \A i \in Instances : \A k \in DOMAIN inst[i].plan :
    inst[i].plan[k].initial # 0
UsableLimits == \A i \in Instances :
    conf[i].limit # NoLimit => i = 1 /\ Len(conf) > 1 /\ Len(conf[i].flares) = 1
CheckpointedPlans == \A i \in Instances : \A j, k \in DOMAIN inst[i].plan :
    /\ j < k
    /\ inst[i].plan[j].flare = inst[i].plan[k].flare
    /\ inst[i].plan[j].type # "checkpoint"
    => \E n \in j..k : inst[i].plan[n].type = "checkpoint"
RunningPlans == \A i \in Instances :
    inst[i].plan # << >> => \E k \in DOMAIN inst[i].plan : inst[i].plan[k].type # "checkpoint"
Sound == PositiveQuotas /\ UsableLimits /\ CheckpointedPlans /\ RunningPlans

SuspendedAtLimit ==
    /\ answer = "suspended" => GetNumTimes(user) = limits.hard
    /\ answer = "soft_suspended" => GetNumTimes(user) = limits.soft
    /\ answer \in {"solved", "unsolvable"} /\ IterationsLimit # NoLimit
          => GetNumTimes(user) <= IterationsLimit

ShortestIsGiven ==
    answer = "solved" =>
        LET length(f) == Result[board].search[f].length
            best == user.active
        IN /\ flare[best].code = "solved"
           /\ SingleFlare(CurrInst) = best
           /\ \A f \in FlaresOf(Current) :
                 flare[f].code = "solved" => length(best) <= length(f)
           /\ TracedLengths(flare, best) = {length(best)}

NothingIsLeftToTry ==
    answer = "unsolvable" =>
        \A i \in Instances \ given_up.instances : \A k \in DOMAIN inst[i].plan :
            inst[i].plan[k].flare \in given_up.flares \cup {NoFlare}

\* What the caller is told is true, however often limits suspended the search
\* and whatever other boards were solved before: "suspended" comes exactly at
\* the limit, with every iteration counted once (t/t/several-iter-limits.py);
\* "solved" comes with the shortest of the solutions that the instance found
\* (docs/flares-functional-spec.txt), whose moves can be had; and "unsolvable"
\* only when each flare of each plan has given up.
AnswersTrue == at = "user" /\ Sound =>
    SuspendedAtLimit /\ ShortestIsGiven /\ NothingIsLeftToTry
=============================================================================
