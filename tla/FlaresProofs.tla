---------------------------- MODULE FlaresProofs ----------------------------
(***************************************************************************)
(* What the user of the public interface is told is true (AnswersTrue),    *)
(* for any instances, plans, limits and boards.                            *)
(*                                                                         *)
(* AnswersTrue speaks of the moment of an answer; what makes it true is    *)
(* known all along the loop of resume_solution(), and from a call to the   *)
(* one that resumes it: the iterations are counted once and stay within    *)
(* the limit (CountInv), a flare that has solved the board did so since    *)
(* the last checkpoint, is no shorter than the minimal one, and can still  *)
(* be traced (SolvedInv), an item of a round without suspension has given  *)
(* up or solved the board (RoundInv), instances that were left have        *)
(* nothing more to try (LeftInv), and the loop is left at the limit of the *)
(* user or after the last instance (LeaveInv).                             *)
(***************************************************************************)
EXTENDS Flares, SequenceTheorems, TLAPS

-----------------------------------------------------------------------------
(***************************************************************************)
(* The inductive invariant.  Its first part holds of all set-ups.          *)
(***************************************************************************)
FlareState ==
    [code : {"not_begun", "suspended", "solved", "unsolvable"},
     checked : Nat, obj : Nat, ready : BOOLEAN, traced : BOOLEAN, moves : Nat]
PlanState ==
    [type : {"run", "indef", "checkpoint"}, flare : Flare \cup {NoFlare},
     initial : Nat \cup {NoLimit}, remaining : Nat \cup {NoLimit}]
InstState ==
    [plan : Seq(PlanState), idx : Nat, minimal : Flare \cup {NoFlare},
     intractable : Flare \cup {NoFlare}, all_finished : BOOLEAN]

TypeOK ==
    /\ conf \in Configs /\ board \in Board
    /\ at \in {"user", "loop", "ran", "leave"}
    /\ answer \in {"none", "premature_end", "plan_error", "invalid", "solved",
                   "unsolvable", "suspended", "soft_suspended"}
    /\ moves_read \in BOOLEAN
    /\ limits \in [hard : LimitOrNone, soft : LimitOrNone]
    /\ inst \in [Instances -> InstState]
    /\ flare \in [Flare -> FlareState]
    /\ user \in [current : Nat, active : Flare \cup {NoFlare}, init : Nat, started : Nat,
                 all_suspended : BOOLEAN]
    /\ run \in [ret : {"suspended", "solved", "unsolvable"}, soft : BOOLEAN, item : Nat,
                now : BOOLEAN]
    /\ given_up \in [flares : SUBSET Flare, instances : SUBSET Nat]

Begun(f) == flare[f].code # "not_begun"

\* Only flares of the current instance are begun, the others wait or are recycled.
FlareInv ==
    \A f \in Flare :
        /\ ~Begun(f) => flare[f].checked = 0 /\ flare[f].obj = 0
        /\ flare[f].code = "suspended" => flare[f].checked <= Result[board].search[f].iters
        /\ Begun(f) => Current \in Instances /\ f \in FlaresOf(Current)
        /\ flare[f].code = "unsolvable" => f \in given_up.flares

\* A plan ends with a checkpoint, and its items name flares of their instance.
PlanExact(plan, fs) ==
    /\ \A k \in DOMAIN plan : IF plan[k].type = "checkpoint" THEN plan[k].flare = NoFlare
                              ELSE plan[k].flare \in fs
    /\ plan # << >> => plan[Len(plan)].type = "checkpoint"

PlanInv ==
    \A i \in Instances :
        /\ inst[i].idx <= Len(inst[i].plan)
        /\ PlanExact(inst[i].plan, FlaresOf(i))
        /\ i # Current => inst[i].idx = 0 /\ inst[i].minimal = NoFlare
        /\ inst[i].minimal # NoFlare => flare[inst[i].minimal].code = "solved"

Suspended == answer \in {"suspended", "soft_suspended"}

CallInv ==
    /\ Current \in 1..(Len(conf) + 1)
    /\ at \in {"loop", "ran"} => Current \in Instances
    /\ at # "user" \/ Suspended => \A i \in Instances : inst[i].plan # << >>
    /\ run.ret = "solved" => at = "ran"
    /\ user.active = NoFlare => user.all_suspended
    /\ (\A f \in Flare : ~Begun(f)) => user.init = 0

\* The flare of an item has been run, or is out of the race.
RanInv ==
    at = "ran" =>
        LET fl == flare[user.active]
        IN /\ run.item = CurrInst.idx /\ run.item \in DOMAIN CurrInst.plan
           /\ Item.type # "checkpoint" /\ user.active = Item.flare
           /\ run.soft = SoftIsLower
           /\ fl.checked = fl.obj
           /\ IF run.now THEN fl.code = run.ret /\ ~fl.ready /\ CurrInst.minimal # user.active
              ELSE fl.code \in {"solved", "unsolvable"} /\ run.ret # "solved"
           /\ run.ret # "suspended" => ~user.all_suspended

\* Between two boards everything has been recycled.
CleanInv ==
    at = "user" /\ answer = "none" =>
        /\ \A f \in Flare : ~Begun(f)
        /\ \A i \in Instances : inst[i].idx = 0 /\ inst[i].minimal = NoFlare
        /\ user.started = 0
        /\ given_up = [flares |-> {}, instances |-> {}]

(***************************************************************************)
(* The second part holds of sound set-ups, in a call or between two calls  *)
(* of which the second resumes the first.                                  *)
(***************************************************************************)
Length(f) == Result[board].search[f].length

Live == at # "user" \/ (Suspended /\ ~moves_read /\ Current \in Instances)

\* Every iteration is counted once, and the limit is not passed.
CountInv ==
    /\ user.active # NoFlare => flare[user.active].obj = user.init
    /\ IterationsLimit # NoLimit => user.started <= IterationsLimit

\* A flare that has solved the board did so since the last checkpoint.
Listed(f) ==
    \E j \in 1..CurrInst.idx :
        /\ CurrInst.plan[j].flare = f
        /\ \A n \in j..CurrInst.idx : CurrInst.plan[n].type # "checkpoint"

\* The moves of its solution are at hand, or can be traced.
Told(f) ==
    IF flare[f].traced THEN flare[f].moves = Length(f)
    ELSE ~flare[f].ready /\ flare[f].checked = flare[f].obj

SolvedInv ==
    \A f \in Flare : flare[f].code = "solved" =>
        /\ Listed(f)
        /\ ~(at = "ran" /\ run.ret = "solved" /\ user.active = f) =>
              /\ CurrInst.minimal # NoFlare
              /\ Length(CurrInst.minimal) <= Length(f)
              /\ Told(f)

\* What a flare that was not run now returned was returned by all before it.
StaleInv ==
    at = "ran" =>
        /\ flare[user.active].code = "solved" => run.ret = "solved"
        /\ run.ret = "unsolvable" => user.active \in given_up.flares

\* As long as no item of the round was suspended, each has said its last word.
Done == IF at = "ran" THEN CurrInst.idx - 1 ELSE CurrInst.idx
RoundInv ==
    Current \in Instances /\ CurrInst.all_finished =>
        \A k \in 1..Done : CurrInst.plan[k].type # "checkpoint" =>
            /\ \/ CurrInst.plan[k].flare \in given_up.flares
               \/ flare[CurrInst.plan[k].flare].code = "solved"
            /\ ~user.all_suspended
            /\ at = "loop" => run.ret = "unsolvable"

\* Instances are left when all their flares have given up, or at their own limit.
LeftInv ==
    \A i \in Instances \ given_up.instances : i < Current =>
        \A k \in DOMAIN inst[i].plan : inst[i].plan[k].flare \in given_up.flares \cup {NoFlare}

\* The loop is left at the limit of the user or after the last instance.
LeaveInv ==
    at = "leave" =>
        IF Current \in Instances
        THEN /\ run.ret = "suspended" /\ BoardLimitMet /\ run.soft = SoftIsLower
             /\ user.active # NoFlare /\ CurrInst.intractable = user.active
             /\ flare[user.active].checked = flare[user.active].obj
        ELSE run.ret = "unsolvable" /\ ~user.all_suspended

LiveInv == CountInv /\ SolvedInv /\ StaleInv /\ RoundInv /\ LeftInv /\ LeaveInv

\* What the user is told, and the flare whose moves he may ask for.
ToldInv ==
    /\ SuspendedAtLimit /\ ShortestIsGiven /\ NothingIsLeftToTry
    /\ answer \in {"solved", "suspended"} /\ ~moves_read /\ Current \in Instances =>
          /\ user.active # NoFlare /\ SingleFlare(CurrInst) = user.active
          /\ flare[user.active].traced \/ flare[user.active].checked = flare[user.active].obj

BaseInv == TypeOK /\ FlareInv /\ PlanInv /\ CallInv /\ RanInv /\ CleanInv
SoundInv == Sound => (Live => LiveInv) /\ (at = "user" => ToldInv)
IInv == BaseInv /\ SoundInv

-----------------------------------------------------------------------------
(***************************************************************************)
(* What the assumptions say of the set-up.                                 *)
(***************************************************************************)
\* The instances are numbered, have flares and plans of their own, and limits.
LEMMA SetupFacts ==
    ASSUME NEW c \in Configs
    PROVE  /\ DOMAIN c = 1..Len(c) /\ Len(c) \in Nat \ {0}
           /\ \A i \in DOMAIN c :
                /\ c[i] \in InstanceSetup
                /\ c[i].flares \in Seq(Flare) \ {<< >>} /\ FlaresIn(c[i]) \subseteq Flare
                /\ c[i].plan \in Seq(RunItem \cup IndefItem \cup {Checkpoint, UnknownFlare})
                /\ c[i].limit \in Nat \cup {NoLimit}
                /\ \A k \in DOMAIN c[i].plan :
                      c[i].plan[k].type \in {"run", "indef"} => c[i].plan[k].flare \in FlaresIn(c[i])
           /\ \A i, j \in DOMAIN c : i # j => FlaresIn(c[i]) \cap FlaresIn(c[j]) = {}
<1>1. /\ c \in Seq(InstanceSetup) \ {<< >>}
      /\ \A i \in DOMAIN c : \A k \in DOMAIN c[i].plan :
            c[i].plan[k].type \in {"run", "indef"} => c[i].plan[k].flare \in FlaresIn(c[i])
      /\ \A i, j \in DOMAIN c : i # j => FlaresIn(c[i]) \cap FlaresIn(c[j]) = {}
  BY ConfigsAssumption DEF ConfigsAssumption
<1>2. DOMAIN c = 1..Len(c) /\ Len(c) \in Nat \ {0}
  BY <1>1
<1>3. ASSUME NEW i \in DOMAIN c
      PROVE  /\ c[i] \in InstanceSetup
             /\ c[i].flares \in Seq(Flare) \ {<< >>} /\ FlaresIn(c[i]) \subseteq Flare
             /\ c[i].plan \in Seq(RunItem \cup IndefItem \cup {Checkpoint, UnknownFlare})
             /\ c[i].limit \in Nat \cup {NoLimit}
  <2>1. c[i] \in InstanceSetup
    BY <1>1, <1>2
  <2>2. c[i].flares \in Seq(Flare) \ {<< >>}
    BY <2>1 DEF InstanceSetup
  <2>3. FlaresIn(c[i]) \subseteq Flare
    BY <2>2 DEF FlaresIn
  <2> QED
    BY <2>1, <2>2, <2>3 DEF InstanceSetup
<1> QED
  BY <1>1, <1>2, <1>3

\* What a search comes to.
LEMMA SearchFacts ==
    ASSUME NEW b \in Board, NEW f \in Flare
    PROVE  /\ Result[b].search[f].iters \in Nat \ {0}
           /\ Result[b].search[f].solved \in BOOLEAN
           /\ Result[b].search[f].length \in Nat
<1>1. Result[b].search[f] \in [iters : Nat \ {0}, solved : BOOLEAN, length : Nat]
  BY ResultAssumption DEF ResultAssumption
<1> QED
  BY <1>1

\* The least of up to three limits, where there are any.
LEMMA LeastLimit ==
    ASSUME NEW a \in Nat \cup {NoLimit}, NEW b \in Nat \cup {NoLimit}, NEW c \in Nat \cup {NoLimit},
           NEW m, m = AtMost({a, b, c}, NoLimit)
    PROVE  /\ m \in Nat \cup {NoLimit}
           /\ m = NoLimit <=> a = NoLimit /\ b = NoLimit /\ c = NoLimit
           /\ m # NoLimit => m \in {a, b, c}
           /\ \A n \in {a, b, c} \ {NoLimit} : m <= n
<1> DEFINE set == {a, b, c} \ {NoLimit}
<1>1. set \subseteq Nat /\ NoLimit \notin Nat
  BY LimitsAssumption DEF LimitsAssumption
<1>2. CASE set = {}
  BY <1>2 DEF AtMost
<1>3. CASE set # {}
  <2>1. \E n \in set : \A k \in set : n <= k
    <3>1. PICK x : x \in set
      BY <1>3
    <3>2. CASE \A k \in set : x <= k
      BY <3>1, <3>2
    <3>3. ASSUME NEW y \in set, ~(x <= y)
          PROVE  \E n \in set : \A k \in set : n <= k
      <4>1. CASE \A k \in set : y <= k
        BY <3>3, <4>1
      <4>2. ASSUME NEW z \in set, ~(y <= z)
            PROVE  \E n \in set : \A k \in set : n <= k
        <5>1. x \in Nat /\ y \in Nat /\ z \in Nat /\ y < x /\ z < y
          BY <1>1, <3>1, <3>3, <4>2
        <5>2. set \subseteq {x, y, z}
          BY <5>1, <3>1, <3>3, <4>2
        <5>3. \A k \in set : z <= k
          BY <5>1, <5>2
        <5> QED
          BY <5>3, <4>2
      <4> QED
        BY <4>1, <4>2
    <3> QED
      BY <3>2, <3>3
  <2>2. m = CHOOSE n \in set : \A k \in set : n <= k
    BY <1>3 DEF AtMost
  <2>3. m \in set /\ \A k \in set : m <= k
    BY <2>1, <2>2
  <2> QED
    BY <2>3, <1>1
<1> QED
  BY <1>2, <1>3

\* The limit of the user is the lower one of the hard and the soft limit.
LEMMA BoardLimit ==
    ASSUME NEW l \in [hard : LimitOrNone, soft : LimitOrNone],
           NEW m, m = AtMost({l.hard, l.soft}, NoLimit)
    PROVE  /\ l.hard \in Nat \cup {NoLimit} /\ l.soft \in Nat \cup {NoLimit}
           /\ m \in Nat \cup {NoLimit}
           /\ m = NoLimit <=> l.hard = NoLimit /\ l.soft = NoLimit
           /\ m # NoLimit => m \in {l.hard, l.soft}
           /\ l.hard # NoLimit => m <= l.hard
           /\ l.soft # NoLimit => m <= l.soft
<1>1. l.hard \in Nat \cup {NoLimit} /\ l.soft \in Nat \cup {NoLimit}
  BY LimitsAssumption DEF LimitsAssumption, LimitOrNone
<1>2. {l.hard, l.soft} = {l.hard, l.soft, l.soft}
  OBVIOUS
<1> DEFINE a == l.hard
           b == l.soft
<1>3. a \in Nat \cup {NoLimit} /\ b \in Nat \cup {NoLimit} /\ m = AtMost({a, b, b}, NoLimit)
  BY <1>1, <1>2
<1> HIDE DEF a, b
<1>4. /\ m \in Nat \cup {NoLimit}
      /\ m = NoLimit <=> a = NoLimit /\ b = NoLimit /\ b = NoLimit
      /\ m # NoLimit => m \in {a, b, b}
      /\ \A n \in {a, b, b} \ {NoLimit} : m <= n
  BY ONLY <1>3, LeastLimit
<1> QED
  BY <1>3, <1>4 DEF a, b

\* A search that runs does not lose iterations, and stops at the limit of the user.
LEMMA SearchStops ==
    ASSUME TypeOK, NEW f \in Flare, flare[f].checked <= Result[board].search[f].iters,
           NEW i \in Instances, NEW quota \in Nat \cup {NoLimit},
           NEW r \in Searched(f, UpperLimit(i, f, quota))
    PROVE  /\ r[1] \in {"suspended", "solved", "unsolvable"}
           /\ r[2] \in Nat /\ flare[f].checked <= r[2] /\ r[2] <= Result[board].search[f].iters
           /\ IterationsLimit # NoLimit /\ user.started <= IterationsLimit =>
                 user.started + (r[2] - flare[f].checked) <= IterationsLimit
<1> DEFINE now == flare[f].checked
           end == Result[board].search[f]
           q == IF quota = NoLimit THEN NoLimit ELSE user.started + quota
           mine == AtMost({conf[i].limit, IterationsLimit, q}, NoLimit)
           max == UpperLimit(i, f, quota)
<1>1. now \in Nat /\ user.started \in Nat /\ board \in Board /\ conf \in Configs
  BY DEF TypeOK, FlareState
<1>2. end.iters \in Nat /\ end.solved \in BOOLEAN /\ now <= end.iters
  BY <1>1, SearchFacts
<1>3. IterationsLimit \in Nat \cup {NoLimit}
  BY BoardLimit DEF TypeOK, IterationsLimit
<1>4. conf[i].limit \in Nat \cup {NoLimit}
  BY <1>1, SetupFacts DEF Instances
<1>5. q \in Nat \cup {NoLimit}
  BY <1>1
<1>6. /\ mine \in Nat \cup {NoLimit}
      /\ mine = NoLimit => IterationsLimit = NoLimit
      /\ IterationsLimit # NoLimit => mine <= IterationsLimit
  <2> DEFINE a == conf[i].limit
             b == IterationsLimit
  <2>1. /\ a \in Nat \cup {NoLimit} /\ b \in Nat \cup {NoLimit} /\ q \in Nat \cup {NoLimit}
        /\ mine = AtMost({a, b, q}, NoLimit)
    BY <1>3, <1>4, <1>5
  <2> HIDE DEF a, b, q, mine
  <2>2. /\ mine \in Nat \cup {NoLimit}
        /\ mine = NoLimit <=> a = NoLimit /\ b = NoLimit /\ q = NoLimit
        /\ \A n \in {a, b, q} \ {NoLimit} : mine <= n
    BY ONLY <2>1, LeastLimit
  <2> QED
    BY <2>2 DEF b
<1>7. max = IF mine = NoLimit THEN NoLimit ELSE now + mine - user.started
  BY DEF UpperLimit
<1>8. NoLimit \notin Int
  BY LimitsAssumption DEF LimitsAssumption
<1>9. /\ max = NoLimit => mine = NoLimit
      /\ max # NoLimit => max \in Int /\ mine \in Nat /\ max = now + mine - user.started
  BY <1>1, <1>6, <1>7, <1>8
<1> HIDE DEF max, mine, q
<1>10. \/ max # NoLimit /\ max <= now /\ r = <<"suspended", now>>
       \/ max # NoLimit /\ ~(max <= now) /\ max < end.iters /\ r = <<"suspended", max>>
       \/ ~(max # NoLimit /\ max < end.iters) /\ r \in {<<"solved", end.iters>>, <<"unsolvable", end.iters>>}
       \/ max = end.iters /\ r = <<"suspended", max>>
  <2>1. r \in Searched(f, max)
    BY DEF max
  <2> QED
    BY <2>1, <1>1, <1>2, <1>9 DEF Searched
<1>11. CASE max # NoLimit /\ max <= now /\ r = <<"suspended", now>>
  BY <1>1, <1>2, <1>3, <1>6, <1>9, <1>11
<1>12. CASE max # NoLimit /\ ~(max <= now) /\ max < end.iters /\ r = <<"suspended", max>>
  BY <1>1, <1>2, <1>3, <1>6, <1>9, <1>12
<1>13. CASE ~(max # NoLimit /\ max < end.iters) /\ r \in {<<"solved", end.iters>>, <<"unsolvable", end.iters>>}
  BY <1>1, <1>2, <1>3, <1>6, <1>9, <1>13
<1>14. CASE max = end.iters /\ r = <<"suspended", max>>
  BY <1>1, <1>2, <1>3, <1>6, <1>8, <1>9, <1>14
<1> QED
  BY <1>10, <1>11, <1>12, <1>13, <1>14

-----------------------------------------------------------------------------
(***************************************************************************)
(* Plans.                                                                  *)
(***************************************************************************)
\* The parts of the state have their types.
LEMMA TypeFacts ==
    ASSUME TypeOK
    PROVE  /\ DOMAIN conf = Instances /\ Instances = 1..Len(conf) /\ Len(conf) \in Nat \ {0}
           /\ \A i \in Instances :
                /\ inst[i] \in InstState /\ inst[i].plan \in Seq(PlanState)
                /\ inst[i].idx \in Nat /\ inst[i].all_finished \in BOOLEAN
                /\ inst[i].minimal \in Flare \cup {NoFlare}
                /\ inst[i].intractable \in Flare \cup {NoFlare}
                /\ FlaresOf(i) \subseteq Flare
                /\ \A k \in DOMAIN inst[i].plan : inst[i].plan[k] \in PlanState
           /\ \A i, j \in Instances : i # j => FlaresOf(i) \cap FlaresOf(j) = {}
           /\ \A f \in Flare :
                /\ flare[f] \in FlareState
                /\ flare[f].code \in {"not_begun", "suspended", "solved", "unsolvable"}
                /\ flare[f].checked \in Nat /\ flare[f].obj \in Nat /\ flare[f].moves \in Nat
                /\ flare[f].ready \in BOOLEAN /\ flare[f].traced \in BOOLEAN
           /\ user.current \in Nat /\ user.active \in Flare \cup {NoFlare}
           /\ user.init \in Nat /\ user.started \in Nat /\ user.all_suspended \in BOOLEAN
           /\ run.ret \in {"suspended", "solved", "unsolvable"} /\ run.soft \in BOOLEAN
           /\ run.item \in Nat /\ run.now \in BOOLEAN
           /\ given_up.flares \subseteq Flare /\ given_up.instances \subseteq Nat
           /\ NoFlare \notin Flare
<1>1. DOMAIN conf = Instances /\ Instances = 1..Len(conf) /\ Len(conf) \in Nat \ {0}
  BY SetupFacts DEF TypeOK, Instances
<1>2. \A i \in Instances : FlaresOf(i) \subseteq Flare
  BY SetupFacts DEF TypeOK, Instances, FlaresOf
<1>3. \A i, j \in Instances : i # j => FlaresOf(i) \cap FlaresOf(j) = {}
  BY SetupFacts DEF TypeOK, Instances, FlaresOf
<1>4. ASSUME NEW i \in Instances
      PROVE  /\ inst[i] \in InstState /\ inst[i].plan \in Seq(PlanState)
             /\ inst[i].idx \in Nat /\ inst[i].all_finished \in BOOLEAN
             /\ inst[i].minimal \in Flare \cup {NoFlare}
             /\ inst[i].intractable \in Flare \cup {NoFlare}
             /\ \A k \in DOMAIN inst[i].plan : inst[i].plan[k] \in PlanState
  <2>1. inst[i] \in InstState
    BY DEF TypeOK
  <2>2. /\ inst[i].plan \in Seq(PlanState)
        /\ inst[i].idx \in Nat /\ inst[i].all_finished \in BOOLEAN
        /\ inst[i].minimal \in Flare \cup {NoFlare}
        /\ inst[i].intractable \in Flare \cup {NoFlare}
    BY <2>1 DEF InstState
  <2>3. \A k \in DOMAIN inst[i].plan : inst[i].plan[k] \in PlanState
    BY <2>2
  <2> QED
    BY <2>1, <2>2, <2>3
<1>5. ASSUME NEW f \in Flare
      PROVE  /\ flare[f] \in FlareState
             /\ flare[f].code \in {"not_begun", "suspended", "solved", "unsolvable"}
             /\ flare[f].checked \in Nat /\ flare[f].obj \in Nat /\ flare[f].moves \in Nat
             /\ flare[f].ready \in BOOLEAN /\ flare[f].traced \in BOOLEAN
  <2>1. flare[f] \in FlareState
    BY DEF TypeOK
  <2> QED
    BY <2>1 DEF FlareState
<1>6. /\ user.current \in Nat /\ user.active \in Flare \cup {NoFlare}
      /\ user.init \in Nat /\ user.started \in Nat /\ user.all_suspended \in BOOLEAN
  BY DEF TypeOK
<1>7. /\ run.ret \in {"suspended", "solved", "unsolvable"} /\ run.soft \in BOOLEAN
      /\ run.item \in Nat /\ run.now \in BOOLEAN
  BY DEF TypeOK
<1>8. given_up.flares \subseteq Flare /\ given_up.instances \subseteq Nat
  BY DEF TypeOK
<1> QED
  BY <1>1, <1>2, <1>3, <1>4, <1>5, <1>6, <1>7, <1>8, LimitsAssumption DEF LimitsAssumption

\* So does a plan that was compiled.
LEMMA CompiledPlan ==
    ASSUME NEW c \in Configs, NEW i \in DOMAIN c, ~Bad(c[i].plan)
    PROVE  /\ Compile(c[i]) \in Seq(PlanState) /\ Compile(c[i]) # << >>
           /\ PlanExact(Compile(c[i]), FlaresIn(c[i]))
<1> DEFINE instance == c[i]
           Named == {it \in RunItem \cup IndefItem \cup {Checkpoint} :
                        it.type # "checkpoint" => it.flare \in FlaresIn(instance)}
           plan == IF instance.plan = << >>
                      THEN << [type |-> "indef", flare |-> instance.flares[1]] >>
                      ELSE instance.plan
           items == Closed(plan)
<1>1. /\ instance.flares \in Seq(Flare) \ {<< >>} /\ FlaresIn(instance) \subseteq Flare
      /\ instance.plan \in Seq(RunItem \cup IndefItem \cup {Checkpoint, UnknownFlare})
      /\ \A k \in DOMAIN instance.plan :
            instance.plan[k].type \in {"run", "indef"} => instance.plan[k].flare \in FlaresIn(instance)
  BY SetupFacts
<1>2. Checkpoint \in Named /\ Checkpoint.type = "checkpoint"
  BY DEF Checkpoint
<1>3. plan \in Seq(Named) \ {<< >>}
  <2>1. CASE instance.plan = << >>
    <3>1. instance.flares[1] \in FlaresIn(instance) /\ FlaresIn(instance) \subseteq Flare
      BY <1>1 DEF FlaresIn
    <3>2. [type |-> "indef", flare |-> instance.flares[1]] \in Named
      BY <3>1 DEF IndefItem
    <3> QED
      BY <2>1, <3>2
  <2>2. CASE instance.plan # << >>
    <3>1. \A k \in 1..Len(instance.plan) : instance.plan[k] \in Named
      <4> SUFFICES ASSUME NEW k \in 1..Len(instance.plan)
                   PROVE  instance.plan[k] \in Named
        OBVIOUS
      <4>1. instance.plan[k] \in RunItem \cup IndefItem \cup {Checkpoint, UnknownFlare}
        BY <1>1
      <4>2. instance.plan[k] # UnknownFlare
        BY <1>1 DEF Bad
      <4>3. instance.plan[k] \in RunItem \cup IndefItem => instance.plan[k].type \in {"run", "indef"}
        BY DEF RunItem, IndefItem
      <4> QED
        BY <1>1, <1>2, <4>1, <4>2, <4>3
    <3>2. instance.plan \in Seq(Named)
      BY <3>1, <1>1
    <3> QED
      BY <2>2, <3>2
  <2> QED
    BY <2>1, <2>2
<1> HIDE DEF Named, plan
<1>4. items \in Seq(Named) \ {<< >>} /\ items[Len(items)] = Checkpoint
  BY <1>2, <1>3 DEF Closed
<1> HIDE DEF items
<1>5. ASSUME NEW it \in Named
      PROVE  /\ PlanItem(it) \in PlanState
             /\ PlanItem(it).type = it.type
             /\ IF it.type = "checkpoint" THEN PlanItem(it).flare = NoFlare
                ELSE PlanItem(it).flare \in FlaresIn(instance)
  <2>1. it.type # "checkpoint" => it.flare \in FlaresIn(instance) /\ it.flare \in Flare
    BY <1>1 DEF Named
  <2>2. /\ it.type \in {"run", "indef", "checkpoint"}
        /\ it.type = "run" => it.count \in Nat
    BY DEF Named, RunItem, IndefItem, Checkpoint
  <2>3. ASSUME it.type = "run" PROVE Quota(it.count) \in Nat
    <3>1. FactorNum * it.count \in Nat
      BY <2>2, <2>3, FactorAssumption DEF FactorAssumption
    <3> QED
      BY <3>1, FactorAssumption DEF FactorAssumption, Quota
  <2> HIDE DEF Named
  <2> QED
    BY <2>1, <2>2, <2>3 DEF PlanItem, PlanState
<1>6. Compile(instance) = [k \in DOMAIN items |-> PlanItem(items[k])]
  BY DEF Compile, items, plan
<1>7. \A k \in DOMAIN items : items[k] \in Named
  BY <1>4
<1>8. /\ Compile(instance) \in Seq(PlanState) /\ Compile(instance) # << >>
      /\ Len(Compile(instance)) = Len(items) /\ DOMAIN Compile(instance) = DOMAIN items
  BY <1>4, <1>5, <1>6, <1>7
<1>9. Compile(instance)[Len(items)].type = "checkpoint"
  BY <1>2, <1>4, <1>5, <1>6, <1>7
<1>10. \A k \in DOMAIN items :
          IF Compile(instance)[k].type = "checkpoint" THEN Compile(instance)[k].flare = NoFlare
          ELSE Compile(instance)[k].flare \in FlaresIn(instance)
  BY <1>5, <1>6, <1>7
<1> QED
  BY <1>8, <1>9, <1>10 DEF PlanExact

\* Plans keep their items, but for what remains of the quotas.
SamePlan(new, old) ==
    /\ new \in Seq(PlanState)
    /\ Len(new) = Len(old) /\ (new = << >> <=> old = << >>)
    /\ DOMAIN new = DOMAIN old
    /\ \A k \in DOMAIN old : /\ new[k].type = old[k].type /\ new[k].flare = old[k].flare
                             /\ new[k].initial = old[k].initial

\* A plan that no step touches is the same plan.
LEMMA UntouchedPlan ==
    ASSUME NEW plan \in Seq(PlanState)
    PROVE  SamePlan(plan, plan)
BY DEF SamePlan

\* What remains of the quota of one item may change.
LEMMA PlanWithRemaining ==
    ASSUME NEW plan \in Seq(PlanState), NEW k \in DOMAIN plan, NEW n \in Nat \cup {NoLimit}
    PROVE  SamePlan([plan EXCEPT ![k].remaining = n], plan)
<1> DEFINE new == [plan EXCEPT ![k].remaining = n]
<1>1. DOMAIN new = DOMAIN plan /\ DOMAIN plan = 1..Len(plan) /\ Len(plan) \in Nat
  OBVIOUS
<1>2. \A j \in DOMAIN plan :
         /\ plan[j] \in PlanState
         /\ new[j] = IF j = k THEN [plan[k] EXCEPT !.remaining = n] ELSE plan[j]
  OBVIOUS
<1> HIDE DEF new
<1>3. ASSUME NEW j \in DOMAIN plan
      PROVE  /\ new[j] \in PlanState /\ new[j].type = plan[j].type /\ new[j].flare = plan[j].flare
             /\ new[j].initial = plan[j].initial
  <2> DEFINE it == plan[j]
  <2>1. it \in PlanState /\ (new[j] = it \/ new[j] = [it EXCEPT !.remaining = n])
    BY <1>2
  <2> HIDE DEF it
  <2>2. new[j] \in PlanState /\ new[j].type = it.type /\ new[j].flare = it.flare
        /\ new[j].initial = it.initial
    BY <2>1 DEF PlanState
  <2> QED
    BY <2>2 DEF it
<1>4. new = [j \in 1..Len(plan) |-> new[j]]
  BY <1>1, Zenon DEF new
<1>5. new \in Seq(PlanState) /\ Len(new) = Len(plan)
  BY <1>1, <1>3, <1>4
<1>6. new = << >> <=> plan = << >>
  BY <1>1, <1>5
<1> QED
  BY <1>1, <1>3, <1>5, <1>6 DEF SamePlan, new

SamePlans == \A i \in Instances : SamePlan(inst'[i].plan, inst[i].plan)

\* Whether a set-up is sound does not change.
LEMMA SoundStays ==
    ASSUME conf' = conf, SamePlans
    PROVE  Sound' <=> Sound
<1>1. Instances' = Instances
  BY DEF Instances
<1>2. PositiveQuotas' <=> PositiveQuotas
  BY <1>1 DEF PositiveQuotas, SamePlans, SamePlan
<1>3. UsableLimits' <=> UsableLimits
  BY <1>1 DEF UsableLimits
<1>4. CheckpointedPlans' <=> CheckpointedPlans
  <2> DEFINE Parted(plan, j, k) ==
                /\ j < k
                /\ plan[j].flare = plan[k].flare
                /\ plan[j].type # "checkpoint"
                => \E n \in j..k : plan[n].type = "checkpoint"
  <2>1. ASSUME NEW i \in Instances, NEW j \in DOMAIN inst[i].plan, NEW k \in DOMAIN inst[i].plan
        PROVE  Parted(inst'[i].plan, j, k) <=> Parted(inst[i].plan, j, k)
    <3>1. /\ DOMAIN inst[i].plan = DOMAIN inst'[i].plan /\ inst'[i].plan \in Seq(PlanState)
          /\ \A n \in DOMAIN inst[i].plan : /\ inst'[i].plan[n].type = inst[i].plan[n].type
                                           /\ inst'[i].plan[n].flare = inst[i].plan[n].flare
      BY DEF SamePlans, SamePlan
    <3>2. j..k \subseteq DOMAIN inst[i].plan
      BY <3>1
    <3> QED
      BY <3>1, <3>2
  <2>2. CheckpointedPlans <=> \A i \in Instances : \A j, k \in DOMAIN inst[i].plan : Parted(inst[i].plan, j, k)
    BY DEF CheckpointedPlans
  <2>3. CheckpointedPlans' <=> \A i \in Instances : \A j, k \in DOMAIN inst'[i].plan : Parted(inst'[i].plan, j, k)
    BY <1>1 DEF CheckpointedPlans
  <2>4. \A i \in Instances : DOMAIN inst[i].plan = DOMAIN inst'[i].plan
    BY DEF SamePlans, SamePlan
  <2> HIDE DEF Parted
  <2> QED
    BY <2>1, <2>2, <2>3, <2>4
<1>5. RunningPlans' <=> RunningPlans
  BY <1>1 DEF RunningPlans, SamePlans, SamePlan
<1> QED
  BY <1>2, <1>3, <1>4, <1>5 DEF Sound

\* Such a plan goes on to end with a checkpoint and to name flares of its instance.
LEMMA ExactStays ==
    ASSUME NEW new, NEW old, SamePlan(new, old), NEW fs, PlanExact(old, fs)
    PROVE  PlanExact(new, fs)
<1>1. CASE new = << >>
  BY <1>1 DEF PlanExact, SamePlan
<1>2. CASE new # << >>
  <2>1. Len(new) \in DOMAIN new /\ Len(new) = Len(old) /\ DOMAIN new = DOMAIN old
    BY <1>2 DEF SamePlan
  <2> QED
    BY <1>2, <2>1 DEF PlanExact, SamePlan
<1> QED
  BY <1>1, <1>2

-----------------------------------------------------------------------------
(***************************************************************************)
(* The calls of the user.                                                  *)
(***************************************************************************)
\* The plans are untouched where only the rest of an instance is changed.
LEMMA PlansUntouched ==
    ASSUME TypeOK, \A i \in Instances : inst'[i].plan = inst[i].plan
    PROVE  SamePlans
<1>1. \A i \in Instances : inst[i].plan \in Seq(PlanState)
  BY TypeFacts
<1> QED
  BY <1>1, UntouchedPlan DEF SamePlans

\* An answer that tells nothing of a search.
LEMMA NothingTold ==
    ASSUME at' = "user", answer' \in {"none", "premature_end", "plan_error", "invalid"}
    PROVE  SoundInv'
<1>1. ~Live'
  BY DEF Live, Suspended
<1>2. ToldInv'
  BY DEF ToldInv, SuspendedAtLimit, ShortestIsGiven, NothingIsLeftToTry
<1> QED
  BY <1>1, <1>2 DEF SoundInv

\* A string that is too long or a plan with an error: nothing is begun.
LEMMA RefusedStep ==
    ASSUME IInv, NEW b \in Board, StringIsTooLong(b) \/ PlanError(b)
    PROVE  IInv'
<1>1. /\ at' = "user" /\ at = "user" /\ answer' \in {"premature_end", "plan_error"}
      /\ UNCHANGED <<conf, board, at, moves_read, limits, inst, flare, user, run, given_up>>
  BY DEF StringIsTooLong, PlanError
<1>2. BaseInv
  BY DEF IInv
<1>3. TypeOK'
  BY <1>1, <1>2 DEF BaseInv, TypeOK, Instances
<1>4. FlareInv' /\ PlanInv'
  BY <1>1, <1>2 DEF BaseInv, FlareInv, PlanInv, Begun, Current, Instances, FlaresOf
<1>5. CallInv'
  BY <1>1, <1>2 DEF BaseInv, CallInv, Begun, Current, Instances, Suspended
<1>6. RanInv' /\ CleanInv'
  BY <1>1 DEF RanInv, CleanInv
<1> QED
  BY <1>1, <1>3, <1>4, <1>5, <1>6, NothingTold DEF IInv, BaseInv

\* A board is begun with everything recycled.
LEMMA SolveBoardStep ==
    ASSUME IInv, NEW b \in Board, NEW hard \in LimitOrNone, NEW soft \in LimitOrNone,
           SolveBoard(b, hard, soft)
    PROVE  IInv'
<1>1. BaseInv /\ TypeOK
  BY DEF IInv, BaseInv
<1>2. /\ at = "user" /\ answer = "none" /\ at' = "loop"
      /\ \A i \in Instances : ~Bad(conf[i].plan)
      /\ board' = b /\ limits' = [hard |-> hard, soft |-> soft]
      /\ inst' = [i \in Instances |-> [inst[i] EXCEPT !.plan = Compile(conf[i])]]
      /\ user' = [user EXCEPT !.current = 1]
      /\ run' = NoRun
      /\ UNCHANGED <<conf, answer, moves_read, flare, given_up>>
  BY DEF SolveBoard
<1>3. /\ DOMAIN conf = Instances /\ Instances = 1..Len(conf) /\ Len(conf) \in Nat \ {0}
      /\ user \in [current : Nat, active : Flare \cup {NoFlare}, init : Nat, started : Nat,
                   all_suspended : BOOLEAN]
      /\ \A i \in Instances : inst[i] \in InstState
  BY <1>1, TypeFacts DEF TypeOK
<1>4. Instances' = Instances /\ 1 \in Instances /\ Current' = 1
  BY <1>2, <1>3 DEF Instances, Current
<1>5. /\ \A f \in Flare : ~Begun(f)
      /\ \A i \in Instances : inst[i].idx = 0 /\ inst[i].minimal = NoFlare
      /\ user.started = 0 /\ user.init = 0
      /\ given_up = [flares |-> {}, instances |-> {}]
  BY <1>1, <1>2 DEF BaseInv, CleanInv, CallInv
<1>6. \A f \in Flare : flare'[f].code = "not_begun" /\ flare'[f].checked = 0 /\ flare'[f].obj = 0
  BY <1>1, <1>2, <1>5 DEF BaseInv, FlareInv, Begun
<1>7. ASSUME NEW i \in Instances
      PROVE  /\ inst'[i] \in InstState /\ inst'[i].idx = 0 /\ inst'[i].minimal = NoFlare
             /\ inst'[i].plan # << >> /\ PlanExact(inst'[i].plan, FlaresOf(i))
  <2>1. inst'[i] = [inst[i] EXCEPT !.plan = Compile(conf[i])] /\ inst[i] \in InstState
    BY <1>2, <1>3
  <2>2. /\ Compile(conf[i]) \in Seq(PlanState) /\ Compile(conf[i]) # << >>
        /\ PlanExact(Compile(conf[i]), FlaresOf(i))
    BY <1>1, <1>2, <1>3, CompiledPlan DEF TypeOK, FlaresOf
  <2>3. inst'[i] \in InstState /\ inst'[i].idx = inst[i].idx /\ inst'[i].minimal = inst[i].minimal
        /\ inst'[i].plan = Compile(conf[i])
    BY <2>1, <2>2 DEF InstState
  <2> QED
    BY <1>5, <2>2, <2>3
<1>8. /\ user' \in [current : Nat, active : Flare \cup {NoFlare}, init : Nat, started : Nat,
                    all_suspended : BOOLEAN]
      /\ user'.started = 0 /\ user'.init = 0 /\ user'.active = user.active
      /\ user'.all_suspended = user.all_suspended
  BY <1>2, <1>3, <1>5
<1>9. TypeOK'
  BY <1>1, <1>2, <1>4, <1>7, <1>8 DEF TypeOK, NoRun, FlareState
<1>10. FlareInv' /\ PlanInv'
  <2>1. FlareInv'
    BY <1>1, <1>6, <1>2 DEF FlareInv, Begun, TypeOK
  <2>2. ASSUME NEW i \in Instances PROVE FlaresOf(i)' = FlaresOf(i) /\ Len(inst'[i].plan) \in Nat
    BY <1>2, <1>7 DEF FlaresOf, InstState
  <2> QED
    BY <1>4, <1>7, <2>1, <2>2 DEF PlanInv
<1>11. CallInv'
  <2>1. Current' \in 1..(Len(conf') + 1)
    BY <1>2, <1>3, <1>4
  <2>2. run'.ret = "unsolvable"
    BY <1>2 DEF NoRun
  <2>3. user'.active = NoFlare => user'.all_suspended
    BY <1>1, <1>8 DEF BaseInv, CallInv
  <2> QED
    BY <2>1, <2>2, <2>3, <1>2, <1>4, <1>7, <1>8 DEF CallInv
<1>12. RanInv' /\ CleanInv'
  BY <1>2 DEF RanInv, CleanInv
<1>13. LiveInv'
  <2>1. CountInv'
    <3>1. IterationsLimit' = AtMost({hard, soft}, NoLimit) /\ [hard |-> hard, soft |-> soft] \in [hard : LimitOrNone, soft : LimitOrNone]
      BY <1>2 DEF IterationsLimit
    <3>2. AtMost({hard, soft}, NoLimit) \in Nat \cup {NoLimit}
      BY <3>1, BoardLimit
    <3> QED
      BY <1>3, <1>6, <1>8, <3>1, <3>2 DEF CountInv
  <2>2. SolvedInv' /\ StaleInv' /\ LeaveInv'
    BY <1>2, <1>6 DEF SolvedInv, StaleInv, LeaveInv
  <2>3. RoundInv'
    <3>1. CurrInst' = inst'[1] /\ Done' = 0
      BY <1>2, <1>4, <1>7 DEF Done, CurrInst
    <3> QED
      BY <3>1 DEF RoundInv
  <2>4. LeftInv'
    BY <1>4, <1>3 DEF LeftInv
  <2> QED
    BY <2>1, <2>2, <2>3, <2>4 DEF LiveInv
<1> QED
  BY <1>2, <1>9, <1>10, <1>11, <1>12, <1>13 DEF IInv, BaseInv, SoundInv

\* Recycling resets the flares of the instances, and nothing of the others.
LEMMA RecycledFlareFacts ==
    ASSUME TypeOK, NEW is \in SUBSET Instances
    PROVE  /\ RecycledFlares(is) \in [Flare -> FlareState]
           /\ \A f \in Flare :
                IF \E i \in is : f \in FlaresOf(i)
                THEN /\ RecycledFlares(is)[f].code = "not_begun"
                     /\ RecycledFlares(is)[f].checked = 0 /\ RecycledFlares(is)[f].obj = 0
                ELSE RecycledFlares(is)[f] = flare[f]
<1>1. ASSUME NEW f \in Flare
      PROVE  /\ RecycledFlare(flare[f]) \in FlareState
             /\ RecycledFlare(flare[f]).code = "not_begun"
             /\ RecycledFlare(flare[f]).checked = 0 /\ RecycledFlare(flare[f]).obj = 0
  <2>1. flare[f].traced \in BOOLEAN
    BY TypeFacts
  <2> QED
    BY <2>1 DEF RecycledFlare, FreshFlare, FlareState
<1>2. \A f \in Flare : flare[f] \in FlareState
  BY TypeFacts
<1> QED
  BY <1>1, <1>2 DEF RecycledFlares

\* An instance keeps its plan when it is recycled.
LEMMA RecycledInstFacts ==
    ASSUME NEW it \in InstState
    PROVE  /\ RecycledInst(it) \in InstState /\ RecycledInst(it).plan = it.plan
           /\ RecycledInst(it).idx = 0 /\ RecycledInst(it).minimal = NoFlare
           /\ RecycledInst(it).all_finished = it.all_finished
BY DEF RecycledInst, InstState

\* After recycling the iterations are counted from zero.
LEMMA InitIsZero ==
    ASSUME BaseInv, NEW is \in SUBSET Instances, Current \in Instances => Current \in is
    PROVE  InitAfterRecycle(is) = 0
<1>1. CASE \E i \in is : \E f \in FlaresOf(i) : flare[f].code # "not_begun"
  BY <1>1 DEF InitAfterRecycle
<1>2. CASE ~\E i \in is : \E f \in FlaresOf(i) : flare[f].code # "not_begun"
  <2>1. \A f \in Flare : ~Begun(f)
    BY <1>2 DEF BaseInv, FlareInv, Begun
  <2> QED
    BY <2>1, <1>2 DEF BaseInv, CallInv, InitAfterRecycle
<1> QED
  BY <1>1, <1>2

\* Recycling brings back the state in which a board may be begun.
LEMMA RecycleStep ==
    ASSUME IInv, Recycle
    PROVE  IInv'
<1>1. BaseInv /\ TypeOK /\ FlareInv /\ PlanInv /\ CallInv
  BY DEF IInv, BaseInv
<1>2. /\ at = "user" /\ at' = "user" /\ answer' = "none" /\ moves_read' = FALSE
      /\ flare' = RecycledFlares(Instances)
      /\ inst' = [i \in Instances |-> RecycledInst(inst[i])]
      /\ user' = [user EXCEPT !.init = InitAfterRecycle(Instances), !.started = 0]
      /\ given_up' = [flares |-> {}, instances |-> {}]
      /\ UNCHANGED <<conf, board, at, limits, run>>
  BY DEF Recycle
<1>3. InitAfterRecycle(Instances) = 0
  BY <1>1, InitIsZero
<1>4. user \in [current : Nat, active : Flare \cup {NoFlare}, init : Nat, started : Nat,
                all_suspended : BOOLEAN]
  BY <1>1 DEF TypeOK
<1>5. /\ user' \in [current : Nat, active : Flare \cup {NoFlare}, init : Nat, started : Nat,
                    all_suspended : BOOLEAN]
      /\ user'.init = 0 /\ user'.started = 0 /\ user'.current = user.current
      /\ user'.active = user.active /\ user'.all_suspended = user.all_suspended
  <2>1. user' = [user EXCEPT !.init = 0, !.started = 0]
    BY <1>2, <1>3
  <2> QED
    BY <1>4, <2>1
<1>6. Instances' = Instances /\ Current' = Current /\ \A i \in Instances : FlaresOf(i)' = FlaresOf(i)
  BY <1>2, <1>5 DEF Instances, Current, FlaresOf
<1>7. \A i \in Instances : /\ inst[i] \in InstState /\ inst'[i] \in InstState
                           /\ inst'[i].plan = inst[i].plan
                           /\ inst'[i].idx = 0 /\ inst'[i].minimal = NoFlare
  <2>1. \A i \in Instances : inst[i] \in InstState
    BY <1>1, TypeFacts
  <2> QED
    BY <2>1, <1>2, RecycledInstFacts
<1>8. flare' \in [Flare -> FlareState] /\ \A f \in Flare : ~Begun(f)' /\ flare'[f].checked = 0 /\ flare'[f].obj = 0
  <2>1. /\ flare' \in [Flare -> FlareState]
        /\ \A f \in Flare :
              IF \E i \in Instances : f \in FlaresOf(i)
              THEN flare'[f].code = "not_begun" /\ flare'[f].checked = 0 /\ flare'[f].obj = 0
              ELSE flare'[f] = flare[f]
    BY <1>1, <1>2, RecycledFlareFacts
  <2> QED
    BY <1>1, <2>1 DEF FlareInv, Begun
<1>9. TypeOK'
  <2>1. inst' \in [Instances -> InstState]
    BY <1>2, <1>7
  <2> QED
    BY <1>1, <1>2, <1>5, <1>6, <1>8, <2>1 DEF TypeOK
<1>10. FlareInv'
  BY <1>8 DEF FlareInv, Begun
<1>11. PlanInv'
  <2>1. \A i \in Instances : Len(inst'[i].plan) \in Nat
    BY <1>7 DEF InstState
  <2> QED
    BY <1>1, <1>6, <1>7, <2>1 DEF PlanInv
<1>12. CallInv'
  BY <1>1, <1>2, <1>5, <1>6 DEF CallInv, Suspended
<1>13. RanInv'
  BY <1>2 DEF RanInv
<1>14. CleanInv'
  BY <1>2, <1>5, <1>6, <1>7, <1>8 DEF CleanInv
<1> QED
  BY <1>2, <1>9, <1>10, <1>11, <1>12, <1>13, <1>14, NothingTold DEF IInv, BaseInv

\* A suspended search goes on where it was, with limits that are not lower.
LEMMA ResumeSolutionStep ==
    ASSUME IInv, NEW hard \in LimitOrNone, NEW soft \in LimitOrNone, ResumeSolution(hard, soft)
    PROVE  IInv'
<1>1. BaseInv /\ TypeOK /\ FlareInv /\ PlanInv /\ CallInv /\ SoundInv
  BY DEF IInv, BaseInv
<1>2. /\ at = "user" /\ Suspended /\ ~moves_read /\ at' = "loop"
      /\ Current \in Instances
      /\ NotLower(hard, limits.hard) /\ NotLower(soft, limits.soft)
      /\ limits' = [hard |-> hard, soft |-> soft]
      /\ run' = NoRun
      /\ UNCHANGED <<conf, board, answer, moves_read, inst, flare, user, given_up>>
  BY DEF ResumeSolution, Suspended, Current
<1>3. Instances' = Instances /\ Current' = Current /\ CurrInst' = CurrInst
  BY <1>2 DEF Instances, Current, CurrInst
<1>4. TypeOK'
  BY <1>1, <1>2, <1>3 DEF TypeOK, NoRun
<1>5. FlareInv' /\ PlanInv'
  BY <1>1, <1>2, <1>3 DEF FlareInv, PlanInv, Begun, FlaresOf
<1>6. CallInv'
  BY <1>1, <1>2, <1>3 DEF CallInv, Begun, NoRun
<1>7. RanInv' /\ CleanInv'
  BY <1>2 DEF RanInv, CleanInv
<1>8. ASSUME Sound' PROVE LiveInv'
  <2>1. Sound /\ Live
    <3>1. SamePlans
      BY <1>1, <1>2, PlansUntouched
    <3> QED
      BY <1>2, <1>8, <3>1, SoundStays DEF Live
  <2>2. LiveInv
    BY <1>1, <2>1 DEF SoundInv
  <2>3. CountInv'
    <3>1. /\ limits \in [hard : LimitOrNone, soft : LimitOrNone]
          /\ limits' \in [hard : LimitOrNone, soft : LimitOrNone]
          /\ limits'.hard = hard /\ limits'.soft = soft
      BY <1>1, <1>2 DEF TypeOK
    <3> DEFINE m == IterationsLimit
               n == IterationsLimit'
    <3>2. m = AtMost({limits.hard, limits.soft}, NoLimit) /\ n = AtMost({limits'.hard, limits'.soft}, NoLimit)
      BY DEF IterationsLimit
    <3> HIDE DEF m, n
    <3>3. /\ limits.hard \in Nat \cup {NoLimit} /\ limits.soft \in Nat \cup {NoLimit}
          /\ m \in Nat \cup {NoLimit}
          /\ limits.hard # NoLimit => m <= limits.hard
          /\ limits.soft # NoLimit => m <= limits.soft
          /\ m = NoLimit <=> limits.hard = NoLimit /\ limits.soft = NoLimit
      BY <3>1, <3>2, BoardLimit
    <3>4. /\ limits'.hard \in Nat \cup {NoLimit} /\ limits'.soft \in Nat \cup {NoLimit}
          /\ n \in Nat \cup {NoLimit}
          /\ n # NoLimit => n \in {limits'.hard, limits'.soft}
      BY <3>1, <3>2, BoardLimit
    <3>5. n # NoLimit => m # NoLimit /\ m <= n
      BY <1>2, <3>1, <3>3, <3>4 DEF NotLower
    <3>6. /\ user.started \in Nat
          /\ m # NoLimit => user.started <= m
      BY <1>1, <2>2, TypeFacts DEF LiveInv, CountInv, m
    <3>7. n # NoLimit => user.started <= n
      BY <3>3, <3>4, <3>5, <3>6
    <3>8. user.active # NoFlare => flare[user.active].obj = user.init
      BY <2>2 DEF LiveInv, CountInv
    <3> QED
      BY <1>2, <3>7, <3>8 DEF CountInv, n
  <2>4. SolvedInv'
    BY <1>2, <1>3, <2>2 DEF LiveInv, SolvedInv, Listed, Told, Length
  <2>5. StaleInv' /\ LeaveInv'
    BY <1>2 DEF StaleInv, LeaveInv
  <2>6. RoundInv'
    <3>1. Done' = Done /\ run'.ret = "unsolvable"
      BY <1>2, <1>3 DEF Done, NoRun
    <3> QED
      BY <1>2, <1>3, <2>2, <3>1 DEF LiveInv, RoundInv
  <2>7. LeftInv'
    BY <1>2, <1>3, <2>2 DEF LiveInv, LeftInv
  <2> QED
    BY <2>3, <2>4, <2>5, <2>6, <2>7 DEF LiveInv
<1> QED
  BY <1>2, <1>4, <1>5, <1>6, <1>7, <1>8 DEF IInv, BaseInv, SoundInv

\* Tracing a solution changes the flare alone, and never what its search returned.
LEMMA TraceFacts ==
    ASSUME board \in Board, NEW fls \in [Flare -> FlareState], NEW f,
           NEW n \in TracedLengths(fls, f), NEW r, r = TraceSolution(fls, f, n)
    PROVE  /\ r \in [Flare -> FlareState]
           /\ \A g \in Flare : g # f => r[g] = fls[g]
           /\ \A g \in Flare : r[g].code = fls[g].code
           /\ f \in Flare =>
                /\ n \in Nat /\ r[f].traced
                /\ IF fls[f].traced THEN r[f] = fls[f] /\ n = fls[f].moves
                   ELSE /\ r[f].moves = n /\ r[f].ready
                        /\ r[f].checked = 0 /\ r[f].obj = fls[f].checked
<1>1. CASE f \notin Flare
  <2>1. r = fls
    BY <1>1 DEF TraceSolution
  <2> QED
    BY <1>1, <2>1
<1>2. CASE f \in Flare
  <2> DEFINE fl == fls[f]
  <2>1. fl \in FlareState
    BY <1>2
  <2>2. n \in Nat /\ (fl.traced => n = fl.moves)
    <3>1. Result[board].search[f].length \in Nat
      BY <1>2, SearchFacts
    <3>2. fl.moves \in Nat /\ MaxJunk \in Nat
      BY <2>1 DEF FlareState, MaxJunk
    <3>3. n \in {fl.moves} \cup (0..MaxJunk) \cup {Result[board].search[f].length} \cup {0}
      BY DEF TracedLengths
    <3> QED
      BY <3>1, <3>2, <3>3 DEF TracedLengths
  <2>3. CASE fl.traced
    BY <1>2, <2>1, <2>2, <2>3 DEF TraceSolution
  <2>4. CASE ~fl.traced
    <3>1. r = [fls EXCEPT ![f] = Traced(fl, n)]
      BY <2>4 DEF TraceSolution
    <3> HIDE DEF fl
    <3>2. /\ Traced(fl, n) \in FlareState /\ Traced(fl, n).code = fl.code /\ Traced(fl, n).traced
          /\ Traced(fl, n).moves = n /\ Traced(fl, n).ready
          /\ Traced(fl, n).checked = 0 /\ Traced(fl, n).obj = fl.checked
      BY <2>1, <2>2 DEF Traced, FlareState
    <3> QED
      BY <1>2, <2>2, <2>4, <3>1, <3>2 DEF fl
  <2> QED
    BY <2>3, <2>4
<1> QED
  BY <1>1, <1>2

\* Asking for the moves traces the flare that gave the answer, which stays true.
LEMMA GetNextMoveStep ==
    ASSUME IInv, GetNextMove
    PROVE  IInv'
<1>1. BaseInv /\ TypeOK /\ FlareInv /\ PlanInv /\ CallInv /\ CleanInv /\ SoundInv
  BY DEF IInv, BaseInv
<1> DEFINE f == SingleFlare(inst[user.current])
<1>2. /\ at = "user" /\ answer \in {"solved", "suspended"} /\ ~moves_read
      /\ Current \in Instances
      /\ moves_read' = TRUE
      /\ UNCHANGED <<conf, board, at, answer, limits, inst, user, run, given_up>>
  BY DEF GetNextMove, Current
<1>3. PICK n \in TracedLengths(flare, f) : flare' = TraceSolution(flare, f, n)
  BY DEF GetNextMove
<1>4. Instances' = Instances /\ Current' = Current /\ CurrInst' = CurrInst /\ f = SingleFlare(CurrInst)
  BY <1>2 DEF Instances, Current, CurrInst
<1> HIDE DEF f
<1>5. board \in Board /\ flare \in [Flare -> FlareState]
  BY <1>1 DEF TypeOK
<1>6. /\ flare' \in [Flare -> FlareState]
      /\ \A g \in Flare : g # f => flare'[g] = flare[g]
      /\ \A g \in Flare : flare'[g].code = flare[g].code
      /\ f \in Flare =>
            /\ n \in Nat /\ flare'[f].traced
            /\ IF flare[f].traced THEN flare'[f] = flare[f] /\ n = flare[f].moves
               ELSE /\ flare'[f].moves = n /\ flare'[f].ready
                    /\ flare'[f].checked = 0 /\ flare'[f].obj = flare[f].checked
  <2> DEFINE r == flare'
  <2>1. r = TraceSolution(flare, f, n)
    BY <1>3
  <2> HIDE DEF r
  <2>2. /\ r \in [Flare -> FlareState]
        /\ \A g \in Flare : g # f => r[g] = flare[g]
        /\ \A g \in Flare : r[g].code = flare[g].code
        /\ f \in Flare =>
              /\ n \in Nat /\ r[f].traced
              /\ IF flare[f].traced THEN r[f] = flare[f] /\ n = flare[f].moves
                 ELSE /\ r[f].moves = n /\ r[f].ready
                      /\ r[f].checked = 0 /\ r[f].obj = flare[f].checked
    BY ONLY <1>3, <1>5, <2>1, TraceFacts
  <2> QED
    BY <2>2 DEF r
<1>7. TypeOK'
  BY <1>1, <1>2, <1>4, <1>6 DEF TypeOK
<1>8. FlareInv'
  <2> SUFFICES ASSUME NEW g \in Flare
               PROVE  /\ flare'[g].code = "not_begun" => flare'[g].checked = 0 /\ flare'[g].obj = 0
                      /\ flare'[g].code = "suspended" => flare'[g].checked <= Result[board].search[g].iters
                      /\ flare'[g].code # "not_begun" => Current \in Instances /\ g \in FlaresOf(Current)
                      /\ flare'[g].code = "unsolvable" => g \in given_up.flares
    BY <1>2, <1>4 DEF FlareInv, Begun, FlaresOf
  <2>1. /\ flare[g].code = "not_begun" => flare[g].checked = 0 /\ flare[g].obj = 0
        /\ flare[g].code = "suspended" => flare[g].checked <= Result[board].search[g].iters
        /\ flare[g].code # "not_begun" => Current \in Instances /\ g \in FlaresOf(Current)
        /\ flare[g].code = "unsolvable" => g \in given_up.flares
    BY <1>1 DEF FlareInv, Begun
  <2>2. Result[board].search[g].iters \in Nat
    BY <1>5, SearchFacts
  <2>3. CASE g # f
    BY <1>6, <2>1, <2>3
  <2>4. CASE g = f
    BY <1>6, <2>1, <2>2, <2>4
  <2> QED
    BY <2>3, <2>4
<1>9. PlanInv'
  <2> SUFFICES ASSUME NEW i \in Instances, inst[i].minimal # NoFlare
               PROVE  flare'[inst[i].minimal].code = "solved"
    BY <1>1, <1>2, <1>4 DEF PlanInv, FlaresOf
  <2>1. inst[i].minimal \in Flare
    BY <1>1, TypeFacts
  <2> QED
    BY <1>1, <1>6, <2>1 DEF PlanInv
<1>10. CallInv'
  <2>1. \A g \in Flare : Begun(g)' <=> Begun(g)
    BY <1>6 DEF Begun
  <2> QED
    BY <1>1, <1>2, <1>4, <2>1 DEF CallInv, Suspended
<1>11. RanInv' /\ CleanInv'
  BY <1>2 DEF RanInv, CleanInv
<1>12. ~Live'
  BY <1>2 DEF Live
<1>13. ASSUME Sound' PROVE ToldInv'
  <2>1. SamePlans
    BY <1>1, <1>2, PlansUntouched
  <2>2. ToldInv
    BY <1>1, <1>2, <1>13, <2>1, SoundStays DEF SoundInv
  <2>3. /\ f = user.active /\ f \in Flare
        /\ flare[f].traced \/ flare[f].checked = flare[f].obj
    <3>1. /\ f = user.active /\ user.active # NoFlare
          /\ flare[f].traced \/ flare[f].checked = flare[f].obj
      BY <1>2, <1>4, <2>2 DEF ToldInv
    <3> QED
      BY <1>1, <3>1, TypeFacts
  <2>4. flare'[user.active].obj = flare[user.active].obj
    BY <1>6, <2>3
  <2>5. SuspendedAtLimit'
    <3>1. GetNumTimes(user)' = GetNumTimes(user) /\ IterationsLimit' = IterationsLimit
      BY <1>2, <2>4 DEF GetNumTimes, IterationsLimit
    <3>2. SuspendedAtLimit
      BY <2>2 DEF ToldInv
    <3> QED
      BY <1>2, <3>1, <3>2 DEF SuspendedAtLimit
  <2>6. ShortestIsGiven'
    <3> SUFFICES ASSUME answer' = "solved"
                 PROVE  /\ flare'[f].code = "solved" /\ SingleFlare(CurrInst) = f
                        /\ \A g \in FlaresOf(Current) :
                              flare'[g].code = "solved" => Result[board].search[f].length <= Result[board].search[g].length
                        /\ TracedLengths(flare', f) = {Result[board].search[f].length}
      <4>1. \A g : TracedLengths(flare, g)' = TracedLengths(flare', g)
        BY <1>2 DEF TracedLengths
      <4>2. \A i : FlaresOf(i)' = FlaresOf(i)
        BY <1>2 DEF FlaresOf
      <4> QED
        BY <1>2, <1>4, <2>3, <4>1, <4>2 DEF ShortestIsGiven
    <3>1. /\ flare[f].code = "solved" /\ SingleFlare(CurrInst) = f
          /\ \A g \in FlaresOf(Current) :
                flare[g].code = "solved" => Result[board].search[f].length <= Result[board].search[g].length
          /\ TracedLengths(flare, f) = {Result[board].search[f].length}
      BY <1>2, <2>2, <2>3 DEF ToldInv, ShortestIsGiven
    <3>2. FlaresOf(Current) \subseteq Flare
      BY <1>1, <1>2, TypeFacts
    <3>3. n = Result[board].search[f].length
      BY <3>1
    <3>4. flare'[f].moves = n /\ flare'[f].traced
      BY <1>6, <2>3
    <3>5. TracedLengths(flare', f) = {Result[board].search[f].length}
      BY <3>3, <3>4 DEF TracedLengths
    <3> QED
      BY <1>6, <2>3, <3>1, <3>2, <3>5
  <2>7. NothingIsLeftToTry'
    BY <1>2, <1>4, <2>2 DEF ToldInv, NothingIsLeftToTry
  <2> QED
    BY <1>2, <2>5, <2>6, <2>7 DEF ToldInv
<1> QED
  BY <1>7, <1>8, <1>9, <1>10, <1>11, <1>12, <1>13 DEF IInv, BaseInv, SoundInv

-----------------------------------------------------------------------------
(***************************************************************************)
(* The loop of resume_solution().                                          *)
(***************************************************************************)
\* The current instance, its plan and its place in it.
LEMMA CurrentFacts ==
    ASSUME BaseInv, at # "user", Current \in Instances
    PROVE  /\ CurrInst \in InstState /\ CurrInst.plan \in Seq(PlanState)
           /\ Len(CurrInst.plan) \in Nat \ {0} /\ DOMAIN CurrInst.plan = 1..Len(CurrInst.plan)
           /\ CurrInst.plan[Len(CurrInst.plan)].type = "checkpoint"
           /\ CurrInst.idx \in Nat /\ CurrInst.idx <= Len(CurrInst.plan)
           /\ CurrInst.minimal \in Flare \cup {NoFlare}
           /\ CurrInst.minimal # NoFlare => flare[CurrInst.minimal].code = "solved"
           /\ \A k \in DOMAIN CurrInst.plan :
                /\ CurrInst.plan[k].initial \in Nat \cup {NoLimit}
                /\ CurrInst.plan[k].remaining \in Nat \cup {NoLimit}
                /\ IF CurrInst.plan[k].type = "checkpoint" THEN CurrInst.plan[k].flare = NoFlare
                   ELSE CurrInst.plan[k].flare \in FlaresOf(Current) /\ CurrInst.plan[k].flare \in Flare
<1> DEFINE it == inst[Current]
           plan == inst[Current].plan
<1>1. TypeOK /\ PlanInv /\ CallInv
  BY DEF BaseInv
<1>2. /\ it \in InstState /\ plan \in Seq(PlanState) /\ it.idx \in Nat
      /\ it.minimal \in Flare \cup {NoFlare} /\ FlaresOf(Current) \subseteq Flare
      /\ \A k \in DOMAIN plan : plan[k] \in PlanState
  BY <1>1, TypeFacts
<1>3. /\ it.idx <= Len(plan) /\ PlanExact(plan, FlaresOf(Current)) /\ plan # << >>
      /\ it.minimal # NoFlare => flare[it.minimal].code = "solved"
  BY <1>1 DEF PlanInv, CallInv
<1>4. Len(plan) \in Nat \ {0} /\ DOMAIN plan = 1..Len(plan) /\ plan[Len(plan)].type = "checkpoint"
  BY <1>2, <1>3 DEF PlanExact
<1>5. \A k \in DOMAIN plan : plan[k].initial \in Nat \cup {NoLimit} /\ plan[k].remaining \in Nat \cup {NoLimit}
  BY <1>2 DEF PlanState
<1> QED
  BY <1>2, <1>3, <1>4, <1>5 DEF CurrInst, PlanExact

\* Past a checkpoint, no flare is at its solution any more.
LEMMA NoneSolved ==
    ASSUME SolvedInv, CurrInst.idx \in Nat, CurrInst.plan[CurrInst.idx].type = "checkpoint"
    PROVE  \A f \in Flare : flare[f].code # "solved"
BY DEF SolvedInv, Listed

\* What a step keeps that changes the place in the plan, what remains of an item,
\* or what is known of a flare whose search has ended.
LEMMA BaseStays ==
    ASSUME BaseInv, TypeOK', at # "user", Current \in Instances, at' \in {"loop", "leave"},
           conf' = conf, board' = board, user' = user, given_up' = given_up,
           \A f \in Flare :
              /\ flare'[f].code = flare[f].code
              /\ flare[f].code \in {"not_begun", "suspended"} =>
                    flare'[f].checked = flare[f].checked /\ flare'[f].obj = flare[f].obj,
           \A i \in Instances : i # Current => inst'[i] = inst[i],
           SamePlan(inst'[Current].plan, inst[Current].plan),
           inst'[Current].idx <= Len(inst[Current].plan),
           inst'[Current].minimal # NoFlare => flare'[inst'[Current].minimal].code = "solved",
           run'.ret # "solved"
    PROVE  BaseInv' /\ SamePlans
<1>1. TypeOK /\ FlareInv /\ PlanInv /\ CallInv
  BY DEF BaseInv
<1>2. Instances' = Instances /\ Current' = Current /\ \A i \in Instances : FlaresOf(i)' = FlaresOf(i)
  BY DEF Instances, Current, FlaresOf
<1>3. SamePlans
  <2>1. \A i \in Instances : i # Current => SamePlan(inst'[i].plan, inst[i].plan)
    BY <1>1, TypeFacts, UntouchedPlan
  <2> QED
    BY <2>1 DEF SamePlans
<1>4. FlareInv'
  BY <1>1, <1>2 DEF FlareInv, Begun
<1>5. PlanInv'
  <2>1. ASSUME NEW i \in Instances
        PROVE  /\ inst'[i].idx <= Len(inst'[i].plan)
               /\ PlanExact(inst'[i].plan, FlaresOf(i))
               /\ i # Current => inst'[i].idx = 0 /\ inst'[i].minimal = NoFlare
               /\ inst'[i].minimal # NoFlare => flare'[inst'[i].minimal].code = "solved"
    <3>1. PlanExact(inst[i].plan, FlaresOf(i)) /\ SamePlan(inst'[i].plan, inst[i].plan)
      BY <1>1, <1>3 DEF PlanInv, SamePlans
    <3>2. PlanExact(inst'[i].plan, FlaresOf(i))
      BY <3>1, ExactStays
    <3>3. CASE i = Current
      BY <3>1, <3>2, <3>3 DEF SamePlan
    <3>4. CASE i # Current
      BY <1>1, <3>2, <3>4 DEF PlanInv
    <3> QED
      BY <3>3, <3>4
  <2> QED
    BY <1>2, <2>1 DEF PlanInv
<1>6. CallInv'
  <2>1. \A i \in Instances : inst'[i].plan # << >>
    BY <1>1, <1>3 DEF CallInv, SamePlans, SamePlan
  <2>2. \A f \in Flare : Begun(f)' <=> Begun(f)
    BY DEF Begun
  <2> QED
    BY <1>1, <1>2, <2>1, <2>2 DEF CallInv
<1> QED
  BY <1>3, <1>4, <1>5, <1>6 DEF BaseInv, RanInv, CleanInv

\* The plan begins anew: its last item was a checkpoint, so no flare is at a solution.
LEMMA RestartPlanStep ==
    ASSUME IInv, RestartPlan
    PROVE  IInv'
<1>1. BaseInv /\ TypeOK /\ CallInv /\ SoundInv
  BY DEF IInv, BaseInv
<1>2. /\ at = "loop" /\ CurrInst.idx = Len(CurrInst.plan)
      /\ inst' = [inst EXCEPT ![Current].all_finished = TRUE, ![Current].idx = 0]
      /\ UNCHANGED <<conf, board, at, answer, moves_read, limits, flare, user, run, given_up>>
  BY DEF RestartPlan
<1>3. Current \in Instances
  BY <1>1, <1>2 DEF CallInv
<1> DEFINE it == inst[Current]
           new == [it EXCEPT !.all_finished = TRUE, !.idx = 0]
<1>4. inst' = [inst EXCEPT ![Current] = new]
  BY <1>2
<1>5. it \in InstState /\ it = CurrInst
  BY <1>1, <1>3, TypeFacts DEF CurrInst
<1> HIDE DEF it
<1>6. new \in InstState /\ new.plan = it.plan /\ new.idx = 0 /\ new.minimal = it.minimal
  BY <1>5 DEF InstState
<1> HIDE DEF new
<1>7. /\ inst' \in [Instances -> InstState] /\ inst'[Current] = new
      /\ \A i \in Instances : i # Current => inst'[i] = inst[i]
  BY <1>1, <1>3, <1>4, <1>6 DEF TypeOK
<1>8. Instances' = Instances /\ Current' = Current /\ CurrInst' = new
  BY <1>2, <1>7 DEF Instances, Current, CurrInst
<1>9. TypeOK'
  BY <1>1, <1>2, <1>7, <1>8 DEF TypeOK
<1>10. BaseInv' /\ SamePlans
  <2>1. /\ it.plan \in Seq(PlanState)
        /\ it.minimal # NoFlare => flare[it.minimal].code = "solved"
    BY <1>1, <1>2, <1>3, <1>5, CurrentFacts
  <2>2. SamePlan(inst'[Current].plan, inst[Current].plan)
    BY <1>6, <1>7, <2>1, UntouchedPlan DEF it
  <2>3. run.ret # "solved"
    BY <1>1, <1>2 DEF CallInv
  <2>4. inst'[Current].idx <= Len(inst[Current].plan)
    BY <1>6, <1>7, <2>1 DEF it
  <2> QED
    BY <1>1, <1>2, <1>3, <1>6, <1>7, <1>9, <2>1, <2>2, <2>3, <2>4, BaseStays
<1>11. ASSUME Sound' PROVE LiveInv'
  <2>1. LiveInv
    BY <1>1, <1>2, <1>10, <1>11, SoundStays DEF SoundInv, Live
  <2>2. \A f \in Flare : flare[f].code # "solved"
    <3>1. CurrInst.plan[CurrInst.idx].type = "checkpoint" /\ CurrInst.idx \in Nat
      BY <1>1, <1>2, <1>3, CurrentFacts
    <3> QED
      BY <2>1, <3>1, NoneSolved DEF LiveInv
  <2>3. CountInv'
    BY <1>2, <2>1 DEF LiveInv, CountInv, IterationsLimit
  <2>4. SolvedInv'
    BY <1>2, <2>2 DEF SolvedInv
  <2>5. StaleInv' /\ LeaveInv'
    BY <1>2 DEF StaleInv, LeaveInv
  <2>6. RoundInv'
    <3>1. Done' = 0
      BY <1>2, <1>6, <1>8 DEF Done
    <3> QED
      BY <3>1 DEF RoundInv
  <2>7. LeftInv'
    <3>1. \A i \in Instances : inst'[i].plan = inst[i].plan
      BY <1>6, <1>7 DEF it
    <3> QED
      BY <1>2, <1>8, <2>1, <3>1 DEF LiveInv, LeftInv
  <2> QED
    BY <2>3, <2>4, <2>5, <2>6, <2>7 DEF LiveInv
<1> QED
  BY <1>2, <1>10, <1>11 DEF IInv, SoundInv

\* A checkpoint without a solution: no flare that was run before it has one.
LEMMA CheckpointPassedStep ==
    ASSUME IInv, CheckpointPassed
    PROVE  IInv'
<1>1. BaseInv /\ TypeOK /\ CallInv /\ SoundInv
  BY DEF IInv, BaseInv
<1>2. /\ at = "loop" /\ CurrInst.idx < Len(CurrInst.plan)
      /\ CurrInst.plan[CurrInst.idx + 1].type = "checkpoint"
      /\ inst' = [inst EXCEPT ![Current].idx = @ + 1]
      /\ CurrInst.minimal = NoFlare
      /\ run' = [run EXCEPT !.soft = FALSE]
      /\ UNCHANGED <<conf, board, at, answer, moves_read, limits, flare, user, given_up>>
  BY DEF CheckpointPassed, TakeItem
<1>3. Current \in Instances /\ run.ret # "solved"
  BY <1>1, <1>2 DEF CallInv
<1> DEFINE it == inst[Current]
           new == [it EXCEPT !.idx = @ + 1]
<1>4. inst' = [inst EXCEPT ![Current] = new]
  BY <1>2
<1>5. it \in InstState /\ it = CurrInst /\ it.plan \in Seq(PlanState) /\ it.idx \in Nat
  BY <1>1, <1>3, TypeFacts DEF CurrInst
<1> HIDE DEF it
<1>6. new \in InstState /\ new.plan = it.plan /\ new.idx = it.idx + 1 /\ new.minimal = it.minimal
      /\ new.all_finished = it.all_finished
  BY <1>5 DEF InstState
<1> HIDE DEF new
<1>7. /\ inst' \in [Instances -> InstState] /\ inst'[Current] = new
      /\ \A i \in Instances : i # Current => inst'[i] = inst[i]
  BY <1>1, <1>3, <1>4, <1>6 DEF TypeOK
<1>8. Instances' = Instances /\ Current' = Current /\ CurrInst' = new
  BY <1>2, <1>7 DEF Instances, Current, CurrInst
<1>9. /\ run' \in [ret : {"suspended", "solved", "unsolvable"}, soft : BOOLEAN, item : Nat, now : BOOLEAN]
      /\ run'.ret = run.ret
  BY <1>1, <1>2 DEF TypeOK
<1>10. TypeOK'
  BY <1>1, <1>2, <1>7, <1>8, <1>9 DEF TypeOK
<1>11. BaseInv' /\ SamePlans
  <2>1. SamePlan(inst'[Current].plan, inst[Current].plan)
    BY <1>5, <1>6, <1>7, UntouchedPlan DEF it
  <2>2. inst'[Current].idx <= Len(inst[Current].plan) /\ inst'[Current].minimal = NoFlare
    BY <1>2, <1>5, <1>6, <1>7 DEF it
  <2> QED
    BY <1>1, <1>2, <1>3, <1>7, <1>9, <1>10, <2>1, <2>2, BaseStays
<1>12. ASSUME Sound' PROVE LiveInv'
  <2>1. LiveInv
    BY <1>1, <1>2, <1>11, <1>12, SoundStays DEF SoundInv, Live
  <2>2. \A f \in Flare : flare[f].code # "solved"
    BY <1>2, <2>1 DEF LiveInv, SolvedInv
  <2>3. CountInv'
    BY <1>2, <2>1 DEF LiveInv, CountInv, IterationsLimit
  <2>4. SolvedInv'
    BY <1>2, <2>2 DEF SolvedInv
  <2>5. StaleInv' /\ LeaveInv'
    BY <1>2 DEF StaleInv, LeaveInv
  <2>6. RoundInv'
    <3>1. Done = it.idx /\ Done' = it.idx + 1
      BY <1>2, <1>5, <1>6, <1>8 DEF Done
    <3> SUFFICES ASSUME it.all_finished, NEW k \in 1..(it.idx + 1), it.plan[k].type # "checkpoint"
                 PROVE  /\ it.plan[k].flare \in given_up.flares \/ flare[it.plan[k].flare].code = "solved"
                        /\ ~user.all_suspended
                        /\ run.ret = "unsolvable"
      BY <1>2, <1>6, <1>8, <1>9, <3>1 DEF RoundInv
    <3>2. k \in 1..it.idx
      BY <1>2, <1>5
    <3> QED
      BY <1>2, <1>3, <1>5, <2>1, <3>1, <3>2 DEF LiveInv, RoundInv
  <2>7. LeftInv'
    <3>1. \A i \in Instances : inst'[i].plan = inst[i].plan
      BY <1>6, <1>7 DEF it
    <3> QED
      BY <1>2, <1>8, <2>1, <3>1 DEF LiveInv, LeftInv
  <2> QED
    BY <2>3, <2>4, <2>5, <2>6, <2>7 DEF LiveInv
<1> QED
  BY <1>2, <1>11, <1>12 DEF IInv, SoundInv

\* The current instance is recycled, and the next one is the current one.
LEMMA InstanceLeft ==
    ASSUME IInv, TypeOK', at # "user", Current \in Instances, at' = Loop(Current + 1),
           conf' = conf, board' = board, limits' = limits,
           \A f \in Flare : flare'[f].code = "not_begun" /\ flare'[f].checked = 0 /\ flare'[f].obj = 0,
           \A i \in Instances : i # Current => inst'[i] = inst[i],
           SamePlan(inst'[Current].plan, inst[Current].plan),
           inst'[Current].idx = 0, inst'[Current].minimal = NoFlare,
           user'.current = user.current + 1, user'.init = 0, user'.started = user.started,
           user'.active = user.active, user'.all_suspended = user.all_suspended,
           run'.ret # "solved",
           given_up'.flares = given_up.flares, given_up.instances \subseteq given_up'.instances,
           Sound /\ LiveInv => /\ at' = "leave" => run'.ret = "unsolvable" /\ ~user.all_suspended
                    /\ \/ Current \in given_up'.instances
                       \/ \A k \in DOMAIN CurrInst.plan :
                             CurrInst.plan[k].flare \in given_up.flares \cup {NoFlare}
    PROVE  IInv'
<1>1. TypeOK /\ FlareInv /\ PlanInv /\ CallInv /\ SoundInv /\ BaseInv
  BY DEF IInv, BaseInv
<1>2. /\ Instances' = Instances /\ Current' = Current + 1 /\ Current \in Nat
      /\ \A i \in Instances : FlaresOf(i)' = FlaresOf(i)
      /\ Instances = 1..Len(conf) /\ Len(conf) \in Nat
  BY <1>1, TypeFacts DEF Instances, Current, FlaresOf
<1>3. SamePlans
  <2>1. \A i \in Instances : i # Current => SamePlan(inst'[i].plan, inst[i].plan)
    BY <1>1, TypeFacts, UntouchedPlan
  <2> QED
    BY <2>1 DEF SamePlans
<1>4. \A f \in Flare : ~Begun(f)'
  BY DEF Begun
<1>5. FlareInv'
  BY <1>4 DEF FlareInv, Begun
<1>6. \A i \in Instances : inst'[i].idx = 0 /\ inst'[i].minimal = NoFlare
  BY <1>1 DEF PlanInv
<1>7. PlanInv'
  <2>1. ASSUME NEW i \in Instances
        PROVE  0 <= Len(inst'[i].plan) /\ PlanExact(inst'[i].plan, FlaresOf(i))
    <3>1. PlanExact(inst[i].plan, FlaresOf(i)) /\ SamePlan(inst'[i].plan, inst[i].plan)
      BY <1>1, <1>3 DEF PlanInv, SamePlans
    <3>2. PlanExact(inst'[i].plan, FlaresOf(i))
      BY <3>1, ExactStays
    <3>3. Len(inst'[i].plan) \in Nat
      BY <3>1 DEF SamePlan
    <3> QED
      BY <3>2, <3>3
  <2> QED
    BY <1>2, <1>6, <2>1 DEF PlanInv
<1>8. CallInv'
  <2>1. \A i \in Instances : inst'[i].plan # << >>
    BY <1>1, <1>3 DEF CallInv, SamePlans, SamePlan
  <2>2. at' \in {"loop", "ran"} => Current' \in Instances
    BY <1>2 DEF Loop
  <2> QED
    BY <1>1, <1>2, <2>1, <2>2 DEF CallInv
<1>9. at' \in {"loop", "leave"} /\ (at' = "leave" <=> Current' \notin Instances)
  BY <1>2 DEF Loop
<1>10. RanInv' /\ CleanInv'
  BY <1>9 DEF RanInv, CleanInv
<1>11. ASSUME Sound' PROVE LiveInv'
  <2>1. Sound /\ LiveInv
    BY <1>1, <1>3, <1>11, SoundStays DEF SoundInv, Live
  <2>2. CountInv'
    <3>1. IterationsLimit' = IterationsLimit
      BY DEF IterationsLimit
    <3>2. user'.active # NoFlare => flare'[user'.active].obj = user'.init
      BY <1>1, TypeFacts
    <3> QED
      BY <2>1, <3>1, <3>2 DEF LiveInv, CountInv
  <2>3. SolvedInv' /\ StaleInv'
    BY <1>9 DEF SolvedInv, StaleInv
  <2>4. RoundInv'
    <3> SUFFICES ASSUME Current' \in Instances PROVE Done' = 0
      BY <1>2 DEF RoundInv
    <3> QED
      BY <1>6, <1>9 DEF Done, CurrInst
  <2>5. LeftInv'
    <3> SUFFICES ASSUME NEW i \in Instances \ given_up'.instances, i < Current + 1,
                        NEW k \in DOMAIN inst'[i].plan
                 PROVE  inst'[i].plan[k].flare \in given_up.flares \cup {NoFlare}
      BY <1>2 DEF LeftInv
    <3>1. k \in DOMAIN inst[i].plan /\ inst'[i].plan[k].flare = inst[i].plan[k].flare
      BY <1>3 DEF SamePlans, SamePlan
    <3>2. CASE i = Current
      BY <2>1, <3>1, <3>2 DEF CurrInst
    <3>3. CASE i < Current
      BY <2>1, <3>1, <3>3 DEF LiveInv, LeftInv
    <3> QED
      BY <1>2, <3>2, <3>3
  <2>6. LeaveInv'
    BY <1>2, <1>9, <2>1 DEF LeaveInv
  <2> QED
    BY <2>2, <2>3, <2>4, <2>5, <2>6 DEF LiveInv
<1> QED
  BY <1>1, <1>5, <1>7, <1>8, <1>9, <1>10, <1>11 DEF IInv, BaseInv, SoundInv

\* An instance is left for the next one when no item of the round was suspended, so that
\* each of its flares has given up.
LEMMA NextInstanceStep ==
    ASSUME IInv, NextInstance
    PROVE  IInv'
<1>1. BaseInv /\ TypeOK /\ FlareInv /\ PlanInv /\ CallInv /\ SoundInv
  BY DEF IInv, BaseInv
<1>2. /\ at = "loop" /\ CurrInst.idx = Len(CurrInst.plan) /\ CurrInst.all_finished
      /\ flare' = RecycledFlares({Current})
      /\ inst' = [inst EXCEPT ![Current] = RecycledInst(inst[Current])]
      /\ user' = [user EXCEPT !.init = InitAfterRecycle({Current}), !.current = Current + 1]
      /\ run' = [run EXCEPT !.soft = FALSE]
      /\ at' = Loop(Current + 1)
      /\ UNCHANGED <<conf, board, answer, moves_read, limits, given_up>>
  BY DEF NextInstance, RecycleInstanceItem
<1>3. Current \in Instances /\ run.ret # "solved" /\ Current = user.current
  BY <1>1, <1>2 DEF CallInv, Current
<1>4. InitAfterRecycle({Current}) = 0
  BY <1>1, <1>3, InitIsZero
<1>5. /\ user' \in [current : Nat, active : Flare \cup {NoFlare}, init : Nat, started : Nat,
                    all_suspended : BOOLEAN]
      /\ user'.init = 0 /\ user'.started = user.started /\ user'.current = user.current + 1
      /\ user'.active = user.active /\ user'.all_suspended = user.all_suspended
  <2>1. user \in [current : Nat, active : Flare \cup {NoFlare}, init : Nat, started : Nat,
                  all_suspended : BOOLEAN]
    BY <1>1 DEF TypeOK
  <2> DEFINE n == user.current + 1
  <2>2. user' = [user EXCEPT !.init = 0, !.current = n]
    BY <1>2, <1>3, <1>4
  <2>3. n \in Nat
    BY <2>1
  <2>4. n = user.current + 1
    OBVIOUS
  <2> HIDE DEF n
  <2> QED
    BY <2>1, <2>2, <2>3, <2>4
<1>6. /\ run' \in [ret : {"suspended", "solved", "unsolvable"}, soft : BOOLEAN, item : Nat, now : BOOLEAN]
      /\ run'.ret = run.ret
  BY <1>1, <1>2 DEF TypeOK
<1>7. /\ inst' \in [Instances -> InstState]
      /\ inst'[Current].plan = inst[Current].plan
      /\ inst'[Current].idx = 0 /\ inst'[Current].minimal = NoFlare
      /\ \A i \in Instances : i # Current => inst'[i] = inst[i]
  <2>1. inst[Current] \in InstState
    BY <1>1, <1>3, TypeFacts
  <2>2. /\ RecycledInst(inst[Current]) \in InstState
        /\ RecycledInst(inst[Current]).plan = inst[Current].plan
        /\ RecycledInst(inst[Current]).idx = 0 /\ RecycledInst(inst[Current]).minimal = NoFlare
    BY <2>1, RecycledInstFacts
  <2> QED
    BY <1>1, <1>2, <1>3, <2>2 DEF TypeOK
<1>8. /\ flare' \in [Flare -> FlareState]
      /\ \A f \in Flare : flare'[f].code = "not_begun" /\ flare'[f].checked = 0 /\ flare'[f].obj = 0
  <2>1. /\ flare' \in [Flare -> FlareState]
        /\ \A f \in Flare :
              IF \E i \in {Current} : f \in FlaresOf(i)
              THEN flare'[f].code = "not_begun" /\ flare'[f].checked = 0 /\ flare'[f].obj = 0
              ELSE flare'[f] = flare[f]
    BY <1>1, <1>2, <1>3, RecycledFlareFacts
  <2> QED
    BY <1>1, <2>1 DEF FlareInv, Begun
<1>9. TypeOK'
  <2>1. at' \in {"loop", "leave"} /\ Instances' = Instances
    BY <1>2 DEF Loop, Instances
  <2> QED
    BY <1>1, <1>2, <1>5, <1>6, <1>7, <1>8, <2>1 DEF TypeOK
<1>10. SamePlan(inst'[Current].plan, inst[Current].plan)
  BY <1>1, <1>3, <1>7, TypeFacts, UntouchedPlan
<1>11. ASSUME Sound, LiveInv
       PROVE  /\ run'.ret = "unsolvable" /\ ~user.all_suspended
              /\ \A k \in DOMAIN CurrInst.plan :
                    CurrInst.plan[k].flare \in given_up.flares \cup {NoFlare}
  <2>1. /\ CurrInst.plan[CurrInst.idx].type = "checkpoint" /\ CurrInst.idx \in Nat
        /\ DOMAIN CurrInst.plan = 1..CurrInst.idx
        /\ \A k \in DOMAIN CurrInst.plan :
              IF CurrInst.plan[k].type = "checkpoint" THEN CurrInst.plan[k].flare = NoFlare
              ELSE CurrInst.plan[k].flare \in Flare
    BY <1>1, <1>2, <1>3, CurrentFacts
  <2>2. \A f \in Flare : flare[f].code # "solved"
    BY <1>11, <2>1, NoneSolved DEF LiveInv
  <2>3. \A k \in DOMAIN CurrInst.plan : CurrInst.plan[k].type # "checkpoint" =>
           CurrInst.plan[k].flare \in given_up.flares /\ ~user.all_suspended /\ run.ret = "unsolvable"
    BY <1>2, <1>3, <1>11, <2>1, <2>2 DEF LiveInv, RoundInv, Done
  <2>4. \E k \in DOMAIN CurrInst.plan : CurrInst.plan[k].type # "checkpoint"
    <3>1. inst[Current].plan # << >>
      BY <1>1, <1>2, <1>3 DEF CallInv
    <3> QED
      BY <1>3, <1>11, <3>1 DEF Sound, RunningPlans, CurrInst
  <2> QED
    BY <1>6, <2>1, <2>3, <2>4
<1> QED
  BY <1>2, <1>3, <1>5, <1>6, <1>7, <1>8, <1>9, <1>10, <1>11, InstanceLeft

\* What is suspended here was not solved.
LEMMA SuspendedFacts ==
    ASSUME BaseInv, at = "ran", NEW f, f = Item.flare
    PROVE  /\ f \in Flare /\ f = user.active /\ Current \in Instances
           /\ run.item = CurrInst.idx /\ run.item \in DOMAIN CurrInst.plan
           /\ Item = CurrInst.plan[run.item] /\ Item.initial \in Nat \cup {NoLimit}
           /\ Item.type # "checkpoint" /\ run.soft = SoftIsLower
           /\ flare[f].checked = flare[f].obj
           /\ IF run.now THEN flare[f].code = run.ret /\ ~flare[f].ready /\ CurrInst.minimal # f
              ELSE flare[f].code \in {"solved", "unsolvable"} /\ run.ret # "solved"
           /\ run.ret # "suspended" => ~user.all_suspended
<1>1. RanInv /\ Current \in Instances
  BY DEF BaseInv, CallInv
<1>2. f = user.active
  BY <1>1 DEF RanInv
<1> QED
  BY <1>1, <1>2, CurrentFacts DEF RanInv, Item

\* An instance that is left at its own limit is not the last one of a sound set-up.
LEMMA LocalLimitExceededStep ==
    ASSUME IInv, LocalLimitExceeded
    PROVE  IInv'
<1>1. BaseInv /\ TypeOK /\ FlareInv /\ PlanInv /\ CallInv /\ SoundInv
  BY DEF IInv, BaseInv
<1> DEFINE f == Item.flare
           it == inst[Current]
           filled == [it EXCEPT !.plan[run.item].remaining = Item.initial]
<1>2. /\ at = "ran" /\ run.ret = "suspended"
      /\ conf[Current].limit # NoLimit
      /\ flare' = [RecycledFlares({Current}) EXCEPT ![f].traced = FALSE]
      /\ inst' = [inst EXCEPT ![Current] = RecycledInst(filled)]
      /\ user' = [user EXCEPT !.init = 0, !.current = @ + 1]
      /\ at' = Loop(Current + 1)
      /\ given_up' = [given_up EXCEPT !.instances = @ \cup {Current}]
      /\ UNCHANGED <<conf, board, answer, moves_read, limits, run>>
  BY DEF LocalLimitExceeded, LocalLimitMet
<1>3. /\ f \in Flare /\ Current \in Instances /\ Current = user.current
      /\ run.item \in DOMAIN it.plan /\ Item.initial \in Nat \cup {NoLimit}
  BY <1>1, <1>2, SuspendedFacts DEF Current, CurrInst
<1>4. it \in InstState /\ it.plan \in Seq(PlanState)
  BY <1>1, <1>3, TypeFacts
<1> HIDE DEF f
<1>5. filled \in InstState /\ SamePlan(filled.plan, it.plan)
  <2> DEFINE plan == [it.plan EXCEPT ![run.item].remaining = Item.initial]
  <2>1. SamePlan(plan, it.plan)
    BY <1>3, <1>4, PlanWithRemaining
  <2>2. filled = [it EXCEPT !.plan = plan]
    OBVIOUS
  <2> HIDE DEF plan, it
  <2>3. plan \in Seq(PlanState)
    BY <2>1 DEF SamePlan
  <2> HIDE DEF filled
  <2> QED
    BY <1>4, <2>1, <2>2, <2>3 DEF InstState
<1> HIDE DEF filled
<1>6. /\ inst' \in [Instances -> InstState]
      /\ inst'[Current].plan = filled.plan
      /\ inst'[Current].idx = 0 /\ inst'[Current].minimal = NoFlare
      /\ \A i \in Instances : i # Current => inst'[i] = inst[i]
  <2>1. /\ RecycledInst(filled) \in InstState /\ RecycledInst(filled).plan = filled.plan
        /\ RecycledInst(filled).idx = 0 /\ RecycledInst(filled).minimal = NoFlare
    BY <1>5, RecycledInstFacts
  <2> QED
    BY <1>1, <1>2, <1>3, <2>1 DEF TypeOK
<1>7. /\ user' \in [current : Nat, active : Flare \cup {NoFlare}, init : Nat, started : Nat,
                    all_suspended : BOOLEAN]
      /\ user'.init = 0 /\ user'.started = user.started /\ user'.current = user.current + 1
      /\ user'.active = user.active /\ user'.all_suspended = user.all_suspended
  <2>1. user \in [current : Nat, active : Flare \cup {NoFlare}, init : Nat, started : Nat,
                  all_suspended : BOOLEAN]
    BY <1>1 DEF TypeOK
  <2> DEFINE n == user.current + 1
  <2>2. user' = [user EXCEPT !.init = 0, !.current = n]
    BY <1>2
  <2>3. n \in Nat
    BY <2>1
  <2>4. n = user.current + 1
    OBVIOUS
  <2> HIDE DEF n
  <2> QED
    BY <2>1, <2>2, <2>3, <2>4
<1>8. /\ given_up' \in [flares : SUBSET Flare, instances : SUBSET Nat]
      /\ given_up'.flares = given_up.flares
      /\ given_up.instances \subseteq given_up'.instances /\ Current \in given_up'.instances
  <2>1. given_up \in [flares : SUBSET Flare, instances : SUBSET Nat] /\ Current \in Nat
    BY <1>1, <1>3, TypeFacts DEF TypeOK
  <2> QED
    BY <1>2, <2>1
<1>9. /\ flare' \in [Flare -> FlareState]
      /\ \A g \in Flare : flare'[g].code = "not_begun" /\ flare'[g].checked = 0 /\ flare'[g].obj = 0
  <2> DEFINE fls == RecycledFlares({Current})
             fl == fls[f]
  <2>1. /\ fls \in [Flare -> FlareState]
        /\ \A g \in Flare :
              IF \E i \in {Current} : g \in FlaresOf(i)
              THEN fls[g].code = "not_begun" /\ fls[g].checked = 0 /\ fls[g].obj = 0
              ELSE fls[g] = flare[g]
    BY <1>1, <1>3, RecycledFlareFacts
  <2>2. \A g \in Flare : fls[g].code = "not_begun" /\ fls[g].checked = 0 /\ fls[g].obj = 0
    BY <1>1, <2>1 DEF FlareInv, Begun
  <2>3. flare' = [fls EXCEPT ![f] = [fl EXCEPT !.traced = FALSE]]
    BY <1>2
  <2> HIDE DEF fls
  <2>4. fl \in FlareState /\ fl.code = "not_begun" /\ fl.checked = 0 /\ fl.obj = 0
    BY <1>3, <2>1, <2>2
  <2> HIDE DEF fl
  <2>5. LET r == [fl EXCEPT !.traced = FALSE]
        IN r \in FlareState /\ r.code = "not_begun" /\ r.checked = 0 /\ r.obj = 0
    BY <2>4 DEF FlareState
  <2> QED
    BY <1>3, <2>1, <2>2, <2>3, <2>5
<1>10. TypeOK'
  <2>1. at' \in {"loop", "leave"} /\ Instances' = Instances
    BY <1>2 DEF Loop, Instances
  <2> QED
    BY <1>1, <1>2, <1>6, <1>7, <1>8, <1>9, <2>1 DEF TypeOK
<1>11. Sound => at' = "loop"
  <2>1. Sound => Current = 1 /\ Len(conf) > 1
    BY <1>2, <1>3 DEF Sound, UsableLimits
  <2>2. Instances = 1..Len(conf) /\ Len(conf) \in Nat
    BY <1>1, TypeFacts
  <2> QED
    BY <1>2, <2>1, <2>2 DEF Loop
<1>12. SamePlan(inst'[Current].plan, inst[Current].plan)
  BY <1>5, <1>6
<1> QED
  BY <1>2, <1>3, <1>6, <1>7, <1>8, <1>9, <1>10, <1>11, <1>12, InstanceLeft

\* The answer is the shortest solution, where it is taken from a flare at its solution.
LEMMA ShortestTold ==
    ASSUME BaseInv, LiveInv, at # "user", ~(at = "ran" /\ run.ret = "solved"),
           Current \in Instances, CurrInst.minimal # NoFlare, AnswerMinimal(CurrInst),
           inst'[Current].minimal = CurrInst.minimal, Current' = Current,
           UNCHANGED <<conf, board, limits, flare, given_up>>
    PROVE  ToldInv'
<1> DEFINE f == CurrInst.minimal
<1>1. TypeOK
  BY DEF BaseInv
<1>2. f \in Flare /\ flare[f].code = "solved"
  BY CurrentFacts
<1>3. Told(f) /\ \A g \in Flare : flare[g].code = "solved" => Length(f) <= Length(g)
  BY <1>2 DEF LiveInv, SolvedInv
<1>4. /\ user' = [user EXCEPT !.active = f, !.init = flare[f].obj]
      /\ answer' = "solved"
  BY DEF AnswerMinimal
<1>5. /\ user'.active = f /\ user'.init = flare[f].obj /\ user'.started = user.started
      /\ user.started \in Nat /\ flare[f].obj \in Nat
  <2>1. user \in [current : Nat, active : Flare \cup {NoFlare}, init : Nat, started : Nat,
                  all_suspended : BOOLEAN]
    BY <1>1 DEF TypeOK
  <2> QED
    BY <1>1, <1>2, <1>4, <2>1, TypeFacts
<1>6. CurrInst' = inst'[Current] /\ CurrInst'.minimal = f /\ f # NoFlare
  BY DEF CurrInst
<1> HIDE DEF f
<1>7. SuspendedAtLimit'
  <2>1. GetNumTimes(user)' = user.started
    BY <1>5 DEF GetNumTimes
  <2>2. IterationsLimit' = IterationsLimit
    BY DEF IterationsLimit
  <2> QED
    BY <1>4, <2>1, <2>2 DEF SuspendedAtLimit, LiveInv, CountInv
<1>8. ShortestIsGiven'
  <2> SUFFICES /\ flare'[f].code = "solved" /\ SingleFlare(CurrInst') = f
               /\ \A g \in FlaresOf(Current) :
                     flare'[g].code = "solved" => Result[board].search[f].length <= Result[board].search[g].length
               /\ TracedLengths(flare, f) = {Result[board].search[f].length}
    <3>1. \A g : TracedLengths(flare, g)' = TracedLengths(flare, g)
      BY DEF TracedLengths
    <3>2. \A i : FlaresOf(i)' = FlaresOf(i)
      BY DEF FlaresOf
    <3> QED
      BY <1>5, <3>1, <3>2 DEF ShortestIsGiven
  <2>1. SingleFlare(CurrInst') = f
    BY <1>6 DEF SingleFlare
  <2>2. TracedLengths(flare, f) = {Result[board].search[f].length}
    BY <1>2, <1>3 DEF TracedLengths, Told, Length
  <2>3. FlaresOf(Current) \subseteq Flare
    BY <1>1, TypeFacts
  <2> QED
    BY <1>2, <1>3, <2>1, <2>2, <2>3 DEF Length
<1>9. NothingIsLeftToTry'
  BY <1>4 DEF NothingIsLeftToTry
<1>10. user'.active # NoFlare /\ SingleFlare(CurrInst)' = user'.active
  BY <1>5, <1>6 DEF SingleFlare
<1>11. flare'[user'.active].traced \/ flare'[user'.active].checked = flare'[user'.active].obj
  BY <1>3, <1>5 DEF Told
<1> QED
  BY <1>7, <1>8, <1>9, <1>10, <1>11 DEF ToldInv

\* The base of a step that answers, and at most goes one item on.
LEMMA AnswerBase ==
    ASSUME BaseInv, at # "user", at' = "user",
           answer' \in {"invalid", "solved", "unsolvable", "suspended", "soft_suspended"},
           Current \in Instances \/ inst' = inst,
           conf' = conf, board' = board, moves_read' = moves_read, limits' = limits,
           flare' = flare, run' = run, given_up' = given_up, run.ret # "solved",
           inst' \in [Instances -> InstState],
           \A i \in Instances : /\ inst'[i].plan = inst[i].plan /\ inst'[i].minimal = inst[i].minimal
                                /\ i # Current => inst'[i] = inst[i],
           Current \in Instances => inst'[Current].idx <= Len(inst[Current].plan),
           \/ user' = user
           \/ \E f \in Flare :
                 /\ user' = [user EXCEPT !.active = f, !.init = flare[f].obj]
                 /\ Begun(f) \/ flare[f].obj = 0
    PROVE  BaseInv' /\ SamePlans /\ Current' = Current
<1>1. TypeOK /\ FlareInv /\ PlanInv /\ CallInv
  BY DEF BaseInv
<1>2. /\ user \in [current : Nat, active : Flare \cup {NoFlare}, init : Nat, started : Nat,
                   all_suspended : BOOLEAN]
      /\ \A f \in Flare : flare[f].obj \in Nat
      /\ NoFlare \notin Flare
  BY <1>1, TypeFacts DEF TypeOK
<1>3. /\ user' \in [current : Nat, active : Flare \cup {NoFlare}, init : Nat, started : Nat,
                    all_suspended : BOOLEAN]
      /\ user'.current = user.current /\ user'.all_suspended = user.all_suspended
      /\ user'.active = NoFlare => user.active = NoFlare
      /\ user' = user \/ \E f \in Flare : user'.init = flare[f].obj /\ (Begun(f) \/ flare[f].obj = 0)
  <2>1. CASE user' = user
    BY <1>2, <2>1
  <2>2. ASSUME NEW f \in Flare, user' = [user EXCEPT !.active = f, !.init = flare[f].obj],
               Begun(f) \/ flare[f].obj = 0
        PROVE  /\ user' \in [current : Nat, active : Flare \cup {NoFlare}, init : Nat, started : Nat,
                             all_suspended : BOOLEAN]
               /\ user'.current = user.current /\ user'.all_suspended = user.all_suspended
               /\ user'.active = f /\ user'.init = flare[f].obj
    <3> DEFINE n == flare[f].obj
    <3>1. n \in Nat /\ user' = [user EXCEPT !.active = f, !.init = n]
      BY <1>2, <2>2
    <3> HIDE DEF n
    <3>2. /\ user' \in [current : Nat, active : Flare \cup {NoFlare}, init : Nat, started : Nat,
                        all_suspended : BOOLEAN]
          /\ user'.current = user.current /\ user'.all_suspended = user.all_suspended
          /\ user'.active = f /\ user'.init = n
      BY <1>2, <3>1
    <3> QED
      BY <3>2 DEF n
  <2> QED
    BY <1>2, <2>1, <2>2
<1>4. Instances' = Instances /\ Current' = Current /\ \A i \in Instances : FlaresOf(i)' = FlaresOf(i)
  BY <1>3 DEF Instances, Current, FlaresOf
<1>5. TypeOK'
  BY <1>1, <1>3, <1>4 DEF TypeOK
<1>6. FlareInv'
  BY <1>1, <1>4 DEF FlareInv, Begun
<1>7. PlanInv'
  <2> SUFFICES ASSUME NEW i \in Instances
               PROVE  inst'[i].idx <= Len(inst'[i].plan)
    BY <1>1, <1>4 DEF PlanInv
  <2> QED
    BY <1>1 DEF PlanInv
<1>8. CallInv'
  <2>1. \A f \in Flare : Begun(f)' <=> Begun(f)
    BY DEF Begun
  <2>2. (\A f \in Flare : ~Begun(f)) => user'.init = 0
    BY <1>1, <1>3 DEF CallInv
  <2> QED
    BY <1>1, <1>3, <1>4, <2>1, <2>2 DEF CallInv
<1>9. RanInv' /\ CleanInv'
  BY DEF RanInv, CleanInv
<1>10. SamePlans
  BY <1>1, PlansUntouched
<1> QED
  BY <1>4, <1>5, <1>6, <1>7, <1>8, <1>9, <1>10 DEF BaseInv

\* The place in the plan after an item was taken.
LEMMA ItemTaken ==
    ASSUME BaseInv, at # "user", Current \in Instances, CurrInst.idx < Len(CurrInst.plan),
           inst' = [inst EXCEPT ![Current].idx = @ + 1]
    PROVE  /\ inst' \in [Instances -> InstState]
           /\ \A i \in Instances : /\ inst'[i].plan = inst[i].plan /\ inst'[i].minimal = inst[i].minimal
                                   /\ i # Current => inst'[i] = inst[i]
           /\ inst'[Current].idx <= Len(inst[Current].plan)
<1> DEFINE it == inst[Current]
           new == [it EXCEPT !.idx = @ + 1]
<1>1. it \in InstState /\ it.idx \in Nat /\ it.plan \in Seq(PlanState) /\ it.idx < Len(it.plan)
  BY TypeFacts DEF BaseInv, CurrInst
<1>2. inst' = [inst EXCEPT ![Current] = new] /\ inst \in [Instances -> InstState]
  BY DEF BaseInv, TypeOK
<1> HIDE DEF it
<1>3. new \in InstState /\ new.plan = it.plan /\ new.idx = it.idx + 1 /\ new.minimal = it.minimal
  BY <1>1 DEF InstState
<1> HIDE DEF new
<1>4. inst'[Current] = new /\ \A i \in Instances : i # Current => inst'[i] = inst[i]
  BY <1>2
<1>5. inst' \in [Instances -> InstState]
  BY <1>2, <1>3
<1>6. it.idx + 1 <= Len(it.plan)
  BY <1>1
<1> QED
  BY <1>3, <1>4, <1>5, <1>6 DEF it

\* A checkpoint with a solution gives the shortest one.
LEMMA CheckpointSolvedStep ==
    ASSUME IInv, CheckpointSolved
    PROVE  IInv'
<1>1. BaseInv /\ TypeOK /\ CallInv /\ SoundInv
  BY DEF IInv, BaseInv
<1>2. /\ at = "loop" /\ CurrInst.idx < Len(CurrInst.plan)
      /\ inst' = [inst EXCEPT ![Current].idx = @ + 1]
      /\ CurrInst.minimal # NoFlare
      /\ AnswerMinimal(CurrInst)
      /\ at' = "user"
      /\ UNCHANGED <<conf, board, moves_read, limits, flare, run, given_up>>
  BY DEF CheckpointSolved, TakeItem
<1>3. Current \in Instances /\ run.ret # "solved"
  BY <1>1, <1>2 DEF CallInv
<1>4. /\ CurrInst.minimal \in Flare /\ Begun(CurrInst.minimal)
      /\ user' = [user EXCEPT !.active = CurrInst.minimal, !.init = flare[CurrInst.minimal].obj]
      /\ answer' = "solved"
  BY <1>1, <1>2, <1>3, CurrentFacts DEF AnswerMinimal, Begun
<1>5. /\ inst' \in [Instances -> InstState]
      /\ \A i \in Instances : /\ inst'[i].plan = inst[i].plan /\ inst'[i].minimal = inst[i].minimal
                              /\ i # Current => inst'[i] = inst[i]
      /\ inst'[Current].idx <= Len(inst[Current].plan)
  BY <1>1, <1>2, <1>3, ItemTaken
<1>6. BaseInv' /\ SamePlans /\ Current' = Current
  BY <1>1, <1>2, <1>3, <1>4, <1>5, AnswerBase
<1>7. ~Live'
  BY <1>2, <1>4 DEF Live, Suspended
<1>8. ASSUME Sound' PROVE ToldInv'
  <2>1. LiveInv
    BY <1>1, <1>2, <1>6, <1>8, SoundStays DEF SoundInv, Live
  <2>2. inst'[Current].minimal = CurrInst.minimal
    BY <1>3, <1>5 DEF CurrInst
  <2> QED
    BY <1>1, <1>2, <1>3, <1>6, <2>1, <2>2, ShortestTold
<1> QED
  BY <1>6, <1>7, <1>8 DEF IInv, SoundInv

\* A board that is not valid is found out by the first flare that is begun.
LEMMA InvalidBoardStep ==
    ASSUME IInv, InvalidBoard
    PROVE  IInv'
<1>1. BaseInv /\ TypeOK /\ CallInv /\ FlareInv
  BY DEF IInv, BaseInv
<1>2. /\ at = "loop" /\ CurrInst.idx < Len(CurrInst.plan)
      /\ CurrInst.plan[CurrInst.idx + 1].type # "checkpoint"
      /\ inst' = [inst EXCEPT ![Current].idx = @ + 1]
      /\ flare[NextFlare].code = "not_begun"
      /\ user' = [user EXCEPT !.active = NextFlare, !.init = flare[NextFlare].checked]
      /\ answer' = "invalid" /\ at' = "user"
      /\ UNCHANGED <<conf, board, moves_read, limits, flare, run, given_up>>
  BY DEF InvalidBoard, TakeItem
<1>3. Current \in Instances /\ run.ret # "solved"
  BY <1>1, <1>2 DEF CallInv
<1>4. NextFlare \in Flare
  <2>1. CurrInst.idx + 1 \in DOMAIN CurrInst.plan
    BY <1>1, <1>2, <1>3, CurrentFacts
  <2> QED
    BY <1>1, <1>2, <1>3, <2>1, CurrentFacts DEF NextFlare
<1>5. flare[NextFlare].checked = flare[NextFlare].obj /\ flare[NextFlare].obj = 0
  BY <1>1, <1>2, <1>4 DEF FlareInv, Begun
<1>6. user' = [user EXCEPT !.active = NextFlare, !.init = flare[NextFlare].obj]
  BY <1>2, <1>5
<1>7. /\ inst' \in [Instances -> InstState]
      /\ \A i \in Instances : /\ inst'[i].plan = inst[i].plan /\ inst'[i].minimal = inst[i].minimal
                              /\ i # Current => inst'[i] = inst[i]
      /\ inst'[Current].idx <= Len(inst[Current].plan)
  BY <1>1, <1>2, <1>3, ItemTaken
<1>8. BaseInv'
  BY <1>1, <1>2, <1>3, <1>4, <1>5, <1>6, <1>7, AnswerBase
<1> QED
  BY <1>2, <1>8, NothingTold DEF IInv

-----------------------------------------------------------------------------
(***************************************************************************)
(* The answer after the loop.                                              *)
(***************************************************************************)
\* An answer alone changes nothing that was known.
LEMMA LeaveBase ==
    ASSUME BaseInv, NEW ret \in {"solved", "unsolvable", "suspended", "soft_suspended"},
           Leave(ret), user' = user
    PROVE  BaseInv' /\ SamePlans /\ Current' = Current /\ CurrInst' = CurrInst /\ run.ret # "solved"
<1>1. TypeOK /\ CallInv /\ PlanInv
  BY DEF BaseInv
<1>2. /\ at = "leave" /\ at' = "user" /\ answer' = ret
      /\ UNCHANGED <<conf, board, moves_read, limits, inst, flare, run, given_up>>
  BY DEF Leave
<1>3. run.ret # "solved"
  BY <1>1, <1>2 DEF CallInv
<1>4. inst' \in [Instances -> InstState] /\ (Current \in Instances => inst'[Current].idx <= Len(inst[Current].plan))
  BY <1>1, <1>2 DEF TypeOK, PlanInv
<1>5. BaseInv' /\ SamePlans /\ Current' = Current
  BY <1>2, <1>3, <1>4, AnswerBase
<1> QED
  BY <1>2, <1>3, <1>5 DEF CurrInst

\* What is known of the search stays known for the call that resumes it.
LEMMA LeaveLive ==
    ASSUME LiveInv, NEW ret, Leave(ret), user' = user
    PROVE  LiveInv'
<1>1. /\ at = "leave" /\ at' = "user"
      /\ UNCHANGED <<conf, board, moves_read, limits, inst, flare, user, run, given_up>>
  BY DEF Leave
<1>2. /\ Instances' = Instances /\ Current' = Current /\ CurrInst' = CurrInst /\ Done' = Done
      /\ IterationsLimit' = IterationsLimit
  BY <1>1 DEF Instances, Current, CurrInst, Done, IterationsLimit
<1>3. CountInv'
  BY <1>1, <1>2 DEF LiveInv, CountInv
<1>4. SolvedInv'
  BY <1>1, <1>2 DEF LiveInv, SolvedInv, Listed, Told, Length
<1>5. StaleInv' /\ LeaveInv'
  BY <1>1 DEF StaleInv, LeaveInv
<1>6. RoundInv'
  BY <1>1, <1>2 DEF LiveInv, RoundInv
<1>7. LeftInv'
  BY <1>1, <1>2 DEF LiveInv, LeftInv
<1> QED
  BY <1>3, <1>4, <1>5, <1>6, <1>7 DEF LiveInv

\* How the count stands when the loop is left.
LEMMA LeaveCount ==
    ASSUME BaseInv, LiveInv, at = "leave"
    PROVE  /\ user.active # NoFlare /\ GetNumTimes(user) = user.started
           /\ IterationsLimit # NoLimit => user.started <= IterationsLimit
           /\ Current \in Instances =>
                 /\ user.started = IterationsLimit
                 /\ IF run.soft THEN user.started = limits.soft /\ (limits.hard # NoLimit => limits.hard > user.started)
                    ELSE user.started = limits.hard
<1>1. /\ limits \in [hard : LimitOrNone, soft : LimitOrNone]
      /\ user.active \in Flare \cup {NoFlare} /\ user.init \in Nat /\ user.started \in Nat
      /\ user.all_suspended \in BOOLEAN
  BY TypeFacts DEF BaseInv, TypeOK
<1>2. user.active # NoFlare
  BY DEF BaseInv, CallInv, LiveInv, LeaveInv
<1>3. GetNumTimes(user) = user.started
  BY <1>1, <1>2 DEF LiveInv, CountInv, GetNumTimes
<1> DEFINE m == IterationsLimit
<1>4. m # NoLimit => user.started <= m
  BY DEF LiveInv, CountInv
<1>5. ASSUME Current \in Instances
      PROVE  /\ user.started = m
             /\ IF run.soft THEN user.started = limits.soft /\ (limits.hard # NoLimit => limits.hard > user.started)
                ELSE user.started = limits.hard
  <2>1. m = AtMost({limits.hard, limits.soft}, NoLimit)
    BY DEF IterationsLimit
  <2>2. m # NoLimit /\ user.started >= m /\ run.soft = SoftIsLower
    BY <1>5 DEF LiveInv, LeaveInv, BoardLimitMet
  <2>3. NoLimit \notin Int
    BY LimitsAssumption DEF LimitsAssumption
  <2> HIDE DEF m
  <2>4. /\ limits.hard \in Nat \cup {NoLimit} /\ limits.soft \in Nat \cup {NoLimit}
        /\ m \in Nat \cup {NoLimit}
        /\ m # NoLimit => m \in {limits.hard, limits.soft}
        /\ limits.hard # NoLimit => m <= limits.hard
        /\ limits.soft # NoLimit => m <= limits.soft
    BY <1>1, <2>1, BoardLimit
  <2>5. m \in Nat /\ user.started = m
    BY <1>1, <1>4, <2>2, <2>4
  <2>6. CASE SoftIsLower
    <3>1. limits.soft # NoLimit /\ (limits.hard # NoLimit => limits.soft < limits.hard)
      BY <2>6 DEF SoftIsLower
    <3>2. m = limits.soft
      BY <2>2, <2>3, <2>4, <2>5, <3>1
    <3> QED
      BY <2>2, <2>5, <2>6, <3>1, <3>2, <2>4
  <2>7. CASE ~SoftIsLower
    <3>1. limits.soft # NoLimit => limits.hard # NoLimit /\ ~(limits.soft < limits.hard)
      BY <2>7 DEF SoftIsLower
    <3>2. m = limits.hard
      BY <2>2, <2>3, <2>4, <2>5, <3>1
    <3> QED
      BY <2>2, <2>5, <2>7, <3>2
  <2> QED
    BY <2>5, <2>6, <2>7
<1> HIDE DEF m
<1> QED
  BY <1>2, <1>3, <1>4, <1>5 DEF m

\* The loop came to its end after the last instance: nothing is left to try.
LEMMA LeaveWithoutStep ==
    ASSUME IInv, LeaveWithout
    PROVE  IInv'
<1>1. BaseInv /\ TypeOK /\ CallInv /\ SoundInv
  BY DEF IInv, BaseInv
<1>2. /\ at = "leave" /\ at' = "user" /\ answer' = Returned /\ Returned # "suspended"
      /\ Leave(Returned)
      /\ UNCHANGED <<conf, board, moves_read, limits, inst, flare, user, run, given_up>>
  BY DEF LeaveWithout, Leave
<1>3. Returned = "unsolvable" /\ ~user.all_suspended /\ run.ret = "unsolvable"
  <2>1. run.ret \in {"suspended", "solved", "unsolvable"} /\ run.ret # "solved"
    BY <1>1, <1>2, TypeFacts DEF CallInv
  <2> QED
    BY <1>2, <2>1 DEF Returned
<1>4. BaseInv' /\ SamePlans /\ Current' = Current /\ CurrInst' = CurrInst
  BY <1>1, <1>2, <1>3, LeaveBase
<1>5. ~Live'
  BY <1>2, <1>3 DEF Live, Suspended
<1>6. ASSUME Sound' PROVE ToldInv'
  <2>1. LiveInv
    BY <1>1, <1>2, <1>4, <1>6, SoundStays DEF SoundInv, Live
  <2>2. Current \notin Instances /\ Instances = 1..Len(conf) /\ Len(conf) \in Nat
    BY <1>1, <1>2, <1>3, <2>1, TypeFacts DEF LiveInv, LeaveInv
  <2>3. \A i \in Instances : i < Current
    BY <1>1, <2>2 DEF CallInv
  <2>4. NothingIsLeftToTry'
    <3>1. Instances' = Instances
      BY <1>2 DEF Instances
    <3> QED
      BY <1>2, <2>1, <2>3, <3>1 DEF LiveInv, LeftInv, NothingIsLeftToTry
  <2>5. GetNumTimes(user) = user.started /\ (IterationsLimit # NoLimit => user.started <= IterationsLimit)
    BY <1>1, <1>2, <2>1, LeaveCount
  <2>6. GetNumTimes(user)' = GetNumTimes(user) /\ IterationsLimit' = IterationsLimit
    BY <1>2 DEF GetNumTimes, IterationsLimit
  <2>7. SuspendedAtLimit'
    BY <1>2, <1>3, <2>5, <2>6 DEF SuspendedAtLimit
  <2> QED
    BY <1>2, <1>3, <2>4, <2>7 DEF ToldInv, ShortestIsGiven
<1> QED
  BY <1>4, <1>5, <1>6 DEF IInv, SoundInv

\* Without a current instance, nothing is suspended.
LEMMA NoneSuspended ==
    ASSUME BaseInv, LiveInv, at = "leave", Returned = "suspended"
    PROVE  Current \in Instances
BY DEF LiveInv, LeaveInv, Returned

\* At the soft limit: the hard one is higher, or there is none.
LEMMA LeaveSoftlyStep ==
    ASSUME IInv, LeaveSoftly
    PROVE  IInv'
<1>1. BaseInv /\ SoundInv
  BY DEF IInv
<1>2. /\ at = "leave" /\ at' = "user" /\ answer' = "soft_suspended"
      /\ Returned = "suspended" /\ run.soft
      /\ Leave("soft_suspended")
      /\ UNCHANGED <<conf, board, moves_read, limits, inst, flare, user, run, given_up>>
  BY DEF LeaveSoftly, Leave, SoftlySuspended
<1>3. BaseInv' /\ SamePlans /\ Current' = Current /\ CurrInst' = CurrInst
  BY <1>1, <1>2, LeaveBase
<1>4. ASSUME Sound' PROVE LiveInv' /\ ToldInv'
  <2>1. LiveInv
    BY <1>1, <1>2, <1>3, <1>4, SoundStays DEF SoundInv, Live
  <2>2. Current \in Instances
    BY <1>1, <1>2, <2>1, NoneSuspended
  <2>3. GetNumTimes(user) = user.started /\ user.started = limits.soft
    BY <1>1, <1>2, <2>1, <2>2, LeaveCount
  <2>4. GetNumTimes(user)' = GetNumTimes(user)
    BY <1>2 DEF GetNumTimes
  <2>5. SuspendedAtLimit'
    BY <1>2, <2>3, <2>4 DEF SuspendedAtLimit
  <2>6. ToldInv'
    BY <1>2, <2>5 DEF ToldInv, ShortestIsGiven, NothingIsLeftToTry
  <2> QED
    BY <1>2, <2>1, <2>6, LeaveLive
<1> QED
  BY <1>3, <1>4 DEF IInv, SoundInv

\* At the hard limit, and no flare is at a solution.
LEMMA LeaveSuspendedStep ==
    ASSUME IInv, LeaveSuspended
    PROVE  IInv'
<1>1. BaseInv /\ SoundInv
  BY DEF IInv
<1>2. /\ at = "leave" /\ at' = "user" /\ answer' = "suspended"
      /\ Returned = "suspended" /\ ~SoftlySuspended
      /\ Current \in Instances => CurrInst.minimal = NoFlare
      /\ Leave("suspended")
      /\ UNCHANGED <<conf, board, moves_read, limits, inst, flare, user, run, given_up>>
  BY DEF LeaveSuspended, Leave
<1>3. BaseInv' /\ SamePlans /\ Current' = Current /\ CurrInst' = CurrInst
  BY <1>1, <1>2, LeaveBase
<1>4. ASSUME Sound' PROVE LiveInv' /\ ToldInv'
  <2>1. LiveInv
    BY <1>1, <1>2, <1>3, <1>4, SoundStays DEF SoundInv, Live
  <2>2. Current \in Instances
    BY <1>1, <1>2, <2>1, NoneSuspended
  <2>3. GetNumTimes(user) = user.started /\ user.started = limits.hard
    <3>1. /\ GetNumTimes(user) = user.started
          /\ IF run.soft THEN user.started = limits.soft /\ (limits.hard # NoLimit => limits.hard > user.started)
             ELSE user.started = limits.hard
      BY <1>1, <1>2, <2>1, <2>2, LeaveCount
    <3>2. ~run.soft
      BY <1>2, <3>1 DEF SoftlySuspended
    <3> QED
      BY <3>1, <3>2
  <2>4. GetNumTimes(user)' = GetNumTimes(user)
    BY <1>2 DEF GetNumTimes
  <2>5. SuspendedAtLimit'
    BY <1>2, <2>3, <2>4 DEF SuspendedAtLimit
  <2>6. /\ user'.active # NoFlare /\ SingleFlare(CurrInst') = user'.active
        /\ flare'[user'.active].checked = flare'[user'.active].obj
    BY <1>2, <1>3, <2>1, <2>2 DEF LiveInv, LeaveInv, SingleFlare
  <2>7. ToldInv'
    BY <1>2, <2>5, <2>6 DEF ToldInv, ShortestIsGiven, NothingIsLeftToTry
  <2> QED
    BY <1>2, <2>1, <2>7, LeaveLive
<1> QED
  BY <1>3, <1>4 DEF IInv, SoundInv

\* At the hard limit, but a flare is at a solution: it is the answer.
LEMMA LeaveSolvedStep ==
    ASSUME IInv, LeaveSolved
    PROVE  IInv'
<1>1. BaseInv /\ TypeOK /\ CallInv /\ PlanInv /\ SoundInv
  BY DEF IInv, BaseInv
<1>2. /\ at = "leave" /\ at' = "user" /\ answer' = "solved"
      /\ Current \in Instances /\ CurrInst.minimal # NoFlare
      /\ AnswerMinimal(CurrInst)
      /\ UNCHANGED <<conf, board, moves_read, limits, inst, flare, run, given_up>>
  BY DEF LeaveSolved, Leave
<1>3. run.ret # "solved"
  BY <1>1, <1>2 DEF CallInv
<1>4. /\ CurrInst.minimal \in Flare /\ Begun(CurrInst.minimal)
      /\ user' = [user EXCEPT !.active = CurrInst.minimal, !.init = flare[CurrInst.minimal].obj]
  BY <1>1, <1>2, CurrentFacts DEF AnswerMinimal, Begun
<1>5. inst' \in [Instances -> InstState] /\ inst'[Current].idx <= Len(inst[Current].plan)
  BY <1>1, <1>2 DEF TypeOK, PlanInv
<1>6. BaseInv' /\ SamePlans /\ Current' = Current
  BY <1>1, <1>2, <1>3, <1>4, <1>5, AnswerBase
<1>7. ~Live'
  BY <1>2 DEF Live, Suspended
<1>8. ASSUME Sound' PROVE ToldInv'
  <2>1. LiveInv
    BY <1>1, <1>2, <1>6, <1>8, SoundStays DEF SoundInv, Live
  <2>2. inst'[Current].minimal = CurrInst.minimal
    BY <1>2 DEF CurrInst
  <2> QED
    BY <1>1, <1>2, <1>6, <2>1, <2>2, ShortestTold
<1> QED
  BY <1>6, <1>7, <1>8 DEF IInv, SoundInv

\* Nothing is read past the last instance in a sound set-up.
LEMMA LeaveOutOfRangeStep ==
    ASSUME IInv, LeaveOutOfRange
    PROVE  IInv'
<1>1. BaseInv /\ SoundInv
  BY DEF IInv
<1>2. /\ at = "leave" /\ at' = "user" /\ answer' = "solved"
      /\ Returned = "suspended" /\ Current \notin Instances
      /\ Leave("solved") /\ user' = user
  BY DEF LeaveOutOfRange, Leave
<1>3. BaseInv' /\ SamePlans
  BY <1>1, <1>2, LeaveBase
<1>4. ~Sound'
  <2>1. ASSUME Sound' PROVE FALSE
    <3>1. conf' = conf
      BY <1>2 DEF Leave
    <3>2. LiveInv
      BY <1>1, <1>2, <1>3, <2>1, <3>1, SoundStays DEF SoundInv, Live
    <3> QED
      BY <1>1, <1>2, <3>2, NoneSuspended
  <2> QED
    BY <2>1
<1> QED
  BY <1>3, <1>4 DEF IInv, SoundInv

-----------------------------------------------------------------------------
(***************************************************************************)
(* What is done with a flare after it has run.                             *)
(***************************************************************************)
\* That a solution was traced is forgotten, and nothing else.
Untraced(f) == [flare EXCEPT ![f].traced = FALSE]

\* Only the flag changes.
LEMMA UntracedFacts ==
    ASSUME flare \in [Flare -> FlareState], NEW f \in Flare
    PROVE  /\ Untraced(f) \in [Flare -> FlareState]
           /\ \A g \in Flare : g # f => Untraced(f)[g] = flare[g]
           /\ ~Untraced(f)[f].traced /\ Untraced(f)[f].ready = flare[f].ready
           /\ \A g \in Flare : /\ Untraced(f)[g].code = flare[g].code
                               /\ Untraced(f)[g].checked = flare[g].checked
                               /\ Untraced(f)[g].obj = flare[g].obj
<1> DEFINE fl == flare[f]
           new == [fl EXCEPT !.traced = FALSE]
           r == Untraced(f)
<1>1. fl \in FlareState
  OBVIOUS
<1>2. r = [flare EXCEPT ![f] = new]
  BY DEF Untraced
<1> HIDE DEF fl, r
<1>3. new \in FlareState /\ ~new.traced /\ new.ready = fl.ready
      /\ new.code = fl.code /\ new.checked = fl.checked /\ new.obj = fl.obj
  BY <1>1 DEF FlareState
<1> HIDE DEF new
<1>4. r[f] = new /\ \A g \in Flare : g # f => r[g] = flare[g]
  BY <1>2
<1>5. r \in [Flare -> FlareState]
  BY <1>2, <1>3
<1> QED
  BY <1>3, <1>4, <1>5 DEF fl, r

\* At the limit of the user the item is put back, to be taken up by the next call.
LEMMA LimitsExceededStep ==
    ASSUME IInv, LimitsExceeded
    PROVE  IInv'
<1>1. BaseInv /\ TypeOK /\ CallInv /\ SoundInv
  BY DEF IInv, BaseInv
<1> DEFINE f == Item.flare
           it == inst[Current]
           new == [it EXCEPT !.intractable = f, !.idx = @ - 1]
<1>2. /\ at = "ran" /\ run.ret = "suspended" /\ BoardLimitMet
      /\ inst' = [inst EXCEPT ![Current] = new]
      /\ flare' = [flare EXCEPT ![f].traced = FALSE]
      /\ at' = "leave"
      /\ UNCHANGED <<conf, board, answer, moves_read, limits, user, run, given_up>>
  BY DEF LimitsExceeded
<1>3. /\ f \in Flare /\ f = user.active /\ Current \in Instances /\ run.soft = SoftIsLower
      /\ f # NoFlare
      /\ flare[f].checked = flare[f].obj /\ it.plan[it.idx].flare = f /\ it.idx \in DOMAIN it.plan
  BY <1>1, <1>2, SuspendedFacts, TypeFacts DEF CurrInst
<1>4. /\ it \in InstState /\ it = CurrInst /\ it.plan \in Seq(PlanState) /\ it.idx \in Nat
      /\ it.idx <= Len(it.plan) /\ DOMAIN it.plan = 1..Len(it.plan)
      /\ it.minimal # NoFlare => it.minimal \in Flare /\ flare[it.minimal].code = "solved"
  BY <1>1, <1>2, <1>3, CurrentFacts DEF CurrInst
<1> HIDE DEF f, it
<1>5. new \in InstState /\ new.plan = it.plan /\ new.idx = it.idx - 1 /\ new.minimal = it.minimal
      /\ new.all_finished = it.all_finished /\ new.intractable = f
  <2> DEFINE n == it.idx - 1
  <2>1. n \in Nat /\ new = [it EXCEPT !.intractable = f, !.idx = n] /\ n = it.idx - 1
    BY <1>3, <1>4
  <2> HIDE DEF n, new
  <2>2. new \in InstState /\ new.plan = it.plan /\ new.idx = n /\ new.minimal = it.minimal
        /\ new.all_finished = it.all_finished /\ new.intractable = f
    BY <1>3, <1>4, <2>1 DEF InstState
  <2> QED
    BY <2>1, <2>2
<1> HIDE DEF new
<1>6. /\ inst' \in [Instances -> InstState] /\ inst'[Current] = new
      /\ \A i \in Instances : i # Current => inst'[i] = inst[i]
  BY <1>1, <1>2, <1>3, <1>5 DEF TypeOK
<1>7. Instances' = Instances /\ Current' = Current /\ CurrInst' = new
  BY <1>2, <1>6 DEF Instances, Current, CurrInst
<1> DEFINE fls == flare'
<1>8. /\ fls \in [Flare -> FlareState]
      /\ \A g \in Flare : g # f => fls[g] = flare[g]
      /\ \A g \in Flare : fls[g].code = flare[g].code /\ fls[g].checked = flare[g].checked
                          /\ fls[g].obj = flare[g].obj
  <2>1. fls = Untraced(f)
    BY <1>2 DEF Untraced
  <2>2. flare \in [Flare -> FlareState] /\ f \in Flare
    BY <1>1, <1>3 DEF TypeOK
  <2> HIDE DEF fls
  <2> QED
    BY ONLY <2>1, <2>2, UntracedFacts
<1>9. TypeOK'
  BY <1>1, <1>2, <1>6, <1>7, <1>8 DEF TypeOK
<1>10. BaseInv' /\ SamePlans
  <2>1. SamePlan(inst'[Current].plan, inst[Current].plan)
    BY <1>4, <1>5, <1>6, UntouchedPlan DEF it
  <2>2. inst'[Current].idx <= Len(inst[Current].plan)
    BY <1>4, <1>5, <1>6 DEF it
  <2>3. inst'[Current].minimal # NoFlare => flare'[inst'[Current].minimal].code = "solved"
    BY <1>4, <1>5, <1>6, <1>8
  <2> QED
    BY <1>1, <1>2, <1>3, <1>6, <1>8, <1>9, <2>1, <2>2, <2>3, BaseStays
<1>11. ASSUME Sound' PROVE LiveInv'
  <2>1. LiveInv
    BY <1>1, <1>2, <1>10, <1>11, SoundStays DEF SoundInv, Live
  <2>2. flare[f].code # "solved"
    BY <1>2, <1>3, <2>1 DEF LiveInv, StaleInv
  <2>3. CountInv'
    BY <1>2, <1>3, <1>8, <2>1 DEF LiveInv, CountInv, IterationsLimit
  <2>4. SolvedInv'
    <3> SUFFICES ASSUME NEW g \in Flare, flare'[g].code = "solved"
                 PROVE  Listed(g)' /\ new.minimal # NoFlare /\ Length(new.minimal) <= Length(g) /\ Told(g)'
      <4>1. \A h : Length(h)' = Length(h)
        BY <1>2 DEF Length
      <4> QED
        BY <1>7, <4>1 DEF SolvedInv
    <3>1. flare[g].code = "solved" /\ g # f /\ flare'[g] = flare[g]
      BY <1>8, <2>2
    <3>2. Listed(g) /\ it.minimal # NoFlare /\ Length(it.minimal) <= Length(g) /\ Told(g)
      BY <1>2, <1>4, <2>1, <3>1 DEF LiveInv, SolvedInv
    <3>3. PICK j \in 1..it.idx : it.plan[j].flare = g /\ \A n \in j..it.idx : it.plan[n].type # "checkpoint"
      BY <1>4, <3>2 DEF Listed
    <3>4. j \in 1..(it.idx - 1) /\ (j..(it.idx - 1)) \subseteq j..it.idx
      BY <1>3, <1>4, <3>1, <3>3 DEF it
    <3>5. Listed(g)'
      BY <1>5, <1>7, <3>3, <3>4 DEF Listed
    <3>6. Told(g)'
      BY <1>2, <3>1, <3>2 DEF Told, Length
    <3> QED
      BY <1>5, <3>2, <3>5, <3>6
  <2>5. StaleInv'
    BY <1>2 DEF StaleInv
  <2>6. RoundInv'
    <3>1. Done = it.idx - 1 /\ Done' = it.idx - 1
      BY <1>2, <1>4, <1>5, <1>7 DEF Done
    <3> SUFFICES ASSUME it.all_finished, NEW k \in 1..(it.idx - 1), it.plan[k].type # "checkpoint"
                 PROVE  /\ it.plan[k].flare \in given_up.flares \/ flare'[it.plan[k].flare].code = "solved"
                        /\ ~user.all_suspended
      BY <1>2, <1>5, <1>7, <3>1 DEF RoundInv
    <3>2. /\ it.plan[k].flare \in given_up.flares \/ flare[it.plan[k].flare].code = "solved"
          /\ ~user.all_suspended
      BY <1>3, <1>4, <2>1, <3>1 DEF LiveInv, RoundInv
    <3>3. it.plan[k].flare \in Flare
      <4>1. k \in DOMAIN it.plan
        BY <1>4
      <4> QED
        BY <1>1, <1>2, <1>3, <1>4, <4>1, CurrentFacts
    <3> QED
      BY <1>8, <3>2, <3>3
  <2>7. LeftInv'
    <3>1. \A i \in Instances : inst'[i].plan = inst[i].plan
      BY <1>5, <1>6 DEF it
    <3> QED
      BY <1>2, <1>7, <2>1, <3>1 DEF LiveInv, LeftInv
  <2>8. LeaveInv'
    <3>1. BoardLimitMet' /\ SoftIsLower' = SoftIsLower
      BY <1>2 DEF BoardLimitMet, IterationsLimit, SoftIsLower
    <3> QED
      BY <1>2, <1>3, <1>5, <1>7, <1>8, <3>1 DEF LeaveInv
  <2> QED
    BY <2>3, <2>4, <2>5, <2>6, <2>7, <2>8 DEF LiveInv
<1> QED
  BY <1>2, <1>10, <1>11 DEF IInv, SoundInv

\* An item that is suspended at its quota makes another round necessary.
LEMMA QuotaExceededStep ==
    ASSUME IInv, QuotaExceeded
    PROVE  IInv'
<1>1. BaseInv /\ TypeOK /\ CallInv /\ SoundInv
  BY DEF IInv, BaseInv
<1> DEFINE f == Item.flare
           it == inst[Current]
           plan == [it.plan EXCEPT ![run.item].remaining = Item.initial]
           new == [it EXCEPT !.intractable = f, !.all_finished = FALSE, !.plan = plan]
<1>2. /\ at = "ran" /\ run.ret = "suspended"
      /\ inst' = [inst EXCEPT ![Current] = new]
      /\ flare' = [flare EXCEPT ![f].traced = FALSE]
      /\ at' = "loop"
      /\ UNCHANGED <<conf, board, answer, moves_read, limits, user, run, given_up>>
  BY DEF QuotaExceeded
<1>3. /\ f \in Flare /\ f = user.active /\ Current \in Instances
      /\ run.item \in DOMAIN it.plan /\ Item.initial \in Nat \cup {NoLimit}
  BY <1>1, <1>2, SuspendedFacts DEF CurrInst
<1>4. /\ it \in InstState /\ it = CurrInst /\ it.plan \in Seq(PlanState) /\ it.idx \in Nat
      /\ it.idx <= Len(it.plan) /\ DOMAIN it.plan = 1..Len(it.plan)
      /\ it.minimal # NoFlare => it.minimal \in Flare /\ flare[it.minimal].code = "solved"
  BY <1>1, <1>2, <1>3, CurrentFacts DEF CurrInst
<1>5. SamePlan(plan, it.plan)
  BY <1>3, <1>4, PlanWithRemaining
<1> HIDE DEF f, it, plan
<1>6. new \in InstState /\ new.plan = plan /\ new.idx = it.idx /\ new.minimal = it.minimal
      /\ ~new.all_finished
  <2>1. plan \in Seq(PlanState)
    BY <1>5 DEF SamePlan
  <2> QED
    BY <1>3, <1>4, <2>1 DEF InstState
<1> HIDE DEF new
<1>7. /\ inst' \in [Instances -> InstState] /\ inst'[Current] = new
      /\ \A i \in Instances : i # Current => inst'[i] = inst[i]
  BY <1>1, <1>2, <1>3, <1>6 DEF TypeOK
<1>8. Instances' = Instances /\ Current' = Current /\ CurrInst' = new
  BY <1>2, <1>7 DEF Instances, Current, CurrInst
<1> DEFINE fls == flare'
<1>9. /\ fls \in [Flare -> FlareState]
      /\ \A g \in Flare : g # f => fls[g] = flare[g]
      /\ \A g \in Flare : fls[g].code = flare[g].code /\ fls[g].checked = flare[g].checked
                          /\ fls[g].obj = flare[g].obj
  <2>1. fls = Untraced(f)
    BY <1>2 DEF Untraced
  <2>2. flare \in [Flare -> FlareState] /\ f \in Flare
    BY <1>1, <1>3 DEF TypeOK
  <2> HIDE DEF fls
  <2> QED
    BY ONLY <2>1, <2>2, UntracedFacts
<1>10. TypeOK'
  BY <1>1, <1>2, <1>7, <1>8, <1>9 DEF TypeOK
<1>11. BaseInv' /\ SamePlans
  <2>1. SamePlan(inst'[Current].plan, inst[Current].plan)
    BY <1>5, <1>6, <1>7 DEF it
  <2>2. inst'[Current].idx <= Len(inst[Current].plan)
    BY <1>4, <1>6, <1>7 DEF it
  <2>3. inst'[Current].minimal # NoFlare => flare'[inst'[Current].minimal].code = "solved"
    BY <1>4, <1>6, <1>7, <1>9
  <2> QED
    BY <1>1, <1>2, <1>3, <1>7, <1>9, <1>10, <2>1, <2>2, <2>3, BaseStays
<1>12. ASSUME Sound' PROVE LiveInv'
  <2>1. LiveInv
    BY <1>1, <1>2, <1>11, <1>12, SoundStays DEF SoundInv, Live
  <2>2. flare[f].code # "solved"
    BY <1>2, <1>3, <2>1 DEF LiveInv, StaleInv
  <2>3. CountInv'
    BY <1>2, <1>3, <1>9, <2>1 DEF LiveInv, CountInv, IterationsLimit
  <2>4. SolvedInv'
    <3> SUFFICES ASSUME NEW g \in Flare, flare'[g].code = "solved"
                 PROVE  Listed(g)' /\ new.minimal # NoFlare /\ Length(new.minimal) <= Length(g) /\ Told(g)'
      <4>1. \A h : Length(h)' = Length(h)
        BY <1>2 DEF Length
      <4> QED
        BY <1>8, <4>1 DEF SolvedInv
    <3>1. flare[g].code = "solved" /\ g # f /\ flare'[g] = flare[g]
      BY <1>9, <2>2
    <3>2. Listed(g) /\ it.minimal # NoFlare /\ Length(it.minimal) <= Length(g) /\ Told(g)
      BY <1>2, <1>4, <2>1, <3>1 DEF LiveInv, SolvedInv
    <3>3. PICK j \in 1..it.idx : it.plan[j].flare = g /\ \A n \in j..it.idx : it.plan[n].type # "checkpoint"
      BY <1>4, <3>2 DEF Listed
    <3>4. \A n \in j..it.idx : n \in DOMAIN it.plan
      BY <1>4
    <3>5. Listed(g)'
      <4>1. /\ j \in 1..new.idx /\ new.plan[j].flare = g
            /\ \A n \in j..new.idx : new.plan[n].type # "checkpoint"
        BY <1>4, <1>5, <1>6, <3>3, <3>4 DEF SamePlan
      <4> QED
        BY <1>8, <4>1 DEF Listed
    <3>6. Told(g)'
      BY <1>2, <3>1, <3>2 DEF Told, Length
    <3> QED
      BY <1>6, <3>2, <3>5, <3>6
  <2>5. StaleInv' /\ LeaveInv'
    BY <1>2 DEF StaleInv, LeaveInv
  <2>6. RoundInv'
    BY <1>6, <1>8 DEF RoundInv
  <2>7. LeftInv'
    BY <1>2, <1>8, <1>11, <2>1 DEF LiveInv, LeftInv, SamePlans, SamePlan
  <2> QED
    BY <2>3, <2>4, <2>5, <2>6, <2>7 DEF LiveInv
<1> QED
  BY <1>2, <1>11, <1>12 DEF IInv, SoundInv

\* A flare that gives up, or did before, has said its last word in this round.
LEMMA FlareUnsolvableStep ==
    ASSUME IInv, FlareUnsolvable
    PROVE  IInv'
<1>1. BaseInv /\ TypeOK /\ CallInv /\ SoundInv
  BY DEF IInv, BaseInv
<1> DEFINE f == Item.flare
           it == inst[Current]
           fl == flare[f]
           new == [fl EXCEPT !.checked = 0, !.ready = TRUE]
<1>2. /\ at = "ran" /\ run.ret = "unsolvable"
      /\ flare' = IF run.now THEN [flare EXCEPT ![f] = new] ELSE flare
      /\ at' = "loop"
      /\ UNCHANGED <<conf, board, answer, moves_read, limits, inst, user, run, given_up>>
  BY DEF FlareUnsolvable
<1>3. /\ f \in Flare /\ f = user.active /\ Current \in Instances
      /\ it.plan[it.idx].flare = f /\ it.idx \in DOMAIN it.plan
      /\ ~user.all_suspended /\ (run.now => fl.code = "unsolvable")
  BY <1>1, <1>2, SuspendedFacts DEF CurrInst
<1>4. /\ it \in InstState /\ it = CurrInst /\ it.plan \in Seq(PlanState) /\ it.idx \in Nat
      /\ it.idx <= Len(it.plan) /\ DOMAIN it.plan = 1..Len(it.plan)
      /\ it.minimal # NoFlare => it.minimal \in Flare /\ flare[it.minimal].code = "solved"
  BY <1>1, <1>2, <1>3, CurrentFacts DEF CurrInst
<1>5. fl \in FlareState
  BY <1>1, <1>3, TypeFacts
<1> HIDE DEF f, it, fl
<1>6. new \in FlareState /\ new.code = fl.code /\ new.obj = fl.obj
  BY <1>5 DEF FlareState
<1> HIDE DEF new
<1>7. /\ flare' \in [Flare -> FlareState]
      /\ \A g \in Flare : /\ flare'[g] = flare[g] \/ (g = f /\ run.now)
                          /\ flare'[g].code = flare[g].code /\ flare'[g].obj = flare[g].obj
  <2>1. CASE run.now
    <3>1. flare' \in [Flare -> FlareState] /\ flare'[f] = new /\ \A g \in Flare : g # f => flare'[g] = flare[g]
      BY <1>1, <1>2, <1>3, <1>6, <2>1 DEF TypeOK
    <3> QED
      BY <1>3, <1>6, <2>1, <3>1 DEF fl
  <2>2. CASE ~run.now
    BY <1>1, <1>2, <2>2 DEF TypeOK
  <2> QED
    BY <2>1, <2>2
<1>8. Instances' = Instances /\ Current' = Current /\ CurrInst' = CurrInst
  BY <1>2 DEF Instances, Current, CurrInst
<1>9. TypeOK'
  BY <1>1, <1>2, <1>7, <1>8 DEF TypeOK
<1>10. BaseInv' /\ SamePlans
  <2>1. SamePlan(inst'[Current].plan, inst[Current].plan)
    BY <1>2, <1>4, UntouchedPlan DEF it
  <2>2. inst'[Current].idx <= Len(inst[Current].plan)
    BY <1>2, <1>4 DEF it
  <2>3. inst'[Current].minimal # NoFlare => flare'[inst'[Current].minimal].code = "solved"
    BY <1>2, <1>4, <1>7 DEF it
  <2>4. \A g \in Flare : /\ flare'[g].code = flare[g].code
                         /\ flare[g].code \in {"not_begun", "suspended"} =>
                               flare'[g].checked = flare[g].checked /\ flare'[g].obj = flare[g].obj
    BY <1>3, <1>7 DEF fl
  <2> QED
    BY <1>1, <1>2, <1>3, <1>9, <2>1, <2>2, <2>3, <2>4, BaseStays
<1>11. ASSUME Sound' PROVE LiveInv'
  <2>1. LiveInv
    BY <1>1, <1>2, <1>10, <1>11, SoundStays DEF SoundInv, Live
  <2>2. f \in given_up.flares
    BY <1>2, <1>3, <2>1 DEF LiveInv, StaleInv
  <2>3. CountInv'
    BY <1>2, <1>3, <1>7, <2>1 DEF LiveInv, CountInv, IterationsLimit
  <2>4. SolvedInv'
    <3> SUFFICES ASSUME NEW g \in Flare, flare'[g].code = "solved"
                 PROVE  /\ Listed(g) /\ CurrInst.minimal # NoFlare
                        /\ Length(CurrInst.minimal) <= Length(g) /\ Told(g)'
      <4>1. \A h : Length(h)' = Length(h) /\ Listed(h)' = Listed(h)
        BY <1>2, <1>8 DEF Length, Listed
      <4> QED
        BY <1>8, <4>1 DEF SolvedInv
    <3>1. flare[g].code = "solved" /\ flare'[g] = flare[g]
      BY <1>3, <1>7 DEF fl
    <3>2. Listed(g) /\ CurrInst.minimal # NoFlare /\ Length(CurrInst.minimal) <= Length(g) /\ Told(g)
      BY <1>2, <2>1, <3>1 DEF LiveInv, SolvedInv
    <3>3. Told(g)'
      BY <1>2, <3>1, <3>2 DEF Told, Length
    <3> QED
      BY <3>2, <3>3
  <2>5. StaleInv' /\ LeaveInv'
    BY <1>2 DEF StaleInv, LeaveInv
  <2>6. RoundInv'
    <3>1. Done = it.idx - 1 /\ Done' = it.idx
      BY <1>2, <1>4, <1>8 DEF Done
    <3> SUFFICES ASSUME it.all_finished, NEW k \in 1..it.idx, it.plan[k].type # "checkpoint"
                 PROVE  it.plan[k].flare \in given_up.flares \/ flare'[it.plan[k].flare].code = "solved"
      BY <1>2, <1>3, <1>4, <1>8, <3>1 DEF RoundInv
    <3>2. CASE k = it.idx
      BY <1>3, <2>2, <3>2
    <3>3. CASE k \in 1..(it.idx - 1)
      <4>1. it.plan[k].flare \in given_up.flares \/ flare[it.plan[k].flare].code = "solved"
        BY <1>3, <1>4, <2>1, <3>1, <3>3 DEF LiveInv, RoundInv
      <4>2. k \in DOMAIN it.plan
        BY <1>4
      <4>3. it.plan[k].flare \in Flare
        BY <1>1, <1>2, <1>3, <1>4, <4>2, CurrentFacts
      <4> QED
        BY <1>7, <4>1, <4>3
    <3> QED
      BY <1>4, <3>2, <3>3
  <2>7. LeftInv'
    BY <1>2, <1>8, <2>1 DEF LiveInv, LeftInv
  <2> QED
    BY <2>3, <2>4, <2>5, <2>6, <2>7 DEF LiveInv
<1> QED
  BY <1>2, <1>10, <1>11 DEF IInv, SoundInv

\* Two solutions are compared by their lengths, whichever was traced before.
LEMMA ComparedFlares ==
    ASSUME board \in Board, NEW fls \in [Flare -> FlareState],
           NEW f \in Flare, ~fls[f].traced, ~fls[f].ready, fls[f].code = "solved",
           fls[f].checked = fls[f].obj,
           NEW m \in Flare, m # f, fls[m].code = "solved",
           NEW old \in TracedLengths(fls, m), NEW traced, traced = TraceSolution(fls, m, old),
           NEW new \in TracedLengths(traced, f), NEW r, r = TraceSolution(traced, f, new)
    PROVE  /\ r \in [Flare -> FlareState]
           /\ \A g \in Flare : r[g].code = fls[g].code
           /\ \A g \in Flare : g \notin {f, m} => r[g] = fls[g]
           /\ r[f].traced /\ r[f].moves = Length(f) /\ r[f].obj = fls[f].obj /\ new = Length(f)
           /\ (IF fls[m].traced THEN fls[m].moves = Length(m) ELSE ~fls[m].ready) =>
                 old = Length(m) /\ r[m].traced /\ r[m].moves = Length(m)
<1>1. /\ traced \in [Flare -> FlareState]
      /\ \A g \in Flare : g # m => traced[g] = fls[g]
      /\ \A g \in Flare : traced[g].code = fls[g].code
      /\ traced[m].traced
      /\ IF fls[m].traced THEN traced[m] = fls[m] /\ old = fls[m].moves
         ELSE traced[m].moves = old
  BY TraceFacts
<1>2. /\ r \in [Flare -> FlareState]
      /\ \A g \in Flare : g # f => r[g] = traced[g]
      /\ \A g \in Flare : r[g].code = traced[g].code
      /\ r[f].traced
      /\ IF traced[f].traced THEN r[f] = traced[f] /\ new = traced[f].moves
         ELSE r[f].moves = new /\ r[f].obj = traced[f].checked
  BY <1>1, TraceFacts
<1>3. traced[f] = fls[f]
  BY <1>1
<1>4. new = Length(f)
  BY <1>3 DEF TracedLengths, Length
<1>5. (IF fls[m].traced THEN fls[m].moves = Length(m) ELSE ~fls[m].ready) => old = Length(m)
  BY DEF TracedLengths, Length
<1> QED
  BY <1>1, <1>2, <1>3, <1>4, <1>5

\* A flare at a solution: the shorter one stays the minimal one, and both are traced from
\* states that are still there.
LEMMA FlareSolvedStep ==
    ASSUME IInv, FlareSolved
    PROVE  IInv'
<1>1. BaseInv /\ TypeOK /\ CallInv /\ SoundInv
  BY DEF IInv, BaseInv
<1> DEFINE f == Item.flare
           it == inst[Current]
           m == it.minimal
           untraced == Untraced(f)
           fls == flare'
           best == inst'[Current].minimal
           new == [it EXCEPT !.minimal = best]
\* What happens to the flares, and which of them is the minimal one.
<1> DEFINE First == m = NoFlare /\ fls = untraced /\ best = f
           Better ==
              /\ m # NoFlare
              /\ \E old \in TracedLengths(untraced, m) :
                 \E n \in TracedLengths(TraceSolution(untraced, m, old), f) :
                    /\ fls = TraceSolution(TraceSolution(untraced, m, old), f, n)
                    /\ best = IF old > n THEN f ELSE m
<1>2. /\ at = "ran" /\ run.ret = "solved"
      /\ run' = [run EXCEPT !.ret = "unsolvable"]
      /\ at' = "loop"
      /\ UNCHANGED <<conf, board, answer, moves_read, limits, user, given_up>>
  BY DEF FlareSolved
<1>3. /\ f \in Flare /\ f = user.active /\ Current \in Instances
      /\ it.plan[it.idx].flare = f /\ it.idx \in DOMAIN it.plan
      /\ flare[f].checked = flare[f].obj /\ flare[f].code = "solved" /\ ~flare[f].ready /\ m # f
      /\ ~user.all_suspended /\ NoFlare \notin Flare
  BY <1>1, <1>2, SuspendedFacts, TypeFacts DEF CurrInst
<1>4. /\ it \in InstState /\ it = CurrInst /\ it.plan \in Seq(PlanState) /\ it.idx \in Nat
      /\ it.idx <= Len(it.plan) /\ DOMAIN it.plan = 1..Len(it.plan)
      /\ m # NoFlare => m \in Flare /\ flare[m].code = "solved"
  BY <1>1, <1>2, <1>3, CurrentFacts DEF CurrInst
<1>5. inst' = [inst EXCEPT ![Current].minimal = best] /\ (First \/ Better)
  <2>1. inst \in [Instances -> InstState]
    BY <1>1 DEF TypeOK
  <2>2. CASE m = NoFlare
    <3>1. fls = untraced /\ inst' = [inst EXCEPT ![Current].minimal = f]
      BY <2>2 DEF FlareSolved, Untraced, CurrInst
    <3>2. best = f
      BY <1>3, <1>4, <2>1, <3>1 DEF InstState
    <3> QED
      BY <2>2, <3>1, <3>2
  <2>3. CASE m # NoFlare
    <3>1. PICK old \in TracedLengths(untraced, m) :
          \E n \in TracedLengths(TraceSolution(untraced, m, old), f) :
             /\ fls = TraceSolution(TraceSolution(untraced, m, old), f, n)
             /\ inst' = [inst EXCEPT ![Current].minimal = IF old > n THEN f ELSE @]
      BY <2>3 DEF FlareSolved, Untraced, CurrInst
    <3>2. PICK n \in TracedLengths(TraceSolution(untraced, m, old), f) :
             /\ fls = TraceSolution(TraceSolution(untraced, m, old), f, n)
             /\ inst' = [inst EXCEPT ![Current].minimal = IF old > n THEN f ELSE @]
      BY <3>1
    <3> DEFINE b == IF old > n THEN f ELSE m
    <3>3. inst' = [inst EXCEPT ![Current].minimal = b]
      BY <3>2
    <3>4. best = b
      <4> HIDE DEF b
      <4> QED
        BY <1>3, <1>4, <2>1, <3>3 DEF InstState
    <3>5. inst' = [inst EXCEPT ![Current].minimal = best]
      BY <3>3, <3>4
    <3> QED
      BY <2>3, <3>2, <3>4, <3>5
  <2> QED
    BY <2>2, <2>3
<1>6. /\ flare \in [Flare -> FlareState] /\ board \in Board
      /\ inst \in [Instances -> InstState]
  BY <1>1 DEF TypeOK
<1> HIDE DEF f, fls, untraced
<1>7. /\ untraced \in [Flare -> FlareState]
      /\ \A g \in Flare : g # f => untraced[g] = flare[g]
      /\ ~untraced[f].traced /\ ~untraced[f].ready
      /\ \A g \in Flare : /\ untraced[g].code = flare[g].code /\ untraced[g].checked = flare[g].checked
                          /\ untraced[g].obj = flare[g].obj
  BY <1>3, <1>6, UntracedFacts DEF untraced
\* What is known of the flares then.
<1>8. /\ fls \in [Flare -> FlareState] /\ best \in Flare
      /\ \A g \in Flare : fls[g].code = flare[g].code
      /\ \A g \in Flare : g # f /\ g # m => fls[g] = flare[g]
      /\ fls[f].obj = flare[f].obj
      /\ best = f \/ best = m
      /\ IF fls[f].traced THEN fls[f].moves = Length(f) ELSE ~fls[f].ready /\ fls[f].checked = fls[f].obj
      /\ m # NoFlare /\ (IF flare[m].traced THEN flare[m].moves = Length(m) ELSE ~flare[m].ready) =>
            /\ fls[m].traced /\ fls[m].moves = Length(m)
            /\ Length(best) <= Length(f) /\ Length(best) <= Length(m)
      /\ m = NoFlare => best = f
  <2>1. CASE First
    BY <1>3, <1>7, <2>1
  <2>2. CASE Better
    <3>1. PICK old \in TracedLengths(untraced, m) :
          \E n \in TracedLengths(TraceSolution(untraced, m, old), f) :
             /\ fls = TraceSolution(TraceSolution(untraced, m, old), f, n)
             /\ best = IF old > n THEN f ELSE m
      BY <2>2
    <3> DEFINE traced == TraceSolution(untraced, m, old)
    <3>2. PICK n \in TracedLengths(traced, f) :
             /\ fls = TraceSolution(traced, f, n)
             /\ best = IF old > n THEN f ELSE m
      BY <3>1
    <3>3. m \in Flare /\ m # f /\ untraced[m] = flare[m] /\ untraced[m].code = "solved"
          /\ untraced[f].code = "solved" /\ untraced[f].checked = untraced[f].obj
      BY <1>3, <1>4, <1>7, <2>2
    <3>4. traced = TraceSolution(untraced, m, old)
      OBVIOUS
    <3> HIDE DEF traced, First, Better, m, best, it
    <3>5. /\ fls \in [Flare -> FlareState]
          /\ \A g \in Flare : fls[g].code = untraced[g].code
          /\ \A g \in Flare : g \notin {f, m} => fls[g] = untraced[g]
          /\ fls[f].traced /\ fls[f].moves = Length(f) /\ fls[f].obj = untraced[f].obj /\ n = Length(f)
          /\ (IF untraced[m].traced THEN untraced[m].moves = Length(m) ELSE ~untraced[m].ready) =>
                old = Length(m) /\ fls[m].traced /\ fls[m].moves = Length(m)
      BY ONLY <1>3, <1>6, <1>7, <3>1, <3>2, <3>3, <3>4, ComparedFlares
    <3>6. Length(f) \in Nat /\ Length(m) \in Nat
      BY <1>3, <1>6, <3>3, SearchFacts DEF Length
    <3> QED
      BY <1>3, <1>7, <3>2, <3>3, <3>5, <3>6
  <2>3. First => Length(best) \in Nat
    BY <1>3, <1>6, SearchFacts DEF Length
  <2> QED
    BY <1>5, <2>1, <2>2
<1>9. inst' = [inst EXCEPT ![Current] = new]
  BY <1>5
<1> HIDE DEF it, m, best, First, Better
<1>10. /\ new \in InstState /\ new.plan = it.plan /\ new.idx = it.idx /\ new.minimal = best
       /\ new.all_finished = it.all_finished
  BY <1>4, <1>8 DEF InstState
<1> HIDE DEF new
<1>11. /\ inst' \in [Instances -> InstState] /\ inst'[Current] = new
       /\ \A i \in Instances : i # Current => inst'[i] = inst[i]
  BY <1>3, <1>6, <1>9, <1>10
<1>12. Instances' = Instances /\ Current' = Current /\ CurrInst' = new
  BY <1>2, <1>11 DEF Instances, Current, CurrInst
<1>13. /\ run' \in [ret : {"suspended", "solved", "unsolvable"}, soft : BOOLEAN, item : Nat, now : BOOLEAN]
       /\ run'.ret = "unsolvable"
  BY <1>1, <1>2 DEF TypeOK
<1>14. TypeOK'
  BY <1>1, <1>2, <1>8, <1>11, <1>12, <1>13 DEF TypeOK, fls
<1>15. \A g \in Flare : /\ flare'[g].code = flare[g].code
                        /\ flare[g].code # "solved" => flare'[g] = flare[g]
  BY <1>3, <1>4, <1>8 DEF fls
<1>16. BaseInv' /\ SamePlans
  <2>1. SamePlan(inst'[Current].plan, inst[Current].plan)
    BY <1>4, <1>10, <1>11, UntouchedPlan DEF it
  <2>2. inst'[Current].idx <= Len(inst[Current].plan)
    BY <1>4, <1>10, <1>11 DEF it
  <2>3. flare'[inst'[Current].minimal].code = "solved"
    BY <1>3, <1>4, <1>8, <1>10, <1>11 DEF fls, m, it
  <2> QED
    BY <1>1, <1>2, <1>3, <1>11, <1>13, <1>14, <1>15, <2>1, <2>2, <2>3, BaseStays
<1>17. ASSUME Sound' PROVE LiveInv'
  <2>1. LiveInv
    BY <1>1, <1>2, <1>16, <1>17, SoundStays DEF SoundInv, Live
  <2>2. ASSUME NEW g \in Flare, flare[g].code = "solved"
        PROVE  /\ Listed(g)
               /\ g # f => m # NoFlare /\ Length(m) <= Length(g) /\ Told(g)
    BY <1>3, <1>4, <2>1, <2>2 DEF LiveInv, SolvedInv, m
  <2>3. CountInv'
    <3>1. flare'[user'.active].obj = user'.init
      BY <1>2, <1>3, <1>8, <2>1 DEF LiveInv, CountInv, fls
    <3> QED
      BY <1>2, <2>1, <3>1 DEF LiveInv, CountInv, IterationsLimit
  <2>4. SolvedInv'
    <3> SUFFICES ASSUME NEW g \in Flare, flare[g].code = "solved"
                 PROVE  Listed(g)' /\ best # NoFlare /\ Length(best) <= Length(g) /\ Told(g)'
      <4>1. \A h : Length(h)' = Length(h)
        BY <1>2 DEF Length
      <4> QED
        BY <1>10, <1>12, <1>15, <4>1 DEF SolvedInv
    <3>1. best # NoFlare
      BY <1>3, <1>8
    <3>2. Listed(g)'
      BY <1>4, <1>10, <1>12, <2>2 DEF Listed
    <3>3. \A h \in Flare : Length(h) \in Nat
      BY <1>6, SearchFacts DEF Length
    <3>4. m # NoFlare => m \in Flare /\ flare[m].code = "solved" /\ Told(m)
      BY <1>3, <1>4, <2>2
    <3>5. m # NoFlare => /\ fls[m].traced /\ fls[m].moves = Length(m)
                         /\ Length(best) <= Length(f) /\ Length(best) <= Length(m)
      BY <1>8, <3>4 DEF Told
    <3>6. \A h \in Flare : Told(h)' <=> IF fls[h].traced THEN fls[h].moves = Length(h)
                                        ELSE ~fls[h].ready /\ fls[h].checked = fls[h].obj
      BY <1>2 DEF Told, Length, fls
    <3>7. CASE g = f
      <4>1. Told(g)'
        BY <1>3, <1>8, <3>6, <3>7
      <4>2. Length(best) <= Length(g)
        BY <1>3, <1>8, <3>3, <3>5, <3>7
      <4> QED
        BY <3>1, <3>2, <4>1, <4>2
    <3>8. CASE g # f
      <4>1. m # NoFlare /\ Length(m) <= Length(g) /\ Told(g) /\ m \in Flare
        BY <2>2, <3>4, <3>8
      <4>2. Told(g)'
        <5>1. CASE g = m
          BY <3>5, <3>6, <4>1, <5>1
        <5>2. CASE g # m
          BY <1>8, <3>6, <3>8, <4>1, <5>2 DEF Told
        <5> QED
          BY <5>1, <5>2
      <4>3. Length(best) <= Length(g)
        BY <1>8, <3>3, <3>5, <4>1
      <4> QED
        BY <3>1, <3>2, <4>2, <4>3
    <3> QED
      BY <3>7, <3>8
  <2>5. StaleInv' /\ LeaveInv'
    BY <1>2 DEF StaleInv, LeaveInv
  <2>6. RoundInv'
    <3>1. Done = it.idx - 1 /\ Done' = it.idx
      BY <1>2, <1>4, <1>10, <1>12 DEF Done
    <3> SUFFICES ASSUME it.all_finished, NEW k \in 1..it.idx, it.plan[k].type # "checkpoint"
                 PROVE  it.plan[k].flare \in given_up.flares \/ flare'[it.plan[k].flare].code = "solved"
      BY <1>2, <1>3, <1>10, <1>12, <1>13, <3>1 DEF RoundInv
    <3>2. CASE k = it.idx
      BY <1>3, <1>15, <3>2
    <3>3. CASE k \in 1..(it.idx - 1)
      <4>1. it.plan[k].flare \in given_up.flares \/ flare[it.plan[k].flare].code = "solved"
        BY <1>3, <1>4, <2>1, <3>1, <3>3 DEF LiveInv, RoundInv
      <4>2. k \in DOMAIN it.plan
        BY <1>4
      <4>3. it.plan[k].flare \in Flare
        BY <1>1, <1>2, <1>3, <1>4, <4>2, CurrentFacts
      <4> QED
        BY <1>15, <4>1, <4>3
    <3> QED
      BY <1>4, <3>2, <3>3
  <2>7. LeftInv'
    <3>1. \A i \in Instances : inst'[i].plan = inst[i].plan
      BY <1>10, <1>11 DEF it
    <3> QED
      BY <1>2, <1>12, <2>1, <3>1 DEF LiveInv, LeftInv
  <2> QED
    BY <2>3, <2>4, <2>5, <2>6, <2>7 DEF LiveInv
<1> QED
  BY <1>2, <1>16, <1>17 DEF IInv, SoundInv

\* A flare is run, or has had its last word.
LEMMA RunFlareStep ==
    ASSUME IInv, RunFlare
    PROVE  IInv'
<1>1. BaseInv /\ TypeOK /\ FlareInv /\ PlanInv /\ CallInv /\ SoundInv
  BY DEF IInv, BaseInv
<1> DEFINE f == NextFlare
           it == CurrInst
           k == it.idx + 1
           quota == it.plan[k].remaining
           was == flare[f]
           now == was.code \in {"not_begun", "suspended"}
<1>2. PICK r \in IF now THEN Searched(f, UpperLimit(Current, f, quota)) ELSE {<<run.ret, was.checked>>} :
         /\ flare' = [flare EXCEPT ![f] = RanFlare(was, now, r[1], r[2])]
         /\ user' = [UpdateStats(r[2], r[2] - was.checked) EXCEPT
                         !.active = f, !.all_suspended = @ /\ r[1] = "suspended"]
         /\ inst' = [inst EXCEPT ![Current].idx = @ + 1,
               ![Current].plan[k].remaining = QuotaLeft(quota, r[2] - was.checked)]
         /\ run' = [ret |-> r[1], soft |-> SoftIsLower, item |-> k, now |-> now]
         /\ given_up' = IF now /\ r[1] = "unsolvable"
                           THEN [given_up EXCEPT !.flares = @ \cup {f}]
                           ELSE given_up
  BY DEF RunFlare
<1>3. /\ at = "loop" /\ it.idx < Len(it.plan) /\ it.plan[k].type # "checkpoint"
      /\ at' = "ran" /\ f = it.plan[k].flare
      /\ UNCHANGED <<conf, board, answer, moves_read, limits>>
  BY DEF RunFlare, CurrInst, NextFlare
<1>4. Current \in Instances /\ run.ret # "solved" /\ NoFlare \notin Flare
  BY <1>1, <1>3, TypeFacts DEF CallInv
<1>5. /\ it \in InstState /\ it = CurrInst /\ it.plan \in Seq(PlanState) /\ it.idx \in Nat
      /\ it.idx <= Len(it.plan) /\ DOMAIN it.plan = 1..Len(it.plan)
      /\ it.minimal # NoFlare => it.minimal \in Flare /\ flare[it.minimal].code = "solved"
  BY <1>1, <1>3, <1>4, CurrentFacts DEF CurrInst
<1>6. k \in DOMAIN it.plan /\ k \in Nat /\ k <= Len(it.plan)
  BY <1>3, <1>5
<1>7. quota \in Nat \cup {NoLimit} /\ f \in FlaresOf(Current) /\ f \in Flare
  BY <1>1, <1>3, <1>4, <1>5, <1>6, CurrentFacts
<1>8. /\ was \in FlareState /\ was.checked \in Nat
      /\ was.code \in {"not_begun", "suspended", "solved", "unsolvable"}
      /\ run.ret \in {"suspended", "solved", "unsolvable"}
      /\ user.started \in Nat /\ user.all_suspended \in BOOLEAN
      /\ flare \in [Flare -> FlareState] /\ inst \in [Instances -> InstState]
      /\ user \in [current : Nat, active : Flare \cup {NoFlare}, init : Nat, started : Nat,
                   all_suspended : BOOLEAN]
      /\ given_up \in [flares : SUBSET Flare, instances : SUBSET Nat]
  BY <1>1, <1>7, TypeFacts DEF TypeOK
<1> HIDE DEF f, it, CurrInst, k, quota, was
<1> DEFINE last == Result[board].search[f].iters
           ret == r[1]
           checked == r[2]
           delta == checked - was.checked
\* What the search returned.
<1>9. /\ ret \in {"suspended", "solved", "unsolvable"} /\ checked \in Nat /\ was.checked <= checked
      /\ now => checked <= last
      /\ ~now => ret = run.ret /\ checked = was.checked
      /\ IterationsLimit # NoLimit /\ user.started <= IterationsLimit =>
            user.started + delta <= IterationsLimit
  <2>1. CASE now
    <3>1. was.checked <= last
      <4>1. /\ was.code = "not_begun" => was.checked = 0
            /\ was.code = "suspended" => was.checked <= last
        BY <1>1, <1>7 DEF FlareInv, Begun, was
      <4>2. last \in Nat
        BY <1>1, <1>7, SearchFacts DEF TypeOK
      <4> QED
        BY <2>1, <4>1, <4>2
    <3>2. r \in Searched(f, UpperLimit(Current, f, quota))
      BY <1>2, <2>1
    <3>3. /\ r[1] \in {"suspended", "solved", "unsolvable"}
          /\ r[2] \in Nat /\ flare[f].checked <= r[2] /\ r[2] <= Result[board].search[f].iters
          /\ IterationsLimit # NoLimit /\ user.started <= IterationsLimit =>
                user.started + (r[2] - flare[f].checked) <= IterationsLimit
      <4>1. flare[f].checked <= Result[board].search[f].iters
        BY <3>1 DEF was
      <4> QED
        BY <1>1, <1>4, <1>7, <3>2, <4>1, SearchStops
    <3> QED
      BY <2>1, <3>3 DEF was
  <2>2. CASE ~now
    <3>1. r = <<run.ret, was.checked>>
      BY <1>2, <2>2
    <3>2. ret = run.ret /\ checked = was.checked
      BY <3>1
    <3>3. user.started + delta = user.started /\ was.checked <= checked
      BY <1>8, <3>2
    <3> QED
      BY <1>8, <2>2, <3>2, <3>3
  <2> QED
    BY <2>1, <2>2
<1> DEFINE is == RanFlare(was, now, ret, checked)
           left == QuotaLeft(quota, delta)
           plan == [it.plan EXCEPT ![k].remaining = left]
           new == [it EXCEPT !.idx = k, !.plan = plan]
<1>10. flare' = [flare EXCEPT ![f] = is]
  BY <1>2
<1>11. inst' = [inst EXCEPT ![Current] = new]
  BY <1>2 DEF it, CurrInst, k
<1>12. /\ user' = [UpdateStats(checked, delta) EXCEPT
                       !.active = f, !.all_suspended = @ /\ ret = "suspended"]
       /\ run' = [ret |-> ret, soft |-> SoftIsLower, item |-> k, now |-> now]
       /\ given_up' = IF now /\ ret = "unsolvable" THEN [given_up EXCEPT !.flares = @ \cup {f}]
                      ELSE given_up
  BY <1>2
<1>13. left \in Nat \cup {NoLimit}
  BY <1>7, <1>8, <1>9 DEF QuotaLeft, NormalizeItersQuota
<1> HIDE DEF ret, checked, now, left
<1>14. /\ is \in FlareState /\ is.checked = checked /\ is.obj = checked
       /\ is.code = IF now THEN ret ELSE was.code
       /\ now => ~is.ready
       /\ is.traced = was.traced
  BY <1>8, <1>9 DEF FlareState, RanFlare
<1> HIDE DEF is
<1>15. /\ flare' \in [Flare -> FlareState] /\ flare'[f] = is
       /\ \A g \in Flare : g # f => flare'[g] = flare[g]
  BY <1>7, <1>8, <1>10, <1>14
<1>16. SamePlan(plan, it.plan)
  BY <1>5, <1>6, <1>13, PlanWithRemaining
<1> HIDE DEF plan
<1>17. /\ new \in InstState /\ new.plan = plan /\ new.idx = k /\ new.minimal = it.minimal
       /\ new.all_finished = it.all_finished
  <2>1. plan \in Seq(PlanState)
    BY <1>16 DEF SamePlan
  <2> QED
    BY <1>5, <1>6, <2>1 DEF InstState
<1> HIDE DEF new
<1>18. /\ inst' \in [Instances -> InstState] /\ inst'[Current] = new
       /\ \A i \in Instances : i # Current => inst'[i] = inst[i]
  BY <1>4, <1>8, <1>11, <1>17
<1>19. /\ user' \in [current : Nat, active : Flare \cup {NoFlare}, init : Nat, started : Nat,
                     all_suspended : BOOLEAN]
       /\ user'.current = user.current /\ user'.active = f /\ user'.init = checked
       /\ user'.started = user.started + delta
       /\ user'.all_suspended <=> user.all_suspended /\ ret = "suspended"
  <2> DEFINE n == user.started + delta
             stats == UpdateStats(checked, delta)
             all == user.all_suspended /\ ret = "suspended"
  <2>1. n \in Nat /\ delta \in Int
    BY <1>8, <1>9
  <2>2. stats = [user EXCEPT !.init = checked, !.started = n]
    BY DEF UpdateStats
  <2>3. all \in BOOLEAN
    OBVIOUS
  <2>4. n = user.started + delta
    OBVIOUS
  <2> HIDE DEF n, stats, delta
  <2>5. /\ stats \in [current : Nat, active : Flare \cup {NoFlare}, init : Nat, started : Nat,
                      all_suspended : BOOLEAN]
        /\ stats.current = user.current /\ stats.init = checked /\ stats.started = n
        /\ stats.all_suspended = user.all_suspended
    BY <1>8, <1>9, <2>1, <2>2
  <2>6. user' = [stats EXCEPT !.active = f, !.all_suspended = all]
    BY <1>12, <2>5 DEF delta, stats
  <2>7. all <=> user.all_suspended /\ ret = "suspended"
    OBVIOUS
  <2> HIDE DEF all
  <2>8. /\ user' \in [current : Nat, active : Flare \cup {NoFlare}, init : Nat, started : Nat,
                      all_suspended : BOOLEAN]
        /\ user'.current = user.current /\ user'.active = f /\ user'.init = checked
        /\ user'.started = n /\ user'.all_suspended = all
    BY <1>7, <2>3, <2>5, <2>6
  <2> QED
    BY <2>4, <2>7, <2>8
<1>20. /\ run' \in [ret : {"suspended", "solved", "unsolvable"}, soft : BOOLEAN, item : Nat, now : BOOLEAN]
       /\ run'.ret = ret /\ run'.soft = SoftIsLower /\ run'.item = k /\ (run'.now <=> now)
  <2>1. SoftIsLower \in BOOLEAN /\ now \in BOOLEAN
    BY DEF SoftIsLower, now
  <2> QED
    BY <1>6, <1>9, <1>12, <2>1
<1>21. /\ given_up' \in [flares : SUBSET Flare, instances : SUBSET Nat]
       /\ given_up'.instances = given_up.instances
       /\ given_up.flares \subseteq given_up'.flares
       /\ now /\ ret = "unsolvable" => f \in given_up'.flares
  BY <1>7, <1>8, <1>12
<1>22. /\ Instances' = Instances /\ Current' = Current /\ CurrInst' = new
       /\ \A i \in Instances : FlaresOf(i)' = FlaresOf(i)
  BY <1>3, <1>18, <1>19 DEF Instances, Current, CurrInst, FlaresOf
<1>23. Item' = plan[k] /\ Item'.flare = f /\ Item'.type # "checkpoint"
  BY <1>3, <1>6, <1>16, <1>17, <1>20, <1>22 DEF Item, SamePlan
<1>24. TypeOK'
  BY <1>1, <1>3, <1>15, <1>18, <1>19, <1>20, <1>21, <1>22 DEF TypeOK
<1>25. SamePlans
  <2>1. \A i \in Instances : i # Current => SamePlan(inst'[i].plan, inst[i].plan)
    BY <1>1, <1>18, TypeFacts, UntouchedPlan
  <2> QED
    BY <1>16, <1>17, <1>18, <2>1 DEF SamePlans, it, CurrInst
<1>26. now <=> was.code \in {"not_begun", "suspended"}
  BY DEF now
<1>27. is.code # "not_begun" /\ (is.code = "unsolvable" => f \in given_up'.flares)
  <2>1. was.code = "unsolvable" => f \in given_up.flares
    BY <1>1, <1>7 DEF FlareInv, was
  <2> QED
    BY <1>8, <1>9, <1>14, <1>21, <1>26, <2>1
<1>28. FlareInv'
  <2> SUFFICES ASSUME NEW g \in Flare
               PROVE  /\ flare'[g].code = "not_begun" => flare'[g].checked = 0 /\ flare'[g].obj = 0
                      /\ flare'[g].code = "suspended" => flare'[g].checked <= Result[board].search[g].iters
                      /\ flare'[g].code # "not_begun" => Current \in Instances /\ g \in FlaresOf(Current)
                      /\ flare'[g].code = "unsolvable" => g \in given_up'.flares
    BY <1>3, <1>4, <1>22 DEF FlareInv, Begun
  <2>1. CASE g = f
    <3>1. is.code = "suspended" => is.checked <= last
      BY <1>9, <1>14, <1>26
    <3> QED
      BY <1>4, <1>7, <1>15, <1>27, <2>1, <3>1
  <2>2. CASE g # f
    BY <1>1, <1>15, <1>21, <2>2 DEF FlareInv, Begun
  <2> QED
    BY <2>1, <2>2
<1>29. \A g \in Flare : flare[g].code \in {"solved", "unsolvable"} => flare'[g].code = flare[g].code
  BY <1>14, <1>15, <1>26 DEF was
<1>30. PlanInv'
  <2>1. ASSUME NEW i \in Instances
        PROVE  /\ inst'[i].idx <= Len(inst'[i].plan)
               /\ PlanExact(inst'[i].plan, FlaresOf(i))
               /\ i # Current => inst'[i].idx = 0 /\ inst'[i].minimal = NoFlare
               /\ inst'[i].minimal # NoFlare => flare'[inst'[i].minimal].code = "solved"
    <3>1. PlanExact(inst[i].plan, FlaresOf(i)) /\ SamePlan(inst'[i].plan, inst[i].plan)
      BY <1>1, <1>25 DEF PlanInv, SamePlans
    <3>2. PlanExact(inst'[i].plan, FlaresOf(i))
      BY <3>1, ExactStays
    <3>3. CASE i = Current
      BY <1>5, <1>6, <1>16, <1>17, <1>18, <1>29, <3>2, <3>3 DEF SamePlan
    <3>4. CASE i # Current
      BY <1>1, <1>18, <3>2, <3>4 DEF PlanInv
    <3> QED
      BY <3>3, <3>4
  <2> QED
    BY <1>22, <2>1 DEF PlanInv
<1>31. CallInv'
  <2>1. \A i \in Instances : inst'[i].plan # << >>
    BY <1>1, <1>3, <1>25 DEF CallInv, SamePlans, SamePlan
  <2>2. ~(\A g \in Flare : ~Begun(g)')
    BY <1>7, <1>15, <1>27 DEF Begun
  <2> QED
    BY <1>1, <1>3, <1>4, <1>7, <1>19, <1>22, <2>1, <2>2 DEF CallInv
<1>32. RanInv'
  <2>1. SoftIsLower' = SoftIsLower
    BY <1>3 DEF SoftIsLower
  <2>2. k \in DOMAIN plan
    BY <1>6, <1>16 DEF SamePlan
  <2>3. now => it.minimal # f
    BY <1>4, <1>5, <1>7, <1>26 DEF was
  <2>4. flare'[user'.active] = is
    BY <1>15, <1>19
  <2>5. ~now => is.code \in {"solved", "unsolvable"} /\ ret # "solved"
    BY <1>4, <1>8, <1>9, <1>14, <1>26
  <2> QED
    BY <1>14, <1>17, <1>19, <1>20, <1>22, <1>23, <2>1, <2>2, <2>3, <2>4, <2>5 DEF RanInv
<1>33. CleanInv'
  BY <1>3 DEF CleanInv
<1>34. ASSUME Sound' PROVE LiveInv'
  <2>1. Sound /\ LiveInv
    BY <1>1, <1>3, <1>25, <1>34, SoundStays DEF SoundInv, Live
  <2>2. was.code # "solved"
    <3>1. ASSUME was.code = "solved" PROVE FALSE
      <4>1. PICK j \in 1..it.idx : it.plan[j].flare = f /\ \A n \in j..it.idx : it.plan[n].type # "checkpoint"
        BY <1>5, <1>7, <2>1, <3>1 DEF LiveInv, SolvedInv, Listed, was
      <4>2. /\ j \in DOMAIN it.plan /\ j < k /\ it.plan[j].type # "checkpoint"
            /\ \A n \in j..k : it.plan[n].type # "checkpoint"
        BY <1>3, <1>5, <1>6, <4>1 DEF k
      <4>3. \E n \in j..k : it.plan[n].type = "checkpoint"
        BY <1>3, <1>4, <1>6, <2>1, <4>1, <4>2 DEF Sound, CheckpointedPlans, it, CurrInst
      <4> QED
        BY <4>2, <4>3
    <3> QED
      BY <3>1
  <2>3. CountInv'
    <3>1. IterationsLimit' = IterationsLimit
      BY <1>3 DEF IterationsLimit
    <3> QED
      BY <1>9, <1>14, <1>15, <1>19, <2>1, <3>1 DEF LiveInv, CountInv
  <2>4. SolvedInv'
    <3>1. \A h : Length(h)' = Length(h)
      BY <1>3 DEF Length
    <3>2. ASSUME NEW g \in Flare, g # f, flare'[g].code = "solved"
          PROVE  Listed(g)' /\ new.minimal # NoFlare /\ Length(new.minimal) <= Length(g) /\ Told(g)'
      <4>1. flare'[g] = flare[g]
        BY <1>15, <3>2
      <4>2. Listed(g) /\ it.minimal # NoFlare /\ Length(it.minimal) <= Length(g) /\ Told(g)
        BY <1>3, <1>5, <2>1, <3>2, <4>1 DEF LiveInv, SolvedInv
      <4>3. PICK j \in 1..it.idx : it.plan[j].flare = g /\ \A n \in j..it.idx : it.plan[n].type # "checkpoint"
        BY <1>5, <4>2 DEF Listed
      <4>4. /\ j \in 1..k /\ it.plan[j].flare = g
            /\ \A n \in j..k : n \in DOMAIN it.plan /\ it.plan[n].type # "checkpoint"
        BY <1>3, <1>5, <1>6, <4>3 DEF k
      <4>5. Listed(g)'
        <5>1. j \in DOMAIN it.plan
          BY <1>6, <4>4
        <5>2. plan[j].flare = g /\ \A n \in j..k : plan[n].type # "checkpoint"
          BY <1>16, <4>4, <5>1 DEF SamePlan
        <5> QED
          BY <1>17, <1>22, <4>4, <5>2 DEF Listed
      <4>6. Told(g)'
        BY <1>3, <4>1, <4>2 DEF Told, Length
      <4> QED
        BY <1>17, <4>2, <4>5, <4>6
    <3>3. ASSUME NEW g \in Flare, g = f, flare'[g].code = "solved"
          PROVE  Listed(g)' /\ run'.ret = "solved" /\ user'.active = g
      <4>1. now /\ ret = "solved"
        BY <1>14, <1>15, <2>2, <3>3
      <4>2. k \in 1..k /\ plan[k].flare = g /\ \A n \in k..k : plan[n].type # "checkpoint"
        BY <1>3, <1>6, <1>16, <1>5, <3>3 DEF SamePlan
      <4>3. Listed(g)'
        BY <1>17, <1>22, <4>2 DEF Listed
      <4> QED
        BY <1>19, <1>20, <3>3, <4>1, <4>3
    <3> QED
      BY <1>3, <1>22, <3>1, <3>2, <3>3 DEF SolvedInv
  <2>5. StaleInv'
    <3>1. is.code = "solved" => ret = "solved"
      BY <1>14, <2>2
    <3>2. ret = "unsolvable" => f \in given_up'.flares
      <4>1. ~now => is.code = "unsolvable"
        BY <1>8, <1>14, <1>26, <2>2
      <4> QED
        BY <1>21, <1>27, <4>1
    <3> QED
      BY <1>15, <1>19, <1>20, <3>1, <3>2 DEF StaleInv
  <2>6. RoundInv'
    <3>1. Done = it.idx /\ Done' = it.idx
      BY <1>3, <1>5, <1>17, <1>22 DEF Done, k
    <3>2. \A j \in 1..it.idx : /\ j \in DOMAIN it.plan /\ plan[j].type = it.plan[j].type
                               /\ plan[j].flare = it.plan[j].flare
      BY <1>5, <1>16 DEF SamePlan
    <3> SUFFICES ASSUME it.all_finished, NEW j \in 1..it.idx, it.plan[j].type # "checkpoint"
                 PROVE  /\ it.plan[j].flare \in given_up'.flares \/ flare'[it.plan[j].flare].code = "solved"
                        /\ ~user'.all_suspended
      BY <1>3, <1>17, <1>22, <3>1, <3>2 DEF RoundInv
    <3>3. /\ it.plan[j].flare \in given_up.flares \/ flare[it.plan[j].flare].code = "solved"
          /\ ~user.all_suspended
      BY <1>4, <1>5, <2>1, <3>1 DEF LiveInv, RoundInv
    <3>4. it.plan[j].flare \in Flare
      BY <1>1, <1>3, <1>4, <1>5, <3>2, CurrentFacts
    <3> QED
      BY <1>19, <1>21, <1>29, <3>3, <3>4
  <2>7. LeftInv'
    <3> SUFFICES ASSUME NEW i \in Instances \ given_up.instances, i < Current,
                        NEW n \in DOMAIN inst'[i].plan
                 PROVE  inst'[i].plan[n].flare \in given_up'.flares \cup {NoFlare}
      BY <1>21, <1>22 DEF LeftInv
    <3>1. n \in DOMAIN inst[i].plan /\ inst'[i].plan[n].flare = inst[i].plan[n].flare
      BY <1>25 DEF SamePlans, SamePlan
    <3> QED
      BY <1>21, <2>1, <3>1 DEF LiveInv, LeftInv
  <2>8. LeaveInv'
    BY <1>3 DEF LeaveInv
  <2> QED
    BY <2>3, <2>4, <2>5, <2>6, <2>7, <2>8 DEF LiveInv
<1> QED
  BY <1>3, <1>24, <1>28, <1>30, <1>31, <1>32, <1>33, <1>34 DEF IInv, BaseInv, SoundInv

-----------------------------------------------------------------------------
(***************************************************************************)
(* The theorem.                                                            *)
(***************************************************************************)
\* At first nothing is begun.
LEMMA InitStep == Init => IInv
<1> SUFFICES ASSUME Init PROVE IInv
  OBVIOUS
<1>1. /\ conf \in Configs /\ board \in Board
      /\ at = "user" /\ answer = "none" /\ moves_read = FALSE
      /\ limits = [hard |-> NoLimit, soft |-> NoLimit]
      /\ inst = [i \in Instances |-> [plan |-> << >>, idx |-> 0, minimal |-> NoFlare,
                                      intractable |-> NoFlare, all_finished |-> TRUE]]
      /\ flare = [f \in Flare |-> FreshFlare]
      /\ user = NoUser /\ run = NoRun
      /\ given_up = [flares |-> {}, instances |-> {}]
  BY DEF Init
<1>2. TypeOK
  <2>1. /\ inst \in [Instances -> InstState] /\ flare \in [Flare -> FlareState]
    BY <1>1 DEF InstState, FlareState, FreshFlare
  <2>2. /\ limits \in [hard : LimitOrNone, soft : LimitOrNone]
        /\ user \in [current : Nat, active : Flare \cup {NoFlare}, init : Nat, started : Nat,
                     all_suspended : BOOLEAN]
        /\ run \in [ret : {"suspended", "solved", "unsolvable"}, soft : BOOLEAN, item : Nat,
                    now : BOOLEAN]
        /\ given_up \in [flares : SUBSET Flare, instances : SUBSET Nat]
    BY <1>1 DEF LimitOrNone, NoUser, NoRun
  <2> QED
    BY <1>1, <2>1, <2>2 DEF TypeOK
<1>3. /\ \A f \in Flare : ~Begun(f) /\ flare[f].checked = 0 /\ flare[f].obj = 0 /\ flare[f].code = "not_begun"
      /\ \A i \in Instances : inst[i].plan = << >> /\ inst[i].idx = 0 /\ inst[i].minimal = NoFlare
  BY <1>1 DEF FreshFlare, Begun
<1>4. FlareInv
  BY <1>3 DEF FlareInv
<1>5. PlanInv
  <2>1. PlanExact(<< >>, {}) /\ \A fs : PlanExact(<< >>, fs)
    BY DEF PlanExact
  <2>2. Len(<< >>) = 0
    OBVIOUS
  <2> QED
    BY <1>3, <2>1, <2>2 DEF PlanInv
<1>6. CallInv
  <2>1. Len(conf) \in Nat /\ Current = 1
    BY <1>1, <1>2, TypeFacts DEF NoUser, Current
  <2>2. Current \in 1..(Len(conf) + 1)
    BY <2>1
  <2> QED
    BY <1>1, <1>3, <2>2 DEF CallInv, NoUser, NoRun, Suspended
<1>7. RanInv /\ CleanInv
  BY <1>1, <1>3 DEF RanInv, CleanInv, NoUser
<1>8. ~Live /\ ToldInv
  BY <1>1 DEF Live, Suspended, ToldInv, SuspendedAtLimit, ShortestIsGiven, NothingIsLeftToTry
<1> QED
  BY <1>2, <1>4, <1>5, <1>6, <1>7, <1>8 DEF IInv, BaseInv, SoundInv

\* Nothing changes.
LEMMA Stutters ==
    ASSUME IInv, UNCHANGED vars
    PROVE  IInv'
<1>1. UNCHANGED <<conf, board, at, answer, moves_read, limits, inst, flare, user, run, given_up>>
  BY DEF vars
<1>2. Instances' = Instances /\ Current' = Current /\ CurrInst' = CurrInst /\ Item' = Item
      /\ Done' = Done /\ IterationsLimit' = IterationsLimit /\ SoftIsLower' = SoftIsLower
      /\ GetNumTimes(user)' = GetNumTimes(user) /\ BoardLimitMet' = BoardLimitMet
  BY <1>1 DEF Instances, Current, CurrInst, Item, Done, IterationsLimit, SoftIsLower, GetNumTimes,
              BoardLimitMet
<1>3. BaseInv'
  <2>1. TypeOK'
    BY <1>1, <1>2 DEF IInv, BaseInv, TypeOK
  <2>2. FlareInv' /\ PlanInv'
    BY <1>1, <1>2 DEF IInv, BaseInv, FlareInv, PlanInv, Begun, FlaresOf
  <2>3. CallInv'
    BY <1>1, <1>2 DEF IInv, BaseInv, CallInv, Begun, Suspended
  <2>4. RanInv' /\ CleanInv'
    BY <1>1, <1>2 DEF IInv, BaseInv, RanInv, CleanInv, Begun
  <2> QED
    BY <2>1, <2>2, <2>3, <2>4 DEF BaseInv
<1>4. ASSUME Sound' PROVE (Live => LiveInv) /\ (at = "user" => ToldInv) /\ (Live' <=> Live)
  <2>1. SamePlans
    BY <1>1, PlansUntouched DEF IInv, BaseInv
  <2>2. Sound
    BY <1>1, <1>4, <2>1, SoundStays
  <2> QED
    BY <1>1, <1>2, <2>2 DEF IInv, SoundInv, Live, Suspended
<1>5. ASSUME LiveInv PROVE LiveInv'
  <2>1. CountInv' /\ StaleInv' /\ RoundInv' /\ LeftInv' /\ LeaveInv'
    BY <1>1, <1>2, <1>5 DEF LiveInv, CountInv, StaleInv, RoundInv, LeftInv, LeaveInv
  <2>2. SolvedInv'
    BY <1>1, <1>2, <1>5 DEF LiveInv, SolvedInv, Listed, Told, Length
  <2> QED
    BY <2>1, <2>2 DEF LiveInv
<1>6. ASSUME ToldInv PROVE ToldInv'
  <2>1. SuspendedAtLimit'
    BY <1>1, <1>2, <1>6 DEF ToldInv, SuspendedAtLimit
  <2>2. ShortestIsGiven'
    <3>1. \A f : TracedLengths(flare, f)' = TracedLengths(flare, f)
      BY <1>1 DEF TracedLengths
    <3>2. \A i : FlaresOf(i)' = FlaresOf(i)
      BY <1>1 DEF FlaresOf
    <3> QED
      BY <1>1, <1>2, <1>6, <3>1, <3>2 DEF ToldInv, ShortestIsGiven
  <2>3. NothingIsLeftToTry'
    BY <1>1, <1>2, <1>6 DEF ToldInv, NothingIsLeftToTry
  <2> QED
    BY <1>1, <1>2, <1>6, <2>1, <2>2, <2>3 DEF ToldInv
<1> QED
  BY <1>1, <1>3, <1>4, <1>5, <1>6 DEF IInv, SoundInv

\* Every step keeps the invariant, one action at a time.
LEMMA NextStep ==
    ASSUME IInv, [Next]_vars
    PROVE  IInv'
<1>1. CASE UserStep
  BY <1>1, RefusedStep, SolveBoardStep, ResumeSolutionStep, GetNextMoveStep, RecycleStep
     DEF UserStep, CallSolver
<1>2. CASE Step
  BY <1>2, NextInstanceStep, RestartPlanStep, CheckpointSolvedStep, CheckpointPassedStep,
     InvalidBoardStep, RunFlareStep, FlareSolvedStep, FlareUnsolvableStep, LimitsExceededStep,
     LocalLimitExceededStep, QuotaExceededStep, LeaveWithoutStep, LeaveSoftlyStep,
     LeaveSuspendedStep, LeaveSolvedStep, LeaveOutOfRangeStep
     DEF Step
<1>3. CASE UNCHANGED vars
  BY <1>3, Stutters
<1> QED
  BY <1>1, <1>2, <1>3 DEF Next

\* What the caller is told is true, for any instances, plans, limits and boards, however
\* often limits suspended the search and whatever other boards were solved before
\* (freecell_solver_user_resume_solution in lib.c).
THEOREM AnswersAreTrue == Spec => []AnswersTrue
<1>1. Init => IInv
  BY InitStep
<1>2. IInv /\ [Next]_vars => IInv'
  BY NextStep
<1>3. IInv => AnswersTrue
  BY DEF IInv, SoundInv, ToldInv, AnswersTrue
<1> QED
  BY <1>1, <1>2, <1>3, PTL DEF Spec
=============================================================================
