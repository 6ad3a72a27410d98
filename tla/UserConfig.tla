----------------------------- MODULE UserConfig -----------------------------
(***************************************************************************)
(* What a user of the library configures before the first board is solved  *)
(* (lib.c, instance.c, preset.c, move_funcs_order.c): a series of          *)
(* instances, each with flares, each with soft threads.  Most calls are    *)
(* about the soft thread, the flare or the instance that came last, some   *)
(* about all of those there are, and some about those to come as well.     *)
(* There are no variables here: a function of the interface takes the user *)
(* to a new one and to a return value, which is not 0 in case of an error. *)
(*                                                                         *)
(* Flares and Scans say what is done with what was configured.             *)
(***************************************************************************)
EXTENDS Integers, Sequences, FiniteSets
LOCAL INSTANCE SequencesExt

CONSTANTS
    Games,         \* the presets by name: id, params, allowed moves, order
    Orders,        \* the strings for orders of moves, as tokens, see Token
    Preludes,      \* the strings for preludes, as items
    MaxFreecells, MaxStacks, MaxDecks,
    MaxScans       \* MAX_NUM_SCANS

Token == [type : {"move"}, move : STRING]
         \cup [type : {"open"}]
         \cup [type : {"close"}, by : {"", "rand", "asw", "all", "unknown", "no_paren"},
               closed : BOOLEAN, weights : Seq(Nat)]
GamesAssumption == "freecell" \in DOMAIN Games /\ \A g \in DOMAIN Games : Games[g].order \in DOMAIN Orders
OrdersAssumption == \A o \in DOMAIN Orders : \A k \in DOMAIN Orders[o] : Orders[o][k] \in Token
BoundsAssumption == MaxFreecells \in Nat /\ MaxStacks \in Nat /\ MaxDecks \in Nat /\ MaxScans \in Nat \ {0}
ASSUME GamesAssumption
ASSUME OrdersAssumption
ASSUME BoundsAssumption

Done(u) == [user |-> u, ret |-> 0]
Refused(u, code) == [user |-> u, ret |-> code]

-----------------------------------------------------------------------------
(* Orders of moves: groups, each run in its order, shuffled, or by weights.*)

NewGroup == [kind |-> "in_order", moves |-> << >>, weights |-> << >>]
IsOpen(groups) == groups[Len(groups)].moves = << >>
WithOpen(groups) == IF IsOpen(groups) THEN groups ELSE Append(groups, NewGroup)
OfKind(groups, kind) == [groups EXCEPT ![Len(groups)].kind = kind]

OrderedBy(groups, c) ==
    CASE c.by \in {"", "unknown", "no_paren"} -> groups
      [] c.by = "asw" /\ c.closed -> [OfKind(groups, "asw") EXCEPT ![Len(groups)].weights = c.weights]
      [] OTHER -> OfKind(groups, c.by)
CloseError(p, c) ==
    CASE p.fresh -> 2
      [] ~p.in_group -> 3
      [] c.by = "no_paren" -> 5
      [] c.by = "unknown" -> 6
      [] c.by # "" /\ ~c.closed -> 7
      [] c.by \in {"rand", "all"} /\ c.weights # << >> -> 8
      [] OTHER -> 0

\* One more token, after an error none.
ParseToken(p, c) ==
    CASE p.ret # 0 -> p
      [] c.type = "open" ->
            IF p.in_group THEN [p EXCEPT !.ret = 1]
            ELSE [p EXCEPT !.groups = OfKind(WithOpen(p.groups), "rand"), !.in_group = TRUE, !.fresh = TRUE]
      [] c.type = "close" ->
            LET code == CloseError(p, c)
                groups == IF code \in {2, 3} THEN p.groups ELSE OrderedBy(p.groups, c)
            IN IF code # 0 THEN [p EXCEPT !.ret = code, !.groups = groups]
               ELSE [p EXCEPT !.groups = OfKind(WithOpen(groups), "in_order"),
                              !.in_group = FALSE, !.fresh = FALSE]
      [] OTHER -> [p EXCEPT !.groups[Len(p.groups)].moves = Append(@, c.move), !.fresh = FALSE]

\* What was parsed before an error is kept, with the group that is still open.
ParseOrder(order) ==
    LET p == FoldLeft(ParseToken,
                      [ret |-> 0, groups |-> <<NewGroup>>, in_group |-> FALSE, fresh |-> FALSE],
                      Orders[order])
    IN [ret |-> p.ret,
        groups |-> IF p.ret = 0 /\ IsOpen(p.groups) THEN Front(p.groups) ELSE p.groups]

MovesOf(groups) == UNION {{g.moves[k] : k \in DOMAIN g.moves} : g \in {groups[n] : n \in DOMAIN groups}}

-----------------------------------------------------------------------------
(* Soft threads and instances.                                             *)

Forever == 1000000   \* SSIZE_MAX
Unlimited == -1
Default == -1        \* a number that the code has for who does not set one

\* There are no move orders but that of the instance, for every depth.
InitSoftThread(order) ==
    [orders |-> << [max |-> Forever, order |-> order] >>, method |-> "dfs", best_first |-> FALSE,
     randomize |-> FALSE, step |-> 50, seed |-> 24, pruning |-> FALSE, name |-> "",
     weights |-> [k \in 0..4 |-> Default], pats |-> << >>, complete |-> FALSE]
NewSoftThread(inst) ==
    IF Len(inst.threads) = MaxScans THEN Refused(inst, 1)
    ELSE Done([inst EXCEPT !.threads = Append(@, InitSoftThread(inst.order))])

Exceeds(game) ==
    CASE game.params.freecells > MaxFreecells -> 2
      [] game.params.stacks > MaxStacks -> 3
      [] game.params.decks > MaxDecks -> 4
      [] OTHER -> 0

\* An order with a move that the game does not allow gives way to the game's.
Fitting(order, game) ==
    IF MovesOf(order) \subseteq game.allowed THEN order ELSE ParseOrder(game.order).groups
FittingThread(thread, game) ==
    [thread EXCEPT !.orders = [k \in DOMAIN @ |-> [@[k] EXCEPT !.order = Fitting(@, game)]]]
Adopt(inst, game) ==
    IF Exceeds(game) # 0 THEN inst
    ELSE [inst EXCEPT !.params = game.params, !.simple_simon = (game.id = "simple_simon"),
                      !.threads = [k \in DOMAIN @ |-> FittingThread(@[k], game)],
                      !.order = ParseOrder(game.order).groups]

AllocInstance ==
    LET bare == [params |-> << >>, simple_simon |-> FALSE, order |-> << >>, threads |-> << >>,
                 opt_order |-> << >>, opt_set |-> FALSE, optimize |-> FALSE, real_depth |-> FALSE,
                 reparent |-> FALSE, synergy |-> TRUE, max_states |-> Unlimited, trim |-> Unlimited,
                 cache |-> 10000, handler |-> FALSE, text |-> "", prelude |-> << >>, name |-> ""]
    IN NewSoftThread(Adopt(bare, Games["freecell"])).user

-----------------------------------------------------------------------------
(* What came last.                                                         *)

InstanceItem(u) == u.instances[Len(u.instances)]
ActiveObj(u) == InstanceItem(u).flares[Len(InstanceItem(u).flares)]
ApiSoftThread(u) == ActiveObj(u).threads[Len(ActiveObj(u).threads)]

OfInstance(u, inst) == [u EXCEPT !.instances[Len(u.instances)] = inst]
OfActive(u, obj) == OfInstance(u, [InstanceItem(u) EXCEPT !.flares[Len(InstanceItem(u).flares)] = obj])
OfThread(u, thread) == OfActive(u, [ActiveObj(u) EXCEPT !.threads[Len(ActiveObj(u).threads)] = thread])
OfAll(u, Change(_)) ==
    [u EXCEPT !.instances =
        [i \in DOMAIN @ |-> [@[i] EXCEPT !.flares = [k \in DOMAIN @ |-> Change(@[k])]]]]

\* A flare plays what the user plays, and starts with the order of Freecell if
\* that is allowed there.  The limit of the instance is forgotten.
\* Mutant: it plays Freecell.
FreecellFlare(u) ==
    OfInstance(u, [InstanceItem(u) EXCEPT !.flares = Append(@, [AllocInstance EXCEPT !.handler = u.handler]),
                                          !.limit = Unlimited])
UserNextFlare(u) ==
    LET obj == [Adopt(AllocInstance, u.common) EXCEPT !.handler = u.handler]
    IN OfInstance(u, [InstanceItem(u) EXCEPT !.flares = Append(@, obj), !.limit = Unlimited])
UserNextInstance(u) ==
    UserNextFlare([u EXCEPT !.instances = Append(@, [flares |-> << >>, plan |-> "", limit |-> Unlimited])])
NextSoftThread(u) ==
    LET made == NewSoftThread(ActiveObj(u))
    IN IF made.ret # 0 THEN Refused(u, 1) ELSE Done(OfActive(u, made.user))

\* Also what a reset comes to.
NoFlag == "(null)"
UserInitialize ==
    UserNextInstance([common |-> Games["freecell"], instances |-> << >>, limit |-> Unlimited,
                  soft_limit |-> Unlimited, choice |-> "fc_solve", factor |-> 1, handler |-> FALSE,
                  flag |-> NoFlag])

-----------------------------------------------------------------------------
(* The game.                                                               *)

ApplyPreset(u, name) ==
    IF name \notin DOMAIN Games THEN Refused(u, 1)
    ELSE LET game == Games[name]
         IN IF Exceeds(game) # 0 THEN Refused(u, Exceeds(game))
            ELSE Done([OfAll(u, LAMBDA obj : Adopt(obj, game)) EXCEPT !.common = game])

ForAllInstances(u, params) ==
    [OfAll(u, LAMBDA obj : [obj EXCEPT !.params = params]) EXCEPT !.common.params = params]
SetParam(u, param, value, values) ==
    IF value \notin values THEN Refused(u, 1)
    ELSE Done(ForAllInstances(u, [u.common.params EXCEPT ![param] = value]))

SetNumFreecells(u, n) == SetParam(u, "freecells", n, 0..MaxFreecells)
SetNumStacks(u, n) == SetParam(u, "stacks", n, 0..MaxStacks)
SetNumDecks(u, n) == SetParam(u, "decks", n, 0..MaxDecks)
SetBuiltBy(u, built) == SetParam(u, "built", built, {"alternate", "suit", "rank"})
SetSequenceMove(u, unlimited) == SetParam(u, "unlimited", unlimited, BOOLEAN)
SetFilledBy(u, fill) == SetParam(u, "fill", fill, {"any", "kings", "none"})

\* One after the other: those before an error stay as they were set.
SetGame(u, g) ==
    LET Setting(v, k) ==
            CASE k = 1 -> SetNumFreecells(v, g.freecells)
              [] k = 2 -> SetNumStacks(v, g.stacks)
              [] k = 3 -> SetNumDecks(v, g.decks)
              [] k = 4 -> SetBuiltBy(v, g.built)
              [] k = 5 -> SetSequenceMove(v, g.unlimited)
              [] k = 6 -> SetFilledBy(v, g.fill)
        Step(done, k) ==
            IF done.ret # 0 THEN done
            ELSE LET next == Setting(done.user, k)
                 IN IF next.ret # 0 THEN Refused(next.user, k) ELSE next
    IN FoldLeft(Step, Done(u), <<1, 2, 3, 4, 5, 6>>)

-----------------------------------------------------------------------------
(* The soft thread.                                                        *)

\* Mutant: an entry that ends at the depth does not come to it.
EndsBelow(entries, k, depth) == k = Len(entries) \/ depth < entries[k].max
Reaches(entries, k, depth) == k = Len(entries) \/ depth <= entries[k].max

\* From the depth on.  The entry that comes to it is cut there, and what is
\* after that one gives way, also when there is an error in the new order.
SetDepthTestsOrder(u, depth, order) ==
    LET thread == ApiSoftThread(u)
        entries == thread.orders
        cut == IF depth = 0 THEN 0
               ELSE CHOOSE k \in DOMAIN entries :
                       Reaches(entries, k, depth) /\ \A j \in 1..k - 1 : ~Reaches(entries, j, depth)
        before == IF cut = 0 THEN << >> ELSE [SubSeq(entries, 1, cut) EXCEPT ![cut].max = depth]
        parsed == ParseOrder(order)
    IN IF depth < 0 THEN Refused(u, 1)
       ELSE Refused(OfThread(u, [thread EXCEPT !.orders =
                                    Append(before, [max |-> Forever, order |-> parsed.groups])]),
                    parsed.ret)

\* A patsolve thread has parameters of its own, which are there from then on.
PatsParams == [x |-> [k \in 0..10 |-> Default], y |-> [k \in 0..2 |-> Default]]
SetSolvingMethod(u, method) ==
    LET thread == ApiSoftThread(u)
    IN Done(OfThread(u,
        CASE method \in {"soft-dfs", "random-dfs"} ->
                [thread EXCEPT !.method = "dfs", !.randomize = (method = "random-dfs")]
          [] method = "patsolve" ->
                [thread EXCEPT !.method = "patsolve", !.pats = IF @ = << >> THEN <<PatsParams>> ELSE @]
          [] OTHER -> [thread EXCEPT !.method = "befs", !.best_first = (method = "a-star")]))
SetPatsolveParam(u, param, position, value) ==
    LET pats == ApiSoftThread(u).pats
    IN IF pats = << >> THEN Refused(u, 1)
       ELSE IF position \notin DOMAIN pats[1][param] THEN Refused(u, 2)
       ELSE Done(OfThread(u, [ApiSoftThread(u) EXCEPT !.pats[1][param][position] = value]))

SetAStarWeight(u, k, weight) ==
    CASE k \notin 0..4 -> Refused(u, 1)
      [] weight < 0 -> Refused(u, 2)
      [] OTHER -> Done(OfThread(u, [ApiSoftThread(u) EXCEPT !.weights[k] = weight]))
\* Numbers that are not there are 0, and so are those below it.
Weights(list) ==
    [k \in 0..4 |-> IF k + 1 \in DOMAIN list /\ list[k + 1] > 0 THEN list[k + 1] ELSE 0]
SetWeights(u, list) ==
    FoldLeft(LAMBDA v, k : SetAStarWeight(v, k, Weights(list)[k]).user, u, <<0, 1, 2, 3, 4>>)

SetRandomSeed(u, seed) == OfThread(u, [ApiSoftThread(u) EXCEPT !.seed = seed])
SetSoftThreadStep(u, step) == OfThread(u, [ApiSoftThread(u) EXCEPT !.step = step])
SetSoftThreadName(u, name) == OfThread(u, [ApiSoftThread(u) EXCEPT !.name = name])
SetPruning(u, pruning) ==
    IF pruning \notin {"r:tf", ""} THEN Refused(u, 1)
    ELSE Done(OfThread(u, [ApiSoftThread(u) EXCEPT !.pruning = (pruning = "r:tf")]))

-----------------------------------------------------------------------------
(* The flare, the instance and the user.                                   *)

SetOptimizationOrder(u, order) ==
    LET parsed == ParseOrder(order)
    IN Refused(OfActive(u, [ActiveObj(u) EXCEPT !.opt_order = parsed.groups, !.opt_set = (parsed.ret = 0)]),
               parsed.ret)
Lowest(n) == IF n < 0 THEN Unlimited ELSE n
LimitNumStates(u, n) == OfActive(u, [ActiveObj(u) EXCEPT !.max_states = Lowest(n)])
SetTrimmingLimit(u, n) == OfActive(u, [ActiveObj(u) EXCEPT !.trim = Lowest(n)])
SetOptimize(u) == OfActive(u, [ActiveObj(u) EXCEPT !.optimize = TRUE])
SetReparent(u) == OfActive(u, [ActiveObj(u) EXCEPT !.reparent = TRUE])
SetRealDepth(u) == OfActive(u, [ActiveObj(u) EXCEPT !.real_depth = TRUE])
SetSynergy(u, on) == OfActive(u, [ActiveObj(u) EXCEPT !.synergy = on])
SetPrelude(u, text) == OfActive(u, [ActiveObj(u) EXCEPT !.text = text])
SetFlareName(u, name) == OfActive(u, [ActiveObj(u) EXCEPT !.name = name])
SetFlaresPlan(u, plan) == OfInstance(u, [InstanceItem(u) EXCEPT !.plan = plan])
LimitInstance(u, n) == OfInstance(u, [InstanceItem(u) EXCEPT !.limit = n])

LimitIterations(u, n) == [u EXCEPT !.limit = Lowest(n)]
SoftLimitIterations(u, n) == [u EXCEPT !.soft_limit = n]
SetFlaresFactor(u, factor) == [u EXCEPT !.factor = factor]
SetFlaresChoice(u, choice) ==
    IF choice \notin {"fc_solve", "fcpro"} THEN Refused(u, 1) ELSE Done([u EXCEPT !.choice = choice])
SetCacheLimit(u, n) ==
    IF n <= 0 THEN Refused(u, 1) ELSE Done(OfAll(u, LAMBDA obj : [obj EXCEPT !.cache = n]))
SetIterHandler(u, on) == [OfAll(u, LAMBDA obj : [obj EXCEPT !.handler = on]) EXCEPT !.handler = on]
SetUnrecognizedFlag(u, flag) == [u EXCEPT !.flag = flag]

-----------------------------------------------------------------------------
(* The start of a search.                                                  *)

\* A prelude that cannot be compiled is left out without a word.
CompilePrelude(obj) ==
    LET items == Preludes[obj.text]
        Named(item) == {t \in DOMAIN obj.threads : obj.threads[t].name = item.name}
        First(S) == CHOOSE t \in S : \A s \in S : t <= s
    IN IF \A k \in DOMAIN items : items[k].at_sign /\ Named(items[k]) # {}
          THEN [k \in DOMAIN items |-> [scan |-> First(Named(items[k])), quota |-> items[k].quota]]
          ELSE << >>
Accumulated(thread) == MovesOf(thread.orders[1].order)
InitInstance(obj) ==
    LET all == UNION {Accumulated(obj.threads[t]) : t \in DOMAIN obj.threads}
    IN [obj EXCEPT
          !.prelude = IF obj.text = "" THEN @ ELSE CompilePrelude(obj),
          !.threads = [t \in DOMAIN @ |-> [@[t] EXCEPT !.complete = (Accumulated(obj.threads[t]) = all)]],
          !.opt_order = IF obj.opt_set THEN @
                        ELSE << [NewGroup EXCEPT !.moves = FoldSet(LAMBDA move, moves : Append(moves, move), << >>, all)] >>,
          !.opt_set = TRUE]

\* A depth-first scan goes to the next entry when it comes to the depth at which
\* the last one ended, one entry for one level; when it is resumed, it looks for
\* the first one that ends below its depth.
EntryAt(entries, depth) ==
    LET entry[d \in 0..depth] ==
            IF d = 0 THEN 1
            ELSE IF d >= entries[entry[d - 1]].max THEN entry[d - 1] + 1 ELSE entry[d - 1]
    IN entry[depth]
EntryResumed(entries, depth) ==
    CHOOSE k \in DOMAIN entries : depth < entries[k].max /\ \A j \in 1..k - 1 : depth >= entries[j].max
=============================================================================
