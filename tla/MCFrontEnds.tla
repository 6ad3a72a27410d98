---------------------------- MODULE MCFrontEnds ----------------------------
(***************************************************************************)
(* Small instances of what calls the solver: the public interface with     *)
(* two flares of one instance and one of another, the three programs that  *)
(* solve a range of deals, the depth-first search that can be started      *)
(* again from its log, the search by components with its driver, and the   *)
(* parser of command lines.  A behavior is one of one of them.             *)
(***************************************************************************)
EXTENDS Flares, RangePrograms, PseudoDfs, SplitFcc, CommandLine, TLC
LOCAL INSTANCE SequencesExt

CONSTANTS A, B, C, Both, None, Late, Short, Garbage, Endless

MCFlare == {A, B, C}
MCBoard == {Both, None, Late, Short, Garbage, Endless}

Solved(n, length) == [iters |-> n, solved |-> TRUE, length |-> length]
GaveUp(n) == [iters |-> n, solved |-> FALSE, length |-> 0]
Searches(a, b, c) == [kind |-> "ok", search |-> (A :> a) @@ (B :> b) @@ (C :> c)]
Nothing(kind) == [Searches(GaveUp(1), GaveUp(1), GaveUp(1)) EXCEPT !.kind = kind]

MCResult ==
    (Both :> Searches(Solved(2, 3), Solved(1, 2), Solved(1, 1)))
    @@ (None :> Searches(GaveUp(2), GaveUp(3), GaveUp(2)))
    @@ (Late :> Searches(GaveUp(1), Solved(4, 1), GaveUp(3)))
    @@ (Short :> Searches(Solved(3, 1), Solved(2, 2), Solved(3, 2)))
    @@ (Garbage :> Nothing("invalid"))
    @@ (Endless :> Nothing("too_long"))

Run(f, n) == [type |-> "run", flare |-> f, count |-> n]
RunIndef(f) == [type |-> "indef", flare |-> f]
Instance(fs, plan, limit) == [flares |-> fs, plan |-> plan, limit |-> limit]

\* With flares_iters_factor at one half, quotas are half of what is written.
Alternating == << Run(A, 2), Run(B, 5), Checkpoint, Run(A, 4), Checkpoint, RunIndef(B) >>
Together == << Run(B, 4), Run(A, 7) >>
Again == << Run(A, 6), Run(B, 4), Run(A, 6) >>

MCConfigs == {
    << Instance(<<A, B>>, Alternating, NoLimit) >>,
    << Instance(<<A, B>>, Together, NoLimit), Instance(<<C>>, << >>, NoLimit) >>,
    << Instance(<<A>>, << >>, 1), Instance(<<B, C>>, <<Run(B, 2), Run(C, 3)>>, NoLimit) >>,
    \* Those that are not sound.
    << Instance(<<A, B>>, <<Run(A, 1), Run(B, 2)>>, NoLimit) >>,
    << Instance(<<A>>, << >>, 2) >>,
    << Instance(<<A, B>>, Again, NoLimit) >>,
    << Instance(<<A>>, <<Checkpoint>>, NoLimit) >>,
    \* Those that are not plans.
    << Instance(<<A>>, <<Run(A, 2), UnknownFlare>>, NoLimit) >>,
    << Instance(<<A, B>>, <<RunIndef(A), Run(B, 2)>>, NoLimit) >> }

MCLimit == {2, 5}

\* Seven boards in batches of two: the last batch is a short one.
MCIters == [b \in 1..7 |-> b * b]
EitherPlan == {FALSE, TRUE}

\* Eight positions, each of which leads back to ones that were met before; from
\* the first seven there is no way to the last, except from the seventh.
MCSpots == 1..8
MCDerived == << <<2, 3, 2>>, <<1, 4, 5>>, <<5, 2, 6>>, <<2, 5, 6>>,
                <<6, 3>>, <<3, 5, 4>>, <<1, 8>>, << >> >>
MCDealt == {1, 7}
MCWon == 8

\* Five components.  That of the d has entry points from the b, and from the c,
\* which are at more depth: when the c are led to from the b only, they are so at
\* depths that differ, and when from the a, at the same.
MCLayouts == {"a1", "a2", "b1", "b2", "c1", "d1", "d2", "d3", "won"}
MCFingerprint ==
    [k \in MCLayouts |-> CASE k \in {"a1", "a2"} -> "A" [] k \in {"b1", "b2"} -> "B"
                          [] k = "c1" -> "C" [] k \in {"d1", "d2", "d3"} -> "D" [] k = "won" -> "E"]
MCFccDepth == [A |-> 0, B |-> 1, C |-> 2, D |-> 3, E |-> 4]
Chained == [a1 |-> {"a2", "b1"}, a2 |-> {"a1"}, b1 |-> {"b2", "d1"}, b2 |-> {"b1", "c1"},
            c1 |-> {"d2", "d1"}, d1 |-> {}, d2 |-> {"d3"}, d3 |-> {"d2", "won"}, won |-> {}]
Forked == [Chained EXCEPT !.a2 = {"a1", "c1"}, !.b2 = {"b1"}]
MCWorkers == {"t1", "t2"}

-----------------------------------------------------------------------------
(***************************************************************************)
(* Command lines to be read: the presets of games and the files, some      *)
(* lines that use every option, and all lines of up to three settings of   *)
(* orders, scans and games.                                                *)
(***************************************************************************)

\* Orders of moves by the letters of the moves.
Move(name) == [type |-> "move", move |-> name]
MovesToken(names) == [k \in DOMAIN names |-> Move(names[k])]
OpenToken == << [type |-> "open"] >>
CloseToken == << [type |-> "close", by |-> "", closed |-> FALSE, weights |-> << >>] >>
CloseBy(name, weights) == << [type |-> "close", by |-> name, closed |-> TRUE, weights |-> weights] >>
CloseShort(name) == << [type |-> "close", by |-> name, closed |-> FALSE, weights |-> << >>] >>
Group(names) == OpenToken \o MovesToken(names)
ZeroOne == Group(<<"0", "1">>)
MCOrders ==
    ("[01][23456789]" :> ZeroOne \o CloseToken
                         \o Group(<<"2", "3", "4", "5", "6", "7", "8", "9">>) \o CloseToken)
    @@ ("abcdefgh" :> MovesToken(<<"a", "b", "c", "d", "e", "f", "g", "h">>))
    @@ ("01AB" :> MovesToken(<<"0", "1", "A", "B">>))
    @@ ("01" :> MovesToken(<<"0", "1">>))
    @@ ("5,01" :> MovesToken(<<"5", "0", "0", "1">>))
    @@ ("0[12]3" :> MovesToken(<<"0">>) \o Group(<<"1", "2">>) \o CloseToken \o MovesToken(<<"3">>))
    @@ ("" :> << >>) @@ ("[01" :> ZeroOne) @@ ("[[" :> OpenToken \o OpenToken)
    @@ ("()" :> OpenToken \o CloseToken) @@ ("01)" :> MovesToken(<<"0", "1">>) \o CloseToken)
    @@ ("[01]=all()2" :> ZeroOne \o CloseBy("all", << >>) \o MovesToken(<<"2">>))
    @@ ("[01]=rand()" :> ZeroOne \o CloseBy("rand", << >>))
    @@ ("[01]=asw(1,2)" :> ZeroOne \o CloseBy("asw", <<1, 2, 0, 0, 0>>))
    @@ ("[01]=all(1)" :> ZeroOne \o CloseBy("all", <<1>>))
    @@ ("[01]=some()" :> ZeroOne \o CloseBy("unknown", << >>))
    @@ ("[01]=asw" :> ZeroOne \o CloseShort("no_paren"))
    @@ ("[01]=asw(1" :> ZeroOne \o CloseShort("asw"))

Params(freecells, stacks, decks, built, unlimited, fill) ==
    [freecells |-> freecells, stacks |-> stacks, decks |-> decks, built |-> built,
     unlimited |-> unlimited, fill |-> fill]
FreecellMoves == {"0", "1", "2", "3", "4", "5", "6", "7", "8", "9", "A", "B", "C", "D", "E", "j"}
SimonMoves == {"a", "b", "c", "d", "e", "f", "g", "h", "i"}
PresetOf(id, params, allowed, order) == [id |-> id, params |-> params, allowed |-> allowed, order |-> order]
FreecellLike(id, params) == PresetOf(id, params, FreecellMoves, "[01][23456789]")
MCGames ==
    ("freecell" :> FreecellLike("freecell", Params(4, 8, 1, "alternate", FALSE, "any")))
    @@ ("forecell" :> FreecellLike("forecell", Params(4, 8, 1, "alternate", FALSE, "kings")))
    @@ ("die_schlange" :> FreecellLike("die_schlange", Params(8, 9, 2, "alternate", FALSE, "none")))
    @@ ("simple_simon" :> PresetOf("simple_simon", Params(0, 10, 1, "suit", FALSE, "any"), SimonMoves, "abcdefgh"))
MCEarlierCalls == {MCGames["forecell"].params, MCGames["die_schlange"].params}

PreludeItem(quota, name) == [at_sign |-> TRUE, quota |-> quota, name |-> name]
MCPreludes ==
    ("350@2,700@1" :> << PreludeItem(350, "2"), PreludeItem(700, "1") >>)
    @@ ("350@3" :> << PreludeItem(350, "3") >>)
    @@ ("350" :> << [PreludeItem(350, "") EXCEPT !.at_sign = FALSE] >>)

MCNumbers == ("0" :> 0) @@ ("1" :> 1) @@ ("5" :> 5) @@ ("8" :> 8) @@ ("9" :> 9) @@ ("100" :> 100) @@ ("-3" :> -3)
WithNumber(n, rest) == [number |-> n, rest |-> rest]
MCCommas ==
    ("5,01AB" :> WithNumber(5, "01AB")) @@ ("9,0[12]3" :> WithNumber(9, "0[12]3"))
    @@ ("5,abcdefgh" :> WithNumber(5, "abcdefgh")) @@ ("5,01" :> WithNumber(5, "01"))
    @@ ("0,01AB" :> WithNumber(0, "01AB")) @@ ("2,inner.sh" :> WithNumber(2, "inner.sh"))
    @@ ("4,tale.sh" :> WithNumber(4, "tale.sh")) @@ ("5,wrong.sh" :> WithNumber(5, "wrong.sh"))
    @@ ("9,short.sh" :> WithNumber(9, "short.sh"))
MCUndigited == ("9short.sh" :> "short.sh") @@ ("5missing.sh" :> "missing.sh")
MCLists == ("0,5" :> <<0, 5>>) @@ ("20,5" :> <<20, 5>>) @@ ("2,-1,7" :> <<2, -1, 7>>) @@ ("1" :> <<1>>)

\* The files: a script that calls a program, as the presets that are shipped, with the
\* quotes, escapes, comments and continued lines of a script.
MCSpelling ==
    (<< >> :> "") @@ (<<"0", "[12]", "3">> :> "0[12]3") @@ (<<"My ", "\"", "scan">> :> "My \"scan")
    @@ (<<"-", "sp">> :> "-sp") @@ (<<"back", "\\", "n">> :> "back\\n") @@ (<<"back", "n">> :> "backn") @@ (<<"a", " ", "b">> :> "a b")
TextOf(text, words) == [text |-> text, words |-> words]
Tale ==
    TextOf(<<"#", "!", "/bin/sh", "newline", "#", " ", "Tale", "\"", "newline",
             "range-solve", " ", "1", " ", "100", " ", "5", " ", "\\", "newline", " ",
             "--method", " ", "soft-dfs", " ", "-to", " ", "0", "\"", "[12]", "\"", "3", " ", "--st-name", " ", "1",
             " ", "-nst", " ", "\\", "newline", "--st-name", " ", "2", "newline",
             "--prelude", " ", "\"", "350@2,700@1", "\"", "newline">>,
           <<"range-solve", "1", "100", "5", "-me", "soft-dfs", "-to", "0[12]3", "--st-name", "1",
             "-nst", "--st-name", "2", "--prelude", "350@2,700@1">>)
\* Method is -me under its other name.
Renamed(piece) == IF piece = "--method" THEN "-me" ELSE piece
Outer ==
    TextOf(<<"-", "\\", "newline", "sp", " ", "\"", "\"", " ", "--read-from-file", " ", "2,inner.sh", " ",
             "--flare-name", " ", "\"", "My ", "\\", "\"", "scan", "\"", "#", "end", "newline",
             "-nst", " ", "--st-name", " ", "\"", "back", "\\", "n", "\"", "newline">>,
           <<"-sp", "", "--read-from-file", "2,inner.sh", "--flare-name", "My \"scan",
             "-nst", "--st-name", "back\\n">>)
MCTexts ==
    (<<"presets/", "tale.sh">> :> [Tale EXCEPT !.text = [k \in DOMAIN @ |-> Renamed(@[k])]])
    @@ (<<NoDir, "outer.sh">> :> Outer)
    @@ (<<NoDir, "inner.sh">> :> TextOf(<<"x", " ", "y", " ", "-dto2", " ", "5,01AB">>, <<"x", "y", "-dto2", "5,01AB">>))
    @@ (<<"presets/", "inner.sh">> :> TextOf(<<"x", " ", "y", " ", "-seed", " ", "9">>, <<"x", "y", "-seed", "9">>))
    @@ (<<NoDir, "short.sh">> :> TextOf(<<"-opt", " ", "-opt">>, <<"-opt", "-opt">>))
    @@ (<<NoDir, "wrong.sh">> :>
          TextOf(<<"1", " ", "2", " ", "3", " ", "4", " ", "5", " ", "-opt", " ", "huh", " ", "-opt">>,
                 <<"1", "2", "3", "4", "5", "-opt", "huh", "-opt">>))
    \* An option without an argument that fails.
    @@ (<<NoDir, "scans.sh">> :>
          TextOf(<<"-nst", " ", "-nst", " ", "-nst", " ", "-nst", " ", "-seed", " ", "5">>,
                 <<"-nst", "-nst", "-nst", "-nst", "-seed", "5">>))
    @@ (<<NoDir, "escaped.sh">> :>
          TextOf(<<"\\", "newline", "--st-name", " ", "a", "\\", " ", "b", " ", "-nf", " ", "-s">>,
                 <<"--st-name", "a b", "-nf", "-s">>))

PresetLine(kind, value) == [kind |-> kind, value |-> value]
Command(text, words) == [kind |-> "command", text |-> text, words |-> words]
LoadTale == Command(<<"--read-from-file", " ", "4,tale.sh">>, <<"--read-from-file", "4,tale.sh">>)
UserRc == << PresetLine("name", "mine"),
             Command(<<"-to", " ", "01AB", " ", "huh", " ", "-opt">>, <<"-to", "01AB", "huh", "-opt">>),
             PresetLine("name", "late") >>
SystemRc == << PresetLine("dir", "presets/"), PresetLine("name", "tale"), PresetLine("name", "t"), LoadTale,
               PresetLine("name", "both"),
               Command(<<"-l", " ", "t", " ", "-ni", " ", "-l", " ", "mine">>, <<"-l", "t", "-ni", "-l", "mine">>),
               PresetLine("name", "bad"), Command(<<"-me">>, <<"-me">>) >>
MCPresetFiles == << UserRc, SystemRc >>

-----------------------------------------------------------------------------
MCTools == {"fc-solve", "fc-solve-multi", "library"}
\* About the depths that the orders are given for.
MCLevels == {0, 4, 5, 8, 9, 12}

\* All lines of up to three settings of orders, scans and games.
Settings ==
    { <<"-to", "01AB">>, <<"-dto2", "5,01AB">>, <<"-dto2", "9,0[12]3">>,
      <<"-dto2", "5,abcdefgh">>, <<"-nst">>, <<"-nf">>, <<"-ni">>,
      <<"-g", "forecell">>, <<"-g", "simple_simon">>, <<"--reset">> }
SettingLines == {FlattenSeq(s) : s \in SeqOf(Settings, 3)}

\* Every option, and what is wrong with some.
OptionLines == {
    <<"-mi", "100", "-mss", "5", "-tmss", "-3", "-step", "9", "-seed", "8", "-fif", "1", "--cache-limit", "9",
      "-md", "5", "-nf", "-mi", "-3">>,
    <<"--cache-limit", "0", "-nst", "-step", "huh">>,
    <<"--stacks-num", "9", "--decks-num", "0", "-nf", "--sequences-are-built-by", "rank",
      "--sequence-move", "unlimited", "--empty-stacks-filled-by", "none">>,
    <<"--freecells-num", "9">>, <<"--stacks-num", "100">>, <<"--decks-num", "5">>,
    <<"-g", "die_schlange">>, <<"-g", "huh">>,
    <<"-me", "a-star", "-asw", "2,-1,7", "-nst", "-me", "random-dfs", "-nst", "-me", "bfs">>,
    <<"-me", "patsolve", "--patsolve-x-param", "0,5", "--patsolve-y-param", "0,5", "-nst", "-me", "dfs">>,
    <<"-me", "patsolve", "--patsolve-x-param", "20,5">>, <<"--patsolve-y-param", "0,5">>,
    <<"-me", "patsolve", "--patsolve-x-param", "1">>, <<"-me", "huh">>,
    <<"-sp", "r:tf", "-opt", "--reparent-states", "--calc-real-depth", "-nf", "-sp", "">>, <<"-sp", "huh">>,
    <<"--scans-synergy", "none", "-nf", "--scans-synergy", "dead-end-marks">>, <<"--scans-synergy", "huh">>,
    <<"--flares-choice", "fcpro", "--flares-plan", "Run:5@a", "--flare-name", "a">>, <<"--flares-choice", "huh">>,
    <<"-opt-to", "01AB">>, <<"-opt-to", "01)", "-opt">>,
    <<"-dto", "5,01", "-nst", "-dto", "01AB">>, <<"-dto2", "0,01AB">>, <<"-dto2", "01AB", "-to", "">>,
    <<"-dto2", "5,01AB", "-dto2", "9,0[12]3", "-dto2", "5,01">>,
    <<"-to", "[01]=all()2", "-nst", "-to", "[01]=rand()", "-nst", "-to", "[01]=asw(1,2)", "-nst", "-to", "[01">>,
    <<"-to", "[[">>, <<"-to", "()">>, <<"-to", "01)">>, <<"-to", "[01]=all(1)">>,
    <<"-to", "[01]=some()">>, <<"-to", "[01]=asw">>, <<"-to", "[01]=asw(1">>,
    <<"--st-name", "1", "--prelude", "350@3">>, <<"--prelude", "350">>,
    <<"--st-name", "1", "-nst", "--st-name", "2", "-to", "01AB", "--prelude", "350@2,700@1">>,
    <<"-nst", "-nst", "-nst", "-nst">>, <<"-seed">>, <<"-g", "forecell", "-to">> }
ShowLines == {
    <<"-i", "-p", "-t", "-sam", "-sn", "-sel", "board.txt">>, <<"-s", "-nf", "-m", "-pi", "--reset", "-c", "-">>,
    <<"-o", "out.txt", "--iter-output-step", "5", "-m", "-hoi", "-snx">>, <<"-m", "-o">>, <<"-s", "--version", "-p">>,
    <<"--help">>, <<"-opt", "--iter-output-step">>, <<"-opt", "--huh">> }
FileLines == {
    <<"-l", "tale">>, <<"-l", "both", "-nf", "-l", "t">>, <<"-l", "mine", "-seed", "5">>, <<"-l", "late">>,
    <<"-l", "bad">>, <<"-l", "none">>, <<"-l", "t", "--read-from-file", "outer.sh", "-opt">>,
    <<"--read-from-file", "outer.sh", "-nst">>, <<"--read-from-file", "9,short.sh", "-opt">>,
    <<"--read-from-file", "5,wrong.sh", "-opt">>, <<"--read-from-file", "missing.sh">>,
    <<"--read-from-file", "4,tale.sh">>, <<"--read-from-file", "escaped.sh", "board.txt">>, <<"-l">>,
    \* Digits that no comma follows: all of the file is read.
    <<"--read-from-file", "9short.sh", "-nf", "-opt">>, <<"--read-from-file", "5missing.sh">>,
    <<"--read-from-file", "scans.sh", "-opt">> }
\* One line, also for those who ask about other programs.
OneLine == << "-opt" >>
SharedLines == {OneLine} \cup OptionLines \cup FileLines
MCLines ==
    ("fc-solve" :> SettingLines \cup SharedLines \cup ShowLines)
    @@ ("fc-solve-multi" :> ShowLines \cup FileLines)
    @@ ("library" :> SharedLines)

FewLines == [t \in MCTools |-> {OneLine}]

-----------------------------------------------------------------------------
VARIABLE front
frontVars == <<front, vars, threadedVars, forkingVars, serialVars, walkVars, splitVars, cliVars>>

\* Of programs that read no command line.
NoCommandLine ==
    /\ tool = "none" /\ argv = << >> /\ progress = "none"
    /\ setup = "none" /\ before = "none" /\ parsing = "none"

FrontInit ==
    /\ front \in {"flares", "threads", "forks", "serial", "pseudo_dfs", "split_fcc", "command_line"}
    /\ Init /\ ThreadedInit /\ ForkingInit /\ SerialInit /\ WalkInit /\ SplitInit
    /\ front # "flares" => conf = << Instance(<<A, B>>, Alternating, NoLimit) >> /\ board = None
    /\ front # "threads" => plan_error = FALSE
    /\ front # "pseudo_dfs" => dealt = 1
    /\ IF front = "command_line" THEN CliInit ELSE NoCommandLine

\* One of the programs, while nothing is done to the variables of the others.
Only(this) == front = this /\ UNCHANGED front
OnlyFlares == Only("flares") /\ UNCHANGED <<threadedVars, forkingVars, serialVars, walkVars, splitVars, cliVars>>
OnlyThreads == Only("threads") /\ UNCHANGED <<vars, forkingVars, serialVars, walkVars, splitVars, cliVars>>
OnlyForks == Only("forks") /\ UNCHANGED <<vars, threadedVars, serialVars, walkVars, splitVars, cliVars>>
OnlySerial == Only("serial") /\ UNCHANGED <<vars, threadedVars, forkingVars, walkVars, splitVars, cliVars>>
OnlyWalk == Only("pseudo_dfs") /\ UNCHANGED <<vars, threadedVars, forkingVars, serialVars, splitVars, cliVars>>
OnlySplit == Only("split_fcc") /\ UNCHANGED <<vars, threadedVars, forkingVars, serialVars, walkVars, cliVars>>
OnlyCli == Only("command_line") /\ UNCHANGED <<vars, threadedVars, forkingVars, serialVars, walkVars, splitVars>>

FrontNext ==
    \/ OnlyFlares /\ Next
    \/ OnlyThreads /\ ThreadedNext
    \/ OnlyForks /\ ForkingNext
    \/ OnlySerial /\ SerialNext
    \/ OnlyWalk /\ WalkNext
    \/ OnlySplit /\ SplitNext
    \/ OnlyCli /\ CliNext

FrontFairness ==
    /\ WF_frontVars(OnlyFlares /\ Step)
    /\ \A w \in 1..Threads : WF_frontVars(OnlyThreads /\ ThreadedWorker(w))
    /\ WF_frontVars(OnlyThreads /\ JoinNext)
    /\ \A c \in Child : WF_frontVars(OnlyForks /\ ChildStep(c))
    /\ WF_frontVars(OnlyForks /\ MasterStep)
    /\ WF_frontVars(OnlySerial /\ SerialStep)
    /\ WF_frontVars(OnlyWalk /\ WalkStep)
    /\ WF_frontVars(OnlySplit /\ DriverStep)
    /\ \A t \in Workers : WF_frontVars(OnlySplit /\ WorkerStep(t))
FrontSpec == FrontInit /\ [][FrontNext]_frontVars /\ FrontFairness

\* What someone waits for, and its end.
Busy ==
    CASE front = "flares" -> at # "user" /\ Sound
      [] front = "serial" -> program = "begin"
      [] front = "pseudo_dfs" -> pdfs = "running"
      [] front = "command_line" -> FALSE
      [] OTHER -> TRUE
Ended ==
    CASE front = "flares" -> at = "user"
      [] front = "threads" -> joined = Threads
      [] front = "forks" -> master.pc = "finished"
      [] front = "serial" -> program \notin {"begin", "solving"}
      [] front = "pseudo_dfs" -> pdfs # "running"
      [] front = "split_fcc" -> stage = "idle" /\ (Pending = {} \/ kills > 0)
      [] front = "command_line" -> progress \in {"solving", "left"}

\* Everything that is started ends: each call of the user returns, since plans that are
\* restarted, quotas that are filled up and limits that are met by the way end in an
\* answer; the threads are all joined; no child waits for ever for the end of its pipe, which
\* children forked after it hold open, nor the master for a child; a run that is not
\* killed again closes its file or refuses it; the depth-first search says what it
\* found; and the driver comes to the last of the components, since no thread of
\* the solver waits for ever for one that has nothing to return.  The parser of
\* command lines is left out.
ProgramsEnd == Busy ~> Ended
=============================================================================
