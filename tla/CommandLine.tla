---------------------------- MODULE CommandLine ----------------------------
(***************************************************************************)
(* How a command line becomes a configuration (cmd_line.c,                 *)
(* split_cmd_line.c, handle_parsing.h and the callbacks of the programs).  *)
(* An option takes effect as it is read.  Two of them read more arguments: *)
(* --read-from-file those of a file, which is split into words as a shell  *)
(* would, and -l those of a preset, looked up by its name in the presetrc  *)
(* files.  Both come back to the argument after them, so the parser is a   *)
(* stack of calls, each over arguments of its own.                         *)
(*                                                                         *)
(* Arguments are words.  What a word stands for as a number, an order or a *)
(* prelude is looked up in constants, and characters only matter where a   *)
(* file is split: there, a text is a sequence of pieces of words, blanks,  *)
(* quotes and the like.                                                    *)
(***************************************************************************)
EXTENDS UserConfig
LOCAL INSTANCE SequencesExt

CONSTANTS
    Lines,         \* the command lines, without the name of the program
    Tools,         \* the programs that read one
    Numbers,       \* what atoi() makes of words, 0 of others
    Commas,        \* the words of the form N,rest
    Undigited,     \* of the words that begin with digits no comma follows, what is left without these
    Lists,         \* the words that are lists of numbers
    Spelling,      \* the word for what was read in pieces
    Texts,         \* the files, by directory and name
    NoDir,         \* where there is no directory: NULL
    PresetFiles,   \* the presetrc files that are there, in the order they are read
    Dashed,        \* the words that begin with a dash and are no options
    EarlierCalls,  \* the games a program may set before it reads a command line
    Levels         \* where the orders of a thread are told apart

ToolsAssumption == Tools \subseteq {"fc-solve", "fc-solve-multi", "library"}
CommasAssumption == \A a \in DOMAIN Commas : Commas[a].number \in Nat /\ Commas[a].rest \in STRING
UndigitedAssumption == DOMAIN Commas \cap DOMAIN Undigited = {}
ASSUME ToolsAssumption
ASSUME CommasAssumption
ASSUME UndigitedAssumption

VARIABLES
    tool,     \* the program
    argv,     \* its command line
    progress, \* "calls", "parsing", "parsed", "solving" or "left"
    setup,    \* [user, display]: the user, and what the program shows
    before,   \* the setup that the parser was called with (no variable of the code)
    parsing   \* [frames, ret, last]: the calls of the parser, the value one returns,
              \* and *last_arg
cliVars == <<tool, argv, progress, setup, before, parsing>>

-----------------------------------------------------------------------------
(* Splitting a text into words.                                            *)

Blank == {" ", "newline"}
Pushed(c) == [c EXCEPT !.words = Append(@, c.word), !.word = << >>]
Put(c, piece) == [c EXCEPT !.word = Append(@, piece)]
Mode(c, mode) == [c EXCEPT !.mode = mode]

ChopBetween(c, p) ==
    CASE p \in Blank -> c
      [] p = "#" -> Mode(c, "comment")
      [] p = "\\" -> [Mode(c, "escape") EXCEPT !.in_arg = FALSE]
      [] p = "\"" -> Mode(c, "quote")
      [] OTHER -> [Mode(Put(c, p), "word") EXCEPT !.in_arg = TRUE]
\* A comment may begin in the middle of a word, and ends it.
ChopWord(c, p) ==
    CASE p \in Blank -> Mode(Pushed(c), "between")
      [] p = "#" -> Mode(Pushed(c), "comment")
      [] p = "\\" -> Mode(c, "escape")
      [] p = "\"" -> Mode(c, "quote")
      [] OTHER -> [Put(c, p) EXCEPT !.in_arg = TRUE]
\* A line that is continued where no word has begun continues with blanks.
ChopEscape(c, p) ==
    IF p = "newline" THEN Mode(c, IF c.in_arg THEN "word" ELSE "between") ELSE Mode(Put(c, p), "word")
ChopQuote(c, p) ==
    CASE p = "\"" -> [Mode(c, "word") EXCEPT !.in_arg = TRUE]
      [] p = "\\" -> Mode(c, "quote_escape")
      [] OTHER -> Put(c, p)
\* Mutant: a backslash before another character is dropped.
ChopEscapeAny(c, p) == Mode(IF p = "newline" THEN c ELSE Put(c, p), "quote")
ChopQuoteEscape(c, p) ==
    Mode(CASE p = "newline" -> c
           [] p \in {"\\", "\""} -> Put(c, p)
           [] OTHER -> Put(Put(c, "\\"), p), "quote")

ChopPiece(c, p) ==
    CASE c.mode = "between" -> ChopBetween(c, p)
      [] c.mode = "comment" -> IF p = "newline" THEN Mode(c, "between") ELSE c
      [] c.mode = "word" -> ChopWord(c, p)
      [] c.mode = "escape" -> ChopEscape(c, p)
      [] c.mode = "quote" -> ChopQuote(c, p)
      [] c.mode = "quote_escape" -> ChopQuoteEscape(c, p)

\* At the end of the text, a word that has begun is one, even an empty one.
Chop(text) ==
    LET c == FoldLeft(ChopPiece, [mode |-> "between", in_arg |-> FALSE, word |-> << >>, words |-> << >>], text)
        begun == c.mode \in {"word", "escape", "quote", "quote_escape"} \/ c.word # << >>
        words == IF begun THEN Pushed(c).words ELSE c.words
    IN [k \in DOMAIN words |-> IF Len(words[k]) = 1 THEN words[k][1] ELSE Spelling[words[k]]]

-----------------------------------------------------------------------------
(* Presets and files.                                                      *)

\* The lines of all files, one after the other: a name that was met holds for the
\* next command, and a directory until there is another, in later files as well.
ReadPreset(name) ==
    LET Line(r, l) ==
            CASE r.found -> r
              [] l.kind = "dir" -> [r EXCEPT !.dir = l.value]
              [] l.kind = "name" -> [r EXCEPT !.read_next = @ \/ l.value = name]
              [] l.kind = "command" /\ r.read_next -> [r EXCEPT !.found = TRUE, !.text = l.text]
              [] OTHER -> r
    IN FoldLeft(Line, [found |-> FALSE, read_next |-> FALSE, dir |-> NoDir, text |-> << >>],
                FlattenSeq(PresetFiles))

Named(arg) == IF arg \in DOMAIN Commas THEN Commas[arg].rest ELSE arg
Skipped(arg) == IF arg \in DOMAIN Commas THEN Commas[arg].number ELSE 0
\* A name loses the digits that it begins with even when they are not a number of
\* words to skip.
FileName(arg) == IF arg \in DOMAIN Undigited THEN Undigited[arg] ELSE Named(arg)
\* The directory of the preset first, then the current one.
Places(dir, arg) == {d \in {dir, NoDir} : <<d, FileName(arg)>> \in DOMAIN Texts}
Opened(dir, arg) == Texts[<<IF dir \in Places(dir, arg) THEN dir ELSE NoDir, FileName(arg)>>].text
Deeper(count) == IF count < 0 THEN count ELSE count - 1

-----------------------------------------------------------------------------
(* What options do.                                                        *)

Atoi(arg) == IF arg \in DOMAIN Numbers THEN Numbers[arg] ELSE 0
ListOf(arg) == IF arg \in DOMAIN Lists THEN Lists[arg] ELSE << >>

LimitOptions == {"-mi", "-mss", "-tmss", "-step", "-seed", "--cache-limit", "-fif", "-md"}
GameOptions == {"--freecells-num", "--stacks-num", "--decks-num", "--sequences-are-built-by",
                "--sequence-move", "--empty-stacks-filled-by", "-g"}
ScanOptions == {"-to", "-dto", "-dto2", "-me", "-asw", "-sp", "--st-name",
                "--patsolve-x-param", "--patsolve-y-param"}
FlareOptions == {"--flare-name", "--prelude", "--flares-plan", "-opt-to", "--scans-synergy",
                 "--flares-choice"}
NewOptions == {"-ni", "-nf", "-nst", "--reset"}
FlagOptions == {"-opt", "--reparent-states", "--calc-real-depth"}
ReadOptions == {"--read-from-file", "-l"}
WithArgument == LimitOptions \cup GameOptions \cup ScanOptions \cup FlareOptions \cup ReadOptions
Options == WithArgument \cup NewOptions \cup FlagOptions

LimitOption(u, opt, arg) ==
    CASE opt = "-mi" -> Done(LimitIterations(u, Atoi(arg)))
      [] opt = "-mss" -> Done(LimitNumStates(u, Atoi(arg)))
      [] opt = "-tmss" -> Done(SetTrimmingLimit(u, Atoi(arg)))
      [] opt = "-step" -> Done(SetSoftThreadStep(u, Atoi(arg)))
      [] opt = "-seed" -> Done(SetRandomSeed(u, Atoi(arg)))
      [] opt = "-fif" -> Done(SetFlaresFactor(u, Atoi(arg)))
      [] opt = "--cache-limit" -> Done(SetCacheLimit(u, Atoi(arg)).user)
      [] opt = "-md" -> Done(u)
Game(u, opt, arg) ==
    CASE opt = "--freecells-num" -> SetNumFreecells(u, Atoi(arg))
      [] opt = "--stacks-num" -> SetNumStacks(u, Atoi(arg))
      [] opt = "--decks-num" -> SetNumDecks(u, Atoi(arg))
      [] opt = "--sequences-are-built-by" ->
            SetBuiltBy(u, IF arg \in {"suit", "rank"} THEN arg ELSE "alternate")
      [] opt = "--sequence-move" -> SetSequenceMove(u, arg = "unlimited")
      [] opt = "--empty-stacks-filled-by" -> SetFilledBy(u, IF arg \in {"kings", "none"} THEN arg ELSE "any")
      [] opt = "-g" -> ApplyPreset(u, arg)
Methods == {"soft-dfs", "dfs", "bfs", "a-star", "random-dfs", "patsolve"}
Scan(u, opt, arg) ==
    CASE opt = "-to" -> SetDepthTestsOrder(u, 0, arg)
      \* The older of both takes the depth for a part of the order.
      [] opt = "-dto" -> SetDepthTestsOrder(u, Skipped(arg), arg)
      [] opt = "-dto2" -> SetDepthTestsOrder(u, Skipped(arg), Named(arg))
      [] opt = "-me" -> IF arg \in Methods THEN SetSolvingMethod(u, IF arg = "dfs" THEN "soft-dfs" ELSE arg)
                        ELSE Refused(u, 1)
      [] opt = "-asw" -> Done(SetWeights(u, ListOf(arg)))
      [] opt = "-sp" -> SetPruning(u, arg)
      [] opt = "--st-name" -> Done(SetSoftThreadName(u, arg))
      [] OTHER -> IF Len(ListOf(arg)) < 2 THEN Refused(u, 1)
                  ELSE SetPatsolveParam(u, IF opt = "--patsolve-x-param" THEN "x" ELSE "y",
                                        ListOf(arg)[1], ListOf(arg)[2])
FlareOption(u, opt, arg) ==
    CASE opt = "--flare-name" -> Done(SetFlareName(u, arg))
      [] opt = "--prelude" -> Done(SetPrelude(u, arg))
      [] opt = "--flares-plan" -> Done(SetFlaresPlan(u, arg))
      [] opt = "-opt-to" -> SetOptimizationOrder(u, arg)
      [] opt = "--scans-synergy" ->
            IF arg \in {"none", "dead-end-marks"} THEN Done(SetSynergy(u, arg = "dead-end-marks"))
            ELSE Refused(u, 1)
      [] opt = "--flares-choice" -> SetFlaresChoice(u, arg)
New(u, opt) ==
    CASE opt = "-ni" -> Done(UserNextInstance(u))
      [] opt = "-nf" -> Done(UserNextFlare(u))
      [] opt = "-nst" -> NextSoftThread(u)
      [] opt = "--reset" -> Done(UserInitialize)
Flag(u, opt) ==
    CASE opt = "-opt" -> Done(SetOptimize(u))
      [] opt = "--reparent-states" -> Done(SetReparent(u))
      [] opt = "--calc-real-depth" -> Done(SetRealDepth(u))
Effect(u, opt, arg) ==
    CASE opt \in LimitOptions -> LimitOption(u, opt, arg)
      [] opt \in GameOptions -> Game(u, opt, arg)
      [] opt \in ScanOptions -> Scan(u, opt, arg)
      [] opt \in FlareOptions -> FlareOption(u, opt, arg)
      [] opt \in NewOptions -> New(u, opt)
      [] opt \in FlagOptions -> Flag(u, opt)

\* The options of the programs themselves: what each has displayed besides.
ShowOptions == {"-i", "-s", "-p", "-c", "-t", "-m", "-sn", "-snx", "-sam", "-pi", "-sel", "-hoi"}
ExitOptions == {"--help", "--help-configs", "--version"}
OutputOptions == {"-o", "--iter-output-step"}
KnownParameters == ShowOptions \cup ExitOptions \cup OutputOptions \cup {"--reset"}

InitialDisplay == [on |-> {"states"}, notation |-> "long", file |-> "stdout", step |-> 1]
DisplayOf(opt) ==
    CASE opt = "-s" -> {"state_output"}
      [] opt = "-m" -> {"moves"}
      [] opt = "-sam" -> {"moves", "states"}
      [] opt \in {"-i", "-sn", "-snx"} -> {}
      [] OTHER -> {opt}
Show(s, opt) ==
    [s EXCEPT !.display.on = (@ \cup DisplayOf(opt)) \ (IF opt = "-m" THEN {"states"} ELSE {}),
              !.display.notation = IF opt \in {"-sn", "-snx"} THEN opt ELSE @,
              !.user = IF opt \in {"-i", "-s"} THEN SetIterHandler(@, TRUE) ELSE @]
Output(s, opt, arg) ==
    IF opt = "-o" THEN [s EXCEPT !.display.file = arg] ELSE [s EXCEPT !.display.step = Atoi(arg)]
ResetAll(s) == [user |-> UserInitialize, display |-> InitialDisplay]

-----------------------------------------------------------------------------
(* The parser.                                                             *)

TopCall == parsing.frames[Len(parsing.frames)]
Here == TopCall.args[TopCall.at]
Given == TopCall.args[TopCall.at + 1]
\* An index of the array the parser was called with.  That of the program begins
\* with its name.
Index(frame, k) == IF frame.kind = "line" THEN k ELSE k - 1
OnlyRecognized == tool = "library"

Frame(kind, args, words, known, nesting, dir) ==
    [kind |-> kind, args |-> args, at |-> 1, words |-> words, known |-> known,
     nesting |-> nesting, dir |-> dir, last |-> parsing.last]
Reading == progress = "parsing" /\ parsing.ret = "none"
Advance(n) == parsing' = [parsing EXCEPT !.frames[Len(parsing.frames)].at = @ + n]
Return(value, k) == parsing' = [parsing EXCEPT !.ret = value, !.last = Index(TopCall, k)]
Push(frame, last) == parsing' = [parsing EXCEPT !.frames = Append(@, frame), !.last = last]
NoMoreArgs == TopCall.at = Len(TopCall.args)

At(options) == Reading /\ TopCall.at <= Len(TopCall.args) /\ Here \in options
\* The callback of the program comes first.
AtKnown(options) == At(options) /\ TopCall.known
AtOption(options) == At(options) /\ ~(TopCall.known /\ Here \in KnownParameters)

KnownShow ==
    /\ AtKnown(ShowOptions)
    /\ setup' = Show(setup, Here)
    /\ Advance(1)
\* Without an argument, the callback stops the parser and leaves what it should
\* return as it was.
Values == {"ok", "unrecognized", "no_arg", "error", "exit", "other"}
KnownOutput ==
    /\ AtKnown(OutputOptions)
    /\ IF NoMoreArgs THEN (\E value \in Values : Return(value, TopCall.at)) /\ UNCHANGED setup
       ELSE setup' = Output(setup, Here, Given) /\ Advance(2)
KnownExit == AtKnown(ExitOptions) /\ Return("exit", TopCall.at) /\ UNCHANGED setup
\* The callback resets the display and lets the option itself reset the user.
KnownReset == AtKnown({"--reset"}) /\ setup' = ResetAll(setup) /\ Advance(1)

Missing == Here \in WithArgument /\ NoMoreArgs
WithoutArgument ==
    /\ AtOption(Options) /\ Missing
    /\ Return("no_arg", TopCall.at)
    /\ UNCHANGED setup
Unrecognized ==
    /\ Reading /\ TopCall.at <= Len(TopCall.args) /\ Here \notin Options
    /\ ~(TopCall.known /\ Here \in KnownParameters)
    /\ Return("unrecognized", TopCall.at)
    /\ UNCHANGED setup
Option ==
    /\ AtOption(Options \ ReadOptions) /\ ~Missing
    /\ LET size == IF Here \in WithArgument THEN 2 ELSE 1
           done == Effect(setup.user, Here, IF size = 2 THEN Given ELSE Here)
       IN /\ setup' = [setup EXCEPT !.user = done.user]
          /\ IF done.ret = 0 THEN Advance(size) ELSE Return("error", TopCall.at + size - 1)

\* Nothing is read any more at the last level, nor of a file that is too short.
ReadFromFile ==
    /\ AtOption({"--read-from-file"}) /\ ~Missing
    /\ UNCHANGED setup
    /\ IF TopCall.nesting = 0 THEN Advance(2)
       ELSE IF Places(TopCall.dir, Given) = {} THEN Return("error", TopCall.at + 1)
       ELSE LET words == Chop(Opened(TopCall.dir, Given))
                skip == Skipped(Given)
            IN IF skip >= Len(words) THEN Advance(2)
               ELSE Push(Frame("file", SubSeq(words, skip + 1, Len(words)), words, TopCall.known,
                               Deeper(TopCall.nesting), TopCall.dir),
                         parsing.last)
LoadConfig ==
    /\ AtOption({"-l"}) /\ ~Missing
    /\ UNCHANGED setup
    /\ LET preset == ReadPreset(Given)
       IN IF ~preset.found THEN Return("error", TopCall.at + 1)
          ELSE Push(Frame("preset", Chop(preset.text), << >>, FALSE, Deeper(TopCall.nesting),
                          IF preset.dir = NoDir THEN TopCall.dir ELSE preset.dir),
                    0)
EndOfArgs == Reading /\ TopCall.at > Len(TopCall.args) /\ Return("ok", TopCall.at) /\ UNCHANGED setup

\* What a file comes to is passed on, with the name of what was not recognized:
\* the index is one of the arguments after those that were skipped.  A preset
\* that was not recognized to its end is as good as one that was.
Caller == parsing.frames[Len(parsing.frames) - 1]
Resumed ==
    LET calls == Front(parsing.frames)
    IN [parsing EXCEPT !.frames = [calls EXCEPT ![Len(calls)].at = @ + 2], !.ret = "none"]
Failed(last) == [parsing EXCEPT !.frames = Front(@), !.last = last]
NameOf(words, last) == IF last + 1 \in DOMAIN words THEN words[last + 1] ELSE "(no word)"
FileReturns ==
    IF parsing.ret = "ok" THEN parsing' = Resumed /\ UNCHANGED setup
    ELSE /\ parsing' = Failed(Index(Caller, Caller.at))
         /\ setup' = [setup EXCEPT !.user.flag = IF @ = NoFlag THEN NameOf(TopCall.words, parsing.last) ELSE @]
\* Mutant: the rest of the line is not read after a preset that was not recognized.
PresetOrNothing ==
    /\ UNCHANGED setup
    /\ parsing' = IF parsing.ret = "ok" THEN [Resumed EXCEPT !.last = TopCall.last]
                  ELSE [parsing EXCEPT !.frames = Front(@), !.ret = "ok", !.last = TopCall.last]
PresetReturns ==
    /\ UNCHANGED setup
    /\ parsing' = CASE parsing.ret \in {"ok", "unrecognized"} -> [Resumed EXCEPT !.last = TopCall.last]
                    [] parsing.ret = "error" -> Failed(Index(Caller, Caller.at + 1))
                    [] OTHER -> Failed(TopCall.last)
ReturnToCaller ==
    /\ progress = "parsing" /\ parsing.ret # "none" /\ Len(parsing.frames) > 1
    /\ IF TopCall.kind = "file" THEN FileReturns ELSE PresetReturns

Parse ==
    /\ \/ KnownShow \/ KnownOutput \/ KnownExit \/ KnownReset
       \/ WithoutArgument \/ Unrecognized \/ Option
       \/ ReadFromFile \/ LoadConfig \/ EndOfArgs \/ ReturnToCaller
    /\ UNCHANGED <<tool, argv, progress, before>>

-----------------------------------------------------------------------------
(* The program.                                                            *)

CliInit ==
    /\ tool \in Tools
    /\ argv \in Lines[tool]
    /\ progress = "calls"
    /\ setup = [user |-> UserInitialize, display |-> InitialDisplay]
    /\ before = setup
    /\ parsing = [frames |-> << >>, ret |-> "none", last |-> 1]

\* The programs of the repository parse their command lines first; others may have
\* called the library before.
BeginParsing ==
    /\ progress = "calls"
    /\ \/ setup' = setup
       \/ tool = "library" /\ \E g \in EarlierCalls : setup' = [setup EXCEPT !.user = SetGame(@, g).user]
       \/ tool = "library" /\ setup' = [setup EXCEPT !.user = LimitInstance(SoftLimitIterations(@, 7), 5)]
    /\ before' = setup'
    /\ progress' = "parsing"
    /\ parsing' = [parsing EXCEPT !.frames =
                     << Frame("line", argv, << >>, tool # "library", -1, NoDir) >>]
    /\ UNCHANGED <<tool, argv>>

\* The last argument may be the board.
ParserReturned == progress = "parsing" /\ parsing.ret # "none" /\ Len(parsing.frames) = 1
Refusal ==
    \/ parsing.ret \in {"exit", "no_arg", "error"}
    \/ parsing.ret = "unrecognized" /\ (OnlyRecognized \/ parsing.last < Len(argv))
AllocInstanceAndParse ==
    /\ ParserReturned
    /\ progress' = IF Refusal THEN "left" ELSE "parsed"
    /\ UNCHANGED <<tool, argv, setup, before, parsing>>

\* The board is that of the next argument, or of the standard input; only a program
\* for many boards wants a file.  The file may not be there.
BoardArg == IF parsing.last \in DOMAIN argv THEN argv[parsing.last] ELSE "-"
FromStdin == tool = "fc-solve" /\ BoardArg = "-"
BoardNamed ==
    CASE tool = "fc-solve" -> BoardArg \notin KnownParameters \cup Options \cup Dashed
      [] tool = "fc-solve-multi" -> parsing.last <= Len(argv)
      [] OTHER -> TRUE
StartSolving ==
    /\ progress = "parsed"
    /\ \/ BoardNamed /\ progress' = "solving" /\ setup' = [setup EXCEPT !.user = OfAll(@, InitInstance)]
       \/ ~FromStdin /\ progress' = "left" /\ UNCHANGED setup
    /\ UNCHANGED <<tool, argv, before, parsing>>

CliStep == BeginParsing \/ Parse \/ AllocInstanceAndParse \/ StartSolving
CliNext == CliStep

-----------------------------------------------------------------------------
(* What a command line means.                                              *)

\* The words of a file and of a preset, as the one who wrote them means them,
\* and which preset has a name: its command is the first one after the name, and
\* its directory the last one given before that.
PresetLines == FlattenSeq(PresetFiles)
LinesOf(kind) == {k \in DOMAIN PresetLines : PresetLines[k].kind = kind}
PresetMeant(name) ==
    LET names == {k \in LinesOf("name") : PresetLines[k].value = name}
        command == CHOOSE k \in LinesOf("command") :
                      /\ \E n \in names : n < k
                      /\ \A j \in LinesOf("command") : j < k => \A n \in names : j < n
        dirs == {k \in LinesOf("dir") : k < command}
    IN [words |-> PresetLines[command].words,
        dir |-> IF dirs = {} THEN NoDir
                ELSE PresetLines[CHOOSE k \in dirs : \A j \in dirs : j <= k].value]
FileMeant(dir, arg) == Texts[<<IF dir \in Places(dir, arg) THEN dir ELSE NoDir, FileName(arg)>>].words

\* The arguments with those of files and presets in the place of the options that
\* read them, as pairs of an option and its argument; Stop is where it was left off.
Stop == << "(stop)" >>
UpToStop(units) ==
    LET stops == {k \in DOMAIN units : units[k] = Stop}
    IN IF stops = {} THEN units ELSE SubSeq(units, 1, (CHOOSE k \in stops : \A j \in stops : k <= j) - 1)
RECURSIVE Expansion(_, _)
Expansion(args, dir) ==
    IF args = << >> THEN << >>
    ELSE
    LET opt == Head(args)
        takes == opt \in WithArgument \cup OutputOptions
        rest == SubSeq(args, IF takes THEN 3 ELSE 2, Len(args))
    IN CASE opt \notin Options \cup KnownParameters \/ (takes /\ Len(args) = 1) -> << Stop >>
         [] opt = "--read-from-file" ->
              LET words == FileMeant(dir, args[2])
              IN Expansion(SubSeq(words, Skipped(args[2]) + 1, Len(words)), dir) \o Expansion(rest, dir)
         [] opt = "-l" ->
              LET preset == PresetMeant(args[2])
              IN UpToStop(Expansion(preset.words, IF preset.dir = NoDir THEN dir ELSE preset.dir))
                 \o Expansion(rest, dir)
         [] takes -> << <<opt, args[2]>> >> \o Expansion(rest, dir)
         [] OTHER -> << <<opt>> >> \o Expansion(rest, dir)
Units == UpToStop(Expansion(argv, NoDir))

\* One after the other, on what there was before.
Applied(s, unit) ==
    LET opt == unit[1]
    IN CASE opt \in ShowOptions -> Show(s, opt)
         [] opt \in OutputOptions -> Output(s, opt, unit[2])
         [] opt = "--reset" -> IF tool = "library" THEN [s EXCEPT !.user = UserInitialize] ELSE ResetAll(s)
         [] OTHER -> [s EXCEPT !.user = Effect(@, opt, unit[Len(unit)]).user]

\* Presets and files are "analyzed in the place of" the options that name them
\* (USAGE.asciidoc:1078), however deep they are nested, whatever is skipped at their
\* beginnings, whichever directories they are looked for in, however they are quoted
\* and wherever one ends early: a program that goes on has the configuration of the one
\* long command line.
LineMeant == [FoldLeft(Applied, before, Units) EXCEPT !.user.flag = setup.user.flag] = setup

\* The order at each depth is the one that was last asked for at that depth or at a
\* lower one, for that thread ("it will override all the moves' order of 50 and
\* above", USAGE.asciidoc:607), unless a game that does not allow it came later; also
\* for a scan that was suspended there and is resumed.
GroupsOf(game) == ParseOrder(game.order).groups
AtEvery(order) == [d \in Levels |-> order]
FromDepth(orders, depth, order) ==
    [d \in Levels |-> IF d >= depth THEN ParseOrder(order).groups ELSE orders[d]]
NoneAsked(game) == [game |-> game, threads |-> << AtEvery(GroupsOf(game)) >>]
Asked(asked, unit) ==
    LET opt == unit[1]
        last == Len(asked.threads)
        Ordered(depth, order) == [asked EXCEPT !.threads[last] = FromDepth(@, depth, order)]
    IN CASE opt = "-to" -> Ordered(0, unit[2])
         [] opt = "-dto" -> Ordered(Skipped(unit[2]), unit[2])
         [] opt = "-dto2" -> Ordered(Skipped(unit[2]), Named(unit[2]))
         [] opt = "-nst" -> [asked EXCEPT !.threads = Append(@, AtEvery(GroupsOf(asked.game)))]
         [] opt \in {"-nf", "-ni"} ->
              [asked EXCEPT !.threads =
                 Append(@, AtEvery(Fitting(GroupsOf(Games["freecell"]), asked.game)))]
         [] opt = "-g" ->
              LET game == Games[unit[2]]
              IN [game |-> game,
                  threads |-> [t \in 1..last |-> [d \in Levels |-> Fitting(asked.threads[t][d], game)]]]
         [] opt = "--reset" -> NoneAsked(Games["freecell"])
         [] OTHER -> asked

AllFlares == FlattenSeq([i \in DOMAIN setup.user.instances |-> setup.user.instances[i].flares])
AllThreads == FlattenSeq([k \in DOMAIN AllFlares |-> AllFlares[k].threads])
OrdersAsAsked ==
    LET asked == FoldLeft(Asked, NoneAsked(before.user.common), Units).threads
    IN /\ Len(AllThreads) = Len(asked)
       /\ \A t \in DOMAIN AllThreads : \A d \in Levels :
             LET entries == AllThreads[t].orders
             IN /\ EntryAt(entries, d) \in DOMAIN entries
                /\ entries[EntryAt(entries, d)].order = asked[t][d]
                /\ EntryResumed(entries, d) = EntryAt(entries, d)

\* Every flare plays what the user was told to, whether it came before or after that.
OneGame ==
    \A k \in DOMAIN AllFlares :
        /\ AllFlares[k].params = setup.user.common.params
        /\ AllFlares[k].simple_simon <=> setup.user.common.id = "simple_simon"

AsConfigured == progress = "parsed" => LineMeant /\ OrdersAsAsked /\ OneGame
=============================================================================
