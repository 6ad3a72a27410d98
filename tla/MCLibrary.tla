----------------------------- MODULE MCLibrary -----------------------------
(***************************************************************************)
(* Small instances of what the searches work on.  Two kinds of games: of   *)
(* the library (CardGame) and of the disk-backed solvers (DbmGame), with   *)
(* cards up to rank 5 of which the first ranks are on the foundations.     *)
(* Five data structures: the queue by depth with two kinds of items on     *)
(* pages of two, at three depths of an array that has to grow for each;    *)
(* the collection of states with a table that doubles and with two boards  *)
(* of one hash value; a heap with ties; and two red-black trees.  And two  *)
(* of what the programs begin with: boards dealt by number, about the      *)
(* numbers where the generator changes, and lists of numbers.  A behavior  *)
(* is one of one of them, and the others stand still.                      *)
(***************************************************************************)
EXTENDS CardGame, DbmGame, DepthMultiQueue, StateStore, PriorityQueue, KazTree, LibavlTree,
        MsDeal

CONSTANTS itemA, itemB, k1, k2, k3, k4

MCItems == {itemA, itemB}
MCBoards == {k1, k2, k3, k4}
MCHashValue == (k1 :> 0) @@ (k2 :> 4) @@ (k3 :> 1) @@ (k4 :> 4)
\* One key may be stored with either of two items.
MCAvlItems == [k \in AvlKeys |-> IF k = 1 THEN {1, 2} ELSE {1}]
MCRating == <<1, 1, 2, 2, 3, 3, 4>>

H(r) == Card(r, 0)
C(r) == Card(r, 1)
D(r) == Card(r, 2)
S(r) == Card(r, 3)

King == 5

Rules(built, fill, unlimited) ==
    [built |-> built, fill |-> fill, unlimited |-> unlimited, simple_simon |-> FALSE]
SimpleSimon == [Rules("suit", "any", FALSE) EXCEPT !.simple_simon = TRUE]
Board(cols, freecells, founds) ==
    [cols |-> cols, freecells |-> freecells,
     founds |-> [f \in 0..Len(founds) - 1 |-> founds[f + 1]]]
Deal(built, fill, unlimited, cols, freecells, founds) ==
    [rules |-> Rules(built, fill, unlimited), board |-> Board(cols, freecells, founds)]

\* A buried game, two with columns to spare, one of two decks, and the
\* other kinds of sequences and of empty columns; one that is lost by putting
\* a card up too early, and one with a run that needs the only freecell;
\* Simple Simon with one empty column and with two.
MCDeals ==
    {Deal("alternate", "any", FALSE,
          << <<D(5), H(4)>>, <<S(4), D(4), C(5)>>, <<S(5), H(5)>> >>,
          <<NoCard>>, <<3, 4, 3, 3>>),
     Deal("alternate", "any", FALSE,
          << <<D(4), S(4)>>, <<D(5), S(5)>>, <<>>, <<>> >>,
          <<NoCard>>, <<5, 5, 3, 3>>),
     Deal("alternate", "any", FALSE,
          << <<S(4), S(5)>>, <<C(5), S(5)>>, <<C(5), S(4)>> >>,
          <<NoCard>>, <<5, 4, 5, 3, 5, 4, 5, 3>>),
     Deal("suit", "any", FALSE,
          << <<C(5), C(4), H(5)>>, <<S(5), H(4)>>, <<S(4), D(5)>> >>,
          <<NoCard>>, <<3, 3, 4, 3>>),
     Deal("rank", "none", FALSE,
          << <<D(4), C(5), C(3), H(4)>>, <<S(5), D(5), S(4)>>, <<C(4), S(3), H(5)>> >>,
          <<NoCard>>, <<3, 2, 3, 2>>),
     Deal("alternate", "kings", FALSE,
          << <<D(5), S(3), H(4), C(3)>>, <<S(4), D(4), C(5)>>, <<S(5), C(4), H(5)>> >>,
          <<NoCard>>, <<3, 2, 3, 2>>),
     Deal("suit", "kings", TRUE,
          << <<D(5), D(4), S(5)>>, <<S(3), C(5), H(5)>>, <<S(4), H(4), C(4)>> >>,
          <<NoCard>>, <<3, 3, 3, 2>>),
     Deal("alternate", "any", FALSE,
          << <<S(5), D(5), S(2), C(5), H(5), S(1)>>, <<S(3), S(4)>> >>,
          <<>>, <<4, 4, 4, 0>>),
     Deal("alternate", "any", FALSE,
          << <<H(4), C(3), D(5)>>, <<C(5), C(4), H(5)>>, <<S(5)>> >>,
          <<NoCard>>, <<3, 2, 4, 4>>),
     [rules |-> SimpleSimon,
      board |-> Board(<< <<C(1), H(5), C(5), H(2)>>, <<C(3), H(4), C(4)>>,
                         <<H(1), C(2), H(3)>>, <<>> >>, <<>>, <<0, 0, 5, 5>>)],
     [rules |-> SimpleSimon,
      board |-> Board(<< <<H(4), H(3), C(5), C(4)>>, <<C(2), H(2), H(1)>>,
                         <<C(3), C(1), H(5)>>, <<>>, <<>> >>, <<>>, <<0, 0, 5, 5>>)]}

MCDbmDeals ==
    {[variant |-> "freecell",
      board |-> Board(<< <<D(4), S(4), S(3), D(5)>>, <<C(3), H(5), H(4), H(3)>>,
                         <<S(2), H(2), S(5), C(2)>>, <<D(3), D(2), C(4), C(5)>> >>,
                      <<NoCard>>, <<1, 1, 1, 1>>)],
     [variant |-> "bakers_dozen",
      board |-> Board(<< <<S(5), C(5), H(5), D(1), H(2)>>, <<D(5), D(4), C(4), H(1), D(3)>>,
                         <<S(3), C(1), H(4), S(4), D(2)>>, <<S(2), S(1), H(3), C(2), C(3)>> >>,
                      <<>>, <<0, 0, 0, 0>>)]}

\* About 1, 2^31, 2^32, 2^32 + 2^31 and the last number.
Number(top, hi, lo) == [top |-> top, hi |-> hi, lo |-> lo]
MCDealIndices ==
    {Number(0, 0, 1), Number(0, 0, 240), Number(0, 1, 65535), Number(0, 32767, 65535),
     Number(0, 32768, 0), Number(0, 65535, 65535), Number(1, 0, 0), Number(1, 0, 1),
     Number(1, 32767, 65535), Number(1, 32768, 0), Number(1, 65535, 65532)}
MCNumberIn == [w \in {"1", "2", "3", "seq", "slurp", "deals", "--"} |->
                 CASE w = "1" -> 1 [] w = "2" -> 2 [] w = "3" -> 3 [] OTHER -> 0]
MCWords == DOMAIN MCNumberIn
MCFileOf == [f \in {"deals"} |-> <<2, 3, 3>>]

NoGame == [none |-> TRUE]
NoCardGame ==
    /\ game = NoGame
    /\ board = NoGame
    /\ locs = NoGame
    /\ user = NoGame
    /\ pro = NoGame
NoDbmGame ==
    /\ variety = "none"
    /\ origin = NoGame
    /\ derived = NoGame
    /\ stored = NoGame
    /\ depth = 0
NoDeal ==
    /\ deal_idx = NoGame
    /\ seedx = NoGame
    /\ deck = NoGame
    /\ dealt = NoGame
NoRanges ==
    /\ args = <<>>
    /\ arg = 1
    /\ ranges = <<>>
    /\ asked = <<>>

VARIABLE part
listVars == <<dealVars, rangesVars>>
partVars == <<part, gameVars, dbmVars, queueVars, storeVars, heapVars, treeVars, avlVars, listVars>>

LibraryInit ==
    /\ part \in {"game", "dbm_game", "queue", "store", "heap", "tree", "avl", "deal", "ranges"}
    /\ IF part = "game" THEN Init ELSE NoCardGame
    /\ IF part = "dbm_game" THEN DbmInit ELSE NoDbmGame
    /\ IF part = "deal" THEN DealInit ELSE NoDeal
    /\ IF part = "ranges" THEN RangesInit ELSE NoRanges
    /\ QueueInit /\ StoreInit /\ HeapInit /\ TreeInit /\ AvlInit
LibraryNext ==
    /\ UNCHANGED part
    /\ \/ part = "game" /\ Next
          /\ UNCHANGED <<dbmVars, queueVars, storeVars, heapVars, treeVars, avlVars, listVars>>
       \/ part = "dbm_game" /\ Expand
          /\ UNCHANGED <<gameVars, queueVars, storeVars, heapVars, treeVars, avlVars, listVars>>
       \/ part = "queue" /\ QueueNext
          /\ UNCHANGED <<gameVars, dbmVars, storeVars, heapVars, treeVars, avlVars, listVars>>
       \/ part = "store" /\ StoreNext
          /\ UNCHANGED <<gameVars, dbmVars, queueVars, heapVars, treeVars, avlVars, listVars>>
       \/ part = "heap" /\ HeapNext
          /\ UNCHANGED <<gameVars, dbmVars, queueVars, storeVars, treeVars, avlVars, listVars>>
       \/ part = "tree" /\ TreeNext
          /\ UNCHANGED <<gameVars, dbmVars, queueVars, storeVars, heapVars, avlVars, listVars>>
       \/ part = "avl" /\ AvlNext
          /\ UNCHANGED <<gameVars, dbmVars, queueVars, storeVars, heapVars, treeVars, listVars>>
       \/ part = "deal" /\ DealCard
          /\ UNCHANGED <<gameVars, dbmVars, queueVars, storeVars, heapVars, treeVars, avlVars,
                         rangesVars>>
       \/ part = "ranges" /\ RangesNext
          /\ UNCHANGED <<gameVars, dbmVars, queueVars, storeVars, heapVars, treeVars, avlVars,
                         dealVars>>
LibrarySpec == LibraryInit /\ [][LibraryNext]_partVars

-----------------------------------------------------------------------------
(* The properties of the two games, each for its own behaviors.            *)

\* UserFollows and ProFollows of CardGame: the moves told to the user replay
\* the game, and so do those that are listed for Freecell Pro.
UserFollowsSolver == part = "game" => UserFollows /\ ProFollows
\* PruneSafe of CardGame: the prune never loses a game.
PruneLosesNothing == part = "game" => PruneSafe
\* EncodingsInvert of DbmGame: keys and boards correspond; DepthIsPotential of
\* DbmGame: so do boards and their depths, which the paths to a board agree on;
\* TextReadsBack of CardGame: texts and boards do; DealsTold of MsDeal: numbers
\* and boards do.
KeysTellBoards ==
    /\ part = "dbm_game" => EncodingsInvert /\ DepthIsPotential
    /\ part = "game" => TextReadsBack
    /\ part = "deal" => DealsTold
\* The search's containers keep their promises through every mixture of calls:
\* DirectoryExact, StoreExact, HeapExact, TreeExact and AvlExact say which, and
\* RangesExact does for the list of deals.
ContainersExact ==
    CASE part = "queue" -> DirectoryExact
      [] part = "store" -> StoreExact
      [] part = "heap" -> HeapExact
      [] part = "tree" -> TreeExact
      [] part = "avl" -> AvlExact
      [] part = "ranges" -> RangesExact
      [] OTHER -> TRUE
=============================================================================
