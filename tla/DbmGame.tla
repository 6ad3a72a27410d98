------------------------------ MODULE DbmGame ------------------------------
(***************************************************************************)
(* A walk of a disk-backed solver over the boards of one deal.  The board  *)
(* that a worker expands is the one it decodes from a key of the store,    *)
(* and what it derives is encoded to a key again, with the sum of the      *)
(* irreversible moves that led there: the depth it is filed under.         *)
(***************************************************************************)
EXTENDS DebondtStates, CompositeStates
LOCAL INSTANCE SequencesExt

CONSTANT DbmDeals      \* games to play: records of variant and board
VARIABLES variety, origin, derived, stored, depth
dbmVars == <<variety, origin, derived, stored, depth>>

DbmInit ==
    \E deal \in DbmDeals :
        LET first == HornePrune(DbmRules(deal.variant), Irreversible(deal.board, 0)).board
        IN /\ variety = deal.variant
           /\ origin = first
           /\ derived = first
           /\ stored = Decode(variety, first, Encode(variety, first, first))
           /\ depth = 0

Expand ==
    \E d \in DbmDerivedStates(DbmRules(variety), stored) :
        /\ derived' = d.board
        /\ stored' = Decode(variety, origin, Encode(variety, origin, d.board))
        /\ depth' = depth + d.irreversible
        /\ UNCHANGED <<variety, origin>>

DbmSpec == DbmInit /\ [][Expand]_dbmVars

-----------------------------------------------------------------------------
(* Properties.                                                             *)

\* Equal but for the order of the columns and of the freecells.
SameBoard(b, c) == Canonize(b) = Canonize(c)

\* A key tells its board: what a worker decodes is what was derived, column
\* order and freecell order apart, every digit fits its base (an assertion of
\* var_base_writer.h), and so do the bit fields of the other encoding, which
\* moreover gives the same key to the same board wherever its free columns
\* lie.  A key that stands for two boards makes the solvers drop a board as
\* already seen, and a wrong decoding makes them solve another game
\* (delta_states_debondt_impl.h, delta_states_impl.h).
EncodingsInvert ==
    LET digits == Encode(variety, origin, derived)
        fields == CompositeEncode(origin, derived)
    IN /\ SameBoard(stored, derived)
       /\ \A i \in DOMAIN digits : digits[i].item < digits[i].base
       /\ ~IsBakersDozen(variety) =>
            /\ SameBoard(CompositeDecode(origin, fields), derived)
            /\ \A i \in DOMAIN fields : fields[i].value < 2 ^ fields[i].width
            /\ CompositeEncode(origin, CompositeDecode(origin, fields)) = fields

\* The depth of a board is the same along every path to it: the cards on the
\* foundations and the pairs of neighbours, none on its parent, that were
\* broken since the start.  depth_dbm_solver.c keeps one collection for each
\* depth and looks for a board only in the one of its own depth, so that a
\* board counted differently along two paths would be expanded twice
\* (dbm_calc_derived.h, horne_prune and COUNT_NON_REV).
Potential(b) ==
    LET broken(s) == {i \in 2..Height(b, s) :
                        ~IsParent(DbmRules(variety), b.cols[s][i], b.cols[s][i - 1])}
    IN FoldLeft(LAMBDA sum, s : sum - Cardinality(broken(s)),
                b.founds[0] + b.founds[1] + b.founds[2] + b.founds[3],
                [s \in Cols(b) |-> s])
DepthIsPotential == depth = Potential(derived) - Potential(origin)
=============================================================================
