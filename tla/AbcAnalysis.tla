---------------------------- MODULE AbcAnalysis ----------------------------
(***************************************************************************)
(* The ABC-XYZ matrix of src/wms/analysis.py.  Shares and coefficients of  *)
(* variation are ratios of whole numbers here; the code's tolerance of     *)
(* 1e-10 absorbs the rounding of its floats.  What goes out between the    *)
(* two SELECTs of the matrix is left out, and so is top_n: all SKUs are    *)
(* ranked, and the caller's cut of the list decides nothing.               *)
(***************************************************************************)
EXTENDS Integers, FiniteSets, Functions

CONSTANTS
    Skus,
    Months,      \* those within the period
    Quantities   \* that can leave the warehouse in a month

ASSUME AbcAssumption == IsFiniteSet(Skus) /\ IsFiniteSet(Months) /\ Quantities \subseteq Nat

VARIABLES
    moved,       \* per SKU and month: what went out
    abc,         \* per SKU that is ranked already: its category
    matrix       \* per SKU: its cell, once the matrix is made

abc_vars == <<moved, abc, matrix>>

Total(s) == SumFunctionOnSet(moved[s], Months)
TotalOf(S) == SumFunctionOnSet([s \in Skus |-> Total(s)], S)
Rows == {s \in Skus : Total(s) > 0}
Ranked == DOMAIN abc

AbcInit ==
    /\ moved \in [Skus -> [Months -> Quantities]]
    /\ abc = [s \in {} |-> "A"]
    /\ matrix = [s \in {} |-> <<"A", "X">>]

\* The category from a cumulated quantity.
abc_category(cumulative) ==
    IF 100 * cumulative <= 80 * TotalOf(Rows) THEN "A"
    ELSE IF 100 * cumulative <= 95 * TotalOf(Rows) THEN "B" ELSE "C"

\* Mutant: the share of the row itself is added after its category is found.
compute_abc_analysis_late(s) ==
    abc' = [t \in Ranked \union {s} |->
              IF t = s THEN abc_category(TotalOf(Ranked)) ELSE abc[t]]

\* The next row, by quantity; rows of one quantity come in any order.
compute_abc_analysis(s) ==
    abc' = [t \in Ranked \union {s} |->
              IF t = s THEN abc_category(TotalOf(Ranked) + Total(s)) ELSE abc[t]]

RankNext(s) ==
    /\ s \in Rows \ Ranked
    /\ \A t \in Rows \ Ranked : Total(t) <= Total(s)
    /\ compute_abc_analysis(s)
    /\ UNCHANGED <<moved, matrix>>

\* Over the months in which something went out; the others are no zeros but
\* missing.  With n of them and the sum S, the square of the coefficient is
\* the sum of (n * v - S)^2 over (n - 1) * S^2.
Sold(s) == {m \in Months : moved[s][m] > 0}
Square(x) == x * x
Spread(s) ==
    LET n == Cardinality(Sold(s))
    IN  SumFunctionOnSet([m \in Months |-> Square(n * moved[s][m] - Total(s))], Sold(s))

cv_category(s) ==
    LET unit == (Cardinality(Sold(s)) - 1) * Square(Total(s))
    IN  IF 4 * Spread(s) < unit THEN "X" ELSE IF Spread(s) < unit THEN "Y" ELSE "Z"

\* A SKU that went out in a single month has no coefficient: nobody's column.
compute_xyz_analysis == [s \in {s \in Rows : Cardinality(Sold(s)) >= 2} |-> cv_category(s)]

compute_abc_xyz_matrix ==
    LET xyz == compute_xyz_analysis
    IN  /\ Ranked = Rows
        /\ DOMAIN matrix # Rows
        /\ matrix' = [s \in Rows |-> <<abc[s], IF s \in DOMAIN xyz THEN xyz[s] ELSE "X">>]
        /\ UNCHANGED <<moved, abc>>

AbcNext == (\E s \in Skus : RankNext(s)) \/ compute_abc_xyz_matrix

AbcSpec == AbcInit /\ [][AbcNext]_abc_vars

-----------------------------------------------------------------------------
AbcTypeOK ==
    /\ Ranked \subseteq Rows
    /\ \A s \in Ranked : abc[s] \in {"A", "B", "C"}
    /\ \A s \in DOMAIN matrix : matrix[s] \in {"A", "B", "C"} \X {"X", "Y", "Z"}

\* Column X by the differences of the months from one another, each counted
\* twice.
Differences(s) ==
    LET from(m) == SumFunctionOnSet([k \in Months |-> Square(moved[s][m] - moved[s][k])],
                                    Sold(s))
    IN  SumFunctionOnSet([m \in Months |-> from(m)], Sold(s))
Steady(s) ==
    LET n == Cardinality(Sold(s))
    IN  n < 2 \/ 4 * (n * Differences(s)) < 2 * ((n - 1) * Square(Total(s)))

\* Once every SKU is ranked, the classes are those of Pareto: A is as many of
\* the SKUs that moved most as have no more than 80 % of the quantity, A and B
\* as many as have no more than 95 %, whichever way SQL orders equal rows; and
\* column X holds the SKUs whose months differ little from one another.  (So a
\* SKU that has more than 80 % by itself is never in A, and a single one is in
\* C: "top 20 % of SKUs by value" of the module comment is something else.)
ParetoClasses ==
    LET within(cats) == {s \in Rows : s \in Ranked /\ abc[s] \in cats}
        largest(cats, percent) ==
          /\ 100 * TotalOf(within(cats)) <= percent * TotalOf(Rows)
          /\ \A s \in Rows \ within(cats) :
                /\ \A t \in within(cats) : Total(s) <= Total(t)
                /\ (\A t \in Rows \ within(cats) : Total(t) <= Total(s))
                      => 100 * (TotalOf(within(cats)) + Total(s)) > percent * TotalOf(Rows)
    IN  /\ Ranked = Rows => largest({"A"}, 80) /\ largest({"A", "B"}, 95)
        /\ \A s \in DOMAIN matrix : (matrix[s][2] = "X") <=> Steady(s)

=============================================================================
