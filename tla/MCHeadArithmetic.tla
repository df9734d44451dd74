-------------------------- MODULE MCHeadArithmetic --------------------------
(* HeadArithmetic with words of five bits, two of them for fractions, and  *)
(* accumulators of ten bits, four of them for fractions: two lanes, one    *)
(* pair of them rotated, and six keys, which is enough for the residual of *)
(* equal scores to exceed a weight.                                        *)
EXTENDS HeadArithmetic

(* Mean squares of zero, less than a part, ordinary, and saturated ones. *)
MCRows == { <<0, 0>>, <<1, 0>>, <<3, -5>>, <<7, 2>>, <<-16, -16>> }

(* Equal scores; one, two, or all keys but one ahead; opposite and extreme keys. *)
MCKeys == { <<<<0, 0>>, <<0, 0>>, <<0, 0>>, <<0, 0>>, <<0, 0>>, <<0, 0>>>>,
            <<<<1, 2>>, <<6, -3>>, <<-4, 1>>, <<2, 2>>, <<0, 5>>, <<1, 1>>>>,
            <<<<-2, 3>>, <<4, 4>>, <<4, 4>>, <<0, 1>>, <<-1, -1>>, <<3, 0>>>>,
            <<<<15, -16>>, <<-16, 15>>, <<-16, -16>>, <<15, 15>>, <<0, -16>>, <<8, 8>>>> }

MCValues == <<<<-16, 15>>, <<15, -16>>, <<-16, 3>>, <<15, 2>>, <<-16, -7>>, <<15, 0>>>>

MCInputs ==
  { [row |-> r, norm |-> <<4, 6>>, eps |-> e, cos |-> <<2>>, sin |-> <<3>>,
     keys |-> k, values |-> MCValues] : r \in MCRows, e \in {0, 1}, k \in MCKeys }
=============================================================================
