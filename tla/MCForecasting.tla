---------------------------- MODULE MCForecasting ----------------------------
(***************************************************************************)
(* Two divisions over four months, the second of which has no receipts in  *)
(* the last month.  A correction of one month makes the baseline win where *)
(* the challenger had won.                                                 *)
(***************************************************************************)
EXTENDS Forecasting, TLC

CONSTANTS north, south, w1, w2

Receipts(entity, amounts) ==
  {[entity |-> entity, month |-> i, value |-> amounts[i]] : i \in DOMAIN amounts}

MCSources ==
  {Receipts(north, <<1, 2, 3, 4>>) \cup Receipts(south, <<2, 2, 2>>),
   Receipts(north, <<1, 2, 2, 4>>) \cup Receipts(south, <<2, 2, 2>>)}

\* A straight line through the last two values.
MCEts(train, i, season) ==
  train[Len(train)] + i * (train[Len(train)] - train[Len(train) - 1])

MCModelLists == {<<Ets, Naive>>, <<Naive>>}

Symmetry == Permutations({w1, w2})
=============================================================================
