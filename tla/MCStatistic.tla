----------------------------- MODULE MCStatistic -----------------------------
(***************************************************************************)
(* Instances of Statistic for TLC.                                         *)
(***************************************************************************)
EXTENDS StatisticProperties, TLC

CONSTANTS s1, s2, s3

\* AddOneMsg and DelOneMsg.
PlusMinus == {1, -1}
One == {1}
=============================================================================
