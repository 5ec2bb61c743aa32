------------------------------ MODULE MCOperator ------------------------------
(* Instances of OperatorSession: two enrolments of one cluster with tokens of  *)
(* different names and one stream, or one enrolment with two streams.          *)
EXTENDS OperatorSession, TLC

CONSTANTS k1, k2, o1, o2, t1, t2

TwoTokens == {k1, k2}
TwoOperators == {o1, o2}
DistinctNames == k1 :> "first" @@ k2 :> "second"
OneToken == {k1}
OneOperator == {o1}
OneName == k1 :> "first"

OneStream == {t1}
TwoStreams == {t1, t2}
===============================================================================
