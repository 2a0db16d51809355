-------------------------- MODULE MCRobotIssuance --------------------------
(* RobotIssuance on small sets of requests for TLC.  Requests are alike, so  *)
(* the runs that check only safety identify states that permute them.        *)
EXTENDS RobotIssuance, TLC

RequestSymmetry == Permutations(Request)
=============================================================================
