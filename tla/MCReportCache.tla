--------------------------- MODULE MCReportCache ---------------------------
(* Instances of ReportCache for TLC.                                       *)
EXTENDS ReportCache, TLC

CONSTANTS s1, s2, n1, n2, a1, a2

OneNode == {<<s1, n1>>}
AllNodes == Nodes
OneEach == {<<s1, n1>>, <<s2, n2>>}

Symmetry == Permutations(Admins)
=============================================================================
