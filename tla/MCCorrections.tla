--------------------------- MODULE MCCorrections ---------------------------
(* Three documents of three days, and a window of one day: exchange          *)
(* disclosures with and without the flag and the target of a correction, and *)
(* holding reports.                                                          *)
EXTENDS Corrections

CONSTANTS d1, d2, d3

MCDocs == {d1, d2, d3}
Days == 1..3

Exchange ==
  [group : {"exchange"}, rcept : Days, corr : BOOLEAN, target : {0} \cup Days,
   report : {0}, prev : {0}]

Holding ==
  [group : {"holding"}, rcept : {1}, corr : {FALSE}, target : {0},
   report : Days, prev : {0} \cup Days]

MCContents == Exchange \cup Holding

MCRatio == [c \in MCDocs |-> [d \in MCDocs |-> IF d = d1 THEN 1 ELSE 0]]

MCSymmetry == Permutations({d2, d3})
=============================================================================
