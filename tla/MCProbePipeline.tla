--------------------------- MODULE MCProbePipeline ---------------------------
(***************************************************************************)
(* Two targets, a metric on one of them (the records of the other are      *)
(* passed over, but damage to them is not), and two files: the live one    *)
(* sorts before an archived one whose record is as old as the clock's      *)
(* first reading, so that the order of the files is not that of time.      *)
(***************************************************************************)
EXTENDS ProbePipeline

CONSTANTS a, b, live, old

MCTargets  == <<a, b>>
MCKeyRings == {{a}, {a, b}}
MCMetrics  == <<a>>
MCLookback == <<2>>
MCFiles    == <<live, old>>
MCArchive  == [f \in {live, old} |->
                 IF f = live THEN <<>> ELSE <<Record(a, 1)>>]
=============================================================================
