---------------------------- MODULE MCAdmission ----------------------------
(***************************************************************************)
(* Tasks are named by their parameters: <<period, computation>>.           *)
(***************************************************************************)
EXTENDS Admission

MCPeriod == [t \in Tasks |-> t[1]]
MCComputation == [t \in Tasks |-> t[2]]

\* Light and heavy tasks, more than the bound allows together.
MCTasks == {<<2, 1>>, <<6, 6>>, <<7, 1>>, <<10, 9>>}

ASSUME SumsAssumption == SumsFit

\* Two tasks, each of which alone is well below the bound.
MCPair == {<<10, 6>>, <<20, 12>>}
=============================================================================
