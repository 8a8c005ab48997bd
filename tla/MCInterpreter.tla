---------------------------- MODULE MCInterpreter ---------------------------
(***************************************************************************)
(* A behaviour handles exceptions and leaves loops, or creates and         *)
(* analyses functions; the other part rests.                               *)
(***************************************************************************)
EXTENDS MCUnwinding, LazyAnalysis

VARIABLE component

MCInit == component \in {"unwinding", "analysis"} /\ Init /\ LInit

MCNext ==
  /\ UNCHANGED component
  /\ \/ component = "unwinding" /\ Next /\ UNCHANGED lvars
     \/ component = "analysis" /\ LNext /\ UNCHANGED vars

MCSpec == MCInit /\ [][MCNext]_<<component, vars, lvars>> /\ LFairness
=============================================================================
