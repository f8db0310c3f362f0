---------------------------- MODULE BeaconClient ----------------------------
(***************************************************************************)
(* The caches of the client (src/src/beacon_client) over one beacon node.  *)
(* The input cache and the block caches share no state but the node; a     *)
(* behaviour exercises one of them, which is sound for properties of each. *)
(***************************************************************************)
EXTENDS InputCache, BlockCache

VARIABLE exercised \* "inputs" or "blocks"

vars == <<nodeVars, inputVars, blockVars, exercised>>

Init ==
  /\ NodeInit /\ InputInit /\ BlockInit
  /\ exercised \in {"inputs", "blocks"}

\* The input cache does not look at finality.
NodeStep ==
  /\ NodeNext
  /\ exercised = "inputs" => UNCHANGED <<finEpoch, finRoot>>
  /\ Observe
  /\ UNCHANGED <<blockVars, exercised>>

Restart ==
  /\ InputsRestart /\ BlocksRestart
  /\ UNCHANGED <<nodeVars, exercised>>

UseInputs == exercised = "inputs" /\ InputStep /\ UNCHANGED <<blockVars, exercised>>

UseBlocks == exercised = "blocks" /\ BlockStep /\ UNCHANGED <<inputVars, exercised>>

Next == NodeStep \/ Restart \/ UseInputs \/ UseBlocks

\* A worker comes back with its next poll and a call takes its steps; the
\* 30 seconds of a negative entry pass.
Fairness ==
  /\ \A w \in Workers :
       WF_vars(exercised = "inputs" /\ CallStep(w) /\ UNCHANGED <<blockVars, exercised>>)
  /\ WF_vars(exercised = "inputs" /\ DelayExpires /\ UNCHANGED <<blockVars, exercised>>)

Spec == Init /\ [][Next]_vars /\ Fairness

\* The node rests and answers, and the process goes on.
Quiet ==
  <>[][UNCHANGED nodeVars /\ ~Restart /\ \A w \in Workers : ~Unavailable(w)]_vars

\* Once the node rests and answers, every worker gets the input again and
\* again: no negative entry and no entry of a branch left behind keeps it from
\* the node.  Two do: an entry at the boundary whose slot the canonical chain
\* skips, and an unsound one (Stuck).
InputsReturn ==
  (exercised = "inputs" /\ Quiet /\ <>[](~Stuck(memory) /\ ~Stuck(row)))
    => \A w \in Workers : []<>At(w, "keep")

=============================================================================
