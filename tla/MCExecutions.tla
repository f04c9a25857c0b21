---------------------------- MODULE MCExecutions ----------------------------
(***************************************************************************)
(* Instances of Executions: one root with several steps, a root that       *)
(* inspects its child, and a chain of three.                               *)
(***************************************************************************)
EXTENDS Executions, FiniteSets, TLC

CONSTANTS root, child, grandchild, tool, childTool, model, finish, childFinish,
          inspect, g1, g2

MCChain     == (root :> NoParent) @@ (child :> root) @@ (grandchild :> child)
OwnedBelow  == (tool :> grandchild) @@ (finish :> child)
OwnedInTree == [a \in {tool, model, finish, inspect} |-> root]
                 @@ (childTool :> child) @@ (childFinish :> grandchild)

\* Worker generations some row or lease names.
GenerationsSeen ==
    ({runOwner[e] : e \in Execution} \cup {launcher[e] : e \in Execution}
       \cup {actOwner[a] : a \in Activity} \cup {l.generation : l \in leases})
      \ {NoGeneration}

Untouched(S) == \A a \in S : actState[a] = "none"

\* The states of three instances in one run: one root with a tool, a model
\* call and a final step;
RootAlone ==
    runState[child] = "none" /\ Untouched({inspect, childTool, childFinish})

\* a root that inspects its child, whose tool has several attempts and workers;
InspectingPair ==
    /\ runState[grandchild] = "none" /\ Untouched({tool, model, finish})
    /\ attempt[inspect] <= 1

\* and a chain of three executions, with the final step of the last.
ChainOfThree ==
    /\ Untouched({inspect, tool, model, finish, childTool})
    /\ \A a \in Activity : attempt[a] <= 1
    /\ Cardinality(GenerationsSeen) <= 1

Boxes == RootAlone \/ InspectingPair \/ ChainOfThree

\* Generations are told apart only by being different.
Symmetry == Permutations(Generation)
=============================================================================
