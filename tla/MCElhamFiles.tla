---------------------------- MODULE MCElhamFiles ----------------------------
(* ElhamFiles on small instances: the values the configurations refer to.  *)
EXTENDS ElhamFiles, TLC

CONSTANTS i1, i2

Symmetry == Permutations(Instance)

MCAll        == [i \in Instance |-> AllOps]
MCPair       == [i \in Instance |-> {"aeCreate", "aeUnlink"}]
MCOnePerKind == [i \in Instance |-> {"aeCreate", "aeRead", "aeUnlink"}]
MCCreateRead == [i \in Instance |-> {"aeCreate", "aeRead"}]
MCOneCreates == (i1 :> AllOps \ {"aeUnlink"}) @@ (i2 :> AllOps \ {"aeUnlink", "aeCreate"})
=============================================================================
