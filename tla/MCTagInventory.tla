--------------------------- MODULE MCTagInventory ---------------------------
EXTENDS TagInventory
CONSTANTS l1, l2, l3
MCWanted ==
  [l \in Launches |->
     { <<"karpenter.sh/nodepool", IF l = l1 THEN "a" ELSE "b">>,
       <<ZoneLabel, "z1">>, <<ZoneCategory, "z1">> }]
=============================================================================
