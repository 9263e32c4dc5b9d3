-------------------------- MODULE MCNodeLifecycle --------------------------
EXTENDS NodeLifecycle, TLC
CONSTANTS c1, c2, u1, u2, u3, v1
MCPoolOf == [c \in Claims |-> "default"]
MCSymmetry == Permutations(Uuids \ Foreign) \cup Permutations(Claims)
OwnTags == {<<ListedTagKey, ClusterName>>}
NoTags == {}
UnlistedTags == {<<ClusterNameTagKey, ForeignCluster>>, <<NodePoolLabelKey, "other">>}
OtherTags == {<<ListedTagKey, ForeignCluster>>, <<NodePoolLabelKey, "other">>}
=============================================================================
