---------------------------- MODULE MCRedisScorer ----------------------------
EXTENDS RedisScorer, TLC

Symmetry == Permutations(Orgs) \cup Permutations(Nodes)
=============================================================================
