CONSTANTS
  Client = {c1, c2}
  Runner = {r1, r2}
  MaxEdits = 2
  Fault = {"late", "drift"}
  Node = {n1}
  Master = m
  ClusterAddr = {1, 2}
  ClusterLimit = 1
  ClusterTTL = 1
  ClusterMemory = 1
  ClusterLease = 1
  ClusterBanMax = 1
SPECIFICATION NodesSpec
CHECK_DEADLOCK FALSE
PROPERTIES  ClusterSafety DenialEnds 
