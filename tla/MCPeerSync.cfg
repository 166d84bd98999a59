SPECIFICATION SyncSpec
CONSTANTS
  producer = producer
  fresh = fresh
  pruned = pruned
  gone = gone
  Nodes <- MCNodes
  DeadPeers <- MCDeadPeers
  Producer = producer
  Announcing <- MCNodes
  Syncing = {fresh, pruned}
  Crashing = {fresh, producer}
  Root <- MCRoot
  Bootnodes <- MCBootnodes
  MAX_PEERS_PER_TICK = 3
  MAX_LEARNED_PEERS_PER_TICK = 1
  MAX_SYNC_BATCH = 1
  MAX_BATCHES_PER_PASS = 2
  MaxHeight = 3
  MaxFaults = 2
INVARIANTS
  TypeOK
  PeerListsStayClean
PROPERTIES
  EveryoneCatchesUp
