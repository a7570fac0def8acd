CONSTANTS
  NumClasses = 4
  Abstract = {3}
  Parent <- MCParent
  Hashed = {1, 2, 3, 4}
  None = None
  kElemsPerBlock = 2
  Data = {0, 1}
  DefaultData = 0
  Locals = {l1}
  Replica = replica
  Defaults = {4, None}
  Used = {1, 4}
  MaxCells = 4
  MaxDrift = 2
SPECIFICATION Spec
INVARIANTS IdsAgree CellsAccountedFor PoolsBalanced TypeHashExact ReplicaFollows
PROPERTY FinalizedRight
CHECK_DEADLOCK FALSE
