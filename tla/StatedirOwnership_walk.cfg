SPECIFICATION Spec
CONSTANTS
  h1 = h1
  h2 = h2
  top1 = top1
  top2 = top2
  instances = instances
  disk = disk
  Hosts = {h1, h2}
  Dirs = {top1, top2, instances}
  Files = {disk}
  Top <- TopOf
  Parent <- TwoParent
  Tree <- TwoTree
SYMMETRY Swap
INVARIANTS
  TypeOK
  Migrated
PROPERTIES
  ForeignKept
