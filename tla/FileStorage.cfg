SPECIFICATION Spec
CONSTANTS
  w1 = w1
  w2 = w2
  r1 = r1
  r2 = r2
  k1 = k1
  k2 = k2
  None = None
  Hole = Hole
  Values <- MCValues
  Inodes <- MCInodes
  Blocks = 2
  Writers = {w1}
  Readers <- MCReaders
  MaxWrites = 3
SYMMETRY MCSymmetry
INVARIANTS
  FilesSound
PROPERTY
  AtomicSpec
