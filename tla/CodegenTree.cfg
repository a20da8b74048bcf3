\* Any two of: two runs of the new catalog, one of the old, a clean; over any checkout,
\* below an out root that goes through a symlink.
SPECIFICATION Spec
CONSTANTS
  old = old
  new = new
  new2 = new2
  c1 = c1
  Paths <- FourPaths
  DirOf <- FourDirs
  Generators = {old, new, new2}
  Cleaners = {c1}
  Catalog <- Catalogs
  Version <- Texts
  InitialTrees <- FourTrees
  CanonicalRoot = FALSE
  MaxStarts = 2
  MaxEdits = 1
SYMMETRY Alike
INVARIANTS
  NeverTorn
  SuccessIsExact
PROPERTIES
  HandWrittenKept
  NeverStripped
