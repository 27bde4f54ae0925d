\* One name of a directory that fits and one that does not; a size that needs
\* every cluster, so that what is left of the disk decides how much is written.
SPECIFICATION Spec
CONSTANTS
  FAT_ENTRIES = 5
  FS_MAX_ENTRIES = 4
  ClusterSize = 2
  Names = {"a", "long"}
  FileNames <- FileNamesValue
  LongNames = {"long"}
  Sizes = {0, 5}
  Values = {v1, v2}
SYMMETRY ValuesSymmetry
INVARIANTS
  TreeRooted
  ClustersOwnedOnce
  ReadsBack
  
PROPERTIES
  NoClusterLost
  OtherFilesKept
