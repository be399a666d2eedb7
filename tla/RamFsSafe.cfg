\* Clusters of two bytes, files of up to five: reads and writes that start,
\* end and cross anywhere.
SPECIFICATION Spec
CONSTANTS
    Handles = {h1, h2}
    Bytes = {0, 1}
    Lengths = {0, 1, 3}
    MaxSize = 5
    CAPACITY = 2
    PastEnd = FALSE
SYMMETRY HandleSymmetry
INVARIANTS ClustersMatchSize NoWildCopy
PROPERTIES ImplementsByteFile
