\* Every small tree with links, walked by each kind of scanner under its caps.
CONSTANTS
    None = None
    N = 4
    Trees <- MCTrees
    Scans <- MCScans
SPECIFICATION Spec
INVARIANTS TypeOK ListedOnce NothingMissed CapsRespected TwiceOnlyByLink SampleIsAnnounced
PROPERTIES Terminates
