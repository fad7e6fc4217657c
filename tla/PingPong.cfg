SPECIFICATION Spec
CONSTANT MaxWraps = 6
INVARIANT TypeOK
INVARIANT OverwriteVisible
INVARIANT ReaderWarned
INVARIANT LapsAccounted
INVARIANT LossCounted
PROPERTY ReleasedByServer
