\* All runs of the commands, one at a time.
SPECIFICATION Spec
INVARIANT ReadyMeansWhole
PROPERTY DevicesKept
