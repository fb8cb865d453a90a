SPECIFICATION ConfigSpec
INVARIANT ReadyMeansAccepted
