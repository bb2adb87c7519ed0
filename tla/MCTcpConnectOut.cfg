SPECIFICATION FairSpec
CONSTANT N = 2
INVARIANTS ClosedStaysDown
PROPERTIES ComesBack LoopsEnd
