\* Six users, each with a few keys of his own.
SPECIFICATION FairSpec
CONSTANTS
    KeySets <- MCKeySets
    StartLevel = 1
    MaxLevel = 2
INVARIANTS ModifiersFollow EffectMeant NoByteStuck
PROPERTY DevicesServed
CHECK_DEADLOCK FALSE
