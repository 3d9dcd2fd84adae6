\* Every configuration kind, unbounded reloads and accept failures.
SPECIFICATION FairSpec
CONSTANTS
    Configs <- AllConfigs
    Decryptions <- DecryptionStrings
    GoodKeys <- ValidKeys
    Tables <- TableValues
INVARIANTS
    
    StaleOnlyByRace
    NoUnattendedListener
PROPERTIES
    
    Converges
