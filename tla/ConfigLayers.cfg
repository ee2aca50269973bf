SPECIFICATION Spec
CONSTANTS
    NumLevels = 3
    NsList <- TwoNamespaces
    Raw = "raw"
    Vals = {"a", "b", "c"}
    None = None
    IgnoreNs = {0, 1}
    Written <- Layered
    Updaters = {"top", "low", "high"}
    LevelOf <- MixedLevels
    Owns <- MixedKeys
    Exclusive = {"top"}
CHECK_DEADLOCK FALSE
INVARIANTS
    ReadsFollowSources
    WatcherAgrees
