SPECIFICATION FairSpec
CONSTANTS
    a = "a"
    b = "b"
    c = "c"
    Modules = {"a", "b", "c"}
    ModuleOrder <- MCModuleOrder
    Unregistered = {"b", "c"}
INVARIANTS
    LifeInv
    DependenciesRun
    LeftAfterFailureOnly
    UndoIsIsolated
PROPERTIES
    LifespanGoesOn
CHECK_DEADLOCK FALSE
