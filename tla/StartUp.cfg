\* a process stops when it is ready for its threads, or when it is refused
CONSTANTS
    File <- MCFile
    Protocols <- MCProtocols
    MacroModules <- MCMacroModules
    TestRange = 8
    Processes <- MCProcesses
    Configs <- MCConfigs
    Glob <- MCGlob
    Variant <- MCVariant
SPECIFICATION Spec
INVARIANTS
    TypeOK
    TestIdsDiffer
    IncludesAreMerged
    PromisedRuns
    ServicesAreUp
    PacesFit
CHECK_DEADLOCK FALSE
