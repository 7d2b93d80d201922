SPECIFICATION Spec
CONSTANTS
    Paths <- MCPaths
    Ignored = {"ignored"}
    Skipped = {"skipped"}
    Modules <- MCModules
    Texts <- MCTexts
    Hooks = {"refresh", "force", "changed", "dropped"}
    Ttl = 1
    MaxClock = 2
INVARIANT SymbolsAreCurrent
INVARIANT NothingDangles
 
