SPECIFICATION Spec
CONSTANTS
    None = None
    Worlds <- MCWorlds
    Commands <- MCCommands
    Prefix <- MCPrefix
    Looser <- MCLooser
    Catalog <- MCCatalog
INVARIANTS
    LoginsAreCredentials
CHECK_DEADLOCK FALSE
