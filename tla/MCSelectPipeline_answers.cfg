CONSTANTS
    Databases <- MCDatabases
    Queries <- MCQueries
SPECIFICATION Spec
INVARIANT PagesTile
INVARIANT JoinIsRelational
INVARIANT GroupsPartitionRows
INVARIANT ShortcutAgrees
