CONSTANTS
    Nodes <- MCNodes
    Lists <- MCLists
    Networks <- MCNetworks
    Supports <- MCSupports
    Delays = {1, 2, 3}
    Tolerance = 1
    MaxDelay = 2
    MaxUpdates = 2
SPECIFICATION Spec
INVARIANTS SelectedIsMember
PROPERTIES SelectionRule UpdateIsChecked
