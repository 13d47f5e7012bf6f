SPECIFICATION TVSpec
CONSTANT MaxChanges = 5
INVARIANT ReclaimBeforeOpening
