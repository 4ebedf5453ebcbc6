CONSTANTS
  Keys <- MCKeys
SPECIFICATION Spec
INVARIANT TypeOK
INVARIANT Canonical
INVARIANT NoPanic
PROPERTY RefinesKeySet
