SPECIFICATION Spec
CONSTANTS
  NoCap = NoCap
  None = None
  Ingresses <- MCIngresses
  Patterns <- MCPatterns
  Caps <- MCCaps
  Corpora <- MCCorpora
INVARIANTS
  TypeOK
  AssignmentIsOptimal
  CapIsFair
  PlanIsUsable
