SPECIFICATION Spec
CONSTANTS
  UserPages = 5
  StackSize = 2
  KernelPages = 2
  Faults = {}
INVARIANTS Disjoint AnswersAsAsked
