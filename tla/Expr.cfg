SPECIFICATION Spec
CONSTANTS
  Expressions <- AllExpressions
  ArgumentLists <- SomeArguments
  W = 12
  StackMin = 8
  AddrSize = 4
  Contexts <- SomeContexts
  Reg <- MCReg
  Deref <- MCDeref
  XDeref <- MCXDeref
  Tls <- MCTls
INVARIANTS
  TypeOK
  ChecksSuffice
  AgreesWithTerms
PROPERTIES
  Terminates
CHECK_DEADLOCK FALSE
