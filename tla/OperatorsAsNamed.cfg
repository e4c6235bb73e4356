SPECIFICATION Spec
CONSTANTS
  Expressions <- NamedExpressions
  ArgumentLists <- OneArgument
  W = 12
  StackMin = 8
  AddrSize = 4
  Contexts <- SomeContexts
  Reg <- MCReg
  Deref <- MCDeref
  XDeref <- MCXDeref
  Tls <- MCTls
INVARIANT OperatorsAsNamed
CHECK_DEADLOCK FALSE
