SPECIFICATION Spec
CONSTANTS
  Keys = {"k1", "k2", "k3", "k4"}
  Values = {v1, v2}
  NULL = NULL
  Hash <- MCHash
  AllocFails = TRUE
  BucketCounts = {2, 5, 10}
  KeyLen <- OneLength
  HASH_INLINE_KEY_SIZE = 2
  HASH_INITIAL_CAPACITY = 4
  MaxCapacity = 8
  UINTDEQUE_BLOCK_SIZE = 3
  MIN_BLOCK_SIZE = 2
  MaxLength = 5
  BYTE = 2
  WORD = 2
  BIGNUM_SMALL_SIZE = 2
  MaxBits = 9
  BitLiterals <- MCBitLiterals
  Base = 4
  BIGNUM_DEFAULT_PRECISION = 2
  BIGNUM_MAX_DIGITS = 5
  GUARD_DIGITS = 1
  MAX_EXPONENT = 12
  Literals <- MCLiterals
  MaxShown = 3
  Users = {"alice", "root"}
  Root = "root"
  GroupsOf <- MCGroups
  PrimaryGroup <- MCPrimary
  HookNames = {"n1"}
  Hooks = {h1, h2}
  PermissionSettings <- MCSettings
  VarNames = {"e", "mylist"}
  Cells = {"c1", "c2"}
  Numbers = {1, 2}
  FunctionsOf <- MCFunctionsOf
  ConstantsOf <- MCConstantsOf
  Constant = 0
  MAX_FUNCTIONS = 3
  MAX_PACKAGES = 2
  MaxItems = 2
  LiteralTerms <- MCTerms
  SampleOperators = {"xor", "iff", "impl", "or", "and", "|", "&", "==", "<<", "+", "*", "%", "**"}
  MaxOperators = 2
  ScriptVars = {"x"}
  LoopVar = "i"
  Bounds = {0, 2}
  MaxNesting = 2
  MaxRounds = 2
INVARIANT ElementsLive
