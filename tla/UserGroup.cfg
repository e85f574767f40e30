SPECIFICATION Spec
CONSTANTS
  root = root
  alice = alice
  wheel = wheel
  dev = dev
  pw1 = pw1
  pw2 = pw2
  Usernames = {root, alice}
  Groupnames = {wheel, dev}
  Passwords = {pw1, pw2}
  Malformed = Malformed
  MaxGidTokens = 1
  Faults = {"malloc", "bcrypt", "save"}
  MaxUnsaved = 1
  InitialUsers <- MCInitialUsers
  InitialGroups <- MCInitialGroups
  FirstCommonUid = 1
  LastId = 1
INVARIANTS
  TypeOK
  IndexesExact
  IdsAccounted
  MembershipConsistent
  CertifiesExactly
  GidsResolve
  RestartRestores
PROPERTIES
  FailedAddLeavesNoTrace
  PrimaryGroupStable
  ImplementsDirectory
