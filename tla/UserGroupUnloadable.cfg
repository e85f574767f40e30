SPECIFICATION Spec
CONSTANTS
  root = root
  alice = alice
  wheel = wheel
  dev = dev
  pw1 = pw1
  pw2 = pw2
  Usernames = {root, alice}
  Groupnames = {wheel, dev}
  Passwords = {pw1}
  Malformed = Malformed
  MaxGidTokens = 32
  Faults = {}
  MaxUnsaved = 0
  InitialUsers <- MCInitialUsers
  InitialGroups <- MCInitialGroups
  FirstCommonUid = 1
  LastId = 2
INVARIANTS
  SavedStateLoads
