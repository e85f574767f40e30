# Mhuixs: a TLA+ verification project

Mhuixs is a small database server in C (`src/`): a network front, a user and
group manager, storage structures (key-value store, hash table, list, table),
and Logex, the language that drives them. This project models the parts whose
state can go wrong in ways that a test hardly reaches, checks them with TLC on
small instances, and proves with TLAPS what matters most for every instance.

`PROJECT.json` lists the components, the runs with their properties, the faulty
variants that each property must refute, the source lines of every definition,
the findings, the hazards and the theorems. This file says how they hang
together.

The tree is work in progress and is modelled as it is written. At this commit it
does not build as one program: `Mhuixs.c` has the user manager and the network
front commented out (24-25, 142-158), `queue.c` includes a `list_queue.h` that
is not there, `pkg.c` returns an undeclared `result` (67-94), `hook.c:133` is an
unfinished conditional, `tblh.h` uses `mstring` without including it, and `vm.c`
calls `context_get` with two of its three parameters (241, 386). The four
storage structures, the user manager, the numbers and `registry.c` are complete as
they stand; the session pool calls only code that is complete, apart from the packet
parser; the parser and the executor of Logex lack a lexer, whose header declares
`TOK_UNIQUE` and `TOK_BITMAP` twice. Where a statement below
gives the result of a calculation, the source file was also compiled by itself
and gave it.

## 1. Inventory

All paths are below `src/src/`. "Hard" names what makes a part hard to test.

**Identifier allocator** (`lib/getid.c`) *state:* three bitmaps (session, user,
group ids). *operations:* get and delete an id; uids and gids come in classes
(system, common, ...). *used by:* the user manager and the network front. *hard:*
exhaustion, ids given back on error paths, ids never given back. *correct when:*
an id handed out is in no other's hands.

**User and group manager** (`usergroup.c`) *state:* arrays of users and groups,
four hash indexes from names and ids to array positions, two files.
*operations:* add, delete, password, membership, certification, save, load,
cleanup; every modification rewrites both files. *interacts with:* allocator,
hash table, bcrypt, the session pool (`certification` ends in `auth_session`).
*hard:* rollback of a failed save, deletion that shifts arrays below the
indexes, two files replaced by two renames, restarts, ids reused. *correct when:*
indexes, arrays, bitmaps and files agree, and it behaves as a directory by name.

**Network front** (`netplug.c`, `lib/queue.c`, `lib/netplug_queue.h`) *state:* a
pool of sessions and a stack of idle ones, a command and a response queue,
per-session buffers, a flag for shutdown. *operations:* libuv callbacks
(connection, read, close, timer), `auth_session`, response thread, shutdown.
*interacts with:* clients (libuv), an executor that takes commands and returns
responses, of which the tree holds only the two ends of the queues. *hard:*
three threads, sessions reused while a response is on its way, partial failure
in a read, a join at shutdown. *correct when:* a session serves one connection at
a time and starts clean, no packet is skipped or repeated, no wake-up is lost,
shutdown ends.

**Table engine** (`lib/tblh.c`) *state:* columns of cells in physical rows,
`logic_index` and `memory_index`, meant to be inverse to each other.
*operations:* add and remove records and columns, swap, set, update, clear.
*hard:* indexes written entry by entry, uninitialised cells, removal after
exchange. *correct when:* it is a grid of records, in order.

**Key-value store** (`lib/kvalh.c`) *state:* a pool of pairs, buckets that list
positions in it, a stored bucket number in each pair. *operations:* add, find,
remove, clear, with a resize that may fail half-way. *hard:* removal moves the
last pair; stored bucket numbers of an aborted resize. *correct when:* it is a map.

**Hash table** (`lib/hash.c`) *state:* Robin Hood slots with tombstones.
*operations:* put, get, remove, clear, reserve, shrink. *hard:* tombstones,
exchanges during insertion, searches that must end. *correct when:* what was put
and not removed is found.

**Block list** (`lib/list.c`) *state:* a chain of fixed-size blocks, each with a
start offset. *operations:* push and pop at both ends, insert, remove, set,
swap, with splits and merges. *hard:* offsets at the ends of a block. *correct
when:* it is a sequence.

**Hooks and registry** (`lib/hook.c`, `registry.c`) *state:* a table of hooks by
name under `Reg.lock`, each with an owner, a group and permission bits.
*operations:* register, find, unregister, make an object, set permissions.
*interacts with:* `is_entitled` of the user manager, the hash table. *hard:* a
refused registration is undone after the lock is released (`registry.c:76-83`),
and `HOOK_logout` unregisters by name; handles outlive the lock; two permissions
are tested one after the other. *correct when:* a name leads to the hook that was
registered, a handle never dangles, permissions keep strangers out.

**Big numbers** (`lib/bignum.c`) *state:* none but the numbers: digits, sign, place
of the point. *operations:* arithmetic, comparison, conversion to and from texts
and bitmaps. *used by:* evaluator and built-in functions. *hard:* places on both
sides, trimming, two limits on digits, zeros with a sign. *correct when:* results
are those of arithmetic up to the places cut off.

**Bitmaps** (`lib/bitmap.c`) *state:* bytes and a length. *operations:* set bits and
ranges, count, find, bit operations, shifts. *hard:* ranges that begin and end
inside a byte, searches by words that reach beyond the memory, bits beyond the
length. *correct when:* it is a sequence of bits.

**Logex runtime** (`context.c`, `function.c`, `builtin.c`, `package.c`,
`interpreter.c`, `package/math_package.c`) *state:* variables, functions, loaded
packages, the elements of lists. *operations:* statements that assign, call a
list function or import a package. *hard:* lists that share elements, names that
two packages want. *correct when:* a statement changes one variable, and each
function belongs to a library that is loaded.

**Logex front end** (`parser.c`, `ast.c`, `evaluator.c`) *state:* the position among
the tokens, a tree. *operations:* evaluate an expression, parse a statement,
execute a tree. *hard:* twelve levels of precedence; blocks that end where the
parser thinks so; return codes that mean success in one function and failure in
another. *correct when:* expressions mean what is written, a tree has the shape of
the text, and a program does what it says until it stops at an assignment (section 5).

Not modelled:

**Packet framing** (`lib/pkg.c`): `Netplug` counts complete packets. `unpacking`
does not compile, and `packing` only copies.

**Logex bytecode** (`compiler.c`, `bytecode.c`, `vm.c`): being rewritten.
`compiler.c` asks for kinds of nodes that `ast.h` does not have, `vm.c` calls
`bignum_add` with four parameters instead of two, and the opcodes of the database
are comments. No build has a behaviour that a model could be compared with.

**Lexer** (`lexer.c`): its reading functions never set the kind of the current
token, and `evaluator.c` calls `lexer_init_compat`, which no file defines. The
models of the front end start from tokens.

**Appending bitmaps** (`bitmap_append`, `lib/bitcpy.c`): the call of `bitcpy` has
other parameters than the function (`bitmap.c:409`).

**Environment, errors, strings, output** (`lib/env.c`, `lib/error.c`,
`lib/merr.c`, `lib/mstring.h`, `lib/logo.c`): constants and output. **Password
hashing and ciphers** (`lib/bcrypt.c`, `lib/crypt/`, `lib/iami/`): third-party
cryptography and its wrappers. **Main programs**: start-up code.

## 2. Modules

| module | models | extends / uses |
| --- | --- | --- |
| `Lists` | C arrays as sequences; `Only`, the part of a sequence that is in a set | |
| `IdAlloc` | `getid.c` as operators on the set of allocated ids | |
| `UserGroup` | `usergroup.c` | `IdAlloc`, `Lists`; implements `Directory` |
| `Directory` | abstract: accounts, passwords, groups, members by name | |
| `Queue` | `queue.c`: list, mutex, condition variable, shutdown | |
| `Netplug` | `netplug.c` composed with the queues | `IdAlloc`, `Queue`, `Lists` |
| `Table` | `tblh.c` | `Lists`; implements `Grid` |
| `Grid` | abstract: columns and records in order | `Lists` |
| `Stores` | what the three structures share: keys, values, hash, failing allocations | |
| `Kvalot` | `kvalh.c` | `Stores`; implements `Map` |
| `HashTable` | `hash.c` | `Stores` |
| `BlockList` | `list.c` | `Stores`; implements `Deque` |
| `Map`, `Deque` | abstract: a map, a sequence | |
| `Bitmap` | `bitmap.c`, and what `builtin.c` does with it | |
| `Bignum` | `bignum.c`, and a calculator that feeds results back | |
| `Registry` | `registry.c`, `hook.c`, `is_entitled`, with clients in threads | `Stores` |
| `Runtime` | variables, list functions, packages | `Stores` |
| `Evaluator` | `evaluator.c`: expressions as the parser computes them | `Stores` |
| `Naql` | tokens, trees, the statements of NAQL in `parser.c` | `Stores` |
| `Program` | statements of Logex: `parser.c` and `ast_execute` | `Naql` |
| `MC...` | instances for TLC | |
| `...Proof` | theorems | the module, TLAPS |

Names are those of the code: a variable is a field or a global, an action is a
function. Three conventions hold throughout. An operation is one step and is the
whole function, with validation, every early return, rebuilding and save; only
where the code gives up a lock or waits is it split. A variable whose comment
begins with "history" is no part of the program: properties are stated with it. And a
definition whose name says what it does wrong (`remove_uid_from_group_forgotten`,
`save_groups_first`) is a faulty variant that no specification uses; PROJECT.json
pairs it with the property that refutes it.

### UserGroup

`users`, `groups` are `Ugmanager.users`, `.groups`; positions count from 1, with
0 for "not found". `userFile`, `groupFile` are the two files as sequences of
records; members are not on disk and are collected at a load (1236-1262). A
password hash is the password. The four indexes are functions, that is, the
contract of `hash.c`, which `hash.c` keeps only in part (section 5): what
follows for the manager from a lost key is not modelled (names are shorter than the
24 bytes that a key may have inline). A member array is a set, since the code tests
for presence before it appends and its order is never used; a user's group list is a
sequence since its first entry is the primary group.

An index update may find no memory (`UpdateMayStop`), between the entry of the name and
the one of the id, in an addition, in a rollback or in the rebuilding after a deletion.
`add_user` then takes back the count and the uid but not the entry of the name
(`add_user_unindexed`, 425-431; groups 575-581), which leads one past the end of the
array. What stands there is in `vacant_user` and `vacant_group`, and each call that
finds such a position does with it what the code does (`..._past_the_end`): a deletion of
the refused name takes the last account instead, a password can be changed that
belongs to nobody, and once another account is added at that position certification
accepts the refused name with its password. A rebuilding that stops leaves the indexes as
far as it came (`rebuild_user_indexes_stops`), and the deletion is not saved.

`SaveOutcomes` are the ways `save_User_group_manager` ends: done, no
temporary file, first rename failed, second rename failed. `add_user` and
`add_group` roll back when the save fails; the other five do not, and the model
follows: memory and disk then differ until the next save. A process that dies
between the renames is the outcome "group" and then `Stop`. `Stop` is the cleanup
(bitmaps stay, they belong to `getid.c`) or the end of the process (bitmaps go).
`incidents` records when promises end: "restart", since a load does not mark the
ids it reads; "nomem", since `add_user_to_group` can stop between its two sides;
"unindexed", since an index update has failed (`Indexed` is the time before).
`doc/usergroup.md` says the manager is not thread-safe, so calls do not interleave.
`certification` and `get_primary_gid_by_uid` are queries; `is_entitled` compares
a hook's owner and is in `Registry`.

### Queue and Netplug

Three threads: event loop, executor, response thread. A callback is one step,
except `on_connection`, split where it releases `pool_mutex`; the response thread
takes a step for each of testing the flag, waiting, validating the session (it
does so without `pool_mutex`) and writing. `Queue` has explicit sleepers: a
consumer sleeps, is woken by a signal or spuriously, and tests the list again.

libuv and the executor are external. Of libuv the model assumes what its manual
promises: a pending close callback comes before the next timer; after
`on_connection` returns without `uv_accept`, no further connection is
reported; `uv_write` on a handle goes to the socket the handle has now. The
executor takes a command, may authenticate its session, and answers it. When
`uv_tcp_init` fails the session is freed before `uv_accept`, so that the connection waits
and no further one is reported.
A packet that does not unpack is skipped and handling goes on (`Handles`); the model
allows it together with failing allocations (`MallocFails`), and a packet too short for a
command id has the same effect. When the command finds no memory, handling stops and the
session is closed. A buffer is the number of complete packets in it. Which sessions have been silent
too long is left open. `uv_write` is atomic. The shutdown is the sequence of
`netplug_shutdown` with the response thread running next to it. Left out: the
failure paths of `netplug_init`, the growth of a receive buffer,
`list_queue_try_dequeue` (no caller) and several executors.

### Table, Kvalot, HashTable, BlockList

Sequential: one operation, one step. In `Table`, memory that `malloc` leaves unset
holds `Junk`, and a failed growth is a stutter: arrays that had grown already are
not used beyond `capacity`. In `Kvalot` a resize may fail after any bucket,
and a removal may then index the old table with a stored bucket number of the larger one
(`kvalh.c:530`): another bucket is told that the last pair has moved, or memory past the
table is. The model takes that step and marks the store as `astray`; a bucket lists a
wrong position from then on, and of what follows only `kvalot_clear` is in the model.
In `HashTable` an entry keeps the length its key is stored under, since
`insert_entry` exchanges entries but not lengths. A key of 24 bytes fills the room for it
and its terminator clears the low byte of the value (`LowByteCleared`, `hash.c:74`); the
copy of a longer one may fail unnoticed (`Copied`, 77), which leaves an occupied entry without
a key, and of a table with such an entry (`keyless`) only `hash_clear` is followed, since the
others read the missing key. Its loops are functions: a search ends at
the least distance d where `EndsAt` holds, within one round because there is always an empty
slot (`ProbesEnd`), and an insertion is `loop[d]`, the table and the entry in hand after d slots.
In `BlockList` every split and merge is explicit, and a split may find no memory.

### Registry

Each client is a thread. What runs under `Reg.lock` is one step. A registration is
`HOOK_login` (a hook is made), `reg_register_hook` (the name is tested and the hook
added), and if it is refused `HOOK_logout`, `LogoutUnregisters` and
`RegisterFrees`, one step each, since the lock is not held between them; others
register, look up and unregister meanwhile. `hook_new_obj` tests two permissions in
two steps. `hooks` is the heap: a freed hook is not in its domain, and its address
may be used again. `registered`, `opened` and `made` are histories. The table of
hooks is a function, the contract of `hash.c`. A line of `hook_set_permission` is
unfinished (`hook.c:133`) and is taken as its neighbours are.

A consequence that no document rules out, and no property states: the undo of a
refused registration unregisters whoever holds the name by then. `registered`
counts that as an unregistration.

### Bignum and Bitmap

`acc` and `bm` are a number and a bitmap that operations are applied to again and
again, so that every form a result can have becomes an operand: numbers with zeros
left on top, a zero with a sign, bitmaps with bits beyond their length. A number is
the bytes of its storage with length, sign and place of the point, as in the struct,
and a result of an operation the set of what the call can return (empty when it
fails). Additions and subtractions are digit by digit, with the code's window of digits;
multiplication and division have no such window and use the value.

### Runtime

A value is a number or a sequence of addresses; `heap` maps allocated addresses to
numbers. `list_copy` copies addresses, so a variable, its copy and an argument
share elements, and `lpop` and `rpop` destroy an element that the variable
still holds. A statement may be an assignment, a `let`, a call, an import. Packages
register functions until a name is taken or the table is full.

### Evaluator, Naql, Program

A tree is drawn, written down as tokens and given to the model of the parser,
which must find the tree again or execute it properly. In `Evaluator` the tree is an
expression that grows by one operator per step; a value is the term that says how it
was computed, so two values are equal only if computed in the same way. `parse_level`
stands for eleven functions of the same shape, in the order of the calls;
`parse_power` and `parse_primary` are their own. In `Program` the tree is a statement
that grows by wrapping blocks; the result of a run is the sequence of assignments
and imports. A loop is followed for two rounds. Fields, conditions and values of
NAQL are expressions cut out of the token sequence as `parser_parse_expression_string`
does.

## 3. Runs

All runs finish within four minutes on two workers.

| run | instance | states | shows |
| --- | --- | --- | --- |
| `usergroup` | 2 names each, 1 common id each, 2 passwords, all faults | 196,084 | below |
| `usergroup_unloadable` | 1 step | | finding 1 |
| `usergroup_duplicate_uid` | | | finding 2 |
| `table` | 2 columns, 3 records, growth by 2 | 584,334 | below |
| `table_overwrite` | | | finding 3 |
| `netplug` | 2 clients, 2 sessions, 2 packets each, 1 per read, allocations fail | 2,360,751 | safety |
| `netplug_liveness` | 2 clients, 1 session | 233,597 | liveness |
| `netplug_misdelivered` | 1 session reused | | finding 4 |
| `netplug_abandoned` | | | finding 5 |
| `stores` | nine parts, one at work in each behaviour | 106,903 | below |
| `hash_lost_key` | two lengths of keys | | finding 6 |
| `list_elements_freed` | 2 variables, 2 elements | | finding 7 |

**usergroup.** The manager starts with the sample configuration (root in wheel).
All but two properties end at a failed index update, whose rollback is incomplete
(section 5); the model goes on, and the type invariant and the part of
`FailedAddLeavesNoTrace` about accounts and ids go on with it.
`IndexesExact`: the indexes are a rebuild from the arrays, also after failed saves
and deletions. `IdsAccounted`: until a restart the bitmaps hold the ids in use.
`MembershipConsistent`: a user lists a group exactly if the group lists the user,
and no deleted user is listed, although uids are used again.
`CertifiesExactly`: name and password decide, although the code goes from name to
uid to record. `GidsResolve`: every group of a user exists, in memory and on disk;
it rests on user.config being replaced before group.config, and on a group's
deletion leaving all users first. `RestartRestores`: after a successful
operation a restart gives back what is in memory, provided every user has a
group and no more than are read back. `FailedAddLeavesNoTrace`: wherever
an addition fails it takes nothing from accounts, groups and ids, and nothing from the
indexes either but for the failed update. `PrimaryGroupStable`: only leaving a group displaces the primary group.
`ImplementsDirectory`: until an incident every step is one of `Directory`.

*Bounds.* Two names of each kind let one record be deleted in front of
another, which shifts positions. One common id of each kind makes it run out at
once and be used again. `MaxGidTokens = 1` (32 in the code) lets the truncation
bite. One index update fails in a behaviour, as its first incident, and no save fails after
it: what the properties that go on say needs no second. `MaxUnsaved = 1` bounds saves that fail in a row: a second failure finds
files and memory differing, as the first leaves them.

**table.** Two columns and three records suffice for a removal in the middle, a
growth (by 2 instead of 100), a swap before a removal, and a column removed in
front of another. One value next to NULL tells records apart. `IndexesInvert`,
`NoUnsetCell` (no caller reads memory never written) and `ImplementsGrid` hold
as long as no insertion hits a row in use, which finding 3 shows to happen.

**netplug.** `PoolExact`: the stack holds every idle session once, although
`free_session` tests only that the stack is not full. `SidsDistinct`: live
sessions differ in id while ids last. `NoInheritedLogin`: a session starts
unauthenticated, although `reset_session` writes 0, which is root.
`EveryPacketOnce`: from the receive buffer through two queues and three threads
nothing is repeated or overtaken, or skipped but for packets that do not unpack or find no
memory. `NoSleepOverWork`: no wake-up is lost.
Two sessions and two clients let each client have a session and one slot pass
from one to the other. There are two session ids (65536 in the code), and an
earlier connection may have used one (`EarlierSids`), so that they run out: ids are
never given back. Clients
are interchangeable, so the safety run uses symmetry and the liveness run does not.

**netplug_liveness.** `CommandsLeave`: a queued command is answered, dropped with
its session, or the server goes down. `ShutdownCompletes`: once the flag is up,
the join ends, wherever the response thread is. One session is enough: what could
block is a thread or a queue. Fairness is weak, for the executor taking and
answering, the response thread, the callbacks that are due, and the steps of
`netplug_shutdown` after its flag: threads run, libuv runs callbacks, and the
function has no wait but the join. There is none for clients, logins or timers,
and nobody has to call `netplug_shutdown`. Deadlock is not checked: a server
that is down stops.

**stores.** One of nine parts is at work in each behaviour (`subject` in
`MCStores`); the others stay as they were created, and their properties hold
trivially there.

*Key-value store, hash table, block list.* The hashes are chosen so that three of
four keys share the last bucket, two of them also in larger tables, and walks wrap around.
`BucketsExact` and `KvalotImplementsMap` for the key-value store: through collisions, growth
and failed resizes, up to a removal that leads astray, and each call changes the entry of its
key and no other (`CallsDoAsTheirKeySays`, which `Map` alone would not say); `ProbesEnd` (a search always meets
an empty slot: the counters of occupied slots and tombstones never fall behind) and
`KeysKeptUntilReuse` for the hash table; `BlocksFit` and `ListImplementsDeque` for the
list: blocks do not overflow, `list_get_index` finds the element of each position, and each call
is the change of the sequence at the position it names (`CallsDoAsTheirPositionSays`). Blocks of 3 (instead of 4096) with merges below 2 (512), and five elements,
give two to three blocks, so that splits, merges and insertions at both ends of a
full block happen.

*Bitmap.* Bytes of 2 bits, words of 2 bytes, small bitmaps of 2 bytes, up to 9 bits:
a range crosses several bytes, a search several words, and a bitmap grows out of its
small form. `BitmapExact` compares every operation with its definition over
sets of positions, whatever stands in memory beyond the end. In the behaviours of the
other parts the bitmap is one that has lost its memory and the number has no digits, of
which `BitmapExact`, `WholeExact` and `ConversionsAgree` say nothing and `ScaledExact` what it
says of zero.

*Numbers.* Base 4, two places, five digits, one guard digit; the literals 0, 2, -1,
13, 0.2 and 1.01 and everything calculated from them up to three digits.
`WholeExact`: arithmetic and comparison of whole numbers. `ScaledExact`:
products and quotients are exact but for the places cut off, and so are comparisons and
sums of numbers of the forms that it names; the others are wrong (section 5).
`ConversionsAgree`: a text is read back as the number. A number may also be made a bitmap and
a number again (`Converts`), which is not the same number (section 5). Base 4
has carries and borrows over several digits with far smaller values than base 10.

*Registry.* A user and root of different groups, two hooks, one name, so that
registrations always compete. `RegisteredIsFound`, `HandlesLive`, `StrangersKeptOut`.

*Runtime.* Two variables, of which a package wants one as a constant, two list
elements, two packages that both want `abs`, three places for functions.
`FunctionsBacked`: a function belongs to a loaded package, and no name has two.
`StatementsChangeOneVariable`: a statement changes the variable it assigns to, those
that an import sets, and no other, until an element is popped.

*Expressions and statements.* All expressions of two binary operators, one of each
level of precedence, with signs and parentheses: two operators suffice for every
question of which binds first. `ExpressionsEvaluatedAsWritten`. All statements of
nesting two, with every kind of loop inside every other, and all forms of NAQL.
`StatementsParsedAsWritten`: a tree is found again from its text, unless it is one of
those that the parser misreads (section 5). `StatementsRunAsMeant`: a program has the effects and
the variables that it says, and an error exactly where it says, with every round of every loop.
Left out are programs that do something after an assignment or import: there a block or
loop ends in the code, since `eval_statement` returns 1 and 2 for these (section 5).

Values and hooks are interchangeable (symmetry); no liveness is checked in this run.

**list_elements_freed** starts as `stores` does and ends after `rpush` and `lpop`.

## 4. Proofs

Eight modules hold theorems. They assume only what the named `ASSUME`s say of the
constants: ids form a range with a first common id (`IdAssumption`), the initial
files can be loaded (`InitialAssumption`), `Malformed` is no valid input
(`ConstantAssumption`), the pool is not empty, earlier connections used session ids, and the markers differ from
clients, users and packets (`NetplugAssumption`), a table grows by at least one row and
`NULL` and `Junk` are no values (`TableAssumption`), bucket counts are positive
and hashes natural (`StoresAssumption`, `KvalotAssumption`), the keys of a hash table are
shorter than 256 bytes and its initial capacity is not 0 (`HashTableAssumption`), bytes have
bits, words have bytes and the bit strings of a script fit the longest bitmap (`BitmapAssumption`),
the base is at least 2, a number may have a digit, and the texts of a script have digits below
the base, which `bignum_from_string` requires (`BignumAssumption`), a block holds at least two
elements (`BlockListAssumption`), every user's primary
group is one of the user's groups (`RegistryAssumption`), and what a package registers is
a finite list (`RuntimeAssumption`). TLC evaluates each.

**UserGroupProof**, for every set of names, every number of ids, all initial files
and all faults: the type invariant, `IndexesExact`, `GidsResolve`,
`IdsAccounted`, `MembershipConsistent`, `CertifiesExactly`, `FailedAddLeavesNoTrace`,
`PrimaryGroupStable`, `RestartRestores` and the refinement of `Directory`. The inductive
invariant `IInv` is the conjunction of the
first five. None is inductive alone: an exact index is needed to know that a name
not found is new, accounted ids that a fresh uid is in nobody's list, resolved
references that a save cut in half leaves a loadable group behind each gid. There
is one lemma for each operation (`AddUserStep`, `DelUserStep`, ...) and, below it,
one step for each conjunct; `SaveEffect` says once what any save does to the
files, `Loading` what a load builds. `DownAfterRestart` (a process that is down
has been stopped) is carried along for the start.

- All but the types speak of the time in which index updates find their memory
  (`Indexed`), and the invariant holds in every step: `UnindexedStep` shows that the types
  survive each operation whatever the indexes say, past the end too, and `IncidentsStay` that
  the time before a failed update has no such step; in it `NothingPastTheEnd` says that a name
  leads into the array or nowhere.
- `CertificationIsExact` follows from the invariant; `FailedAddsLeaveNoTrace` needs it
  in addition to the shape of the step, to know that a rebuild gives what was there.
- `PrimaryGroupsAreStable` goes operation by operation: either each record stays at its
  place (`PrimaryKeptInPlace`) or one is cut out, and then names that are not shared say
  which record is which.
- `RestartsRestore` carries `SavedOrLoaded` along: after a success the files are the
  arrays, members aside. `SaveThenLoad` is the round trip, where the members that no file
  holds are found again since the two sides of the membership relation agree.
- `ManagerIsADirectory` maps records to names. It is stated for a `FreshInstall`, whose
  files use no id that the manager hands out, as the sample configuration does (root and
  wheel): the load marks no ids (finding 2), so otherwise two accounts may share one and
  no directory by name has that behaviour. The stopped process and the operation cut short
  for lack of memory end the refinement for the same reason as in the property.

**NetplugProof**, for every number of sessions, clients and packets: the type
invariant, `PoolExact`, `SidsDistinct`, `NoInheritedLogin`, `NoSleepOverWork`,
`EveryPacketOnce`.
The invariant has three parts for three groups of variables (sessions, queues,
threads), so that a step of one leaves the others alone. `PoolExact` needs that
the stack cannot be full when a live session is freed (`StackNotFull`, by counting).
`SidsDistinct` needs `Linked`: the ids of live sessions are marked in the
bitmap, and a client in a session has left the queue of connections, without
which a second slot could get the same socket. `NoSleepOverWork` needs that only
its owner sleeps on a queue: one signal is then enough.

`EveryPacketGoesOnce` has an invariant of its own, `TransitInv`, beside that one. `TheWay` is
the whole way of a message after the receive buffer in one sequence: the response in hand,
the response queue, the command being executed, the command queue. The `Ledger` has an account for
each open session (`Told`: answered and under way together are what `process_buffer` handled,
without what was lost; nothing is lost that was not handled yet; whatever is under way for the
client carries this session's number) and one for each client that is not connected yet
(`Untold`: nothing answered, nothing under way, nothing lost).
The last two conjuncts of `Told` are what makes the first inductive: the response thread tests the number
of the session a response came from, so it must be known that the packets of an open client
come from no other slot. `ControlInv` adds when a response may be in hand and that nobody
is connected once the loop has stopped. The steps are few kinds of change to the ledger
(`LedgerReads` appends at the end of the way what a read queues, and counts what it skips as lost, `LedgerSends` moves the front to the answered
packets, `LedgerDrops` takes it off when its session is gone, `LedgerLoses` when no memory is
found for it, `LedgerAccepts` opens an account), and `WayMoves` says
that dequeuing and enqueuing move a message along the way without changing it.

**TableProof**, for every number of columns, records, values and rows to grow by:
`TypeOK`, `IndexesInvert`, `NoUnsetCell`, and that the table implements `Grid`. The four
are proved together (`IInv`): `NoUnsetCell` needs inverse indexes to know that no two
visible records share a row, and the inverse needs the types. Two facts carry the proof:
`memory_index` undoes `logic_index` on the visible rows, so rows of different
records differ, and the capacity is a multiple of the growth that holds all records, so
`line_num` stays inside the arrays. The refinement takes the visible cells in logical order as
records; there is one lemma for each operation, and `NothingLeft` (a table that was freed has
neither records nor columns) is carried along for the step that frees it. The
hypothesis `~overwritten` in the properties is finding 3, at which
each of them ends.

**LogexProof** on `Runtime`, for every set of variables, addresses, numbers and packages and for
both kinds of `malloc`: `StatementsChangeOneVariable` and `FunctionsBacked`. A statement leaves
the other variables alone although they share elements, because an element that a
list holds stays allocated unless a pop has happened; that is the inductive invariant
(`ListsStayAllocated`), and finding 7 is what remains after a pop. For
the functions, `PackageBacked` goes along the list that a package registers, however many
of its names are refused.

**LogexProof** on `Registry`, for every set of users, groups, names, hook addresses and
permission settings, and any number of clients at once: `RegisteredIsFound`,
`HandlesLive` and `StrangersKeptOut`. The invariant has three parts. `Memory` says
that whatever anybody may know of (registered, in a handle, being used, used) is
allocated, and that a hook that is not registered yet is its maker's alone:
without the second the first is not inductive, since the maker may free it. `Names`
adds to `RegisteredIsFound` that the table leads to registered hooks of that name.
`Permissions` carries two facts from one step to a later one: a permission for others
that a hook has was opened by owner or root, and who has passed the first test
was let in at that time. There is one lemma for each action.

**StoresProof** on `Kvalot`, for every set of keys, hash function and sequence of sizes:
`BucketsExact`, and that the store implements `Map` (`StoreIsAMap`): initial
states map to initial states and each step to a step or a stutter, with `Contents` as
refinement mapping, and each call changes the entry of its key only (`CallsStep`). A resize is
shown to leave `Contents` alone, whether it ends or fails. What is in the buckets is right also
after a resize that failed, since only `hash_index` of the pairs was written (`FailedResize`); a
removal that relies on it ends the promise (`whole` in `Map`) until `kvalot_clear`.

**StoresProof** on `HashTable`, for every set of keys, hash function and size of a table:
`ProbesEnd` (`ProbesAlwaysEnd`), and `KeysKeptUntilReuse` (`KeysAreKept`) for keys of one
length, other than that of the inline room (whose values are spoilt, `hash.c:74`), while at most
127 slots are in use (`Few`).

- `HashInv`, the inductive invariant of the first, is `ProbesEnd` with the types of slots and
  counts. What has to be shown is how each operation changes the slots in use: `Insertion`
  goes along the loop of `insert_entry` and shows that every exchange leaves the states of
  all slots as they were, so that the whole loop takes exactly the vacant slot where it ends;
  `Reinsertion` goes along the loop of `hash_resize` and shows that the new table has as many
  entries and no tombstone. The equation of `size` holds exactly, while the deleted slots are
  only at most `tombstones`: a tombstone that is reused stays counted.
- `KeysInv` says of a table before any reuse that it is `Searchable` and tells what was
  promised. Searchable is the invariant of Robin Hood hashing: every entry is `Placed`, that is d
  steps from its home with only slots before it that a search passes, and there is one entry
  for a key. `psl` is not d: `hash_put` starts the insertion at the home with the distance at
  which the search has ended, so `psl` may be up to twice as far, and the invariant says d <=
  psl <= d + 127. An exchange puts an entry into the slot of one no farther from home, which
  hides nothing (`PassesKept`); the displaced one is placed one slot on (`MoveOn`). `Finds` shows
  that a search in such a table ends at the key and at no slot before. `FindsNothing` needs no
  order at all, only that the search ends.
- The hypotheses are what the code needs. With keys of two lengths finding 6 is a
  counterexample. A tombstone that is reused breaks the order (see the end of section 5). With
  more slots in use the 8-bit `psl` can wrap (`hash.c:280`): a distance of 127 at the search and
  as much again at the insertion is the most that fits. `FewInSmallTables` shows that the
  bound holds in every table of the initial 128 slots. A long key whose copy finds no memory
  ends the promise as a reused tombstone does, and `ProbesAlwaysEnd` goes on.

**NumbersProof** proves four theorems, about bitmaps and numbers. For every number of bits in a byte and bytes in a word, every size of the
small form, bitmaps of any bounded length and anything in memory behind them: `BitmapExact`.
`Represents(b, n, P)` says that b has n bits, of which those of the set P are 1, and that in the
last byte no bit behind them is 1; the inductive invariant is that some n and P are represented,
unless the memory was lost. It is needed because the bytes are what the operations work on: a bit left
behind the end would come into range when the bitmap grows. There is one lemma for each
operation (`GrownIs`, `SetIs`, `RangeIs`, `StreamIs`, `CombinedAre`, `NotIs`, `ShiftedAre`), which says
what it makes of P. The order of positions is that of byte and bit in it, and of word and place in it
(`Lexicographic`), which is why masks at both ends of a range are the range (`RangeIs`) and why the first
match of the first word that has one is the first match (`FindIs`); `WordIs` says that what stands behind
the bitmap is never looked at below its length.

For every base, every limit on digits, places and exponents, and all texts: `WholeExact`,
`ScaledExact` and `ConversionsAgree`. The inductive invariant `BignumInv` says only what every number is, however it
came about: its storage holds its digits, the first of several is not 0, and neither is the last
place after the point (`IsFormed`). It is needed because comparisons go by length and texts are
trimmed at both ends, and it has to survive every operation, also those whose results are
not right: each has a lemma that says so for all operands (`AddTrimmed`, ..., `PowTrimmed`,
`RereadTrimmed`), one that says what it makes of whole numbers (`AddExact`, ..., `PowExact`), and
one for numbers with places (`AddScaled`, `SubScaled`, `MulScaled`, `DivScaled`, `CompareScaled`).

- What a digit string says is a recursive function; it is reasoned about through the equations
  of `PowerIs` and `ReadIs` and by induction over the digits. `ReadBound` and `ReadTop` bound
  it by its length, `ReadOfDigits` says that the digits of a number read back are the
  number, `ReadLess` that the first different digit from the top decides.
- `TrimIs` goes with a number through the steps of `bignum_trim`: its value stays, and so
  does its sign unless it is zero.
- The sum of the columns below a place is the carry into it, times its place value, and the
  digits below (`SumReads`); with borrows it is the same with signs (`DifferenceReads`). So the window
  of the result loses nothing: the last carry and the last borrow are 0.
- A number brought to more places is itself with zeros behind (`Size`, `AlignedReads`), and sums
  of columns are sums of these sizes (`AddAbsSize`, `SubAbsSize`); whole numbers are the case
  of no places. `WindowHolds` is what these lemmas need to know of the operands (`WindowIs`).
- `LongerIsLarger` is why the comparison of lengths is right, `CompareAbsSize` why the comparison of
  digits is.
- What is kept of a product loses places and nothing else: `Worth(x, v, p, neg)` says that x is v if
  its point is p places before the end, `WithoutPlaces` divides v by a power of the base and takes as
  many places (`WithoutPlacesWorth`), and zeros that were trimmed count as cut (`ShortenedWorth`).
  That the limit on digits cuts what the property says follows from the number of digits of v
  (`CountOfWorth`, `KeptWorth`).
- A text shows every digit of a number, because none that bignum_to_string drops is one of it
  (`TextIs`); trimming what was read takes no place away, since the number would be a multiple of
  the base and its last place 0 (`LowestDigit`), and two numbers of usual form with the same value
  have the same length (`NotLonger`), so that the number comes back as it was (`ReadBackIs`).
- What a bitmap is turned into is a natural number (`DoubledNat`), so a number made a bitmap and
  a number again has the form that the invariant asks for (`ConvertedTrimmed`).
- Powers are the product over the bits of the exponent: after i rounds the square is
  `Power(base, Power(2, i))` and the result the power to the i lowest bits
  (`SquaresExact`, `NextBit`). A step that fails leaves no result and is no exception.

**BlockListProof**, for blocks of any size from 2, any limit for merging, any values and
an allocator that may fail: `BlocksFit`, and `ListImplementsDeque`, the refinement of the
abstract sequence with each call at its own position (`CallsKeepTheirPositions`), for every
operation with every split, merge and centring. An insertion is refused only inside a full
block (`Refused`). The
invariant `IInv` says that every block is typed, fits its array and is not empty, and that
`num` counts the elements. The argument: `Flat(chain)` is what a chain holds, and
concatenating chains concatenates what they hold (`FlatConcat`), so a chain is cut at block
b into what is before it, the block and what is after it (`Parts`, `Merged`,
`Divided`), and an insertion, a removal or an update inside the middle part of a
list of three parts is one of the whole list, shifted by the length of the first
(`InsertInside`, `RemoveInside`, `SetInside`). `LocateProperties` shows that `locate` always
finds a block, whose elements before it (`Offset`) and the offset add up to the position.
The bound `MaxLength` of the runs plays no part.

**ListsProof** holds the lemmas about array operations and about `Only` (it distributes
over appending and concatenation and keeps nothing that is not there). Where a fact goes along a sequence, it is proved by induction
over the naturals on a set (`UpTo`, `ByAppending`: a set of sequences that has the empty one
and is closed under appending is all of them), since the library's induction
theorems take an operator.

Only model-checked: everything about `Evaluator`, `Naql` and `Program`, and finite
instances of what is proved. Liveness under fairness (`CommandsLeave`, `ShutdownCompletes`)
is out of the prover's reach. So are the recursive operators of `Evaluator`, `Naql` and
`Program`, the parsers and the execution of trees (`ExpressionsEvaluatedAsWritten`,
`StatementsParsedAsWritten`, `StatementsRunAsMeant`).

## 5. Findings

Each is a run that must end in a violation of a property that a comment, a
document or the code itself states.

1. *A saved configuration cannot be loaded.* `add_user` saves a user without
   groups, and the loader refuses an empty group field (`usergroup.c:1137`),
   while `doc/usergroup.md` promises persistence of every modification.
2. *Ids are used twice after a restart.* A load does not mark the ids it reads as
   allocated (`usergroup.c:1169`); the loader refuses the files that result.
3. *An insertion overwrites a visible record.* `add_record` takes physical row
   `line_num` for free (`tblh.c:127`); after an exchange and a removal it is not,
   since `rm_record` moves the last logical row, not the last physical one (154).
4. *An answer reaches another client.* The response thread validates a session and
   writes to it later, without the lock; the slot can change hands
   (`netplug.c:740`).
5. *Packets wait for a read that does not come.* After ten packets the rest stays in
   the buffer; the client, waiting for answers, is closed for silence
   (`netplug.c:642`).
6. *A key is lost.* `insert_entry` exchanges entries but keeps the length of the
   first key (`hash.c:164`), so a displaced key of another length is not found.

7. *A list keeps an element that was freed.* `lpop` and `rpop` destroy the element
   that they take off a copy of the list (`builtin.c:105`); the variable's list has the
   same address. The calls that `README.md:81-89` shows in a row read it.

Seen while modelling, without a run of their own: the models have these behaviours, and
the properties say where they end.

- *A refused account* (`usergroup.c:425-431, 575-581`). When an index update finds no
  memory, the rollback leaves the entry of the name, which leads to the position of the next
  account: that account's password then opens the refused name (815-826), and deleting
  the refused name before takes the last account and leaves its uid allocated.
- *A removal after a failed resize* (`kvalh.c:525-536`) tells the wrong bucket, or memory past
  the table, that a pair has moved.
- *Keys of 24 bytes* (`hash.c:74`): the terminator is written into the low byte of the value,
  so `hash_get` returns another pointer. A longer key whose copy finds no memory stays as an
  entry without a key (77).
- *Numbers of different places* (`bignum.c:245-272, 320-362`). The length of the whole
  part decides a comparison; 0 has one digit and 0.5 has none, so 0 counts as larger and
  0 - 0.2 is 0.8. Further places are looked for at the wrong end: 1.01 equals 1.013, and
  1.01 - 1.013 is 0.997. A difference has as many digits as the minuend: 12 - 0.5 is
  1.5. And 12 + 0.05 is 0.05 (277-279 compare lengths as unsigned numbers).
- *Zeros* (`bignum.c:206-242`): -5 + 5 keeps its sign and is not equal to 0; 0.0 has no
  digits, so a division by it gives characters that are no digits, and a remainder by
  it never ends.
- *Bits* (`bignum.c:1395-1493`): `num(bmp(n))` has the bits of n reversed, so that
  `num(bmp(6))` is 3; `doc/BUILTIN_FUNCTIONS.md:138, 169 and 265-267` presents the two as
  inverses, with 255, which reads the same both ways. `bset` takes a negative offset (`builtin.c:281`).
- *Statements* (`ast.c:749`): a block or loop stops at its first assignment or import
  and reports success, so that a loop like that of `README.md:273-276` makes one round. A `while` inside a block ends the block (`parser.c:423`); a comma
  in a call ends the expression (61); SET, GET and DEL of stores, lists and bitmaps are
  parsed as those of tables, and `GET ... WHERE` never parses; an unknown token in a
  block adds empty statements for ever; a `for` with step zero does not end.
- *The first session* has id 0, which `auth_session` refuses (`netplug.c:708`).

`KeysKeptUntilReuse` also marks a limit of `hash.c`: once an insertion ended in a
tombstone, a search may stop at the new entry before it reaches a key with a
longer way from home (`hash.c:129`).

## 6. What the models leave out

Bytes, formatting, logging, statistics, capacities of arrays (where not a
property), copies of whole structures, column types and lookup by column name.
Of the user manager: a second failing index update, one after a restart or a half-made
membership, and two threads calling it.
Of the network front: see section 2. Of the registry: `reg_destroy`, and objects, which
the code never makes. Of the runtime: strings, lists in lists, failing libraries. Of
the front end: the lexer, strings and calls inside expressions, expressions of more
than a comparison in statements. The parts not modelled at all, with the reasons, are
at the end of section 1. The hazards in `PROJECT.json` that no property covers say why.

## 7. Plan

Done, in this order: user manager with allocator (the only persistent state and the
one that decides who may do what), table engine, network front with queues, storage
structures; then numbers and bitmaps, hooks and registry with its proofs, the
runtime, expressions and statements of Logex; then the proofs of table, runtime, the way
of packets, the directory, the block list, the hash table, the bitmap, numbers with and without places and conversions.

Next, most important first:

1. *Proofs*: what a hash table keeps after a tombstone was reused; the parsers of `Evaluator` and
   `Program` written as recursive functions, so that what they do can be stated for every input.
2. *Links between models*: `Queue`'s list refined by `BlockList`; `Netplug`'s
   `Login` refined by `certification`; the manager's indexes by `HashTable`.
3. *Bytecode*: once compiler and machine agree with the rest of the tree,
   `Machine` composed with `Program`: running the compiled tree has the effects of
   the execution of the tree.
4. *Framing*: once `unpacking` compiles, `find_packet_boundary` over a stream cut at
   any place, as what `Netplug` counts.

Each run keeps its bounds small enough for minutes; a run that two questions can share
is shared.
