# TLA+ models of the RPM5 JavaScript binding test scripts

The repository (`src/js/tscripts/*.js`) holds acceptance scripts that drive
native bindings: a Berkeley-DB style transactional store (`Db.js`), digest
contexts (`Dc.js`), a Bloom filter (`Bf.js`), file I/O (`Io.js`), stat
(`St.js`), system calls (`Sys.js`), SELinux context and policy (`Sx.js`,
`Sp.js`), and the RPM header / transaction-set layer (`Hdr.js`, `Ts.js`).
The engines themselves are not in the repository; `spec.md` reconstructs the
contract of the store that the scripts presuppose. The models here take the
*call sequences* from the scripts (the client side, mapped to script lines)
and the *engine semantics* from the spec (marked `spec_modelled` in
`PROJECT.json`), and check that the two fit together.

## Inventory

### Components and their state

| Component | Source | State | Operations used by the scripts |
|---|---|---|---|
| Environment | Db.js 405-416, 1016 | home, subsystem flags, open stores and transactions | `Dbe.open`, `close`, `txn_begin` |
| Primary store | Db.js 239-343, 345-402, 906-999 | records (key, value), access method, open flags, handle open/closed | `open`, `put` (overwrite, `DB_NOOVERWRITE`, `DB_APPEND`), `get`, `exists`, `del`, `sync`, `close`, `upgrade`, `verify` |
| Cursor | Db.js 289-295, 945-962 | position (unpositioned / on a record), open/closed, owning transaction | `get` (`DB_SET`, `DB_NEXT`), `put` (`DB_KEYLAST`), `count`, `del`, `close` |
| Secondary index / association | Db.js 281-284, 498-544, 546-663, 860-862 | association table primary -> secondaries; foreign relation with policy | `associate`, `associate_foreign` (`DB_FOREIGN_ABORT`), implicit maintenance on primary `put`/`del`, `del` through a secondary |
| Cursor join | Db.js 306-307, 585-613, 871-896 | N cursors each positioned on a secondary key | `join(c1..cN)`, `get`, `close` |
| Transaction manager and lock table | Db.js 933-989 | per transaction: active/committed/aborted, buffered writes, locks held; lock table; waits-for graph | `txn_begin`, `commit`, `abort`, blocking lock waits, deadlock victim |
| Bloom filter | Bf.js | bit vector of m bits, k hash functions | `add`, `chk`, `union`, `del`, `clr` |
| Digest context | Dc.js | algorithm, parameters, absorbed bytes | call, `init`, `update`, `fini` |
| Header / iterator / ts | Hdr.js, Ts.js | iterator instance, element list | iterate, attribute reads, `add` |
| I/O, stat, syscalls | Io.js, St.js, Sys.js | file position, digest, file system | `fopen`/`fread`/`fwrite`/`fseek`, `stat`, `mkdir`/`link`/`rename`/`unlink` |
| Security context | Sx.js, Sp.js | process and file contexts | attribute reads/writes, path lookup |

### How they interact

The scripts are single-threaded clients. Everything else is shared state in
the environment home `./rpmdb`: committed records persist across script runs
(stores are opened with `DB_CREATE`, never truncated), while associations are
per-handle and exist only after `associate` runs in this process. A primary
`put`/`del` synchronously updates every associated secondary inside the same
transaction (spec 4.5); a delete of a key referenced through a foreign
relation is subject to its policy. Transactions interact only through the
lock table (spec 5): blocking waits, and a deadlock detector that fails one
member of a waits-for cycle with `DeadlockOrBusy` (spec 4.6). The scripts
never look at a result beyond `ack()` printing a mismatch, so after any
failure they carry on with the next line.

### What is hard

* Several script instances may share one home (spec 5): their transactions
  interleave, cursor read locks are upgraded to write locks (`dbc.del()` at
  Db.js:961) and two such upgrades deadlock.
* A script instance can die at any line and be run again over the records it
  already committed; the WORDS section has explicit cleanup (Db.js:520-525)
  for this, the transaction section relies on its own order.
* The association invariant (every primary record has its secondary entry
  and nothing else is in the secondary) must survive backfill, appends,
  deletes through the secondary (Db.js:538) and foreign-key aborts
  (Db.js:655).
* Handles are used after being closed (Db.js:445 closes `H.db`, Db.js:906
  onwards uses it again).
* A Bloom filter `del` after `union` (Bf.js:41-43) clears bits another
  member may share.

### Properties that make each component correct

* Transactions and locks: no two open
  transactions buffer writes to one key (no lost update); a positioned
  cursor's record is not changed under it; every instance runs to the end
  (deadlocks are resolved); the script's acks fail only when another
  instance disturbs the run, never through crashes and reruns alone.
* Association: secondary = derived image of the primary after every step;
  a foreign-key abort leaves both stores as before; backfill is idempotent.
* Handles: no operation on a closed handle; no handle open when the
  environment closes; cursors closed before their transaction ends.
* Join: the join yields exactly the intersection, in ascending order.
* Bloom filter: no false negatives for members that were added and not
  deleted.

## Plan

Modules in order of importance, with their status:

1. **TxnStore** (done): transaction manager, lock table and deadlock
   detection, driven by the transaction section of Db.js by one or more
   script instances, with crashes and reruns. `MCTxnStore` instantiates it.
2. **Assoc** (done): primary, secondary and foreign stores driven by the
   WORDS and GROUPS sections across reruns and crashes. `MCAssoc`
   instantiates it.
3. **Handles** (done): the handle life cycle of the whole enabled Db.js.
4. **Sys** (done): the Sys.js system calls on /tmp across reruns and crashes.
5. **Dc** (done): every digest context of Dc.js against one keyed digest.
6. **AtomicStore** (done): the store's promise to transactions; TxnStore
   is shown to implement it by INSTANCE ... WITH.
7. **Bf** (done): the Bf.js sequence over every assignment of hash
   positions; `del` after `union` (Bf.js:41-43) against "no false
   negatives".
8. **Join**: the merge-intersect join as a RECURSIVE operator checked
   against set intersection; the FILES/DEPS flag decoding
   `ops[(F >> 1) & 0x7]`. Both sections are disabled (`if (0)`).
9. **Io** (done): open/write/read/seek on /tmp/io.file with digests of
   the bytes moved, over reruns and crashes. St.js's two stat snapshots
   are not modelled (see "Not modelled").

The project keeps at most twelve runs, so a later module either shares a
question with an existing run or replaces the weakest one. Two earlier
violation runs were dropped for the Bloom filter runs, and the GN backfill
violation run for the Io run; what they showed is kept in the text below.
The single-instance TxnStore rerun run became the property `SoloAcks` of
`txn_concurrent`.

Properties that only restate a guard of the model, or that a mutant could
break only by lifting a model bound, are not checked: the lock-table
invariant `LockCompat` (it repeated the grant rule `GrantX`), the GN
inclusion `GroupsIndexed` (the backfill adds all of G's image whatever the
script does), `NoFalseNegative` under disjoint hashes (every membership it
states is acked by a later `chk`), and the type invariant of Handles. A run
of two TxnStore instances against `ScriptAcks` was dropped too: the test is
written for exclusive use of `./rpmdb`, and `SoloAcks` states what holds
when a second instance shares it.

## Modules and runs

### TxnStore (`TxnStore.tla`, `MCTxnStore.tla`)

State: `data` (committed records of `H.db`), `wbuf` (per-client buffered
writes), `txn` (none / active / doomed), `cursor` (closed / unpositioned / on
a key), `xlock` and `slock` (the lock table: write owner and cursor readers
per key), `pc` (index of the next script line), `ackFailed` (lines whose ack
saw an unexpected value), `crashes`.

`Script` is the transaction section of Db.js, one record per line that calls
the engine, with the value its `ack()` expects. Each kind of line is one
action (`Begin`, `Put`, `Read`, `Del`, `OpenCursor`, `CursorSet`,
`CursorPut`, `CursorCount`, `CursorDel`, `CursorClose`, `Commit`, `Abort`);
a line whose lock is not grantable is simply not enabled (the client blocks).
`DetectDeadlock` fails one member of a waits-for cycle, releases its locks
and marks its transaction doomed; `Crash` kills an instance, discards its
transaction and reruns it from the top over the committed records.

`disturbed` is a history variable, in the way of the auxiliary variables
of the TLA+ examples. It exists only to state `SoloAcks`. `Commit(d)` sets
it for every other instance that is mid-script when `d` changes the
committed record. `DetectDeadlock` sets it for the victim, and `Crash`
clears it for the instance that reruns. Every failed ack records whether
its run was disturbed.

Runs:

* `txn_concurrent` (pass): two instances, one crash. `TypeOK` (a DB_SET
  that leaves the cursor on the data item instead of the key breaks it),
  `CursorStability`, `SoloAcks`, the liveness property `AllFinish`, and the
  refinement `AtomicCommit` (below). `SoloAcks`: an ack fails only in a run
  the other instance disturbed. Crashes and reruns alone never break one,
  because the first transaction puts and deletes `foo` before the `DB_SET`
  at 948 expects it absent. Waiting on the other instance's locks never
  breaks one either. Deadlock checking is off because the script really ends;
  a stuck lock wait shows up as a violation of `AllFinish`.

Refinement. `AtomicStore.tla` is what the store promises a client (spec
4.6, 5, 7). It holds the committed `data` and each client's `pending`
writes. `Write` requires that no other client has a pending write to the
key, `Commit` applies all pending writes in one step, and `Discard` drops
them. `TxnStore` instantiates it with `pending <- wbuf` and `Values <- Value`,
and `AtomicCommit == KV!Spec` is a property of `txn_concurrent`. Every
concrete step must be an abstract `Write`, `Commit`, `Discard` or a stutter.
Locking, reads, cursors and the deadlock detector must therefore never let
two instances' buffered writes to `foo` coexist. Commit must apply them all
at once, and a crash, abort or deadlock failure must leave `data` alone.
This property replaces the earlier invariant `ExclusiveWriter`, which it
implies. A write lock granted over another transaction's write lock breaks
it.

The script commits after a `DeadlockOrBusy` instead of aborting (spec 4.6).
In this script a victim only ever holds cursor read locks and has no
buffered writes, because the grant rule `GrantX` keeps a write lock and
another client's cursor read lock apart. The refinement holds across these
commits.

Bounds: one key (the script uses only `foo`), two instances (enough for
every pairwise waits-for cycle; the cycle needs exactly two cursors),
one crash (a crash at each line of each transaction is reachable, and
`SoloAcks` then covers a rerun beside a second instance).

Fairness: weak fairness on each instance's steps (a process that is not
blocked is eventually scheduled) and on the deadlock detector (spec 4.6:
a cycle is always detected). Db.js:406 configures no lock detector, so
this rests on the engine of spec 4.6, not on the script. Weak fairness suffices for lock waits because
each script is finite: a waiting instance's lock becomes continuously
available once the holder ends its transaction.


Note: TxnStore models the transaction section as it is meant to run, on an
open store. In the script the store is `H.db`, which was closed at Db.js:445;
Handles (below) shows that every one of those calls is on a closed handle.

### Assoc (`Assoc.tla`, `MCAssoc.tla`)

The WORDS (Db.js:498-544) and GROUPS (623-663) sections over the association
engine of spec 4.5. State: `prim` (W and G, sequences indexed by record
number with `Hole` for deleted numbers), `sec` (X and GN as bags of
<<secondary key, record number>>, so GN's duplicates count), `assoc` (the
associations of the current run: handle state, lost at a crash or close),
`foreign` (GF registered on GN), `pc` (the script line), `gkey` (the key of
the fill loop at 634), `ackFailed`, `runs`, `crashes`.

One action per script line that calls the engine (`CleanupWords`,
`WordsAssociate`, `WordsAppend`, `WordsDelete`, `WordsClose`, `GroupsFill`,
`GroupsAssociate`, `GroupsForeign`, `GroupsAppend`, `GroupsAppendBad`,
`GroupsDelete`, `GroupsClose`). Each is one auto-commit call, so it is
atomic and durable. `associate` with flags 0 backfills (spec 4.5). An append
to a primary is refused as a whole with KeyExists when an associated
secondary without duplicates already has the key. A delete through a
secondary removes the primary records and every secondary entry for them.
`Crash` ends a run between any two lines; `Rerun` starts the next run over
the stored records.

Runs (`MCAssoc` supplies a one-word words file and the groups file
`<<GA, Amusements/Games>>`):

* `assoc_reruns` (pass): three runs, up to two crashes. It checks
  `IndexWords` (while associated, X is exactly the image of W) and
  `NoDangling` (no entry of an associated secondary points at a deleted or
  changed primary record). These hold across crashes at every line.
  `TypeOK` types a secondary entry as <<value, record number>>; a put that
  passes key and data in swapped order (Db.js:312-313) breaks it.
* `assoc_acks` (violation): `ScriptAcks` over two runs with one crash. The
  append of `Illegal` at 655 succeeds under spec 4.5, because the spec gives
  foreign-key policies only for deletes. After a crash between 528 and 538,
  the cleanup at 522-525 asks `W.exists('wdj')` of a record-number store
  and cannot remove the leftover record. The next run's append at 528 then
  fails.

GN is filled by hand (634-637) and then associated with flags 0 (644),
which spec 4.5 says backfills, so GN holds each group twice. An earlier
violation run showed this; it was retired because the script may well be
written for Berkeley DB's associate, which backfills only with
DB_CREATE, so the disagreement is with the spec's wording rather than with
the code. Either way GN is never emptied, so each rerun adds every group
again; nothing in the script counts GN's entries, and no property states a
bound. `assoc_acks`'s failure at 528 rests on the same flags-0 backfill; the
failure of the cleanup at 524 to see the record does not.

Bounds: one word and two groups are enough for every distinct outcome of
these lines. A second word only repeats the first. Three runs with two
crashes reach a crash at every line after an earlier crash.

### Handles (`Handles.tla`)

The life cycle of every handle of the enabled Db.js: the environment; the
stores H, Q, B, R, W, X, G, GF, GN and D; the transaction; and the cursor.
`Script` is Db.js as a sequence of handle events, each with the lines it
stands for. `status` maps each handle to none, new, open, failed, closed or
gone. `calledClosed` and `calledUnopened` record lines that call a handle
that is not open. Actions: `New`, `Open` (which may fail, up to
`MaxFailures` times; a store cannot open without an open environment), `Use`,
`Close`, `Begin`, `End`, `Cursor`, `Verify`. The script never checks an
open: `new BDB(...)` discards `db.open`'s result (Db.js:342), and `ack()`
only prints.

* `handles_failures` (pass): any two opens fail. `NoHandleWithoutEnv`: no
  store, transaction or cursor is open while the environment is not, in
  particular after `dbenv.close` (1016).
* `handles_dead` (violation): `NoCallOnDeadHandle`. One failed open is
  enough for the script to call a handle that never opened (the shortest
  case: `dbenv.home` at 415). With every open succeeding, `var db = H.db`
  (906) takes the handle closed at 445, uses it through the transaction
  section, and closes it again at 999.

### Sys (`Sys.tla`)

Sys.js's system calls on its fixed /tmp paths. `dir` maps each path to
nothing, a directory, a file (an inode number) or a symbolic link (a target
path). `perm` holds each inode's permission bits. `creat` applies the
umask 0022 with `&` from Bitwise, and keeps the mode of an existing file.
Each calling line is an action (`Access`, `Mkdir`, `Rmdir`, `Creat`, `Stat`
for stat and lstat, `Chmod`, `Link`, `Symlink`, `Readlink`, `Rename`,
`Unlink`). Each compares its result with the `ack()`/`nack()` of that
line. /tmp outlives the process, so `Crash` and `Rerun` keep `dir` and
`perm`.

* `sys_crash` (pass): three runs, two crashes. `LeavesNoTrace`: a run that
  reaches its end leaves none of its paths, whatever earlier dead runs
  left. This holds because `unlink` removes the symbolic link itself, and
  the unlinks at 90-93 cover every name the script creates. `Rename`
  follows POSIX where lfn and rfn are already hard links to one inode
  (after a crash between 88 and 92): it does nothing, lfn stays, and the
  nack at 91 then fails.
* `sys_rerun_acks` (violation): `ScriptAcks`. A run that dies after
  `mkdir`, `chmod`, `link` or `symlink` makes the next run's acks at 42-43,
  54 and 81-82 fail; unlike Db.js, Sys.js does not clean up first.

### Dc (`Dc.tla`)

Every one of the 100 digest contexts of Dc.js. `Script` is the script as a
table (`Blocks1`..`Blocks7`, one row per context). Each row holds the
algorithm, the constructor's parameters, the message and digest of the
call form, and the message and digest of update/fini. The CUBEHASH rows
also have the re-init and two calls. A digest value is written as its
first 8 hex digits and its width. `ctx` holds the algorithm, parameters and
absorbed bytes. The actions are `New`, `Call` (one-shot with the context's
parameters), `InitCtx` (resets parameters and bytes), `Attr`, `Update` and
`Fini`.

The algorithms are the external digest service of spec.md and are not
computed. The model checks instead that the script's expectations fit one
digest function. `kat` records the digest the first line expects for each
key, and a later line expecting a different one for the same key could
never pass.

* `dc_kat` (pass): with the key (algorithm, parameters, bytes),
  `KATConsistent` holds over all 813 steps. An `init` that keeps the old
  parameters when none are given breaks it, and one that leaves them
  undefined breaks `TypeOK`.
* With `ParamsMatter = FALSE`, spec.md's `digest(algorithmId, bytes)`,
  `KATConsistent` fails. That interface has no parameters, and the CUBEHASH
  contexts expect two digests of the empty string (453 with 0x0801 and 461
  without). This was an earlier run and is no longer checked.
  It is a gap in the spec rather than in the script.

Luffa-224's expected digests are prefixes of Luffa-256's. This is
Luffa-224's definition (truncation), so the widths keep the two apart.

### Bf (`Bf.tla`)

The Bloom filters of Bf.js. `bits[f]` holds the set bits of filter f.
`hash[x]` holds the positions the k hash functions select for the
script's strings. It is fixed for the run and chosen at Init over every
assignment in a 4-bit space, where at most 2 positions are selected per
string. `members[f]` is what the script believes f holds. The actions are
`New`, `Add` (sets the item's bits), `Chk` (all of its bits set), `Union`
(or), `Del` (clears the item's bits) and `Clr`. The hash algorithm is
external; only the positions it selects matter to the acks.

* `bf_disjoint` (pass): when the three strings hash to pairwise disjoint
  bits, every ack of Bf.js holds; a del that clears the whole filter
  breaks it. This run cannot reach the false positive and false negative
  of shared bits, which `bf_overlap` shows.
* `bf_overlap` (violation): when 'foo' and 'bar' share a bit,
  `c.del('foo')` at 41 clears it, and 'bar', still a member of c, reads as
  absent (the ack at 43). With the script's m = 3072 and k = 8, about 2%
  of hash pairs share a bit. The ack holds only by the particular hash
  values.

Bounds: 4 bits and up to 2 positions per item give every relation
between two items' positions: disjoint, overlapping, subset and equal.

### Io (`Io.tla`)

Io.js drives one `GPSEE.Io` handle on `/tmp/io.file`: open for writing,
write 'yadda yadda' through a digest, close; open for reading, read through
a digest, close; open through stdio ('r.fpio'), seek to 5, tell, rewind,
tell, read, close. The file outlives the process, and the handle does not.
The file only ever receives yadda at offset 0, so `fileLen` (or `Absent`)
is its content. A read returns the byte range `<<from, to>>` of yadda it
covers. A digest is the sequence of ranges absorbed since `digestinit`; its
hex string is a function of those bytes, so the acked md5 is the range
`<<0, 11>>`. `fds` is the set of descriptors above 2 that the process holds,
and `Open` takes the lowest free one, as open(2) does. Actions: `Close`
(`io()`), `Open`, `ReadFlags`, `DigestInit`, `NDigests`, `DigestFini`,
`Fwrite`, `Fread`, `Attr` (fflush, fstat, fchown, ferror on an open handle),
`Fileno`, `Fseek`, `Ftell`, `Rewind`, plus `Rerun` and `Crash` (the process
dies at any line; its descriptors go and the file stays). The acks of
binding constants (path, mode, cpioPos, contentType and the like) are left
out.

* `io_reruns` (pass): three runs, up to two crashes, starting from any
  length of leftover file. `ScriptAcks` holds: the reads at 57 and 87 return
  exactly yadda, the digests at 36 and 62 cover exactly the bytes that
  passed, and fileno is 3 at 35, 61 and 91. `TypeOK` bounds the file at 11
  bytes. A 'w' that appends instead of truncating breaks `TypeOK` in the
  second run. A rewind that leaves the offset at 5 breaks `ScriptAcks`
  at 87.

Unlike Sys.js, Io.js is safe to rerun after a crash: the 'w' open
truncates whatever a dead run left. Two runs at once are not safe, because
one run's truncation can fall between the other's write and read. This is
listed as a hazard and not checked.

Bounds: three runs with two crashes reach a crash at every line after an
earlier crash. The initial file lengths 0..11 and Absent cover every file a
run of this script can leave.

## Fairness

Only TxnStore states a liveness property. Its fairness is argued above. The
other modules check safety only: each models one single-threaded script,
and nothing there waits on another actor.

## Not modelled

See `PROJECT.json` "components":

* The record codec and buffer manager have no code here.
* Digest algorithms, OS calls, security contexts and the RPM header layer
  are external services that the scripts only probe with single calls. The
  Dc, Sys and Handles models abstract these services to what the acks
  compare.
* St.js stats '.', '/' and 'file:///' and compares the two snapshots of
  '/' field by field. It changes no state. Its only hazard is another
  process touching '/' between the two stats (the 'grrr' at St.js:55),
  which is outside the script.
* The disabled FILES/DEPS sections of Db.js (cursor join) are still
  planned.
