# joinFS in TLA+

joinFS is a FUSE file system that keeps extended attributes of files in an SQLite database
and shows directories whose contents are the answer to a query on those attributes. This
directory holds TLA+ models of the parts of it where something can go wrong that a test
would hardly show: threads that race, calls that fail half way, a process that dies between
two steps, and caches that nobody tells of a change. Paths below are relative to the
repository's `src/`.

- Specifications: `JobQueue`, `ThreadPool`, `WriteStore`, `WriteConnection`, `JfsDatabase`,
  `Metadata`, `FileOps`, `Hierarchy`, `DynamicPaths`, `DirQuery`, `DirListing`
- Instances for TLC: `MC_*.tla` with the `.cfg` files
- Proofs for TLAPS: `ThreadPoolProofs`, `WriteConnectionProofs`, `JfsDatabaseProofs`,
  `MetadataProofs`, `FileOpsProofs`, `HierarchyProofs`, `DynamicPathsProofs`,
  `DirListingProofs`
- `PROJECT.json`: components, runs, mutations of the model that each property must detect,
  the lines behind every definition, hazards, findings and theorems

To repeat a check: `tlc -workers 2 -config pool_safety.cfg MC_ThreadPool`, and
`tlapm ThreadPoolProofs.tla`.

## 1. Inventory

A request arrives in a FUSE thread (`joinfs.c`), which puts the directory joinFS is mounted
over in front of the path and calls one of the components. What a component has to know of
the database it asks for with a `jfs_db_op`, which it hands to one of two thread pools and
waits for. Everything in memory (caches, hierarchy, pools) is gone with the process;
`joinfs.db` and the underlying file system stay.

| Component (files) | State | Operations | Hard behaviour | Correct means |
|---|---|---|---|---|
| Database thread pool (`thr_pool.c`) | job queue, active list, idle and thread counters, flags | queue, wait, destroy; worker threads that linger | threads, lost and spurious wake-ups, time-outs, cancellation, failed threads and connections | counters agree with threads; each job performed once, in order, and never stranded; wait and destroy end, and free nothing in use |
| Database operations (`sqlitedb.c`) | the operation's mutex, condition and `done`; the connection's transaction | create, wait, destroy, `jfs_query` | any SQLite call fails, the process dies inside a transaction | several statements are all in the database or none; an answer is kept |
| Query results (`result.c`) | none of its own | one function per kind of query | a query fails after some of its rows | rows become the right results, all or none |
| Schema (`joinfs.sql`) | tables `links`, `keys`, `metadata` | - | foreign keys are declared and not enforced | metadata belongs to a file |
| Extended attributes (`jfs_meta.c`) | none of its own | setxattr, getxattr, listxattr, removexattr | database and caches change in separate steps, in several threads | an answer is the attribute the file has |
| Metadata cache (`jfs_meta_cache.c`) | values by path and keyid | look up, add, remove | add has two critical sections; told of attributes only, not of files | no entry is outdated |
| Key cache (`jfs_key_cache.c`) | keyid by key | look up, add | two threads introduce a key | one keyid for a key |
| Files and names (`jfs_file.c`) | underlying tree, `links`, `metadata` | create, mknod, link, symlink, unlink, rename, open, truncate ... | tree and database change one after the other; either step fails; death in between | tree and `links` name the same paths; metadata follows its file |
| Directories (`jfs_dir.c`) | as above | mkdir, rmdir, opendir, readdir | rmdir of a directory that is not empty; listing while others look up | as above; what is listed is found |
| Dynamic hierarchy (`jfs_dynamic_paths.c`) | tree of folders and files under `path_lock` | add folder or file, look up, invalidate, unlink | duplicates, listings inside listings, `strtok` under a shared lock | a listed path resolves to what was listed there |
| Datapath cache (`jfs_datapath_cache.c`) | datapath by `jfs_id` | look up, miss, add, remove | as the metadata cache; nobody tells it of static renames | an entry is the file's path |
| Directory queries (`jfs_dir_query.c`) | the position of `strtok`, shared with the hierarchy | build the query of a dynamic folder | errors half way; strings cut by several threads at once, under no lock | selects what the attributes say |
| Path resolution (`jfs_util.c`) | none of its own | realpath, datapath, keyid | meaning of return codes | one name, one file; one key, one keyid |
| FUSE entry points (`joinfs.c`) | the two pools, the context | init, destroy, one handler per call | order of shutdown | nothing accepted is lost |
| Permissions (`jfs_security.c`) | none | access, chmod, chown | - | - |
| Error log (`error_log.c`) | a file under a mutex | log a message | cancelled while it holds the mutex | - |
| Result lists (`jfs_list.c`), containers (`sglib.h`) | - | - | vendored macros and their instances | - |
| nullFS, tests | - | - | not part of the system | - |

How they interact:

- Requests and pool workers share the pool (one mutex, two conditions) and the operation
  (one mutex, one condition). The write pool has one worker, which makes all writes
  sequential; the read pool has several.
- `jfs_meta.c` writes to the database first and to the cache afterwards. The caches are
  keyed by path and keyid, or by `jfs_id`, and only the component that owns them changes
  them.
- `jfs_file.c` and `jfs_dir.c` change the database first when something goes away and the
  tree first when something is made.
- `jfs_dir.c` fills the hierarchy and the datapath cache as it lists a dynamic folder;
  `jfs_file.c` reads them to resolve a dynamic path and changes them when a listed file is
  unlinked or renamed.
- FUSE holds its tree lock exclusively while a file is unlinked, removed or renamed, and
  shared otherwise; the kernel holds a directory's lock while it is listed or changed. These
  are the only order there is between requests.

## 2. Plan

In order of importance. All but the last are written; what they leave is said in section 7.

1. `JobQueue`, then `ThreadPool` which implements it: everything else waits for the pool.
2. `WriteConnection`: what a transaction is worth when calls fail.
3. `JfsDatabase`: the tables as operators, shared by 4, 5 and 6.
4. `Metadata`: attributes, keys and their caches under concurrent requests.
5. `FileOps`: names in the tree and in `links`, with failures.
6. `Hierarchy` and, on top of it and of `JfsDatabase`, `DynamicPaths`.
7. `WriteStore`, which `WriteConnection` implements: each write as a whole or not at all.
8. `DirQuery`, what a folder selects, as operators on the tables beside a definition by what
   the attributes say; and `DirListing`, the composition of building and answering a query
   with lookups and additions in the hierarchy, where all of them use `strtok`.
9. Memory exhaustion inside the caches.

Theorems, in the order worth proving:

1. Done: types, accounting, `FreedSafe` and `UntimedFit` of the pool; types, `AllOrNothing`,
   `FailedLeavesNothing` and `DurableUntilAbandoned` of the write connection, and that it
   implements `WriteStore`.
2. Done: `ExactlyOnce`, `NoStrandedJob` (without faults), `DrainComplete`, and that
   `ThreadPool` implements `JobQueue`.
3. Done: every invariant of `Metadata`.
4. Done: `Agreement`, `MetadataOwned` and `RenamePreserves` of `FileOps`, on lemmas about the
   operators of `JfsDatabase`.
5. Done: `CacheCurrent` and `CacheBounded` of `DynamicPaths`.
6. Done: types, the lock, `LookupRight`, `AddedFound`, `OthersStayFound` and `ListingRight` of
   `DirListing`, on lemmas about the tree (`HierarchyProofs`).
7. Done: types and `ListedFound` of `DynamicPaths`, on what each operation on the tree changes
   of what is found at other paths.

No module has a recursive operator; the one recursion is a function (`Way` of `Hierarchy`).

## 3. The models

### ThreadPool and JobQueue

`ThreadPool` has the request threads (`Queue`, `QueueFails`, `WaitOp`), the worker threads
and the main thread (`PoolWait`, `Destroy`, `DestroyResume`, `Free`). A critical section of
`pool_mutex` is one step. That is what the code allows: a worker leaves the mutex at a
condition wait, while it performs a job, and before it opens its connection.

A worker goes `open` (opens its connection), then through the two nested loops of
`worker_thread`: at the inner loop it sleeps, takes a job or ends (`Dispatch`); it sleeps in
`wait` or, in excess of `pool_minimum`, in `timedwait`, from where it is `woken` or
`timedout`; with a job it is `taken` (linked in `pool_active`), `perform` (holds the mutex
of the operation), `cleanup`. A cancelled worker goes from the query to `unwind`, where its
cleanup handlers run. `Broadcast` is what the main thread hears of it.

| Variable | In the code |
|---|---|
| `head` | `pool_head .. pool_tail` |
| `active`, `idle`, `nthreads`, `flags` | `pool_active`, `pool_idle`, `pool_nthreads`, `pool_flags` |
| `pc`, `job`, `cancelled` | where a worker is, its `db_op`, a pending `pthread_cancel` |
| `orphaned` | operations whose mutex was locked when their worker was cancelled |
| `done`, `client` | `db_op->done` and the thread in `jfs_db_op_wait` |
| `main`, `asleep` | the thread in `jfs_pool_wait` or `jfs_pool_destroy` |

`Threads` are the workers that run. One that could not open its connection is not among them
(`pc` is `failed`), as its thread has returned; `pool_nthreads` goes on counting it.

`Faults` says which calls may fail: the allocation of a job, the creation of a thread, the
opening of a connection. A failed allocation leaves a request waiting for an operation that
nobody has, since its callers do not look at the result of `jfs_pool_queue`.

Left out: the list of all pools, which is linked and never read; `pool_linger == 0`, which
no caller passes; the branch of `worker_cleanup` that creates another worker, which runs
when a worker is cancelled in a pool that goes on, and workers are only cancelled by
`jfs_pool_destroy`. Identities of ended threads are used again. Nobody queues to a pool
that is being destroyed, as FUSE calls `jfs_destroy` when the requests are over; requests
may still come while it is drained, as they do in `tests/jfs_pool_test.c`.

`JobQueue` says what a caller may rely on, without threads: a job is accepted or refused,
started once and in order of arrival, finished after it was started, and given up only when
the pool is being destroyed. `ThreadPool` is shown to implement it under

    submitted <- operations a request has handed over     pending  <- head
    running   <- operations in a worker's hand            finished <- operations done
    stopping  <- POOL_DESTROY

### WriteConnection and WriteStore

`jfs_query` on the only connection that writes: `Take` an operation, `Begin`, run the
statements, `Commit`, `Reply`. Every step has its failures. The outcome of each is what SQLite
documents: outside a transaction a statement is committed by itself, `BEGIN` inside one is
refused, a failed statement is rolled back by the code when it belongs to a multi-write, and
`OR ROLLBACK` ends whatever transaction it is in. Nobody looks at the result of that rollback
(`sqlitedb.c:445`), which may fail and leave the transaction open. A statement that does not
*prepare* returns at once, without a rollback; so does a failed `COMMIT`. `Reconnect` is an
unmount or the death of the process: the open transaction is rolled back. (It is the death of
the process and not a power failure: the database runs with `synchronous = OFF`.)

`committed` and `pending` hold statements `<<operation, i>>`; `abandoned` is a history of
the operations that returned with their transaction open.

`WriteStore` is what is left of this for a requester, without statements and transactions: an
operation takes effect in one step (`Perform`), at most once and not after it was answered; a
success is reported (`Acknowledge`) of one that took effect, or while the store is `adrift`,
when what it takes is gone; an error (`Refuse`) only of one that did not. `WriteConnection` is
shown to implement it under

    stored  <- operations all of whose statements are in committed
    outcome <- result
    adrift  <- LeftOpen, a transaction that no operation is going to commit

### JfsDatabase

The three tables as one value `db` and each SQL statement as an operator on it: `AddLink`,
`DeleteFile`, `RenameFile`, `AddKey`, `SetMeta` and so on, and `Can...` for those that a
constraint may refuse. The foreign keys of the schema are not enforced, as no `PRAGMA`
turns them on. An ignored `INSERT` uses up a keyid in SQLite and not here: keyids are
compared and never counted.

### Metadata

The four attribute operations, step by step, in concurrent threads: `jfs_util_get_keyid`
(`LookupKey`, `InsertKey`, `SelectKey`, `CacheKey`), the operation on the database, and then
the cache. A query is one step, because the write pool performs one at a time and a reader
sees committed data; a critical section of a cache lock is one step. Adding to the cache is
two (`Uncache`, `Cache`), as in `jfs_meta_cache_add`. Entries are kept as a list for each
path and keyid, newest first, as sglib's hash table has them: the first found hides the rest.

`Access` says which attributes each thread works on. The kernel's inode locks, which keep
two setxattr of one file apart, are not assumed, so there are more interleavings than the
kernel produces. `PrepareErrors` are the positive result codes of SQLite for a statement that
does not prepare; only those that are somebody's keyid matter. One of those follows when a
key contains a double quote, which ends the string literal in the query.

### FileOps

One operation at a time on an underlying `tree` and the database `db`: `Request`, then `Make`
and `Enter` for what is created, `Store` and `Remove` or `RenameTree` for what goes away. At
each step the operation can fail instead; the same step stands for the death of the process,
which leaves tree and database as they are to the next mount. After an error but `EEXIST`
`jfs_file_create` opens a second time, without `O_EXCL` (`jfs_file.c:592`): when that succeeds
there is a file and no row (`MakeUnentered`). `Allowed` is what the kernel asks of a file
system once it has looked paths up. FUSE's tree lock and the kernel's directory locks are why
operations do not overlap.

`astray` is a history: it names the paths on which tree and database were left to differ, and
each action that adds to it is one way joinFS has to do so. An operation that goes through
takes its own paths out again (`Settle`), but those it leaves astray itself. `Agreement` then
says that there is no other way, and that a path once astray is right again after it was
removed, renamed over or away, or entered. `jfs_mknod` hands on the path it gets from FUSE
where the other handlers put the mounted directory in front (`joinfs.c:347`), and so does
`jfs_chown`; FileOps models `jfs_file_mknod` for the path it is given.

### Hierarchy and DynamicPaths

`Hierarchy` is the tree of `jfs_dynamic_paths.c` as a value: two sets of nodes with their
place in a list. `jfs_dynamic_hierarchy_add_folder` and `_add_file` add in front without a
look whether the name is there, so a name may be there more than once: `nth` counts, and
the highest is found. What a path leads to is said without a walk: the node whose address has
the names of the path and is the first of its name everywhere (`FolderAt`, `FileAt`);
`DirListing` has the walk.

`DynamicPaths` lists and resolves in concurrent threads. `List`, `InvalidateFolder`,
`AddListed`, `Query`, one `FolderRow` or `FileRow` after the other, `Listed` is
`jfs_dir_db_filler`; `Resolve`, `Lookup`, `Read`, `Uncache`, `Cache` is
`jfs_dynamic_path_resolution` with a hit or a miss of the datapath cache. The cache is
written in the two critical sections of `jfs_datapath_cache_add`. Unlink and rename, by the
file's own path (`...Static`) or by one it is listed at (`...Dynamic`), happen under FUSE's
exclusive lock and are single steps, with everything they do to hierarchy, cache, database and
disk in the order of the code. `Remount` empties what is in memory.

`disk` are the paths with a file, `db.links` those with a row. Unlink and rename commit their
transaction first (`Erase`, `Store`), then the system call may fail, and leaves the file where
it was without its row. It always fails when a file from elsewhere is renamed to a new name in
a folder that is only listed: `jfs_file_rename` takes a name that resolves to nothing as it is
(`jfs_file.c:366`), so that the row moves to the dynamic path, and `rename(2)` finds no
directory there. `Places` are the paths in a directory on the disk, `MayName` is what the
kernel asks of a new name. A target is dynamic when it is listed, or lies in the folder of a
dynamic source (`ToDynamic`), which `Targets` puts beside the file. A rename from one dynamic
name of a file to another of the same file deletes its row and is among these steps.

The real directory of a folder (`Datapath`) is the listed directory with `.jfs_sub_query` for
each value on the way down, so `/top/.jfs_sub_query/.jfs_sub_query` two values down
(`jfs_dir.c:278`).

What a query selects is any set of files or values, since attributes may change at any time.
A path is cut into names in one step (see `DirListing` for the rest). The search in a
`.jfs_sub_query` folder in `jfs_util.c` looks up a path that ends in a slash, which is never
there, and is left out; so are functions nobody calls (`jfs_dynamic_hierarchy_rename`,
`jfs_dynamic_hierarchy_rmdir`, `jfs_datapath_cache_log`).

Three histories keep the properties honest: `shown`, what a listing promised; `disturbed`,
listings with another around them at the same time, and those of files with one of folders
inside them (`Disturbs`); `stale`, each `jfs_id` whose row went or moved while a datapath of it
was cached, until it is not cached any more. What a folder hides when it is added or made at
the path of a file is taken out of `shown`.

### DirQuery and DirListing

A directory has a query when it has the attribute `_jfs_dir_key_pairs`, a list like
`k=genre;v=jazz;k=album;`. Whether it lists values or files, and how many folders of its path
it takes into account, are two more attributes. `DirQuery` has the directories with a query as
the function `Query` and the SELECTs of `jfs_dir_query.c` as operators on the tables
(`SelectFiles`, `SelectValues`, joined terms as `SelectedIds`). Beside them it says what a user
expects of a listing, from the attributes alone (`Expected`): the files that have every key and
value asked for, in this folder and in those around it that it takes into account. A folder of
the path is a name; what the code has in front of the first of them is left out.

`DirListing` is the code, item by item, in concurrent threads:

| Actions | In the code |
|---|---|
| `StartList`, `Gather`, `FoundAround`, `Gathered` | `jfs_dir_query_builder`, the first loop of `jfs_dir_create_query` with `jfs_util_get_datapath` |
| `StartParse`, `NextParse` (`Parse`) | `jfs_dir_parse_key_pairs` |
| `Parsed`, `RunQuery` | the second loop, and the outer query |
| `ReadRow`, `LastRow` | `jfs_do_readdir_op` |
| `EnterWalk`, `NextWalk` (`Visit`), `Resolve` | `jfs_dynamic_hierarchy_get_node`, `jfs_dynamic_path_resolution` |
| `CutAhead`, `EnterWay`, `NextWay` (`AddItem`) | `jfs_dynamic_hierarchy_add_folder` and `_add_file` |
| `Fails` | no memory, an attribute or a row that cannot be read |

A call of `strtok` and what is done with its item is one step. Its position is the variable
`cursor`: whose string, what is left of it, and whether that was freed. `Following` is what a
thread gets from it that asks for the next item of its own: the next of whatever string was cut
last, all of the rest when that has other separators, or, after `free`, anything (bound: one
item, from `Leftover`). The last name of a path is told by its address, so it is last for the
thread only whose path it is of (`IsLast`). `path_lock` is where threads are: readers in `walk`
and `found`, the writer in `way`. Writers cut the first name before they have it (`lock`), and
query strings are cut without it.

The tables are not a variable: a query sees one snapshot, and since other requests change files
and attributes all the while, `RunQuery` takes any tables in `Tables`. Those have a file to
every row, which is what `NoOrphanRows` and `MetadataOwned` establish of the modules that change
them. Invalidating a folder before it is listed and adding what was listed are in
`DynamicPaths`; here adding is a request by itself.

`mixed` is a history: the threads that had another call of `strtok` come between two of theirs,
and the listings that take their pairs from a folder such a thread has put in a wrong place. It
is exact, so that `ListingRight`, `LookupRight`, `AddedFound` and `OthersStayFound` say what
holds of everybody else, among them threads that run beside such a thread, in a hierarchy it
has misplaced nodes in.

When the pairs of the first folder around cannot be had, `jfs_dir_query.c:361` frees as many
pointers as there are folders around, none of which was set. What follows is undefined;
`TakePairs` has an error there, as it has for the others.

## 4. Runs

| Run | Instance | Distinct states | Shows |
|---|---|---|---|
| `pool_safety` | 3 workers, 1..3 threads, 3 operations, threads and connections may fail | 38,245 | `Accounting`, `ExactlyOnce`, `FreedSafe`, `UntimedFit`, `DrainComplete`, `ImplementsJobQueue` |
| `pool_liveness` | 2 workers, 1..2 threads, 2 operations, fair | 9,634 | `NoStrandedJob`, `Served`, `Drains`, `DestroyEnds`, `Shrinks` |
| `pool_open_fails` | the write pool: 1 worker whose connection may not open | violated | `Served` does not hold (finding 1) |
| `write_faults` | rename (3 statements), unlink, rmdir (2 each), two single writes | 187,798 | `AllOrNothing`, `FailedLeavesNothing`, `DurableUntilAbandoned`, `ImplementsWriteStore` |
| `write_durable` | the same | violated | `Durable` does not hold (finding 2) |
| `meta_shared` | 2 threads, 3 paths (one private, two that files come and go at), 1 key, 2 values | 732,823 | `KeyidOfKey`, `NoOrphanRows`, `CacheBounded`, `PrivateCached`, `PrivateCurrent` |
| `meta_keys` | 2 threads, 2 keys, statements that fail or do not prepare | 823,190 | `KeysAgree` |
| `meta_stale` | 1 thread, 2 paths | violated | `AlwaysCurrent` does not hold (finding 3) |
| `meta_unprepared` | 1 thread, 2 keys | violated | `KeyidOfKey` does not hold without prepared statements (finding 4) |
| `files_agree` | 2 directories with a file name in each, 2 inodes, 2 keys | 655,330 | `Agreement`, `MetadataOwned`, `RenamePreserves` |
| `dynamic_listing` | 2 threads, a folder of folders in a folder of folders and a folder of files in that, 2 names, 1 file | 263,494 | `ListedFound`, `CacheCurrent`, `CacheBounded` |
| `dir_queries` | 1 thread that lists any of 7 folders (3 malformed), 1 that resolves and adds, 2 files, 2 keys, 2 values | 300,455 | `ListingRight`, `LookupRight`, `AddedFound`, `OthersStayFound` |

Each passing module has its `TypeOK` in one of the runs. Every property that holds comes with
a mutation of a definition of the model, in `PROJECT.json`, that makes the same run fail.

### Bounds, and why they are enough

- **Pool.** Three workers are the fewest with one sleeping for ever, one in excess and one
  busy; as many operations as workers let each have one, and the queue fill up when threads
  cannot be created. Symmetry is used for safety only, where workers and operations are
  interchangeable.
- **Write connection.** Each operation is performed once. An open transaction needs one
  operation that leaves it and one or two that find it; the instance has five of all kinds.
- **Metadata.** Two threads are enough for each race between two critical sections. Three
  paths give a private path, one to rename from and one to rename to; two files (`MaxId`)
  a file and its successor at a path; two values, the old and the new.
- **Files.** Two directories with a file in each are the smallest tree in which a directory
  with something in it is renamed onto an empty one, a file is moved between directories,
  a directory is refused removal and two names are linked to one file. Two rows of `links`
  (`MaxId`) are two files with metadata; more files exist than rows, as files may be left
  without.
- **Dynamic folders.** `MaxCopies` bounds how often a folder is listed before its parent is
  listed or the file system is mounted again, since every listing leaves one more node; with
  two, the second hides the first. A value two levels below the directory with the query is the
  least depth at which appending one `.jfs_sub_query` to the path of the folder is wrong. One
  file at a time (`MaxId`), whose name may be either of two, is enough to be shown, hidden and
  gone, to be renamed to a name the folder has or does not have, and over a file that an earlier
  rename has left without a row. `Access` lets one thread list the files and the other the
  folders around them, so that each listing has the other around it or inside it; the second
  also resolves, which is how two threads come to cache one file.
- **Queries.** The folders are the shapes the code tells apart: values, values inside values,
  files inside those, files by a key, a value and another key, and one for each error. Two
  files, two keys and two values are the fewest of which a term selects one and another the
  other. Two threads are enough to have each other's string; they are one of each kind
  (`Listers`, `Walkers`), which leaves out two listings in each other's string, where the same
  steps meet. `MaxNodes` lets two nodes be added to the three of the listed folders: a second
  node of a name, a file that a folder hides, or a folder on the way and a file in it.

## 5. Fairness

Only `ThreadPool` has liveness properties. `FairSpec` assumes

- that each worker's next step, each linger timeout and each turn of `jfs_db_op_wait` is taken
  if it stays possible: threads are scheduled, clocks advance, a query ends;
- that the main thread, once inside `jfs_pool_wait` or `jfs_pool_destroy`, goes on when awake;
- that spurious wake-ups stop at some time. Each restarts the linger timeout, so with no end
  of them a pool would never shrink, and nothing in the code prevents it.

Nobody has to queue an operation, to wait for the pool or to destroy it. Only weak fairness is
used: mutexes are part of the steps, and a step is never disabled for ever by others taking a
mutex again and again, since each such turn moves an operation or a worker on.

`DestroyEnds` leaves out a pool that still has jobs queued, because then it does not end:
`jfs_pool_destroy` sleeps on `pool_waitcv` while a worker is active (`thr_pool.c:464`), and
`notify_waiters` is only reached with an empty queue. joinFS drains the write pool first, and
no request is under way when it destroys the read pool.

## 6. Proofs

For every value of the constants that the assumption of the module allows (`PoolAssumption`,
`WriteAssumption`, `MetadataAssumption`, `FileAssumption`, `DynamicAssumption`,
`ListingAssumption` and `TablesAssumption`):

| Module | Theorem | States |
|---|---|---|
| `ThreadPoolProofs` | `TypeCorrect` | `Spec => []TypeOK` |
| | `AccountingHolds` | `Spec => []Accounting` |
| | `FreedSafely` | `Spec => []FreedSafe` |
| | `UntimedFits` | `Spec => []UntimedFit` |
| | `PerformedOnce` | `Spec => []ExactlyOnce` |
| | `DrainsCompletely` | `Spec => DrainComplete`, if there is memory for the jobs |
| | `JobsAttended` | `Spec => []NoStrandedJob`, if threads and connections do not fail |
| | `PoolImplements` | `Spec => ImplementsJobQueue` |
| `WriteConnectionProofs` | `TypeCorrect` | `Spec => []TypeOK` |
| | `TransactionsAtomic` | `Spec => []AllOrNothing` |
| | `FailuresHarmless` | `Spec => []FailedLeavesNothing` |
| | `AcknowledgedKept` | `Spec => []DurableUntilAbandoned` |
| | `ConnectionImplements` | `Spec => ImplementsWriteStore` |
| `MetadataProofs` | `MetadataTypes` | `Spec => []TypeOK` |
| | `RowsHaveFiles` | `Spec => []NoOrphanRows` |
| | `KeysAreKnown` | `Spec => []KeysAgree` |
| | `KeyidIsOfKey` | `Spec => []KeyidOfKey`, if statements prepare |
| | `CacheIsBounded` | `Spec => []CacheBounded` |
| | `PrivateIsCached` | `Spec => []PrivateCached` |
| | `PrivateIsCurrent` | `Spec => []PrivateCurrent` |
| `FileOpsProofs` | `FilesTypes` | `Spec => []TypeOK` |
| | `MetadataHasOwner` | `Spec => []MetadataOwned` |
| | `FilesAgree` | `Spec => []Agreement` |
| | `RenameKeepsMetadata` | `Spec => RenamePreserves` |
| `DynamicPathsProofs` | `PathsTypes` | `Spec => []TypeOK` |
| | `CacheIsBounded` | `Spec => []CacheBounded` |
| | `CacheIsCurrent` | `Spec => []CacheCurrent` |
| | `ListedIsFound` | `Spec => []ListedFound` |
| `DirListingProofs` | `ListingTypes` | `Spec => []TypeOK` |
| | `LookupIsRight` | `Spec => []LookupRight` |
| | `AddedIsFound` | `Spec => AddedFound` |
| | `NoneIsHidden` | `Spec => OthersStayFound` |
| | `ListingIsRight` | `Spec => []ListingRight` |

The hypotheses are the exceptions of section 7: a request whose job cannot be allocated waits
in a drained pool, a worker that cannot open its connection strands what is queued, and a
statement that does not prepare gives a keyid that is none (runs `pool_open_fails` and
`meta_unprepared`). The assumptions on constants are finiteness where something is counted,
that paths are not empty and have the paths above them (`FileAssumption`), that a folder that
is listed has a query made of keys and values (`ListingAssumption`), that markers are no values,
that paths are sequences of names and a folder selects folders or files but not both
(`DynamicAssumption`), and of the tables a query may find what the proofs about `Metadata`
and `FileOps` give: every row has a file and no two files one `jfs_id` (`TablesAssumption`).

**Pool.** The inductive invariant is `Books == TypeOK /\ Accounting /\ HandsOK`. `Accounting`
says that `pool_nthreads` is the number of threads until a worker cannot open its connection,
and never less than that number, nor more than the maximum, afterwards. It
is not inductive by itself: that a worker which leaves the query had a job, and one at the
inner loop has none, is `HandsOK`. Most steps move one worker from one situation to another,
so the core is `CountMove`, on how the number of workers in a set of situations changes when
one moves, and `MovePc`, which applies it to all three counters. `BooksDispatch` then covers
sleeping, taking a job and leaving once for the five places they happen at. `FreedSafe` needs
`Emptied` (the pool is only freed after `pool_nthreads` was 0, and no thread is made then),
from which the counters give that no worker is left. `UntimedFit` needs that a request only
creates a thread when nobody is idle, and a worker in `wait` is counted as idle.

**Jobs.** `Effect` says what a step does to the jobs and nothing else: hands one over, takes
the first one into a hand, completes, loses or gives up the one in a hand. Each step of the
pool is one of these (`StepEffect`), given `StopAgrees`: only a pool being destroyed cancels.
`ExactlyOnce` is then inductive together with `Fresh`, that an operation nobody handed over has
no result. `DrainComplete` rests
on `OwedStep`: an operation handed over and not done is queued or in a hand, which is false for
a request without memory. `NoStrandedJob` is inductive with `Accounting` only: a worker that
goes to sleep sees an empty queue, and a request that finds none to wake makes one. The
refinement follows from `Effect`, as each of its cases is an action of `JobQueue` or a stutter
(`EffectImplements`).

**Write connection.** The inductive invariant is `Inv == TypeOK /\ AtWork /\ OwnTransaction /\
OnlyPerformed /\ AllOrNothing /\ Kept`. `AllOrNothing` rests on `OwnTransaction`: a
transaction in use holds exactly the statements of its operation so far, so that COMMIT adds
all of one operation and nothing of another, which `WholeAdded` shows to preserve it. It is
`BEGIN` being refused inside a transaction that makes this true after one was left open.
`FailedLeavesNothing` follows from `OnlyPerformed`, `DurableUntilAbandoned` from `Kept`.

`ConnectionImplements` needs one fact more, `Answered`: a success about to be reported is in the
database or inside an open transaction. `TakesEffect` says which two steps are `Perform`, COMMIT
and a single statement outside a transaction, and `StoredAdded` that they store one operation
and no other; any step that leaves database and results alone is `Drift` or `Mend` whatever it
does to the transaction (`OnlyDrifts`).

**Tables.** `Sound` is the invariant of the schema that SQLite does not keep for us: `jfs_id`s
and keyids below the next ones, none given to two, a row of metadata only for a file in `links`
and at most one for a file and key. `JfsDatabaseProofs` shows for each statement what it does
to each column, and that it keeps `Sound`. For
`RenameFile` with a target that is the order of its three statements: the attributes change
hands, then the row of the target goes, then its path is taken.

**Metadata.** `Typed` is `TypeOK`, `Sound` and `Stage`, which says what a thread knows where it
is. `KeysAgree` needs that a pair on its way into the key cache is in the table (`PairsKnown`),
and that nothing changes a row of `keys`. `CacheBounded` needs to count the threads between
the two critical sections of an addition as well (`Bounded`): each has taken out an entry, if
there was one, for the one it is going to add. `PrivateCached` is inductive in the form
`Follows`, which says for each place of the one thread that uses the path how cache and table
differ there; steps of the other threads leave both alone, by `MetaFrame` and `EntriesFrame`.

**Files.** `MovedBelow` and `MovedBack` say that moving a tree keeps what is above what and that
there is one way back, from which `TreeMovedTyped` gets that nothing is left without its
directory. `Agreement` is not inductive: between the two halves of an operation tree and
database differ on its path. `Agreeing` says how, for each half (`HalfDone`), and that they
agree elsewhere but on `astray`, of which an operation that goes through takes out no path but
one it has made right itself (`Settle`); a rename moves both in the same way (`RenamedAgrees`).

**Datapath cache.** `InHand` says that what a thread has read and not yet put in the cache, and
each row it has still to handle, is the path of its file in `links`: unlinks and renames run
alone, so no thread has anything in hand then. `CacheBounded` counts entries and threads
that are about to add one, as in `Metadata`. `CacheCurrent` is kept by each step that adds
what is in hand, and `StaticEffect`, `UnlinkDynamicEffect` and `RenameDynamicEffect` say for the
steps that change `links` which entries stay right, which are replaced and which are
`Outdated`, that is, added to `stale`.

**Hierarchy.** `Shape` says that the nodes of a name in a list are numbered from one up without
gaps (`Numbered`) and that every list hangs in folders that are there (`Hung`). A node is only
added in front, so `Shape` is kept, and the way to the list that gets it stays the way
(`WayKept`). `SameWay` says that there is one way for a path: two
addresses of first folders with the same names are the same, as far as both go. Hence what a
walk finds at the last name is what `FolderAt` and `FileAt` say (`FoundHere`), and a walk that
finds no folder on the way has been right to stop (`NoWayOn`). The induction along a path is by
`Least`, the least number with a property, since the provers cannot instantiate an induction
theorem; so is that the recursion of `Way` has a solution (`WayExists`), from which
`WayLeads` gets what the way is, and `AddFolderShape` and `AddFileShape` that folders made on
it keep the shape.

**What is listed.** A lookup finds the first node of a name, so a file can be hidden by another
of its name, or by a folder. The invariant `Views` therefore speaks of all the files that stand
at a path (`Standing`), whether found or hidden: at the path of a file that was shown there is
no folder, every file standing there was shown, one of them is that file, and no two have one
`jfs_id` (`Found`). Then whichever is first has been shown. In a folder that is being listed,
and that nothing disturbs, stands nothing but what was shown, and no row still to come
(`Mine`); this needs that a query selects a file once, hence that no two paths in `links` have
one `jfs_id` (`FilesSound`, from `Sound`). `Overlaps` says that listings around one another are
in `disturbed`, `Fresh` that below a folder just emptied is nothing shown yet, so a folder
added in front hides nothing that was promised. A rename to a dynamic name makes no folder
over a shown file, because the folders on its way are there already: they lead to the file
renamed or to the one replaced (`AboveTarget`, by `WayThere`). The lemmas about the tree say for
each operation which files stand and which folders are found at any other path
(`AddFolderEffect`, `AddFileEffect`, `InvalidateEffect`, `RemoveFileEffect`): a new first
folder hides what is below its path and nothing else (`InFrontEffect`), a folder made on the
way hides nothing (`MadeEffect`).

**Lookups and additions.** `Types` is inductive by itself: whatever `strtok` gives a thread is
an item of the right kind or a foreign name, so tree and lock are in order however threads mix
each other up. `Walks` says of the others where they are: the cursor is in their string, as
many items have been cut of it as the address they have come to is long (`Left`), and that
address is on the way of their path (`OnWay`). It is kept because whoever calls `strtok` puts
all who were about to go on into `mixed` (`OthersKept`), because the tree does not change while
somebody reads it, and because `NextItem` says that a cursor of one's own gives the next item.
`OthersStayFound` is about each step of an addition: a folder put in front of the others hides
what is below the first of its name, which is the path being added or a folder on its way
(`InFrontHides`), and a folder is only made on the way where none was, so nothing was found
below it (`MadeHides`); `AddItemHides` has the two for the items `strtok` gives.

**Listings.** `Answers` says for each place of a listing what it has: the lists of pairs of
the folders around, innermost first, then its own (`ListAt`); the terms of the lists that have
been parsed (`TermsUpTo`), and of the one being parsed those of the items cut so far but for a
key whose value may be still to come (`CutOK`, `PendingAsked`). When the query runs its terms are
then those of all the lists. `QueryFinds` is about the tables only: that the SELECTs with these
terms find what the attributes say (`Expected`). It needs `TablesAssumption`, since the query
joins on `jfs_id`, and that asking for a key besides asking for its value changes nothing
(`AroundFits`).

Only checked by TLC: the liveness properties, which need fairness and are out of the prover's
reach, as what is enabled is. Every invariant and every action property of a passing run is
proved, those with faults under the hypotheses above.

## 7. What the models found, and what is left

### Findings

1. `thr_pool.c:183`: a worker that cannot open its connection stays counted. In the write
   pool nobody ever performs another write, and requests wait for ever.
2. `sqlitedb.c:438` and `:451`: a transaction that is left open makes every later rename,
   unlink and rmdir fail, while single writes are acknowledged and lost at the unmount.
3. `jfs_file.c:191`: the metadata cache is not told that a file is gone, and answers for the
   next file at that path.
4. `jfs_util.c:264`: an SQLite code is taken for a keyid.

More defects are in the models as exceptions to properties (below) rather than as runs of
their own:

- `jfs_dir.c:136`: a directory that rmdir refuses to remove, because it is not empty, has lost
  its row and metadata (`ApplyFails` in `FileOps` leaves it in `astray`).
- `jfs_file.c:389`: after a rename to a dynamic name that name is cached with the path the file
  had before, where there is no file, or another one (`stale` in `DynamicPaths`).
- `jfs_file.c:367`: a rename to a new name in a folder that is only listed fails, but its
  transaction is committed: the row names the dynamic path, where there is no file
  (`RenameStatic` and `RenameDynamic` in `DynamicPaths`).
- `jfs_file.c:592`: the second open may make a file that never gets a row (`MakeUnentered` in
  `FileOps`).
- `jfs_dynamic_paths.c:213`, `:317`, `:433` and `jfs_dir_query.c:433`: `strtok` is used by
  several threads at once. A lookup then misses what is there, an addition ends up under names
  of another path or fails, and a query has terms of another folder (`mixed` in `DirListing`).

What still holds beside them is in the runs: nothing is half written, a failed write has no
effect, a path only one thread uses and whose file stays is always answered right, an entry
of the datapath cache is only wrong for a `jfs_id` whose own row went or moved while it was
there, and a query nobody cut into lists what the attributes say.

### Properties with exceptions

- `Accounting` holds `pool_nthreads` against the number of threads only until a worker cannot
  open its connection; from then on it may be too large (finding 1).
- `Agreement` leaves out paths in `astray`; the actions of `FileOps` that add to it are the
  list of ways to get there, and an operation that goes through is the way back.
- `CacheCurrent` leaves out every `jfs_id` in `stale`. What puts one there: unlink or
  rename by the file's own path, which does not look its `jfs_id` up; an unlink by a dynamic
  path when the cache has a second entry of the file, or the path of another file for it; a
  dynamic rename that replaces a file, or whose `rename(2)` fails after the row has moved; and
  one that succeeds to a dynamic name, which caches the *old* path (`jfs_file.c:389`), under
  `jfs_id` 0 when the file came by a static path. Such an entry is used: a later unlink by a
  dynamic path removes whatever has the old path then.
- `ListedFound` leaves out listings in `disturbed`: a listing around another one deletes or
  hides what the other has put there, and a folder listed inside one that lists files hides
  the file of its name.
- `ListingRight`, `LookupRight`, `AddedFound` and `OthersStayFound` leave out threads in
  `mixed`. `AddedFound` is about the step that adds: a later addition of the same name, or of
  a folder on the way, goes in front and hides it, which is all `OthersStayFound` lets it do.
- `PrivateCached` and `PrivateCurrent` leave out paths two threads use: database and cache
  are changed in separate steps, and the older value may stay in the cache.
- `NoStrandedJob`, `Served`, `Drains`, `DestroyEnds` and `Shrinks` are checked with threads
  and connections that do not fail.

### Not modelled

- The text buffers that `jfs_dir_query.c` grows: a matter of C strings.
- Memory exhaustion inside caches and queries (`jfs_datapath_cache.c:210` returns with the
  lock held): what follows is often undefined.
- The free of pointers that were never set when a query is built (`jfs_dir_query.c:361`): what
  follows is undefined, and `DirListing` has an error there.
- The order of shutdown in `joinfs.c:184`, which destroys the datapath cache before the
  hierarchy that uses it in its cleanup: what follows is undefined.
- Reading and writing of file data, attributes such as size and owner, permissions,
  descriptors and the log: joinFS hands them to the system and keeps no state of them.
- `sglib.h`, result lists, nullFS and the tests.
