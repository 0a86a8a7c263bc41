# WebFS: a TLA+ model of the file system

WebFS is a FUSE file system, written in Go, that shows web resources as local
files. This directory holds TLA+ modules for the parts of it that keep state
and run concurrently, TLC configurations that check them on small instances,
and proofs, checked with TLAPS, of the safety properties for all instances.

Paths below are relative to `src/`.

## 1. Inventory

| Part | State | Operations | Meets |
|---|---|---|---|
| NodeID registry (`filesystem/fs.go`) | `lastNodeID`, `nodeRegistry` (id to node), `Node.nodeID` | `EnsureNodeID`, `GetNodeCtx`, `GetChildCtx`, `ForgetNodeID` | every FUSE handler; the kernel's references |
| Node tree (`filesystem/fs.go`, `node.go`) | `lastIno`; per node `name`, `parent`, `isDel`, `children` | `AddDirNode`, `AddFileNode`, `AddChild`, `RemoveChild`, `Del`, `Path` | the loader in `cmd/wfs`, library users, lookups |
| Adapter pool (`filesystem/inode.go`) | per adapter `isHealthy`, `failCount`, `lastAttempt` | `tryOperation`, `shouldRetry`, `markFailed`, `markHealthy` | `Inode.Read`, `RefreshMeta`, the sources |
| Reads and data cache (`filesystem/inode.go`, `fs.go`) | `dataCache.ranges` | `FileSystem.Read`, `Inode.Read`, `get`, `store`, `clear` | adapter pool, `Node.Del` |
| Directory streams (`fuse/server.go`, `context.go`) | `nextDirFh`, `openDirs` | `OpenDir`, `ReadDir`, `ReadDirPlus`, `ReleaseDir` | tree, registry, go-fuse's `DirEntryList` |
| File handles (`fuse/server.go`) | `nextFileFh`, `openFiles` | `Open`, `Read`, `Release` | registry, reads |
| File sizes (`filesystem/inode.go`) | `Inode.attr` | `RefreshMeta`, `CopyAttr`, `AddHardLink` | adapter pool, `Lookup`, `GetAttr`, the kernel's attribute cache |
| Node locks (`filesystem/node.go`, `context.go`) | `Node.mu`, `NodeContext.closeFns` | lock, unlock, `Close` | all of the above |
| HTTP adapter (`adapters/http.go`) | none | `Read`, `GetMeta` | adapter pool, web servers |
| Adapter registry (`adapters/registry.go`, `builtins.go`) | `providers` | `Register`, `RegisterBuiltins`, `GetProvider` | parsing of requests |
| Requests (`requests`) | none | `GetNodeType`, `UnmarshalFileRequest`, `UnmarshalDirRequest` | the loader, the adapter registry |
| Configuration (`config`, `internal/util/logger.go`) | `Config`, the global log level | `NewConfig`, `NewConfigFromFile`, `merge` | command, server |
| Command and server (`cmd/wfs`, `server`) | none | load, mount, unmount | all of the above |

Handlers call the file system directly; go-fuse runs each request in a
goroutine of its own. There are no queues or messages inside the program; what
parts share is memory: concurrent maps (`xsync.Map`), atomic words, and one
`RWMutex` per node, inode, cache, adapter and pool.

What is hard, and what makes each part correct:

* **Registry.** No lock covers `EnsureNodeID`; ids are taken, set and entered
  in three atomic steps, and `Forget` comes at any time. Ids must be unique and
  never change their meaning, an entry must lead to the node that has the id, and
  no id the kernel holds may stop resolving unless the kernel gave it up.
* **Tree.** `AddChild` is four steps and path walks hold no lock. The maps must
  stay a forest, parents must agree with them, a returned node must be where
  the request said, and deleted nodes must not be found.
* **Pool.** Three health words are written one after the other by operations
  that run side by side. A success must come from a source that answered, the
  order of preference must be kept, and a source that has come back must be
  used again.
* **Reads.** Attempts on several sources share one buffer, and concurrent
  misses store overlapping ranges. What is returned must be a piece of one
  source, from the right place, and must not change under the readers.
* **Streams.** A listing is read in parts while nodes come and go; offsets
  count entries but index a slice. Nothing that stayed may be missed, nothing
  should be shown twice, and the listing must end.
* **File handles.** A handle names a NodeID, not a node: two tables that change
  independently stand between a read and its file. A read must reach the file
  that was opened.
* **Locks.** Read locks nest, upwards in `Path` and downwards in `ReadDir`;
  writers that wait block new readers, and `Read` keeps a lock during network
  I/O. Nobody may wait in a circle, and every lock must be given back, wherever
  a handler returns.
* **Sizes.** The size is fetched once, in the background, while the file can be
  looked up and read already; the kernel keeps what it saw for a second and
  never reads beyond it. Range requests, whole bodies, missing lengths and
  broken answers must still add up to the file.
* **Start.** Entries of the nodes file fail one by one; what is good in the rest
  must be there when the file system is mounted. Two scales of log levels run
  in opposite directions, and the command mixes them up.
* **Crashes** lose everything: nothing is persisted, so there is no recovery.

## 2. Modules

| Module | Models | Checked by | Proved in |
|---|---|---|---|
| `NodeRegistry` | registry, `Lookup`, `ReadDirPlus`'s ids, `Forget` | `MCNodeRegistry` | `FuseFilesProofs` |
| `FuseFiles` | file handles; extends `NodeRegistry` and runs beside it | `MCFuseFiles` | `FuseFilesProofs` |
| `NodeTree` | tree operations | `MCNodeTree` | `NodeTreeProofs`, `LoaderProofs` |
| `PathTree` | abstract: what loading promises of the tree | refined by `NodeTree` | `LoaderProofs` |
| `Failover` | abstract: what `tryOperation` promises | refined by `AdapterPool`, used by `InodeRead` | `AdapterPoolProofs` |
| `AdapterPool` | `tryOperation` word by word | `MCAdapterPool` | `AdapterPoolProofs` |
| `InodeRead` | reads and cache, on top of `Failover` | `MCInodeRead` | `InodeReadProofs` |
| `DirStream` | directory handles and listings | `MCDirStream` | `DirStreamProofs` |
| `NodeLocks` | `Node.mu` and every operation that takes it | `MCNodeLocks` | `NodeLocksProofs` |
| `FileMeta` | sizes, the HTTP adapter and reading to the end, on top of `Failover` | `MCFileMeta` | `FileMetaProofs` |
| `Config` | defaults, `merge`, configuration files, log scales | by `MCLoader` | `LoaderProofs` |
| `Loader` | the command up to the mount; composes `NodeTree` and `Config` | `MCLoader` | `LoaderProofs` |

How state and actions correspond to the code:

* A goroutine is a *thread* (`t`) or, in `DirStream`, a *reader* (`r`) with a
  program counter `pc`; an action is the code between two accesses to shared
  memory. The names of variables and operators are the code's.
* `xsync.Map` operations are atomic (the library is linearizable). `Range` is
  not: `OpenDirStore` takes any order of any set between what was there all the
  time and what was there at some time.
* **`NodeRegistry`**: the tree is fixed, a name is the child itself. The kernel
  is the environment: it calls with ids it holds, has at most one Lookup per
  directory and name in flight (`fuse/server.go:87`), and gives an id up only
  when no request names it and it holds no child. `known` is what it holds;
  `forgotten` is history.
* **`NodeTree`**: a node is its inode number; a path is the sequence of its
  parts, with `EmptyName` for the empty strings that `strings.Split` yields.
  `Walk`, `MkDir`, `Check`, `Create` are `AddDirNode` and `AddFileNode`;
  `AddChildTake`, `DelNode`, `AddChildStore`, `AddChildLink` are `AddChild`.
  Attributes other than the type are left out. `Del` from outside is an
  operation; `results` keeps what callers deleted themselves. `Path` is the set
  of the path it returns, empty on an error; it joins names as the code does
  (`Join`), so that a file named `""` below the root has the root's path.
* **`AdapterPool`**: `CheckHealthy`, `CheckCount`, `CheckSince` put the list
  together, `TryNext`, `TryOK`, `TryFail`, `TryEnd` work through it,
  `MarkFailed1` to `3` and `MarkHealthy1`, `2` are the single stores. Time is
  `age[a]`, the seconds since `lastAttempt`, cut off where the code stops
  telling values apart; sources go up and down at will.
* **`InodeRead`**: a byte is a pair of its source and its place there, so data
  mixed from two sources, zeros of a fresh buffer or a wrong index show.
  `FetchFails` may leave part of a source's bytes in the buffer; a short read
  is a success, as `adapters/http.go:141` treats a body cut short as its end.
  `Del` waits for readers because `FileSystem.Read` keeps the node's lock.
* **`DirStream`**: go-fuse's numbering of entries is `AddDirEntry`; `room` is
  how many entries a reply takes, at least one, as the kernel's buffer is never
  smaller than an entry. `must` and `may` are history for `NothingMissed`. That
  the directory's NodeID can vanish is `NodeRegistry`'s business;
  here it is an event.
* **`FuseFiles`**: `files` is what the kernel has open. `Open` is three steps
  (`Open` looks the node up, `OpenFh` takes a handle, `OpenStore` enters it),
  `Read` three (`ReadFh`, `ReadNode`, `ReadReply`), `Release` one. The kernel
  keeps the id of an open file (`Pinned`), but a `Forget` that was already on
  its way may still arrive.
* **`NodeLocks`**: nodes are numbered by age, so a parent comes before its
  children. `held` is the stack of a goroutine's read locks, `iter` its loops
  over children. `sync.RWMutex` is external: `Lock` bars new readers, then waits
  for those inside (`drain`); `Unlock` lets in all who were barred. `stat` stands
  for the handlers that defer `Close` and then look whether they have a context
  (`Lookup`, `GetAttr`, `OpenDir`, `ForgetNodeID`), `open` for those that look first
  (`Open`, `FileSystem.Read`; `io` is a read that waits for a source). `due` counts
  the releases that have been deferred, and a return (`Unwind`) runs these and no
  others. The early returns are there one by one: no node (`NotFound`), no handle or
  nothing left (`ReadDir`), the buffer full (`List`).
* **`FileMeta`**: a byte is its place in the source. `Word` stands for 2^64, and
  a length that was not sent is -1 modulo `Word`. `HTTPAdapter.Read` is modelled
  from its range (`RangeHeader`) over the body that a server sends for it (`Body`,
  external) to the skip of status 200 (`Skip`) and `io.ReadFull`. The kernel refuses sizes
  beyond the signed range, reads up to the size it was shown, in chunks, and
  takes a short answer for the end.
* **`Loader`**, **`Config`**: an entry of the nodes file is what `encoding/json`
  would see of it: its type, whether it decodes, path, and sources that are
  valid or not. A missing mount point and a nodes file that cannot be read end
  the program (`NoMountPoint`, `Configure`). `Parse` takes the entries one by one, `LoadStep` makes the
  requests, directories first, through `NodeTree`'s actions. A program that
  embeds the server (`EmbeddedStep`) makes requests of its own; `Reqs` has these
  and the requests of the nodes files. `pool` keeps the adapters of a file under
  the places of their sources.

## 3. Runs

Passing runs:

| Run | Checks | Instance |
|---|---|---|
| `reg_core` | `TypeOK`, `RegistrySound`, `IDsUnique`, `LostOnlyByForget`, `IDsKeepMeaning`, and `AssignedGetsRegistered` under `FairSpec` | root, directory, file in it; 2 threads |
| `files_core` | `FilesTypeOK`, `HandlesMatch`, `ReadsOwnFile` | root and file; 2 workers on files, 2 threads on the registry, `MaxFh` 3 |
| `tree_race` | `TypeOK`, `Forest`, `ParentAgrees`, `DeletedUnlinked` | 3 threads, 3 calls of 6 kinds on overlapping paths, an outside `Del` among them |
| `tree_loader` | `ReturnedIsThere`, `PathLeadsBack`, `EntriesLoaded`, `KeepsPromise` | nodes files of up to 3 entries of 11 kinds, or one that is not JSON or cannot be read; `-v` 0 and 6; configuration files; an embedding program with 4 calls, an outside `Del` among them, paths of up to 3 parts |
| `pool_core` | `PoolTypeOK`, `OkHasServer`, `ListOrdered`, `KeepsFailover` | 2 adapters, 2 threads, 2 retries, cancellations |
| `pool_live` | `PrimaryRecovery` under `FairPoolSpec` | 2 adapters, 2 threads, 2 retries |
| `read_core` | `ReadTypeOK`, `ReadExact`, `HitsRepeat` | sources of 2 bytes and 1, offsets 0 and 1, sizes 1 and 2, 2 ranges, 2 threads |
| `dir_core` | `StreamTypeOK`, `NothingMissed`, `HandlesOwned`, `RepeatsNeedSkips`, and `ListingEnds` under `FairStreamSpec` | 2 nodes, one of them there from the start, 2 readers, replies of 1 or 2 entries, 2 opens |
| `locks_fuse` | `LocksTypeOK`, `NoWaitCycle`, `NothingLeftLocked`, and `HandlersReturn` under `FairLocksSpec` | 3 goroutines over a root, a directory and a file; one of three mixes: serving, naming (`Path` with `AddChild` and `RemoveChild`), logging |
| `meta_core` | `MetaTypeOK`, `GotInPlace`, `WholeFile`, `AskedWithinSource`, `KernelSizeReal` | 2 sources of 4 bytes: one serves ranges and tells its length, the other does neither and may break off; 2 programs, reads of 2 and 3 bytes, `Word` 16 |

What they show, in the same order: requests that race for a node's id agree on
one, no id is ever handed out for a second node, and the kernel never loses an id
that it did not give up; a handle leads to
the file that it was opened for, until a late `Forget` makes its reads fail;
whatever callers do to the tree at the same time, it stays a tree; what the
nodes file asks for in usable entries is there when the file system is mounted,
under the path asked for, and no other file is (a source of unknown type makes its
whole entry unusable, one that its provider refuses only itself); `tryOperation` keeps the order of
preference and never reports an empty success; when the primary is up for good
the file is served again, by it or by a backup, however the writes of the health
words interleave; a read is a piece
of one source even after another one failed half way into the same buffer; a
listing read in parts misses nothing, repeats only what passed-over entries
account for, and ends; goroutines that wait for each other in a circle include
one that climbs and one that descends, so that the FUSE handlers, which never ask
for a path, do not deadlock, no return leaves a lock behind, and every handler
returns if the sources answer; what a program reads is in its place, whether it
came in ranges or out of whole bodies, and it is the whole file if the program
finds a size and meets no broken answer; the kernel's size is a source's length,
where only the kernel's own check keeps a missing length (`2^64 - 1`) out.

Why these bounds: a race in `EnsureNodeID` needs two requests, and either of
them may turn to `Forget`; a race in the tree needs two creators and a remover,
on a directory with something below it. Two adapters have a primary and a
backup, and two operations are what it takes for `markFailed` and `markHealthy`
to interleave; `MaxRetries` 2 keeps the cases below, at and above the limit (the
code's is 3). Two sources of different length give short reads, overlaps and
mixed buffers. Two entries and replies of one or two give listings of several
parts with a hole in them. A file handle needs two workers for two opens to race,
or a read and a release, and registry threads for the ids to come and go. A chain
of three nodes has locks above and below one that is held; two readers and a
writer are what a circle of waits takes. Reads of 2 and 3 bytes of a file of 4
end at its end and before it, and `Word` 16 keeps `2^64 - 1` beyond the signed
range as in the code. Three entries are a directory, a file below it and one
that is bad, in every order. The bounds on
counters (`MaxIno`, `MaxCalls`, `MaxDepth`, `MaxRanges`, `MaxFh`, `MaxRoom`) are in the
guards; `MaxIno` is never reached in the runs. The theorems of section 5 hold for
all values of these bounds. Where a configuration says
`CHECK_DEADLOCK FALSE`, callers may stop calling.

Threads, workers and programs are symmetric; runs with a liveness property use no symmetry.

Runs that show a disagreement between code and comment:

| Run | Property | What happens |
|---|---|---|
| `reg_forget` | `KnownIDResolves` | Lookup, Forget, Lookup hands out a dead id |
| `pool_backup` | `BackupRecovery` | a backup with three failures is never asked again |

Also seen in the models, and left without a run of their own:

* between `EnsureNodeID`'s compare-and-swap and its store a node has an id that
  does not resolve yet, against "0 if not registered" (`filesystem/node.go:15`);
* of two racing `AddDirNode` calls below a new directory one may lose its path:
  the second `AddChild` replaces the first one's directory and deletes it
  (`filesystem/node.go:85`), though `AddDirNode` is
  to be "equivalent to calling `mkdir -p`" (`filesystem/fs.go:113`);
* two racing `AddFileNode` calls for one path both pass the check and both
  succeed;
* `AddChild` sets the parent after it has stored the child; a node that another
  `AddChild` has deleted in between is attached again;
* `AddDirNode` walks through files and makes directories below them;
* a `Del` from outside `AddChild` leaves the node in its parent's map, where
  lookups find it and later requests build below it, though `Del` "handles all
  cleanup" (`filesystem/node.go:131`); hence the exceptions in `DeletedUnlinked` and
  `ReturnedIsThere`;
* a request for the path `""` or `"/"` makes a file named `""` below the root, whose
  `Path` is the root's, without an error (`filesystem/fs.go:63`, `node.go:72`); hence
  the exception in `PathLeadsBack`;
* one source of a type that no provider was registered for drops its whole entry
  (`requests/unmarshal.go:85`);
* `ForgetNodeID` leaves `Node.nodeID` set, against "0 if not registered"
  (`filesystem/node.go:15`, `:42`); this is the cause of `reg_forget`'s violation;
* `ReadDir` sends entries again after it has passed over deleted ones, for
  go-fuse's offsets count entries and the code indexes the slice with them
  (`fuse/server.go:185`); `RepeatsNeedSkips` says that this is the only reason;
* a read of a deleted node, whose NodeID the kernel still holds, fills the cache
  that `Del` has cleared (`filesystem/inode.go:138`, `node.go:131`);
* `tryOperation` passes over adapters that are not due, though an error is
  reported as "after trying all adapters" (`filesystem/inode.go:100`);
* the priorities of sources are parsed and then ignored: adapters keep the order
  of the nodes file (`adapter.go:44`, `requests/dto.go:50`, `filesystem/fs.go:86`);
* the size in a request is ignored (`requests/dto.go:14`); `stat` shows 0 until
  `GetMeta` has answered (`filesystem/inode.go:84`), and for ever if no source
  was up when the file was made;
* an answer that breaks off counts as one that is complete (`adapters/http.go:141`);
* `main` sets the logger's level from the flag and passes that level on as if it
  were a verbosity (`cmd/wfs/main.go:72`, `config/config.go:99`), so that `-v 5`
  does not turn on go-fuse's debug output (`server/webfs.go:40`);
* `test/e2e/e2e_test.go:264` skips a test for a "Known bug: Implicit directory
  creation doesn't properly link files to directories". The models do not show
  it: `ReturnedIsThere` and `EntriesLoaded` hold with files in directories that
  only their paths name, so that the comment seems to be out of date;
* `LogNodeTreeBuilder` holds the locks of the nodes it has come down to while it
  asks for paths, which lock the same nodes once more: a `Del` in between makes it
  wait for itself (`filesystem/context.go:137`; the `tree` operation of
  `NodeLocks`, which `NoWaitCycle` therefore excepts);
* every node starts with two links (`filesystem/fs.go:251`, `node.go:38`);
* `CacheMaxSize` does not reach `dataCache`; the cache grows with every miss.

## 4. Fairness

* `FairSpec` (`NodeRegistry`): every goroutine inside a handler goes on. The
  steps wait for no lock that another step holds. The kernel need not call.
* `FairPoolSpec` (`AdapterPool`): operations go on (the pool's lock is only ever
  taken for reading), time passes, and the file goes on being read. Sources owe
  nothing: the properties ask for progress only when one stays up. Callers do
  not cancel in it, since `FuseRaw.Read` and `RefreshMeta` pass
  `context.Background()`; `pool_core` includes cancellation.
* `FairStreamSpec` (`DirStream`): handlers go on and the reader asks until it is
  told the end, as `readdir` loops do. It may rewind or close at any time, and
  `ListingEnds` then asks for nothing more.
* `FairLocksSpec` (`NodeLocks`): weak fairness of every step, for goroutines are
  scheduled; strong fairness of `Lock`, since the `sync.Mutex` that writers queue
  for inside `RWMutex.Lock` hands over to one that has waited for long. `IOReturns`
  has none: the HTTP client has no timeout. `HandlersReturn` is therefore
  conditional, on reads that end and on the absence of a deadlock, which
  `NoWaitCycle` gives for the operations that serve FUSE.

## 5. Proofs

Every theorem is for all values of the constants under the named assumptions in
the modules (`TreeAssumption`, `TreeConstants`, `PoolConstants`,
`ReadConstants`, `StreamConstants`, `FilesAssumption`, `LocksAssumption`,
`MetaAssumption`, `LoaderConstants`), which fix types and non-emptiness, and in
`LoaderConstants` that the command is the only caller; TLC evaluates them in
every run. Some theorems about the tree have further hypotheses, see below.

* **`FuseFilesProofs`**, the registry: `TypeOK`, `RegistrySound`, `IDsUnique`,
  `LostOnlyByForget`, `IDsKeepMeaning`. The properties are not inductive alone: an
  id may also sit in a thread's `newID`. The invariant adds that all ids are at
  most `lastNodeID`, that ids held by threads are pairwise different and on no
  node yet before the compare-and-swap, and on their own node after it.
* **`FuseFilesProofs`**, the file handles: `FilesTypeOK`, `HandlesMatch`, `ReadsOwnFile`. It stands
  on the registry's invariant, which `RegistryStep` keeps. The invariant adds
  that a handle that is being opened is at most `nextFileFh` and nobody else's
  (`Minted`), that a worker's file is open while it reads and closed for
  everybody else while it is released (`Using`), that every id in `openFiles` is
  in the registry or was forgotten (`Resolvable`), and what a read has reached
  (`Reached`).
* **`NodeTreeProofs`**: `TypeOK`, `Forest`, `ParentAgrees`, `DeletedUnlinked`.
  The invariant says where
  a node may be for each `pc`: a new one is in no map until `store`, was made
  after its parent, and no other thread holds it; a taken one is in no map.
  `PathLeadsBack` holds when calls come one at a time (`OneCaller`), removals
  and deletions among them; races break it, see section 3. A lone caller's
  lookups are still good when it acts on them (`SoloInv`), and parents are older
  than their children, so that the names on the way up are a path down.
* **`LoaderProofs`**, the tree: `ReturnedIsThere` when calls come one at a time
  and none is `RemoveChild` (`NoRemoval`), from where a walk stands (`Found`: what is
  behind it leads to `cur`) and because the children maps only grow;
  `KeepsPromise`, the refinement of `PathTree`, when moreover no path runs
  through a file (`NoneThroughFiles`, since `AddDirNode` walks through files).
  For the latter different paths lead to different nodes (`Forest`), a node that
  is not in the tree has no children (`BareOK`), and files in the tree were asked
  for (`KindOK`), so that each store adds one entry, below a directory.
* **`LoaderProofs`**, the loader: `LoaderUsesTree`, every behaviour of `Loader` is
  one of `NodeTree`, for the request that `main` is in is the first of its list
  (`Current`) and is one of `Reqs`. Hence `PathLeadsBack` holds of it, and under
  `NoRemoval` (and `NoneThroughFiles`) `ReturnedIsThere` and `KeepsPromise`, with
  an embedding program that calls `RemoveChild` excluded and not the command,
  which never does.
* **`LoaderProofs`**, the nodes file: `EntriesLoaded` for every nodes file, of any
  length, with nothing assumed of its paths. The invariant (`LoadInv`) says of
  each entry that was read that its request is still on a list or that its path
  leads to a node, and to a directory if it asked for one: no file is made before
  the last directory (`NoFiles`), and every file stems from a usable entry. The list of files is in the order of the
  entries (`Pending`), so a file has the adapters of the first entry that leads
  to it (`FirstOf`): those that are still to come are behind it, and what a path
  leads to does not change.
* **`FileMetaProofs`**: `MetaTypeOK`, `GotInPlace`, `WholeFile`,
  `AskedWithinSource`, `KernelSizeReal`. The size is set once, and a length that
  was not sent is `Word - 1`, beyond `MaxSize`, so that the kernel never takes it
  (`SizeKnown`). What is left of a body after the skip begins at the offset, for
  ranges and for whole bodies (`DataInPlace`). Once the kernel has a size, with sources that agree and no answer
  cut, it is their length for good (`Settled`); a request that is sent begins
  before the end and gets an answer that is not empty (`Within`, `Full`), so that
  a program comes to the end at the length only.
* **`AdapterPoolProofs`**: `PoolTypeOK`, `OkHasServer`, `ListOrdered`, and
  `ImplementsFailover`: initial states and steps of `AdapterPool` map to
  those of `Failover`. The invariant relates the list to `idx`, `tried` and `by`
  for each `pc`; the health words are left free, and that is the point:
  no interleaving of their writes can break the promise.
* **`InodeReadProofs`**: `ReadTypeOK`, `ReadExact`, `HitsRepeat`. The invariant
  adds that every cached range is a piece of one source at its place, and that
  the first `bytesRead` bytes of a buffer are those of the adapter that
  answered, whatever earlier attempts left there.
* **`DirStreamProofs`**: `StreamTypeOK`, `HandlesOwned`, `NothingMissed`,
  `RepeatsNeedSkips`. The
  invariant says that between calls everything before the offset was shown, that
  in the loop everything before the place was, and that the offset never is
  ahead of the place: offsets fall behind (hence the repeats), never ahead;
  in a slice without holes they are level, and what was shown is its beginning.
* **`NodeLocksProofs`**: `LocksTypeOK`, `NothingLeftLocked`, `NoWaitCycle`, for
  every tree and any number of goroutines. The invariant (`Shape`) says what a
  goroutine can hold at each step: a `ReadDir` that waits holds only a node before
  the one it waits for, a `Path` only nodes after it; and that the writer of a lock
  is the goroutine in its `Lock` (`Owned`). `NothingLeftLocked` follows from
  `DueShape`: a release is deferred for every lock but the one just taken, so that
  each action that may return has to defer first. In a deadlocked group every wait is at
  a lock that one of the group drains, and whoever keeps that lock waits for
  another such lock. Without climbers the locks so found go up, without
  descenders down, and the nodes are finitely many.

What a path leads to is a recursive function over the path, and the library's
induction theorems cannot be used with the installed provers. `NodeTreeProofs`
therefore argues by the least counterexample: a set of numbers that is not empty
has a least element (`LeastElement`), so a function that leads along a path
exists for every length (`LeadsExists`), and a shortest path of which a statement
fails gives a shorter one. `Parts`, `Path` and the paths of `Entries` are treated
in the same way.

The hypotheses `OneCaller`, `NoRemoval` and `NoneThroughFiles` are met: TLC
evaluates them in `MCLoader`, with nodes files, embedding requests and an outside
`Del` among them.

Only model-checked: the liveness properties `AssignedGetsRegistered`,
`PrimaryRecovery`, `ListingEnds` and `HandlersReturn`, for fairness and ENABLED are
out of the prover's reach. Every invariant and action property of a passing run
is the subject of a theorem.

## 6. Not modelled, and the plan

Left out, and why:

* mounting, unmounting, signals, and `server.go`, which passes calls on to
  go-fuse: I/O. (A signal before `signal.Notify`, `cmd/wfs/main.go:157`, ends the
  process without an unmount.)
* the syntax of JSON and of flags (`encoding/json`, `flag`); what follows from an
  entry that does or does not decode is modelled;
* `Nlink`, owner, mode and times: written when a node is made, they decide nothing;
* `NodeContext.Children`, `NewAdapter`, `HTTPAdapter.Open`, `NumCacheChunks`: no
  caller; `HTTPAdapter.Write` always fails;
* logging, other than its levels, and mocks.

The plan for what is left: that `InodeRead` and `FileMeta` use the pool as
`AdapterPool` provides it (a composition of `ImplementsFailover` with both), and
the safety half of the liveness properties, such as the measure by which a
listing or a walk through the list of adapters ends.
