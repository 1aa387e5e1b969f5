# A TLA+ model of of_core_jni

of_core_jni is the Java face of the Connected Way file stack: the package
`com.connectedway.io` (files, streams, framework control), the package
`com.connectedway.nio.directory`, and the C side that carries each call over
JNI to of_core, a library with the SMB client in it that is not part of this
repository. The specifications here model the parts of this code that keep
state over several steps, and say what they may be relied on for.

The modules are checked with TLC on small instances; the safety properties of
all of them are also proved with TLAPS, for all values of the constants.
`PROJECT.json` lists the runs, the theorems, the lines each definition stands
for, and the hazards the properties are aimed at.

## 1. Inventory

Paths: `io/` is `src/java/com/connectedway/io`, `fs.c` is
`src/src/com_connectedway_io_Filesystem.c`, `resolver.c` is
`src/src/com_connectedway_io_Resolver.c`, `framework.c` is
`src/src/com_connectedway_io_Framework.c`.

| Component | State | Operations | What is hard |
|---|---|---|---|
| Overlapped transfer engine (`fs.c` 1514-2266) | per call: a ring of buffers, wait set, pending count, two positions, total | `read(fd,b,off,len)`, `write(fd,b,off,len)` | completions in any order, at once or short; failure of one of several; out of memory half way; when the byte array may be released |
| Directory stream (`nio/directory`, `fs.c` 2492-2736) | queue, state, last error, task, search handle | background search, `getListing`, `close` | fields shared by two threads without a lock; close during a search; publication order; notification |
| Encrypted configuration store (`Framework.java` 350-573) | `config.iv`, configuration file, key store; cached vector, key, length | `setConfigFile`, `loadConfigFile`, `saveConfigFile`, `getConfigKey` | three things on disk that must agree; crash between them; two threads; a cached length |
| File and its cached attributes (`File.java`, `fs.c` 431-1131) | attributes, length and date cached per File | `exists`, `isDirectory`, `length`, `lastModified`, `mkdirs`, `delete`, `renameTo`, `list`, `listFiles` | several requests per call, other clients in between, failed requests, caches stale or of different moments |
| Random access and streams (`RandomAccessFile`, `FileInputStream`, `FileOutputStream`, `fs.c` 1292-2456) | native handle, its pointer | open, share, close, finalize, read, write, `readLine`, seek, `setLength` | who closes a handle, how often; short transfers; shared pointer |
| Resolver bridge (`Resolver.java`, `resolver.c`) | global references, descriptors, static lock table, static directory entry, the offset two channels share | open, close, lock, trylock, unlock, opendir, readdir, closedir; read, write, pread, pwrite, seek, truncate | static state shared by all files and threads; blocking in a monitor; half-built objects; an offset moved in several steps; positions cut to 32 bits |
| Framework control (`Framework.java` 1-349, `framework.c`) | in of_core: interfaces and maps | `addInterface`, `removeInterface`, `getInterfaces`, `setLMB`, `addMap`, `removeMap`, `getMaps`; getters and setters | objects that go through C structures and come back; null fields, IPv6 addresses, two tables of type names; a list found by index while other threads change it |
| Path handling (`fs.c` 39-430, `File.java` 106-319) | none | `normalize`, `resolve`, `prefixLength`, `isAbsolute`, `isRemoteFile`, `getName`, `getParentFile`, `getAbsoluteFile`; URIs, `canonicalize` | parents found by the length of a prefix, and by maps that come and go |
| Utilities (`com_connectedway_io_Utils.c`) | none | conversions of strings, files, UUIDs, dates | null pointers |
| FileProvider, OfcExplorer, headers and build files | - | - | - |

How they interact: `File`, the streams and `FileDirectoryStream` call
`FileSystem`, whose native methods call of_core; the streams' array methods
with an offset are the transfer engine, the others go through the pointer of
the native handle. `Framework` keeps its configuration in a `File` of this package
(and so meets its cached length), but reads and writes it through the streams of
`java.io` (`Framework.java` 9-10). `FileDirectoryStream` calls
back its consumer. `Framework` converts the maps and interfaces of an
application for of_core, and the maps decide which paths `File` takes to be
remote. The resolver works the other way: of_core calls C functions,
which call a listener of the application in Java.

The correctness of each component, in one sentence each:

- *Transfer engine*: every byte lands in its place, the count or exception
  tells the truth, nothing moves after the return, and the call returns.
- *Directory stream*: FRESH means complete, unless the request for the attributes
  or a `FindNext` has failed, which the code takes for no directory and for the end of
  one; any other failure is reported, the search handle is released and the consumer is told.
- *Configuration store*: vector, file and key belong together after a save.
- *File*: an answer was true when it was asked for; `true` from `delete` and
  `mkdirs` means that it was done; a listing to which no request failed is whole. (One
  to which some did may come as an empty array, or as one of the directory itself: the caller
  of `list` cannot tell.)
- *Streams*: transfers go on from the pointer in order; each handle is
  closed once, by its owner. (What `readInt()` makes of the bytes it reads depends on
  what was on the stack.)
- *Resolver*: what belongs to one document, directory or transfer is not mixed
  up with that of another.
- *Framework control*: what an application has added and not removed comes back
  as it was given, and a local master browser is set for the interface meant.
- *Paths*: the parents of a File lead up to a root, and a parent and a name make
  the File again.

## 2. Modules

| Module | Models |
|---|---|
| `Transfer` | what a positioned transfer promises its caller: the abstract specification |
| `OverlappedIO` | the loop that the native read and write share |
| `OverlappedRead`, `OverlappedWrite` | the two native methods: the loop, with the outcomes of the system call and the value returned |
| `DirectoryStream` | `FileDirectoryStream.findFiles`, `getListing`, `close`; `Directory`; `findFile`, `findClose` |
| `ConfigStore` | save, load, key handling, crash and restart |
| `FileServer` | the server as the code uses it (environment): a tree, other clients, failing requests |
| `FileOps` | `File` on a `FileServer`: the calls that take several requests |
| `FileCache` | what the Files of one path keep of it |
| `Streams` | stream objects, their descriptors, and the native methods that use the pointer |
| `Resolver` | files, locks and directories of the resolver |
| `ResolverIO` | transfers of the resolver on one document |
| `Paths` | pathnames as `FileSystem` and `File` take them apart and put them together: pure operators on the path functions of of_core |
| `Framework` | interfaces and maps given to of_core and got back, and Files under the maps |
| `MC...` | instances for TLC, and statements made by comments that a run refutes |
| `..._proofs` | theorems |

### Transfer engine

`pc` is the place in the C function: the priming loop (1836-1881), the drain loop
(1887-1940), returned (after the cleanup, 1942-1969). `i`, `eof`, `pending`, `buffer_offset`,
`file_offset` and `total` are its locals; `state`, `req`, `ov` and `wait_set`
are the buffers and what of_core keeps of them. `Prime`, `DrainMore`, `DrainLast`,
`DrainFail`, `Cleanup` are one turn of a loop each; `Complete` is of_core.
`moved` records which array byte was paired with which file byte, so that
the data need not be modelled. The system call reports a request as pending, as
failed, or (fault "sync") as complete at once; in this last case the code counts the
request twice, which run `read_completions` shows. Properties that this breaks
are stated for calls whose requests complete through the wait set (`Overlapping`).
`ImplementsTransfer` is refinement: a request in flight is an outstanding span
of the array, and a call with "sync" never maps to a return.

### Directory stream

Each access of the search thread to `state`, `lastError`,
`fileLinkedBlockingQueue` and `fileTask` is a step, as they are shared without
a lock; `close()` is four steps. A null field is a NullPointerException that
ends the search, with the search handle left open when it comes too early.
`findFile` asks first for the attributes (`Ask`), which decides what is searched (`sought`):
the entries of a directory, or, when the request fails, the path itself, whose only entry it is.
It skips hidden entries and takes a `FindNext` that fails for the end of the directory.
`failed` says which of the two has gone wrong, if any: neither is reported, and
`FreshIsComplete` says what a stream that is FRESH holds in each case. `getListing` as a whole
is one step.

### Configuration store

Files hold which version they contain and with which vector and key they were
encrypted; decryption gives the version only if both match. `Restart` kills the process between any two steps
and runs `setConfigFile`. `sure` marks threads that save or load without
another saver; `saved` says whether the disk is what such a save left. The cipher may
refuse a key for any reason, null or not (`InitFails`); the loop then has a new one generated,
with a number that nothing refers to any more (`InUse`), so that there may be any number
of them one after another.

### File, FileCache and FileServer

Each request to the server is a step and other clients act in between
(`Interference`). The histories `recent`, `made`, `removed`, `calm` and `seen`
say what was on the server while the call ran; no guard reads them. `mkdirs`
is recursive in the code: here `at` is the path of the innermost call and
`attr` the caches of the parent objects, so that going down and coming back
up are steps. A listing returns what its caller sees: an array, also the empty one that
`list` makes when its search fails (`Failed`) and the one of the path itself when the
attributes could not be asked for (`ListSelf`). `delete` of a directory is `OfcRemoveDirectoryW`, then open for deletion and
close. `Request` lets a request that fails have been carried out all the same.

The caches of the File objects are in `FileCache`, on one path, as Files of
other paths do not bear on them. `attributes`, `size` and `date` are each asked
for once; a copy takes over what has been asked; `Find` and `Keep` stand for a
search that finds the path, and the File made of what it found: `listFiles` sets the
attributes and the length, `findFile` the date as well. `since` and
`sinceSearch` record what has been at the path. `MCFileOps` runs both modules,
each in behaviours of its own (`work`), since the calls of `FileOps` ask
`FileSystem` and not the caches; the Files that `mkdirs` makes, whose caches do
matter to it, are in `FileOps` (`attr`).

### Streams

A handle is a number that of_core may give out again once it is closed. `fd`
is what a stream's FileDescriptor holds; `Share` makes a second stream on one
descriptor. A single application thread makes the calls, chunk by chunk, and
`Finalize` is the finalizer thread. `read()` writes one byte of an
uninitialised `int`: `Bits` chooses what the rest of it is. `stray` remembers that it was not
zero, so that the number `readInt()` adds up is another, and `negative` that it had the sign set,
which `readInt()` takes for the end of the file (`ReadReturns`) and which, all bits
set, ends a line. A failed write
may have written its bytes.

### Resolver

Kernel locks (`granted`) are kept apart from what the Java VM believes
(`valid`) and from the entries of the static `hashtable` (`table`), because on
Linux closing any descriptor of a document gives up all locks of the process on it, and because
`HashKey.equals(HashKey)` does not override `equals(Object)`: `unlock` looks up
a new key, finds nothing and releases nothing (`Found` is empty), so that a lock
lasts until a descriptor of its document is closed. `lock` waits inside the
monitor of its ResolverFile (`Entered`). A shared lock is refused: the channel
only writes. `CopyName` and `TakeName` are the copy into the static
`sdirent` and its use by of_core. The listener is the application's; it is taken to
pass each call on to the ResolverFile or ResolverDir, or to throw an exception, before the cursor
is moved (`ReadDirEnd`) or after (`ReadDirSkips`).

`ResolverIO` is one open document. A ResolverFile has two channels on
duplicates of one descriptor, and so one offset: sequential reads and writes move
it, positioned ones do not, `seek` sets it once by each channel
(`Position`, twice), `truncate` cuts and then sets it back (`again`). The whence of
2 goes back from the end by the offset, and `pread` and `pwrite` take their position as a `jint`
(`Jint`). A channel writes or reads any number of the bytes asked for, or throws an exception
(`Writes`, `Reads`), which a ResolverFile turns into -1, as it turns the -1 of the end of the
document into 0 (`WriteReturns`, `ReadReturns`). The history (`meant`, `cursor`, `due`) does in whole
steps what the calls asked for, as far as they have returned that they did it (`ret`), until a call
strays: it uses a position beyond a `jint`, or the offset while another thread is in a
seek or truncate, or is a seek or truncate that fails half way (`PositionFails`). `MCResolver` runs
`Resolver` and `ResolverIO`, each in behaviours of its own (`work`).

### Paths and Framework

A pathname is a sequence of characters, a name being one character. What
`ofc_path_createW`, `ofc_path_printW` and the others do is external, inferred from how
the code uses them; `normalize`, `prefixLength`, `isAbsolute`, `resolve`, `getName` and
`getParentFile` are the code's own steps on top of them. `Pathname` keeps names apart
and colons to devices. The names in a path (`NamesIn`) are found by a recursive function.

`ifaces` and `maps` are what of_core keeps. `InterfaceIn` and `new_interface`
are the conversions of an interface there and back: a null address leaves a
structure on the stack as it is (`AddressIn`), and an address comes
back as four bytes (`Low`). `MapIn` and `new_map` are those of a map. `setLMB` is one step for each call of of_core
(`Count`, `Addr`, `SetLocalMaster`), with threads that add and remove
interfaces in between; `raced` marks those that remove. `map_get_type` and
`new_map_type` are the two tables of type names. `GoUp` is `getParentFile`, for
a File that an application goes up from while maps come and go, which decide
whether a path is remote.

## 3. Runs

| Run | Question | Bounds |
|---|---|---|
| `overlapped_read`, `overlapped_write` | books, places, counts, termination, refinement | 3 buffers of 2 bytes; calls of 0, 1, 5 and 7 bytes: none, part of a buffer, all buffers once, and one used again with a short tail; files that end before, in and after the call |
| `directory_stream` | completeness, errors, handle, notification | every directory of up to 5 entries; batch of 1 instead of 10, so that two batches and a rest fit |
| `config_store` | agreement of vector, file and key; loads; saves end | 2 threads, 2 versions of different length, 2 vectors, 3 keys at a time, 1 crash |
| `file_ops` | caches, `mkdirs`, `delete`, listings | paths three deep with one hidden beside, two changes by another client, two failed requests; for the caches, two File objects (one may be a copy of the other), one change and lengths 0 and 1 |
| `streams` | ownership of handles, order of bytes, lines | 2 streams, 2 handles (so that one is used again), files of up to 3 bytes, chunks of 2, 1 fault |
| `resolver` | locks and directory entries of different documents; bytes and offset of transfers | 2 threads, 2 files, 2 documents, 1 region of the same position and size in both, 2 directories of 3 entries, 2 faults; for transfers 2 threads, a document of up to 3 bytes, 1 or 2 bytes at a time, a `jint` of two bits and offsets below, in and above it |
| `framework` | conversions there and back, `setLMB`, parents | 2 threads, 2 interfaces of different networks, one with an IPv6 name server, 2 prefixes, a map for each case of the type tables; every pathname of up to five characters over two names, separator and colon |
| `read_completions` | a comment about the end of the drain loop | as above, requests that complete at once |
| `write_subarray` | what `off` means | no faults, offset 1 |
| `mkdirs_parents` | `mkdirs` makes all that is missing | undisturbed, paths three deep |
| `streams_append` | a stream opened to append appends | no faults |

The last four are expected to be violated: each states what a comment of the
code says of it, and the trace shows what the code does instead (`findings` in
`PROJECT.json` quote both):

- a request that completes at once is discounted and later signalled, so the
  loop ends, and the array is released, with another request in flight;
- `write(b, off, len)` writes `b[0..len-1]` at file position `off`;
- `mkdirs` asks a parent File that has cached that it does not exist, and does
  not make the directory itself; another call does;
- `OPEN_APPEND` never moves the pointer to the end.

Other things the models show, which the properties name where they make an exception for them:
`list` returns an empty array when its search cannot start, and one of the directory
itself when the request for the attributes fails, and `findFile` a stream of that one entry;
`readInt()` throws an EOFException, or returns another number, because of what was left in an
`int` of which `read()` has written one byte; a process
killed after `saveConfigFile` has rewritten `config.iv` leaves neither the old
nor the new configuration readable (`DiskIsWhole` holds until the next save
touches the disk); `unlock` releases nothing; `setLMB` sets the master of the wrong
interface when another thread removes one at the same time; `pread` and
`pwrite` beyond 2 GB go elsewhere or fail; the attributes and the length a File
has asked for itself may be of different moments.

Why the bounds are enough: the interesting cases need two of a thing (two
requests that swap, two savers, two streams with one handle, two documents)
and one disturbance at each possible step; the bounds give that, and a second
fault mostly repeats the effect of the first. The counters (`MaxFaults`, `MaxChanges`, `MaxVersion`, `MaxIVs`,
`MaxKeys`, `MaxCrashes`, `MaxLen`, `Entries`, `MaxSize`, `MaxInterfaces`, and `Files` of the resolver, each made once) are
the only bounds that cut behaviour short, and each is named in a guard. (`MaxKeys` is a number of
keys in use at a time; how many are made has no bound.)
Symmetry is used in runs without liveness properties only.

Each property of a passing run has a mutant: a plausible slip in a mapped
definition (listed next to the definition as `\* Mutant`), under which the same
run finds the property violated.

### Fairness

- `OverlappedRead`, `OverlappedWrite`: the calling thread runs (weak fairness of
  `ReadCaller`, `WriteCaller`), and of_core answers each request, with an error if need be (weak
  fairness of each completion). The code relies on both: `ofc_waitset_wait` has no
  timeout.
- `DirectoryStream`: the search thread runs and a `close()` that has begun goes
  on. No consumer has to do anything.
- `ConfigStore`: a save or load that has begun goes on. `SaveEnds` allows for
  the loop that repeats while key generation fails, or while one key after another
  is refused.
- The other modules state safety only.

## 4. Proofs

The theorems hold for every value of the constants: any number and size of buffers,
of threads, streams, handles, interfaces, files and documents, pathnames of any length, any tree
of paths, any directory, and any number of faults. Each module `X_proofs` has the inductive invariant of `X` as
a conjunction of named parts, a lemma for each action, and one short theorem per
property. Each invariant was first checked with TLC on the instance of the run.

| Module | Invariants and action properties of the runs that are proved |
|---|---|
| `Overlapped_proofs` | of reads and of writes: `TypeOK`, `NoIOAfterReturn`, `BytesLandInPlace`, `ImplementsTransfer`, and `PendingIsOutstanding`, which no run needs; of reads `BytesCounted`, `ReadsAllThereIs`; of writes `NoSilentLoss`, `NoFalseAlarm` |
| `DirectoryStream_proofs` | `TypeOK`, `FreshIsComplete`, `FailureIsReported`, `HandleReleased`; `ListingsGrow` |
| `ConfigStore_proofs` | `TypeOK`, `DiskIsWhole`, `LoadGivesSaved` |
| `FileOps_proofs` | `TypeOK`, `DeleteTrueMeansRemoved`, `MkdirsGetsNearer`, `MkdirsTrueMeansMade`, `ListingIsTrue`; `KnownWasTrue` of `FileCache` |
| `Streams_proofs` | `TypeOK`, `OpenAreOwned`, `ReadsInOrder`, `WritesInOrder`, `ReadsALine` |
| `Resolver_proofs` | `TypeOK`, `ReadersGetTheirEntries`; `LocksFollowTheirDocument`; `IOLandsWhereAsked` of `ResolverIO` |
| `Framework_proofs` | `TypeOK`, `LmbGoesToItsSubnet`, `ObjectsComeBack`, `ParentsLeadUp` |
| `Paths_proofs` | lemmas on the operators, which `Framework_proofs` applies: what is put together and taken apart is the same (`CreatePrint`), `normalize` is idempotent (`NormalizeTwice`), a parent has one name less (`ParentShape`) and makes its child again (`ParentAndName`), `resolve` joins the names of parent and child (`ResolveJoins`) |

### Along which argument

*Transfer engine.* `NoIOAfterReturn` needs that the loop ends with `pending = 0`
(`EndsDrained`), that `pending` is the number of busy buffers, and that a buffer in
flight is busy (`InFlightIsBusy`); the count needs in turn that the priming loop
submits with an idle buffer (`Untouched`), and its type that there are never more
than `i` (`PendingBound`). `BytesLandInPlace` needs the two positions in step
(`Aligned`) and the request in flight to lie within the call (`RequestsInCall`), because
completion moves what was asked for earlier. The lemmas on the loop hold for reads and
writes alike: of the system call they assume only that it moves at most what was asked for
(`Fits`). For the counts, a second
invariant (`AInv`) says that the requests of busy buffers are disjoint parts of what
has been asked for, that nothing of a request in flight has moved (`Placed`), and
that `total` is the number of the bytes moved and collected (`Counted`); a third (`FInv`),
for calls whose requests are all served in full, that each byte below the positions has been moved
or is in flight, and that the loops stop only when there is no more. The refinement
maps a request in flight to an outstanding span of `Transfer`; the steps are matched
one by one, `Cleanup` being the return.

*Directory stream.* While nobody closes the stream, the queue holds every visible
entry up to the place the search has come to (`QueueFollows`). The other parts say
what is left of the fields at each step of `close()` (`TakenDown`), that FRESH is said
only at the end or after a failure (`SearchEnds`), and who has thrown an exception and
whether the task (`TaskFollows`, `ThrownBy`) and the handle (`HandleFollows`) know of the end. A
listing is a prefix of the queue (`ListingFollows`), from which `ListingsGrow` follows.

*Configuration store.* A sure thread is alone among the savers (`Alone`), the
cached key is the store's or null (`KeyHeld`), an intact disk is not
being written (`Quiet`), `CipherAgrees` says what the cipher of a sure thread shares
with the fields and the disk at each of its steps, and a thread that has read the
file has a length cached (`LengthKnown`).

*File.* The paths from one up to the root are the least set with it that is
closed under `Parent` (`Lineage`): this takes the place of an induction over the
depth of a path. Other lemmas say that what clients do keeps the tree a tree. The
invariant says what an undisturbed `mkdirs` knows of the path it is at and its parent
(`Searches`), that a directory whose handle is open for deletion stays empty and in
place (`Doomed`), that a `delete` under way has removed nothing but its target
(`RemovesTarget`), and that a search has each visible entry it has passed that was
there all the time (`Passes`). For the caches: the histories have what is at the path
(`SeenByAll`), and a File from a search has nothing left to ask that the search has
set (`SearchSets`); so what it knows is of one moment.

*Streams.* The invariant says for each place of a call how far it has come: a
read has the bytes of the file in place up to the pointer (`ReadsOn`), a write has
made of the file what overlaying those bytes at once would (`WritesOn`), a line is in
the array up to the pointer or to a carriage return before it (`LineOn`); once a
handle is closed under a call nothing is said of its pointer. That laying one chunk
behind another is laying both, and that a chunk of no bytes lays nothing, are lemmas on
`Overlay`. Ownership needs besides that a stream that is gone has
no handle, and that no stream has one that a failed `finalize()` left open (`Owned`).

*Resolver.* The kernel has locks only for files whose locking channel is open,
and a file that is half made has cost a fault (`Held`); a thread on its way through
`resolver_close` has closed the one channel (`Closings`). A thread that is alone in
`resolver_readdir` finds in the static entry what it has put there, and its cursor
follows what has been seen, or skipped (`Lone`). `LocksFollowTheirDocument` is about steps: with
the types, each action is shown to leave the locks of other documents alone. For
transfers (`IOInv`), until a call strays, the document is what was meant, the offset is where
the returned counts have led, and a thread in the middle of a seek or truncate is the only one and
knows the position it will set.

*Framework.* The invariant has a part for interfaces, one for maps and one for Files, which
share only the last answer; a lemma shows for each action the part it changes, and that it leaves
the others alone. For `setLMB`: until an interface is removed, those that a call has
counted stay where they are and do not match (`Counting`), and those with a master
set are the first of their subnet (`SetForFirst`), since interfaces are only added behind.
For the conversions, what of_core has is one of the structures that `InterfaceIn` allows for the
object in the history, with the master set last (`Made`), and a map is `MapIn` of its object
(`Kept`). For `ParentsLeadUp`: each File is normal, and the number of its names and the
number of parents visited add up to the names of the first (`Climbing`).

*Paths.* That `normalize` is idempotent, and that a parent has one name less, is about
what a recursive function makes of any sequence of characters. As the library's induction
theorems cannot be instantiated, `Paths_proofs` has one of its own, about a set of numbers instead of
a predicate: the least number outside the set is what the step contradicts
(`NatMin` from the well-foundedness of `<`, `Induction`). `Walk` is the graph of
`NamesIn`; `NamesInSpelled` gives the names in a sequence that is spelled with separators in
between, and `PrintShape` where each character of a printed path is. The other lemmas follow
from these two without induction.

### Assumptions

Only those that the modules name, and TLC evaluates each of them: buffers, batches
and bounds are naturals (the number and size of buffers, and `MaxIO`, positive); every version of the configuration has
a file of positive length; the root is no path and every path has a parent (`ParentAssumption` does
not ask that parents lead up to the root, as nothing that is proved needs it); a
native handle is not the null of a FileDescriptor; files, and what is written to
them, are sequences of bytes within the bound of the model. For `Framework`: a null
pointer is none of the addresses, masters, maps and pathnames, and separators and colons are no names
(`AddressAssumption`, `MapAssumption`, `NamesAssumption`); IPv4 and IPv6 addresses are
apart; any part of a Java object may be null except for the name of a map, and the path of a map
is a File, and so normal (`ObjectAssumption`).

### Only model-checked

- `Returns`, `ConsumerIsTold` and `SaveEnds`: liveness under fairness is beyond the
  prover.
- The runs that expect a violation show one behaviour and need no more.

## 5. Not modelled

- The getters and setters of `Framework` for host name, work group, UUID,
  interface discovery and network handle, `load`, `save`, `update`, `println`
  and the heap functions: one call of of_core each, without state here.
- Conversions of Files to and from URIs, `canonicalize`, `authenticate`, and the
  conversions of UUIDs, dates and strings in the utilities. (`toURI` of a path on
  a server makes an authority of the server, which `File(URI)` leaves out; the comment of
  `File(URI)` asks for an undefined authority.)
- of_core, the kernel, the Android framework and the JDK appear as environments:
  what they may answer, derived from how the code uses them (`external` in the map).
- `listRoots`, `getSpace`, filters, and the setters of times and permissions,
  which the native code does not support; `readFully`, flush and sync;
  `expired` of the directory stream; `setConfigKey`; flush, stat, statfs, mkdir,
  unlink, rmdir and rename of the resolver, which pass one call on; the
  registration of the listener, and the exception that a failing
  `resolver_opendir` leaves pending. (When the listener throws, these return the
  undefined result of a JNI call with an exception pending, as `relEnv` only
  clears it; and `resolver_statfs` gives counts of 4096 bytes with a block size of
  512.)
- Conversions of values to bytes in `RandomAccessFile`, but for the sign that `readInt()`
  takes for the end of the file.
- The words of a position: `seek` and `skip` of `fs.c` (2316-2456) put a position of 64 bits
  together from a high word and a signed low one, so that what they return is wrong where the low
  word is negative.
- The kernel is taken to move no byte, and no offset, in a transfer of `ResolverIO` that throws an
  exception.
- FileProvider (taken over from Android), OfcExplorer (a test program),
  headers and build files.

## 6. Plan

Models, in this order:

1. `Streams`: `readFully`, a second application thread.
2. `Resolver`: the registration of the listener, pending exceptions.
3. `Streams`: positions of two words, which `seek` and `skip` put together.

Theorems: the inductive invariants that exist, carried over to these extensions.
