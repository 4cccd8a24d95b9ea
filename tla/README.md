# A TLA+ model of osm_import

This directory models the program in `src/` that loads an OpenStreetMap PBF file into PostgreSQL/PostGIS and keeps it up to date from OSC change files.  TLC checks the modules on small instances; TLAPS proves the main safety properties for every value of the constants.

    tlc -config MCNodeStore.cfg MCNodeStore.tla       # model-check
    tlapm NodeStoreProofs.tla                         # check proofs

Line numbers below are those of the commit this was written against; `PROJECT.json` maps every definition to its lines.

## 1. The system

| Component | State | Operations | Talks to |
|---|---|---|---|
| Bounded queue, `BlockingQueue<T>` (main.cpp:34-73) | entries, `stop_`, one mutex, two condition variables | `push`, `pop`, `shutdown`, `size` | main pushes; node threads each pop their own, way threads share one |
| Reading loop, `main` (main.cpp:1179-1292) | position in the file, `node_phase`, round robin, resume flags | hand out nodes, end the node phase, wait for the merge, feed `way_q`, record offsets, shut down, join | queues, node store, offset files |
| Node threads, `nodeThread` (main.cpp:540-584) | one `NavDB` and one shard each | project and store a node, flush, arrive at `node_barrier` | node store, database |
| Way threads, `wayThread` (main.cpp:770-897) | one `NavDB` each, `way_phase_done` | assemble ways and areas, meet at `way_barrier`, assemble relations, roads, multipolygons | node store (read), database (read and write) |
| Node store, `OSMMMap` | LZ4 shard files with a bitmap each, the flat file `nodes.dat` and its bitmap | `createFile`, constructor (write or resume), `insert`, `merge`, `select`, `remove` | node threads write shards, the barrier merges, way threads read |
| Database writer, `NavDB` | row and tag buffers per table, one connection | inserts, flushes, finalizers, destructor; updates, deletes, tag diff; truncation, indexes, vacuum, sequence | PostgreSQL |
| Run driver, `main` (main.cpp:990-1173, 1294-1365) | resume phase, `Status` | schema, autovacuum, truncation, indexes, airports, vacuum | all of the above |
| Offset files (main.cpp:401-447) | two positions | written once each per run, read on a resume | reading loop |
| Delta applier | counters; buffers of its `NavDB` | create, modify, delete of nodes, ways, relations; flush | node store, database |
| Replicator (poll mode) | sequence number in the database, stop flag | download, apply, advance | OSC reader, delta applier |
| PBF reader, OSC reader | file position; element being parsed | next batch; parse with a callback | reading loop; delta applier |
| Way classification, multipolygon assembly | none | `isArea`; `stitchRings`, `buildMultipolygon` | way threads |
| Airports loader | none | six downloads, six loads | database |

What is hard, component by component, and what makes each correct:

* **Queue.**  Lost and misdirected wake-ups: `notify_one` under the mutex, `notify_all` after it.  Correct: nobody sleeps on a predicate that is true without a wake-up under way; FIFO; everything pushed before `shutdown` is popped; every loop ends.
* **Threads of an import.**  Two barriers, a spin loop on `merge_done`, queues of bounded length, joins, per-thread buffers with unequal thresholds.  Correct: a way is assembled only from the complete node store, a relation only from all committed ways, every row is written once, the run ends, and the offsets a run leaves never make a later resume skip work.
* **Node store.**  Nodes move from buffers to shards to the flat file, and the shards are deleted while the merge goes on; the process or the machine may stop anywhere and a resume may bring another `-n`.  Correct: an inserted node is never in no file; the way phase finds it, with its coordinates.
* **Database writer.**  Buffers flush by size, tags go by other buffers than rows, a COPY that fails is retried without the row the message names.  Correct: rows and tags of one entity in the tables they belong to, once.
* **Run driver.**  Crash anywhere, resume at the documented phase.  Correct: the same tables as an uninterrupted run; autovacuum on again.
* **Delta and poll.**  Buffered creates against immediate updates, a node store nobody merges, a sequence number stored after piecemeal commits.  Correct: the tables mirror the map after the change file, exactly once.
* **Readers, classification, rings.**  Sequential algorithms with a definition to be compared with.

`PROJECT.json` lists the hazards at their lines, each with the properties that would notice it.  Some have none, because the code does go wrong there: the model does what the code does, the properties except exactly that by name, and *Findings* below lists it.

## 2. Modules

| Module | What it is |
|---|---|
| `QueueContract` | abstract: a bounded FIFO channel that is closed once |
| `BlockingQueue` | `push`, `pop`, `shutdown` with wait sets, notifications and spurious wake-ups |
| `BlockingQueueProofs` | proofs about it |
| `PhasedLoad` | abstract: a load in three phases that do not overlap and never take a row back |
| `ImportPipeline` | reading loop, node threads, way threads, barriers, buffers, database, offsets |
| `ImportPipelineProofs` | proofs about it: types, what each phase sees, rows once, the load complete, offsets, the refinement, progress |
| `NodeStore` | shards, merge, flat file and bitmap under crashes and resumes |
| `NodeStoreProofs` | proofs about it |
| `NavDB` | one thread's database writer: row and tag buffers, COPY, retries, finalizers, destructor |
| `NavDBProofs` | proofs about it |
| `Replicator` | poll mode: sequences, downloads, buffers, failures, crashes, restarts, SIGINT |
| `ReplicatorProofs` | proofs about it |
| `DeltaApplier` | what the changes of a file do to rows, tags and the flat file, against the map they describe |
| `DeltaApplierProofs` | proofs about it |
| `ImportRun` | the import over any number of runs: phases, crashes, `-R`, `-I`, `-t`, truncation, airports, autovacuum |
| `ImportRunProofs` | proofs about it |
| `RingStitcher` | `stitchRings` and `buildMultipolygon`, and what rings and polygons should be |
| `WayClassifier` | `isArea`, and the rule its comment gives |
| `PbfReader` | blobs, primitive blocks and their delta coding, and the encoder the decoder should undo |
| `OscParser` | the element handlers over the events of expat, and the changes a document describes |
| `Algorithms` | these four on any sets of inputs, with their properties |
| `AlgorithmProofs` | proofs of them |
| `MCBlockingQueue`, `MCImportPipeline`, `MCNodeStore`, `MCNavDB`, `MCReplicator`, `MCDeltaApplier`, `MCImportRun` | instances for TLC; where a program ends they add its stuttering step, so that deadlock stays checked |
| `MCData` | enumerated inputs for `Algorithms` |

How they fit together: `BlockingQueue` implements the channel that `ImportPipeline` uses as a queue; `ImportPipeline` implements the phases that `ImportRun` takes as separate; `NodeStore` says what a crash inside `merge()` costs, which is one step in `ImportRun`; `NavDB` is one writer of `ImportPipeline` with its errors; `DeltaApplier` is what a change of `Replicator` does to the tables.

Definitions whose name begins with `Slip` are a definition of the code with one plausible mistake.  Nothing in the specifications uses them: each shows that some property notices the mistake (`mutants` in `PROJECT.json`).

### BlockingQueue

One action per critical section: `StartPush`/`StartPop` is the call, `PushWait`/`PopWait` the predicate found false (the thread joins the wait set and releases the mutex in one step, as `condition_variable::wait` does), `Push`/`Pop` the rest of the body with its `notify_one`, `PopStopped` the return of false.  `AfterNotifyOne` removes any one waiter or none if there is none: which one is the scheduler's choice.  `shutdown` is three actions, because `stop_` is set under the mutex and the two `notify_all` are not.  `SpuriousWake` may wake any waiter at any time.  The pushers push a quota each and then one thread closes, as `main` does.

### ImportPipeline

An entity is its index in the file; its kind (`node`, `bare`, `way`, `loop`, `area`, `stub`, `relation`, `road`, `multi`, `broken`) stands for what the code decides from its tags and references.  A `loop` is a closed way that `isArea` leaves in `ways`, where it is written as a polygon all the same; `mergeWayGeoms` takes lines only (`Lines`), so the geometry of a relation has neither the loops nor the areas among its members, and a road of nothing else is not in `roads`.  A row carries the set of entities its geometry was assembled from at the moment of the lookup: a lookup that comes too early leaves its trace in the row, and the properties compare rows with the `Expected` ones.  Queues are atomic sequences here, which `BlockingQueue` justifies: it implements `QueueContract`.  `MergeShard` takes one shard per step while every other thread goes on.  Buffers keep the unequal tests of `insertWay` (`>=`) and `insertArea`, `insertRoad`, `insertRelation` (`>`) and the staggered threshold.  The start state depends on the `-R` mode: which tables earlier attempts filled, which offset files exist, which rows of a crashed attempt survived the truncation.  `bare`, `stub` and `broken` are the entities that leave no row.

### NodeStore

A set stands for the records of a file.  `inbuf[s]` is all a writer still holds in memory, `inbuf` itself and what LZ4F and stdio hold back, so `Insert` writes a filled chunk but for a tail of its choice.  `CloseShard`, `CopyRecord`, `NextShard` are the loop of `merge()`; `EndMerge` is the final `msync`.  `Kill` takes the buffers and leaves the page cache; `PowerLoss` takes, in addition, any part of what was not `msync`ed, record and bit apart, and may tear a shard so that it does not decompress, in which case `MergeAborts` terminates the process, the exception leaving the `noexcept` completion of the barrier.  A restart follows README.md's table for `-R`: `nodes` from the start, `merge` when the run got that far, `ways` and `relations` when the merge was over, each with any `-n`.  `least` remembers the smallest `-n` since the files were created, for a node beyond it may be gone for good; `exposed` remembers the nodes a crash *inside* `merge()` caught outside a closed file.  These two are history variables: no action reads them but the properties.

### NavDB

The writers of an import share nothing but the tables, to which each appends rows of its own ids, so one writer stands for all: that of a node thread, of a way thread, or of a way thread of `-R relations`.  `plan` holds the calls left of the handler, finalizer or destructor under way, as `nodeThread` and `wayThread` make them; `Insert`, `SkipFlush`, `CopyRows`, `CopyFails`, `RetryStores`, `RetrySkips`, `RetryEnds`, `CopyTags`, `TagsFail` are the steps of one call.  PostgreSQL refuses the rows in `bad`, and those whose key is taken; `Fault` is an error no row is to blame for (a deadlock, a full disk, a lost connection), which may name a line or not.  An exception ends the process, but the destructor logs it and leaves the tables after the one that failed.  The tags of an entity that `allAlphaNum` accepts are a count.

### Replicator

One action per step of `poll()` that can be interrupted: reading the stored sequence, the download of `state.txt`, the comparison, each download, each change of a file, each table of `flush()`, the storing of the sequence.  Of a change it matters only how it reaches the database: modifications and deletions commit at once, created ways and relations with their buffer, created nodes only when a buffer of 20000 is full, because `flush()` has no `finalize_nodes`.  `Write` is a flush of ways or relations: an error makes it drop rows without an exception (`dropped` remembers them, and only properties read it), while one in `flushNodes`, an update or the file is an exception that ends the polling (`ApplyHeld`, `ApplyFails`).  A file is `Jammed` if its created nodes fill a buffer and one of them is in the table: whoever starts with that file meets the row that is there, each time.  `Interrupt` is SIGINT: while `system()` runs curl it ends curl and nothing else.  The process may crash anywhere; the operator may start it again, with `-Q` if there is no sequence.  The model assumes that the node store opens, which it does not after an import (`delta_open` below): it shows what poll mode does once that is mended.

### DeltaApplier

`map` is the OpenStreetMap data that the changes describe.  A change is legal if it leaves no reference dangling, as the OSM API sees to; each handler is one action on the map and, as the code does it, on the tables.  `Insert`, `Flush`, `FlushTags`, `Update` with `Diff` for `diffTags`, and `Delete` are the operations of `NavDB`, written as functions of the database and its buffers, so that a handler reads as the sequence of calls that it is.  Inserts are buffered, with the unequal tests of the buffers; updates and deletions are committed at once.  An insert keeps the tags that are letters and digits in key and value (`Kept`), an update all of them.  Of rows with one key the first stays, and one in `flushNodes` ends the program.  Every closed way is an area here, whatever its tags (`TableFor`): delta mode does not call `isArea`.  The tables begin as an import leaves them (`Stores`): without the ways of fewer than two points and the multipolygons whose rings did not close, with the points of nodes `Projected`, which those of changes are not.  `EndFile` is `flush()`, which leaves the node buffer out; the applier goes on with the next file, so that any sequence of changes may be cut into files anywhere.  Errors and crashes are in `Replicator`.

What the tables do not keep is in `hist`, which no action reads, and the properties except exactly that: `overtaken` entities had a row in a buffer when a later change came, and the older state wins; `lost` ways were modified, and `modifyWay` deletes the row that it then updates, so that they are in no table; `undrawn` ways had fewer than two known nodes; `moved` nodes were created or modified; `born` entities were created, and of the nodes among them the flat file does not learn.  What tags are due to an entity (`DueTags`) depends on whether its last change was an insert or an update.  The multipolygons of the import are excepted by name.

### ImportRun

The operator starts a run with `-R` at any phase no later than the one `known`, which is what the status line showed (`Refresh`) or what was asked for, with any `-t`, or from the beginning with `-I` (`StartAnew`).  `-I` goes through `initializeSchema` statement by statement: it drops the OSM tables, creates them, drops the airports tables and creates those (`dropOsm` to `createAirports`), each table for itself, so that a death in between leaves any part of a schema, empty tables beside full ones and old airports data beside new OSM tables.  A run, which does not look at the schema, goes through `switchOff`, `prepare`, its phases and `switchOn`, and may crash at any step.  If a table is missing, the rows of ways and relations are given up without an error (`CommitRow`), while truncation, nodes, tags, indexes and airports end the run (`TableMissing`).  A phase commits the row and then the tags of each of its entities, in any order; it ends when all are committed, which `ImportPipeline` justifies.  A row is `short` if it was drawn without some of its nodes or ways.  A row that is there already stays and its tags are written again, but for nodes, which end the run.  `merge()` takes the shards of *this* run's threads.  The airports loader commits eight times, two of them into a table without a key; a failed download skips it all.  `setAutovacuum` may fail either way.  `-R reindex`, which the usage text offers, inserts into shards that were not opened and ends.

History notes whose tags are in the tables and will be written again (`doubled`), whether a merge with fewer threads than the shards were created with left some out (`fewer`), whether a load began with airports data in the tables (`kept`), and whether the server refused autovacuum (`onFailed`).

### The sequential algorithms

`RingStitcher`, `WayClassifier`, `PbfReader` and `OscParser` have no state: each defines the code's algorithm and a reference definition that is written from what the result means.  A loop of the code is a recursive function of the number of its turns, from the state of its variables before a turn to that after it: `Turn` for the two loops of `stitchRings`, `Handle` for one event of expat, `Turned` for one batch of the reading loop, `Passed` for the tags of one dense node.  `Algorithms` takes the inputs as constants, six sets of them, of which `InputsAssumption` says only that their elements have the form of an input: a vector of points is not empty, a block is what an encoder is given, a child of an XML element has its attributes.  Each state has one input of one of the sets, and the properties compare what the code makes of it with what it should.  `MCData` gives the sets their bounded values; the proofs are for any.

## 3. Runs

| Run | Instance | What it shows |
|---|---|---|
| `queue` | 2 pushers x 2 entries, 3 poppers, room for 2 | who sleeps has a wake-up coming (`WakeupsSuffice`); every worker's loop ends; implements `QueueContract` |
| `import_safety` | 6 files, 4 start modes, 2 node threads, 3 way threads, queues of 2, buffers that overflow, blobs of 2 | lookups never early (`PhasesInOrder`), rows once, the load complete, offsets safe |
| `import_refinement` | 4 files, 4 start modes, 2 + 2 threads, queues of 1, staggered buffers, blobs of 3 | every import ends and implements `PhasedLoad` |
| `node_store` | nodes 1, 2, 4; `-n` 3 or 5; 2 shards; chunks of 2; 2 crashes of either sort | no inserted node dropped, ways find it and no phantom (`FlatFileRight`); an import that is started again ends |
| `merge_resume` | one kill | **violated**: see below |
| `delta_open` | no crash at all | **violated**: see below |
| `navdb_writer` | 11 entities of all kinds, buffers of 2, 5 rows that may be refused, 2 errors; all three sorts of thread | tags neither lost nor doubled; rows have theirs and only refused ones are missing (`RowsComplete`); every writer ends |
| `relation_tags` | no error at all | **violated**: see below |
| `poll` | 3 sequences, changes of every sort, buffers of 2, 2 errors, a crash, a SIGINT, any number of restarts | no sequence stored ahead of its changes; changes in turn, repeated only after failures; everything published is applied in the end, unless a file is jammed |
| `delta_apply` | 11 entities, tags with and without a space, 4 changes in files of any length, buffers of 1 and 2 rows, node buffer of 2 | relations and roads agree, the tags that are due once in the right table, rows of relations and of ways that were not modified, nothing of what is deleted, ways through the nodes of the import; all but what `hist` names |
| `import_run` | 2 nodes, a way, a multipolygon, a relation; 1 or 2 threads; 1 crash anywhere, also within `-I`, any number of runs | a resume finds what it takes for granted; a finished import has rows and tags once, airports whole or not at all, autovacuum on; an import that is begun again gets done |
| `data` | some 16 000 inputs | rings run along members, holes are cut out, ways are classified as documented, blocks and files are read as meant, changes arrive |

**Why these bounds suffice.**  A wake-up is lost or misdirected among two waiters of one sort with a third thread to steal the predicate: 3 poppers and 2 pushers have both, and a queue of 2 is empty, partly full and full.  In the pipeline, a barrier is wrong when one thread is past it while another holds a way: 3 way threads let one sit in `cleanup`, one at the barrier and one at work; files of 3 to 9 entities put each boundary between phases inside a blob and at its start, leave out nodes' tags, relations, or ways with geometry, and overflow every buffer by one; one file has a road whose members are all closed.  In the node store, 2 shards are the one that is copied and the one that is not; a chunk of 2 leaves a buffer empty, with one record, and flushed with a tail; the ids lie on both sides of the smaller `-n`; two crashes are a crash and a crash of its resume.  In the writer, buffers of 2 overflow by their own tests and leave rows for the finalizer or the destructor, with and without tags; a refused row comes alone, with good ones and in every table; two errors strike a COPY and its retry, or the rows and then the tags.  In poll mode, three sequences are one before, one at and one after a failure; the nodes of the second file fill the buffer with those of the first or of the third, and those of the third alone, so that a node may be written with its own file or with a later one, and a crash behind it may jam the third file.  In the third file what is applied at once comes after the nodes, for a jammed file would repeat it without end.  In `delta_apply`, the ways lie in each table and move between them, one is too short to be drawn, a new way and a new relation may be created, changed, deleted and created again, one node may go and come back, and a name has a space in it; four changes are the fewest that delete and create again a way with the relation that needs it, and a buffer of one row writes at once where one of two leaves a row behind a later change.  In `import_run`, every order of commits is within a phase of two entities, a phase of one and one of another after it; a crash is an end in the middle, and the runs that die by themselves are not counted as crashes, so that a resume of a resume occurs, also on half a schema.  The proofs cover any number of crashes.  In `data`, rings have up to four members on four corners, so that three may meet in a point, run twice and lie in every direction; relations have a shell in one or two members and holes on every point of a grid around it; ways have up to three of all the tags that `isArea` looks at; blocks have up to three dense nodes and three members; files up to three blobs; documents up to two blocks of two.

**Fairness.**  Weak fairness of each thread: an operating system runs a thread that can run, and the spin loop of `main` polls.  Pipeline actions of different threads have separate conditions, for nothing in the code prefers one thread.  No strong fairness is assumed of the threads: the mutexes are held briefly and queue operations are retried by the library.  `NodeStore` assumes of the *operator* that an interrupted import is started again (weak fairness of `Restart`), and that not for ever with a `-R` that keeps failing (strong fairness of `RestartNodes`); without the second, a torn shard makes `-R merge` fail each time, as it does in the code.  `NavDB` has one thread.  `ImportRun` assumes that a run goes on (weak fairness of its steps) and that the operator does not for ever resume an import that keeps dying but starts it from the beginning (strong fairness of `StartAnew`).  `Replicator` assumes that the server publishes, that the process runs and that the operator starts it again when it has ended.

**Bounds in guards.**  `Quota` of a pusher; `MaxCrashes`, `MaxFaults`, `MaxSignals`, the crashes, errors and signals of a run; `MaxSeq`, the sequences the server publishes; `MaxChanges`, the changes of a behaviour.  Nothing else is capped.

### Findings

* `merge_resume`: `merge()` flushes and closes the writer of shard *i* only at the top of iteration *i* of its own loop (OSMMMap.cpp:357).  A process killed in `merge()` leaves the shards not yet reached without their buffered tails, and `-R merge` copies what is there and deletes the shard without a message.  OSMMMap.h:36-38 and README.md:178 say the shards are complete.  `FlatFileRight` holds for all the nodes that are not `exposed` in this way.
* `delta_open`: `runDelta` opens the node store for writing shards; `shard0.bmp`, which it opens without `O_CREAT`, was deleted by `merge()` at the end of the import, so the constructor throws.  The comment at main.cpp:951-952 says only the merged file is read.
* `relation_tags`: roads and relations push tags into one buffer, and `finalize_roads` after every entity writes all of it to `road_tags` (NavDB.cpp:108, :118, main.cpp:886); README.md:37-38 gives each its own table.

What follows the models hold without a run of its own; the properties except it by name.

* *Resume.*  `truncateForResume("relations")` leaves the multipolygons in `areas` and `("ways")` leaves `relations` and `roads` (NavDB.cpp:573-574), so rows of the earlier run stay and their tags are written twice; main.cpp:1116-1119 says the tables are emptied so that this cannot happen (`doubled` in `ImportRun`).  `-R merge` with a smaller `-t` than the run before leaves shards out, and the ways are drawn without their nodes (`fewer`).  A run resumed in the load does not empty the airports tables and dies at the first row it finds there (`kept`).  A run on what a death in `initializeSchema` left ends at the first table it misses.  A failed download leaves them empty, without an error (AirportsLoader.cpp:370).  `-R reindex` dies at its first insert (main.cpp:334); `-R indexing`, `airports` and `vacuum` are refused without `-i` (main.cpp:391), while README.md shows them without.
* *Writer.*  A passing error in a flush of ways or relations drops rows, and in poll mode the sequence is stored all the same (NavDB.cpp:215-219; `dropped` in `Replicator`).  `tryCopyBatch` returns the number of rows it gave up, not of those it wrote (NavDB.cpp:237; `report` in `NavDB`).
* *Poll.*  A file whose node buffer was flushed before a crash, or before an error later in the file, fails at `flushNodes` each time it is applied again, for its rows are there (NavDB.cpp:176), and nothing after it is ever applied, although Replicator.h:19 promises all pending sequences; what stands before its nodes is applied each time (`Jammed`, which `CatchesUp` and `RepeatedByFailure` except).  Created nodes stay in their buffer when the sequence is stored, and `_exit` drops them (DeltaApplier.cpp:149-153, main.cpp:985).  Ctrl+C while curl downloads `state.txt` ends curl but not the program, and a sequence that cannot be downloaded ends `poll()` for good.
* *Delta.*  Inserts leave out the tags that are not letters and digits (NavDB.cpp:59), updates and `diffTags` do not (NavDB.cpp:392-442): a way has `name=Main Street` in its tags from its first modification on.  The point of a changed node is stored unprojected, in degrees (DeltaApplier.cpp:160, :168), that of an imported one in metres (main.cpp:563-571).  A modified way loses its row (DeltaApplier.cpp:200).  A change of an entity that was created earlier in the file finds no row, and the buffered one is written after it.  Created and modified nodes go to a shard that nothing merges, so ways are drawn through the old places, and a moved node changes no geometry.  A node that gains its first tags gets no row (DeltaApplier.cpp:174).  The multipolygons of the import are under their negative id in `areas`, where no handler looks.
* *Algorithms.*  `isArea` tests tags for lines before tags for areas (main.cpp:479-490 against :517), and a closed way that it leaves in `ways` is written as a polygon there (main.cpp:166-190).  `stitchRings` closes an open chain by force (main.cpp:644), where main.cpp:598-600 speaks of rings that cannot be assembled, whose relation is then stored with an empty geometry: it is not stored at all (main.cpp:855).  A PBF file that is cut off ends like a complete one, and a blob that is not compressed by zlib is passed over (OSMReader.cpp:113).

## 4. Proofs

All for arbitrary constants under the named assumptions of the modules: sizes are positive naturals, ids and limits naturals, files sorted by kind as PBF files are.

* **BlockingQueueProofs.**  `TypeCorrect` needs the order of calls (`CallOrder`: the closer starts after the pushers are done).  The wake-up properties are inductive with it: each counts the awake threads whose predicate is true, and each action either keeps the count or falsifies the predicate.  `WakeupsReachAll`, `DeadlockFree`, `ShutdownReachesAll` and `QueueDrained` follow from the wake-up properties and the order of `shutdown`'s three steps.  `QueueKeepsContract` is the safety part of the refinement: the first state and every step of the queue are those of `QueueContract`, or leave the channel as it is.
* **ImportPipelineProofs.**  `TypeInv` adds to the types that a thread has an entity in hand exactly in the states that need one.  `NodeInv` follows a node: it is before the reader, in one node queue, in a shard or merged (`NodesPlaced`), nothing else gets there (`NodesOnly`), a node thread ends with an empty queue (`NodesEnd`), the merge is ordered (`MergeOrder`), and nothing but the file's tail is fed before the merge is over (`FeedAfterMerge`).  From this `WaysSeeNodes`.  `WayInv` follows a way: rows in buffers and tables are right (`RowsRight`); a way is ahead of the reader, in `way_q`, in a hand, in a buffer or committed (`WaysPlaced`); `way_q` is sorted (`QueueOrder`); a thread whose hand holds a relation leaves no way in the queue (`WaysBehind`); a thread that has arrived at the barrier holds no unflushed way (`ArrivedClean`), nor does anybody once one has passed (`BarrierInv`).  From this `RelationsSeeWays` and `CommittedRight`; `PhasesHold` is both phases together.

  `LoadInv` follows the rows: each expected row is in a table, in a buffer, or its entity is still on its way (`RowsPlaced`), which for the rows of nodes goes by the node threads' buffers (`NodeRowsPlaced`); nobody ends with rows in a buffer (`NodesFlushed`, `BufferPhase`), and no thread ends while the queue is not empty (`QueueOver`).  From this `LoadIsComplete`.  `OnceInv`: no entity is in two hands (`HandsDistinct`), and a row that is buffered or was committed by this run is of an entity that no queue holds any more (`RowsHandled`) and is in no other buffer (`RowsApart`); from this `RowsInsertedOnce`.  `OffsetsAreSafe` needs only what the reading loop has passed.  `LoadInPhases` is the safety part of the refinement: every step of the threads is a step of `PhasedLoad` or leaves its tables as they are.  Two more say what `Completes` rests on, without fairness.  `ImportNeverStuck`: until all is loaded, the condition of some step is true (`CanGoOn`, a disjunction of the guards; TLC finds it equivalent to ENABLED Next on both instances).  Its invariant `OrderInv` is the order of the shutdowns (`StopsInOrder`) and that threads leave a barrier together (`NodesTogether`, `WaysTogether`): a full queue has a thread that pops it, an empty one a main() that feeds or stops it, and who waits at a barrier waits for a thread that is neither done nor stuck.  `EveryStepUsesUp`: `Todo` is the finite set (`WorkIsFinite`) of the entities to read, store, pop and deal with, the shards to merge and the states the threads have before them, and each step takes something out of it and puts nothing in, because no entity is queued twice (`NodesQueuedOnce`, `QueueOrder`, `HandsDistinct`).
* **NodeStoreProofs.**  `StoreInv` says what the files hold in each phase: in the node phase what was inserted is in a shard or its buffer; from the merge on a node within `least` that is not exposed is in a shard that exists or in the flat file; after it, it is synced.  It holds over any number of kills, power losses, failed merges and resumes.  `NodesKept`, `NodesFound`, `NoPhantoms` and, of the last two, `FlatFileHolds` follow.
* **NavDBProofs.**  `WriterTyped` needs that every call in `plan` names a table and an entity of the instance.  `NoTagLost` is inductive with it: what an insert pushes is counted in one buffer or in one table, each copy moves a whole buffer, and no failure touches either.  `RowsArriveComplete`: the calls that are planned are those the threads make, and the step under way is one of the first of them (`Shape`); the row of an entity with tags is buffered together with its tags, and a row whose tags are not in the table yet has them in the buffer (`BufferedTagged`, `CommittedTagged`); nothing is stored that was not given to the writer (`Sound`); and as long as no error struck, a row that is due is committed, buffered, planned or of an entity not yet taken up (`AllPlaced`), with a flush planned for each row that is left when the destructor runs (`ClosingFlushes`).
* **ReplicatorProofs.**  `PollInv`: the loop is at the sequence after the stored one (`Position`); buffered creates are those of the file under way, or of one given up, after which the process ends (`Buffers`); up to the parser's position every change is committed, buffered or dropped, and before the sequence is stored no longer buffered (`Progress`).  From this `NothingSkipped`, and step by step `AppliedInTurn`.  `RepeatedOnlyByFailure` needs more: `OnceInv`.  A change is applied once more than there were failures only after it has been read in this attempt, and one that is still to be read, or waits in a buffer, at most as often as there were failures (`Bounded`); nothing of a file beyond the next one is committed (`Ahead`), of the next one's nodes the first ones are (`FirstNodes`), and the node buffer is never full outside a flush (`HeldRoom`).  The critical step is `flushNodes` throwing without a failure that counts: either the buffer holds nodes left over from the file before, so that this is the first attempt at the next file (`FirstTry`), or that file is jammed and stays so (`Doomed`, `JamStays`).
* **DeltaApplierProofs.**  For any import, any changes that are legal and any cutting into files.  The database and its buffers are one record, `Db`, and each of `Insert`, `Flush`, `FlushTags`, `Update` and `Delete` has a lemma that says what it does to the row and the tags of the entity at hand, and one (`Keeps`) that it takes nothing from any other.  `Holds` and `TagsDue` say that a row, or the tags due to an entity (after an insert `Kept`, after an update all), are in the table, or alone in the buffer with nothing of it in the table; `DueInv` says of every entity on the map that was not `overtaken` that it holds in its tables what its last version calls for (`WayDue`, `RelationDue`), and of one that is not on the map that nothing of it is anywhere (`Gone`).  Each handler has a lemma that it restores this for its own entity, the frame lemma `ChangeDue` that it keeps it for the others, which rests on legality (`Refs`, no reference dangles) and on what the flat file knows (`Flat`).  The end of a file empties every buffer but that of the nodes, so that what was due is in the tables: `RoadsFollow`, `RowsFollow`, `TagsFollow`, `WaysDrawn` follow from `EverythingDue`.
* **ImportRunProofs.**  `RunInv`, for any file, any `-t` and any number of runs and crashes.  `Control`: a run that has not come to its phase was asked for what is known, and later it is never behind what is known, so that `Reach`, the phase that was reached, is at least `Rank(known)`.  `Progress`: within a phase, what is no longer to be done has its row, and its tags unless they are owing.  `Reached`: what is committed once a phase has been reached, be it by working or by being resumed there; one lemma per way to get there (`PhaseDone`, `CommitKeeps`, `PrepareKeeps`, `MergeKeeps`) shows that no later step, no crash and no truncation takes it back.  `ShortOnlyIfFewer`: a geometry lacks points only if a merge left shards out, because a phase draws from complete ones (`DrawnWhole`).  `TagsInTurn`: what is still to be written has no tags yet, or history knows that it has.  `SchemaInTurn`: a table of tags exists only with all tables of rows, as `initializeSchema` creates them last and drops them first, so that a run which gives a row up for want of its table dies for want of the tags' before its phase is over.  `AirportsInTurn`: the parts of the airports data that the loader has written are the first ones, each once, and without the first there is none, since `countries` is dropped last; what `DropTables` and `CreateTables` do is in `DropEffect`, `CreateEffect` and `NextLast`.  `ResumeIsSafe`, `LoadIsOnce`, `AirportsAreOnce` and `AutovacuumReturns` follow.

* **AlgorithmProofs.**  A state holds one input (`InputGiven`), so that each property is a statement about one call of a function, for inputs of any size; the work is in what the recursive functions compute.  The library's induction takes a predicate as parameter, which no prover here can instantiate.  So induction is done on sets: `LeastNatural` finds the least element of a set of naturals from the well-foundedness of `<`, `UpTo` is induction for the set of numbers at which something holds, and `Recursion` builds a function that is defined by recursion, so that the CHOOSE behind it has a value.  With them `Flattened` says what `FlattenSeq` gives.
  - `AreasDecided` is propositional, with sets of tags of any size.
  - `BlocksAndFilesRead`: the sums of the differences are the values (`SumsOfDeltas`); the tags of the *n*-th dense node begin behind the delimiter of the one before (`TagsBeginStep`, `DenseStand`, by induction on the nodes), also where no node has tags and there is no array (`DenseTagsRead`); from these `GroupRead` and `BlockRead`.  Of a file, after each turn of the reading loop what has been delivered is what the blobs before its position mean, as far as they are whole (`ReadTo`, kept by `ReadStep`).
  - `ChangesDelivered`: parsing is a homomorphism on joined sequences of events (`ParsedJoined`, `ParsedFlat`), so that what a child, an entity and a block do to the parser's state is proved once each and put together by induction on their number (`ChildStarted`, `ChildParsed`, `EntityParsed`, `BlockParsed`, `DocumentParsed`).  That a document which breaks off gives the first part follows from `OutGrows`: no event takes a change back.
  - `RingsStitched`: two invariants of the turns of `stitchRings`.  `Along`: the ring grows along edges of its segments, and if the ends of the segments pair up, then at each point the number of ends left, with the two ends of the ring, stays even (`Paired`), so that a ring that nothing continues is closed already and no edge is invented.  `Chained`, where two ends meet at each point: the segments are those of finished chains *F*, which nothing outside touches (`Apart`), those *C* of the ring under way, which lie in one chain (`Linked`) and of which nothing left meets any but at the open ends (`Loose`), and those left; the ring has all edges of *C* and as many points (`Covers`), and the rings kept are those of the chains in *F* that are long enough (`Delivered`).  When the ring ends, *C* is a whole chain (`ChainEnds`).
  - `HolesCut`: a ring that meets rays from a point in all four directions has the point within its box (`AroundInBox`), so that the box test never leaves a hole out; which holes it cuts in addition is not claimed.

**Only model-checked.**  Liveness (`WorkersEnd`, `Completes`, `ImportEnds`, `WriterEnds`, `CatchesUp`, `ImportDone`) and the fairness part of the two refinements (`ImplementsContract`, `ImplementsPhasedLoad`): the prover has no ENABLED and no liveness under fairness.  The violations of the three runs that expect one.  All invariants and action properties of the passing runs are theorems, and of `Completes` what it rests on is proved: no import is stuck, and none takes more than a bounded number of steps.

## 5. Not modelled

Logging; the counters and rates of `Status`, which are for display; the parsing of numbers, dates and attributes; protobuf, zlib, the projection and the byte layout of WKB and hex, which have no state; the columns of the airports tables; the columns and plain indexes of the schema and its table of the replication state, which an import does not read; the `airports_load` command, which parses three options and calls the loader; `-I` together with `-R`; and the dead copies `cpp` and `tmp/NavDB.cpp`, which CMakeLists.txt does not build.  Within what is modelled: coordinates are left out (a record is there or not), the shards' own bitmaps are left out because `merge()` does not read them, failures to open files other than `shard0.bmp` are left out, and `NodeStore` and `ImportPipeline` keep one `-t` (another one is in `ImportRun`).  `DeltaApplier` orders the rows of `getWayCoordsMap` as the members are; the query gives no order.  Tags are stored there as how often a key and a value are in a table, since the order of tag rows means nothing.  Two nodes never lie in one place there, so that a closed way is one whose first and last references are equal.

## 6. Plan

Done, in this order: the queue, the import pipeline, the node store, the database writer, poll mode, the delta applier, the import run, the sequential algorithms, and the proofs of every invariant.  What is left are proofs:

1. What liveness rests on, as `ImportNeverStuck` and `EveryStepUsesUp` say it of the import, for the writer (`WriterEnds`) and for an import that the node store sees to its end (`ImportEnds`).
2. That a `BlockingQueue` whose entries are taken up once moves all of them, as `EveryStepUsesUp` does for the threads around it.
