------------------------------- MODULE NodeStore -------------------------------
(***************************************************************************)
(* The node store (src/src/OSMMMap.cpp) over the processes of one import:  *)
(* shard files written through LZ4, merge() into the flat file and its     *)
(* bitmap, select(), crashes of the process and of the machine, and the    *)
(* resumes of main() that README.md documents.                             *)
(*                                                                         *)
(* A set stands for a file's records.  What a process writes to a mapping  *)
(* or a closed file outlives it; what it still buffers does not.  A crash  *)
(* of the machine also takes pages that were not written back, except for  *)
(* those merge() synced.                                                   *)
(***************************************************************************)
EXTENDS Integers, FiniteSets

CONSTANTS Nodes,      \* ids of the nodes of the file
          NumShards,  \* -t
          Chunk,      \* records that fill inbuf, CHUNK_SIZE
          Limits,     \* values of -n
          Faults,     \* subset of {"kill", "power"}
          MaxCrashes  \* bound on the crashes considered

ASSUME NodesAssumption == Nodes \subseteq Nat /\ IsFiniteSet(Nodes)
ASSUME SizesAssumption == /\ NumShards \in Nat \ {0}
                          /\ Chunk \in Nat \ {0}
                          /\ MaxCrashes \in Nat
ASSUME LimitsAssumption == Limits \subseteq Nat /\ Limits # {}

Shards == 0 .. NumShards - 1

VARIABLES
    phase,    \* "nodes" | "merging" | "ways" | "done", or "down": no process
    reached,  \* the phase the process that went down was in
    limit,    \* -n of the running process: max_id_, the mapped size
    least,    \* history: the least -n since the files were created
    todo,     \* nodes not yet inserted
    open,     \* shards with an open ShardWriter
    inbuf,    \* what each writer buffers: inbuf and the tail in LZ4F and stdio
    shard,    \* records written to each shard file
    onDisk,   \* shards whose .lz4 and .bmp exist
    cursor,   \* shard merge() is at
    dat,      \* ids whose coordinates are in the flat file
    bit,      \* ids whose bit is set in its bitmap
    synced,   \* ids whose record and bit the last msync put on the disk
    torn,     \* shards that lost a page inside their LZ4 frame
    exposed,  \* history: nodes not in a closed file when a crash hit merge()
    crashes,
    delta     \* "none" | "open" | "failed": the first runDelta afterwards

runVars   == <<phase, reached, limit, least>>
shardVars == <<todo, open, inbuf, shard, onDisk>>
flatVars  == <<dat, bit, synced>>
vars == <<runVars, shardVars, cursor, flatVars, torn, exposed, crashes, delta>>

------------------------------------------------------------------------------
(* createFile, and the constructor that follows it. *)

InitFor(n) ==
    /\ phase = "nodes"
    /\ reached = "nodes"
    /\ limit = n /\ least = n
    /\ todo = Nodes
    /\ open = Shards
    /\ inbuf = [s \in Shards |-> {}]
    /\ shard = [s \in Shards |-> {}]
    /\ onDisk = Shards
    /\ cursor = 0
    /\ dat = {} /\ bit = {} /\ synced = {}
    /\ torn = {}
    /\ exposed = {}
    /\ crashes = 0
    /\ delta = "none"

Init == \E n \in Limits : InitFor(n)

(* select(id): the bit, then the record, zero if it was never written.     *)
Finds(i) == i \in bit /\ i <= limit
FindsRight(i) == Finds(i) /\ i \in dat

------------------------------------------------------------------------------
(* The node phase *)

(* insert(), called by the node thread that owns shard s: a full inbuf is  *)
(* compressed and written, but for a tail that LZ4F and stdio hold back.   *)
Insert(s, i) ==
    LET filled == inbuf[s] \cup {i}
        full == Cardinality(filled) >= Chunk
    IN
    /\ phase = "nodes"
    /\ i \in todo
    /\ todo' = todo \ {i}
    /\ \E tail \in {{}, {i}} :
          LET rest == IF full THEN tail ELSE filled IN
          /\ inbuf' = [inbuf EXCEPT ![s] = rest]
          /\ shard' = [shard EXCEPT ![s] = @ \cup (filled \ rest)]
    /\ UNCHANGED <<runVars, open, onDisk, cursor, flatVars, torn, exposed, crashes, delta>>

(* node_barrier: its completion enters merge(). *)
StartMerge ==
    /\ phase = "nodes"
    /\ todo = {}
    /\ phase' = "merging"
    /\ cursor' = 0
    /\ UNCHANGED <<reached, limit, least, shardVars, flatVars, torn, exposed, crashes, delta>>

------------------------------------------------------------------------------
(* merge() *)

(* closeWriter(shards_[i]): the buffer is written, the frame ended. *)
CloseShard ==
    /\ phase = "merging"
    /\ cursor \in open
    /\ shard' = [shard EXCEPT ![cursor] = @ \cup inbuf[cursor]]
    /\ inbuf' = [inbuf EXCEPT ![cursor] = {}]
    /\ open' = open \ {cursor}
    /\ UNCHANGED <<runVars, todo, onDisk, cursor, flatVars, torn, exposed, crashes, delta>>

(* One shard too many. *)
SlipAtShard == phase = "merging" /\ cursor <= NumShards /\ cursor \notin open

AtShard == phase = "merging" /\ cursor < NumShards /\ cursor \notin open

(* Records of the shard that are still to be copied; those beyond -n are   *)
(* reported and dropped.                                                   *)
ToCopy == {i \in shard[cursor] : i <= limit /\ ~(i \in dat /\ i \in bit)}

(* writeToMerged: the record, then its bit; both pages may be written back *)
(* before the next msync, but nothing says they are.                       *)
CopyRecord ==
    /\ AtShard
    /\ cursor \in onDisk
    /\ \E i \in ToCopy : dat' = dat \cup {i} /\ bit' = bit \cup {i}
    /\ UNCHANGED <<runVars, shardVars, cursor, synced, torn, exposed, crashes, delta>>

(* The shard's files are deleted before its records are copied. *)
SlipNextShard ==
    /\ AtShard
    /\ onDisk' = onDisk \ {cursor}
    /\ shard' = [shard EXCEPT ![cursor] = {}]
    /\ cursor' = cursor + 1
    /\ UNCHANGED <<runVars, todo, open, inbuf, flatVars, torn, exposed, crashes, delta>>

(* A shard that an earlier merge deleted is waited for. *)
SlipMissingShard ==
    /\ AtShard
    /\ cursor \in onDisk /\ ToCopy = {} /\ cursor \notin torn
    /\ onDisk' = onDisk \ {cursor}
    /\ shard' = [shard EXCEPT ![cursor] = {}]
    /\ cursor' = cursor + 1
    /\ UNCHANGED <<runVars, todo, open, inbuf, flatVars, torn, exposed, crashes, delta>>

(* The whole shard is copied, or there is none: its files are deleted.     *)
NextShard ==
    /\ AtShard
    /\ cursor \in onDisk => ToCopy = {} /\ cursor \notin torn
    /\ onDisk' = onDisk \ {cursor}
    /\ shard' = [shard EXCEPT ![cursor] = {}]
    /\ cursor' = cursor + 1
    /\ UNCHANGED <<runVars, todo, open, inbuf, flatVars, torn, exposed, crashes, delta>>

(* What a process that ends leaves nobody to write. *)
Buffered == UNION {inbuf[s] : s \in Shards}

Dies ==
    /\ inbuf' = [s \in Shards |-> {}]
    /\ open' = {}
    /\ reached' = phase
    /\ phase' = "down"

(* LZ4F_decompress fails somewhere in a torn shard: merge() throws from    *)
(* the noexcept completion of node_barrier, and the process is terminated. *)
MergeAborts ==
    /\ AtShard
    /\ cursor \in onDisk \cap torn
    /\ Dies
    /\ exposed' = exposed \cup Buffered
    /\ UNCHANGED <<limit, least, todo, shard, onDisk, cursor, flatVars, torn, crashes, delta>>

(* merge() returns without the final msync. *)
SlipEndMerge ==
    /\ phase = "merging"
    /\ cursor = NumShards
    /\ phase' = "ways"
    /\ UNCHANGED <<reached, limit, least, shardVars, cursor, flatVars,
                   torn, exposed, crashes, delta>>

(* The final msync of the flat file and the bitmap, both MS_SYNC. *)
EndMerge ==
    /\ phase = "merging"
    /\ cursor = NumShards
    /\ synced' = dat \cap bit
    /\ phase' = "ways"
    /\ UNCHANGED <<reached, limit, least, shardVars, cursor, dat, bit,
                   torn, exposed, crashes, delta>>

(* The rest of the import only reads the store. *)
FinishImport ==
    /\ phase = "ways"
    /\ phase' = "done"
    /\ UNCHANGED <<reached, limit, least, shardVars, cursor, flatVars,
                   torn, exposed, crashes, delta>>

------------------------------------------------------------------------------
(* Crashes *)

Crash ==
    /\ phase \in {"nodes", "merging", "ways"}
    /\ crashes < MaxCrashes
    /\ crashes' = crashes + 1
    /\ Dies

(* The process dies: what is in the page cache stays. *)
Kill ==
    /\ "kill" \in Faults
    /\ Crash
    /\ exposed' = IF phase = "merging" THEN exposed \cup Buffered ELSE exposed
    /\ UNCHANGED <<limit, least, todo, shard, onDisk, cursor, flatVars, torn, delta>>

(* The machine goes down: of the flat file, its bitmap and the shards any  *)
(* page may be lost that was not synced, the end of a shard or the middle  *)
(* of its frame; that a shard was deleted is kept.                         *)
PowerLoss ==
    /\ "power" \in Faults
    /\ Crash
    /\ \E lost \in SUBSET Nodes : shard' = [s \in Shards |-> shard[s] \ lost]
    /\ torn' \in {torn \cup T : T \in SUBSET onDisk}
    /\ dat' \in {synced \cup X : X \in SUBSET dat}
    /\ bit' \in {synced \cup X : X \in SUBSET bit}
    /\ exposed' = IF phase = "merging" THEN Nodes \ synced ELSE exposed
    /\ UNCHANGED <<limit, least, todo, onDisk, cursor, synced, delta>>

------------------------------------------------------------------------------
(* main() again, with the -R that README.md gives for where the run was    *)
(* interrupted and any -n.                                                 *)

RestartNodes ==
    /\ phase = "down"
    /\ \E n \in Limits : limit' = n /\ least' = n
    /\ phase' = "nodes"
    /\ todo' = Nodes
    /\ open' = Shards
    /\ inbuf' = [s \in Shards |-> {}]
    /\ shard' = [s \in Shards |-> {}]
    /\ onDisk' = Shards
    /\ cursor' = 0
    /\ dat' = {} /\ bit' = {} /\ synced' = {}
    /\ torn' = {}
    /\ exposed' = {}
    /\ UNCHANGED <<reached, crashes, delta>>

(* The flat file and its bitmap are grown to what -n asks for, or mapped   *)
(* in part when that is less.                                              *)
Reopen == \E n \in Limits :
              /\ limit' = n
              /\ least' = IF n < least THEN n ELSE least

(* -R merge: the node threads go straight to node_barrier. *)
RestartMerge ==
    /\ phase = "down"
    /\ reached \in {"merging", "ways"}
    /\ Reopen
    /\ phase' = "merging"
    /\ cursor' = 0
    /\ UNCHANGED <<reached, shardVars, flatVars, torn, exposed, crashes, delta>>

(* -R ways and -R relations: the flat file is complete. *)
RestartWays ==
    /\ phase = "down"
    /\ reached = "ways"
    /\ Reopen
    /\ phase' = "ways"
    /\ UNCHANGED <<reached, shardVars, cursor, flatVars, torn, exposed, crashes, delta>>

(* runDelta after the import: one shard is opened for writing, the .lz4    *)
(* file with fopen "wb", the .bmp file without O_CREAT.                    *)
StartDelta ==
    /\ phase = "done" /\ delta = "none"
    /\ delta' = IF 0 \in onDisk THEN "open" ELSE "failed"
    /\ shard' = [shard EXCEPT ![0] = {}]
    /\ UNCHANGED <<runVars, todo, open, inbuf, onDisk, cursor, flatVars, torn, exposed, crashes>>

------------------------------------------------------------------------------

ImportStep ==
    \/ \E s \in Shards, i \in Nodes : Insert(s, i)
    \/ StartMerge \/ CloseShard \/ CopyRecord \/ NextShard \/ EndMerge \/ FinishImport
    \/ MergeAborts

Restart == RestartNodes \/ RestartMerge \/ RestartWays

Next == ImportStep \/ Kill \/ PowerLoss \/ Restart \/ StartDelta

Spec == Init /\ [][Next]_vars

(* The threads are scheduled, and the operator starts an interrupted       *)
(* import again, not for ever with a -R that fails.                        *)
FairSpec == Spec /\ WF_vars(ImportStep) /\ WF_vars(Restart) /\ SF_vars(RestartNodes)

------------------------------------------------------------------------------
(* Properties *)

TypeOK ==
    /\ phase \in {"nodes", "merging", "ways", "done", "down"}
    /\ reached \in {"nodes", "merging", "ways"}
    /\ limit \in Limits /\ least \in Limits
    /\ todo \subseteq Nodes
    /\ open \subseteq Shards
    /\ inbuf \in [Shards -> SUBSET Nodes]
    /\ shard \in [Shards -> SUBSET Nodes]
    /\ onDisk \subseteq Shards
    /\ cursor \in 0 .. NumShards
    /\ dat \subseteq Nodes /\ bit \subseteq Nodes /\ synced \subseteq Nodes
    /\ torn \subseteq Shards
    /\ exposed \subseteq Nodes
    /\ crashes \in 0 .. MaxCrashes
    /\ delta \in {"none", "open", "failed"}

InShards == UNION {shard[s] \cup inbuf[s] : s \in onDisk}
Merged == dat \cap bit
Within == {i \in Nodes : i <= least /\ i \notin exposed}

(* Once a node is inserted it is in a shard that exists or in the flat     *)
(* file, at every moment of a merge, of a crash of the process in it and   *)
(* of the merge that resumes it: a shard is deleted when it is copied, not *)
(* before.                                                                 *)
NoNodeDropped ==
    (phase = "merging" \/ (phase = "down" /\ reached = "merging")) =>
        Within \subseteq InShards \cup Merged

(* The way phase finds every node that the smallest -n had room for with   *)
(* its coordinates, however often the import was killed or lost power and  *)
(* was resumed, except for the nodes that were still in the buffers of an  *)
(* open shard when a crash hit merge().                                    *)
WaysFindNodes == phase \in {"ways", "done"} => \A i \in Within : FindsRight(i)

(* A node that is found is found where it is: no bit is set for a record   *)
(* that was not written, which select() would answer with <0, 0>.          *)
NoPhantomNode ==
    phase \in {"ways", "done"} => \A i \in Nodes \ exposed : Finds(i) => i \in dat

(* The ways look up in the flat file what the import put there, all of it  *)
(* and nothing else, after any deaths, power losses and resumes.           *)
FlatFileRight == WaysFindNodes /\ NoPhantomNode

(* An interrupted import that is started again ends.                       *)
ImportEnds == <>(phase = "done")

(* OSMMMap.h:35-38: on a resume at merge the shard files already contain   *)
(* complete data from the previous run.                                    *)
ResumedMergeComplete ==
    phase = "ways" => \A i \in Nodes : i <= least => FindsRight(i)

(* main.cpp:951-952: runDelta opens what the initial import left behind,   *)
(* just to read the merged file.                                           *)
DeltaOpens == delta # "failed"
==============================================================================
