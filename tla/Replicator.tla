------------------------------ MODULE Replicator ------------------------------
(***************************************************************************)
(* Poll mode (src/src/Replicator.cpp, runDelta in src/src/main.cpp): the   *)
(* loop of poll(), the sequence number in the database, downloads by curl  *)
(* under system(), the changes of a file one by one, flush(), failures,    *)
(* crashes, restarts and SIGINT.                                           *)
(*                                                                         *)
(* Of a change it matters only how it reaches the database: "direct" ones  *)
(* (modify, delete) commit at once, created ways and relations with the    *)
(* flush() that ends the file or when their buffer is full, created nodes  *)
(* only when their buffer is full.  Its tags go the same way.              *)
(***************************************************************************)
EXTENDS Integers, Sequences, FiniteSets

CONSTANTS MaxSeq,     \* sequences the server publishes
          Files,      \* the changes of each
          Room,       \* rows that fill the buffers of ways and relations
          NodeRoom,   \* NODE_BUFFER_SIZE
          MaxFaults,  \* bound on failed downloads, parses and transactions
          MaxCrashes, \* bound on the crashes of the process
          MaxSignals  \* bound on the SIGINTs

Tables == {"way", "relation"}
Kinds == {"direct", "node"} \cup Tables

ASSUME FilesAssumption ==
    /\ MaxSeq \in Nat
    /\ Files \in [1 .. MaxSeq -> Seq(Kinds)]
ASSUME BoundsAssumption ==
    /\ Room \in Nat /\ NodeRoom \in Nat \ {0}
    /\ MaxFaults \in Nat /\ MaxCrashes \in Nat /\ MaxSignals \in Nat

Changes == UNION {{<<s, i>> : i \in 1 .. Len(Files[s])} : s \in 1 .. MaxSeq}
How(c) == Files[c[1]][c[2]]

VARIABLES
    published, \* sequenceNumber in the server's state.txt
    stored,    \* osm_replication_state, -1 if there is none
    times,     \* how often each change was committed
    dropped,   \* history: rows that a flush has given up
    pc,        \* where poll() is, "ended", or "down" after a crash
    local,     \* poll()'s variables
    remote,
    seq,
    pos,       \* change of the file that the parser has reached
    buf,       \* creates in the buffers that flush() empties
    held,      \* creates in the node buffer
    stop,      \* g_stop
    faults,
    crashes,
    signals

dbVars == <<stored, times, dropped>>
pollVars == <<local, remote, seq, pos>>
bufVars == <<buf, held>>
boundVars == <<faults, crashes, signals>>
vars == <<published, dbVars, pc, pollVars, bufVars, stop, boundVars>>

Init ==
    /\ published = 0
    /\ stored \in {-1, 0}
    /\ times = [c \in Changes |-> 0]
    /\ dropped = {}
    /\ pc = "loop"
    /\ local = 0 /\ remote = 0 /\ seq = 0 /\ pos = 0
    /\ buf = {} /\ held = {}
    /\ stop = FALSE
    /\ faults = 0 /\ crashes = 0 /\ signals = 0

(* The server *)
Publish ==
    /\ published < MaxSeq
    /\ published' = published + 1
    /\ UNCHANGED <<dbVars, pc, pollVars, bufVars, stop, boundVars>>

Fault == faults < MaxFaults /\ faults' = faults + 1 /\ UNCHANGED <<crashes, signals>>

------------------------------------------------------------------------------
(* poll() *)

Stop ==
    /\ pc = "loop" /\ stop
    /\ pc' = "ended"
    /\ UNCHANGED <<published, dbVars, pollVars, bufVars, stop, boundVars>>

(* getReplicationSequence: no row and any error are both -1. *)
ReadLocal ==
    /\ pc = "loop" /\ ~stop
    /\ \/ local' = stored /\ UNCHANGED boundVars
       \/ local' = -1 /\ Fault
    /\ pc' = "state"
    /\ UNCHANGED <<published, dbVars, remote, seq, pos, bufVars, stop>>

(* remoteSequence: an exception is caught and the loop sleeps. *)
ReadRemote ==
    /\ pc = "state"
    /\ \/ remote' = published /\ pc' = "compare" /\ UNCHANGED boundVars
       \/ pc' = "sleep" /\ Fault /\ UNCHANGED remote
    /\ UNCHANGED <<published, dbVars, local, seq, pos, bufVars, stop>>

(* The loop starts at the stored sequence instead of the next one. *)
SlipCompareAgain ==
    /\ pc = "compare"
    /\ \/ local < 0 /\ pc' = "ended" /\ UNCHANGED seq
       \/ local >= 0 /\ local >= remote /\ pc' = "sleep" /\ UNCHANGED seq
       \/ local >= 1 /\ local < remote /\ pc' = "next" /\ seq' = local
       \/ local = 0 /\ local < remote /\ pc' = "next" /\ seq' = 1
    /\ UNCHANGED <<published, dbVars, local, remote, pos, bufVars, stop, boundVars>>

(* The newest sequence is left for later. *)
SlipCompareEarly ==
    /\ pc = "compare"
    /\ \/ local < 0 /\ pc' = "ended" /\ UNCHANGED seq
       \/ local >= 0 /\ local + 1 >= remote /\ pc' = "sleep" /\ UNCHANGED seq
       \/ local >= 0 /\ local + 1 < remote /\ pc' = "next" /\ seq' = local + 1
    /\ UNCHANGED <<published, dbVars, local, remote, pos, bufVars, stop, boundVars>>

(* Without a sequence of its own, poll() breaks. *)
Compare ==
    /\ pc = "compare"
    /\ \/ local < 0 /\ pc' = "ended" /\ UNCHANGED seq
       \/ local >= 0 /\ local >= remote /\ pc' = "sleep" /\ UNCHANGED seq
       \/ local >= 0 /\ local < remote /\ pc' = "next" /\ seq' = local + 1
    /\ UNCHANGED <<published, dbVars, local, remote, pos, bufVars, stop, boundVars>>

Sleep ==
    /\ pc = "sleep"
    /\ pc' = "loop"
    /\ UNCHANGED <<published, dbVars, pollVars, bufVars, stop, boundVars>>

NextSequence ==
    /\ pc = "next"
    /\ pc' = IF seq <= remote /\ ~stop THEN "fetch" ELSE "loop"
    /\ UNCHANGED <<published, dbVars, pollVars, bufVars, stop, boundVars>>

(* A file that is not downloaded or not applied ends the polling. *)
GiveUp == pc' = "loop" /\ stop' = TRUE

(* downloadFile; the parser starts at the file's first change. *)
Fetch ==
    /\ pc = "fetch"
    /\ \/ pc' = "apply" /\ pos' = 1 /\ UNCHANGED <<stop, boundVars>>
       \/ GiveUp /\ Fault /\ UNCHANGED pos
    /\ UNCHANGED <<published, dbVars, local, remote, seq, bufVars>>

Current == <<seq, pos>>
Reading == pc = "apply" /\ pos <= Len(Files[seq])

Commit(S) == times' = [c \in Changes |-> IF c \in S THEN times[c] + 1 ELSE times[c]]

(* flushViaTemp, flushRelations: when the COPY fails some rows are given   *)
(* up, and nothing is thrown; rows that are there already are skipped.     *)
Write(rows) ==
    \E lost \in SUBSET rows :
       /\ Commit(rows \ lost)
       /\ dropped' = (dropped \ rows) \cup lost
       /\ IF lost = {} THEN UNCHANGED boundVars ELSE Fault

Rows(t) == {c \in buf : How(c) = t}
IsFull(t, n) == IF t = "way" THEN n >= Room ELSE n > Room

(* updateX and deleteEntity, in transactions of their own *)
ApplyDirect ==
    /\ Reading /\ How(Current) = "direct"
    /\ Commit({Current})
    /\ pos' = pos + 1
    /\ UNCHANGED <<published, stored, dropped, pc, local, remote, seq, bufVars, stop, boundVars>>

(* insertWay, insertRelation: a full buffer is flushed. *)
ApplyBuffered ==
    LET rows == Rows(How(Current)) \cup {Current}
        full == IsFull(How(Current), Cardinality(rows))
    IN
    /\ Reading /\ How(Current) \in Tables
    /\ buf' = IF full THEN buf \ rows ELSE buf \cup rows
    /\ Write(IF full THEN rows ELSE {})
    /\ pos' = pos + 1
    /\ UNCHANGED <<published, stored, pc, local, remote, seq, held, stop>>

(* insertNode: flushNodes throws when a row is there already. *)
ApplyHeld ==
    LET rows == held \cup {Current}
        full == Cardinality(rows) >= NodeRoom
        taken == \E c \in rows : times[c] > 0
    IN
    /\ Reading /\ How(Current) = "node"
    /\ IF full /\ taken
       THEN /\ held' = rows
            /\ GiveUp
            /\ UNCHANGED <<times, pos>>
       ELSE /\ held' = IF full THEN {} ELSE rows
            /\ Commit(IF full THEN rows ELSE {})
            /\ pos' = pos + 1
            /\ UNCHANGED <<pc, stop>>
    /\ UNCHANGED <<published, stored, dropped, local, remote, seq, buf, boundVars>>

(* A transaction or the parser fails within the file. *)
ApplyFails ==
    /\ pc \in {"apply", "flush", "store"}
    /\ GiveUp /\ Fault
    /\ UNCHANGED <<published, dbVars, pollVars, bufVars>>

EndOfFile ==
    /\ pc = "apply" /\ pos > Len(Files[seq])
    /\ pc' = "flush"
    /\ UNCHANGED <<published, dbVars, pollVars, bufVars, stop, boundVars>>

(* The buffer is not cleared. *)
SlipFlush ==
    /\ pc = "flush"
    /\ \E t \in Tables :
          /\ Rows(t) # {}
          /\ t = "relation" => Rows("way") = {}
          /\ Write(Rows(t))
    /\ UNCHANGED <<published, stored, pc, pollVars, bufVars, stop>>

(* flush(): finalize_ways, finalize_roads, finalize_relations, one table   *)
(* after the other, but not finalize_nodes                                 *)
Flush ==
    /\ pc = "flush"
    /\ \E t \in Tables :
          /\ Rows(t) # {}
          /\ t = "relation" => Rows("way") = {}
          /\ Write(Rows(t))
          /\ buf' = buf \ Rows(t)
    /\ UNCHANGED <<published, stored, pc, pollVars, held, stop>>

(* finalize_relations is left out. *)
SlipFlushed ==
    /\ pc = "flush" /\ Rows("way") = {}
    /\ pc' = "store"
    /\ UNCHANGED <<published, dbVars, pollVars, bufVars, stop, boundVars>>

Flushed ==
    /\ pc = "flush" /\ buf = {}
    /\ pc' = "store"
    /\ UNCHANGED <<published, dbVars, pollVars, bufVars, stop, boundVars>>

(* The number of the next sequence is stored. *)
SlipStoreSequence ==
    /\ pc = "store"
    /\ stored' = seq + 1
    /\ seq' = seq + 1
    /\ pc' = "next"
    /\ UNCHANGED <<published, times, dropped, local, remote, pos, bufVars, stop, boundVars>>

StoreSequence ==
    /\ pc = "store"
    /\ stored' = seq
    /\ seq' = seq + 1
    /\ pc' = "next"
    /\ UNCHANGED <<published, times, dropped, local, remote, pos, bufVars, stop, boundVars>>

------------------------------------------------------------------------------
(* Signals, crashes, restarts *)

(* sigintHandler.  While system() runs the process ignores SIGINT, which   *)
(* ends curl: the download fails.                                          *)
Interrupt ==
    /\ pc \notin {"ended", "down"}
    /\ signals < MaxSignals
    /\ signals' = signals + 1
    /\ \/ stop' = TRUE /\ UNCHANGED pc
       \/ pc = "state" /\ pc' = "sleep" /\ UNCHANGED stop
       \/ pc = "fetch" /\ GiveUp
    /\ UNCHANGED <<published, dbVars, pollVars, bufVars, faults, crashes>>

Crash ==
    /\ pc \notin {"ended", "down"}
    /\ crashes < MaxCrashes
    /\ crashes' = crashes + 1
    /\ pc' = "down"
    /\ buf' = {} /\ held' = {}
    /\ UNCHANGED <<published, dbVars, pollVars, stop, faults, signals>>

(* Poll mode is started again, with -Q when the database has no sequence.  *)
(* What the process before it buffered is gone: it left with _exit.        *)
Restart ==
    /\ pc \in {"ended", "down"}
    /\ stored' = IF stored = -1 THEN 0 ELSE stored
    /\ pc' = "loop"
    /\ stop' = FALSE
    /\ buf' = {} /\ held' = {}
    /\ UNCHANGED <<published, times, dropped, pollVars, boundVars>>

Poll == \/ Stop \/ ReadLocal \/ ReadRemote \/ Compare \/ Sleep
        \/ NextSequence \/ Fetch
        \/ ApplyDirect \/ ApplyBuffered \/ ApplyHeld \/ ApplyFails
        \/ EndOfFile \/ Flush \/ Flushed \/ StoreSequence

Next == Publish \/ Poll \/ Interrupt \/ Crash \/ Restart

Spec == Init /\ [][Next]_vars

(* The server publishes, the process is scheduled, and the operator starts *)
(* poll mode again when it is not running.                                 *)
FairSpec == Spec /\ WF_vars(Publish) /\ WF_vars(Poll) /\ WF_vars(Restart)

------------------------------------------------------------------------------
(* Properties *)

TypeOK ==
    /\ published \in 0 .. MaxSeq
    /\ stored \in -1 .. MaxSeq
    /\ times \in [Changes -> Nat]
    /\ pc \in {"loop", "state", "compare", "sleep", "next", "fetch", "apply", "flush",
               "store", "ended", "down"}
    /\ local \in -1 .. MaxSeq /\ remote \in 0 .. MaxSeq
    /\ seq \in 0 .. MaxSeq + 1 /\ pos \in Nat
    /\ dropped \subseteq Changes /\ buf \subseteq Changes /\ held \subseteq Changes
    /\ stop \in BOOLEAN
    /\ faults \in 0 .. MaxFaults /\ crashes \in 0 .. MaxCrashes /\ signals \in 0 .. MaxSignals

(* The stored sequence is never ahead of the changes: every modify, delete *)
(* and create of a way or relation up to it is committed, wherever a       *)
(* download, a transaction or the process failed, but for the rows that a  *)
(* flush gave up and that no later attempt wrote.                          *)
NoChangeSkipped ==
    \A c \in Changes : (c[1] <= stored /\ How(c) # "node" /\ c \notin dropped) => times[c] > 0

(* A change takes effect only in its turn: while its file is the one after *)
(* the stored sequence.  A restart neither goes back behind it nor writes  *)
(* what an earlier process left half done.                                 *)
InTurn ==
    [][\A c \in Changes : (How(c) # "node" /\ times'[c] > times[c]) => c[1] = stored + 1]_vars

(* A file that fills the node buffer, one of whose nodes is there already: *)
(* a process that starts with it fills the buffer from its first node on,  *)
(* and flushNodes throws, now and whenever the file is tried again.        *)
NodesOf(s) == {c \in Changes : c[1] = s /\ How(c) = "node"}
Jammed(s) ==
    /\ Cardinality(NodesOf(s)) >= NodeRoom
    /\ \E c \in NodesOf(s) : times[c] > 0

(* A change is applied again only after something failed, once for each    *)
(* failure: that a replay fills the node buffer with a row of an earlier   *)
(* file that is there costs no attempt beyond it.  Only the changes of a   *)
(* jammed file are applied without end, while it is the next one.          *)
RepeatedByFailure ==
    \A c \in Changes :
        \/ times[c] <= 1 + faults + crashes + signals
        \/ c[1] = stored + 1 /\ Jammed(c[1])

(* Poll mode that is started again whenever it ended has applied, in the   *)
(* end, all that was published, as Replicator.h promises, unless the next  *)
(* file is jammed: a crash or a failure after a flush of its nodes is      *)
(* never made good.                                                        *)
CatchesUp == <>[](stored = MaxSeq \/ Jammed(stored + 1))
==============================================================================
