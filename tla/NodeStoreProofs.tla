---------------------------- MODULE NodeStoreProofs ----------------------------
(***************************************************************************)
(* Proofs about NodeStore for any nodes, any number of shards, any chunk   *)
(* size, any choice of -n and any number of crashes of either sort.        *)
(***************************************************************************)
EXTENDS NodeStore, TLAPS

(* The steps of an import, one by one. *)
LEMMA StepCases ==
    ASSUME [Next]_vars
    PROVE  \/ \E s \in Shards, i \in Nodes : Insert(s, i)
           \/ StartMerge \/ CloseShard \/ CopyRecord \/ NextShard \/ EndMerge \/ FinishImport
           \/ MergeAborts \/ Kill \/ PowerLoss \/ RestartNodes \/ RestartMerge \/ RestartWays \/ StartDelta
           \/ UNCHANGED vars
  BY DEF Next, ImportStep, Restart

LEMMA TypeInit == Init => TypeOK
  <1>1. 0 \in 0 .. NumShards
    BY SizesAssumption
  <1>2. 0 \in 0 .. MaxCrashes
    BY SizesAssumption
  <1>3. QED
    BY <1>1, <1>2 DEF Init, InitFor, TypeOK

LEMMA TypeStep == TypeOK /\ [Next]_vars => TypeOK'
  <1> SUFFICES ASSUME TypeOK, [Next]_vars PROVE TypeOK'
    OBVIOUS
  <1> USE DEF TypeOK, runVars, shardVars, flatVars
  <1>0. /\ NumShards \in Nat /\ MaxCrashes \in Nat
        /\ 0 \in 0 .. NumShards
        /\ [s \in Shards |-> {}] \in [Shards -> SUBSET Nodes]
    BY SizesAssumption
  <1>1. ASSUME NEW s \in Shards, NEW i \in Nodes, Insert(s, i) PROVE TypeOK'
    <2>1. PICK rest \in SUBSET Nodes :
              /\ inbuf' = [inbuf EXCEPT ![s] = rest]
              /\ shard' = [shard EXCEPT ![s] = @ \cup ((inbuf[s] \cup {i}) \ rest)]
      BY <1>1 DEF Insert
    <2>2. inbuf' \in [Shards -> SUBSET Nodes] /\ shard' \in [Shards -> SUBSET Nodes]
      BY <2>1
    <2>3. QED
      BY <1>1, <2>2 DEF Insert
  <1>2. CASE StartMerge \/ EndMerge \/ FinishImport
    BY <1>0, <1>2 DEF StartMerge, EndMerge, FinishImport
  <1>3. CASE CloseShard
    BY <1>3 DEF CloseShard
  <1>4. CASE CopyRecord
    BY <1>4 DEF CopyRecord, ToCopy, AtShard, Shards
  <1>5. CASE NextShard
    <2>1. cursor + 1 \in 0 .. NumShards
      BY <1>0, <1>5 DEF NextShard, AtShard
    <2>2. QED
      BY <1>5, <2>1 DEF NextShard, AtShard
  <1>6. CASE MergeAborts \/ Kill \/ PowerLoss
    <2>1. Dies /\ phase \in {"nodes", "merging", "ways"} /\ crashes' \in 0 .. MaxCrashes
      BY <1>0, <1>6 DEF MergeAborts, AtShard, Kill, PowerLoss, Crash
    <2>2. phase' \in {"nodes", "merging", "ways", "done", "down"} /\ reached' \in {"nodes", "merging", "ways"}
      BY <2>1 DEF Dies
    <2>3. inbuf' \in [Shards -> SUBSET Nodes] /\ open' \subseteq Shards
      BY <1>0, <2>1 DEF Dies
    <2>4. shard' \in [Shards -> SUBSET Nodes]
      BY <1>6 DEF MergeAborts, Kill, PowerLoss
    <2>5. exposed' \subseteq Nodes
      BY <1>6 DEF MergeAborts, Kill, PowerLoss, Buffered
    <2>6. dat' \subseteq Nodes /\ bit' \subseteq Nodes /\ synced' \subseteq Nodes
      BY <1>6 DEF MergeAborts, Kill, PowerLoss
    <2>7. onDisk' \subseteq Shards /\ torn' \subseteq Shards
      BY <1>6 DEF MergeAborts, Kill, PowerLoss
    <2>8. QED
      BY <1>6, <2>1, <2>2, <2>3, <2>4, <2>5, <2>6, <2>7 DEF MergeAborts, Kill, PowerLoss
  <1>7. CASE RestartNodes
    BY <1>0, <1>7 DEF RestartNodes
  <1>8. CASE RestartMerge \/ RestartWays
    BY <1>0, <1>8 DEF RestartMerge, RestartWays, Reopen
  <1>9. CASE StartDelta
    BY <1>9 DEF StartDelta
  <1>10. CASE UNCHANGED vars
    BY <1>10 DEF vars
  <1>11. QED
    BY <1>1, <1>2, <1>3, <1>4, <1>5, <1>6, <1>7, <1>8, <1>9, <1>10, StepCases

(* The node store's state is well typed for all values of the constants.   *)
THEOREM TypeCorrect == Spec => []TypeOK
  BY TypeInit, TypeStep, PTL DEF Spec

------------------------------------------------------------------------------
(* The inductive invariant. *)

InMerge == phase = "merging" \/ (phase = "down" /\ reached = "merging")
PastMerge == phase \in {"ways", "done"} \/ (phase = "down" /\ reached = "ways")

(* What the files of an import hold, phase by phase. *)
StoreInv ==
    /\ least <= limit
    /\ synced \subseteq dat /\ synced \subseteq bit
    /\ bit \ exposed \subseteq dat
    /\ \A s \in Shards : s \notin open => inbuf[s] = {}
    /\ open \subseteq onDisk
    /\ phase = "nodes" => open = Shards /\ bit = {} /\ dat = {} /\ Nodes \ todo \subseteq InShards
    /\ phase = "merging" => \A s \in onDisk : s >= cursor
    /\ InMerge => Within \subseteq InShards \cup Merged
    /\ PastMerge => Within \subseteq synced /\ bit \ exposed \subseteq synced

LEMMA InvInit == Init => StoreInv
  <1> SUFFICES ASSUME Init PROVE StoreInv
    OBVIOUS
  <1>1. PICK n \in Limits : InitFor(n)
    BY DEF Init
  <1>2. n \in Int
    BY LimitsAssumption
  <1>3. QED
    BY <1>1, <1>2 DEF InitFor, StoreInv, InMerge, PastMerge

LEMMA InvStep == TypeOK /\ StoreInv /\ [Next]_vars => StoreInv'
  <1> SUFFICES ASSUME TypeOK, StoreInv, [Next]_vars PROVE StoreInv'
    OBVIOUS
  <1>0. /\ NumShards \in Nat \ {0} /\ Limits \subseteq Int /\ limit \in Int /\ least \in Int
        /\ Shards = 0 .. NumShards - 1 /\ cursor \in 0 .. NumShards
        /\ \A i \in Nodes : i \in Int
    BY SizesAssumption, LimitsAssumption, NodesAssumption DEF TypeOK, Shards
  <1>1. ASSUME NEW s \in Shards, NEW i \in Nodes, Insert(s, i) PROVE StoreInv'
    <2>1. PICK rest \in SUBSET (inbuf[s] \cup {i}) :
              /\ inbuf' = [inbuf EXCEPT ![s] = rest]
              /\ shard' = [shard EXCEPT ![s] = @ \cup ((inbuf[s] \cup {i}) \ rest)]
      BY <1>1 DEF Insert
    <2>2. /\ phase = "nodes" /\ phase' = "nodes" /\ todo' = todo \ {i}
          /\ open' = open /\ onDisk' = onDisk
          /\ limit' = limit /\ least' = least /\ dat' = dat /\ bit' = bit
          /\ synced' = synced /\ exposed' = exposed
      BY <1>1 DEF Insert, runVars, flatVars
    <2>3. /\ inbuf'[s] = rest /\ shard'[s] = shard[s] \cup ((inbuf[s] \cup {i}) \ rest)
          /\ \A r \in Shards \ {s} : inbuf'[r] = inbuf[r] /\ shard'[r] = shard[r]
      BY <2>1 DEF TypeOK
    <2>4. s \in open /\ s \in onDisk
      BY <2>2 DEF StoreInv
    <2>5. InShards \cup {i} \subseteq InShards'
      BY <2>2, <2>3, <2>4 DEF InShards, TypeOK
    <2>6. Nodes \ todo' \subseteq InShards'
      BY <2>2, <2>5 DEF StoreInv
    <2>7. QED
      BY <2>2, <2>3, <2>4, <2>6 DEF StoreInv, InMerge, PastMerge
  <1>2. CASE StartMerge
    <2>1. Nodes \subseteq InShards
      BY <1>2 DEF StartMerge, StoreInv
    <2>2. QED
      BY <1>0, <1>2, <2>1 DEF StartMerge, StoreInv, InMerge, PastMerge, InShards, Within, Merged,
         shardVars, flatVars, TypeOK
  <1>3. CASE CloseShard
    <2>1. /\ cursor \in Shards /\ cursor \in onDisk /\ phase = "merging"
          /\ shard'[cursor] = shard[cursor] \cup inbuf[cursor] /\ inbuf'[cursor] = {}
          /\ \A s \in Shards \ {cursor} : shard'[s] = shard[s] /\ inbuf'[s] = inbuf[s]
      BY <1>3 DEF CloseShard, StoreInv, TypeOK
    <2>2. InShards \subseteq InShards'
      BY <1>3, <2>1 DEF CloseShard, InShards, TypeOK
    <2>3. QED
      BY <1>3, <2>1, <2>2 DEF CloseShard, StoreInv, InMerge, PastMerge, Within, Merged,
         runVars, flatVars
  <1>4. CASE CopyRecord
    <2>1. PICK i \in ToCopy : dat' = dat \cup {i} /\ bit' = bit \cup {i}
      BY <1>4 DEF CopyRecord
    <2>2. UNCHANGED <<runVars, shardVars, cursor, synced, exposed>> /\ phase = "merging"
      BY <1>4 DEF CopyRecord, AtShard
    <2>3. InShards' = InShards /\ Within' = Within /\ Merged \subseteq Merged'
      BY <2>1, <2>2 DEF InShards, Within, Merged, runVars, shardVars
    <2>4. QED
      BY <2>1, <2>2, <2>3 DEF StoreInv, InMerge, PastMerge, runVars, shardVars
  <1>5. CASE NextShard
    <2>1. /\ cursor \in Shards /\ cursor \notin open /\ phase = "merging"
          /\ cursor' = cursor + 1 /\ onDisk' = onDisk \ {cursor}
          /\ shard'[cursor] = {} /\ inbuf' = inbuf /\ open' = open
          /\ \A s \in Shards \ {cursor} : shard'[s] = shard[s]
          /\ cursor \in onDisk => ToCopy = {}
          /\ phase' = phase /\ limit' = limit /\ least' = least /\ reached' = reached
          /\ dat' = dat /\ bit' = bit /\ synced' = synced /\ exposed' = exposed
      BY <1>0, <1>5 DEF NextShard, AtShard, TypeOK, runVars, flatVars
    <2>2. Within \subseteq InShards' \cup Merged
      <3> SUFFICES ASSUME NEW i \in Within, i \notin Merged PROVE i \in InShards'
        OBVIOUS
      <3>1. PICK s \in onDisk : i \in shard[s] \cup inbuf[s]
        BY <2>1 DEF StoreInv, InMerge, InShards
      <3>2. s # cursor
        <4>1. i <= limit
          BY <1>0 DEF Within, StoreInv
        <4>2. inbuf[cursor] = {}
          BY <2>1 DEF StoreInv
        <4>3. QED
          BY <2>1, <3>1, <4>1, <4>2 DEF ToCopy, Merged
      <3>3. s \in onDisk' /\ i \in shard'[s] \cup inbuf'[s]
        BY <2>1, <3>1, <3>2 DEF TypeOK
      <3>4. QED
        BY <3>3 DEF InShards
    <2>3. \A s \in onDisk' : s >= cursor'
      BY <1>0, <2>1 DEF StoreInv, TypeOK
    <2>4. Within' = Within /\ Merged' = Merged
      BY <2>1 DEF Within, Merged
    <2>5. QED
      BY <2>1, <2>2, <2>3, <2>4 DEF StoreInv, InMerge, PastMerge
  <1>6. CASE EndMerge
    <2>1. onDisk = {}
      BY <1>0, <1>6 DEF EndMerge, StoreInv, TypeOK
    <2>2. Within \subseteq Merged
      BY <1>6, <2>1 DEF EndMerge, StoreInv, InMerge, InShards
    <2>3. UNCHANGED <<limit, least, shardVars, dat, bit, exposed>> /\ synced' = dat \cap bit
          /\ phase' = "ways"
      BY <1>6 DEF EndMerge
    <2>4. QED
      BY <2>2, <2>3 DEF StoreInv, InMerge, PastMerge, Within, Merged, shardVars
  <1>7. CASE FinishImport
    BY <1>7 DEF FinishImport, StoreInv, InMerge, PastMerge, Within, shardVars, flatVars
  <1>8. CASE MergeAborts \/ Kill
    <2>1. /\ phase \in {"nodes", "merging", "ways"} /\ phase' = "down" /\ reached' = phase /\ open' = {}
          /\ inbuf' = [s \in Shards |-> {}]
          /\ UNCHANGED <<limit, least, shard, onDisk, dat, bit, synced>>
          /\ exposed' = IF phase = "merging" THEN exposed \cup Buffered ELSE exposed
      BY <1>8 DEF MergeAborts, AtShard, Kill, Crash, Dies, flatVars
    <2>2. CASE phase = "merging"
      <3>1. Within' \subseteq InShards' \cup Merged'
        <4> SUFFICES ASSUME NEW i \in Within', i \notin Merged PROVE i \in InShards'
          BY <2>1 DEF Merged
        <4>1. i \in Within /\ i \notin Buffered
          BY <2>1, <2>2 DEF Within
        <4>2. PICK s \in onDisk : i \in shard[s] \cup inbuf[s]
          BY <2>2, <4>1 DEF StoreInv, InMerge, InShards
        <4>3. i \in shard[s] /\ s \in Shards
          BY <4>1, <4>2 DEF Buffered, TypeOK
        <4>4. QED
          BY <2>1, <4>2, <4>3 DEF InShards
      <3>2. QED
        BY <2>1, <2>2, <3>1 DEF StoreInv, InMerge, PastMerge
    <2>3. CASE phase # "merging"
      BY <2>1, <2>3 DEF StoreInv, InMerge, PastMerge, Within
    <2>4. QED
      BY <2>2, <2>3
  <1>9. CASE PowerLoss
    <2>1. /\ Crash /\ phase' = "down" /\ reached' = phase /\ open' = {}
          /\ inbuf' = [s \in Shards |-> {}]
          /\ UNCHANGED <<limit, least, onDisk, synced>>
          /\ exposed' = IF phase = "merging" THEN Nodes \ synced ELSE exposed
      BY <1>9 DEF PowerLoss, Crash, Dies
    <2>2. PICK X \in SUBSET dat, Y \in SUBSET bit : dat' = synced \cup X /\ bit' = synced \cup Y
      BY <1>9 DEF PowerLoss
    <2>3. CASE phase = "merging"
      <3>1. Within' \subseteq synced /\ bit' \ exposed' \subseteq synced
        BY <2>1, <2>2, <2>3 DEF Within, TypeOK
      <3>2. QED
        BY <2>1, <2>2, <2>3, <3>1 DEF StoreInv, InMerge, PastMerge, Merged
    <2>4. CASE phase = "nodes"
      BY <2>1, <2>2, <2>4 DEF StoreInv, InMerge, PastMerge
    <2>5. CASE phase = "ways"
      <3>1. Within' \subseteq synced /\ bit' \ exposed' \subseteq synced
        BY <2>1, <2>2, <2>5 DEF StoreInv, PastMerge, Within
      <3>2. QED
        BY <2>1, <2>2, <2>5, <3>1 DEF StoreInv, InMerge, PastMerge
    <2>6. QED
      BY <2>1, <2>3, <2>4, <2>5 DEF Crash
  <1>10. CASE RestartNodes
    <2>1. PICK n \in Limits : limit' = n /\ least' = n
      BY <1>10 DEF RestartNodes
    <2>2. QED
      BY <1>0, <1>10, <2>1 DEF RestartNodes, StoreInv, InMerge, PastMerge
  <1>11. CASE RestartMerge \/ RestartWays
    <2>1. /\ least' <= limit' /\ least' <= least /\ least' \in Int
          /\ UNCHANGED <<shardVars, flatVars, exposed>>
      BY <1>0, <1>11 DEF RestartMerge, RestartWays, Reopen
    <2>2. Within' \subseteq Within /\ InShards' = InShards /\ Merged' = Merged
      BY <1>0, <2>1 DEF Within, InShards, Merged, shardVars, flatVars
    <2>3. CASE RestartMerge
      <3>1. phase' = "merging" /\ \A s \in onDisk' : s >= cursor'
        BY <1>0, <2>1, <2>3 DEF RestartMerge, shardVars, TypeOK
      <3>2. Within \subseteq InShards \cup Merged
        BY <2>3 DEF RestartMerge, StoreInv, InMerge, PastMerge, Merged
      <3>3. QED
        BY <2>1, <2>2, <3>1, <3>2 DEF StoreInv, InMerge, PastMerge, shardVars, flatVars
    <2>4. CASE RestartWays
      <3>1. phase' = "ways" /\ PastMerge
        BY <2>4 DEF RestartWays, PastMerge
      <3>2. QED
        BY <2>1, <2>2, <3>1 DEF StoreInv, InMerge, PastMerge, shardVars, flatVars
    <2>5. QED
      BY <1>11, <2>3, <2>4
  <1>12. CASE StartDelta
    BY <1>12 DEF StartDelta, StoreInv, InMerge, PastMerge, Within, runVars, flatVars
  <1>13. CASE UNCHANGED vars
    BY <1>13 DEF vars, runVars, shardVars, flatVars, StoreInv, InMerge, PastMerge, Within, InShards, Merged
  <1>14. QED
    BY <1>1, <1>2, <1>3, <1>4, <1>5, <1>6, <1>7, <1>8, <1>9, <1>10, <1>11, <1>12, <1>13, StepCases

(* From the first insertion on, through kills and resumed merges, a node   *)
(* is in a shard that exists or in the flat file.                          *)
THEOREM NodesKept == Spec => []NoNodeDropped
  <1>1. StoreInv => NoNodeDropped
    BY DEF StoreInv, NoNodeDropped, InMerge
  <1>2. QED
    BY <1>1, TypeInit, TypeStep, InvInit, InvStep, PTL DEF Spec

(* The way phase, fresh or resumed, finds every node that no crash of      *)
(* merge() exposed.                                                        *)
THEOREM NodesFound == Spec => []WaysFindNodes
  <1>1. TypeOK /\ StoreInv => WaysFindNodes
    <2> SUFFICES ASSUME TypeOK, StoreInv, phase \in {"ways", "done"}, NEW i \in Within
                 PROVE  FindsRight(i)
      BY DEF WaysFindNodes
    <2>1. i \in dat /\ i \in bit
      BY DEF StoreInv, PastMerge
    <2>2. i <= limit
      BY NodesAssumption, LimitsAssumption DEF Within, StoreInv, TypeOK
    <2>3. QED
      BY <2>1, <2>2 DEF FindsRight, Finds
  <1>2. QED
    BY <1>1, TypeInit, TypeStep, InvInit, InvStep, PTL DEF Spec

(* A lookup never answers with a record that was not written, unless the   *)
(* node was exposed by a crash of merge().                                 *)
THEOREM NoPhantoms == Spec => []NoPhantomNode
  <1>1. StoreInv => NoPhantomNode
    BY DEF StoreInv, NoPhantomNode, Finds
  <1>2. QED
    BY <1>1, TypeInit, TypeStep, InvInit, InvStep, PTL DEF Spec

(* The ways find the nodes of the import and nothing else, but for what a  *)
(* crash of merge() exposed.                                               *)
THEOREM FlatFileHolds == Spec => []FlatFileRight
  <1>1. WaysFindNodes /\ NoPhantomNode => FlatFileRight
    BY DEF FlatFileRight
  <1>2. QED
    BY <1>1, NodesFound, NoPhantoms, PTL
==============================================================================
