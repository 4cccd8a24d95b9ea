--------------------------- MODULE ReplicatorProofs ---------------------------
(* Poll mode never stores a sequence ahead of its changes and applies each  *)
(* change in its turn, whatever fails and whenever it is started again.     *)
EXTENDS Replicator, FiniteSetTheorems, TLAPS

InLoop == {"next", "fetch", "apply", "flush", "store"}
InFile == InLoop \ {"next"}

(* The changes of the file under way up to, not including, the n-th *)
AppliedUpTo(n, extra) ==
    \A i \in 1 .. Len(Files[seq]) :
       (i < n /\ How(<<seq, i>>) # "node") =>
          times[<<seq, i>>] > 0 \/ <<seq, i>> \in extra \/ <<seq, i>> \in dropped

(* The loop is at the sequence after the stored one. *)
Position ==
    /\ pc \in InLoop => stored >= 0 /\ seq = stored + 1
    /\ pc \in InFile => seq \in 1 .. MaxSeq
    /\ pc \in {"state", "compare"} => local \in {-1, stored}

(* Buffered creates are those of the file under way, or of one that was     *)
(* given up, after which the process ends.                                  *)
Buffers ==
    /\ buf # {} => pc \in {"apply", "flush", "ended"} \/ (pc = "loop" /\ stop)
    /\ pc \in {"apply", "flush"} => \A c \in buf : c[1] = seq
    /\ \A c \in held : How(c) = "node"

Progress ==
    /\ pc = "apply" => pos >= 1 /\ AppliedUpTo(pos, buf)
    /\ pc = "flush" => AppliedUpTo(Len(Files[seq]) + 1, buf)
    /\ pc = "store" => AppliedUpTo(Len(Files[seq]) + 1, {})

PollInv == TypeOK /\ Position /\ Buffers /\ Progress /\ NoChangeSkipped

LEMMA BoundsTyped == MaxSeq \in Nat /\ MaxFaults \in Nat /\ MaxCrashes \in Nat /\ MaxSignals \in Nat
BY FilesAssumption, BoundsAssumption

LEMMA ChangeTyped ==
    ASSUME NEW c \in Changes
    PROVE  \E s \in 1 .. MaxSeq, i \in Nat : c = <<s, i>> /\ i \in 1 .. Len(Files[s])
BY DEF Changes

LEMMA CurrentTyped ==
    ASSUME TypeOK, Position, Progress, Reading
    PROVE  Current \in Changes /\ seq \in 1 .. MaxSeq /\ pos \in 1 .. Len(Files[seq])
           /\ Current[1] = seq /\ Len(Files[seq]) \in Nat
<1>1. seq \in 1 .. MaxSeq
  BY DEF Reading, Position, InLoop, InFile
<1>2. Len(Files[seq]) \in Nat
  BY <1>1, FilesAssumption
<1>3. pos \in 1 .. Len(Files[seq])
  BY <1>1, <1>2 DEF Reading, Progress, TypeOK
<1> QED
  BY <1>1, <1>2, <1>3 DEF Changes, Current

(* A commit counts what it commits and forgets nothing. *)
LEMMA CommitCounts ==
    ASSUME TypeOK, NEW S, Commit(S)
    PROVE  /\ times' \in [Changes -> Nat]
           /\ \A c \in Changes : times'[c] >= times[c]
           /\ \A c \in Changes : c \in S => times'[c] > 0
           /\ \A c \in Changes : c \notin S => times'[c] = times[c]
BY DEF TypeOK, Commit

(* A flush commits each row or gives it up. *)
LEMMA WriteCounts ==
    ASSUME TypeOK, NEW rows \in SUBSET Changes, Write(rows)
    PROVE  /\ times' \in [Changes -> Nat]
           /\ \A c \in Changes : times'[c] >= times[c]
           /\ \A c \in Changes : c \in rows => times'[c] > 0 \/ c \in dropped'
           /\ \A c \in Changes : c \notin rows =>
                 times'[c] = times[c] /\ (c \in dropped <=> c \in dropped')
           /\ dropped' \subseteq Changes
           /\ faults' \in 0 .. MaxFaults /\ crashes' = crashes /\ signals' = signals
<1>1. PICK lost \in SUBSET rows :
        /\ Commit(rows \ lost)
        /\ dropped' = (dropped \ rows) \cup lost
        /\ IF lost = {} THEN UNCHANGED boundVars ELSE Fault
  BY DEF Write
<1>2. faults' \in 0 .. MaxFaults /\ crashes' = crashes /\ signals' = signals
  <2>1. faults \in 0 .. MaxFaults
    BY DEF TypeOK
  <2>2. \/ UNCHANGED boundVars
        \/ faults < MaxFaults /\ faults' = faults + 1 /\ UNCHANGED <<crashes, signals>>
    BY <1>1 DEF Fault
  <2> QED
    BY <2>1, <2>2, BoundsTyped DEF boundVars
<1>3. dropped \subseteq Changes
  BY DEF TypeOK
<1>4. /\ times' \in [Changes -> Nat]
      /\ \A c \in Changes : times'[c] >= times[c]
      /\ \A c \in Changes : c \in rows \ lost => times'[c] > 0
      /\ \A c \in Changes : c \notin rows \ lost => times'[c] = times[c]
  BY <1>1, CommitCounts
<1> QED
  BY <1>1, <1>2, <1>3, <1>4

LEMMA InitPoll == Init => PollInv
<1> SUFFICES ASSUME Init PROVE PollInv
  OBVIOUS
<1>1. TypeOK
  <2>1. stored \in -1 .. MaxSeq
    <3>1. CASE stored = -1
      BY <3>1, BoundsTyped
    <3>2. CASE stored = 0
      BY <3>2, BoundsTyped
    <3> QED
      BY <3>1, <3>2 DEF Init
  <2>2. times \in [Changes -> Nat]
    BY DEF Init
  <2>3. local \in -1 .. MaxSeq /\ remote \in 0 .. MaxSeq /\ seq \in 0 .. MaxSeq + 1
    BY BoundsTyped DEF Init
  <2>4. published \in 0 .. MaxSeq /\ pos \in Nat
    BY BoundsTyped DEF Init
  <2>5. faults \in 0 .. MaxFaults /\ crashes \in 0 .. MaxCrashes /\ signals \in 0 .. MaxSignals
    BY BoundsTyped DEF Init
  <2>6. dropped \subseteq Changes /\ buf \subseteq Changes /\ held \subseteq Changes /\ stop \in BOOLEAN /\ pc = "loop"
    BY DEF Init
  <2> QED
    BY <2>1, <2>2, <2>3, <2>4, <2>5, <2>6 DEF TypeOK
<1>2. Position /\ Buffers /\ Progress
  BY DEF Init, Position, Buffers, Progress, InLoop, InFile
<1>3. NoChangeSkipped
  <2> SUFFICES ASSUME NEW c \in Changes, c[1] <= stored PROVE FALSE
    BY DEF NoChangeSkipped
  <2>1. PICK s \in 1 .. MaxSeq, i \in Nat : c = <<s, i>>
    BY ChangeTyped
  <2> QED
    BY <2>1 DEF Init
<1> QED
  BY <1>1, <1>2, <1>3 DEF PollInv

------------------------------------------------------------------------------
(* Steps that commit nothing and leave the sequence: the control of poll(), *)
(* of failures and of signals                                               *)

LEMMA QuietSkips ==
    ASSUME NoChangeSkipped, times' = times, stored' = stored, dropped' = dropped
    PROVE  NoChangeSkipped'
BY DEF NoChangeSkipped

LEMMA ControlStep ==
    ASSUME PollInv,
           Publish \/ Stop \/ ReadLocal \/ ReadRemote \/ Compare \/ Sleep \/ NextSequence
    PROVE  PollInv'
<1> USE BoundsTyped DEF dbVars, pollVars, bufVars, boundVars
<1>0. NoChangeSkipped'
  <2>1. times' = times /\ stored' = stored /\ dropped' = dropped
    BY DEF Publish, Stop, ReadLocal, ReadRemote, Compare, Sleep, NextSequence
  <2> QED
    BY <2>1, QuietSkips DEF PollInv
<1>1. CASE Publish
  BY <1>0, <1>1
  DEF PollInv, Publish, TypeOK, Position, Buffers, Progress, AppliedUpTo
<1>2. CASE Stop
  BY <1>0, <1>2
  DEF PollInv, Stop, TypeOK, Position, Buffers, Progress, AppliedUpTo, InLoop, InFile
<1>3. CASE ReadLocal
  BY <1>0, <1>3
  DEF PollInv, ReadLocal, Fault, TypeOK, Position, Buffers, Progress, AppliedUpTo, InLoop, InFile
<1>4. CASE ReadRemote
  BY <1>0, <1>4
  DEF PollInv, ReadRemote, Fault, TypeOK, Position, Buffers, Progress, AppliedUpTo, InLoop, InFile
<1>5. CASE Compare
  BY <1>0, <1>5
  DEF PollInv, Compare, TypeOK, Position, Buffers, Progress, AppliedUpTo, InLoop, InFile
<1>6. CASE Sleep
  BY <1>0, <1>6
  DEF PollInv, Sleep, TypeOK, Position, Buffers, Progress, AppliedUpTo, InLoop, InFile
<1>7. CASE NextSequence
  BY <1>0, <1>7
  DEF PollInv, NextSequence, TypeOK, Position, Buffers, Progress, AppliedUpTo, InLoop, InFile
<1> QED
  BY <1>1, <1>2, <1>3, <1>4, <1>5, <1>6, <1>7

LEMMA FileStep ==
    ASSUME PollInv, Fetch \/ ApplyFails \/ EndOfFile
    PROVE  PollInv'
<1> USE BoundsTyped DEF dbVars, pollVars, bufVars, boundVars
<1>0. NoChangeSkipped'
  <2>1. times' = times /\ stored' = stored /\ dropped' = dropped
    BY DEF Fetch, ApplyFails, EndOfFile
  <2> QED
    BY <2>1, QuietSkips DEF PollInv
<1>1. CASE Fetch
  <2>1. TypeOK'
    <3>1. faults' \in 0 .. MaxFaults /\ crashes' = crashes /\ signals' = signals
      <4>1. faults \in 0 .. MaxFaults
        BY DEF PollInv, TypeOK
      <4>2. \/ faults' = faults
            \/ faults < MaxFaults /\ faults' = faults + 1
        BY <1>1 DEF Fetch, Fault
      <4>3. crashes' = crashes /\ signals' = signals
        BY <1>1 DEF Fetch, Fault
      <4> QED
        BY <4>1, <4>2, <4>3
    <3>2. pos' \in Nat
      BY <1>1 DEF PollInv, Fetch, TypeOK
    <3>3. stop' \in BOOLEAN /\ pc' \in {"apply", "loop"}
      BY <1>1 DEF PollInv, Fetch, GiveUp, TypeOK
    <3> QED
      BY <1>1, <3>1, <3>2, <3>3 DEF PollInv, Fetch, TypeOK
  <2>4. Position'
    BY <1>1 DEF PollInv, Fetch, GiveUp, Position, InLoop, InFile
  <2>2. Buffers'
    BY <1>1 DEF PollInv, Fetch, GiveUp, Buffers
  <2>3. Progress'
    <3>1. CASE pc' = "apply"
      <4>1. pos' = 1
        BY <1>1, <3>1 DEF Fetch, GiveUp
      <4>2. \A i \in 1 .. Len(Files[seq']) : ~(i < 1)
        OBVIOUS
      <4> QED
        BY <3>1, <4>1, <4>2 DEF Progress, AppliedUpTo
    <3>2. CASE pc' = "loop"
      BY <3>2 DEF Progress
    <3> QED
      BY <1>1, <3>1, <3>2 DEF Fetch, GiveUp
  <2> QED
    BY <1>0, <2>1, <2>2, <2>3, <2>4 DEF PollInv
<1>2. CASE ApplyFails
  BY <1>0, <1>2
  DEF PollInv, ApplyFails, Fault, GiveUp, TypeOK, Position, Buffers, Progress, InLoop, InFile
<1>3. CASE EndOfFile
  <2>1. seq \in 1 .. MaxSeq /\ Len(Files[seq]) \in Nat
    BY <1>3, FilesAssumption DEF PollInv, EndOfFile, Position, InFile, InLoop
  <2>2. AppliedUpTo(Len(Files[seq]) + 1, buf)'
    BY <1>3, <2>1 DEF PollInv, TypeOK, EndOfFile, Progress, AppliedUpTo
  <2> QED
    BY <1>0, <1>3, <2>2
    DEF PollInv, EndOfFile, TypeOK, Position, Buffers, Progress, InLoop, InFile
<1> QED
  BY <1>1, <1>2, <1>3

LEMMA OutsideStep ==
    ASSUME PollInv, Interrupt \/ Crash \/ Restart
    PROVE  PollInv'
<1> USE BoundsTyped DEF dbVars, pollVars, bufVars, boundVars
<1>1. CASE Interrupt
  <2>1. NoChangeSkipped'
    BY <1>1, QuietSkips DEF PollInv, Interrupt
  <2>2. \/ pc' = pc
        \/ pc = "state" /\ pc' = "sleep" /\ stop' = stop
        \/ pc = "fetch" /\ pc' = "loop" /\ stop' = TRUE
    BY <1>1 DEF Interrupt, GiveUp
  <2>3. stop' \in {stop, TRUE}
    BY <1>1 DEF Interrupt, GiveUp
  <2>4. TypeOK'
    <3>1. signals' \in 0 .. MaxSignals
      BY <1>1 DEF PollInv, Interrupt, TypeOK
    <3>2. stop' \in BOOLEAN
      BY <2>3 DEF PollInv, TypeOK
    <3>3. pc' \in {"loop", "sleep", pc}
      BY <2>2
    <3> QED
      BY <1>1, <3>1, <3>2, <3>3 DEF PollInv, Interrupt, TypeOK
  <2>5. Position'
    BY <1>1, <2>2 DEF PollInv, Interrupt, Position, InLoop, InFile
  <2>6. Buffers'
    BY <1>1, <2>2, <2>3 DEF PollInv, Interrupt, Buffers
  <2>7. Progress'
    BY <1>1, <2>2 DEF PollInv, Interrupt, Progress, AppliedUpTo
  <2> QED
    BY <2>1, <2>4, <2>5, <2>6, <2>7 DEF PollInv
<1>2. CASE Crash
  <2>1. NoChangeSkipped'
    BY <1>2, QuietSkips DEF PollInv, Crash
  <2> QED
    BY <1>2, <2>1 DEF PollInv, Crash, TypeOK, Position, Buffers, Progress, InLoop, InFile
<1>3. CASE Restart
  <2>1. NoChangeSkipped'
    <3> SUFFICES ASSUME NEW c \in Changes, c[1] <= stored', How(c) # "node",
                          c \notin dropped'
                 PROVE  times'[c] > 0
      BY DEF NoChangeSkipped
    <3>1. PICK s \in 1 .. MaxSeq, i \in Nat : c = <<s, i>>
      BY ChangeTyped
    <3>2. c[1] \in 1 .. MaxSeq
      BY <3>1
    <3> QED
      BY <1>3, <3>2 DEF PollInv, Restart, NoChangeSkipped, TypeOK
  <2>2. stored' \in -1 .. MaxSeq
    BY <1>3, FilesAssumption DEF PollInv, TypeOK, Restart
  <2> QED
    BY <1>3, <2>1, <2>2 DEF PollInv, Restart, TypeOK, Position, Buffers, Progress, InLoop, InFile
<1> QED
  BY <1>1, <1>2, <1>3

------------------------------------------------------------------------------
(* Steps that commit *)

(* What a commit may change: a row is committed or dropped only if it is    *)
(* one of those written.                                                    *)
Covers(rows) ==
    /\ \A c \in Changes : times'[c] \in Nat /\ times'[c] >= times[c]
    /\ \A c \in Changes : c \in rows => times'[c] > 0 \/ c \in dropped'
    /\ \A c \in Changes : c \notin rows => (c \in dropped <=> c \in dropped')

LEMMA CommitCovers ==
    ASSUME TypeOK, NEW S \in SUBSET Changes, Commit(S), dropped' = dropped
    PROVE  Covers(S)
<1>1. times' \in [Changes -> Nat]
  BY CommitCounts
<1> QED
  BY <1>1, CommitCounts DEF Covers

LEMMA WriteCovers ==
    ASSUME TypeOK, NEW S \in SUBSET Changes, Write(S)
    PROVE  Covers(S)
<1>1. times' \in [Changes -> Nat]
  BY WriteCounts
<1> QED
  BY <1>1, WriteCounts DEF Covers

LEMMA CoverSkipsNone ==
    ASSUME TypeOK, NoChangeSkipped, NEW S \in SUBSET Changes, Covers(S), stored' = stored
    PROVE  NoChangeSkipped'
<1>1. \A c \in Changes : times[c] \in Nat
  BY DEF TypeOK
<1> QED
  BY <1>1 DEF NoChangeSkipped, Covers

(* What it leaves of the progress in a file *)
LEMMA CoverKeepsApplied ==
    ASSUME TypeOK, NEW S \in SUBSET Changes, Covers(S), seq' = seq, seq \in 1 .. MaxSeq,
           NEW n, NEW old, NEW new, old \subseteq S \cup new, AppliedUpTo(n, old)
    PROVE  \A i \in 1 .. Len(Files[seq]) :
              (i < n /\ How(<<seq, i>>) # "node") =>
                  times'[<<seq, i>>] > 0 \/ <<seq, i>> \in new \/ <<seq, i>> \in dropped'
<1> SUFFICES ASSUME NEW i \in 1 .. Len(Files[seq]), i < n, How(<<seq, i>>) # "node"
             PROVE  times'[<<seq, i>>] > 0 \/ <<seq, i>> \in new \/ <<seq, i>> \in dropped'
  OBVIOUS
<1> DEFINE c == <<seq, i>>
<1>1. c \in Changes
  BY DEF Changes
<1>2. times[c] > 0 \/ c \in old \/ c \in dropped
  BY DEF AppliedUpTo
<1>3. times[c] \in Nat /\ times'[c] \in Nat /\ times'[c] >= times[c]
  BY <1>1 DEF TypeOK, Covers
<1>4. c \in S => times'[c] > 0 \/ c \in dropped'
  BY <1>1 DEF Covers
<1>5. c \notin S => (c \in dropped <=> c \in dropped')
  BY <1>1 DEF Covers
<1> HIDE DEF c
<1>6. times'[c] > 0 \/ c \in new \/ c \in dropped'
  BY <1>2, <1>3, <1>4, <1>5
<1> QED
  BY <1>6 DEF c

(* The parser goes past a change that is committed, buffered or held.       *)
LEMMA NextChange ==
    ASSUME PollInv, Reading, NEW S \in SUBSET Changes, Covers(S), stored' = stored,
           pc' = pc, seq' = seq, pos' = pos + 1, buf \subseteq S \cup buf',
           How(Current) # "node" => Current \in S \cup buf'
    PROVE  Progress' /\ NoChangeSkipped'
<1>1. NoChangeSkipped'
  BY CoverSkipsNone DEF PollInv
<1>2. Current \in Changes /\ seq \in 1 .. MaxSeq /\ pos \in 1 .. Len(Files[seq])
  BY CurrentTyped DEF PollInv
<1>3. AppliedUpTo(pos, buf)
  BY DEF PollInv, Progress, Reading
<1>4. \A i \in 1 .. Len(Files[seq]) :
        (i < pos /\ How(<<seq, i>>) # "node") =>
            times'[<<seq, i>>] > 0 \/ <<seq, i>> \in buf' \/ <<seq, i>> \in dropped'
  BY <1>2, <1>3, CoverKeepsApplied DEF PollInv
<1>5. How(<<seq, pos>>) # "node" =>
        times'[<<seq, pos>>] > 0 \/ <<seq, pos>> \in buf' \/ <<seq, pos>> \in dropped'
  BY <1>2 DEF Covers, Current
<1>6. \A i \in 1 .. Len(Files[seq]) :
        (i < pos + 1 /\ How(<<seq, i>>) # "node") =>
            times'[<<seq, i>>] > 0 \/ <<seq, i>> \in buf' \/ <<seq, i>> \in dropped'
  <2> SUFFICES ASSUME NEW i \in 1 .. Len(Files[seq]), i < pos + 1, How(<<seq, i>>) # "node"
               PROVE  times'[<<seq, i>>] > 0 \/ <<seq, i>> \in buf' \/ <<seq, i>> \in dropped'
    OBVIOUS
  <2>1. i < pos \/ i = pos
    BY <1>2
  <2> QED
    BY <1>4, <1>5, <2>1
<1>7. AppliedUpTo(pos, buf)'
  BY <1>6 DEF AppliedUpTo
<1>8. pc' = "apply" /\ pos' >= 1
  BY <1>2 DEF Reading
<1> QED
  BY <1>1, <1>7, <1>8 DEF Progress

LEMMA DirectStep == ASSUME PollInv, ApplyDirect PROVE PollInv'
<1> USE DEF bufVars, boundVars
<1>1. Current \in Changes /\ pos' \in Nat
  BY CurrentTyped DEF PollInv, TypeOK, ApplyDirect
<1>2. times' \in [Changes -> Nat]
  BY CommitCounts DEF PollInv, ApplyDirect
<1>3. TypeOK'
  BY <1>1, <1>2 DEF PollInv, TypeOK, ApplyDirect
<1>4. Position' /\ Buffers'
  BY DEF PollInv, ApplyDirect, Position, Buffers, InLoop, InFile
<1>5. Covers({Current})
  BY <1>1, CommitCovers DEF PollInv, ApplyDirect
<1>6. Progress' /\ NoChangeSkipped'
  BY <1>1, <1>5, NextChange DEF ApplyDirect
<1> QED
  BY <1>3, <1>4, <1>6 DEF PollInv

LEMMA BufferedStep == ASSUME PollInv, ApplyBuffered PROVE PollInv'
<1> DEFINE rows == Rows(How(Current)) \cup {Current}
           full == IsFull(How(Current), Cardinality(rows))
           S == IF full THEN rows ELSE {}
<1>1. Current \in Changes /\ Current[1] = seq /\ pos' \in Nat
  BY CurrentTyped DEF PollInv, TypeOK, ApplyBuffered
<1>2. Write(S) /\ buf' = IF full THEN buf \ rows ELSE buf \cup rows
  BY DEF ApplyBuffered
<1>3. rows \subseteq buf \cup {Current} /\ S \subseteq rows /\ S \subseteq Changes
  BY <1>1 DEF Rows, PollInv, TypeOK
<1>4. /\ times' \in [Changes -> Nat] /\ dropped' \subseteq Changes
      /\ faults' \in 0 .. MaxFaults /\ crashes' = crashes /\ signals' = signals
  <2> HIDE DEF S
  <2> QED
    BY <1>2, <1>3, WriteCounts DEF PollInv
<1>5. buf' \subseteq buf \cup {Current} /\ buf \cup {Current} \subseteq S \cup buf'
  BY <1>2, <1>3
<1>6. /\ pc = "apply" /\ pc' = pc /\ published' = published /\ stored' = stored
      /\ local' = local /\ remote' = remote /\ seq' = seq /\ held' = held /\ stop' = stop
  BY DEF ApplyBuffered, Reading
<1>7. TypeOK'
  BY <1>1, <1>4, <1>5, <1>6 DEF PollInv, TypeOK
<1>8. Position'
  BY <1>6 DEF PollInv, Position, InLoop, InFile
<1>9. Buffers'
  BY <1>1, <1>5, <1>6 DEF PollInv, Buffers
<1>10. Progress' /\ NoChangeSkipped'
  <2>1. Reading /\ pos' = pos + 1
    BY DEF ApplyBuffered
  <2>2. buf \subseteq S \cup buf' /\ Current \in S \cup buf'
    BY <1>5
  <2> HIDE DEF S
  <2>3. Covers(S)
    BY <1>2, <1>3, WriteCovers DEF PollInv
  <2> QED
    BY <1>3, <1>6, <2>1, <2>2, <2>3, NextChange
<1> QED
  BY <1>7, <1>8, <1>9, <1>10 DEF PollInv

LEMMA HeldStep == ASSUME PollInv, ApplyHeld PROVE PollInv'
<1> DEFINE rows == held \cup {Current}
           full == Cardinality(rows) >= NodeRoom
           taken == \E c \in rows : times[c] > 0
           S == IF full THEN rows ELSE {}
<1> USE DEF boundVars
<1>1. Current \in Changes /\ Current[1] = seq /\ pos \in Nat /\ pos + 1 \in Nat
  BY CurrentTyped DEF PollInv, TypeOK, ApplyHeld
<1>2. /\ Reading /\ How(Current) = "node" /\ pc = "apply"
      /\ published' = published /\ stored' = stored /\ dropped' = dropped /\ local' = local /\ remote' = remote
      /\ seq' = seq /\ buf' = buf
      /\ faults' = faults /\ crashes' = crashes /\ signals' = signals
  BY DEF ApplyHeld, Reading
<1>3. CASE full /\ taken
  <2>1. held' = rows /\ pc' = "loop" /\ stop' = TRUE /\ times' = times /\ pos' = pos
    BY <1>3 DEF ApplyHeld, GiveUp
  <2>2. TypeOK'
    BY <1>1, <1>2, <2>1 DEF PollInv, TypeOK
  <2>3. Position' /\ Progress'
    BY <2>1 DEF Position, Progress, InLoop, InFile
  <2>4. Buffers'
    BY <1>2, <2>1 DEF PollInv, Buffers
  <2>5. NoChangeSkipped'
    BY <1>2, <2>1, QuietSkips DEF PollInv
  <2> QED
    BY <2>2, <2>3, <2>4, <2>5 DEF PollInv
<1>4. CASE ~(full /\ taken)
  <2>1. /\ held' = IF full THEN {} ELSE rows
        /\ Commit(S) /\ pos' = pos + 1 /\ pc' = pc /\ stop' = stop
    BY <1>4 DEF ApplyHeld
  <2>2. times' \in [Changes -> Nat]
    BY <2>1, CommitCounts DEF PollInv
  <2>3. held' \subseteq rows
    BY <2>1
  <2>4. TypeOK'
    BY <1>1, <1>2, <2>1, <2>2, <2>3 DEF PollInv, TypeOK
  <2>5. Position'
    BY <1>2, <2>1 DEF PollInv, Position, InLoop, InFile
  <2>6. Buffers'
    BY <1>2, <2>1, <2>3 DEF PollInv, Buffers
  <2>7. Progress' /\ NoChangeSkipped'
    <3>1. S \subseteq Changes
      BY <1>1 DEF PollInv, TypeOK
    <3> HIDE DEF S
    <3>2. Covers(S)
      BY <1>2, <2>1, <3>1, CommitCovers DEF PollInv
    <3> QED
      BY <1>2, <2>1, <3>1, <3>2, NextChange
  <2> QED
    BY <2>4, <2>5, <2>6, <2>7 DEF PollInv
<1> QED
  BY <1>3, <1>4

LEMMA FlushStep == ASSUME PollInv, Flush PROVE PollInv'
<1>1. PICK t \in Tables : Write(Rows(t)) /\ buf' = buf \ Rows(t)
  BY DEF Flush
<1>2. Rows(t) \subseteq Changes /\ buf \subseteq Rows(t) \cup buf'
  BY <1>1 DEF Rows, PollInv, TypeOK
<1>3. /\ pc = "flush" /\ pc' = pc /\ published' = published /\ stored' = stored
      /\ local' = local /\ remote' = remote /\ seq' = seq /\ pos' = pos
      /\ held' = held /\ stop' = stop
  BY DEF Flush, pollVars
<1>4. seq \in 1 .. MaxSeq /\ AppliedUpTo(Len(Files[seq]) + 1, buf)
  BY <1>3 DEF PollInv, Position, Progress, InLoop, InFile
<1>5. TypeOK'
  <2>1. /\ times' \in [Changes -> Nat] /\ dropped' \subseteq Changes
        /\ faults' \in 0 .. MaxFaults /\ crashes' = crashes /\ signals' = signals
    BY <1>1, <1>2, WriteCounts DEF PollInv
  <2> QED
    BY <1>1, <1>3, <2>1 DEF PollInv, TypeOK
<1>6. Position' /\ Buffers'
  BY <1>1, <1>3 DEF PollInv, Position, Buffers, InLoop, InFile
<1>7. Covers(Rows(t))
  BY <1>1, <1>2, WriteCovers DEF PollInv
<1>8. NoChangeSkipped'
  BY <1>2, <1>3, <1>7, CoverSkipsNone DEF PollInv
<1>9. \A i \in 1 .. Len(Files[seq]) :
        (i < Len(Files[seq]) + 1 /\ How(<<seq, i>>) # "node") =>
            times'[<<seq, i>>] > 0 \/ <<seq, i>> \in buf' \/ <<seq, i>> \in dropped'
  BY <1>2, <1>3, <1>4, <1>7, CoverKeepsApplied DEF PollInv
<1>10. Progress'
  BY <1>3, <1>9 DEF Progress, AppliedUpTo
<1> QED
  BY <1>5, <1>6, <1>8, <1>10 DEF PollInv

LEMMA FlushedStep == ASSUME PollInv, Flushed PROVE PollInv'
<1> USE DEF dbVars, pollVars, bufVars, boundVars
<1>1. NoChangeSkipped'
  BY QuietSkips DEF PollInv, Flushed
<1>2. seq \in 1 .. MaxSeq /\ AppliedUpTo(Len(Files[seq]) + 1, {})
  BY DEF PollInv, Flushed, Position, Progress, InLoop, InFile
<1>3. Progress'
  BY <1>2 DEF Flushed, Progress, AppliedUpTo
<1> QED
  BY <1>1, <1>3 DEF PollInv, Flushed, TypeOK, Position, Buffers, InLoop, InFile

LEMMA StoreStep == ASSUME PollInv, StoreSequence PROVE PollInv'
<1> USE BoundsTyped DEF boundVars, bufVars
<1>1. seq \in 1 .. MaxSeq /\ seq = stored + 1 /\ AppliedUpTo(Len(Files[seq]) + 1, {})
  BY DEF PollInv, StoreSequence, Position, Progress, InLoop, InFile
<1>2. TypeOK'
  BY <1>1 DEF PollInv, TypeOK, StoreSequence
<1>3. Position' /\ Progress' /\ Buffers'
  BY <1>1 DEF PollInv, StoreSequence, Position, Buffers, Progress, InLoop, InFile
<1>4. NoChangeSkipped'
  <2> SUFFICES ASSUME NEW c \in Changes, c[1] <= seq, How(c) # "node", c \notin dropped
             PROVE  times[c] > 0
    BY DEF NoChangeSkipped, StoreSequence
  <2>1. PICK s \in 1 .. MaxSeq, i \in Nat : c = <<s, i>> /\ i \in 1 .. Len(Files[s])
    BY ChangeTyped
  <2>2. CASE s = seq
    <3>1. Len(Files[seq]) \in Nat
      BY <1>1, FilesAssumption
    <3> QED
      BY <1>1, <2>1, <2>2, <3>1 DEF AppliedUpTo
  <2>3. CASE s # seq
    BY <1>1, <2>1, <2>3 DEF PollInv, TypeOK, NoChangeSkipped
  <2> QED
    BY <2>2, <2>3
<1> QED
  BY <1>2, <1>3, <1>4 DEF PollInv

LEMMA NextPoll == PollInv /\ [Next]_vars => PollInv'
<1> SUFFICES ASSUME PollInv, [Next]_vars PROVE PollInv'
  OBVIOUS
<1>1. CASE UNCHANGED vars
  BY <1>1 DEF PollInv, TypeOK, Position, Buffers, Progress, NoChangeSkipped, AppliedUpTo,
              vars, dbVars, pollVars, bufVars, boundVars
<1>2. CASE Next
  BY <1>2, ControlStep, FileStep, OutsideStep, DirectStep, BufferedStep, HeldStep,
     FlushStep, FlushedStep, StoreStep DEF Next, Poll
<1> QED
  BY <1>1, <1>2

LEMMA PollAlways == Spec => []PollInv
BY InitPoll, NextPoll, PTL DEF Spec

------------------------------------------------------------------------------
(* The state of poll mode is well typed, whatever fails: the sequence never *)
(* passes the last one published.                                           *)
THEOREM PollTyped == Spec => []TypeOK
BY PollAlways, PTL DEF PollInv

(* Wherever a download, a transaction or the process failed, and however    *)
(* often poll mode was started again, what the stored sequence covers is    *)
(* in the database (but for created nodes).                                 *)
THEOREM NothingSkipped == Spec => []NoChangeSkipped
BY PollAlways, PTL DEF PollInv

(* What a step commits is of the file after the stored sequence. *)
LEMMA StepInTurn ==
    ASSUME PollInv, [Next]_vars,
           NEW c \in Changes, How(c) # "node", times'[c] > times[c]
    PROVE  c[1] = stored + 1
<1>0. times[c] \in Nat
  BY DEF PollInv, TypeOK
<1>1. times' # times
  BY <1>0
<1>2. ApplyDirect \/ ApplyBuffered \/ ApplyHeld \/ Flush
  BY <1>1 DEF Next, Poll, vars, dbVars, Publish, Stop, ReadLocal, ReadRemote, Compare, Sleep,
              NextSequence, Fetch, ApplyFails, EndOfFile, Flushed, StoreSequence, Interrupt, Crash, Restart
<1>3. \A S : Commit(S) => c \in S
  BY <1>0, CommitCounts DEF PollInv
<1>4. \A rows : Write(rows) => c \in rows
  BY <1>3 DEF Write
<1>5. pc \in {"apply", "flush"} => seq = stored + 1 /\ \A d \in buf : d[1] = seq
  BY DEF PollInv, Position, Buffers, InLoop
<1>6. CASE ApplyDirect
  BY <1>3, <1>5, <1>6, CurrentTyped DEF PollInv, ApplyDirect, Reading
<1>7. CASE ApplyBuffered
  <2>1. c \in buf \cup {Current}
    BY <1>4, <1>7 DEF ApplyBuffered, Rows
  <2> QED
    BY <1>5, <1>7, <2>1, CurrentTyped DEF PollInv, ApplyBuffered, Reading
<1>8. CASE ApplyHeld
  <2>1. c \in held \cup {Current}
    BY <1>1, <1>3, <1>8 DEF ApplyHeld
  <2>2. How(Current) = "node" /\ \A d \in held : How(d) = "node"
    BY <1>8 DEF PollInv, Buffers, ApplyHeld
  <2> QED
    BY <2>1, <2>2
<1>9. CASE Flush
  BY <1>4, <1>5, <1>9 DEF Flush, Rows
<1> QED
  BY <1>2, <1>6, <1>7, <1>8, <1>9

(* A change takes effect only while its file is the one after the stored    *)
(* sequence: a restart neither goes back behind it nor writes left-overs.   *)
THEOREM AppliedInTurn == Spec => InTurn
<1>1. PollInv /\ [Next]_vars =>
        [\A c \in Changes : (How(c) # "node" /\ times'[c] > times[c]) => c[1] = stored + 1]_vars
  BY StepInTurn
<1> QED
  BY <1>1, PollAlways, PTL DEF Spec, InTurn

------------------------------------------------------------------------------
(* How often a change is applied.  A file is read again from its beginning *)
(* only after a failure, or after flushNodes has thrown.  It throws for a  *)
(* row of an earlier file only in a process that has that file behind it,  *)
(* on its first attempt at the next one; for rows of the file alone only   *)
(* when the file is jammed.                                                *)

Failures == faults + crashes + signals

(* The process does nothing more before it is started again. *)
Quitting == pc = "ended" \/ (pc = "loop" /\ stop)

(* What the attempt at a file under way, or an earlier one that ended well, *)
(* has gone past                                                           *)
Reached(c) ==
    \/ c[1] <= stored
    \/ pc = "apply" /\ c[1] = seq /\ c[2] < pos
    \/ pc \in {"flush", "store"} /\ c[1] = seq

(* What is still to be committed in this attempt *)
Pending(c) == ~Reached(c) \/ c \in buf \/ c \in held

(* What is buffered has been gone past, unless the file was given up.      *)
BufferedReached ==
    /\ \A c \in buf : How(c) \in Tables
    /\ pc \in {"apply", "flush"} => \A c \in buf : Reached(c)
    /\ Quitting \/ \A c \in held : Reached(c)

(* A node buffer that is full has been flushed, or the process quits. *)
HeldRoom == IsFiniteSet(held) /\ (Quitting \/ Cardinality(held) < NodeRoom)

(* Nothing is committed of a file before its turn. *)
Ahead == \A c \in Changes : c[1] > stored + 1 => times[c] = 0

(* The nodes that an attempt went past are held or committed, so that the  *)
(* committed ones of the next file are its first ones.                     *)
NodesGone ==
    pc = "apply" => \A c \in NodesOf(seq) : c[2] < pos => c \in held \/ times[c] > 0
FirstNodes ==
    \A c, d \in NodesOf(stored + 1) : times[c] > 0 /\ d[2] <= c[2] => times[d] > 0

NodeBuffer == HeldRoom /\ Ahead /\ NodesGone /\ FirstNodes

(* A process that holds nodes of an earlier file is the first to try this. *)
Leftover == \E h \in held : h[1] <= stored
FirstTry ==
    Leftover /\ ~Quitting =>
        \A c \in Changes : c[1] > stored => times[c] <= 1 /\ (Pending(c) => times[c] = 0)

(* Each failure is good for one more attempt; a change that is still to be *)
(* committed has its attempt left.                                         *)
Bounded(c) == times[c] <= 1 + Failures /\ (Pending(c) => times[c] <= Failures)

(* The next file is jammed, and every process there is fills the node      *)
(* buffer from its first node.                                             *)
Fresh ==
    IF pc = "apply" THEN held = {c \in NodesOf(seq) : c[2] < pos}
                    ELSE held = {} /\ pc \notin {"flush", "store"}
Doomed == Jammed(stored + 1) /\ (Quitting \/ Fresh)

Counted == \A c \in Changes : Bounded(c) \/ (c[1] = stored + 1 /\ Doomed)

OnceInv == BufferedReached /\ NodeBuffer /\ FirstTry /\ Counted

LEMMA FailuresTyped ==
    ASSUME PollInv, PollInv'
    PROVE  /\ Failures \in Nat /\ Failures' \in Nat /\ stored \in Int /\ seq \in Int /\ pos \in Nat
           /\ \A c \in Changes : times[c] \in Nat /\ times'[c] \in Nat
           /\ \A c \in Changes : c[1] \in Nat /\ c[1] >= 1 /\ c[2] \in Nat /\ c[2] >= 1
           /\ \A c \in Changes : c = <<c[1], c[2]>>
           /\ faults \in Nat /\ crashes \in Nat /\ signals \in Nat
           /\ held \subseteq Changes /\ buf \subseteq Changes /\ held' \subseteq Changes
<1>1. /\ faults \in Nat /\ crashes \in Nat /\ signals \in Nat
      /\ faults' \in Nat /\ crashes' \in Nat /\ signals' \in Nat
  BY BoundsTyped DEF PollInv, TypeOK
<1>2. ASSUME NEW c \in Changes
      PROVE  c[1] \in Nat /\ c[1] >= 1 /\ c[2] \in Nat /\ c[2] >= 1 /\ c = <<c[1], c[2]>>
  BY ChangeTyped
<1>3. stored \in Int /\ seq \in Int /\ pos \in Nat
  BY BoundsTyped DEF PollInv, TypeOK
<1>4. \A c \in Changes : times[c] \in Nat /\ times'[c] \in Nat
  BY DEF PollInv, TypeOK
<1>5. held \subseteq Changes /\ buf \subseteq Changes /\ held' \subseteq Changes
  BY DEF PollInv, TypeOK
<1> QED
  BY <1>1, <1>2, <1>3, <1>4, <1>5 DEF Failures

(* The nodes of a file are finitely many. *)
LEMMA NodesFinite ==
    ASSUME NEW s \in 1 .. MaxSeq
    PROVE  IsFiniteSet(NodesOf(s))
<1> DEFINE I == {i \in 1 .. Len(Files[s]) : <<s, i>> \in NodesOf(s)}
           f == [i \in I |-> <<s, i>>]
<1>1. IsFiniteSet(I)
  <2>1. Len(Files[s]) \in Nat
    BY FilesAssumption
  <2>2. IsFiniteSet(1 .. Len(Files[s]))
    BY <2>1, FS_Interval
  <2>3. I \in SUBSET (1 .. Len(Files[s]))
    OBVIOUS
  <2> HIDE DEF I
  <2> QED
    BY <2>2, <2>3, FS_Subset
<1>2. \A c \in NodesOf(s) : \E i \in I : f[i] = c
  BY ChangeTyped DEF NodesOf
<1>3. f \in [I -> NodesOf(s)]
  OBVIOUS
<1>4. f \in Surjection(I, NodesOf(s))
  BY <1>2, <1>3 DEF Surjection
<1> QED
  BY <1>1, <1>4, FS_Surjection

(* A jammed file stays so. *)
LEMMA JamStays ==
    ASSUME PollInv, PollInv', \A c \in Changes : times'[c] >= times[c], NEW s, Jammed(s)
    PROVE  Jammed(s)'
<1>1. NodesOf(s) \subseteq Changes
  BY DEF NodesOf
<1> QED
  BY <1>1, FailuresTyped DEF Jammed, NodesOf

(* Steps that commit nothing, keep the attempt and what it has reached. *)
LEMMA QuietCounts ==
    ASSUME PollInv, PollInv', OnceInv, times' = times, Failures' >= Failures, stored' = stored,
           \A c \in Changes : Reached(c) => Reached(c)',
           buf' = buf, held' = held,
           pc' \in {"apply", "flush"} => pc \in {"apply", "flush"} \/ buf' = {},
           pc' = "apply" => pos' = 1 \/ (pc = "apply" /\ pos' = pos /\ seq' = seq),
           Quitting => Quitting', Doomed => Doomed'
    PROVE  OnceInv'
<1>1. BufferedReached'
  BY FailuresTyped DEF OnceInv, BufferedReached
<1>2. NodeBuffer'
  <2>1. HeldRoom' /\ Ahead'
    BY DEF OnceInv, NodeBuffer, HeldRoom, Ahead
  <2>2. FirstNodes'
    BY DEF OnceInv, NodeBuffer, FirstNodes, NodesOf
  <2>3. NodesGone'
    <3>1. \A c \in Changes : ~(c[2] < 1)
      BY FailuresTyped
    <3> QED
      BY <3>1 DEF OnceInv, NodeBuffer, NodesGone, NodesOf
  <2> QED
    BY <2>1, <2>2, <2>3 DEF NodeBuffer
<1>3. \A c \in Changes : Pending(c)' => Pending(c)
  BY DEF Pending
<1>4. FirstTry'
  BY <1>3 DEF OnceInv, FirstTry, Leftover
<1>5. Counted'
  BY <1>3, FailuresTyped DEF OnceInv, Counted, Bounded
<1> QED
  BY <1>1, <1>2, <1>4, <1>5 DEF OnceInv

(* Steps after which the file under way has to be read again, at the cost  *)
(* of a failure.                                                           *)
LEMMA FailureCounts ==
    ASSUME PollInv, PollInv', OnceInv, times' = times, Failures' = Failures + 1, stored' = stored,
           buf' \subseteq buf, held' \subseteq held, pc' \in {"loop", "down"},
           Quitting' \/ (held' = {} /\ pc' = "down")
    PROVE  OnceInv'
<1>1. BufferedReached'
  BY DEF OnceInv, BufferedReached
<1>2. NodeBuffer'
  <2>1. IsFiniteSet(held') /\ (held' = {} => Cardinality(held') < NodeRoom)
    BY FS_Subset, FS_EmptySet, BoundsAssumption DEF OnceInv, NodeBuffer, HeldRoom
  <2>2. HeldRoom' /\ Ahead' /\ NodesGone'
    BY <2>1 DEF OnceInv, NodeBuffer, HeldRoom, Ahead, NodesGone
  <2>3. FirstNodes'
    BY DEF OnceInv, NodeBuffer, FirstNodes, NodesOf
  <2> QED
    BY <2>2, <2>3 DEF NodeBuffer
<1>3. FirstTry'
  BY DEF FirstTry, Leftover
<1>4. Doomed => Doomed'
  BY DEF Doomed, Fresh, Jammed, NodesOf
<1>5. Counted'
  BY <1>4, FailuresTyped DEF OnceInv, Counted, Bounded
<1> QED
  BY <1>1, <1>2, <1>3, <1>5 DEF OnceInv

(* A jammed file is not read to its end: its nodes would be in the buffer. *)
LEMMA JamNotPassed ==
    ASSUME PollInv, PollInv', OnceInv, EndOfFile
    PROVE  ~Doomed
<1> SUFFICES ASSUME Doomed PROVE FALSE
  OBVIOUS
<1>1. pc = "apply" /\ pos > Len(Files[seq]) /\ seq = stored + 1 /\ seq \in 1 .. MaxSeq
  BY DEF EndOfFile, PollInv, Position, InLoop, InFile
<1>2. held = {c \in NodesOf(seq) : c[2] < pos}
  BY <1>1 DEF Doomed, Fresh, Quitting
<1>3. \A c \in NodesOf(seq) : c[2] < pos
  <2> SUFFICES ASSUME NEW c \in NodesOf(seq) PROVE c[2] < pos
    OBVIOUS
  <2>1. PICK s \in 1 .. MaxSeq, i \in Nat : c = <<s, i>> /\ i \in 1 .. Len(Files[s])
    BY ChangeTyped DEF NodesOf
  <2>2. s = seq /\ c[2] = i /\ Len(Files[seq]) \in Nat /\ pos \in Nat
    BY <1>1, <2>1, FilesAssumption, FailuresTyped DEF NodesOf
  <2> QED
    BY <1>1, <2>1, <2>2
<1>4. held = NodesOf(seq)
  BY <1>2, <1>3
<1>5. Cardinality(held) < NodeRoom
  BY <1>1 DEF OnceInv, NodeBuffer, HeldRoom, Quitting
<1>6. Cardinality(held) \in Nat /\ NodeRoom \in Nat
  BY BoundsAssumption, FS_CardinalityType DEF OnceInv, NodeBuffer, HeldRoom
<1>7. Cardinality(NodesOf(seq)) >= NodeRoom
  BY <1>1 DEF Doomed, Jammed
<1> QED
  BY <1>4, <1>5, <1>6, <1>7

LEMMA QuietOnce ==
    ASSUME PollInv, PollInv', OnceInv,
           \/ Publish \/ Stop \/ ReadLocal \/ ReadRemote \/ Compare \/ Sleep \/ NextSequence
           \/ Fetch \/ EndOfFile \/ Flushed \/ Interrupt \/ UNCHANGED vars
    PROVE  OnceInv'
<1> USE DEF dbVars, pollVars, bufVars, boundVars, GiveUp
<1>1. /\ times' = times /\ buf' = buf /\ held' = held /\ stored' = stored
  BY DEF Publish, Stop, ReadLocal, ReadRemote, Compare, Sleep, NextSequence, Fetch, EndOfFile,
         Flushed, Interrupt, vars
<1>2. Failures' >= Failures
  <2>1. /\ faults' = faults \/ faults' = faults + 1
        /\ crashes' = crashes
        /\ signals' = signals \/ signals' = signals + 1
    BY DEF Publish, Stop, ReadLocal, ReadRemote, Compare, Sleep, NextSequence, Fetch, EndOfFile,
           Flushed, Interrupt, vars, Fault
  <2> QED
    BY <2>1, FailuresTyped DEF Failures
<1>3. \A c \in Changes : Reached(c) => Reached(c)'
  <2>1. CASE Fetch
    BY <2>1 DEF Fetch, Reached
  <2>2. CASE EndOfFile
    BY <2>2 DEF EndOfFile, Reached
  <2>4. CASE Interrupt
    BY <2>4 DEF Interrupt, Reached
  <2>5. CASE Compare
    BY <2>5 DEF Compare, Reached
  <2>6. CASE Flushed
    BY <2>6 DEF Flushed, Reached
  <2>7. CASE Stop \/ ReadLocal \/ ReadRemote \/ Sleep \/ NextSequence
    BY <2>7 DEF Stop, ReadLocal, ReadRemote, Sleep, NextSequence, Reached
  <2>8. CASE Publish \/ UNCHANGED vars
    BY <2>8 DEF Publish, vars, Reached
  <2> QED
    BY <2>1, <2>2, <2>4, <2>5, <2>6, <2>7, <2>8
<1>4. pc' \in {"apply", "flush"} => pc \in {"apply", "flush"} \/ buf' = {}
  BY <1>1 DEF PollInv, Buffers, Publish, Stop, ReadLocal, ReadRemote, Compare, Sleep,
              NextSequence, Fetch, EndOfFile, Flushed, Interrupt, vars
<1>5. Quitting => Quitting'
  BY DEF Quitting, Publish, Stop, ReadLocal, ReadRemote, Compare, Sleep, NextSequence, Fetch,
         EndOfFile, Flushed, Interrupt, vars
<1>6. pc' = "apply" => pos' = 1 \/ (pc = "apply" /\ pos' = pos /\ seq' = seq)
  BY DEF Publish, Stop, ReadLocal, ReadRemote, Compare, Sleep, NextSequence, Fetch, EndOfFile,
         Flushed, Interrupt, vars
<1>7. Doomed => Doomed'
  <2> SUFFICES ASSUME Jammed(stored + 1), Quitting \/ Fresh PROVE Doomed'
    BY DEF Doomed
  <2>1. Jammed(stored + 1)'
    BY <1>1 DEF Jammed, NodesOf
  <2>2. Quitting' \/ Fresh'
    <3>1. CASE Quitting
      BY <3>1, <1>5
    <3>2. CASE Fresh /\ Fetch
      <4>1. \A c \in Changes : ~(c[2] < 1)
        BY FailuresTyped
      <4>2. {c \in NodesOf(seq) : c[2] < 1} = {}
        BY <4>1 DEF NodesOf
      <4>3. held = {} /\ held' = {} /\ seq' = seq
        BY <3>2 DEF Fresh, Fetch
      <4>4. (pc' = "apply" /\ pos' = 1) \/ (pc' = "loop" /\ stop')
        BY <3>2 DEF Fetch
      <4> QED
        BY <4>2, <4>3, <4>4 DEF Fresh, Quitting, NodesOf
    <3>3. CASE Fresh /\ EndOfFile
      BY <3>3, JamNotPassed, <2>1 DEF Doomed
    <3>4. CASE Fresh /\ Flushed
      BY <3>4 DEF Fresh, Flushed
    <3>5. CASE Fresh /\ Interrupt
      BY <3>5 DEF Fresh, Interrupt, Quitting, NodesOf
    <3>6. CASE Fresh /\ (Compare \/ ReadLocal \/ ReadRemote)
      BY <3>6 DEF Fresh, Compare, ReadLocal, ReadRemote
    <3>7. CASE Fresh /\ (Publish \/ Stop \/ Sleep \/ NextSequence \/ UNCHANGED vars)
      BY <3>7 DEF Fresh, Publish, Stop, Sleep, NextSequence, vars, NodesOf
    <3> QED
      BY <3>1, <3>2, <3>3, <3>4, <3>5, <3>6, <3>7
  <2> QED
    BY <2>1, <2>2 DEF Doomed
<1> QED
  BY <1>1, <1>2, <1>3, <1>4, <1>5, <1>6, <1>7, QuietCounts

(* A file that is stored is not jammed, and nothing of the next one is     *)
(* committed.                                                              *)
LEMMA StoreOnce ==
    ASSUME PollInv, PollInv', OnceInv, StoreSequence
    PROVE  OnceInv'
<1>1. /\ times' = times /\ buf' = buf /\ held' = held /\ stop' = stop /\ Failures' = Failures
      /\ pc = "store" /\ pc' = "next" /\ stored' = stored + 1 /\ seq = stored + 1
  BY DEF StoreSequence, PollInv, Position, InLoop, bufVars, boundVars, Failures
<1>2. \A c \in Changes : Reached(c) => Reached(c)'
  BY <1>1, FailuresTyped DEF Reached
<1>3. BufferedReached'
  BY <1>1, <1>2, FailuresTyped DEF OnceInv, BufferedReached, Quitting
<1>4. \A c \in Changes : c[1] > stored' => times'[c] = 0
  BY <1>1, FailuresTyped DEF OnceInv, NodeBuffer, Ahead
<1>5. NodeBuffer'
  <2>1. HeldRoom' /\ NodesGone'
    BY <1>1 DEF OnceInv, NodeBuffer, HeldRoom, NodesGone, Quitting
  <2>2. Ahead'
    BY <1>1, <1>4, FailuresTyped DEF Ahead
  <2>3. FirstNodes'
    BY <1>1, <1>4, FailuresTyped DEF FirstNodes, NodesOf
  <2> QED
    BY <2>1, <2>2, <2>3 DEF NodeBuffer
<1>6. FirstTry'
  BY <1>4, FailuresTyped DEF FirstTry
<1>7. Counted'
  <2>1. ~Doomed
    BY <1>1 DEF Doomed, Quitting, Fresh
  <2>2. \A c \in Changes : Pending(c)' => Pending(c)
    BY <1>1, <1>2 DEF Pending
  <2> QED
    BY <1>1, <2>1, <2>2, FailuresTyped DEF OnceInv, Counted, Bounded
<1> QED
  BY <1>3, <1>5, <1>6, <1>7 DEF OnceInv

LEMMA FailureOnce ==
    ASSUME PollInv, PollInv', OnceInv, ApplyFails \/ Crash
    PROVE  OnceInv'
<1>1. Failures' = Failures + 1
  <2>1. \/ faults' = faults + 1 /\ crashes' = crashes /\ signals' = signals
        \/ faults' = faults /\ crashes' = crashes + 1 /\ signals' = signals
    BY DEF ApplyFails, Crash, Fault
  <2> QED
    BY <2>1, FailuresTyped DEF Failures
<1>2. /\ times' = times /\ stored' = stored /\ buf' \subseteq buf /\ held' \subseteq held
      /\ pc' \in {"loop", "down"} /\ (Quitting' \/ (held' = {} /\ pc' = "down"))
  BY DEF ApplyFails, Crash, GiveUp, dbVars, bufVars, Quitting
<1> QED
  BY <1>1, <1>2, FailureCounts

LEMMA RestartOnce ==
    ASSUME PollInv, PollInv', OnceInv, Restart
    PROVE  OnceInv'
<1>1. /\ times' = times /\ buf' = {} /\ held' = {} /\ pc' = "loop" /\ ~stop' /\ Failures' = Failures
      /\ pc \in {"ended", "down"} /\ stored' \in {stored, 0} /\ (stored' # stored => stored = -1)
  BY DEF Restart, boundVars, Failures
<1>2. BufferedReached'
  BY <1>1 DEF BufferedReached
<1>3. \A c \in Changes : Reached(c) => Reached(c)'
  BY <1>1, FailuresTyped DEF Reached
<1>4. stored' # stored => \A c \in Changes : times[c] = 0
  BY <1>1, FailuresTyped DEF OnceInv, NodeBuffer, Ahead
<1>5. NodeBuffer'
  <2>1. HeldRoom' /\ NodesGone'
    BY <1>1, FS_EmptySet, BoundsAssumption DEF HeldRoom, NodesGone
  <2>2. Ahead'
    BY <1>1, <1>4 DEF OnceInv, NodeBuffer, Ahead
  <2>3. FirstNodes'
    BY <1>1, <1>4 DEF OnceInv, NodeBuffer, FirstNodes, NodesOf
  <2> QED
    BY <2>1, <2>2, <2>3 DEF NodeBuffer
<1>6. FirstTry'
  BY <1>1 DEF FirstTry, Leftover
<1>7. Counted'
  <2>1. \A c \in Changes : Pending(c)' => Pending(c)
    BY <1>1, <1>3 DEF Pending
  <2>2. CASE stored' # stored
    BY <1>1, <1>4, <2>2, FailuresTyped DEF Counted, Bounded
  <2>3. CASE stored' = stored
    <3>1. Doomed => Doomed'
      BY <1>1, <2>3 DEF Doomed, Fresh, Jammed, NodesOf
    <3> QED
      BY <1>1, <2>1, <2>3, <3>1 DEF OnceInv, Counted, Bounded
  <2> QED
    BY <2>2, <2>3
<1> QED
  BY <1>2, <1>5, <1>6, <1>7 DEF OnceInv

(* A commit adds one, a flush at most one, and what it gives up is a fault. *)
LEMMA CommitAdds ==
    ASSUME PollInv, NEW S, Commit(S)
    PROVE  \A c \in Changes : times'[c] = IF c \in S THEN times[c] + 1 ELSE times[c]
BY DEF Commit

LEMMA WriteAdds ==
    ASSUME PollInv, PollInv', NEW rows \in SUBSET Changes, Write(rows)
    PROVE  /\ Failures' >= Failures
           /\ \A c \in Changes : times'[c] >= times[c] /\ times'[c] <= times[c] + 1
           /\ \A c \in Changes : c \notin rows => times'[c] = times[c]
<1>1. PICK lost \in SUBSET rows :
        /\ Commit(rows \ lost)
        /\ IF lost = {} THEN UNCHANGED boundVars ELSE Fault
  BY DEF Write
<1>2. \A c \in Changes : times'[c] = IF c \in rows \ lost THEN times[c] + 1 ELSE times[c]
  BY <1>1, CommitAdds
<1>3. /\ faults' = faults \/ faults' = faults + 1
      /\ crashes' = crashes /\ signals' = signals
  BY <1>1 DEF boundVars, Fault
<1>4. Failures' >= Failures
  BY <1>3, FailuresTyped DEF Failures
<1> QED
  BY <1>2, <1>4, FailuresTyped

(* A step that commits S at most once each: what is committed had its      *)
(* attempt left and has used it, and only the current change is new in the *)
(* node buffer.                                                            *)
Commits(S) ==
    /\ pc' = pc /\ pc \in {"apply", "flush"} /\ stored' = stored /\ seq' = seq
    /\ Failures' >= Failures
    /\ \A c \in Changes : times'[c] >= times[c] /\ times'[c] <= times[c] + 1
    /\ \A c \in Changes : c \notin S => times'[c] = times[c]
    /\ \A c \in S : Pending(c) /\ ~Pending(c)'
    /\ \A c \in Changes : Pending(c)' => Pending(c)
    /\ \A h \in held' : h[1] <= stored => h \in held

LEMMA CommitOnce ==
    ASSUME PollInv, PollInv', OnceInv, NEW S \in SUBSET Changes, Commits(S), Doomed => Doomed'
    PROVE  Ahead' /\ FirstTry' /\ Counted'
<1>1. seq = stored + 1
  BY DEF Commits, PollInv, Position, InLoop
<1>2. Ahead'
  <2>1. \A c \in S : ~(c[1] > stored + 1)
    <3>1. \A c \in Changes : Reached(c)' => c[1] <= stored \/ c[1] = seq
      BY DEF Commits, Reached
    <3> QED
      BY <1>1, <3>1, FailuresTyped DEF Commits, Pending
  <2> QED
    BY <2>1 DEF Commits, OnceInv, NodeBuffer, Ahead
<1>3. FirstTry'
  <2> SUFFICES ASSUME Leftover', NEW c \in Changes, c[1] > stored
               PROVE  times'[c] <= 1 /\ (Pending(c)' => times'[c] = 0)
    BY DEF FirstTry, Commits
  <2>1. Leftover /\ ~Quitting
    BY DEF Leftover, Commits, Quitting
  <2>2. times[c] <= 1 /\ (Pending(c) => times[c] = 0)
    BY <2>1 DEF OnceInv, FirstTry
  <2> QED
    BY <2>2, FailuresTyped DEF Commits
<1>4. Counted'
  <2> SUFFICES ASSUME NEW c \in Changes, Bounded(c)
               PROVE  Bounded(c)'
    BY DEF OnceInv, Counted, Commits
  <2> QED
    BY FailuresTyped DEF Bounded, Commits
<1> QED
  BY <1>2, <1>3, <1>4

(* The parser goes past the current change, which it had not reached.      *)
LEMMA CurrentReached ==
    ASSUME PollInv, Reading, stored' = stored, seq' = seq, pc' = pc, pos' = pos + 1,
           NEW cur, cur = Current
    PROVE  /\ cur \in Changes /\ ~Reached(cur) /\ Reached(cur)'
           /\ \A c \in Changes : Reached(c) => Reached(c)'
           /\ pc = "apply" /\ pc' = "apply"
           /\ cur = <<seq, pos>> /\ cur[1] = seq /\ cur[2] = pos /\ seq = stored + 1
           /\ seq \in 1 .. MaxSeq /\ pos \in Nat /\ stored \in Int
<1>1. /\ seq \in 1 .. MaxSeq /\ pos \in 1 .. Len(Files[seq]) /\ cur \in Changes
  BY CurrentTyped DEF PollInv
<1>2. seq = stored + 1 /\ stored \in Int /\ pc = "apply"
  BY BoundsTyped DEF PollInv, Position, InLoop, Reading, TypeOK
<1>3. cur[1] = seq /\ cur[2] = pos /\ cur = <<seq, pos>>
  BY DEF Current
<1>4. pos \in Nat /\ seq \in Int /\ \A c \in Changes : c[2] \in Nat
  BY <1>1, ChangeTyped
<1>5. ~Reached(cur)
  BY <1>2, <1>3, <1>4 DEF Reached
<1>6. \A c \in Changes : Reached(c) => Reached(c)'
  BY <1>2, <1>4 DEF Reached
<1>7. Reached(cur)'
  BY <1>2, <1>3, <1>4 DEF Reached
<1> QED
  BY <1>1, <1>2, <1>3, <1>4, <1>5, <1>6, <1>7

(* Past a change that is no node the node buffer stays as it was, and so   *)
(* does what was committed of the file's nodes.                            *)
LEMMA NodesKept ==
    ASSUME PollInv, PollInv', OnceInv, Reading, How(Current) # "node",
           pc' = pc, stored' = stored, seq' = seq, stop' = stop, pos' = pos + 1, held' = held,
           \A c \in Changes : How(c) = "node" => times'[c] = times[c]
    PROVE  /\ HeldRoom' /\ NodesGone' /\ FirstNodes'
           /\ Doomed => Doomed'
<1>0. PICK cur : cur = Current
  OBVIOUS
<1>1. /\ cur = <<seq, pos>> /\ pos \in Nat /\ pc = "apply" /\ How(cur) # "node" /\ stored \in Int
      /\ seq = stored + 1
  BY <1>0, CurrentReached
<1>2. \A s : \A c \in NodesOf(s) : times'[c] = times[c] /\ c \in Changes /\ How(c) = "node"
  BY DEF NodesOf
<1>3. \A c \in NodesOf(seq) : c[2] < pos + 1 <=> c[2] < pos
  <2> SUFFICES ASSUME NEW c \in NodesOf(seq), c[2] < pos + 1 PROVE c[2] < pos
    BY <1>1, <1>2, FailuresTyped
  <2>1. c = <<seq, c[2]>> /\ c[2] \in Nat
    BY FailuresTyped DEF NodesOf
  <2>2. c[2] # pos
    BY <1>1, <1>2, <2>1
  <2> QED
    BY <1>1, <2>1, <2>2
<1>4. HeldRoom'
  BY DEF OnceInv, NodeBuffer, HeldRoom, Quitting
<1>5. NodesGone'
  BY <1>1, <1>2, <1>3 DEF OnceInv, NodeBuffer, NodesGone, NodesOf
<1>6. FirstNodes'
  BY <1>2 DEF OnceInv, NodeBuffer, FirstNodes, NodesOf
<1>7. ASSUME Doomed PROVE Doomed'
  <2>1. Jammed(stored + 1)'
    BY <1>2, <1>7 DEF Doomed, Jammed, NodesOf
  <2>2. held = {c \in NodesOf(seq) : c[2] < pos}
    BY <1>1, <1>7 DEF Doomed, Quitting, Fresh
  <2>3. held' = {c \in NodesOf(seq) : c[2] < pos + 1}
    BY <1>3, <2>2
  <2> QED
    BY <1>1, <2>1, <2>3 DEF Doomed, Fresh, NodesOf
<1> QED
  BY <1>4, <1>5, <1>6, <1>7

LEMMA DirectOnce ==
    ASSUME PollInv, PollInv', OnceInv, ApplyDirect
    PROVE  OnceInv'
<1>0. PICK cur : cur = Current
  OBVIOUS
<1>1. /\ Reading /\ How(cur) = "direct" /\ Commit({cur})
      /\ pos' = pos + 1 /\ stored' = stored /\ pc' = pc /\ seq' = seq /\ stop' = stop
      /\ buf' = buf /\ held' = held /\ Failures' = Failures
  BY <1>0 DEF ApplyDirect, bufVars, boundVars, Failures
<1>2. /\ cur \in Changes /\ ~Reached(cur) /\ Reached(cur)'
      /\ \A c \in Changes : Reached(c) => Reached(c)'
      /\ pc = "apply" /\ pc' = "apply"
  BY <1>0, <1>1, CurrentReached
<1>3. buf \subseteq Changes /\ held \subseteq Changes
  BY DEF PollInv, TypeOK
<1>4. cur \notin buf /\ cur \notin held
  BY <1>2 DEF OnceInv, BufferedReached, Quitting
<1>5. BufferedReached'
  BY <1>1, <1>2, <1>3 DEF OnceInv, BufferedReached, Quitting
<1>6. \A c \in Changes : times'[c] = IF c = cur THEN times[c] + 1 ELSE times[c]
  BY <1>1, CommitAdds
<1>7. HeldRoom' /\ NodesGone' /\ FirstNodes' /\ (Doomed => Doomed')
  BY <1>0, <1>1, <1>6, NodesKept
<1>8. Commits({cur})
  BY <1>1, <1>2, <1>4, <1>6, FailuresTyped DEF Commits, Pending
<1>9. Ahead' /\ FirstTry' /\ Counted'
  BY <1>2, <1>7, <1>8, CommitOnce
<1> QED
  BY <1>5, <1>7, <1>9 DEF OnceInv, NodeBuffer

LEMMA BufferedOnce ==
    ASSUME PollInv, PollInv', OnceInv, ApplyBuffered
    PROVE  OnceInv'
<1>0. PICK cur : cur = Current
  OBVIOUS
<1> DEFINE rows == Rows(How(cur)) \cup {cur}
           S == IF IsFull(How(cur), Cardinality(rows)) THEN rows ELSE {}
<1>1. /\ Reading /\ How(cur) \in Tables /\ Write(S)
      /\ pos' = pos + 1 /\ stored' = stored /\ pc' = pc /\ seq' = seq /\ stop' = stop
      /\ held' = held
      /\ (S = {} /\ buf' = buf \cup rows) \/ (S = rows /\ buf' = buf \ rows)
  BY <1>0 DEF ApplyBuffered
<1>2. /\ cur \in Changes /\ ~Reached(cur) /\ Reached(cur)'
      /\ \A c \in Changes : Reached(c) => Reached(c)'
      /\ pc = "apply" /\ pc' = "apply"
  BY <1>0, <1>1, CurrentReached
<1>3. /\ buf \subseteq Changes /\ held \subseteq Changes
      /\ rows \subseteq buf \cup {cur} /\ \A c \in rows : How(c) \in Tables
  BY <1>1 DEF PollInv, TypeOK, Rows
<1>4. "node" \notin Tables /\ \A c \in rows : c \notin held
  <2>1. "node" \notin Tables /\ \A c \in held : How(c) = "node"
    BY DEF PollInv, Buffers, Tables
  <2> QED
    BY <1>3, <2>1
<1> HIDE DEF rows, S
<1>5. BufferedReached'
  BY <1>1, <1>2, <1>3 DEF OnceInv, BufferedReached, Quitting
<1>6. S \in SUBSET Changes
  BY <1>1, <1>2, <1>3
<1>7. /\ Failures' >= Failures
      /\ \A c \in Changes : times'[c] >= times[c] /\ times'[c] <= times[c] + 1
      /\ \A c \in Changes : c \notin S => times'[c] = times[c]
  BY <1>1, <1>6, WriteAdds
<1>8. HeldRoom' /\ NodesGone' /\ FirstNodes' /\ (Doomed => Doomed')
  BY <1>0, <1>1, <1>3, <1>4, <1>7, NodesKept
<1>9. \A c \in S : c \in buf \/ ~Reached(c)
  BY <1>1, <1>2, <1>3
<1>10. \A c \in S : Reached(c)' /\ c \notin buf' /\ c \notin held'
  BY <1>1, <1>2, <1>3, <1>4 DEF OnceInv, BufferedReached
<1>11. \A c \in buf' \cup held' : c \in buf \/ c \in held \/ ~Reached(c)
  BY <1>1, <1>2, <1>3
<1>12. Commits(S)
  BY <1>1, <1>2, <1>7, <1>9, <1>10, <1>11 DEF Commits, Pending
<1>13. Ahead' /\ FirstTry' /\ Counted'
  BY <1>6, <1>8, <1>12, CommitOnce
<1> QED
  BY <1>5, <1>8, <1>13 DEF OnceInv, NodeBuffer

(* flushNodes throws: a row of the file itself is there only if the file is *)
(* jammed, one of an earlier file only on the first attempt at this one.    *)
LEMMA ThrowOnce ==
    ASSUME PollInv, PollInv', OnceInv, ApplyHeld,
           Cardinality(held \cup {Current}) >= NodeRoom,
           \E c \in held \cup {Current} : times[c] > 0
    PROVE  OnceInv'
<1>0. PICK cur : cur = Current
  OBVIOUS
<1> DEFINE rows == held \cup {cur}
<1>1. /\ Reading /\ How(cur) = "node" /\ pc = "apply" /\ pc' = "loop" /\ stop'
      /\ held' = rows /\ buf' = buf /\ times' = times /\ stored' = stored
      /\ Failures' = Failures
      /\ Cardinality(rows) >= NodeRoom
  BY <1>0 DEF ApplyHeld, Reading, GiveUp, boundVars, Failures
<1>2. PICK r \in rows : times[r] > 0
  BY <1>0
<1>3. /\ cur \in Changes /\ cur[1] = seq /\ cur[2] = pos /\ seq = stored + 1
      /\ seq \in 1 .. MaxSeq /\ stored \in Int /\ pos \in Nat
  <2>1. seq = stored + 1
    BY <1>1 DEF PollInv, Position, InLoop
  <2> QED
    BY <1>0, <1>1, <2>1, CurrentTyped, FailuresTyped DEF PollInv, Current
<1>4. ~Reached(cur)
  BY <1>1, <1>3 DEF Reached
<1>5. /\ held \subseteq Changes /\ rows \subseteq Changes /\ ~Quitting /\ Quitting'
      /\ \A c \in held : How(c) = "node" /\ (c[1] <= stored \/ c[1] = seq)
  BY <1>1, <1>3 DEF OnceInv, BufferedReached, Reached, Quitting, PollInv, TypeOK, Buffers
<1>6. BufferedReached' /\ FirstTry'
  BY <1>1, <1>5 DEF OnceInv, BufferedReached, FirstTry
<1>7. NodeBuffer'
  <2>1. IsFiniteSet(rows)
    BY FS_AddElement DEF OnceInv, NodeBuffer, HeldRoom
  <2>2. HeldRoom'
    BY <1>1, <1>5, <2>1 DEF HeldRoom
  <2>3. Ahead' /\ NodesGone' /\ FirstNodes'
    BY <1>1 DEF OnceInv, NodeBuffer, Ahead, NodesGone, FirstNodes, NodesOf
  <2> QED
    BY <2>2, <2>3 DEF NodeBuffer
<1>8. Counted'
  <2> SUFFICES ASSUME NEW c \in Changes
               PROVE  Bounded(c)' \/ (c[1] = stored + 1 /\ Doomed')
    BY <1>1 DEF Counted
  <2>1. times[c] \in Nat /\ Failures \in Nat /\ c[1] \in Nat
    BY FailuresTyped
  <2>2. CASE c[1] <= stored
    <3>1. Bounded(c)
      BY <1>3, <2>1, <2>2 DEF OnceInv, Counted
    <3>2. Pending(c)' => Pending(c)
      BY <1>1, <1>3, <2>1, <2>2 DEF Pending, Reached
    <3> QED
      BY <1>1, <3>1, <3>2 DEF Bounded
  <2>3. CASE c[1] > stored + 1
    BY <1>1, <2>1, <2>3 DEF OnceInv, NodeBuffer, Ahead, Bounded
  <2>4. CASE c[1] = stored + 1 /\ Leftover
    <3>1. \A d \in Changes : d[1] > stored => times[d] <= 1 /\ (Pending(d) => times[d] = 0)
      BY <1>5, <2>4 DEF OnceInv, FirstTry
    <3>2. \A d \in rows : Pending(d)
      BY <1>4 DEF Pending
    <3>3. r \in Changes /\ r[1] <= stored /\ times[r] \in Nat
      BY <1>2, <1>3, <1>5, <3>1, <3>2, FailuresTyped
    <3>4. Bounded(r)
      BY <1>3, <3>3, FailuresTyped DEF OnceInv, Counted
    <3>5. Failures >= 1
      BY <1>2, <2>1, <3>2, <3>3, <3>4 DEF Bounded
    <3>6. times[c] <= 1
      BY <1>3, <2>4, <3>1
    <3> QED
      BY <1>1, <2>1, <3>5, <3>6 DEF Bounded
  <2>5. CASE c[1] = stored + 1 /\ ~Leftover
    <3>1. rows \subseteq NodesOf(seq)
      BY <1>1, <1>3, <1>5, <2>5 DEF Leftover, NodesOf
    <3>2. IsFiniteSet(NodesOf(seq)) /\ Cardinality(NodesOf(seq)) \in Nat
      BY <1>3, NodesFinite, FS_CardinalityType
    <3>3. Cardinality(rows) \in Nat /\ Cardinality(rows) <= Cardinality(NodesOf(seq))
      BY <3>1, <3>2, FS_Subset, FS_CardinalityType
    <3>4. Jammed(seq)
      BY <1>1, <1>2, <3>1, <3>2, <3>3, BoundsAssumption DEF Jammed
    <3>5. Doomed'
      BY <1>1, <1>3, <1>5, <3>4 DEF Doomed, Jammed, NodesOf
    <3> QED
      BY <2>5, <3>5
  <2> QED
    BY <1>3, <2>1, <2>2, <2>3, <2>4, <2>5
<1> QED
  BY <1>6, <1>7, <1>8 DEF OnceInv

(* insertNode goes on: the node is held or the buffer is flushed.  With a   *)
(* jammed file the flush comes with its first nodes and would have thrown.  *)
LEMMA HeldOnce ==
    ASSUME PollInv, PollInv', OnceInv, ApplyHeld,
           ~(/\ Cardinality(held \cup {Current}) >= NodeRoom
             /\ \E c \in held \cup {Current} : times[c] > 0)
    PROVE  OnceInv'
<1>0. PICK cur : cur = Current
  OBVIOUS
<1> DEFINE rows == held \cup {cur}
           S == IF Cardinality(rows) >= NodeRoom THEN rows ELSE {}
<1>1. /\ Reading /\ How(cur) = "node" /\ Commit(S)
      /\ pos' = pos + 1 /\ stored' = stored /\ pc' = pc /\ seq' = seq /\ stop' = stop
      /\ buf' = buf /\ Failures' = Failures
      /\ \/ S = {} /\ held' = rows /\ ~(Cardinality(rows) >= NodeRoom)
         \/ S = rows /\ held' = {} /\ \A c \in rows : ~(times[c] > 0)
  BY <1>0 DEF ApplyHeld, boundVars, Failures
<1>2. /\ cur \in Changes /\ ~Reached(cur) /\ Reached(cur)'
      /\ \A c \in Changes : Reached(c) => Reached(c)'
      /\ pc = "apply" /\ pc' = "apply"
      /\ cur = <<seq, pos>> /\ cur[1] = seq /\ cur[2] = pos /\ seq = stored + 1
      /\ pos \in Nat /\ stored \in Int
  BY <1>0, <1>1, CurrentReached
<1>3. /\ buf \subseteq Changes /\ held \subseteq Changes
      /\ \A c \in rows : How(c) = "node"
  BY <1>1 DEF PollInv, TypeOK, Buffers
<1>4. \A c \in rows : c \notin buf
  <2>1. "node" \notin Tables /\ \A c \in buf : How(c) \in Tables
    BY DEF OnceInv, BufferedReached, Tables
  <2> QED
    BY <1>3, <2>1
<1>5. IsFiniteSet(rows) /\ Cardinality(rows) \in Nat
  BY FS_AddElement, FS_CardinalityType DEF OnceInv, NodeBuffer, HeldRoom
<1>6. /\ S \in SUBSET Changes /\ cur \in rows /\ rows \subseteq Changes
      /\ \A c \in rows : c \in held \/ c = cur
      /\ held' \subseteq held \cup {cur} /\ held \subseteq rows
  BY <1>1, <1>2, <1>3
<1>7. \A c \in held : c \in rows
  OBVIOUS
<1> HIDE DEF rows, S
<1>8. \A c \in held : Reached(c)
  BY <1>2 DEF OnceInv, BufferedReached, Quitting
<1>9. BufferedReached'
  BY <1>1, <1>2, <1>3, <1>6, <1>8 DEF OnceInv, BufferedReached, Quitting
<1>10. HeldRoom'
  BY <1>1, <1>5, FS_EmptySet, BoundsAssumption DEF HeldRoom
<1>11. \A c \in Changes : times'[c] = IF c \in S THEN times[c] + 1 ELSE times[c]
  BY <1>1, CommitAdds
(* The nodes of the file up to the current one *)
<1>12. ASSUME NEW c \in NodesOf(seq), c[2] <= pos
       PROVE  c \in rows \/ times[c] > 0
  <2>1. c = <<seq, c[2]>> /\ c[2] \in Nat
    BY FailuresTyped DEF NodesOf
  <2>2. CASE c[2] = pos
    BY <1>2, <1>6, <2>1, <2>2
  <2>3. CASE c[2] < pos
    BY <1>2, <1>7, <2>3 DEF OnceInv, NodeBuffer, NodesGone
  <2> QED
    BY <1>2, <1>12, <2>1, <2>2, <2>3
<1>13. \A c \in Changes : times[c] \in Nat /\ times'[c] \in Nat /\ times'[c] >= times[c]
  BY <1>11, FailuresTyped
<1>14. \A s : NodesOf(s) \subseteq Changes
  BY DEF NodesOf
<1>15. \A c \in NodesOf(seq) : c[2] < pos + 1 <=> c[2] <= pos
  BY <1>2, <1>14, FailuresTyped
<1>16. NodesGone'
  <2> SUFFICES ASSUME NEW c \in NodesOf(seq), c[2] <= pos
               PROVE  c \in held' \/ times'[c] > 0
    BY <1>1, <1>15 DEF NodesGone, NodesOf
  <2>1. c \in rows \/ times[c] > 0
    BY <1>12
  <2>2. c \in rows => c \in held' \/ times'[c] > 0
    BY <1>1, <1>6, <1>11, <1>13
  <2> QED
    BY <1>13, <1>14, <2>1, <2>2
<1>17. FirstNodes'
  <2> SUFFICES ASSUME NEW c \in NodesOf(seq), NEW d \in NodesOf(seq), times'[c] > 0, d[2] <= c[2]
               PROVE  times'[d] > 0
    BY <1>1, <1>2 DEF FirstNodes, NodesOf
  <2>1. CASE times[c] > 0
    BY <1>2, <1>13, <1>14, <2>1 DEF OnceInv, NodeBuffer, FirstNodes
  <2>2. CASE ~(times[c] > 0)
    <3>1. c \in S /\ S = rows /\ c \in Changes /\ d \in Changes
      BY <1>1, <1>11, <1>14, <2>2
    <3>2. c[2] <= pos
      <4>1. CASE c = cur
        BY <1>2, <4>1
      <4>2. CASE c \in held
        BY <1>2, <1>8, <4>2, FailuresTyped DEF Reached, NodesOf
      <4> QED
        BY <1>6, <3>1, <4>1, <4>2
    <3>3. d[2] <= pos
      BY <1>2, <3>1, <3>2, FailuresTyped
    <3>4. d \in rows \/ times[d] > 0
      BY <1>12, <3>3
    <3> QED
      BY <1>11, <1>13, <3>1, <3>4
  <2> QED
    BY <2>1, <2>2
<1>18. ASSUME Doomed PROVE Doomed'
  <2>1. Jammed(stored + 1)'
    BY <1>1, <1>13, <1>18, JamStays DEF Doomed, Jammed, NodesOf
  <2>2. held = {c \in NodesOf(seq) : c[2] < pos}
    BY <1>2, <1>18 DEF Doomed, Quitting, Fresh
  <2>3. PICK r \in NodesOf(seq) : times[r] > 0
    BY <1>2, <1>18 DEF Doomed, Jammed
  <2>4. \E q \in rows : times[q] > 0
    <3>1. CASE r[2] < pos
      BY <1>7, <2>2, <2>3, <3>1
    <3>2. CASE ~(r[2] < pos)
      <4>1. cur[2] <= r[2] /\ cur \in NodesOf(seq)
        <5>1. r[2] \in Nat
          BY <1>14, FailuresTyped
        <5> QED
          BY <1>1, <1>2, <3>2, <5>1 DEF NodesOf
      <4>2. times[cur] > 0
        BY <1>2, <2>3, <4>1 DEF OnceInv, NodeBuffer, FirstNodes
      <4> QED
        BY <1>6, <4>2
    <3> QED
      BY <3>1, <3>2
  <2>5. held' = rows
    BY <1>1, <2>4
  <2>6. rows = {c \in NodesOf(seq) : c[2] < pos + 1}
    <3>1. rows = held \cup {cur}
      BY DEF rows
    <3>2. cur \in NodesOf(seq) /\ cur[2] < pos + 1
      BY <1>1, <1>2 DEF NodesOf
    <3>3. \A c \in NodesOf(seq) : c[2] < pos + 1 => c[2] < pos \/ c = cur
      <4> SUFFICES ASSUME NEW c \in NodesOf(seq), c[2] < pos + 1 PROVE c[2] < pos \/ c = cur
        OBVIOUS
      <4>1. c = <<seq, c[2]>> /\ c[2] \in Nat
        BY FailuresTyped DEF NodesOf
      <4> QED
        BY <1>2, <4>1
    <3>4. \A c \in held : c \in NodesOf(seq) /\ c[2] < pos + 1
      BY <1>2, <1>3, <2>2, FailuresTyped
    <3> QED
      BY <2>2, <3>1, <3>2, <3>3, <3>4
  <2> QED
    BY <1>1, <1>2, <2>1, <2>5, <2>6 DEF Doomed, Fresh, NodesOf
<1>19. Commits(S)
  <2>1. \A c \in S : Pending(c)
    BY <1>1, <1>2, <1>6 DEF Pending
  <2>2. \A c \in S : Reached(c)' /\ c \notin buf' /\ c \notin held'
    BY <1>1, <1>2, <1>3, <1>4, <1>6, <1>8
  <2>3. \A c \in Changes : Pending(c)' => Pending(c)
    BY <1>1, <1>2, <1>6 DEF Pending
  <2>4. \A h \in held' : h[1] <= stored => h \in held
    BY <1>2, <1>6
  <2>5. \A c \in Changes : times'[c] <= times[c] + 1 /\ (c \notin S => times'[c] = times[c])
    BY <1>11, <1>13
  <2>6. Failures' >= Failures
    BY <1>1, FailuresTyped
  <2> QED
    BY <1>1, <1>2, <1>13, <2>1, <2>2, <2>3, <2>4, <2>5, <2>6 DEF Commits, Pending
<1>20. Ahead' /\ FirstTry' /\ Counted'
  BY <1>6, <1>18, <1>19, CommitOnce
<1> QED
  BY <1>9, <1>10, <1>16, <1>17, <1>20 DEF OnceInv, NodeBuffer

LEMMA FlushOnce ==
    ASSUME PollInv, PollInv', OnceInv, Flush
    PROVE  OnceInv'
<1>1. PICK t \in Tables : Write(Rows(t)) /\ buf' = buf \ Rows(t)
  BY DEF Flush
<1>2. PICK rows : rows = Rows(t)
  OBVIOUS
<1>3. /\ Write(rows) /\ buf' = buf \ rows /\ held' = held /\ pc = "flush" /\ pc' = pc
      /\ stored' = stored /\ seq' = seq /\ stop' = stop
  BY <1>1, <1>2 DEF Flush, pollVars
<1>4. /\ rows \subseteq buf /\ buf \subseteq Changes /\ held \subseteq Changes
      /\ \A c \in rows : How(c) # "node" /\ c \notin held
  <2>1. "node" \notin Tables /\ \A c \in held : How(c) = "node"
    BY DEF PollInv, Buffers, Tables
  <2> QED
    BY <1>2, <2>1 DEF Rows, PollInv, TypeOK
<1>5. \A c \in Changes : Reached(c) <=> Reached(c)'
  BY <1>3 DEF Reached
<1>6. BufferedReached'
  BY <1>3, <1>4, <1>5 DEF OnceInv, BufferedReached, Quitting
<1>7. /\ Failures' >= Failures
      /\ \A c \in Changes : times'[c] >= times[c] /\ times'[c] <= times[c] + 1
      /\ \A c \in Changes : c \notin rows => times'[c] = times[c]
  BY <1>3, <1>4, WriteAdds
<1>8. \A c \in rows : Reached(c)' /\ c \notin buf' /\ c \notin held'
  BY <1>3, <1>4, <1>5 DEF OnceInv, BufferedReached
<1>9. HeldRoom' /\ NodesGone'
  BY <1>3 DEF OnceInv, NodeBuffer, HeldRoom, NodesGone, Quitting
<1>10. FirstNodes'
  <2>1. \A s : \A c \in NodesOf(s) : times'[c] = times[c]
    BY <1>4, <1>7 DEF NodesOf
  <2> QED
    BY <1>3, <2>1 DEF OnceInv, NodeBuffer, FirstNodes, NodesOf
<1>11. ~Doomed
  BY <1>3 DEF Doomed, Quitting, Fresh
<1>12. Commits(rows)
  BY <1>3, <1>4, <1>5, <1>7, <1>8 DEF Commits, Pending
<1>13. rows \in SUBSET Changes
  BY <1>4
<1>14. Ahead' /\ FirstTry' /\ Counted'
  BY <1>11, <1>12, <1>13, CommitOnce
<1> QED
  BY <1>6, <1>9, <1>10, <1>14 DEF OnceInv, NodeBuffer

LEMMA InitOnce == Init => OnceInv
<1> SUFFICES ASSUME Init PROVE OnceInv
  OBVIOUS
<1>1. BufferedReached
  BY DEF Init, BufferedReached
<1>2. Failures = 0
  BY DEF Init, Failures
<1>3. \A c \in Changes : times[c] = 0
  BY DEF Init
<1>4. HeldRoom
  BY FS_EmptySet, BoundsAssumption DEF Init, HeldRoom
<1>5. Ahead /\ NodesGone /\ FirstNodes
  BY <1>3 DEF Init, Ahead, NodesGone, FirstNodes, NodesOf
<1>6. FirstTry
  BY <1>3 DEF FirstTry
<1> QED
  BY <1>1, <1>2, <1>3, <1>4, <1>5, <1>6 DEF OnceInv, NodeBuffer, Counted, Bounded

LEMMA NextOnce == PollInv /\ PollInv' /\ OnceInv /\ [Next]_vars => OnceInv'
BY QuietOnce, StoreOnce, FailureOnce, RestartOnce, DirectOnce, BufferedOnce, ThrowOnce, HeldOnce,
   FlushOnce
   DEF Next, Poll

(* Each failed download, transaction, parse, crash and signal lets a change *)
(* be applied at most once more, whatever the files hold and wherever the   *)
(* failures hit, but for the changes of a next file that is jammed: there   *)
(* flushNodes throws each time and no bound holds.                          *)
THEOREM RepeatedOnlyByFailure == Spec => []RepeatedByFailure
<1>1. PollInv /\ OnceInv => RepeatedByFailure
  <2> SUFFICES ASSUME PollInv, OnceInv, NEW c \in Changes
               PROVE  \/ times[c] <= 1 + faults + crashes + signals
                      \/ c[1] = stored + 1 /\ Jammed(c[1])
    BY DEF RepeatedByFailure
  <2>1. times[c] <= 1 + (faults + crashes + signals) \/ (c[1] = stored + 1 /\ Jammed(c[1]))
    BY DEF OnceInv, Counted, Bounded, Doomed, Failures
  <2>2. faults \in Nat /\ crashes \in Nat /\ signals \in Nat /\ times[c] \in Nat
    BY BoundsTyped DEF PollInv, TypeOK
  <2> QED
    BY <2>1, <2>2
<1> QED
  BY <1>1, InitOnce, NextOnce, PollAlways, PTL DEF Spec
==============================================================================
