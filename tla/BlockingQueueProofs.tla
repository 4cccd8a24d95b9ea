------------------------- MODULE BlockingQueueProofs -------------------------
(***************************************************************************)
(* Proofs about BlockingQueue for any finite sets of threads, any bound    *)
(* and any number of items.                                                *)
(***************************************************************************)
EXTENDS BlockingQueue, FiniteSetTheorems, TLAPS

(* What TypeOK needs to be inductive: a push under way is one of the       *)
(* quota, and once the queue is stopped nobody pushes any more.            *)
CallOrder ==
    /\ \A p \in Pushers : ppc[p] = "pushing" => sent[p] < Quota
    /\ stop => \A p \in Pushers : ppc[p] = "done"
    /\ stop <=> closer # "open"

TypeInv == TypeOK /\ CallOrder

LEMMA TypeInvInit == Init => TypeInv
  <1> SUFFICES ASSUME Init PROVE TypeInv
    OBVIOUS
  <1>1. TypeOK
    <2>1. q \in Seq(Items) /\ Len(q) \in 0..MaxSize
      BY SizesAssumption DEF Init
    <2>2. out \in [Poppers -> Seq(Items)]
      BY DEF Init
    <2>3. sent \in [Pushers -> 0..Quota]
      BY SizesAssumption DEF Init
    <2>4. /\ ppc \in [Pushers -> {"busy", "pushing", "done"}]
          /\ cpc \in [Poppers -> {"busy", "popping", "done"}]
      BY DEF Init
    <2>5. QED
      BY <2>1, <2>2, <2>3, <2>4 DEF Init, TypeOK
  <1>2. CallOrder
    BY DEF Init, CallOrder
  <1>3. QED
    BY <1>1, <1>2 DEF TypeInv

LEMMA NotifyOneShrinks ==
    ASSUME NEW W, NEW V \in AfterNotifyOne(W)
    PROVE  V \subseteq W
  BY DEF AfterNotifyOne

LEMMA TypeInvStep == TypeInv /\ [Next]_vars => TypeInv'
  <1> SUFFICES ASSUME TypeInv, [Next]_vars PROVE TypeInv'
    OBVIOUS
  <1> USE SizesAssumption DEF TypeInv, TypeOK, CallOrder
  <1>1. ASSUME NEW p \in Pushers, StartPush(p) PROVE TypeInv'
    BY <1>1 DEF StartPush
  <1>2. ASSUME NEW p \in Pushers, PushWait(p) PROVE TypeInv'
    BY <1>2 DEF PushWait, AwakePushers
  <1>3. ASSUME NEW p \in Pushers, Push(p) PROVE TypeInv'
    <2>1. ppc[p] = "pushing" /\ p \notin waitNotFull /\ ~stop
      BY <1>3 DEF Push, AwakePushers
    <2>2. <<p, sent[p] + 1>> \in Items /\ sent[p] + 1 \in 0..Quota /\ Len(q) < MaxSize
      BY <1>3, <2>1 DEF Push, MayPush, Items
    <2>3. /\ q' \in Seq(Items)
          /\ Len(q') \in 0..MaxSize
      BY <1>3, <2>2 DEF Push
    <2>4. waitNotEmpty' \subseteq waitNotEmpty
      BY <1>3, NotifyOneShrinks DEF Push
    <2>5. QED
      BY <1>3, <2>1, <2>2, <2>3, <2>4 DEF Push
  <1>4. ASSUME NEW p \in Pushers, FinishPushing(p) PROVE TypeInv'
    BY <1>4 DEF FinishPushing
  <1>5. ASSUME NEW c \in Poppers, StartPop(c) PROVE TypeInv'
    BY <1>5 DEF StartPop
  <1>6. ASSUME NEW c \in Poppers, PopWait(c) PROVE TypeInv'
    BY <1>6 DEF PopWait, AwakePoppers
  <1>7. ASSUME NEW c \in Poppers, Pop(c) PROVE TypeInv'
    <2>1. cpc[c] = "popping" /\ c \notin waitNotEmpty /\ q # <<>>
      BY <1>7 DEF Pop, AwakePoppers
    <2>2. /\ q' \in Seq(Items)
          /\ Len(q') \in 0..MaxSize
          /\ Head(q) \in Items
      BY <1>7, <2>1 DEF Pop
    <2>3. waitNotFull' \subseteq waitNotFull
      BY <1>7, NotifyOneShrinks DEF Pop
    <2>4. out' \in [Poppers -> Seq(Items)]
      <3>1. Append(out[c], Head(q)) \in Seq(Items)
        BY <2>2
      <3>2. QED
        BY <1>7, <3>1 DEF Pop
    <2>5. QED
      BY <1>7, <2>1, <2>2, <2>3, <2>4 DEF Pop
  <1>8. ASSUME NEW c \in Poppers, PopStopped(c) PROVE TypeInv'
    BY <1>8 DEF PopStopped, AwakePoppers
  <1>9. CASE Shutdown
    BY <1>9 DEF Shutdown, ShutdownSet, ShutdownNotifyNotEmpty, ShutdownNotifyNotFull
  <1>10. CASE SpuriousWake
    BY <1>10 DEF SpuriousWake
  <1>11. CASE UNCHANGED vars
    BY <1>11 DEF vars
  <1>12. QED
    BY <1>1, <1>2, <1>3, <1>4, <1>5, <1>6, <1>7, <1>8, <1>9, <1>10, <1>11
       DEF Next, PusherStep, PopperStep

(* The variables keep their types, the queue its bound among them: push    *)
(* never overfills it, not even through the "|| stop_" of its predicate.   *)
THEOREM TypeCorrect == Spec => []TypeOK
  <1>1. TypeInv => TypeOK
    BY DEF TypeInv
  <1>2. QED
    BY <1>1, TypeInvInit, TypeInvStep, PTL DEF Spec

------------------------------------------------------------------------------
(* Wake-ups.  Counting awake threads needs the cardinality of a set that   *)
(* gains or loses one element.                                             *)

LEMMA AwakeFinite ==
    /\ IsFiniteSet(AwakePushers) /\ Cardinality(AwakePushers) \in Nat
    /\ IsFiniteSet(AwakePoppers) /\ Cardinality(AwakePoppers) \in Nat
  BY ThreadsAssumption, FS_Subset, FS_CardinalityType DEF AwakePushers, AwakePoppers

LEMMA GrownSet ==
    ASSUME NEW S, NEW T, IsFiniteSet(T), S \subseteq T
    PROVE  /\ Cardinality(S) \in Nat /\ Cardinality(T) \in Nat
           /\ Cardinality(S) <= Cardinality(T)
  BY FS_Subset, FS_CardinalityType

LEMMA OneMore ==
    ASSUME NEW S, NEW x, IsFiniteSet(S), x \notin S
    PROVE  Cardinality(S \cup {x}) = Cardinality(S) + 1
  BY FS_AddElement

LEMMA OneLess ==
    ASSUME NEW S, NEW x, IsFiniteSet(S), x \in S
    PROVE  Cardinality(S \ {x}) = Cardinality(S) - 1
  BY FS_RemoveElement

LEMMA NotifiedOne ==
    ASSUME NEW W, NEW V \in AfterNotifyOne(W), V # {}
    PROVE  \E t \in W : V = W \ {t}
  BY DEF AfterNotifyOne

LEMMA PopWakeupsStep ==
    TypeInv /\ TypeInv' /\ PopWakeupsSuffice /\ [Next]_vars => PopWakeupsSuffice'
  <1> SUFFICES ASSUME TypeInv, TypeInv', PopWakeupsSuffice, [Next]_vars,
                      waitNotEmpty' # {}
               PROVE  Len(q)' <= Cardinality(AwakePoppers)'
    BY DEF PopWakeupsSuffice
  <1>0. /\ IsFiniteSet(AwakePoppers) /\ Cardinality(AwakePoppers) \in Nat
        /\ IsFiniteSet(AwakePoppers') /\ Cardinality(AwakePoppers') \in Nat
        /\ Len(q) \in Nat /\ Len(q') \in Nat /\ q \in Seq(Items)
    <2>1. IsFiniteSet(AwakePoppers') /\ Cardinality(AwakePoppers') \in Nat
      BY ThreadsAssumption, FS_Subset, FS_CardinalityType DEF AwakePoppers
    <2>2. QED
      BY <2>1, AwakeFinite, SizesAssumption DEF TypeInv, TypeOK
  <1>1. CASE UNCHANGED <<q, cpc>> /\ waitNotEmpty' \subseteq waitNotEmpty
    <2>1. AwakePoppers \subseteq AwakePoppers'
      BY <1>1 DEF AwakePoppers
    <2>2. QED
      BY <1>0, <1>1, <2>1, GrownSet DEF PopWakeupsSuffice
  <1>2. ASSUME NEW p \in Pushers, PusherStep(p) PROVE Len(q)' <= Cardinality(AwakePoppers)'
    <2>1. CASE StartPush(p) \/ PushWait(p) \/ FinishPushing(p)
      BY <1>1, <2>1 DEF StartPush, PushWait, FinishPushing
    <2>2. CASE Push(p)
      <3>1. PICK t \in waitNotEmpty : waitNotEmpty' = waitNotEmpty \ {t}
        BY <2>2, NotifiedOne DEF Push
      <3>2. t \notin AwakePoppers /\ AwakePoppers' = AwakePoppers \cup {t}
        BY <2>2, <3>1 DEF Push, AwakePoppers, TypeInv, TypeOK
      <3>3. Len(q') = Len(q) + 1
        BY <1>0, <2>2 DEF Push
      <3>4. Cardinality(AwakePoppers') = Cardinality(AwakePoppers) + 1
        BY <1>0, <3>2, OneMore
      <3>5. QED
        BY <1>0, <3>1, <3>3, <3>4 DEF PopWakeupsSuffice
    <2>3. QED
      BY <1>2, <2>1, <2>2 DEF PusherStep
  <1>3. ASSUME NEW c \in Poppers, PopperStep(c) PROVE Len(q)' <= Cardinality(AwakePoppers)'
    <2>1. CASE StartPop(c)
      <3>1. AwakePoppers \subseteq AwakePoppers'
        BY <2>1 DEF StartPop, AwakePoppers, TypeInv, TypeOK
      <3>2. QED
        BY <1>0, <2>1, <3>1, GrownSet DEF PopWakeupsSuffice, StartPop
    <2>2. CASE PopWait(c) \/ PopStopped(c)
      <3>1. q' = <<>>
        BY <2>2 DEF PopWait, PopStopped, MayPop
      <3>2. QED
        BY <1>0, <3>1
    <2>3. CASE Pop(c)
      <3>1. c \in AwakePoppers /\ AwakePoppers' = AwakePoppers \ {c}
        BY <2>3 DEF Pop, AwakePoppers, TypeInv, TypeOK
      <3>2. Len(q') = Len(q) - 1
        BY <1>0, <2>3 DEF Pop
      <3>3. Cardinality(AwakePoppers') = Cardinality(AwakePoppers) - 1
        BY <1>0, <3>1, OneLess
      <3>4. QED
        BY <1>0, <2>3, <3>2, <3>3 DEF PopWakeupsSuffice, Pop
    <2>4. QED
      BY <1>3, <2>1, <2>2, <2>3 DEF PopperStep
  <1>4. CASE Shutdown \/ SpuriousWake \/ UNCHANGED vars
    BY <1>1, <1>4 DEF Shutdown, ShutdownSet, ShutdownNotifyNotEmpty,
                      ShutdownNotifyNotFull, SpuriousWake, vars
  <1>5. QED
    BY <1>2, <1>3, <1>4 DEF Next

LEMMA PushWakeupsStep ==
    TypeInv /\ TypeInv' /\ PushWakeupsSuffice /\ [Next]_vars => PushWakeupsSuffice'
  <1> SUFFICES ASSUME TypeInv, TypeInv', PushWakeupsSuffice, [Next]_vars,
                      waitNotFull' # {}, ~stop'
               PROVE  MaxSize - Len(q)' <= Cardinality(AwakePushers)'
    BY DEF PushWakeupsSuffice
  <1>0. /\ IsFiniteSet(AwakePushers) /\ Cardinality(AwakePushers) \in Nat
        /\ IsFiniteSet(AwakePushers') /\ Cardinality(AwakePushers') \in Nat
        /\ Len(q) \in Nat /\ Len(q') \in Nat /\ q \in Seq(Items) /\ MaxSize \in Nat
    <2>1. IsFiniteSet(AwakePushers') /\ Cardinality(AwakePushers') \in Nat
      BY ThreadsAssumption, FS_Subset, FS_CardinalityType DEF AwakePushers
    <2>2. QED
      BY <2>1, AwakeFinite, SizesAssumption DEF TypeInv, TypeOK
  <1>1. CASE UNCHANGED <<q, ppc, stop>> /\ waitNotFull' \subseteq waitNotFull
    <2>1. AwakePushers \subseteq AwakePushers'
      BY <1>1 DEF AwakePushers
    <2>2. QED
      BY <1>0, <1>1, <2>1, GrownSet DEF PushWakeupsSuffice
  <1>2. ASSUME NEW p \in Pushers, PusherStep(p)
        PROVE  MaxSize - Len(q)' <= Cardinality(AwakePushers)'
    <2>1. CASE StartPush(p)
      <3>1. AwakePushers \subseteq AwakePushers'
        BY <2>1 DEF StartPush, AwakePushers, TypeInv, TypeOK
      <3>2. QED
        BY <1>0, <2>1, <3>1, GrownSet DEF PushWakeupsSuffice, StartPush
    <2>2. CASE PushWait(p)
      <3>1. Len(q') >= MaxSize
        BY <1>0, <2>2 DEF PushWait, MayPush
      <3>2. QED
        BY <1>0, <3>1
    <2>3. CASE Push(p)
      <3>1. p \in AwakePushers /\ AwakePushers' = AwakePushers \ {p}
        BY <2>3 DEF Push, AwakePushers, TypeInv, TypeOK
      <3>2. Len(q') = Len(q) + 1
        BY <1>0, <2>3 DEF Push
      <3>3. Cardinality(AwakePushers') = Cardinality(AwakePushers) - 1
        BY <1>0, <3>1, OneLess
      <3>4. QED
        BY <1>0, <2>3, <3>2, <3>3 DEF PushWakeupsSuffice, Push
    <2>4. CASE FinishPushing(p)
      <3>1. AwakePushers' = AwakePushers
        BY <2>4 DEF FinishPushing, AwakePushers, TypeInv, TypeOK
      <3>2. QED
        BY <1>0, <2>4, <3>1 DEF PushWakeupsSuffice, FinishPushing
    <2>5. QED
      BY <1>2, <2>1, <2>2, <2>3, <2>4 DEF PusherStep
  <1>3. ASSUME NEW c \in Poppers, PopperStep(c)
        PROVE  MaxSize - Len(q)' <= Cardinality(AwakePushers)'
    <2>1. CASE StartPop(c) \/ PopWait(c) \/ PopStopped(c)
      BY <1>1, <2>1 DEF StartPop, PopWait, PopStopped
    <2>2. CASE Pop(c)
      <3>1. PICK t \in waitNotFull : waitNotFull' = waitNotFull \ {t}
        BY <2>2, NotifiedOne DEF Pop
      <3>2. t \notin AwakePushers /\ AwakePushers' = AwakePushers \cup {t}
        BY <2>2, <3>1 DEF Pop, AwakePushers, TypeInv, TypeOK
      <3>3. Len(q') = Len(q) - 1
        BY <1>0, <2>2 DEF Pop
      <3>4. Cardinality(AwakePushers') = Cardinality(AwakePushers) + 1
        BY <1>0, <3>2, OneMore
      <3>5. QED
        BY <1>0, <2>2, <3>1, <3>3, <3>4 DEF PushWakeupsSuffice, Pop
    <2>3. QED
      BY <1>3, <2>1, <2>2 DEF PopperStep
  <1>4. CASE Shutdown \/ SpuriousWake \/ UNCHANGED vars
    BY <1>1, <1>4 DEF Shutdown, ShutdownSet, ShutdownNotifyNotEmpty,
                      ShutdownNotifyNotFull, SpuriousWake, vars
  <1>5. QED
    BY <1>2, <1>3, <1>4 DEF Next

(* One notify_one per push is enough, for any number of threads.           *)
THEOREM PopWakeups == Spec => []PopWakeupsSuffice
  <1>1. Init => PopWakeupsSuffice
    BY DEF Init, PopWakeupsSuffice
  <1>2. QED
    BY <1>1, TypeInvInit, TypeInvStep, PopWakeupsStep, PTL DEF Spec

(* One notify_one per pop is enough, for any number of threads.            *)
THEOREM PushWakeups == Spec => []PushWakeupsSuffice
  <1>1. Init => PushWakeupsSuffice
    BY DEF Init, PushWakeupsSuffice
  <1>2. QED
    BY <1>1, TypeInvInit, TypeInvStep, PushWakeupsStep, PTL DEF Spec

(* Pushers and poppers are never all asleep: sleeping poppers without an   *)
(* awake one mean an empty queue, hence free slots, hence awake pushers.   *)
THEOREM DeadlockFree == Spec => []NoDeadlock
  <1>1. TypeInv /\ PopWakeupsSuffice /\ PushWakeupsSuffice => NoDeadlock
    <2> SUFFICES ASSUME TypeInv, PopWakeupsSuffice, PushWakeupsSuffice,
                        waitNotEmpty = Poppers, waitNotFull # {}
                 PROVE  AwakePushers # {}
      BY DEF NoDeadlock
    <2>1. AwakePoppers = {} /\ Cardinality({}) = 0
      BY FS_EmptySet DEF AwakePoppers
    <2>2. Len(q) = 0 /\ MaxSize > 0
      BY <2>1, ThreadsAssumption, SizesAssumption DEF PopWakeupsSuffice, TypeInv, TypeOK
    <2>3. ~stop
      BY DEF TypeInv, TypeOK, CallOrder
    <2>4. Cardinality(AwakePushers) > 0
      BY <2>2, <2>3, AwakeFinite, SizesAssumption DEF PushWakeupsSuffice
    <2>5. QED
      BY <2>1, <2>4
  <1>2. QED
    BY <1>1, TypeInvInit, TypeInvStep, PopWakeups, PushWakeups, PTL DEF Spec

------------------------------------------------------------------------------
(* Shutdown. *)

LEMMA ShutdownStep ==
    TypeInv /\ ShutdownWakesAll /\ NothingAbandoned /\ [Next]_vars
        => ShutdownWakesAll' /\ NothingAbandoned'
  <1> SUFFICES ASSUME TypeInv, ShutdownWakesAll, NothingAbandoned, [Next]_vars
               PROVE  ShutdownWakesAll' /\ NothingAbandoned'
    OBVIOUS
  <1> USE DEF TypeInv, TypeOK, CallOrder, ShutdownWakesAll, NothingAbandoned
  <1>1. ASSUME NEW p \in Pushers, PusherStep(p)
        PROVE  ShutdownWakesAll' /\ NothingAbandoned'
    <2>1. CASE Push(p)
      <3>1. ~stop /\ closer = "open"
        BY <2>1 DEF Push, AwakePushers
      <3>2. QED
        BY <2>1, <3>1 DEF Push
    <2>2. QED
      BY <1>1, <2>1 DEF PusherStep, StartPush, PushWait, FinishPushing
  <1>2. ASSUME NEW c \in Poppers, PopperStep(c)
        PROVE  ShutdownWakesAll' /\ NothingAbandoned'
    <2>1. CASE StartPop(c)
      BY <2>1 DEF StartPop
    <2>2. CASE PopWait(c)
      BY <2>2 DEF PopWait, MayPop
    <2>3. CASE Pop(c)
      BY <2>3 DEF Pop
    <2>4. CASE PopStopped(c)
      BY <2>4 DEF PopStopped, MayPop
    <2>5. QED
      BY <1>2, <2>1, <2>2, <2>3, <2>4 DEF PopperStep
  <1>3. CASE Shutdown
    BY <1>3 DEF Shutdown, ShutdownSet, ShutdownNotifyNotEmpty, ShutdownNotifyNotFull
  <1>4. CASE SpuriousWake \/ UNCHANGED vars
    BY <1>4 DEF SpuriousWake, vars
  <1>5. QED
    BY <1>1, <1>2, <1>3, <1>4 DEF Next

LEMMA ShutdownInit == Init => ShutdownWakesAll /\ NothingAbandoned
  BY DEF Init, ShutdownWakesAll, NothingAbandoned

(* No popper sleeps through the shutdown although notify_all is called     *)
(* after the mutex is released.                                            *)
THEOREM ShutdownReachesAll == Spec => []ShutdownWakesAll
  BY ShutdownInit, ShutdownStep, TypeInvInit, TypeInvStep, PTL DEF Spec

(* A worker that leaves its loop leaves an empty, stopped queue behind.    *)
THEOREM QueueDrained == Spec => []NothingAbandoned
  BY ShutdownInit, ShutdownStep, TypeInvInit, TypeInvStep, PTL DEF Spec

(* Whoever sleeps in the queue has a wake-up coming, whatever the numbers  *)
(* of threads and the capacity.                                            *)
THEOREM WakeupsReachAll == Spec => []WakeupsSuffice
  <1>1. PopWakeupsSuffice /\ PushWakeupsSuffice /\ ShutdownWakesAll => WakeupsSuffice
    BY DEF WakeupsSuffice
  <1>2. QED
    BY <1>1, PopWakeups, PushWakeups, ShutdownReachesAll, PTL

------------------------------------------------------------------------------
(* The contract of module QueueContract.  A pusher that is done has pushed *)
(* its quota, so the queue is closed after the last item.                  *)

AllSent == \A p \in Pushers : ppc[p] = "done" => sent[p] = Quota

LEMMA AllSentStep == TypeInv /\ AllSent /\ [Next]_vars => AllSent'
  <1> SUFFICES ASSUME TypeInv, AllSent, [Next]_vars PROVE AllSent'
    OBVIOUS
  <1> USE DEF TypeInv, TypeOK, AllSent
  <1>1. ASSUME NEW p \in Pushers, PusherStep(p) PROVE AllSent'
    BY <1>1 DEF PusherStep, StartPush, PushWait, Push, FinishPushing
  <1>2. ASSUME NEW c \in Poppers, PopperStep(c) PROVE AllSent'
    BY <1>2 DEF PopperStep, StartPop, PopWait, Pop, PopStopped
  <1>3. CASE Shutdown \/ SpuriousWake \/ UNCHANGED vars
    BY <1>3 DEF Shutdown, ShutdownSet, ShutdownNotifyNotEmpty, ShutdownNotifyNotFull,
                SpuriousWake, vars
  <1>4. QED
    BY <1>1, <1>2, <1>3 DEF Next

LEMMA ContractInit == Init => Contract!Init
  BY DEF Init, Contract!Init

(* Only the moments at which a call takes effect are visible: the push,    *)
(* the pop and the stop under the mutex, and a pop that returns false.     *)
LEMMA ContractStep ==
    TypeInv /\ AllSent /\ [Next]_vars => [Contract!Next]_(Contract!abstractVars)
  <1> SUFFICES ASSUME TypeInv, AllSent, [Next]_vars
               PROVE  [Contract!Next]_(Contract!abstractVars)
    OBVIOUS
  <1>1. CASE UNCHANGED <<q, sent, out, stop, cpc>>
    BY <1>1 DEF Contract!abstractVars
  <1>2. ASSUME NEW p \in Pushers, Push(p) PROVE Contract!Put(p)
    <2>1. ~stop /\ sent[p] < Quota
      BY <1>2 DEF Push, AwakePushers, TypeInv, CallOrder
    <2>2. Len(q) < MaxSize
      BY <1>2, <2>1 DEF Push, MayPush
    <2>3. sent'[p] = sent[p] + 1
      BY <1>2 DEF Push, TypeInv, TypeOK
    <2>4. QED
      BY <1>2, <2>1, <2>2, <2>3 DEF Push, Contract!Put
  <1>3. ASSUME NEW c \in Poppers, StartPop(c) PROVE UNCHANGED Contract!abstractVars
    <2>1. {d \in Poppers : cpc'[d] = "done"} = {d \in Poppers : cpc[d] = "done"}
      BY <1>3 DEF StartPop, TypeInv, TypeOK
    <2>2. QED
      BY <1>3, <2>1 DEF StartPop, Contract!abstractVars
  <1>4. ASSUME NEW c \in Poppers, Pop(c) PROVE Contract!Take(c)
    <2>1. {d \in Poppers : cpc'[d] = "done"} = {d \in Poppers : cpc[d] = "done"}
      BY <1>4 DEF Pop, AwakePoppers, TypeInv, TypeOK
    <2>2. QED
      BY <1>4, <2>1 DEF Pop, AwakePoppers, Contract!Take
  <1>5. ASSUME NEW c \in Poppers, PopStopped(c) PROVE Contract!Leave(c)
    <2>1. {d \in Poppers : cpc'[d] = "done"} = {d \in Poppers : cpc[d] = "done"} \cup {c}
      BY <1>5 DEF PopStopped, TypeInv, TypeOK
    <2>2. stop
      BY <1>5 DEF PopStopped, MayPop
    <2>3. QED
      BY <1>5, <2>1, <2>2 DEF PopStopped, AwakePoppers, Contract!Leave
  <1>6. CASE ShutdownSet
    <2>1. ~stop /\ \A p \in Pushers : sent[p] = Quota
      BY <1>6 DEF ShutdownSet, AllSent, TypeInv, CallOrder
    <2>2. Contract!Close
      BY <1>6, <2>1 DEF ShutdownSet, Contract!Close
    <2>3. QED
      BY <2>2 DEF Contract!Next
  <1>7. QED
    BY <1>1, <1>2, <1>3, <1>4, <1>5, <1>6
       DEF Next, PusherStep, PopperStep, Shutdown, StartPush, PushWait, FinishPushing, PopWait,
           ShutdownNotifyNotEmpty, ShutdownNotifyNotFull, SpuriousWake, vars, Contract!Next

(* The mutex, the condition variables and the wait loops make a bounded    *)
(* FIFO channel that is closed once, after the last item, and that workers *)
(* leave only when it is closed and empty, for any numbers of threads, any *)
(* bound and any number of items.                                          *)
THEOREM QueueKeepsContract == Spec => Contract!Safety
  <1>1. Init => AllSent
    BY DEF Init, AllSent
  <1>2. Spec => [](TypeInv /\ AllSent)
    BY <1>1, TypeInvInit, TypeInvStep, AllSentStep, PTL DEF Spec
  <1>3. QED
    BY <1>2, ContractInit, ContractStep, PTL DEF Spec, Contract!Safety
==============================================================================
