---------------------------- MODULE BlockingQueue ----------------------------
(***************************************************************************)
(* The bounded queue of src/src/main.cpp:34-73 at the grain of its mutex   *)
(* and its two condition variables.  A critical section is one action; a   *)
(* thread whose wait predicate is false joins the wait set of its          *)
(* condition variable and leaves it when notified (or spuriously), after   *)
(* which it evaluates the predicate again.  Between two calls a thread is  *)
(* "busy": a notification sent then reaches nobody.                        *)
(*                                                                         *)
(* As in main(), shutdown() is called by the producing side, after the     *)
(* last push.                                                              *)
(***************************************************************************)
EXTENDS Integers, Sequences, FiniteSets

CONSTANTS Pushers, Poppers, MaxSize, Quota

ASSUME ThreadsAssumption ==
    /\ IsFiniteSet(Pushers)
    /\ IsFiniteSet(Poppers)
    /\ Poppers # {}
ASSUME SizesAssumption == MaxSize \in Nat \ {0} /\ Quota \in Nat

VARIABLES q,             \* q_
          stop,          \* stop_
          waitNotFull,   \* pushers blocked in cv_not_full_.wait
          waitNotEmpty,  \* poppers blocked in cv_not_empty_.wait
          ppc,           \* "busy" | "pushing" | "done"
          cpc,           \* "busy" | "popping" | "done"
          closer,        \* progress of the one shutdown() call
          sent,          \* history: pushes that returned, per pusher
          out            \* history: items pop handed out, per popper

vars == <<q, stop, waitNotFull, waitNotEmpty, ppc, cpc, closer, sent, out>>

(* An item is known by its pusher and its number. *)
Items == Pushers \X (1..Quota)

TypeOK ==
    /\ q \in Seq(Items)
    /\ Len(q) \in 0..MaxSize
    /\ stop \in BOOLEAN
    /\ waitNotFull \subseteq {p \in Pushers : ppc[p] = "pushing"}
    /\ waitNotEmpty \subseteq {c \in Poppers : cpc[c] = "popping"}
    /\ ppc \in [Pushers -> {"busy", "pushing", "done"}]
    /\ cpc \in [Poppers -> {"busy", "popping", "done"}]
    /\ closer \in {"open", "stopped", "notifiedNotEmpty", "closed"}
    /\ sent \in [Pushers -> 0..Quota]
    /\ out \in [Poppers -> Seq(Items)]

Init ==
    /\ q = <<>>
    /\ stop = FALSE
    /\ waitNotFull = {}
    /\ waitNotEmpty = {}
    /\ ppc = [p \in Pushers |-> "busy"]
    /\ cpc = [c \in Poppers |-> "busy"]
    /\ closer = "open"
    /\ sent = [p \in Pushers |-> 0]
    /\ out = [c \in Poppers |-> <<>>]

(* Threads inside a call that hold no place in a wait set: they run the    *)
(* wait predicate as soon as they get the mutex.                           *)
AwakePushers == {p \in Pushers : ppc[p] = "pushing" /\ p \notin waitNotFull}
AwakePoppers == {c \in Poppers : cpc[c] = "popping" /\ c \notin waitNotEmpty}

(* Definitions named Slip... are what the code would be with one plausible  *)
(* mistake; nothing uses them but the mutants of PROJECT.json.             *)
SlipMayPush == Len(q) <= MaxSize \/ stop

(* The wait predicates, main.cpp:41 and main.cpp:48. *)
MayPush == Len(q) < MaxSize \/ stop
MayPop  == q # <<>> \/ stop

(* notify_one on a condition variable whose waiters are W: what may be     *)
(* left of W.                                                              *)
AfterNotifyOne(W) == IF W = {} THEN {{}} ELSE {W \ {t} : t \in W}

------------------------------------------------------------------------------
(* push(item) *)

StartPush(p) ==
    /\ ppc[p] = "busy"
    /\ sent[p] < Quota
    /\ ppc' = [ppc EXCEPT ![p] = "pushing"]
    /\ UNCHANGED <<q, stop, waitNotFull, waitNotEmpty, cpc, closer, sent, out>>

PushWait(p) ==
    /\ p \in AwakePushers
    /\ ~MayPush
    /\ waitNotFull' = waitNotFull \cup {p}
    /\ UNCHANGED <<q, stop, waitNotEmpty, ppc, cpc, closer, sent, out>>

(* The popper is notified only when the queue was empty. *)
SlipPush(p) ==
    /\ p \in AwakePushers
    /\ MayPush
    /\ sent' = [sent EXCEPT ![p] = @ + 1]
    /\ q' = Append(q, <<p, sent[p] + 1>>)
    /\ waitNotEmpty' \in IF q = <<>> THEN AfterNotifyOne(waitNotEmpty) ELSE {waitNotEmpty}
    /\ ppc' = [ppc EXCEPT ![p] = "busy"]
    /\ UNCHANGED <<stop, waitNotFull, cpc, closer, out>>

Push(p) ==
    /\ p \in AwakePushers
    /\ MayPush
    /\ sent' = [sent EXCEPT ![p] = @ + 1]
    /\ q' = Append(q, <<p, sent[p] + 1>>)
    /\ waitNotEmpty' \in AfterNotifyOne(waitNotEmpty)
    /\ ppc' = [ppc EXCEPT ![p] = "busy"]
    /\ UNCHANGED <<stop, waitNotFull, cpc, closer, out>>

(* The producing loop of main() is over for this pusher. *)
FinishPushing(p) ==
    /\ ppc[p] = "busy"
    /\ sent[p] = Quota
    /\ ppc' = [ppc EXCEPT ![p] = "done"]
    /\ UNCHANGED <<q, stop, waitNotFull, waitNotEmpty, cpc, closer, sent, out>>

------------------------------------------------------------------------------
(* while (queue.pop(entry)) ... of nodeThread and wayThread *)

StartPop(c) ==
    /\ cpc[c] = "busy"
    /\ cpc' = [cpc EXCEPT ![c] = "popping"]
    /\ UNCHANGED <<q, stop, waitNotFull, waitNotEmpty, ppc, closer, sent, out>>

PopWait(c) ==
    /\ c \in AwakePoppers
    /\ ~MayPop
    /\ waitNotEmpty' = waitNotEmpty \cup {c}
    /\ UNCHANGED <<q, stop, waitNotFull, ppc, cpc, closer, sent, out>>

(* The newest item is handed out. *)
SlipPopNewest(c) ==
    /\ c \in AwakePoppers
    /\ q # <<>>
    /\ q' = SubSeq(q, 1, Len(q) - 1)
    /\ out' = [out EXCEPT ![c] = Append(@, q[Len(q)])]
    /\ waitNotFull' \in AfterNotifyOne(waitNotFull)
    /\ cpc' = [cpc EXCEPT ![c] = "busy"]
    /\ UNCHANGED <<stop, waitNotEmpty, ppc, closer, sent>>

Pop(c) ==
    /\ c \in AwakePoppers
    /\ q # <<>>
    /\ q' = Tail(q)
    /\ out' = [out EXCEPT ![c] = Append(@, Head(q))]
    /\ waitNotFull' \in AfterNotifyOne(waitNotFull)
    /\ cpc' = [cpc EXCEPT ![c] = "busy"]
    /\ UNCHANGED <<stop, waitNotEmpty, ppc, closer, sent>>

(* pop returns false and the worker's loop ends. *)
PopStopped(c) ==
    /\ c \in AwakePoppers
    /\ MayPop
    /\ q = <<>>
    /\ cpc' = [cpc EXCEPT ![c] = "done"]
    /\ UNCHANGED <<q, stop, waitNotFull, waitNotEmpty, ppc, closer, sent, out>>

------------------------------------------------------------------------------
(* shutdown(): stop_ is set under the mutex, the notifications are not. *)

ShutdownSet ==
    /\ closer = "open"
    /\ \A p \in Pushers : ppc[p] = "done"
    /\ stop' = TRUE
    /\ closer' = "stopped"
    /\ UNCHANGED <<q, waitNotFull, waitNotEmpty, ppc, cpc, sent, out>>

(* notify_one instead of notify_all. *)
SlipShutdownNotifyNotEmpty ==
    /\ closer = "stopped"
    /\ waitNotEmpty' \in AfterNotifyOne(waitNotEmpty)
    /\ closer' = "notifiedNotEmpty"
    /\ UNCHANGED <<q, stop, waitNotFull, ppc, cpc, sent, out>>

ShutdownNotifyNotEmpty ==
    /\ closer = "stopped"
    /\ waitNotEmpty' = {}
    /\ closer' = "notifiedNotEmpty"
    /\ UNCHANGED <<q, stop, waitNotFull, ppc, cpc, sent, out>>

ShutdownNotifyNotFull ==
    /\ closer = "notifiedNotEmpty"
    /\ waitNotFull' = {}
    /\ closer' = "closed"
    /\ UNCHANGED <<q, stop, waitNotEmpty, ppc, cpc, sent, out>>

(* A condition variable may wake a thread nobody notified. *)
SpuriousWake ==
    /\ \/ /\ \E p \in waitNotFull : waitNotFull' = waitNotFull \ {p}
          /\ UNCHANGED waitNotEmpty
       \/ /\ \E c \in waitNotEmpty : waitNotEmpty' = waitNotEmpty \ {c}
          /\ UNCHANGED waitNotFull
    /\ UNCHANGED <<q, stop, ppc, cpc, closer, sent, out>>

------------------------------------------------------------------------------

PusherStep(p) == StartPush(p) \/ PushWait(p) \/ Push(p) \/ FinishPushing(p)
PopperStep(c) == StartPop(c) \/ PopWait(c) \/ Pop(c) \/ PopStopped(c)
Shutdown == ShutdownSet \/ ShutdownNotifyNotEmpty \/ ShutdownNotifyNotFull

Next ==
    \/ \E p \in Pushers : PusherStep(p)
    \/ \E c \in Poppers : PopperStep(c)
    \/ Shutdown
    \/ SpuriousWake

(* Every thread that can run is scheduled; spurious wake-ups are not owed. *)
Fairness ==
    /\ \A p \in Pushers : WF_vars(PusherStep(p))
    /\ \A c \in Poppers : WF_vars(PopperStep(c))
    /\ WF_vars(Shutdown)

Spec == Init /\ [][Next]_vars
FairSpec == Spec /\ Fairness

------------------------------------------------------------------------------
(* Safety *)

(* A popper sleeps only while every queued item has an awake popper to     *)
(* take it: push's single notify_one is enough although a busy popper may  *)
(* steal the item the notified one was woken for.                          *)
PopWakeupsSuffice ==
    waitNotEmpty # {} => Len(q) <= Cardinality(AwakePoppers)

(* The same for pushers and free slots: pop's notify_one is enough.        *)
PushWakeupsSuffice ==
    (waitNotFull # {} /\ ~stop) =>
        MaxSize - Len(q) <= Cardinality(AwakePushers)

(* Producer and workers never all sleep: with every popper asleep, a       *)
(* blocked pusher has been notified or has a fellow that will run.         *)
NoDeadlock ==
    (waitNotEmpty = Poppers /\ waitNotFull # {}) => AwakePushers # {}

(* Once shutdown's notify_all on cv_not_empty_ has run, no popper is       *)
(* asleep or can fall asleep: none misses the shutdown although the        *)
(* notification is sent after the mutex is released.                       *)
ShutdownWakesAll ==
    closer \in {"notifiedNotEmpty", "closed"} => waitNotEmpty = {}

(* Nobody sleeps past a wake-up: one notify_one per push, one per pop and  *)
(* the notify_all of a shutdown reach all that could go on.                *)
WakeupsSuffice == PopWakeupsSuffice /\ PushWakeupsSuffice /\ ShutdownWakesAll

(* A worker's loop ends only when the queue is drained: nothing pushed     *)
(* before shutdown() is abandoned.                                         *)
NothingAbandoned ==
    (\E c \in Poppers : cpc[c] = "done") => q = <<>> /\ stop

(* Joining the workers ends: once every push has returned, every worker's  *)
(* loop ends (main.cpp:1283-1292).                                         *)
WorkersEnd ==
    (\A p \in Pushers : sent[p] = Quota) ~> (\A c \in Poppers : cpc[c] = "done")

(* The code implements the contract, its promises of progress included. *)
Contract == INSTANCE QueueContract
    WITH closed <- stop, gone <- {c \in Poppers : cpc[c] = "done"}

(* Every push, pop and shutdown of the queue is a step of a bounded FIFO   *)
(* channel, and a call that the channel lets return does return.           *)
ImplementsContract == Contract!Spec
==============================================================================
