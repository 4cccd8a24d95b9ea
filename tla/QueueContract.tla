---------------------------- MODULE QueueContract ----------------------------
(***************************************************************************)
(* What BlockingQueue<T> promises its callers, with the mutex, the two     *)
(* condition variables and the wait loops left out: a bounded FIFO channel *)
(* that is closed once and that every reader leaves only when it is closed *)
(* and empty.  Module BlockingQueue implements it.                         *)
(***************************************************************************)
EXTENDS Naturals, Sequences

CONSTANTS Pushers,  \* threads that call push
          Poppers,  \* threads that call pop in a loop
          MaxSize,  \* max_size_
          Quota     \* items each pusher sends

VARIABLES q,      \* items pushed and not yet popped, oldest first
          sent,   \* number of items each pusher has pushed
          out,    \* items each popper has received, in order
          closed, \* shutdown() has been called
          gone    \* poppers whose pop has returned false

abstractVars == <<q, sent, out, closed, gone>>

Init ==
    /\ q = <<>>
    /\ sent = [p \in Pushers |-> 0]
    /\ out = [c \in Poppers |-> <<>>]
    /\ closed = FALSE
    /\ gone = {}

(* push returns: the item is at the back of the queue. *)
Put(p) ==
    /\ sent[p] < Quota
    /\ Len(q) < MaxSize
    /\ sent' = [sent EXCEPT ![p] = @ + 1]
    /\ q' = Append(q, <<p, sent'[p]>>)
    /\ UNCHANGED <<out, closed, gone>>

(* pop returns true: the oldest item belongs to c. *)
Take(c) ==
    /\ c \notin gone
    /\ q # <<>>
    /\ q' = Tail(q)
    /\ out' = [out EXCEPT ![c] = Append(@, Head(q))]
    /\ UNCHANGED <<sent, closed, gone>>

(* shutdown takes effect; the callers are done pushing. *)
Close ==
    /\ ~closed
    /\ \A p \in Pushers : sent[p] = Quota
    /\ closed' = TRUE
    /\ UNCHANGED <<q, sent, out, gone>>

(* pop returns false: nothing is left and nothing will come. *)
Leave(c) ==
    /\ closed
    /\ q = <<>>
    /\ c \notin gone
    /\ gone' = gone \cup {c}
    /\ UNCHANGED <<q, sent, out, closed>>

Next ==
    \/ \E p \in Pushers : Put(p)
    \/ \E c \in Poppers : Take(c)
    \/ Close
    \/ \E c \in Poppers : Leave(c)

(* A call that can return does return. *)
Fairness ==
    /\ WF_abstractVars(\E p \in Pushers : Put(p))
    /\ WF_abstractVars(\E c \in Poppers : Take(c))
    /\ WF_abstractVars(Close)
    /\ \A c \in Poppers : WF_abstractVars(Leave(c))

Safety == Init /\ [][Next]_abstractVars
Spec == Safety /\ Fairness
==============================================================================
