------------------------------- MODULE DataPath -------------------------------
(***************************************************************************)
(* The queues between post_verb and the polls: the send and the receive    *)
(* queue of each queue pair, of kQpDepth entries, and the completion       *)
(* queues they feed, of kCqDepth entries.  A notified send and a receive   *)
(* each make a completion.  An unnotified send makes none, and its place   *)
(* in the send queue is free again only when the completion of a later     *)
(* notified send is polled.                                                *)
(*                                                                         *)
(* All verbs succeed here; CompletionQueue has the failing ones.  External: *)
(* how the adapter works off and gives back entries, that it refuses a     *)
(* post to a full queue, and that it does not check a completion queue.    *)
(***************************************************************************)
EXTENDS Naturals, Sequences, SequencesExt, FiniteSetsExt

CONSTANTS
  QueuePairs,
  Cqs,       \* completion queues
  SendCq,    \* the completion queue of each queue pair's sends
  RecvCq,    \* and of its receives: the same one, or another
  Careful,   \* those whose caller lets no queue fill up with unnotified sends
  QpDepth,   \* kQpDepth
  CqDepth    \* kCqDepth

ASSUME DataPathAssumption ==
  /\ IsFiniteSet(QueuePairs)
  /\ SendCq \in [QueuePairs -> Cqs]
  /\ RecvCq \in [QueuePairs -> Cqs]
  /\ Careful \subseteq QueuePairs
  /\ QpDepth \in Nat \ {0}
  /\ CqDepth \in Nat \ {0}

VARIABLES
  sq,      \* sends posted and not given back, oldest first: is it notified?
  ran,     \* how many of them the adapter has executed
  rq,      \* receives posted and not given back
  filled,  \* how many of them hold a message
  cq,      \* completions not polled, oldest first
  fate     \* of the process

vars == <<sq, ran, rq, filled, cq, fate>>

Init ==
  /\ sq = [q \in QueuePairs |-> <<>>]
  /\ ran = [q \in QueuePairs |-> 0]
  /\ rq = [q \in QueuePairs |-> 0]
  /\ filled = [q \in QueuePairs |-> 0]
  /\ cq = [c \in Cqs |-> <<>>]
  /\ fate = "running"

Ends(f) ==
  /\ fate' = f
  /\ UNCHANGED <<sq, ran, rq, filled, cq>>

-----------------------------------------------------------------------------
(* post_verb, and its panic when the post is refused. *)

(* A careful caller notifies the last send that fits, unless one of those  *)
(* before it is notified.                                                  *)
Prudent(q, notified) ==
  (q \in Careful /\ Len(sq[q]) = QpDepth - 1)
    => notified \/ Contains(sq[q], TRUE)

(* Seeded fault: the work request of a notified verb is not signaled.      *)
PostSendUnsignaled(q, notified) ==
  /\ fate = "running"
  /\ Len(sq[q]) < QpDepth
  /\ Prudent(q, notified)
  /\ sq' = [sq EXCEPT ![q] = Append(@, FALSE)]
  /\ UNCHANGED <<ran, rq, filled, cq, fate>>

PostSend(q, notified) ==
  /\ fate = "running"
  /\ Len(sq[q]) < QpDepth
  /\ Prudent(q, notified)
  /\ sq' = [sq EXCEPT ![q] = Append(@, notified)]
  /\ UNCHANGED <<ran, rq, filled, cq, fate>>

PostRecv(q) ==
  /\ fate = "running"
  /\ rq[q] < QpDepth
  /\ rq' = [rq EXCEPT ![q] = @ + 1]
  /\ UNCHANGED <<sq, ran, filled, cq, fate>>

PostPanics(q) ==
  /\ fate = "running"
  /\ Len(sq[q]) = QpDepth \/ rq[q] = QpDepth
  /\ Ends("panicked")

-----------------------------------------------------------------------------
(* The adapter. *)

(* The depth that create_rdma_cq asks for.  Seeded faults: one less, or one *)
(* more.                                                                   *)
CqSizeLess(c) == CqDepth - 1
CqSizeMore(c) == CqDepth + 1

CqSize(c) == CqDepth

(* A completion gives back this many entries of its queue: a send's all    *)
(* those after the notified send before it, a receive's one.               *)
Completion(q, op, entries) == [q |-> q, op |-> op, entries |-> entries]

LastNotified(q) == Max({0} \cup {i \in 1..ran[q] : sq[q][i]})

Execute(q) ==
  LET c == SendCq[q]
      next == ran[q] + 1
  IN
  /\ fate = "running"
  /\ next <= Len(sq[q])
  /\ IF ~ sq[q][next]
       THEN /\ ran' = [ran EXCEPT ![q] = next]
            /\ UNCHANGED <<sq, rq, filled, cq, fate>>
     ELSE IF Len(cq[c]) < CqSize(c)
       THEN /\ ran' = [ran EXCEPT ![q] = next]
            /\ cq' = [cq EXCEPT ![c] =
                        Append(@, Completion(q, "send", next - LastNotified(q)))]
            /\ UNCHANGED <<sq, rq, filled, fate>>
     ELSE Ends("overrun")

(* A message arrives and fills a receive. *)
Arrive(q) ==
  LET c == RecvCq[q] IN
  /\ fate = "running"
  /\ filled[q] < rq[q]
  /\ IF Len(cq[c]) < CqSize(c)
       THEN /\ filled' = [filled EXCEPT ![q] = @ + 1]
            /\ cq' = [cq EXCEPT ![c] = Append(@, Completion(q, "recv", 1))]
            /\ UNCHANGED <<sq, ran, rq, fate>>
       ELSE Ends("overrun")

-----------------------------------------------------------------------------
(* do_poll takes a completion, and the queue it comes from has room again. *)

Poll(c) ==
  /\ fate = "running"
  /\ cq[c] # <<>>
  /\ LET w == Head(cq[c])
         n == w.entries
     IN IF w.op = "send"
          THEN /\ sq' = [sq EXCEPT ![w.q] = SubSeq(@, n + 1, Len(@))]
               /\ ran' = [ran EXCEPT ![w.q] = @ - n]
               /\ UNCHANGED <<rq, filled>>
          ELSE /\ rq' = [rq EXCEPT ![w.q] = @ - n]
               /\ filled' = [filled EXCEPT ![w.q] = @ - n]
               /\ UNCHANGED <<sq, ran>>
  /\ cq' = [cq EXCEPT ![c] = Tail(@)]
  /\ UNCHANGED fate

-----------------------------------------------------------------------------
Next ==
  \/ \E q \in QueuePairs :
       \/ \E notified \in BOOLEAN : PostSend(q, notified)
       \/ PostRecv(q) \/ PostPanics(q)
       \/ Execute(q) \/ Arrive(q)
  \/ \E c \in Cqs : Poll(c)

Spec == Init /\ [][Next]_vars

(* Fairness: the adapter works through its send queues, and a caller that  *)
(* waits for room polls.  Posting and the arrival of messages are not fair. *)
Fairness ==
  /\ \A q \in QueuePairs : WF_vars(Execute(q))
  /\ \A c \in Cqs : WF_vars(Poll(c))

FairSpec == Spec /\ Fairness

-----------------------------------------------------------------------------
(* Properties. *)

Directions == {"send", "recv"}

Cqe == [q : QueuePairs, op : Directions, entries : 1..QpDepth]

TypeOK ==
  /\ sq \in [QueuePairs -> Seq(BOOLEAN)]
  /\ ran \in [QueuePairs -> Nat]
  /\ rq \in [QueuePairs -> 0..QpDepth]
  /\ filled \in [QueuePairs -> 0..QpDepth]
  /\ \A q \in QueuePairs :
       /\ ran[q] <= Len(sq[q]) /\ Len(sq[q]) <= QpDepth
       /\ filled[q] <= rq[q]
  /\ cq \in [Cqs -> Seq(Cqe)]
  /\ \A c \in Cqs : Len(cq[c]) <= CqDepth
  /\ fate \in {"running", "panicked", "overrun"}

(* What a completion queue holds the completion of, or may yet get without *)
(* a new post: the notified sends and the receives that feed it, each as   *)
(* its direction, its queue pair and its place in the queue.               *)
Feeds(c, op, q, i) ==
  \/ op = "send" /\ SendCq[q] = c /\ i <= Len(sq[q]) /\ sq[q][i]
  \/ op = "recv" /\ RecvCq[q] = c /\ i <= rq[q]

Due(c) ==
  {d \in Directions \X QueuePairs \X (1..QpDepth) : Feeds(c, d[1], d[2], d[3])}

(* A completion queue overruns only if the notified sends and the receives *)
(* posted and not polled that feed it, of all its queue pairs together,    *)
(* are more than its depth.  With the default depths, which are equal, a   *)
(* queue for the sends or for the receives of one queue pair never does.   *)
OverrunExplained ==
  fate = "overrun" =>
    \E c \in Cqs : Len(cq[c]) = CqDepth /\ Cardinality(Due(c)) > CqDepth

(* A send queue that a careful caller filled up has room again if the      *)
(* caller polls, or the process ends.  A queue full of unnotified sends    *)
(* would stay full, and every further post panic.                          *)
FullDrains ==
  \A q \in Careful :
    Len(sq[q]) = QpDepth ~> (Len(sq[q]) < QpDepth \/ fate # "running")
=============================================================================
