------------------------------ MODULE CqContract ------------------------------
(***************************************************************************)
(* What the polling functions of cq.h promise their callers, without       *)
(* batches, counters or arrays.  A call takes completions from the front   *)
(* of the queue, some at a time, and never more than it was asked for.  A  *)
(* blocking call answers when it has them all; a try may also answer when  *)
(* it has just emptied the queue.  The answer is what the call took: the   *)
(* completions themselves, or their number.  A completion with an error    *)
(* status is never answered: the process ends.                             *)
(***************************************************************************)
EXTENDS Integers, Sequences

CONSTANTS Threads, Posted, Calls, Statuses

VARIABLES queue, added, fate, phase, call, taken, answer

vars == <<queue, added, fate, phase, call, taken, answer>>

NoAnswer == <<>>

Init ==
  /\ queue = <<>>
  /\ added = 0
  /\ fate = "running"
  /\ phase = [t \in Threads |-> "idle"]
  /\ call = [t \in Threads |-> [op |-> "none", arg |-> 0]]
  /\ taken = [t \in Threads |-> <<>>]
  /\ answer = [t \in Threads |-> NoAnswer]

Complete(ok) ==
  /\ fate = "running"
  /\ added < Posted
  /\ ok \in Statuses
  /\ queue' = Append(queue, [wr_id |-> added + 1, ok |-> ok])
  /\ added' = added + 1
  /\ UNCHANGED <<fate, phase, call, taken, answer>>

Ask(t, c) ==
  /\ fate = "running"
  /\ phase[t] \in {"idle", "returned"}
  /\ phase' = [phase EXCEPT ![t] = "busy"]
  /\ call' = [call EXCEPT ![t] = c]
  /\ taken' = [taken EXCEPT ![t] = <<>>]
  /\ answer' = [answer EXCEPT ![t] = NoAnswer]
  /\ UNCHANGED <<queue, added, fate>>

(* Takes the first n completions; a try that empties the queue may stop.   *)
Take(t, n) ==
  /\ fate = "running"
  /\ phase[t] = "busy"
  /\ Len(taken[t]) + n <= call[t].arg
  /\ \A i \in 1..n : queue[i].ok
  /\ taken' = [taken EXCEPT ![t] = @ \o SubSeq(queue, 1, n)]
  /\ queue' = SubSeq(queue, n + 1, Len(queue))
  /\ \/ UNCHANGED phase
     \/ /\ call[t].op \in {"try_poll", "try_poll_with_wc"}
        /\ queue' = <<>>
        /\ phase' = [phase EXCEPT ![t] = "short"]
  /\ UNCHANGED <<added, fate, call, answer>>

(* What a call answers. *)
Answer(op, s) ==
  CASE op \in {"poll_with_wc", "try_poll_with_wc"} -> <<s>>
    [] op = "try_poll" -> <<Len(s)>>
    [] OTHER -> NoAnswer

Give(t) ==
  /\ fate = "running"
  /\ \/ phase[t] = "short"
     \/ phase[t] = "busy" /\ Len(taken[t]) = call[t].arg
  /\ phase' = [phase EXCEPT ![t] = "returned"]
  /\ answer' = [answer EXCEPT ![t] = Answer(call[t].op, taken[t])]
  /\ UNCHANGED <<queue, added, fate, call, taken>>

(* A call meets a completion with an error status. *)
Panic(t) ==
  /\ fate = "running"
  /\ phase[t] = "busy"
  /\ \E i \in 1..Len(queue) :
       i <= call[t].arg - Len(taken[t]) /\ ~ queue[i].ok
  /\ fate' = "exited"
  /\ UNCHANGED <<queue, added, phase, call, taken, answer>>

Next ==
  \/ \E ok \in BOOLEAN : Complete(ok)
  \/ \E t \in Threads :
       \/ \E c \in Calls : Ask(t, c)
       \/ \E n \in 0..Len(queue) : Take(t, n)
       \/ Give(t) \/ Panic(t)

Spec == Init /\ [][Next]_vars
=============================================================================
