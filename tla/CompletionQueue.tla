--------------------------- MODULE CompletionQueue ---------------------------
(***************************************************************************)
(* cq.h: the four ways to poll a completion queue.  Threads share one      *)
(* rdma_cq (its polls are const and keep no state); the adapter appends a  *)
(* completion for each notified verb.  Each call is a loop around do_poll, *)
(* one ibv_poll_cq per round, and other threads and the adapter run        *)
(* between the rounds.                                                     *)
(*                                                                         *)
(* A write past wc[kMaxPollCq] or outside of the vector ret is undefined   *)
(* behaviour: the process is "corrupt" and nothing is said of it after.    *)
(* A CQE with an error status ends the process (panic_with_errno).         *)
(*                                                                         *)
(* External: ibv_poll_cq takes min(entries asked, entries there) from the  *)
(* front of the queue under its own lock, or fails with -1 and takes none. *)
(***************************************************************************)
EXTENDS Integers, Sequences

CONSTANTS
  Threads,      \* threads that poll the completion queue
  K,            \* kMaxPollCq
  Posted,       \* notified verbs posted: completions the adapter will add
  Args,         \* the num_entries of poll and poll_with_wc
  TryArgs,      \* the num_entries of try_poll and try_poll_with_wc
  Statuses,     \* may a completion be successful, or not?  a set of BOOLEAN
  MaxFails      \* bound: failures (-1) of ibv_poll_cq per call

ASSUME CompletionQueueAssumption ==
  /\ K \in Nat \ {0}
  /\ Posted \in Nat
  /\ Args \subseteq Nat
  /\ TryArgs \subseteq Nat
  /\ Statuses \subseteq BOOLEAN
  /\ MaxFails \in Nat

VARIABLES
  cq,       \* completions in the queue, oldest first
  added,    \* completions the adapter has added
  claimed,  \* completions the calls so far took or wait for (history),
            \* Posted + 1 once more than there are
  fate,     \* of the process
  pc,       \* per thread: no call yet, in the loop, behind it, returned
  call,     \* the function a thread is in, and its argument
  num,      \* num_entries, which poll counts down
  tot,      \* tot, or try_poll's ret: the entries counted so far
  out,      \* the vector ret of the functions that return one
  got,      \* completions the call took from the queue (history)
  fails     \* failures of ibv_poll_cq in the call (history)

vars == <<cq, added, claimed, fate, pc, call, num, tot, out, got, fails>>
frame == <<call, num, tot, out, got, fails>>

Cqe   == [wr_id : 1..Posted, ok : BOOLEAN]
NoCqe == [wr_id |-> 0, ok |-> TRUE]      \* what ret is filled with at first

Blocking == {"poll", "poll_with_wc"}
Trying   == {"try_poll", "try_poll_with_wc"}
WithWc   == {"poll_with_wc", "try_poll_with_wc"}

Calls == [op : Blocking, arg : Args] \cup [op : Trying, arg : TryArgs]

MinOf(a, b) == IF a < b THEN a ELSE b

Init ==
  /\ cq = <<>>
  /\ added = 0
  /\ claimed = 0
  /\ fate = "running"
  /\ pc = [t \in Threads |-> "idle"]
  /\ call = [t \in Threads |-> [op |-> "none", arg |-> 0]]
  /\ num = [t \in Threads |-> 0]
  /\ tot = [t \in Threads |-> 0]
  /\ out = [t \in Threads |-> <<>>]
  /\ got = [t \in Threads |-> <<>>]
  /\ fails = [t \in Threads |-> 0]

-----------------------------------------------------------------------------
(* The adapter adds the completion of the next notified verb. *)
Complete(ok) ==
  /\ fate = "running"
  /\ added < Posted
  /\ ok \in Statuses
  /\ cq' = Append(cq, [wr_id |-> added + 1, ok |-> ok])
  /\ added' = added + 1
  /\ UNCHANGED <<claimed, fate, pc, frame>>

(* A thread calls one of the functions, and claims completions.            *)
Begin(t, c) ==
  /\ fate = "running"
  /\ pc[t] \in {"idle", "returned"}
  /\ claimed' = MinOf(claimed + c.arg, Posted + 1)
  /\ pc' = [pc EXCEPT ![t] = "looping"]
  /\ call' = [call EXCEPT ![t] = c]
  /\ num' = [num EXCEPT ![t] = c.arg]
  /\ tot' = [tot EXCEPT ![t] = 0]
  /\ out' = [out EXCEPT ![t] = IF c.op \in WithWc
                               THEN [i \in 1..c.arg |-> NoCqe] ELSE <<>>]
  /\ got' = [got EXCEPT ![t] = <<>>]
  /\ fails' = [fails EXCEPT ![t] = 0]
  /\ UNCHANGED <<cq, added, fate>>

-----------------------------------------------------------------------------
(* The loop.  poll counts num down and the others count tot up, so what    *)
(* the loop still wants is the same expression for all of them.            *)
Left(t) == num[t] - tot[t]

InLoop(t) == fate = "running" /\ pc[t] = "looping" /\ Left(t) > 0

(* The local variable entries_to_poll. *)
EntriesToPoll(t) ==
  IF call[t].op = "try_poll_with_wc" THEN MinOf(num[t], K)
                                     ELSE MinOf(Left(t), K)

(* Seeded fault: a blocking poll asks for full batches. *)
EntriesPolledFull(t) ==
  IF call[t].op = "try_poll" THEN num[t]
  ELSE IF call[t].op \in Blocking THEN K ELSE EntriesToPoll(t)

(* The argument of do_poll, which for try_poll is num_entries. *)
EntriesPolled(t) ==
  IF call[t].op = "try_poll" THEN num[t] ELSE EntriesToPoll(t)

(* do_poll's ibv_poll_cq: how many it takes, and which. *)
Taken(t) == MinOf(EntriesPolled(t), Len(cq))
Batch(t) == SubSeq(cq, 1, Taken(t))

(* do_poll finds an error status among them. *)
BatchFails(t) == \E i \in 1..Taken(t) : ~ Batch(t)[i].ok

(* Writes of this round that miss their array: the adapter's to wc, and    *)
(* the loop's to ret[tot + i].                                             *)
OverrunsWc(t) == Taken(t) > K
OverrunsRet(t) ==
  /\ call[t].op \in WithWc
  /\ Taken(t) > 0
  /\ tot[t] < 0 \/ tot[t] + Taken(t) > call[t].arg

(* Seeded fault: every round writes from the start of ret. *)
StoredFromStart(t) ==
  IF call[t].op \in WithWc
    THEN [i \in DOMAIN out[t] |->
            IF i <= Taken(t) THEN cq[i] ELSE out[t][i]]
    ELSE out[t]

(* ret after ret[tot + i] = wc[i] for every entry of the batch. *)
Stored(t) ==
  IF call[t].op \in WithWc
    THEN [i \in DOMAIN out[t] |->
            IF tot[t] < i /\ i <= tot[t] + Taken(t) THEN cq[i - tot[t]]
                                                    ELSE out[t][i]]
    ELSE out[t]

(* Seeded fault: a round counts the entries it asked for. *)
CountAsked(t, n) ==
  IF call[t].op = "poll"
    THEN num' = [num EXCEPT ![t] = @ - n] /\ UNCHANGED tot
    ELSE tot' = [tot EXCEPT ![t] = @ + EntriesToPoll(t)] /\ UNCHANGED num

(* num_entries -= n, or tot += n. *)
Count(t, n) ==
  IF call[t].op = "poll"
    THEN num' = [num EXCEPT ![t] = @ - n] /\ UNCHANGED tot
    ELSE tot' = [tot EXCEPT ![t] = @ + n] /\ UNCHANGED num

(* Seeded fault: a try breaks although its batch was full. *)
BreaksAnyShort(t, n) == call[t].op \in Trying /\ n < num[t]

(* if (n < entries_to_poll) break; *)
Breaks(t, n) == call[t].op \in Trying /\ n < EntriesToPoll(t)

(* One round that goes well. *)
Round(t) ==
  /\ InLoop(t)
  /\ ~ OverrunsWc(t)
  /\ ~ BatchFails(t)
  /\ ~ OverrunsRet(t)
  /\ cq' = SubSeq(cq, Taken(t) + 1, Len(cq))
  /\ got' = [got EXCEPT ![t] = @ \o Batch(t)]
  /\ out' = [out EXCEPT ![t] = Stored(t)]
  /\ Count(t, Taken(t))
  /\ pc' = [pc EXCEPT ![t] = IF Breaks(t, Taken(t)) THEN "leaving" ELSE @]
  /\ UNCHANGED <<added, claimed, fate, call, fails>>

(* One round in which ibv_poll_cq fails: do_poll returns -1 unexamined. *)
RoundFails(t) ==
  /\ InLoop(t)
  /\ fails[t] < MaxFails
  /\ fails' = [fails EXCEPT ![t] = @ + 1]
  /\ Count(t, -1)
  /\ pc' = [pc EXCEPT ![t] = IF Breaks(t, -1) THEN "leaving" ELSE @]
  /\ UNCHANGED <<cq, added, claimed, fate, call, out, got>>

(* One round that panics. *)
RoundPanics(t) ==
  /\ InLoop(t)
  /\ ~ OverrunsWc(t)
  /\ BatchFails(t)
  /\ fate' = "exited"
  /\ UNCHANGED <<cq, added, claimed, pc, frame>>

(* One round that writes where it must not. *)
RoundOverruns(t) ==
  /\ InLoop(t)
  /\ OverrunsWc(t) \/ (~ BatchFails(t) /\ OverrunsRet(t))
  /\ fate' = "corrupt"
  /\ UNCHANGED <<cq, added, claimed, pc, frame>>

(* The loop ends and the call returns; try_poll_with_wc trims ret to tot.  *)
(* A try gives back its claim to what it did not get.                      *)
LoopDone(t) ==
  /\ fate = "running"
  /\ pc[t] = "leaving" \/ (pc[t] = "looping" /\ Left(t) <= 0)

Return(t) ==
  /\ LoopDone(t)
  /\ call[t].op = "try_poll_with_wc" => tot[t] >= 0
  /\ out' = IF call[t].op = "try_poll_with_wc"
              THEN [out EXCEPT ![t] = SubSeq(@, 1, tot[t])] ELSE out
  /\ pc' = [pc EXCEPT ![t] = "returned"]
  /\ claimed' = IF claimed > Posted THEN claimed
                ELSE MinOf(claimed - call[t].arg + Len(got[t]), Posted + 1)
  /\ UNCHANGED <<cq, added, fate, call, num, tot, got, fails>>

(* ret.resize(-1) throws, and nothing in the library catches. *)
ResizeThrows(t) ==
  /\ LoopDone(t)
  /\ call[t].op = "try_poll_with_wc"
  /\ tot[t] < 0
  /\ fate' = "exited"
  /\ UNCHANGED <<cq, added, claimed, pc, frame>>

-----------------------------------------------------------------------------
CallStep(t) ==
  \/ Round(t) \/ RoundPanics(t) \/ RoundOverruns(t)
  \/ Return(t) \/ ResizeThrows(t)

AdapterStep == \E ok \in BOOLEAN : Complete(ok)

Next ==
  \/ AdapterStep
  \/ \E t \in Threads :
       \/ \E c \in Calls : Begin(t, c)
       \/ CallStep(t)
       \/ RoundFails(t)

Spec == Init /\ [][Next]_vars

(* Fairness: a thread inside a call keeps running its loop, and the        *)
(* adapter completes every posted verb (with success or an error).         *)
Fairness == WF_vars(AdapterStep) /\ \A t \in Threads : WF_vars(CallStep(t))

FairSpec == Spec /\ Fairness

-----------------------------------------------------------------------------
(* Properties. *)

TypeOK ==
  /\ cq \in Seq(Cqe)
  /\ added \in 0..Posted
  /\ claimed \in 0..(Posted + 1)
  /\ fate \in {"running", "exited", "corrupt"}
  /\ pc \in [Threads -> {"idle", "looping", "leaving", "returned"}]
  /\ call \in [Threads -> Calls \cup {[op |-> "none", arg |-> 0]}]
  /\ num \in [Threads -> Nat]
  /\ tot \in [Threads -> Int]
  /\ out \in [Threads -> Seq(Cqe \cup {NoCqe})]
  /\ got \in [Threads -> Seq(Cqe)]
  /\ fails \in [Threads -> 0..MaxFails]

(* What a call still wants and what it took add up to what it was asked    *)
(* for, plus one for every failed ibv_poll_cq: nothing a thread takes is   *)
(* miscounted, but a failure, which no caller sees, is waited for.         *)
Accounted ==
  \A t \in Threads : Len(got[t]) = call[t].arg - Left(t) + fails[t]

(* poll and poll_with_wc, and the try functions asked for at most          *)
(* kMaxPollCq, take no completion beyond those asked for: none that        *)
(* another thread waits for.                                               *)
Oversized(t) == call[t].op \in Trying /\ call[t].arg > K

TakesOnlyItsOwn ==
  \A t \in Threads :
    (fails[t] = 0 /\ ~ Oversized(t)) => Len(got[t]) <= call[t].arg

(* A vector that is returned holds what the call took, all of it, in       *)
(* order, and only successful completions.                                 *)
ReturnsWhatItTook ==
  \A t \in Threads :
    (pc[t] = "returned" /\ call[t].op \in WithWc /\ fails[t] = 0) =>
      /\ out[t] = got[t]
      /\ \A i \in 1..Len(out[t]) : out[t][i].ok

(* Memory is overrun only by a try function asked for more than            *)
(* kMaxPollCq, or by poll_with_wc after ibv_poll_cq failed in it.          *)
OverrunExplained ==
  fate = "corrupt" =>
    \E t \in Threads :
      /\ pc[t] = "looping"
      /\ Oversized(t) \/ (fails[t] > 0 /\ call[t].op = "poll_with_wc")

(* A try function gives up early only when it has just emptied the queue.  *)
GivesUpOnlyWhenEmpty ==
  [][\A t \in Threads :
       (pc[t] = "looping" /\ pc'[t] = "leaving" /\ fails'[t] = fails[t])
         => cq' = <<>>]_vars

(* As long as no more completions are claimed than there will be, as in    *)
(* tests/send_recv.cpp, every call returns (or an error completion ends    *)
(* the process): no thread waits for completions that another one took.    *)
(* Without failures of ibv_poll_cq, and for tries of at most kMaxPollCq.   *)
CallsReturn ==
  \A t \in Threads :
    pc[t] = "looping" ~> (pc[t] = "returned" \/ fate = "exited" \/ claimed > Posted)

(* The four loops implement the contract of the polls (for tries of at     *)
(* most kMaxPollCq and an ibv_poll_cq that does not fail): "leaving" is a  *)
(* try that came up short, and a returned call has answered.               *)
Reported(t) ==
  CASE call[t].op \in WithWc -> <<out[t]>>
    [] call[t].op = "try_poll" -> <<tot[t]>>
    [] OTHER -> <<>>

Contract == INSTANCE CqContract WITH
  queue  <- cq,
  phase  <- [t \in Threads |-> CASE pc[t] = "looping" -> "busy"
                                [] pc[t] = "leaving" -> "short"
                                [] OTHER -> pc[t]],
  taken  <- got,
  answer <- [t \in Threads |-> IF pc[t] = "returned" THEN Reported(t)
                                                     ELSE <<>>]

MeetsContract == Contract!Spec
=============================================================================
