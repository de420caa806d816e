------------------------ MODULE CompletionQueueProofs ------------------------
(***************************************************************************)
(* Proofs about CompletionQueue, for any threads, any kMaxPollCq, any      *)
(* number of completions and any requests: what a call takes and returns,  *)
(* when memory is overrun, and that the loops implement CqContract.        *)
(***************************************************************************)
EXTENDS CompletionQueue, SequenceTheorems, TLAPS

Active(t) == pc[t] \in {"looping", "leaving"}

(* A thread that is not idle is in one of the four functions. *)
Called(t) == pc[t] # "idle" => call[t] \in Calls

(* num and tot: poll counts the one down, the others the other up. *)
Counts(t) ==
  /\ call[t].op = "poll" => tot[t] = 0
  /\ call[t].op # "poll" => num[t] = call[t].arg

(* A try leaves its loop with the first round that comes up short, and so  *)
(* with the first failure; a round for all it was asked for is its last.   *)
TriesOnce(t) ==
  /\ pc[t] = "leaving" => call[t].op \in Trying
  /\ (pc[t] = "looping" /\ call[t].op \in Trying) =>
       /\ fails[t] = 0
       /\ call[t].arg <= K => tot[t] \in {0, call[t].arg}

(* The vector ret of a call that is not finished: filled up to tot. *)
Fills(t) ==
  (Active(t) /\ call[t].op \in WithWc) =>
    /\ Len(out[t]) = call[t].arg
    /\ tot[t] <= call[t].arg
    /\ fails[t] = 0 => \A i \in 1..Len(got[t]) : out[t][i] = got[t][i]

(* What a call keeps is successful. *)
GotGood(t) == \A i \in 1..Len(got[t]) : got[t][i].ok

CountedFor(t) == Len(got[t]) = call[t].arg - Left(t) + fails[t]

Modest(t) == (fails[t] = 0 /\ ~ Oversized(t)) => Len(got[t]) <= call[t].arg

Returned(t) ==
  (pc[t] = "returned" /\ call[t].op \in WithWc /\ fails[t] = 0)
    => out[t] = got[t]

CallOk(t) ==
  /\ Called(t)
  /\ Counts(t)
  /\ TriesOnce(t)
  /\ Fills(t)
  /\ GotGood(t)
  /\ CountedFor(t)
  /\ Modest(t)
  /\ Returned(t)

(* As long as there are enough completions for all, the claims of the      *)
(* calls in progress have room side by side among those claimed so far.    *)
Room(lo) ==
  /\ \A t \in Threads : Active(t) => lo[t] + call[t].arg <= claimed
  /\ \A t, u \in Threads :
       (t # u /\ Active(t) /\ Active(u)) =>
         \/ lo[t] + call[t].arg <= lo[u]
         \/ lo[u] + call[u].arg <= lo[t]

ClaimsFit == claimed <= Posted => \E lo \in [Threads -> 0..Posted] : Room(lo)

IInv ==
  /\ TypeOK
  /\ \A t \in Threads : CallOk(t)
  /\ ClaimsFit
  /\ OverrunExplained

-----------------------------------------------------------------------------
(* Types. *)

(* What the type invariant says of one thread. *)
LEMMA ThreadTypes ==
  ASSUME TypeOK, NEW t \in Threads
  PROVE  /\ pc[t] \in {"idle", "looping", "leaving", "returned"}
         /\ call[t] \in Calls \cup {[op |-> "none", arg |-> 0]}
         /\ call[t].arg \in Nat
         /\ num[t] \in Nat /\ tot[t] \in Int /\ Left(t) \in Int
         /\ fails[t] \in 0..MaxFails /\ fails[t] \in Nat
         /\ out[t] \in Seq(Cqe \cup {NoCqe}) /\ Len(out[t]) \in Nat
         /\ got[t] \in Seq(Cqe) /\ Len(got[t]) \in Nat
<1>1. /\ pc[t] \in {"idle", "looping", "leaving", "returned"}
      /\ call[t] \in Calls \cup {[op |-> "none", arg |-> 0]}
      /\ num[t] \in Nat /\ tot[t] \in Int
      /\ fails[t] \in 0..MaxFails
      /\ out[t] \in Seq(Cqe \cup {NoCqe})
      /\ got[t] \in Seq(Cqe)
  BY DEF TypeOK
<1>2. call[t].arg \in Nat
  <2>1. \A c \in Calls \cup {[op |-> "none", arg |-> 0]} : c.arg \in Nat
    <3>1. Args \subseteq Nat /\ TryArgs \subseteq Nat
      BY CompletionQueueAssumption
    <3>2. \A c \in [op : Blocking, arg : Args] : c.arg \in Nat
      BY <3>1
    <3>3. \A c \in [op : Trying, arg : TryArgs] : c.arg \in Nat
      BY <3>1
    <3>4. QED  BY <3>2, <3>3 DEF Calls
  <2>2. QED  BY <1>1, <2>1
<1>3. Left(t) \in Int
  BY <1>1 DEF Left
<1>4. fails[t] \in Nat
  BY <1>1, CompletionQueueAssumption
<1>5. Len(out[t]) \in Nat /\ Len(got[t]) \in Nat
  BY <1>1, LenProperties
<1>6. QED  BY <1>1, <1>2, <1>3, <1>4, <1>5

(* A round takes a batch from the front of the queue, no larger than what  *)
(* it asks for; a blocking poll asks for no more than it still wants.      *)
LEMMA BatchTaken ==
  ASSUME TypeOK, NEW t \in Threads, InLoop(t)
  PROVE  /\ EntriesToPoll(t) \in Nat /\ EntriesToPoll(t) <= K
         /\ EntriesPolled(t) \in Nat
         /\ Taken(t) \in 0..Len(cq) /\ Taken(t) <= EntriesPolled(t)
         /\ Taken(t) < EntriesPolled(t) => Taken(t) = Len(cq)
         /\ call[t].op \in Blocking => EntriesPolled(t) <= Left(t)
         /\ Batch(t) \in Seq(Cqe) /\ Len(Batch(t)) = Taken(t)
         /\ \A i \in 1..Taken(t) : Batch(t)[i] = cq[i]
         /\ SubSeq(cq, Taken(t) + 1, Len(cq)) \in Seq(Cqe)
<1>1. K \in Nat \ {0} /\ num[t] \in Nat /\ tot[t] \in Int
  BY ThreadTypes, CompletionQueueAssumption
<1>2. cq \in Seq(Cqe) /\ Len(cq) \in Nat /\ \A i \in 1..Len(cq) : cq[i] \in Cqe
  BY LenProperties, ElementOfSeq DEF TypeOK
<1>3. Left(t) \in Nat \ {0}
  BY <1>1 DEF InLoop, Left
<1>4. EntriesToPoll(t) \in Nat /\ EntriesToPoll(t) <= K
  BY <1>1, <1>3 DEF EntriesToPoll, MinOf
<1>5. EntriesPolled(t) \in Nat
  BY <1>1, <1>4 DEF EntriesPolled
<1>6. call[t].op \in Blocking => EntriesPolled(t) <= Left(t)
  BY <1>1, <1>3 DEF EntriesPolled, EntriesToPoll, MinOf, Blocking
<1>7. /\ Taken(t) \in 0..Len(cq) /\ Taken(t) <= EntriesPolled(t)
      /\ Taken(t) < EntriesPolled(t) => Taken(t) = Len(cq)
  BY <1>2, <1>5 DEF Taken, MinOf
<1> HIDE DEF EntriesToPoll, EntriesPolled, Taken
<1>8. /\ Batch(t) \in Seq(Cqe) /\ Len(Batch(t)) = Taken(t)
      /\ \A i \in 1..Taken(t) : Batch(t)[i] = cq[i]
  <2>1. \A i \in 1..Taken(t) : cq[i] \in Cqe
    BY <1>2, <1>7
  <2>2. /\ SubSeq(cq, 1, Taken(t)) \in Seq(Cqe)
        /\ Len(SubSeq(cq, 1, Taken(t)))
             = IF 1 <= Taken(t) THEN Taken(t) - 1 + 1 ELSE 0
        /\ \A i \in 1..(Taken(t) - 1 + 1) :
             SubSeq(cq, 1, Taken(t))[i] = cq[1 + i - 1]
    BY <1>7, <2>1, SubSeqProperties
  <2>3. QED  BY <1>2, <1>7, <2>2 DEF Batch
<1>9. SubSeq(cq, Taken(t) + 1, Len(cq)) \in Seq(Cqe)
  <2>1. \A i \in (Taken(t) + 1)..Len(cq) : cq[i] \in Cqe
    BY <1>2, <1>7
  <2>2. QED  BY <1>2, <1>7, <2>1, SubSeqProperties
<1>10. QED  BY <1>4, <1>5, <1>6, <1>7, <1>8, <1>9

-----------------------------------------------------------------------------
(* Steps of one thread leave the others alone. *)

LEMMA FrameCall ==
  ASSUME NEW u \in Threads, CallOk(u),
         pc'[u] = pc[u], call'[u] = call[u], num'[u] = num[u],
         tot'[u] = tot[u], out'[u] = out[u], got'[u] = got[u],
         fails'[u] = fails[u]
  PROVE  CallOk(u)'
<1>1. (Called(u) /\ Counts(u) /\ TriesOnce(u) /\ Fills(u) /\ GotGood(u))'
  BY DEF CallOk, Called, Counts, TriesOnce, Fills, GotGood, Active
<1>2. (CountedFor(u) /\ Modest(u) /\ Returned(u))'
  BY DEF CallOk, CountedFor, Modest, Returned, Oversized, Left
<1>3. QED  BY <1>1, <1>2 DEF CallOk

(* Claims stay side by side as long as no call begins or ends. *)
LEMMA FrameClaims ==
  ASSUME IInv, claimed' = claimed, call' = call,
         \A t \in Threads : Active(t)' => Active(t)
  PROVE  ClaimsFit'
BY DEF IInv, ClaimsFit, Room

(* A step of thread t keeps the invariant if it does for t. *)
LEMMA OneThread ==
  ASSUME IInv, NEW t \in Threads,
         \A u \in Threads \ {t} :
           /\ pc'[u] = pc[u] /\ call'[u] = call[u] /\ num'[u] = num[u]
           /\ tot'[u] = tot[u] /\ out'[u] = out[u] /\ got'[u] = got[u]
           /\ fails'[u] = fails[u],
         TypeOK', CallOk(t)', ClaimsFit', fate' # "corrupt"
  PROVE  IInv'
<1>1. ASSUME NEW u \in Threads PROVE CallOk(u)'
  <2>1. CASE u = t
    BY <2>1
  <2>2. CASE u # t
    BY <2>2, FrameCall DEF IInv
  <2>3. QED  BY <2>1, <2>2
<1>2. QED  BY <1>1 DEF IInv, OverrunExplained

-----------------------------------------------------------------------------
(* Start, the adapter, and steps that only end the process. *)

LEMMA InitIInv == Init => IInv
<1> SUFFICES ASSUME Init PROVE IInv
  OBVIOUS
<1>1. <<>> \in Seq(Cqe) /\ <<>> \in Seq(Cqe \cup {NoCqe}) /\ Len(<<>>) = 0
  BY EmptySeq
<1>2. TypeOK
  BY <1>1, CompletionQueueAssumption DEF Init, TypeOK
<1>3. ASSUME NEW t \in Threads PROVE CallOk(t)
  <2>1. /\ pc[t] = "idle" /\ call[t].op = "none" /\ call[t].arg = 0
        /\ num[t] = 0 /\ tot[t] = 0 /\ fails[t] = 0 /\ Len(got[t]) = 0
    BY <1>1 DEF Init
  <2>2. Called(t) /\ Counts(t) /\ TriesOnce(t) /\ Fills(t) /\ GotGood(t)
    BY <2>1 DEF Called, Counts, TriesOnce, Fills, GotGood, Active
  <2>3. CountedFor(t) /\ Modest(t) /\ Returned(t)
    BY <2>1 DEF CountedFor, Modest, Returned, Left
  <2>4. QED  BY <2>2, <2>3 DEF CallOk
<1>4. ClaimsFit
  <2>1. [t \in Threads |-> 0] \in [Threads -> 0..Posted]
    BY CompletionQueueAssumption
  <2>2. Room([t \in Threads |-> 0])
    BY DEF Init, Room, Active
  <2>3. QED  BY <2>1, <2>2 DEF ClaimsFit
<1>5. OverrunExplained
  BY DEF Init, OverrunExplained
<1>6. QED  BY <1>2, <1>3, <1>4, <1>5 DEF IInv

LEMMA CompleteKeeps ==
  ASSUME IInv, NEW ok \in BOOLEAN, Complete(ok)
  PROVE  IInv'
<1>1. /\ cq' = Append(cq, [wr_id |-> added + 1, ok |-> ok])
      /\ added < Posted /\ added' = added + 1
      /\ UNCHANGED <<claimed, fate, pc, frame>>
  BY DEF Complete
<1>2. TypeOK
  BY DEF IInv
<1>3. [wr_id |-> added + 1, ok |-> ok] \in Cqe /\ added' \in 0..Posted
  BY <1>1, <1>2, CompletionQueueAssumption DEF TypeOK, Cqe
<1>4. TypeOK'
  <2>1. cq' \in Seq(Cqe)
    BY <1>1, <1>2, <1>3, AppendProperties DEF TypeOK
  <2>2. QED  BY <1>1, <1>2, <1>3, <2>1 DEF TypeOK, frame
<1>5. \A u \in Threads : CallOk(u)'
  BY <1>1, FrameCall DEF IInv, frame
<1>6. ClaimsFit'
  BY <1>1, FrameClaims DEF frame, Active
<1>7. OverrunExplained'
  BY <1>1 DEF IInv, OverrunExplained, Oversized, frame
<1>8. QED  BY <1>4, <1>5, <1>6, <1>7 DEF IInv

(* Nothing but the fate changes. *)
LEMMA FateKeeps ==
  ASSUME IInv, UNCHANGED <<cq, added, claimed, pc, frame>>,
         fate' \in {"running", "exited", "corrupt"}, OverrunExplained'
  PROVE  IInv'
<1>1. TypeOK'
  BY DEF IInv, TypeOK, frame
<1>2. \A u \in Threads : CallOk(u)'
  BY FrameCall DEF IInv, frame
<1>3. ClaimsFit'
  BY FrameClaims DEF frame, Active
<1>4. QED  BY <1>1, <1>2, <1>3 DEF IInv

-----------------------------------------------------------------------------
(* A call begins: its claim goes behind all the others. *)
LEMMA BeginKeeps ==
  ASSUME IInv, NEW t \in Threads, NEW c \in Calls, Begin(t, c)
  PROVE  IInv'
<1>1. /\ claimed' = MinOf(claimed + c.arg, Posted + 1)
      /\ pc' = [pc EXCEPT ![t] = "looping"]
      /\ call' = [call EXCEPT ![t] = c]
      /\ num' = [num EXCEPT ![t] = c.arg]
      /\ tot' = [tot EXCEPT ![t] = 0]
      /\ out' = [out EXCEPT ![t] = IF c.op \in WithWc
                                   THEN [i \in 1..c.arg |-> NoCqe] ELSE <<>>]
      /\ got' = [got EXCEPT ![t] = <<>>]
      /\ fails' = [fails EXCEPT ![t] = 0]
      /\ UNCHANGED <<cq, added, fate>> /\ fate = "running"
  BY DEF Begin
<1>2. TypeOK /\ ClaimsFit
  BY DEF IInv
<1>3. c.arg \in Nat
  <2>1. Args \subseteq Nat /\ TryArgs \subseteq Nat
    BY CompletionQueueAssumption
  <2>2. CASE c \in [op : Blocking, arg : Args]
    BY <2>1, <2>2
  <2>3. CASE c \in [op : Trying, arg : TryArgs]
    BY <2>1, <2>3
  <2>4. QED  BY <2>2, <2>3 DEF Calls
<1>4. /\ pc'[t] = "looping" /\ call'[t] = c /\ num'[t] = c.arg /\ tot'[t] = 0
      /\ got'[t] = <<>> /\ fails'[t] = 0
      /\ out'[t] = IF c.op \in WithWc THEN [i \in 1..c.arg |-> NoCqe] ELSE <<>>
  BY <1>1, <1>2 DEF TypeOK
<1>5. out'[t] \in Seq(Cqe \cup {NoCqe})
  <2>1. [i \in 1..c.arg |-> NoCqe] \in Seq(Cqe \cup {NoCqe})
    <3>1. [i \in 1..c.arg |-> NoCqe] \in [1..c.arg -> Cqe \cup {NoCqe}]
      OBVIOUS
    <3>2. QED  BY <1>3, <3>1, SeqDef
  <2>2. QED  BY <1>4, <2>1, EmptySeq
<1>6. claimed' \in 0..(Posted + 1)
  BY <1>1, <1>2, <1>3, CompletionQueueAssumption DEF TypeOK, MinOf
<1>7. TypeOK'
  <2>1. out' \in [Threads -> Seq(Cqe \cup {NoCqe})]
    BY <1>1, <1>2, <1>4, <1>5 DEF TypeOK
  <2>2. got' \in [Threads -> Seq(Cqe)]
    BY <1>1, <1>2, EmptySeq DEF TypeOK
  <2>3. fails' \in [Threads -> 0..MaxFails]
    BY <1>1, <1>2, CompletionQueueAssumption DEF TypeOK
  <2>4. /\ pc' \in [Threads -> {"idle", "looping", "leaving", "returned"}]
        /\ call' \in [Threads -> Calls \cup {[op |-> "none", arg |-> 0]}]
    BY <1>1, <1>2 DEF TypeOK
  <2>5. num' \in [Threads -> Nat] /\ tot' \in [Threads -> Int]
    BY <1>1, <1>2, <1>3 DEF TypeOK
  <2>6. QED  BY <1>1, <1>2, <1>6, <2>1, <2>2, <2>3, <2>4, <2>5 DEF TypeOK
<1>8. CallOk(t)'
  <2>1. Len(got'[t]) = 0
    BY <1>4, EmptySeq
  <2>2. (Called(t) /\ Counts(t) /\ TriesOnce(t) /\ GotGood(t))'
    BY <1>4, <2>1 DEF Called, Counts, TriesOnce, GotGood
  <2>3. Fills(t)'
    <3>1. Len([i \in 1..c.arg |-> NoCqe]) = c.arg
      BY <1>3
    <3>2. QED  BY <1>3, <1>4, <2>1, <3>1 DEF Fills
  <2>4. (CountedFor(t) /\ Modest(t) /\ Returned(t))'
    BY <1>3, <1>4, <2>1 DEF CountedFor, Modest, Returned, Left
  <2>5. QED  BY <2>2, <2>3, <2>4 DEF CallOk
<1>9. ClaimsFit'
  <2> SUFFICES ASSUME claimed' <= Posted
               PROVE  \E lo \in [Threads -> 0..Posted] : Room(lo)'
    BY DEF ClaimsFit
  <2>1. /\ claimed \in 0..Posted /\ claimed' = claimed + c.arg
    BY <1>1, <1>2, <1>3, CompletionQueueAssumption DEF TypeOK, MinOf
  <2>2. PICK lo \in [Threads -> 0..Posted] : Room(lo)
    BY <1>2, <2>1 DEF ClaimsFit
  <2> DEFINE new == [lo EXCEPT ![t] = claimed]
  <2>3. /\ new \in [Threads -> 0..Posted] /\ new[t] = claimed
        /\ \A u \in Threads \ {t} : new[u] = lo[u]
    BY <2>1
  <2>4. \A u \in Threads \ {t} :
          /\ Active(u)' = Active(u) /\ call'[u] = call[u] /\ call[u].arg \in Nat
    BY <1>1, <1>2, ThreadTypes DEF Active, TypeOK
  <2> HIDE DEF new
  <2>5. \A u \in Threads : Active(u)' => new[u] + call'[u].arg <= claimed'
    <3>1. new[t] + call'[t].arg <= claimed'
      BY <1>3, <1>4, <2>1, <2>3
    <3>2. ASSUME NEW u \in Threads \ {t}, Active(u)'
          PROVE  new[u] + call'[u].arg <= claimed'
      <4>1. lo[u] + call[u].arg <= claimed /\ lo[u] \in 0..Posted
        BY <2>2, <2>4, <3>2 DEF Room
      <4>2. claimed <= claimed'
        BY <1>3, <2>1
      <4>3. QED  BY <1>3, <2>1, <2>3, <2>4, <4>1, <4>2
    <3>3. QED  BY <3>1, <3>2
  <2>6. \A u \in Threads \ {t} :
          Active(u)' => new[u] + call'[u].arg <= new[t]
    BY <2>2, <2>3, <2>4 DEF Room
  <2>7. \A u, v \in Threads :
          (u # v /\ Active(u)' /\ Active(v)') =>
            \/ new[u] + call'[u].arg <= new[v]
            \/ new[v] + call'[v].arg <= new[u]
    BY <2>2, <2>3, <2>4, <2>6 DEF Room
  <2>8. QED  BY <2>3, <2>5, <2>7 DEF Room
<1>10. QED
  <2>1. \A u \in Threads \ {t} :
          /\ pc'[u] = pc[u] /\ call'[u] = call[u] /\ num'[u] = num[u]
          /\ tot'[u] = tot[u] /\ out'[u] = out[u] /\ got'[u] = got[u]
          /\ fails'[u] = fails[u]
    BY <1>1, <1>2 DEF TypeOK
  <2>2. QED  BY <1>1, <1>7, <1>8, <1>9, <2>1, OneThread

(* What is known of a thread in its loop before a round. *)
LEMMA BeforeRound ==
  ASSUME IInv, NEW t \in Threads, InLoop(t)
  PROVE  /\ Left(t) \in Nat \ {0}
         /\ call[t].op \in Blocking \cup Trying
         /\ call[t].op = "poll" => tot[t] = 0
         /\ call[t].op # "poll" => num[t] = call[t].arg
         /\ call[t].op \in Trying => fails[t] = 0
         /\ fails[t] = 0 => Len(got[t]) = call[t].arg - Left(t)
         /\ (fails[t] = 0 /\ call[t].op # "poll") => tot[t] = Len(got[t])
         /\ call[t].op \in Trying => EntriesToPoll(t) <= EntriesPolled(t)
         /\ (call[t].op \in Trying /\ call[t].arg <= K) =>
              /\ tot[t] = 0 /\ EntriesToPoll(t) = call[t].arg
              /\ EntriesPolled(t) = call[t].arg
<1>1. TypeOK /\ CallOk(t)
  BY DEF IInv
<1>2. /\ num[t] \in Nat /\ tot[t] \in Int /\ fails[t] \in Nat
      /\ call[t].arg \in Nat /\ Len(got[t]) \in Nat /\ K \in Nat \ {0}
      /\ Left(t) \in Int
  BY <1>1, ThreadTypes, CompletionQueueAssumption
<1>3. Left(t) \in Nat \ {0} /\ Left(t) = num[t] - tot[t]
  BY <1>2 DEF InLoop, Left
<1>4. call[t].op \in Blocking \cup Trying
  <2>1. call[t] \in Calls
    BY <1>1 DEF CallOk, Called, InLoop
  <2>2. \A c \in Calls : c.op \in Blocking \cup Trying
    BY DEF Calls
  <2>3. QED  BY <2>1, <2>2
<1>5. /\ call[t].op = "poll" => tot[t] = 0
      /\ call[t].op # "poll" => num[t] = call[t].arg
      /\ call[t].op \in Trying => fails[t] = 0
      /\ (call[t].op \in Trying /\ call[t].arg <= K) =>
           tot[t] \in {0, call[t].arg}
  BY <1>1 DEF CallOk, Counts, TriesOnce, InLoop
<1>6. fails[t] = 0 => Len(got[t]) = call[t].arg - Left(t)
  BY <1>1, <1>2, <1>3 DEF CallOk, CountedFor
<1>7. (fails[t] = 0 /\ call[t].op # "poll") => tot[t] = Len(got[t])
  BY <1>2, <1>3, <1>5, <1>6
<1>8. call[t].op \in Trying => EntriesToPoll(t) <= EntriesPolled(t)
  <2>1. call[t].op \in Trying => call[t].op # "poll"
    BY DEF Trying
  <2>2. call[t].op \in Trying => tot[t] >= 0
    BY <1>2, <1>5, <1>7, <2>1
  <2>3. QED  BY <1>2, <1>3, <2>2 DEF EntriesToPoll, EntriesPolled, MinOf
<1>9. ASSUME call[t].op \in Trying, call[t].arg <= K
      PROVE  /\ tot[t] = 0 /\ EntriesToPoll(t) = call[t].arg
             /\ EntriesPolled(t) = call[t].arg
  <2>1. call[t].op # "poll"
    BY <1>9 DEF Trying
  <2>2. tot[t] = 0 /\ num[t] = call[t].arg
    BY <1>2, <1>3, <1>5, <1>9, <2>1
  <2>3. QED  BY <1>2, <1>3, <1>9, <2>2 DEF EntriesToPoll, EntriesPolled, MinOf
<1>10. QED  BY <1>3, <1>4, <1>5, <1>6, <1>7, <1>8, <1>9

(* A round that goes well changes the counts and ret of its thread. *)
LEMMA RoundEffect ==
  ASSUME IInv, NEW t \in Threads, Round(t)
  PROVE  /\ call'[t] = call[t] /\ fails'[t] = fails[t]
         /\ call[t].op = "poll" =>
              num'[t] = num[t] - Taken(t) /\ tot'[t] = tot[t]
         /\ call[t].op # "poll" =>
              num'[t] = num[t] /\ tot'[t] = tot[t] + Taken(t)
         /\ Left(t)' = Left(t) - Taken(t)
         /\ got'[t] = got[t] \o Batch(t) /\ got'[t] \in Seq(Cqe)
         /\ Len(got'[t]) = Len(got[t]) + Taken(t)
         /\ \A i \in 1..Len(got[t]) : got'[t][i] = got[t][i]
         /\ \A i \in 1..Taken(t) : got'[t][Len(got[t]) + i] = cq[i]
         /\ out'[t] = Stored(t)
         /\ pc'[t] = IF Breaks(t, Taken(t)) THEN "leaving" ELSE "looping"
<1>1. TypeOK /\ InLoop(t)
  BY DEF IInv, Round
<1>2. /\ num[t] \in Nat /\ tot[t] \in Int /\ got[t] \in Seq(Cqe)
      /\ Len(got[t]) \in Nat
  BY <1>1, ThreadTypes
<1>3. /\ Taken(t) \in 0..Len(cq) /\ Taken(t) \in Nat
      /\ Batch(t) \in Seq(Cqe) /\ Len(Batch(t)) = Taken(t)
      /\ \A i \in 1..Taken(t) : Batch(t)[i] = cq[i]
  <2>1. Len(cq) \in Nat
    BY <1>1, LenProperties DEF TypeOK
  <2>2. QED  BY <1>1, <2>1, BatchTaken
<1>4. /\ got' = [got EXCEPT ![t] = @ \o Batch(t)]
      /\ out' = [out EXCEPT ![t] = Stored(t)]
      /\ pc' = [pc EXCEPT ![t] = IF Breaks(t, Taken(t)) THEN "leaving" ELSE @]
      /\ call' = call /\ fails' = fails /\ pc[t] = "looping"
      /\ Count(t, Taken(t))
  BY DEF Round, InLoop
<1>5. /\ call[t].op = "poll" =>
           num'[t] = num[t] - Taken(t) /\ tot'[t] = tot[t]
      /\ call[t].op # "poll" =>
           num'[t] = num[t] /\ tot'[t] = tot[t] + Taken(t)
  <2>1. num \in [Threads -> Nat] /\ tot \in [Threads -> Int]
    BY <1>1 DEF TypeOK
  <2>2. QED  BY <1>4, <2>1 DEF Count
<1>6. Left(t)' = Left(t) - Taken(t)
  BY <1>2, <1>3, <1>5 DEF Left
<1>7. /\ got'[t] = got[t] \o Batch(t) /\ out'[t] = Stored(t)
      /\ pc'[t] = IF Breaks(t, Taken(t)) THEN "leaving" ELSE "looping"
  BY <1>1, <1>4 DEF TypeOK
<1>8. /\ got'[t] \in Seq(Cqe) /\ Len(got'[t]) = Len(got[t]) + Taken(t)
      /\ \A i \in 1..(Len(got[t]) + Taken(t)) :
           got'[t][i] = IF i <= Len(got[t]) THEN got[t][i]
                                            ELSE Batch(t)[i - Len(got[t])]
  <2> DEFINE g == got[t]
             b == Batch(t)
  <2>1. g \in Seq(Cqe) /\ b \in Seq(Cqe) /\ Len(b) = Taken(t)
    BY <1>2, <1>3
  <2> HIDE DEF g, b
  <2>2. /\ g \o b \in Seq(Cqe) /\ Len(g \o b) = Len(g) + Len(b)
        /\ \A i \in 1..(Len(g) + Len(b)) :
             (g \o b)[i] = IF i <= Len(g) THEN g[i] ELSE b[i - Len(g)]
    BY <2>1, ConcatProperties
  <2>3. got'[t] = g \o b
    BY <1>7 DEF g, b
  <2>4. /\ got'[t] \in Seq(Cqe) /\ Len(got'[t]) = Len(g) + Taken(t)
        /\ \A i \in 1..(Len(g) + Taken(t)) :
             got'[t][i] = IF i <= Len(g) THEN g[i] ELSE b[i - Len(g)]
    BY <2>1, <2>2, <2>3
  <2>5. QED  BY <2>4 DEF g, b
<1>9. /\ \A i \in 1..Len(got[t]) : got'[t][i] = got[t][i]
      /\ \A i \in 1..Taken(t) : got'[t][Len(got[t]) + i] = cq[i]
  <2>1. ASSUME NEW i \in 1..Len(got[t]) PROVE got'[t][i] = got[t][i]
    <3>1. i \in 1..(Len(got[t]) + Taken(t)) /\ i <= Len(got[t])
      BY <1>2, <1>3
    <3>2. QED  BY <1>8, <3>1
  <2>2. ASSUME NEW i \in 1..Taken(t) PROVE got'[t][Len(got[t]) + i] = cq[i]
    <3>1. /\ Len(got[t]) + i \in 1..(Len(got[t]) + Taken(t))
          /\ ~ (Len(got[t]) + i <= Len(got[t]))
          /\ Len(got[t]) + i - Len(got[t]) = i
      BY <1>2, <1>3
    <3>2. got'[t][Len(got[t]) + i] = Batch(t)[Len(got[t]) + i - Len(got[t])]
      BY <1>8, <3>1
    <3>3. Batch(t)[i] = cq[i]
      BY <1>3
    <3>4. QED  BY <3>1, <3>2, <3>3
  <2>3. QED  BY <2>1, <2>2
<1>10. QED  BY <1>4, <1>5, <1>6, <1>7, <1>8, <1>9

(* The vector ret after a round: as long as before, its new entries behind *)
(* the old ones.                                                           *)
LEMMA StoredVector ==
  ASSUME IInv, NEW t \in Threads, Round(t)
  PROVE  /\ Stored(t) \in Seq(Cqe \cup {NoCqe})
         /\ Len(Stored(t)) = Len(out[t])
         /\ call[t].op \in WithWc =>
              \A i \in 1..Len(out[t]) :
                Stored(t)[i] = IF tot[t] < i /\ i <= tot[t] + Taken(t)
                                 THEN cq[i - tot[t]] ELSE out[t][i]
<1>1. TypeOK /\ InLoop(t)
  BY DEF IInv, Round
<1>2. /\ out[t] \in Seq(Cqe \cup {NoCqe}) /\ Len(out[t]) \in Nat
      /\ DOMAIN out[t] = 1..Len(out[t]) /\ tot[t] \in Int
      /\ \A i \in 1..Len(out[t]) : out[t][i] \in Cqe \cup {NoCqe}
  BY <1>1, ThreadTypes, LenProperties, ElementOfSeq
<1>3. /\ Len(cq) \in Nat /\ Taken(t) \in 0..Len(cq)
      /\ \A i \in 1..Len(cq) : cq[i] \in Cqe
  BY <1>1, BatchTaken, LenProperties, ElementOfSeq DEF TypeOK
<1>4. CASE call[t].op \in WithWc
  <2> DEFINE e(i) == IF tot[t] < i /\ i <= tot[t] + Taken(t)
                       THEN cq[i - tot[t]] ELSE out[t][i]
  <2>1. Stored(t) = [i \in 1..Len(out[t]) |-> e(i)]
    BY <1>2, <1>4 DEF Stored
  <2>2. \A i \in 1..Len(out[t]) : e(i) \in Cqe \cup {NoCqe}
    BY <1>2, <1>3
  <2>3. Stored(t) \in [1..Len(out[t]) -> Cqe \cup {NoCqe}]
    BY <2>1, <2>2
  <2>4. Stored(t) \in Seq(Cqe \cup {NoCqe})
    BY <1>2, <2>3, SeqDef
  <2>5. Len(Stored(t)) = Len(out[t])
    BY <1>2, <2>3, <2>4, LenProperties
  <2>6. QED  BY <2>1, <2>4, <2>5
<1>5. CASE call[t].op \notin WithWc
  BY <1>2, <1>5 DEF Stored
<1>6. QED  BY <1>4, <1>5

(* A round that goes well keeps the invariant: by parts. *)
LEMMA RoundCall ==
  ASSUME IInv, NEW t \in Threads, Round(t)
  PROVE  CallOk(t)'
<1>1. TypeOK /\ CallOk(t) /\ InLoop(t) /\ Active(t)
  BY DEF IInv, Round, InLoop, Active
<1>2. /\ num[t] \in Nat /\ tot[t] \in Int /\ fails[t] \in Nat
      /\ call[t].arg \in Nat /\ Len(got[t]) \in Nat /\ Left(t) \in Int
      /\ Len(out[t]) \in Nat /\ K \in Nat
  BY <1>1, ThreadTypes, CompletionQueueAssumption
<1>3. Taken(t) \in Nat /\ Taken(t) \in 0..Len(cq)
  <2>1. Len(cq) \in Nat
    BY <1>1, LenProperties DEF TypeOK
  <2>2. QED  BY <1>1, <2>1, BatchTaken
<1>4. (Called(t) /\ Counts(t))'
  BY <1>1, RoundEffect DEF CallOk, Called, Counts, InLoop
<1>5. TriesOnce(t)'
  <2>1. pc'[t] = "leaving" => call'[t].op \in Trying
    BY RoundEffect DEF Breaks
  <2>2. ASSUME pc'[t] = "looping", call[t].op \in Trying, call[t].arg <= K
        PROVE  tot'[t] = call[t].arg
    <3>1. ~ Breaks(t, Taken(t))
      BY <2>2, RoundEffect
    <3>2. Taken(t) >= EntriesToPoll(t)
      BY <1>1, <1>2, <1>3, <2>2, <3>1, BatchTaken DEF Breaks
    <3>3. Taken(t) = call[t].arg /\ tot[t] = 0
      BY <1>1, <1>2, <1>3, <2>2, <3>2, BatchTaken, BeforeRound
    <3>4. tot'[t] = tot[t] + Taken(t)
      BY <2>2, RoundEffect DEF Trying
    <3>5. QED  BY <1>2, <3>3, <3>4
  <2>3. QED  BY <1>1, <2>1, <2>2, RoundEffect, BeforeRound DEF TriesOnce
<1>6. Fills(t)'
  <2> SUFFICES ASSUME call[t].op \in WithWc
               PROVE  /\ Len(out'[t]) = call[t].arg
                      /\ tot'[t] <= call[t].arg
                      /\ fails[t] = 0 => \A i \in 1..Len(got'[t]) :
                                           out'[t][i] = got'[t][i]
    BY RoundEffect DEF Fills
  <2>1. /\ Len(out[t]) = call[t].arg /\ tot[t] <= call[t].arg
        /\ fails[t] = 0 => \A i \in 1..Len(got[t]) : out[t][i] = got[t][i]
    BY <1>1 DEF CallOk, Fills
  <2>2. Len(out'[t]) = call[t].arg
    BY <2>1, RoundEffect, StoredVector
  <2>3. call[t].op # "poll" /\ tot'[t] = tot[t] + Taken(t)
    BY RoundEffect DEF WithWc
  <2>4. tot'[t] <= call[t].arg
    BY <1>2, <1>3, <2>1, <2>3 DEF Round, OverrunsRet
  <2>5. ASSUME fails[t] = 0, NEW i \in 1..Len(got'[t])
        PROVE  out'[t][i] = got'[t][i]
    <3>1. tot[t] = Len(got[t])
      BY <1>1, <2>3, <2>5, BeforeRound
    <3>2. Len(got'[t]) = Len(got[t]) + Taken(t) /\ i \in 1..Len(out[t])
      <4>1. Len(got'[t]) = Len(got[t]) + Taken(t)
        BY RoundEffect
      <4>2. Len(got'[t]) <= Len(out[t])
        BY <2>1, <2>3, <2>4, <3>1, <4>1
      <4>3. QED  BY <1>2, <1>3, <4>1, <4>2
    <3>3. CASE i <= tot[t]
      <4>1. got'[t][i] = got[t][i] /\ out[t][i] = got[t][i]
        BY <1>2, <2>1, <2>5, <3>1, <3>2, <3>3, RoundEffect
      <4>2. out'[t][i] = out[t][i]
        BY <1>2, <3>2, <3>3, RoundEffect, StoredVector
      <4>3. QED  BY <4>1, <4>2
    <3>4. CASE ~ (i <= tot[t])
      <4>1. i - tot[t] \in 1..Taken(t) /\ i = Len(got[t]) + (i - tot[t])
        BY <1>2, <1>3, <2>5, <3>1, <3>2, <3>4
      <4>2. got'[t][i] = cq[i - tot[t]]
        BY <4>1, RoundEffect
      <4>3. out'[t][i] = cq[i - tot[t]]
        <5>1. i \in 1..Len(out[t]) /\ tot[t] < i /\ i <= tot[t] + Taken(t)
          BY <1>2, <1>3, <2>5, <3>1, <3>2, <3>4
        <5>2. Stored(t)[i] = cq[i - tot[t]]
          BY <5>1, StoredVector
        <5>3. QED  BY <5>2, RoundEffect
      <4>4. QED  BY <4>2, <4>3
    <3>5. QED  BY <3>3, <3>4
  <2>6. QED  BY <2>2, <2>4, <2>5
<1>7. GotGood(t)'
  <2>1. \A i \in 1..Taken(t) : cq[i].ok
    BY <1>1, BatchTaken DEF Round, BatchFails
  <2>2. ASSUME NEW i \in 1..Len(got'[t]) PROVE got'[t][i].ok
    <3>1. Len(got'[t]) = Len(got[t]) + Taken(t)
      BY RoundEffect
    <3>2. CASE i <= Len(got[t])
      <4>1. i \in 1..Len(got[t])
        BY <1>2, <1>3, <3>1, <3>2
      <4>2. QED  BY <1>1, <4>1, RoundEffect DEF CallOk, GotGood
    <3>3. CASE ~ (i <= Len(got[t]))
      <4>1. /\ i - Len(got[t]) \in 1..Taken(t)
            /\ i = Len(got[t]) + (i - Len(got[t]))
        BY <1>2, <1>3, <3>1, <3>3
      <4>2. got'[t][i] = cq[i - Len(got[t])]
        BY <4>1, RoundEffect
      <4>3. QED  BY <2>1, <4>1, <4>2
    <3>4. QED  BY <3>2, <3>3
  <2>3. QED  BY <2>2 DEF GotGood
<1>8. CountedFor(t)'
  <2>1. Len(got[t]) = call[t].arg - Left(t) + fails[t]
    BY <1>1 DEF CallOk, CountedFor
  <2>2. Len(got'[t]) = Len(got[t]) + Taken(t) /\ Left(t)' = Left(t) - Taken(t)
    BY RoundEffect
  <2>3. call'[t] = call[t] /\ fails'[t] = fails[t]
    BY RoundEffect
  <2>4. Len(got'[t]) = call'[t].arg - Left(t)' + fails'[t]
    <3>1. PICK l \in Int, n \in Nat : l = Left(t) /\ n = Taken(t) /\ Left(t)' = l - n
      BY <1>2, <1>3, <2>2
    <3>2. PICK g \in Nat, a \in Nat, f \in Nat :
            g = Len(got[t]) /\ a = call[t].arg /\ f = fails[t]
      BY <1>2
    <3>3. g = a - l + f
      BY <2>1, <3>1, <3>2
    <3>4. g + n = a - (l - n) + f
      BY <3>3
    <3>5. QED  BY <2>2, <2>3, <3>1, <3>2, <3>4
  <2>5. QED  BY <2>4 DEF CountedFor
<1>9. Modest(t)'
  <2> SUFFICES ASSUME fails[t] = 0, ~ Oversized(t)
               PROVE  Len(got[t]) + Taken(t) <= call[t].arg
    BY RoundEffect DEF Modest, Oversized
  <2>1. Taken(t) <= Left(t)
    <3>1. CASE call[t].op \in Blocking
      BY <1>1, <1>2, <1>3, <3>1, BatchTaken
    <3>2. CASE call[t].op \in Trying
      <4>1. call[t].arg <= K
        BY <1>2, <3>2 DEF Oversized
      <4>2. Taken(t) <= call[t].arg /\ tot[t] = 0 /\ num[t] = call[t].arg
        BY <1>1, <3>2, <4>1, BatchTaken, BeforeRound DEF Trying
      <4>3. QED  BY <1>2, <4>2 DEF Left
    <3>3. QED  BY <1>1, <3>1, <3>2, BeforeRound
  <2>2. Len(got[t]) = call[t].arg - Left(t)
    BY <1>1, BeforeRound
  <2>3. QED  BY <1>2, <1>3, <2>1, <2>2
<1>10. Returned(t)'
  BY RoundEffect DEF Returned
<1>11. QED  BY <1>4, <1>5, <1>6, <1>7, <1>8, <1>9, <1>10 DEF CallOk

LEMMA RoundKeeps ==
  ASSUME IInv, NEW t \in Threads, Round(t)
  PROVE  IInv'
<1>1. /\ TypeOK /\ InLoop(t)
      /\ cq' = SubSeq(cq, Taken(t) + 1, Len(cq))
      /\ got' = [got EXCEPT ![t] = @ \o Batch(t)]
      /\ out' = [out EXCEPT ![t] = Stored(t)]
      /\ pc' = [pc EXCEPT ![t] = IF Breaks(t, Taken(t)) THEN "leaving" ELSE @]
      /\ UNCHANGED <<added, claimed, fate, call, fails>>
      /\ fate = "running" /\ pc[t] = "looping"
  BY DEF IInv, Round, InLoop
<1>2. num[t] \in Nat /\ tot[t] \in Int
  BY <1>1, ThreadTypes
<1>3. /\ \A u \in Threads \ {t} : num'[u] = num[u] /\ tot'[u] = tot[u]
      /\ num' \in [Threads -> Nat] /\ tot' \in [Threads -> Int]
  <2>1. num \in [Threads -> Nat] /\ tot \in [Threads -> Int]
    BY <1>1 DEF TypeOK
  <2>2. /\ Taken(t) \in Int
        /\ call[t].op = "poll" => num[t] - Taken(t) \in Nat
    <3>1. Len(cq) \in Nat
      BY <1>1, LenProperties DEF TypeOK
    <3>2. Taken(t) \in Nat /\ Left(t) \in Nat
      BY <1>1, <3>1, BatchTaken, BeforeRound
    <3>3. call[t].op = "poll" => Taken(t) <= Left(t) /\ Left(t) = num[t]
      <4>1. call[t].op = "poll" => Taken(t) <= EntriesPolled(t)
        BY <1>1, BatchTaken
      <4>2. call[t].op = "poll" => EntriesPolled(t) <= Left(t)
        BY <1>1, BatchTaken DEF Blocking
      <4>3. call[t].op = "poll" => Left(t) = num[t]
        BY <1>1, <1>2, BeforeRound DEF Left
      <4>4. EntriesPolled(t) \in Nat
        BY <1>1, BatchTaken
      <4>5. QED  BY <3>2, <4>1, <4>2, <4>3, <4>4
    <3>4. QED  BY <1>2, <3>2, <3>3
  <2>3. Count(t, Taken(t))
    BY DEF Round
  <2>4. CASE call[t].op = "poll"
    BY <2>1, <2>2, <2>3, <2>4 DEF Count
  <2>5. CASE call[t].op # "poll"
    BY <1>2, <2>1, <2>2, <2>3, <2>5 DEF Count
  <2>6. QED  BY <2>4, <2>5
<1>4. TypeOK'
  <2>1. cq' \in Seq(Cqe)
    BY <1>1, BatchTaken
  <2>2. got' \in [Threads -> Seq(Cqe)]
    <3>1. got[t] \o Batch(t) \in Seq(Cqe)
      BY <1>1, BatchTaken, ConcatProperties DEF TypeOK
    <3>2. QED  BY <1>1, <3>1 DEF TypeOK
  <2>3. out' \in [Threads -> Seq(Cqe \cup {NoCqe})]
    BY <1>1, StoredVector DEF TypeOK
  <2>4. QED  BY <1>1, <1>3, <2>1, <2>2, <2>3 DEF TypeOK
<1>5. ClaimsFit'
  <2>1. \A u \in Threads : Active(u)' => Active(u)
    BY <1>1 DEF Active, TypeOK
  <2>2. QED  BY <1>1, <2>1, FrameClaims
<1>6. \A u \in Threads \ {t} :
        /\ pc'[u] = pc[u] /\ call'[u] = call[u] /\ num'[u] = num[u]
        /\ tot'[u] = tot[u] /\ out'[u] = out[u] /\ got'[u] = got[u]
        /\ fails'[u] = fails[u]
  BY <1>1, <1>3 DEF TypeOK
<1>7. QED  BY <1>1, <1>4, <1>5, <1>6, RoundCall, OneThread

(* A failed ibv_poll_cq: one entry more is waited for, and a try gives up. *)
LEMMA RoundFailsKeeps ==
  ASSUME IInv, NEW t \in Threads, RoundFails(t)
  PROVE  IInv'
<1>1. /\ TypeOK /\ CallOk(t) /\ InLoop(t) /\ Active(t)
      /\ fails[t] < MaxFails
      /\ fails' = [fails EXCEPT ![t] = @ + 1]
      /\ pc' = [pc EXCEPT ![t] = IF Breaks(t, -1) THEN "leaving" ELSE @]
      /\ UNCHANGED <<cq, added, claimed, fate, call, out, got>>
      /\ fate = "running" /\ pc[t] = "looping"
  BY DEF IInv, RoundFails, InLoop, Active
<1>2. /\ num[t] \in Nat /\ tot[t] \in Int /\ fails[t] \in Nat
      /\ call[t].arg \in Nat /\ Len(got[t]) \in Nat /\ Left(t) \in Int
      /\ K \in Nat /\ MaxFails \in Nat
  BY <1>1, ThreadTypes, CompletionQueueAssumption
<1>3. /\ num' \in [Threads -> Nat] /\ tot' \in [Threads -> Int]
      /\ \A u \in Threads \ {t} : num'[u] = num[u] /\ tot'[u] = tot[u]
      /\ call[t].op = "poll" => num'[t] = num[t] + 1 /\ tot'[t] = tot[t]
      /\ call[t].op # "poll" => num'[t] = num[t] /\ tot'[t] = tot[t] - 1
  <2>1. num \in [Threads -> Nat] /\ tot \in [Threads -> Int]
    BY <1>1 DEF TypeOK
  <2>2. Count(t, -1)
    BY DEF RoundFails
  <2>3. CASE call[t].op = "poll"
    <3>1. num' = [num EXCEPT ![t] = @ + 1] /\ tot' = tot
      BY <1>2, <2>1, <2>2, <2>3 DEF Count
    <3>2. QED  BY <1>2, <2>1, <2>3, <3>1
  <2>4. CASE call[t].op # "poll"
    <3>1. tot' = [tot EXCEPT ![t] = @ - 1] /\ num' = num
      BY <1>2, <2>1, <2>2, <2>4 DEF Count
    <3>2. QED  BY <1>2, <2>1, <2>4, <3>1
  <2>5. QED  BY <2>3, <2>4
<1>4. /\ fails'[t] = fails[t] + 1 /\ fails'[t] # 0 /\ call'[t] = call[t]
      /\ out'[t] = out[t] /\ got'[t] = got[t]
      /\ pc'[t] = IF call[t].op \in Trying THEN "leaving" ELSE "looping"
  <2>1. Breaks(t, -1) <=> call[t].op \in Trying
    <3>1. EntriesToPoll(t) \in Nat
      BY <1>1, BatchTaken
    <3>2. -1 < EntriesToPoll(t)
      BY <3>1
    <3>3. QED  BY <3>2 DEF Breaks
  <2>2. QED  BY <1>1, <1>2, <2>1 DEF TypeOK
<1>5. TypeOK'
  <2>1. fails' \in [Threads -> 0..MaxFails]
    BY <1>1, <1>2 DEF TypeOK
  <2>2. QED  BY <1>1, <1>3, <2>1 DEF TypeOK
<1>6. CallOk(t)'
  <2>1. (Called(t) /\ Counts(t) /\ TriesOnce(t) /\ GotGood(t))'
    BY <1>1, <1>3, <1>4 DEF CallOk, Called, Counts, TriesOnce, GotGood
  <2>2. Fills(t)'
    <3> SUFFICES ASSUME call[t].op \in WithWc
                 PROVE  Len(out'[t]) = call[t].arg /\ tot'[t] <= call[t].arg
      BY <1>4 DEF Fills
    <3>1. Len(out[t]) = call[t].arg /\ tot[t] <= call[t].arg
      BY <1>1 DEF CallOk, Fills
    <3>2. tot'[t] = tot[t] - 1
      BY <1>3 DEF WithWc
    <3>3. QED  BY <1>2, <1>4, <3>1, <3>2
  <2>3. CountedFor(t)'
    <3>1. Len(got[t]) = call[t].arg - Left(t) + fails[t]
      BY <1>1 DEF CallOk, CountedFor
    <3>2. Left(t)' = Left(t) + 1
      BY <1>2, <1>3 DEF Left
    <3>3. QED  BY <1>2, <1>4, <3>1, <3>2 DEF CountedFor
  <2>4. (Modest(t) /\ Returned(t))'
    BY <1>4 DEF Modest, Returned
  <2>5. QED  BY <2>1, <2>2, <2>3, <2>4 DEF CallOk
<1>7. ClaimsFit'
  <2>1. \A u \in Threads : Active(u)' => Active(u)
    BY <1>1 DEF Active, TypeOK
  <2>2. QED  BY <1>1, <2>1, FrameClaims
<1>8. \A u \in Threads \ {t} :
        /\ pc'[u] = pc[u] /\ call'[u] = call[u] /\ num'[u] = num[u]
        /\ tot'[u] = tot[u] /\ out'[u] = out[u] /\ got'[u] = got[u]
        /\ fails'[u] = fails[u]
  BY <1>1, <1>3 DEF TypeOK
<1>9. QED  BY <1>1, <1>5, <1>6, <1>7, <1>8, OneThread

(* Only an oversized try asks for more than the array wc holds, and only   *)
(* poll_with_wc that has met a failure writes outside of ret.              *)
LEMMA OverrunReasons ==
  ASSUME IInv, NEW t \in Threads, InLoop(t),
         OverrunsWc(t) \/ OverrunsRet(t)
  PROVE  Oversized(t) \/ (fails[t] > 0 /\ call[t].op = "poll_with_wc")
<1>1. TypeOK /\ CallOk(t)
  BY DEF IInv
<1>2. /\ num[t] \in Nat /\ tot[t] \in Int /\ fails[t] \in Nat
      /\ call[t].arg \in Nat /\ Len(got[t]) \in Nat /\ Left(t) \in Int
      /\ K \in Nat
  BY <1>1, ThreadTypes, CompletionQueueAssumption
<1>3. /\ Taken(t) \in Nat /\ Taken(t) <= EntriesPolled(t)
      /\ EntriesPolled(t) \in Nat
      /\ EntriesToPoll(t) \in Nat /\ EntriesToPoll(t) <= K
  <2>1. Len(cq) \in Nat
    BY <1>1, LenProperties DEF TypeOK
  <2>2. QED  BY <1>1, <2>1, BatchTaken
<1>4. CASE OverrunsWc(t)
  <2>1. K < EntriesPolled(t)
    BY <1>2, <1>3, <1>4 DEF OverrunsWc
  <2>2. call[t].op = "try_poll" /\ K < num[t]
    BY <1>2, <1>3, <2>1 DEF EntriesPolled
  <2>3. num[t] = call[t].arg
    BY <2>2, BeforeRound
  <2>4. QED  BY <1>2, <2>2, <2>3 DEF Oversized, Trying
<1>5. CASE OverrunsRet(t)
  <2>1. /\ call[t].op \in WithWc
        /\ tot[t] < 0 \/ tot[t] + Taken(t) > call[t].arg
    BY <1>5 DEF OverrunsRet
  <2>2. CASE call[t].op = "try_poll_with_wc"
    <3>1. ASSUME call[t].arg <= K PROVE FALSE
      <4>1. tot[t] = 0 /\ EntriesPolled(t) = call[t].arg
        BY <2>2, <3>1, BeforeRound DEF Trying
      <4>2. QED  BY <1>2, <1>3, <2>1, <4>1
    <3>2. QED  BY <1>2, <2>2, <3>1 DEF Oversized, Trying
  <2>3. CASE call[t].op = "poll_with_wc"
    <3>1. ASSUME fails[t] = 0 PROVE FALSE
      <4>1. tot[t] = Len(got[t]) /\ num[t] = call[t].arg
        BY <2>3, <3>1, BeforeRound
      <4>2. EntriesPolled(t) <= Left(t)
        BY <1>1, <2>3, BatchTaken DEF Blocking
      <4>3. Left(t) = call[t].arg - tot[t]
        BY <4>1 DEF Left
      <4>4. QED  BY <1>2, <1>3, <2>1, <4>1, <4>2, <4>3
    <3>2. QED  BY <1>2, <2>3, <3>1
  <2>4. QED  BY <2>1, <2>2, <2>3 DEF WithWc
<1>6. QED  BY <1>4, <1>5

LEMMA RoundOverrunsKeeps ==
  ASSUME IInv, NEW t \in Threads, RoundOverruns(t)
  PROVE  IInv'
<1>1. /\ InLoop(t) /\ (OverrunsWc(t) \/ OverrunsRet(t)) /\ fate' = "corrupt"
      /\ UNCHANGED <<cq, added, claimed, pc, frame>>
  BY DEF RoundOverruns
<1>2. Oversized(t) \/ (fails[t] > 0 /\ call[t].op = "poll_with_wc")
  BY <1>1, OverrunReasons
<1>3. OverrunExplained'
  BY <1>1, <1>2 DEF OverrunExplained, Oversized, InLoop, frame
<1>4. QED  BY <1>1, <1>3, FateKeeps

LEMMA ExitsKeep ==
  ASSUME IInv, NEW t \in Threads, RoundPanics(t) \/ ResizeThrows(t)
  PROVE  IInv'
<1>1. /\ fate' = "exited"
      /\ UNCHANGED <<cq, added, claimed, pc, frame>>
  BY DEF RoundPanics, ResizeThrows
<1>2. OverrunExplained'
  BY <1>1 DEF OverrunExplained
<1>3. QED  BY <1>1, <1>2, FateKeeps

-----------------------------------------------------------------------------
(* A call returns. *)

(* What is known of a call that is done. *)
LEMMA BeforeReturn ==
  ASSUME IInv, NEW t \in Threads, LoopDone(t)
  PROVE  /\ Active(t) /\ call[t] \in Calls
         /\ pc[t] = "looping" => Left(t) <= 0
         /\ (fails[t] = 0 /\ call[t].op # "poll") => tot[t] = Len(got[t])
         /\ call[t].op \in WithWc =>
              /\ tot[t] <= call[t].arg /\ Len(out[t]) = call[t].arg
              /\ fails[t] = 0 => \A i \in 1..Len(got[t]) : out[t][i] = got[t][i]
         /\ (fails[t] = 0 /\ call[t].op = "poll_with_wc") =>
              Len(got[t]) = call[t].arg
<1>1. /\ TypeOK /\ CallOk(t) /\ Active(t)
      /\ pc[t] = "looping" => Left(t) <= 0
  BY DEF IInv, LoopDone, Active
<1>2. /\ num[t] \in Nat /\ tot[t] \in Int /\ fails[t] \in Nat
      /\ call[t].arg \in Nat /\ Len(got[t]) \in Nat /\ Left(t) \in Int
  BY <1>1, ThreadTypes
<1>3. call[t] \in Calls
  BY <1>1 DEF CallOk, Called, Active
<1>4. (fails[t] = 0 /\ call[t].op # "poll") => tot[t] = Len(got[t])
  BY <1>1, <1>2 DEF CallOk, Counts, CountedFor, Left
<1>5. call[t].op \in WithWc =>
        /\ tot[t] <= call[t].arg /\ Len(out[t]) = call[t].arg
        /\ fails[t] = 0 => \A i \in 1..Len(got[t]) : out[t][i] = got[t][i]
  BY <1>1 DEF CallOk, Fills
<1>6. ASSUME fails[t] = 0, call[t].op = "poll_with_wc"
      PROVE  Len(got[t]) = call[t].arg
  <2>1. pc[t] = "looping"
    BY <1>1, <1>6 DEF CallOk, TriesOnce, Active, Trying
  <2>2. num[t] = call[t].arg
    BY <1>1, <1>6 DEF CallOk, Counts
  <2>3. tot[t] <= call[t].arg /\ tot[t] = Len(got[t])
    BY <1>4, <1>5, <1>6 DEF WithWc
  <2>4. QED  BY <1>1, <1>2, <2>1, <2>2, <2>3 DEF Left
<1>7. QED  BY <1>1, <1>3, <1>4, <1>5, <1>6

(* A vector that is returned holds what the call took. *)
LEMMA ReturnVector ==
  ASSUME IInv, NEW t \in Threads, Return(t)
  PROVE  /\ out'[t] \in Seq(Cqe \cup {NoCqe})
         /\ (fails[t] = 0 /\ call[t].op \in WithWc) => out'[t] = got[t]
<1>1. /\ TypeOK /\ LoopDone(t)
      /\ call[t].op = "try_poll_with_wc" => tot[t] >= 0
      /\ out' = IF call[t].op = "try_poll_with_wc"
                  THEN [out EXCEPT ![t] = SubSeq(@, 1, tot[t])] ELSE out
  BY DEF IInv, Return
<1>2. /\ tot[t] \in Int /\ call[t].arg \in Nat /\ Len(got[t]) \in Nat
      /\ out[t] \in Seq(Cqe \cup {NoCqe}) /\ Len(out[t]) \in Nat
      /\ got[t] \in Seq(Cqe)
  BY <1>1, ThreadTypes
<1>3. got[t] \in Seq(Cqe \cup {NoCqe})
  BY <1>2, SeqMonotonic
<1>4. CASE call[t].op = "try_poll_with_wc"
  <2>1. out'[t] = SubSeq(out[t], 1, tot[t])
    BY <1>1, <1>4 DEF TypeOK
  <2>2. tot[t] \in 0..Len(out[t])
    BY <1>1, <1>2, <1>4, BeforeReturn DEF WithWc
  <2>3. \A i \in 1..tot[t] : out[t][i] \in Cqe \cup {NoCqe}
    <3>1. \A i \in 1..Len(out[t]) : out[t][i] \in Cqe \cup {NoCqe}
      BY <1>2, ElementOfSeq
    <3>2. QED  BY <1>2, <2>2, <3>1
  <2>4. /\ SubSeq(out[t], 1, tot[t]) \in Seq(Cqe \cup {NoCqe})
        /\ Len(SubSeq(out[t], 1, tot[t]))
             = IF 1 <= tot[t] THEN tot[t] - 1 + 1 ELSE 0
        /\ \A i \in 1..(tot[t] - 1 + 1) :
             SubSeq(out[t], 1, tot[t])[i] = out[t][1 + i - 1]
    BY <1>2, <2>3, SubSeqProperties
  <2>5. /\ out'[t] \in Seq(Cqe \cup {NoCqe}) /\ Len(out'[t]) = tot[t]
        /\ \A i \in 1..tot[t] : out'[t][i] = out[t][i]
    BY <1>2, <2>1, <2>2, <2>4
  <2>6. ASSUME fails[t] = 0 PROVE out'[t] = got[t]
    <3>1. /\ tot[t] = Len(got[t])
          /\ \A i \in 1..Len(got[t]) : out[t][i] = got[t][i]
      BY <1>1, <1>4, <2>6, BeforeReturn DEF WithWc
    <3>2. \A i \in 1..Len(out'[t]) : out'[t][i] = got[t][i]
      BY <2>5, <3>1
    <3>3. QED  BY <1>3, <2>5, <3>1, <3>2, SeqEqual
  <2>7. QED  BY <2>5, <2>6
<1>5. CASE call[t].op # "try_poll_with_wc"
  <2>1. out'[t] = out[t]
    BY <1>1, <1>5
  <2>2. ASSUME fails[t] = 0, call[t].op \in WithWc PROVE out[t] = got[t]
    <3>1. call[t].op = "poll_with_wc"
      BY <1>5, <2>2 DEF WithWc
    <3>2. /\ Len(out[t]) = call[t].arg /\ Len(got[t]) = call[t].arg
          /\ \A i \in 1..Len(got[t]) : out[t][i] = got[t][i]
      BY <1>1, <2>2, <3>1, BeforeReturn
    <3>3. QED  BY <1>2, <1>3, <3>2, SeqEqual
  <2>3. QED  BY <1>2, <2>1, <2>2
<1>6. QED  BY <1>4, <1>5

(* A call gives back what it did not get: the claims behind it move up. *)
LEMMA ReturnClaims ==
  ASSUME IInv, NEW t \in Threads, Return(t)
  PROVE  claimed' \in 0..(Posted + 1) /\ ClaimsFit'
<1> DEFINE arg == call[t].arg
           n   == Len(got[t])
<1>1. /\ TypeOK /\ ClaimsFit /\ Active(t)
      /\ pc' = [pc EXCEPT ![t] = "returned"]
      /\ call' = call
      /\ claimed' = IF claimed > Posted THEN claimed
                    ELSE MinOf(claimed - arg + n, Posted + 1)
  BY DEF IInv, Return, LoopDone, Active
<1>2. /\ arg \in Nat /\ n \in Nat /\ claimed \in 0..(Posted + 1)
      /\ Posted \in Nat
      /\ \A u \in Threads : call[u].arg \in Nat
  BY <1>1, ThreadTypes, CompletionQueueAssumption DEF TypeOK
<1>3. \A u \in Threads : Active(u)' <=> (u # t /\ Active(u))
  BY <1>1 DEF Active, TypeOK
<1> HIDE DEF arg, n
<1>4. CASE claimed > Posted
  BY <1>1, <1>2, <1>4 DEF ClaimsFit
<1>5. CASE claimed <= Posted
  <2>1. PICK lo \in [Threads -> 0..Posted] : Room(lo)
    BY <1>1, <1>5 DEF ClaimsFit
  <2>2. lo[t] \in 0..Posted /\ lo[t] + arg <= claimed
    BY <1>1, <2>1 DEF Room, arg
  <2>3. claimed' = MinOf(claimed - arg + n, Posted + 1)
    BY <1>1, <1>2, <1>5
  <2>4. claimed' \in 0..(Posted + 1)
    BY <1>2, <1>5, <2>2, <2>3 DEF MinOf
  <2>5. \A u \in Threads :
          Active(u)' => /\ lo[u] \in 0..Posted
                        /\ lo[u] + call[u].arg <= claimed
                        /\ \/ lo[u] + call[u].arg <= lo[t]
                           \/ lo[t] + arg <= lo[u]
    BY <1>1, <1>3, <2>1 DEF Room, arg
  <2>6. \A u, v \in Threads :
          (u # v /\ Active(u)' /\ Active(v)') =>
            \/ lo[u] + call[u].arg <= lo[v]
            \/ lo[v] + call[v].arg <= lo[u]
    BY <1>3, <2>1 DEF Room
  <2>7. CASE arg <= n
    <3>1. ASSUME claimed' <= Posted PROVE claimed <= claimed'
      BY <1>2, <1>5, <2>3, <2>7, <3>1 DEF MinOf
    <3>2. ASSUME claimed' <= Posted,
                 NEW u \in Threads, Active(u)'
          PROVE  lo[u] + call[u].arg <= claimed'
      <4>1. lo[u] + call[u].arg <= claimed /\ claimed <= claimed'
        BY <2>5, <3>1, <3>2
      <4>2. QED  BY <1>2, <2>4, <2>5, <3>2, <4>1
    <3>3. claimed' <= Posted => Room(lo)'
      BY <1>1, <2>6, <3>2 DEF Room
    <3>4. QED  BY <2>4, <3>3 DEF ClaimsFit
  <2>8. CASE n < arg
    <3> DEFINE d == arg - n
               Behind(u) == lo[t] + arg <= lo[u]
    <3>1. /\ d \in 1..arg /\ claimed' = claimed - d
          /\ d <= claimed
      BY <1>2, <1>5, <2>2, <2>3, <2>8 DEF MinOf
    <3>2. PICK new \in [Threads -> 0..Posted] :
            \A u \in Threads :
              /\ Behind(u) => new[u] = lo[u] - d
              /\ ~ Behind(u) => new[u] = lo[u]
      <4>1. \A u \in Threads : lo[u] \in 0..Posted
        OBVIOUS
      <4>2. ASSUME NEW u \in Threads, Behind(u) PROVE lo[u] - d \in 0..Posted
        BY <1>2, <2>2, <3>1, <4>1, <4>2
      <4> DEFINE f == [u \in Threads |-> IF Behind(u) THEN lo[u] - d
                                                      ELSE lo[u]]
      <4>3. f \in [Threads -> 0..Posted]
        BY <4>1, <4>2
      <4>4. QED  BY <4>3
    <3>3. \A u \in Threads :
            /\ new[u] \in 0..Posted
            /\ Behind(u) => new[u] = lo[u] - d
            /\ ~ Behind(u) => new[u] = lo[u]
      BY <3>2
    <3> HIDE DEF d
    <3>4. ASSUME NEW u \in Threads, Active(u)'
          PROVE  new[u] + call[u].arg <= claimed'
      <4>1. CASE Behind(u)
        BY <1>2, <2>2, <2>5, <3>1, <3>3, <3>4, <4>1
      <4>2. CASE ~ Behind(u)
        BY <1>2, <2>2, <2>5, <3>1, <3>3, <3>4, <4>2
      <4>3. QED  BY <4>1, <4>2
    <3>5. ASSUME NEW u \in Threads, NEW v \in Threads, u # v,
                 Active(u)', Active(v)'
          PROVE  \/ new[u] + call[u].arg <= new[v]
                 \/ new[v] + call[v].arg <= new[u]
      <4>1. /\ lo[u] \in 0..Posted /\ lo[v] \in 0..Posted
            /\ call[u].arg \in Nat /\ call[v].arg \in Nat
            /\ \/ lo[u] + call[u].arg <= lo[t]
               \/ Behind(u)
            /\ \/ lo[v] + call[v].arg <= lo[t]
               \/ Behind(v)
            /\ \/ lo[u] + call[u].arg <= lo[v]
               \/ lo[v] + call[v].arg <= lo[u]
        BY <1>2, <2>5, <2>6, <3>5
      <4>2. CASE Behind(u) /\ Behind(v)
        BY <1>2, <2>2, <3>1, <3>3, <4>1, <4>2
      <4>3. CASE ~ Behind(u) /\ Behind(v)
        BY <1>2, <2>2, <3>1, <3>3, <4>1, <4>3
      <4>4. CASE Behind(u) /\ ~ Behind(v)
        BY <1>2, <2>2, <3>1, <3>3, <4>1, <4>4
      <4>5. CASE ~ Behind(u) /\ ~ Behind(v)
        BY <3>3, <4>1, <4>5
      <4>6. QED  BY <4>2, <4>3, <4>4, <4>5
    <3>6. Room(new)'
      BY <1>1, <3>4, <3>5 DEF Room
    <3>7. QED  BY <2>4, <3>2, <3>6 DEF ClaimsFit
  <2>9. QED  BY <1>2, <2>7, <2>8
<1>6. QED  BY <1>2, <1>4, <1>5

LEMMA ReturnKeeps ==
  ASSUME IInv, NEW t \in Threads, Return(t)
  PROVE  IInv'
<1>1. /\ TypeOK /\ CallOk(t) /\ fate = "running"
      /\ pc' = [pc EXCEPT ![t] = "returned"]
      /\ out' = IF call[t].op = "try_poll_with_wc"
                  THEN [out EXCEPT ![t] = SubSeq(@, 1, tot[t])] ELSE out
      /\ UNCHANGED <<cq, added, fate, call, num, tot, got, fails>>
  BY DEF IInv, Return, LoopDone
<1>2. TypeOK'
  <2>1. out' \in [Threads -> Seq(Cqe \cup {NoCqe})]
    <3>1. out \in [Threads -> Seq(Cqe \cup {NoCqe})]
      BY <1>1 DEF TypeOK
    <3>2. out'[t] \in Seq(Cqe \cup {NoCqe})
      BY ReturnVector
    <3>3. QED  BY <1>1, <3>1, <3>2
  <2>2. QED  BY <1>1, <2>1, ReturnClaims DEF TypeOK
<1>3. CallOk(t)'
  <2>1. pc'[t] = "returned"
    BY <1>1 DEF TypeOK
  <2>2. (Called(t) /\ Counts(t) /\ TriesOnce(t) /\ Fills(t) /\ GotGood(t))'
    <3>1. call[t] \in Calls
      BY BeforeReturn DEF Return
    <3>2. QED  BY <1>1, <2>1, <3>1
               DEF CallOk, Called, Counts, TriesOnce, Fills, GotGood, Active
  <2>3. (CountedFor(t) /\ Modest(t))'
    BY <1>1 DEF CallOk, CountedFor, Modest, Oversized, Left
  <2>4. Returned(t)'
    BY <1>1, ReturnVector DEF Returned
  <2>5. QED  BY <2>2, <2>3, <2>4 DEF CallOk
<1>4. \A u \in Threads \ {t} :
        /\ pc'[u] = pc[u] /\ call'[u] = call[u] /\ num'[u] = num[u]
        /\ tot'[u] = tot[u] /\ out'[u] = out[u] /\ got'[u] = got[u]
        /\ fails'[u] = fails[u]
  BY <1>1 DEF TypeOK
<1>5. QED  BY <1>1, <1>2, <1>3, <1>4, ReturnClaims, OneThread


-----------------------------------------------------------------------------
(* The invariant, and what follows from it. *)

LEMMA StepIInv == IInv /\ [Next]_vars => IInv'
<1> SUFFICES ASSUME IInv, [Next]_vars PROVE IInv'
  OBVIOUS
<1>1. CASE AdapterStep
  BY <1>1, CompleteKeeps DEF AdapterStep
<1>2. ASSUME NEW t \in Threads, NEW c \in Calls, Begin(t, c) PROVE IInv'
  BY <1>2, BeginKeeps
<1>3. ASSUME NEW t \in Threads, CallStep(t) PROVE IInv'
  BY <1>3, RoundKeeps, ExitsKeep, RoundOverrunsKeeps, ReturnKeeps DEF CallStep
<1>4. ASSUME NEW t \in Threads, RoundFails(t) PROVE IInv'
  BY <1>4, RoundFailsKeeps
<1>5. CASE UNCHANGED vars
  <2>1. /\ UNCHANGED <<cq, added, claimed, pc, frame>> /\ fate' = fate
    BY <1>5 DEF vars, frame
  <2>2. OverrunExplained' /\ fate' \in {"running", "exited", "corrupt"}
    BY <2>1 DEF IInv, OverrunExplained, Oversized, TypeOK, frame
  <2>3. QED  BY <2>1, <2>2, FateKeeps
<1>6. QED  BY <1>1, <1>2, <1>3, <1>4, <1>5 DEF Next

(* The invariant that the theorems about poll, try_poll and their with_wc  *)
(* forms rest on: how far each call in progress has come.                  *)
THEOREM Invariance == Spec => []IInv
BY InitIInv, StepIInv, PTL DEF Spec

(* Types: in particular, no thread loses count of its vector or its queue, *)
(* and the number claimed never goes below zero when calls give back.      *)
THEOREM TypeCorrect == Spec => []TypeOK
<1>1. IInv => TypeOK
  BY DEF IInv
<1>2. QED  BY <1>1, Invariance, PTL

(* Nothing a thread takes is miscounted, by num or by tot; a failed        *)
(* ibv_poll_cq is counted as a completion that is still to come.           *)
THEOREM AccountedAlways == Spec => []Accounted
<1>1. IInv => Accounted
  BY DEF IInv, CallOk, CountedFor, Accounted
<1>2. QED  BY <1>1, Invariance, PTL

(* No call takes a completion beyond those it was asked for.               *)
THEOREM TakesOnlyItsOwnAlways == Spec => []TakesOnlyItsOwn
<1>1. IInv => TakesOnlyItsOwn
  BY DEF IInv, CallOk, Modest, TakesOnlyItsOwn
<1>2. QED  BY <1>1, Invariance, PTL

(* A vector that poll_with_wc or try_poll_with_wc returned is exactly what *)
(* the call took from the queue, in order, and all of it is successful.    *)
THEOREM ReturnsWhatItTookAlways == Spec => []ReturnsWhatItTook
<1>1. IInv => ReturnsWhatItTook
  BY DEF IInv, CallOk, Returned, GotGood, ReturnsWhatItTook
<1>2. QED  BY <1>1, Invariance, PTL

(* Memory is overrun only as described in the property: by a try for more  *)
(* than kMaxPollCq, or by a poll_with_wc in which ibv_poll_cq failed.      *)
THEOREM OverrunExplainedAlways == Spec => []OverrunExplained
<1>1. IInv => OverrunExplained
  BY DEF IInv
<1>2. QED  BY <1>1, Invariance, PTL

(* A try that leaves its loop early (without a failure) has just emptied   *)
(* the queue: its batch was short of what it asked ibv_poll_cq for.        *)
LEMMA ShortBatchEmpties ==
  ASSUME IInv, NEW t \in Threads, Round(t), Breaks(t, Taken(t))
  PROVE  cq' = <<>>
<1>1. TypeOK /\ InLoop(t) /\ call[t].op \in Trying
  BY DEF IInv, Round, Breaks
<1>2. Len(cq) \in Nat
  BY <1>1, LenProperties DEF TypeOK
<1>3. Taken(t) < EntriesPolled(t)
  <2>1. EntriesToPoll(t) <= EntriesPolled(t)
    BY <1>1, BeforeRound
  <2>2. EntriesToPoll(t) \in Nat /\ EntriesPolled(t) \in Nat /\ Taken(t) \in Nat
    BY <1>1, <1>2, BatchTaken
  <2>3. QED  BY <2>1, <2>2 DEF Breaks
<1>4. Taken(t) = Len(cq)
  BY <1>1, <1>3, BatchTaken
<1>5. cq' = SubSeq(cq, Len(cq) + 1, Len(cq)) /\ cq' \in Seq(Cqe)
  BY <1>1, <1>4, BatchTaken DEF Round
<1>6. Len(SubSeq(cq, Len(cq) + 1, Len(cq))) = 0
  BY <1>2, SubSeqProperties DEF TypeOK
<1>7. QED  BY <1>5, <1>6, EmptySeq

LEMMA GivesUpStep ==
  ASSUME IInv, [Next]_vars, NEW t \in Threads,
         pc[t] = "looping", pc'[t] = "leaving", fails'[t] = fails[t]
  PROVE  cq' = <<>>
<1>1. TypeOK
  BY DEF IInv
<1>2. PICK u \in Threads : Round(u) /\ u = t
  <2>1. ASSUME NEW u \in Threads, NEW c \in Calls, Begin(u, c) PROVE FALSE
    BY <1>1, <2>1 DEF Begin, TypeOK
  <2>2. ASSUME NEW u \in Threads, Return(u) PROVE FALSE
    BY <1>1, <2>2 DEF Return, TypeOK
  <2>3. ASSUME NEW u \in Threads, RoundFails(u) PROVE FALSE
    <3>1. pc' = [pc EXCEPT ![u] = IF Breaks(u, -1) THEN "leaving" ELSE @]
          /\ fails' = [fails EXCEPT ![u] = @ + 1]
      BY <2>3 DEF RoundFails
    <3>2. u = t
      BY <1>1, <3>1 DEF TypeOK
    <3>3. fails'[t] = fails[t] + 1 /\ fails[t] \in Nat
      BY <1>1, <3>1, <3>2, ThreadTypes DEF TypeOK
    <3>4. QED  BY <3>3
  <2>4. pc' # pc
    OBVIOUS
  <2>5. PICK u \in Threads : Round(u)
    BY <2>1, <2>2, <2>3, <2>4
       DEF Next, vars, AdapterStep, Complete, CallStep, RoundPanics,
           RoundOverruns, ResizeThrows
  <2>6. u = t
    BY <1>1, <2>5 DEF Round, TypeOK
  <2>7. QED  BY <2>5, <2>6
<1>3. Breaks(t, Taken(t))
  BY <1>1, <1>2 DEF Round, TypeOK
<1>4. QED  BY <1>2, <1>3, ShortBatchEmpties

THEOREM GivesUpOnlyWhenEmptyAlways == Spec => GivesUpOnlyWhenEmpty
<1>1. IInv /\ [Next]_vars =>
        [\A t \in Threads :
           (pc[t] = "looping" /\ pc'[t] = "leaving" /\ fails'[t] = fails[t])
             => cq' = <<>>]_vars
  BY GivesUpStep
<1>2. QED  BY <1>1, Invariance, PTL DEF Spec, GivesUpOnlyWhenEmpty

-----------------------------------------------------------------------------
(* The loops implement CqContract, where ibv_poll_cq does not fail and no  *)
(* try is for more than kMaxPollCq.  Phase and Answered are what the       *)
(* refinement mapping makes of the threads.                                *)

Phase == [t \in Threads |-> CASE pc[t] = "looping" -> "busy"
                              [] pc[t] = "leaving" -> "short"
                              [] OTHER -> pc[t]]

Answered == [t \in Threads |-> IF pc[t] = "returned" THEN Reported(t) ELSE <<>>]

LEMMA PhaseOf ==
  ASSUME TypeOK, NEW t \in Threads
  PROVE  /\ Phase[t] = "busy" <=> pc[t] = "looping"
         /\ Phase[t] = "short" <=> pc[t] = "leaving"
         /\ Phase[t] \in {"idle", "returned"} <=> pc[t] \in {"idle", "returned"}
<1>1. pc[t] \in {"idle", "looping", "leaving", "returned"}
  BY ThreadTypes
<1>2. Phase[t] = CASE pc[t] = "looping" -> "busy"
                   [] pc[t] = "leaving" -> "short"
                   [] OTHER -> pc[t]
  BY DEF Phase
<1>3. QED  BY <1>1, <1>2

(* A step that changes pc at one thread changes Phase there only. *)
LEMMA PhaseStep ==
  ASSUME TypeOK, NEW t \in Threads,
         NEW s \in {"looping", "leaving", "returned"}, pc' = [pc EXCEPT ![t] = s]
  PROVE  Phase' = [Phase EXCEPT ![t] = CASE s = "looping" -> "busy"
                                         [] s = "leaving" -> "short"
                                         [] OTHER -> s]
BY DEF Phase, TypeOK

(* ... and Answered too, if it leaves what the others have alone. *)
LEMMA AnsweredStep ==
  ASSUME TypeOK, NEW t \in Threads,
         \A u \in Threads \ {t} :
           pc'[u] = pc[u] /\ call'[u] = call[u] /\ tot'[u] = tot[u] /\ out'[u] = out[u]
  PROVE  Answered' = [Answered EXCEPT
           ![t] = IF pc'[t] = "returned" THEN Reported(t)' ELSE <<>>]
<1>1. \A u \in Threads :
        Answered'[u] = IF pc'[u] = "returned" THEN Reported(u)' ELSE <<>>
  BY DEF Answered
<1>2. ASSUME NEW u \in Threads \ {t} PROVE Answered'[u] = Answered[u]
  <2>1. Answered[u] = IF pc[u] = "returned" THEN Reported(u) ELSE <<>>
    BY DEF Answered
  <2>2. Reported(u)' = Reported(u)
    BY DEF Reported
  <2>3. QED  BY <1>1, <2>1, <2>2
<1>3. DOMAIN Answered' = Threads /\ DOMAIN Answered = Threads
      /\ Answered' = [u \in Threads |-> Answered'[u]]
  BY DEF Answered
<1>4. QED  BY <1>1, <1>2, <1>3

(* The conditions under which the contract is met, on the invariant. *)
Reliable == MaxFails = 0 /\ \A n \in TryArgs : n <= K

LEMMA ReliableCalls ==
  ASSUME IInv, Reliable, NEW t \in Threads
  PROVE  /\ fails[t] = 0
         /\ pc[t] # "idle" => ~ Oversized(t)
         /\ fate # "corrupt"
<1>1. /\ TypeOK /\ OverrunExplained
      /\ \A u \in Threads : CallOk(u)
  BY DEF IInv
<1>2. ASSUME NEW u \in Threads PROVE fails[u] = 0
  BY <1>1, ThreadTypes DEF Reliable
<1>3. ASSUME NEW u \in Threads, pc[u] # "idle" PROVE ~ Oversized(u)
  <2>1. call[u] \in Calls
    BY <1>1, <1>3 DEF CallOk, Called
  <2>2. call[u].op \in Trying => call[u].arg \in TryArgs
    BY <2>1 DEF Calls, Trying, Blocking
  <2>3. K \in Nat /\ call[u].arg \in Nat
    BY <1>1, ThreadTypes, CompletionQueueAssumption
  <2>4. QED  BY <2>2, <2>3 DEF Oversized, Reliable
<1>4. fate # "corrupt"
  BY <1>1, <1>2, <1>3 DEF OverrunExplained
<1>5. QED  BY <1>2, <1>3, <1>4

(* A round of a call that is not oversized takes no more than it wants. *)
LEMMA WithinLeft ==
  ASSUME IInv, Reliable, NEW t \in Threads, InLoop(t)
  PROVE  /\ Taken(t) \in 0..Len(cq) /\ Len(cq) \in Nat
         /\ Taken(t) <= Left(t)
         /\ Len(got[t]) + Taken(t) <= call[t].arg
         /\ Taken(t) <= call[t].arg - Len(got[t])
<1>1. TypeOK /\ ~ Oversized(t) /\ fails[t] = 0
  BY ReliableCalls DEF IInv, InLoop
<1>2. /\ Len(cq) \in Nat /\ Taken(t) \in 0..Len(cq) /\ Left(t) \in Nat
      /\ call[t].arg \in Nat /\ Len(got[t]) \in Nat /\ num[t] \in Nat
      /\ tot[t] \in Int /\ K \in Nat
  BY <1>1, BatchTaken, BeforeRound, ThreadTypes, LenProperties,
     CompletionQueueAssumption DEF TypeOK
<1>3. EntriesPolled(t) \in Nat /\ Taken(t) <= EntriesPolled(t)
  BY <1>1, BatchTaken
<1>4. Taken(t) <= Left(t)
  <2>1. CASE call[t].op \in Blocking
    BY <1>1, <1>2, <1>3, <2>1, BatchTaken
  <2>2. CASE call[t].op \in Trying
    <3>1. call[t].arg <= K
      BY <1>1, <1>2, <2>2 DEF Oversized
    <3>2. /\ tot[t] = 0 /\ num[t] = call[t].arg
          /\ EntriesPolled(t) = call[t].arg
      BY <1>1, <2>2, <3>1, BeforeRound DEF Trying
    <3>3. QED  BY <1>2, <1>3, <3>2 DEF Left
  <2>3. QED  BY <2>1, <2>2, BeforeRound
<1>5. Len(got[t]) = call[t].arg - Left(t)
  BY <1>1, BeforeRound
<1>6. QED  BY <1>2, <1>4, <1>5

-----------------------------------------------------------------------------
(* Every step of the loops is a step of the contract. *)

LEMMA ContractInit == Init => Contract!Init
<1> SUFFICES ASSUME Init PROVE Contract!Init
  OBVIOUS
<1>1. /\ Phase = [t \in Threads |-> "idle"]
      /\ Answered = [t \in Threads |-> <<>>]
  BY DEF Init, Phase, Answered
<1>2. QED  BY <1>1 DEF Init, Contract!Init, Contract!NoAnswer, Phase, Answered

LEMMA CompleteIsComplete ==
  ASSUME NEW ok \in BOOLEAN, Complete(ok)
  PROVE  Contract!Complete(ok)
<1>1. Phase' = Phase /\ Answered' = Answered
  BY DEF Complete, frame, Phase, Answered, Reported
<1>2. QED  BY <1>1 DEF Complete, frame, Contract!Complete, Phase, Answered

LEMMA BeginIsAsk ==
  ASSUME IInv, NEW t \in Threads, NEW c \in Calls, Begin(t, c)
  PROVE  Contract!Ask(t, c)
<1>1. TypeOK
  BY DEF IInv
<1>2. /\ fate = "running" /\ pc[t] \in {"idle", "returned"}
      /\ pc' = [pc EXCEPT ![t] = "looping"]
      /\ call' = [call EXCEPT ![t] = c]
      /\ got' = [got EXCEPT ![t] = <<>>]
      /\ UNCHANGED <<cq, added, fate>>
  BY DEF Begin
<1>3. Phase' = [Phase EXCEPT ![t] = "busy"] /\ Phase[t] \in {"idle", "returned"}
  BY <1>1, <1>2, PhaseStep, PhaseOf
<1>4. Answered' = [Answered EXCEPT ![t] = <<>>]
  <2>1. \A u \in Threads \ {t} :
          pc'[u] = pc[u] /\ call'[u] = call[u] /\ tot'[u] = tot[u] /\ out'[u] = out[u]
    BY <1>1 DEF Begin, TypeOK
  <2>2. pc'[t] # "returned"
    BY <1>1, <1>2 DEF TypeOK
  <2>3. QED  BY <1>1, <2>1, <2>2, AnsweredStep
<1>5. QED
  BY <1>2, <1>3, <1>4 DEF Contract!Ask, Contract!NoAnswer, Phase, Answered

LEMMA RoundIsTake ==
  ASSUME IInv, Reliable, NEW t \in Threads, Round(t)
  PROVE  \E n \in 0..Len(cq) : Contract!Take(t, n)
<1>1. TypeOK /\ InLoop(t)
  BY DEF IInv, Round
<1>2. /\ fate = "running" /\ pc[t] = "looping"
      /\ cq' = SubSeq(cq, Taken(t) + 1, Len(cq))
      /\ got' = [got EXCEPT ![t] = @ \o SubSeq(cq, 1, Taken(t))]
      /\ pc' = [pc EXCEPT ![t] = IF Breaks(t, Taken(t)) THEN "leaving" ELSE @]
      /\ UNCHANGED <<added, fate, call>>
  BY DEF Round, InLoop, Batch
<1>3. \A i \in 1..Taken(t) : cq[i].ok
  BY <1>1, BatchTaken DEF Round, BatchFails
<1>4. /\ Taken(t) \in 0..Len(cq)
      /\ Len(got[t]) + Taken(t) <= call[t].arg
  BY <1>1, WithinLeft
<1>5. Phase[t] = "busy"
  BY <1>1, <1>2, PhaseOf
<1>6. \/ Phase' = Phase
      \/ /\ call[t].op \in {"try_poll", "try_poll_with_wc"}
         /\ cq' = <<>>
         /\ Phase' = [Phase EXCEPT ![t] = "short"]
  <2>1. CASE Breaks(t, Taken(t))
    <3>1. cq' = <<>> /\ call[t].op \in {"try_poll", "try_poll_with_wc"}
      BY <2>1, ShortBatchEmpties DEF Breaks, Trying
    <3>2. pc' = [pc EXCEPT ![t] = "leaving"]
      BY <1>2, <2>1
    <3>3. QED  BY <1>1, <3>1, <3>2, PhaseStep
  <2>2. CASE ~ Breaks(t, Taken(t))
    <3>1. pc' = pc
      BY <1>1, <1>2, <2>2 DEF TypeOK
    <3>2. QED  BY <3>1 DEF Phase
  <2>3. QED  BY <2>1, <2>2
<1>7. Answered' = Answered
  <2>1. \A u \in Threads \ {t} :
          pc'[u] = pc[u] /\ call'[u] = call[u] /\ tot'[u] = tot[u] /\ out'[u] = out[u]
    BY <1>1 DEF Round, Count, TypeOK
  <2>2. pc'[t] # "returned" /\ pc[t] # "returned"
    BY <1>1, <1>2 DEF TypeOK
  <2>3. Answered' = [Answered EXCEPT ![t] = <<>>]
    BY <1>1, <2>1, <2>2, AnsweredStep
  <2>4. Answered[t] = <<>> /\ Answered \in [Threads -> {Answered[u] : u \in Threads}]
    BY <2>2 DEF Answered
  <2>5. QED  BY <2>3, <2>4
<1>8. QED
  BY <1>2, <1>3, <1>4, <1>5, <1>6, <1>7 DEF Contract!Take, Phase, Answered

LEMMA ReturnIsGive ==
  ASSUME IInv, Reliable, NEW t \in Threads, Return(t)
  PROVE  Contract!Give(t)
<1>1. TypeOK /\ CallOk(t) /\ LoopDone(t)
  BY DEF IInv, Return
<1>2. /\ fate = "running" /\ pc' = [pc EXCEPT ![t] = "returned"]
      /\ UNCHANGED <<cq, added, fate, call, num, tot, got, fails>>
  BY DEF Return, LoopDone
<1>3. /\ Len(got[t]) \in Nat /\ call[t].arg \in Nat /\ Left(t) \in Int
      /\ tot[t] \in Int /\ fails[t] = 0
  BY <1>1, ThreadTypes, ReliableCalls
<1>4. \/ Phase[t] = "short"
      \/ Phase[t] = "busy" /\ Len(got[t]) = call[t].arg
  <2>1. CASE pc[t] = "leaving"
    BY <1>1, <2>1, PhaseOf
  <2>2. CASE pc[t] = "looping" /\ Left(t) <= 0
    <3>1. Len(got[t]) = call[t].arg - Left(t) + fails[t]
      BY <1>1 DEF CallOk, CountedFor
    <3>2. Len(got[t]) <= call[t].arg
      BY <1>1, <1>3, <2>2, ReliableCalls DEF CallOk, Modest
    <3>3. Phase[t] = "busy"
      BY <1>1, <2>2, PhaseOf
    <3>4. QED  BY <1>3, <2>2, <3>1, <3>2, <3>3
  <2>3. QED  BY <1>1, <2>1, <2>2 DEF LoopDone
<1>5. Phase' = [Phase EXCEPT ![t] = "returned"]
  BY <1>1, <1>2, PhaseStep
<1>6. Reported(t)' = Contract!Answer(call[t].op, got[t])
  <2>1. call'[t] = call[t] /\ tot'[t] = tot[t] /\ got'[t] = got[t]
    BY <1>2
  <2>2. call[t].op \in WithWc => out'[t] = got[t]
    BY <1>3, ReturnVector
  <2>3. call[t].op = "try_poll" => tot[t] = Len(got[t])
    BY <1>3, BeforeReturn DEF Return
  <2>4. QED  BY <2>1, <2>2, <2>3
             DEF Reported, WithWc, Contract!Answer, Contract!NoAnswer
<1>7. Answered' = [Answered EXCEPT ![t] = Contract!Answer(call[t].op, got[t])]
  <2>1. \A u \in Threads \ {t} :
          pc'[u] = pc[u] /\ call'[u] = call[u] /\ tot'[u] = tot[u] /\ out'[u] = out[u]
    BY <1>1, <1>2 DEF Return, TypeOK
  <2>2. pc'[t] = "returned"
    BY <1>1, <1>2 DEF TypeOK
  <2>3. QED  BY <1>1, <1>6, <2>1, <2>2, AnsweredStep
<1>8. QED  BY <1>2, <1>4, <1>5, <1>7 DEF Contract!Give, Phase, Answered

LEMMA PanicIsPanic ==
  ASSUME IInv, Reliable, NEW t \in Threads, RoundPanics(t)
  PROVE  Contract!Panic(t)
<1>1. /\ TypeOK /\ InLoop(t) /\ fate = "running" /\ pc[t] = "looping"
      /\ fate' = "exited" /\ BatchFails(t)
      /\ UNCHANGED <<cq, added, claimed, pc, frame>>
  BY DEF IInv, RoundPanics, InLoop
<1>2. PICK i \in 1..Taken(t) : ~ Batch(t)[i].ok
  BY <1>1 DEF BatchFails
<1>3. /\ i \in 1..Len(cq) /\ i <= call[t].arg - Len(got[t]) /\ ~ cq[i].ok
  <2>1. Batch(t)[i] = cq[i]
    BY <1>1, BatchTaken
  <2>2. call[t].arg \in Nat /\ Len(got[t]) \in Nat
    BY <1>1, ThreadTypes
  <2>3. QED  BY <1>1, <1>2, <2>1, <2>2, WithinLeft
<1>4. Phase[t] = "busy"
  BY <1>1, PhaseOf
<1>5. Phase' = Phase /\ Answered' = Answered
  BY <1>1 DEF frame, Phase, Answered, Reported
<1>6. QED  BY <1>1, <1>3, <1>4, <1>5 DEF frame, Contract!Panic, Phase, Answered

(* A call that met no failure has no negative count: resize does not throw. *)
LEMMA ResizeIsSafe ==
  ASSUME IInv, Reliable, NEW t \in Threads, ResizeThrows(t)
  PROVE  FALSE
<1>1. TypeOK /\ LoopDone(t) /\ call[t].op = "try_poll_with_wc" /\ tot[t] < 0
  BY DEF IInv, ResizeThrows
<1>2. tot[t] = Len(got[t]) /\ Len(got[t]) \in Nat
  BY <1>1, ReliableCalls, BeforeReturn, ThreadTypes
<1>3. QED  BY <1>1, <1>2

LEMMA ContractStep ==
  ASSUME IInv, Reliable, [Next]_vars
  PROVE  [Contract!Next]_(Contract!vars)
<1>1. CASE AdapterStep
  BY <1>1, CompleteIsComplete DEF AdapterStep, Contract!Next
<1>2. ASSUME NEW t \in Threads, NEW c \in Calls, Begin(t, c)
      PROVE  Contract!Next
  BY <1>2, BeginIsAsk DEF Contract!Next
<1>3. ASSUME NEW t \in Threads, CallStep(t) PROVE Contract!Next
  <2>1. CASE Round(t)
    <3>1. PICK n \in 0..Len(cq) : Contract!Take(t, n)
      BY <2>1, RoundIsTake
    <3>2. QED  BY <3>1 DEF Contract!Next
  <2>2. CASE RoundPanics(t)
    BY <2>2, PanicIsPanic DEF Contract!Next
  <2>3. CASE RoundOverruns(t)
    <3>1. InLoop(t) /\ (OverrunsWc(t) \/ OverrunsRet(t))
      BY <2>3 DEF RoundOverruns
    <3>2. Oversized(t) \/ fails[t] > 0
      BY <3>1, OverrunReasons
    <3>3. QED  BY <3>1, <3>2, ReliableCalls DEF InLoop
  <2>4. CASE Return(t)
    BY <2>4, ReturnIsGive DEF Contract!Next
  <2>5. CASE ResizeThrows(t)
    BY <2>5, ResizeIsSafe
  <2>6. QED  BY <1>3, <2>1, <2>2, <2>3, <2>4, <2>5 DEF CallStep
<1>4. ASSUME NEW t \in Threads, RoundFails(t) PROVE FALSE
  <2>1. fails[t] < MaxFails /\ fails[t] = 0
    BY <1>4, ReliableCalls DEF RoundFails
  <2>2. QED  BY <2>1 DEF Reliable
<1>5. CASE UNCHANGED vars
  <2>1. Phase' = Phase /\ Answered' = Answered
    BY <1>5 DEF vars, Phase, Answered, Reported
  <2>2. QED  BY <1>5, <2>1 DEF vars, Contract!vars, Phase, Answered
<1>6. QED  BY <1>1, <1>2, <1>3, <1>4, <1>5 DEF Next

(* The four loops implement CqContract, for any number of threads and      *)
(* completions, where ibv_poll_cq does not fail and no try is for more     *)
(* than kMaxPollCq: beyond that memory may be overrun (OverrunExplained).   *)
THEOREM MeetsContractAlways ==
  ASSUME MaxFails = 0, \A n \in TryArgs : n <= K
  PROVE  Spec => MeetsContract
<1>1. Reliable
  BY DEF Reliable
<1>2. IInv /\ [Next]_vars => [Contract!Next]_(Contract!vars)
  BY <1>1, ContractStep
<1>3. QED
  BY <1>2, ContractInit, Invariance, PTL DEF Spec, MeetsContract, Contract!Spec
=============================================================================
