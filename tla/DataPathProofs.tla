----------------------------- MODULE DataPathProofs -----------------------------
(***************************************************************************)
(* Proofs about DataPath, for any queue pairs, any completion queues and   *)
(* any depths: when a completion queue overruns, whoever shares a queue    *)
(* with whom.                                                              *)
(***************************************************************************)
EXTENDS DataPath, FiniteSetTheorems, FunctionTheorems, SequenceTheorems,
        WellFoundedInduction, TLAPS

Indexes(c) == 1..Len(cq[c])

(* The completion at place i is that of the notified send at[i], of which  *)
(* it gives back those not notified right before it, or of receive at[i].  *)
OfSend(c, at, i) ==
  LET w == cq[c][i] IN
  /\ w.op = "send" /\ SendCq[w.q] = c
  /\ at[i] <= ran[w.q] /\ sq[w.q][at[i]]
  /\ w.entries <= at[i]
  /\ w.entries < at[i] => sq[w.q][at[i] - w.entries]
  /\ \A k \in 1..(at[i] - 1) : k > at[i] - w.entries => ~ sq[w.q][k]

OfRecv(c, at, i) ==
  LET w == cq[c][i] IN
  /\ w.op = "recv" /\ RecvCq[w.q] = c
  /\ at[i] <= filled[w.q]
  /\ w.entries = 1

InOrder(c, at) ==
  \A i, j \in Indexes(c) :
    (i < j /\ cq[c][i].q = cq[c][j].q /\ cq[c][i].op = cq[c][j].op) => at[i] < at[j]

(* Every notified send executed, and every receive filled, has one. *)
AllSends(c, at) ==
  \A q \in QueuePairs : SendCq[q] = c =>
    \A k \in 1..ran[q] : sq[q][k] =>
      \E i \in Indexes(c) : cq[c][i].q = q /\ cq[c][i].op = "send" /\ at[i] = k

AllRecvs(c, at) ==
  \A q \in QueuePairs : RecvCq[q] = c =>
    \A k \in 1..filled[q] :
      \E i \in Indexes(c) : cq[c][i].q = q /\ cq[c][i].op = "recv" /\ at[i] = k

Tracks(c, at) ==
  /\ \A i \in Indexes(c) : OfSend(c, at, i) \/ OfRecv(c, at, i)
  /\ InOrder(c, at)
  /\ AllSends(c, at)
  /\ AllRecvs(c, at)

(* Each completion queue is in step with the queues that feed it. *)
InStepAt(c) == \E at \in [Indexes(c) -> 1..QpDepth] : Tracks(c, at)

InStep == \A c \in Cqs : InStepAt(c)

IInv ==
  /\ TypeOK
  /\ InStep
  /\ OverrunExplained

-----------------------------------------------------------------------------
(* Types and constants. *)

LEMMA Constants ==
  /\ QpDepth \in Nat /\ QpDepth > 0 /\ CqDepth \in Nat /\ CqDepth > 0
  /\ \A q \in QueuePairs : SendCq[q] \in Cqs /\ RecvCq[q] \in Cqs
BY DataPathAssumption

LEMMA QueueTypes ==
  ASSUME TypeOK, NEW q \in QueuePairs
  PROVE  /\ sq[q] \in Seq(BOOLEAN) /\ Len(sq[q]) \in Nat /\ Len(sq[q]) <= QpDepth
         /\ \A i \in 1..Len(sq[q]) : sq[q][i] \in BOOLEAN
         /\ ran[q] \in Nat /\ ran[q] <= Len(sq[q]) /\ ran[q] <= QpDepth
         /\ rq[q] \in Nat /\ rq[q] <= QpDepth
         /\ filled[q] \in Nat /\ filled[q] <= rq[q]
<1>1. /\ sq[q] \in Seq(BOOLEAN) /\ Len(sq[q]) <= QpDepth
      /\ ran[q] \in Nat /\ ran[q] <= Len(sq[q])
      /\ rq[q] \in 0..QpDepth /\ filled[q] \in 0..QpDepth /\ filled[q] <= rq[q]
  BY DEF TypeOK
<1>2. Len(sq[q]) \in Nat
  BY <1>1, LenProperties
<1>3. \A i \in 1..Len(sq[q]) : sq[q][i] \in BOOLEAN
  BY <1>1, ElementOfSeq
<1>4. QED  BY <1>1, <1>2, <1>3, Constants

LEMMA CqTypes ==
  ASSUME TypeOK, NEW c \in Cqs
  PROVE  /\ cq[c] \in Seq(Cqe) /\ Len(cq[c]) \in Nat /\ Len(cq[c]) <= CqDepth
         /\ \A i \in Indexes(c) :
              /\ cq[c][i].q \in QueuePairs /\ cq[c][i].op \in Directions
              /\ cq[c][i].entries \in 1..QpDepth /\ cq[c][i].entries \in Nat
<1>1. cq[c] \in Seq(Cqe) /\ Len(cq[c]) <= CqDepth
  BY DEF TypeOK
<1>2. Len(cq[c]) \in Nat
  BY <1>1, LenProperties
<1>3. \A i \in Indexes(c) : cq[c][i] \in Cqe
  BY <1>1, ElementOfSeq DEF Indexes
<1>4. \A w \in Cqe : /\ w.q \in QueuePairs /\ w.op \in Directions
                     /\ w.entries \in 1..QpDepth /\ w.entries \in Nat
  BY Constants DEF Cqe
<1>5. QED  BY <1>1, <1>2, <1>3, <1>4

(* A set of numbers up to n that is not empty has a least and a largest. *)
LEMMA LeastIn ==
  ASSUME NEW n \in Nat, NEW S, S \subseteq 0..n, S # {}
  PROVE  \E m \in S : \A k \in S : m <= k
<1> DEFINE R == OpToRel(<, Nat)
<1>1. IsWellFoundedOn(R, Nat)
  BY NatLessThanWellFounded
<1>2. S \subseteq Nat
  OBVIOUS
<1>3. PICK m \in S : \A k \in S : ~ (<<k, m>> \in R)
  <2> HIDE DEF R
  <2>1. QED  BY <1>1, <1>2, WFMin
<1>4. ASSUME NEW k \in S PROVE m <= k
  <2>1. m \in Nat /\ k \in Nat
    BY <1>2
  <2>2. ~ (k < m)
    BY <1>3, <2>1 DEF OpToRel
  <2>3. QED  BY <2>1, <2>2
<1>5. QED  BY <1>4

LEMMA LargestIn ==
  ASSUME NEW n \in Nat, NEW S, S \subseteq 0..n, S # {}
  PROVE  Max(S) \in S /\ \A k \in S : Max(S) >= k
<1> DEFINE T == {n - k : k \in S}
<1>1. T \subseteq 0..n /\ T # {}
  <2>1. \A k \in S : n - k \in 0..n
    OBVIOUS
  <2>2. QED  BY <2>1
<1>2. PICK m \in T : \A k \in T : m <= k
  <2> HIDE DEF T
  <2>1. QED  BY <1>1, LeastIn
<1>3. PICK x \in S : m = n - x
  OBVIOUS
<1>4. \A k \in S : x >= k
  <2> SUFFICES ASSUME NEW k \in S PROVE x >= k
    OBVIOUS
  <2>1. n - x <= n - k
    BY <1>2, <1>3
  <2>2. x \in 0..n /\ k \in 0..n
    OBVIOUS
  <2>3. QED  BY <2>1, <2>2
<1>5. QED  BY <1>4 DEF Max

(* What the adapter has executed ends with sends that are not notified. *)
LEMMA LastNotifiedIs ==
  ASSUME TypeOK, NEW q \in QueuePairs
  PROVE  /\ LastNotified(q) \in 0..ran[q]
         /\ LastNotified(q) # 0 => sq[q][LastNotified(q)]
         /\ \A k \in 1..ran[q] : k > LastNotified(q) => ~ sq[q][k]
<1> DEFINE S == {0} \cup {i \in 1..ran[q] : sq[q][i]}
<1>1. S \subseteq 0..ran[q] /\ S # {} /\ ran[q] \in Nat
  BY QueueTypes
<1>2. Max(S) \in S /\ \A k \in S : Max(S) >= k
  <2> HIDE DEF S
  <2>1. QED  BY <1>1, LargestIn
<1>3. LastNotified(q) = Max(S)
  BY DEF LastNotified
<1>4. Max(S) \in 0..ran[q]
  BY <1>1, <1>2
<1>5. QED  BY <1>1, <1>2, <1>3, <1>4

-----------------------------------------------------------------------------
(* Steps that a completion queue does not notice. *)

LEMMA TracksStable ==
  ASSUME TypeOK, NEW c \in Cqs, NEW at \in [Indexes(c) -> 1..QpDepth],
         Tracks(c, at), cq'[c] = cq[c],
         \A q \in QueuePairs : SendCq[q] = c =>
           /\ ran'[q] \in Nat /\ ran[q] <= ran'[q]
           /\ \A k \in 1..ran[q] : sq'[q][k] = sq[q][k]
           /\ \A k \in 1..ran'[q] : k > ran[q] => ~ sq'[q][k],
         \A q \in QueuePairs : RecvCq[q] = c => filled'[q] = filled[q]
  PROVE  at \in [Indexes(c)' -> 1..QpDepth] /\ Tracks(c, at)'
<1>1. Indexes(c)' = Indexes(c)
  BY DEF Indexes
<1>2. ASSUME NEW i \in Indexes(c) PROVE OfSend(c, at, i)' \/ OfRecv(c, at, i)'
  <2>1. /\ cq[c][i].q \in QueuePairs /\ cq[c][i].entries \in Nat
        /\ cq[c][i].entries >= 1 /\ at[i] \in Nat /\ at[i] >= 1
    BY <1>2, CqTypes, Constants
  <2>2. CASE OfSend(c, at, i)
    <3> DEFINE q == cq[c][i].q
    <3>1. /\ ran[q] \in Nat /\ ran'[q] \in Nat /\ ran[q] <= ran'[q]
          /\ \A k \in 1..ran[q] : sq'[q][k] = sq[q][k]
      BY <2>1, <2>2, QueueTypes DEF OfSend
    <3>2. /\ cq[c][i].op = "send" /\ SendCq[q] = c
          /\ at[i] <= ran[q] /\ sq[q][at[i]]
          /\ cq[c][i].entries <= at[i]
          /\ cq[c][i].entries < at[i] => sq[q][at[i] - cq[c][i].entries]
          /\ \A k \in 1..(at[i] - 1) : k > at[i] - cq[c][i].entries => ~ sq[q][k]
      BY <2>2 DEF OfSend
    <3> HIDE DEF q
    <3>3. \A k \in 1..at[i] : k \in 1..ran[q]
      BY <2>1, <3>1, <3>2
    <3>4. /\ sq'[q][at[i]]
          /\ cq[c][i].entries < at[i] => sq'[q][at[i] - cq[c][i].entries]
          /\ \A k \in 1..(at[i] - 1) : k > at[i] - cq[c][i].entries => ~ sq'[q][k]
      BY <2>1, <3>1, <3>2, <3>3
    <3>5. at[i] <= ran'[q]
      BY <2>1, <3>1, <3>2
    <3>6. QED  BY <3>2, <3>4, <3>5 DEF OfSend, q
  <2>3. CASE OfRecv(c, at, i)
    BY <2>1, <2>3 DEF OfRecv
  <2>4. QED  BY <1>2, <2>2, <2>3 DEF Tracks
<1>3. InOrder(c, at)'
  BY <1>1 DEF Tracks, InOrder
<1>4. AllSends(c, at)'
  <2> SUFFICES ASSUME NEW q \in QueuePairs, SendCq[q] = c,
                      NEW k \in 1..ran'[q], sq'[q][k]
               PROVE  \E i \in Indexes(c) : /\ cq[c][i].q = q /\ cq[c][i].op = "send"
                                            /\ at[i] = k
    BY <1>1 DEF AllSends
  <2>1. k \in 1..ran[q] /\ sq[q][k]
    BY QueueTypes
  <2>2. QED  BY <2>1 DEF Tracks, AllSends
<1>5. AllRecvs(c, at)'
  BY <1>1 DEF Tracks, AllRecvs
<1>6. QED  BY <1>1, <1>2, <1>3, <1>4, <1>5 DEF Tracks

LEMMA StableAt ==
  ASSUME TypeOK, NEW c \in Cqs, InStepAt(c), cq'[c] = cq[c],
         \A q \in QueuePairs : SendCq[q] = c =>
           /\ ran'[q] \in Nat /\ ran[q] <= ran'[q]
           /\ \A k \in 1..ran[q] : sq'[q][k] = sq[q][k]
           /\ \A k \in 1..ran'[q] : k > ran[q] => ~ sq'[q][k],
         \A q \in QueuePairs : RecvCq[q] = c => filled'[q] = filled[q]
  PROVE  InStepAt(c)'
<1>1. PICK at \in [Indexes(c) -> 1..QpDepth] : Tracks(c, at)
  BY DEF InStepAt
<1>2. at \in [Indexes(c)' -> 1..QpDepth] /\ Tracks(c, at)'
  BY <1>1, TracksStable
<1>3. QED  BY <1>2 DEF InStepAt

(* A step that no completion queue notices. *)
LEMMA InStepStable ==
  ASSUME TypeOK, InStep, cq' = cq, filled' = filled,
         \A q \in QueuePairs :
           /\ ran'[q] \in Nat /\ ran[q] <= ran'[q]
           /\ \A k \in 1..ran[q] : sq'[q][k] = sq[q][k]
           /\ \A k \in 1..ran'[q] : k > ran[q] => ~ sq'[q][k]
  PROVE  InStep'
<1> SUFFICES ASSUME NEW c \in Cqs PROVE InStepAt(c)'
  BY DEF InStep
<1>1. InStepAt(c) /\ cq'[c] = cq[c]
  BY DEF InStep
<1>2. QED  BY <1>1, StableAt

-----------------------------------------------------------------------------
(* A completion is added. *)

(* The list t has one completion more than s, which is w, and its place p. *)
Longer(s, w, t, at, p, new, at2) ==
  /\ new \in Nat /\ at2 \in [1..Len(t) -> 1..QpDepth]
  /\ 1..Len(t) = 1..Len(s) \cup {new}
  /\ \A i \in 1..Len(s) : t[i] = s[i] /\ at2[i] = at[i] /\ i < new /\ i \in Nat
  /\ t[new] = w /\ at2[new] = p

LEMMA Appended ==
  ASSUME NEW s \in Seq(Cqe), NEW w \in Cqe, NEW t, t = Append(s, w),
         NEW at \in [1..Len(s) -> 1..QpDepth], NEW p \in 1..QpDepth
  PROVE  \E new, at2 : Longer(s, w, t, at, p, new, at2)
<1> DEFINE n == Len(s) + 1
           m == [i \in 1..n |-> IF i <= Len(s) THEN at[i] ELSE p]
<1>1. /\ t \in Seq(Cqe) /\ Len(t) = n /\ Len(s) \in Nat
      /\ \A i \in 1..Len(s) : t[i] = s[i]
      /\ t[n] = w
  BY LenProperties, AppendProperties
<1>2. /\ n \in Nat /\ 1..n = 1..Len(s) \cup {n}
      /\ \A i \in 1..Len(s) : i < n /\ i \in Nat
  BY <1>1
<1>3. /\ m \in [1..n -> 1..QpDepth] /\ m[n] = p
      /\ \A i \in 1..Len(s) : m[i] = at[i]
  BY <1>1
<1> HIDE DEF n, m
<1>4. Longer(s, w, t, at, p, n, m)
  BY <1>1, <1>2, <1>3 DEF Longer
<1>5. QED  BY <1>4

(* The completion of the notified send that comes next. *)
LEMMA SendTracks ==
  ASSUME TypeOK, NEW q \in QueuePairs, NEW c \in Cqs, c = SendCq[q],
         NEW at \in [Indexes(c) -> 1..QpDepth], Tracks(c, at),
         ran[q] + 1 <= Len(sq[q]), sq[q][ran[q] + 1],
         ran' = [ran EXCEPT ![q] = ran[q] + 1],
         cq'[c] = Append(cq[c], Completion(q, "send", (ran[q] + 1) - LastNotified(q))),
         UNCHANGED <<sq, filled>>
  PROVE  InStepAt(c)'
<1>1. sq' = sq /\ filled' = filled
  OBVIOUS
<1>2. PICK next \in 1..QpDepth : next = ran[q] + 1
  BY QueueTypes, Constants
<1>3. /\ ran[q] \in Nat /\ next \in Nat
      /\ ran'[q] = next /\ \A r \in QueuePairs : r # q => ran'[r] = ran[r]
  BY <1>2, QueueTypes DEF TypeOK
<1>4. /\ LastNotified(q) \in 0..ran[q]
      /\ LastNotified(q) # 0 => sq[q][LastNotified(q)]
      /\ \A k \in 1..ran[q] : k > LastNotified(q) => ~ sq[q][k]
  BY LastNotifiedIs
<1>5. PICK w \in Cqe : /\ w.q = q /\ w.op = "send"
                       /\ w.entries = next - LastNotified(q)
                       /\ cq'[c] = Append(cq[c], w)
  <2>1. next - LastNotified(q) \in 1..QpDepth
    BY <1>2, <1>3, <1>4, Constants
  <2>2. Completion(q, "send", next - LastNotified(q)) \in Cqe
    BY <2>1 DEF Completion, Cqe, Directions
  <2>3. \A e \in Nat : /\ Completion(q, "send", e).q = q
                      /\ Completion(q, "send", e).op = "send"
                      /\ Completion(q, "send", e).entries = e
    BY DEF Completion
  <2>4. next - LastNotified(q) \in Nat /\ ran[q] + 1 = next
    BY <1>2, <2>1, Constants
  <2>5. cq'[c] = Append(cq[c], Completion(q, "send", next - LastNotified(q)))
    BY <1>3, <1>4, <2>4
  <2>6. QED  BY <2>2, <2>3, <2>4, <2>5
<1>6. PICK new \in Nat, at2 \in [Indexes(c)' -> 1..QpDepth] :
      /\ Indexes(c)' = Indexes(c) \cup {new}
      /\ \A i \in Indexes(c) :
           cq'[c][i] = cq[c][i] /\ at2[i] = at[i] /\ i < new /\ i \in Nat
      /\ cq'[c][new] = w /\ at2[new] = next
  <2>1. PICK s, t :
          /\ s \in Seq(Cqe) /\ s = cq[c] /\ t = cq'[c] /\ t = Append(s, w)
          /\ at \in [1..Len(s) -> 1..QpDepth]
    BY <1>5, CqTypes DEF Indexes
  <2>2. PICK new, at2 : Longer(s, w, t, at, next, new, at2)
    BY <2>1, Appended
  <2>3. /\ new \in Nat /\ at2 \in [Indexes(c)' -> 1..QpDepth]
        /\ Indexes(c)' = Indexes(c) \cup {new}
        /\ \A i \in Indexes(c) :
             cq'[c][i] = cq[c][i] /\ at2[i] = at[i] /\ i < new /\ i \in Nat
        /\ cq'[c][new] = w /\ at2[new] = next
    BY <2>1, <2>2 DEF Longer, Indexes
  <2>4. QED  BY <2>3 DEF Indexes
<1>7. ASSUME NEW i \in Indexes(c) PROVE OfSend(c, at2, i)' \/ OfRecv(c, at2, i)'
  <2>1. cq[c][i].q \in QueuePairs /\ at[i] \in Nat
    BY <1>7, CqTypes, Constants
  <2>2. ran[cq[c][i].q] \in Nat /\ ran'[cq[c][i].q] \in Nat
        /\ ran[cq[c][i].q] <= ran'[cq[c][i].q]
    BY <1>2, <1>3, <2>1, QueueTypes
  <2>3. CASE OfSend(c, at, i)
    <3>1. at[i] <= ran[cq[c][i].q]
      BY <2>3 DEF OfSend
    <3>2. at[i] <= ran'[cq[c][i].q]
      BY <2>1, <2>2, <3>1
    <3>3. QED  BY <1>6, <1>7, <1>1, <2>3, <3>2 DEF OfSend
  <2>4. CASE OfRecv(c, at, i)
    BY <1>6, <1>7, <1>1, <2>4 DEF OfRecv
  <2>5. QED  BY <1>7, <2>3, <2>4 DEF Tracks
<1>8. OfSend(c, at2, new)'
  <2>1. /\ next - w.entries = LastNotified(q) /\ w.entries <= next
        /\ w.entries < next => LastNotified(q) # 0
        /\ next <= ran'[q] /\ sq[q][next]
    BY <1>2, <1>3, <1>4, <1>5
  <2>2. \A k \in 1..(next - 1) : k > LastNotified(q) => ~ sq[q][k]
    BY <1>2, <1>3, <1>4, SMTT(30)
  <2>3. /\ cq'[c][new].q = q /\ cq'[c][new].op = "send" /\ at2[new] = next
        /\ cq'[c][new].entries = w.entries
    BY <1>5, <1>6
  <2>4. QED  BY <1>4, <1>1, <2>1, <2>2, <2>3 DEF OfSend
<1>9. InOrder(c, at2)'
  <2> SUFFICES ASSUME NEW i \in Indexes(c)', NEW j \in Indexes(c)', i < j,
                      cq'[c][i].q = cq'[c][j].q, cq'[c][i].op = cq'[c][j].op
               PROVE  at2[i] < at2[j]
    BY DEF InOrder
  <2>1. i \in Indexes(c)
    BY <1>6
  <2>2. CASE j \in Indexes(c)
    BY <1>6, <2>1, <2>2 DEF Tracks, InOrder
  <2>3. CASE j = new
    <3>1. cq'[c][i] = cq[c][i] /\ cq'[c][j] = w
      BY <1>6, <2>1, <2>3
    <3>2. cq[c][i].q = q /\ cq[c][i].op = "send"
      BY <1>5, <3>1
    <3>3. OfSend(c, at, i) \/ OfRecv(c, at, i)
      BY <2>1 DEF Tracks
    <3>4. at[i] <= ran[q]
      BY <3>2, <3>3 DEF OfSend, OfRecv
    <3>5. at[i] \in Nat
      BY <2>1, Constants
    <3>6. QED  BY <1>2, <1>3, <1>6, <2>1, <2>3, <3>4, <3>5
  <2>4. QED  BY <1>6, <2>2, <2>3
<1>10. AllSends(c, at2)'
  <2> SUFFICES ASSUME NEW r \in QueuePairs, SendCq[r] = c,
                      NEW k \in 1..ran'[r], sq'[r][k]
               PROVE  \E i \in Indexes(c)' : /\ cq'[c][i].q = r /\ cq'[c][i].op = "send"
                                             /\ at2[i] = k
    BY DEF AllSends
  <2>1. CASE r = q /\ k = next
    BY <1>5, <1>6, <2>1
  <2>2. CASE ~ (r = q /\ k = next)
    <3>1. k \in 1..ran[r] /\ sq[r][k]
      BY <1>1, <1>2, <1>3, <2>2, QueueTypes
    <3>2. PICK i \in Indexes(c) :
            cq[c][i].q = r /\ cq[c][i].op = "send" /\ at[i] = k
      BY <3>1 DEF Tracks, AllSends
    <3>3. QED  BY <1>6, <3>2
  <2>3. QED  BY <2>1, <2>2
<1>11. AllRecvs(c, at2)'
  <2> SUFFICES ASSUME NEW r \in QueuePairs, RecvCq[r] = c, NEW k \in 1..filled'[r]
               PROVE  \E i \in Indexes(c)' : /\ cq'[c][i].q = r /\ cq'[c][i].op = "recv"
                                             /\ at2[i] = k
    BY DEF AllRecvs
  <2>1. k \in 1..filled[r]
    BY <1>1
  <2>2. PICK i \in Indexes(c) : cq[c][i].q = r /\ cq[c][i].op = "recv" /\ at[i] = k
    BY <2>1 DEF Tracks, AllRecvs
  <2>3. QED  BY <1>6, <2>2
<1>12. Tracks(c, at2)'
  BY <1>6, <1>7, <1>8, <1>9, <1>10, <1>11 DEF Tracks
<1>13. QED  BY <1>6, <1>12 DEF InStepAt

(* The completion of the receive that is filled next. *)
LEMMA RecvTracks ==
  ASSUME TypeOK, NEW q \in QueuePairs, NEW c \in Cqs, c = RecvCq[q],
         NEW at \in [Indexes(c) -> 1..QpDepth], Tracks(c, at),
         filled[q] < rq[q],
         filled' = [filled EXCEPT ![q] = @ + 1],
         cq'[c] = Append(cq[c], Completion(q, "recv", 1)),
         UNCHANGED <<sq, ran>>
  PROVE  InStepAt(c)'
<1>1. sq' = sq /\ ran' = ran
  OBVIOUS
<1>2. PICK next \in 1..QpDepth : next = filled[q] + 1
  BY QueueTypes, Constants
<1>3. /\ filled[q] \in Nat /\ next \in Nat
      /\ filled'[q] = next /\ \A r \in QueuePairs : r # q => filled'[r] = filled[r]
  BY <1>2, QueueTypes DEF TypeOK
<1>4. PICK w \in Cqe : /\ w.q = q /\ w.op = "recv" /\ w.entries = 1
                       /\ cq'[c] = Append(cq[c], w)
  BY Constants DEF Completion, Cqe, Directions
<1>5. PICK new \in Nat, at2 \in [Indexes(c)' -> 1..QpDepth] :
      /\ Indexes(c)' = Indexes(c) \cup {new}
      /\ \A i \in Indexes(c) :
           cq'[c][i] = cq[c][i] /\ at2[i] = at[i] /\ i < new /\ i \in Nat
      /\ cq'[c][new] = w /\ at2[new] = next
  <2>1. PICK s, t :
          /\ s \in Seq(Cqe) /\ s = cq[c] /\ t = cq'[c] /\ t = Append(s, w)
          /\ at \in [1..Len(s) -> 1..QpDepth]
    BY <1>4, CqTypes DEF Indexes
  <2>2. PICK new, at2 : Longer(s, w, t, at, next, new, at2)
    BY <2>1, Appended
  <2>3. /\ new \in Nat /\ at2 \in [Indexes(c)' -> 1..QpDepth]
        /\ Indexes(c)' = Indexes(c) \cup {new}
        /\ \A i \in Indexes(c) :
             cq'[c][i] = cq[c][i] /\ at2[i] = at[i] /\ i < new /\ i \in Nat
        /\ cq'[c][new] = w /\ at2[new] = next
    BY <2>1, <2>2 DEF Longer, Indexes
  <2>4. QED  BY <2>3 DEF Indexes
<1>6. ASSUME NEW i \in Indexes(c) PROVE OfSend(c, at2, i)' \/ OfRecv(c, at2, i)'
  <2>1. cq[c][i].q \in QueuePairs /\ at[i] \in Nat
    BY <1>6, CqTypes, Constants
  <2>2. filled[cq[c][i].q] \in Nat /\ filled'[cq[c][i].q] \in Nat
        /\ filled[cq[c][i].q] <= filled'[cq[c][i].q]
    BY <1>2, <1>3, <2>1, QueueTypes
  <2>3. CASE OfRecv(c, at, i)
    <3>1. at[i] <= filled'[cq[c][i].q]
      BY <2>1, <2>2, <2>3 DEF OfRecv
    <3>2. QED  BY <1>5, <1>6, <2>3, <3>1 DEF OfRecv
  <2>4. CASE OfSend(c, at, i)
    BY <1>5, <1>6, <1>1, <2>4 DEF OfSend
  <2>5. QED  BY <1>6, <2>3, <2>4 DEF Tracks
<1>7. OfRecv(c, at2, new)'
  <2>1. /\ cq'[c][new].q = q /\ cq'[c][new].op = "recv" /\ at2[new] = next
        /\ cq'[c][new].entries = 1
    BY <1>4, <1>5
  <2>2. next <= filled'[q]
    BY <1>3
  <2>3. QED  BY <2>1, <2>2 DEF OfRecv
<1>8. InOrder(c, at2)'
  <2> SUFFICES ASSUME NEW i \in Indexes(c)', NEW j \in Indexes(c)', i < j,
                      cq'[c][i].q = cq'[c][j].q, cq'[c][i].op = cq'[c][j].op
               PROVE  at2[i] < at2[j]
    BY DEF InOrder
  <2>1. i \in Indexes(c)
    BY <1>5
  <2>2. CASE j \in Indexes(c)
    BY <1>5, <2>1, <2>2 DEF Tracks, InOrder
  <2>3. CASE j = new
    <3>1. cq[c][i].q = q /\ cq[c][i].op = "recv"
      BY <1>4, <1>5, <2>1, <2>3
    <3>2. OfSend(c, at, i) \/ OfRecv(c, at, i)
      BY <2>1 DEF Tracks
    <3>3. at[i] <= filled[q]
      BY <3>1, <3>2 DEF OfSend, OfRecv
    <3>4. at[i] \in Nat
      BY <2>1, Constants
    <3>5. QED  BY <1>2, <1>3, <1>5, <2>1, <2>3, <3>3, <3>4
  <2>4. QED  BY <1>5, <2>2, <2>3
<1>9. AllRecvs(c, at2)'
  <2> SUFFICES ASSUME NEW r \in QueuePairs, RecvCq[r] = c, NEW k \in 1..filled'[r]
               PROVE  \E i \in Indexes(c)' : /\ cq'[c][i].q = r /\ cq'[c][i].op = "recv"
                                             /\ at2[i] = k
    BY DEF AllRecvs
  <2>1. CASE r = q /\ k = next
    BY <1>4, <1>5, <2>1
  <2>2. CASE ~ (r = q /\ k = next)
    <3>1. k \in 1..filled[r]
      BY <1>2, <1>3, <2>2, QueueTypes
    <3>2. PICK i \in Indexes(c) :
            cq[c][i].q = r /\ cq[c][i].op = "recv" /\ at[i] = k
      BY <3>1 DEF Tracks, AllRecvs
    <3>3. QED  BY <1>5, <3>2
  <2>3. QED  BY <2>1, <2>2
<1>10. AllSends(c, at2)'
  <2> SUFFICES ASSUME NEW r \in QueuePairs, SendCq[r] = c,
                      NEW k \in 1..ran'[r], sq'[r][k]
               PROVE  \E i \in Indexes(c)' : /\ cq'[c][i].q = r /\ cq'[c][i].op = "send"
                                             /\ at2[i] = k
    BY DEF AllSends
  <2>1. k \in 1..ran[r] /\ sq[r][k]
    BY <1>1
  <2>2. PICK i \in Indexes(c) : cq[c][i].q = r /\ cq[c][i].op = "send" /\ at[i] = k
    BY <2>1 DEF Tracks, AllSends
  <2>3. QED  BY <1>5, <2>2
<1>11. Tracks(c, at2)'
  BY <1>5, <1>6, <1>7, <1>8, <1>9, <1>10 DEF Tracks
<1>12. QED  BY <1>5, <1>11 DEF InStepAt

-----------------------------------------------------------------------------
(* The first completion is polled. *)

LEMMA Tailed ==
  ASSUME TypeOK, NEW c \in Cqs, cq[c] # <<>>, cq'[c] = Tail(cq[c])
  PROVE  /\ 1 \in Indexes(c) /\ Head(cq[c]) = cq[c][1] /\ Len(cq[c]) \in Nat
         /\ cq'[c] \in Seq(Cqe) /\ Len(cq'[c]) = Len(cq[c]) - 1
         /\ Indexes(c)' = 1..(Len(cq[c]) - 1)
         /\ \A i \in 1..(Len(cq[c]) - 1) :
              i + 1 \in Indexes(c) /\ cq'[c][i] = cq[c][i + 1]
<1>1. cq[c] \in Seq(Cqe) /\ Len(cq[c]) \in Nat
  BY CqTypes
<1>2. Len(cq[c]) # 0
  BY <1>1, EmptySeq
<1>3. /\ cq'[c] \in Seq(Cqe) /\ Len(cq'[c]) = Len(cq[c]) - 1
      /\ \A i \in 1..(Len(cq[c]) - 1) : cq'[c][i] = cq[c][i + 1]
  BY <1>1, HeadTailProperties
<1>4. Head(cq[c]) = cq[c][1]
  BY <1>1, <1>2
<1>5. /\ Indexes(c) = 1..Len(cq[c])
      /\ Indexes(c)' = 1..(Len(cq[c]) - 1)
  BY <1>3 DEF Indexes
<1>6. 1 \in Indexes(c) /\ \A i \in 1..(Len(cq[c]) - 1) : i + 1 \in Indexes(c)
  BY <1>1, <1>2, <1>5
<1>7. QED  BY <1>1, <1>3, <1>4, <1>5, <1>6

(* What a send's completion at the front gives back is all up to its send. *)
LEMMA FirstSend ==
  ASSUME TypeOK, NEW c \in Cqs, NEW at \in [Indexes(c) -> 1..QpDepth], Tracks(c, at),
         1 \in Indexes(c), cq[c][1].op = "send"
  PROVE  /\ SendCq[cq[c][1].q] = c
         /\ cq[c][1].entries = at[1] /\ at[1] \in 1..ran[cq[c][1].q]
         /\ sq[cq[c][1].q][at[1]]
<1> DEFINE q == cq[c][1].q
           n == cq[c][1].entries
<1>1. /\ q \in QueuePairs /\ n \in Nat /\ n >= 1 /\ at[1] \in Nat /\ at[1] >= 1
      /\ ran[q] \in Nat
  BY CqTypes, QueueTypes, Constants
<1>2. OfSend(c, at, 1)
  BY DEF Tracks, OfRecv
<1>3. /\ SendCq[q] = c /\ at[1] <= ran[q] /\ sq[q][at[1]] /\ n <= at[1]
      /\ n < at[1] => sq[q][at[1] - n]
  BY <1>2 DEF OfSend
<1> HIDE DEF n
<1>4. ~ n < at[1]
  <2> SUFFICES ASSUME n < at[1] PROVE FALSE
    OBVIOUS
  <2>1. at[1] - n \in 1..ran[q] /\ sq[q][at[1] - n] /\ at[1] - n < at[1]
    BY <1>1, <1>3
  <2>2. PICK i \in Indexes(c) :
          cq[c][i].q = q /\ cq[c][i].op = "send" /\ at[i] = at[1] - n
    BY <1>1, <1>3, <2>1 DEF Tracks, AllSends
  <2>3. i # 1
    BY <2>1, <2>2
  <2>4. 1 < i
    BY <2>2, <2>3, CqTypes DEF Indexes
  <2>5. at[1] < at[i]
    BY <2>2, <2>4 DEF Tracks, InOrder
  <2>6. QED  BY <1>1, <2>1, <2>2, <2>5
<1>5. n = at[1]
  BY <1>1, <1>3, <1>4
<1>6. QED  BY <1>1, <1>3, <1>5 DEF n

(* ... and no later one reaches back to it. *)
LEMMA LaterSends ==
  ASSUME TypeOK, NEW c \in Cqs, NEW at \in [Indexes(c) -> 1..QpDepth], Tracks(c, at),
         1 \in Indexes(c), cq[c][1].op = "send",
         NEW i \in Indexes(c), i # 1, cq[c][i].q = cq[c][1].q, cq[c][i].op = "send"
  PROVE  /\ at[1] < at[i] /\ at[1] <= at[i] - cq[c][i].entries
<1> DEFINE q == cq[c][1].q
           b == at[i] - cq[c][i].entries
<1>1. /\ at[1] \in Nat /\ at[1] >= 1 /\ at[i] \in Nat /\ i \in Nat /\ i > 1
      /\ cq[c][i].entries \in Nat
  <2>1. i \in 1..Len(cq[c]) /\ Len(cq[c]) \in Nat
    BY CqTypes DEF Indexes
  <2>2. at[1] \in 1..QpDepth /\ at[i] \in 1..QpDepth
    OBVIOUS
  <2>3. cq[c][i].entries \in Nat
    BY CqTypes
  <2>4. QED  BY <2>1, <2>2, <2>3, Constants
<1>2. at[1] < at[i]
  BY <1>1 DEF Tracks, InOrder
<1>3. sq[q][at[1]]
  BY FirstSend
<1>4. \A k \in 1..(at[i] - 1) : k > b => ~ sq[q][k]
  BY DEF Tracks, OfSend, OfRecv
<1>5. at[1] \in 1..(at[i] - 1)
  BY <1>1, <1>2
<1>6. ~ at[1] > b
  BY <1>3, <1>4, <1>5
<1>7. QED  BY <1>1, <1>2, <1>6

(* The queue of the completion moves up by n places. *)
LEMMA SendPolled ==
  ASSUME TypeOK, NEW c \in Cqs, NEW at \in [Indexes(c) -> 1..QpDepth], Tracks(c, at),
         cq[c] # <<>>, cq'[c] = Tail(cq[c]), cq[c][1].op = "send",
         NEW q \in QueuePairs, q = cq[c][1].q, NEW n \in Nat, n = at[1],
         ran' = [ran EXCEPT ![q] = @ - n],
         \A r \in QueuePairs : r # q => sq'[r] = sq[r],
         \A k \in 1..(ran[q] - n) : sq'[q][k] = sq[q][k + n],
         filled' = filled
  PROVE  InStepAt(c)'
<1>1. /\ 1 \in Indexes(c) /\ Len(cq[c]) \in Nat
      /\ Indexes(c)' = 1..(Len(cq[c]) - 1)
      /\ \A i \in 1..(Len(cq[c]) - 1) : i + 1 \in Indexes(c) /\ cq'[c][i] = cq[c][i + 1]
      /\ \A i \in Indexes(c) : i \in Nat /\ (i # 1 => i - 1 \in 1..(Len(cq[c]) - 1))
  BY Tailed DEF Indexes
<1>2. /\ SendCq[q] = c /\ n \in 1..ran[q] /\ sq[q][n]
      /\ ran[q] \in Nat /\ ran'[q] = ran[q] - n
      /\ \A r \in QueuePairs : r # q => ran'[r] = ran[r]
  BY <1>1, FirstSend, QueueTypes DEF TypeOK
<1>3. \A i \in Indexes(c) :
        /\ cq[c][i].q \in QueuePairs /\ cq[c][i].entries \in Nat
        /\ cq[c][i].entries >= 1 /\ at[i] \in Nat /\ at[i] >= 1 /\ at[i] <= QpDepth
  BY CqTypes, Constants
<1> DEFINE Mine(i) == cq[c][i].q = q /\ cq[c][i].op = "send"
<1>4. \A i \in Indexes(c) : (i # 1 /\ Mine(i)) =>
        n < at[i] /\ n <= at[i] - cq[c][i].entries
  BY <1>1, LaterSends
<1>5. PICK D, at2 :
        /\ D = 1..(Len(cq[c]) - 1)
        /\ at2 = [i \in D |-> IF Mine(i + 1) THEN at[i + 1] - n ELSE at[i + 1]]
  OBVIOUS
<1>6. D = Indexes(c)'
  BY <1>1, <1>5
<1>7. \A i \in D : /\ i \in Nat /\ i + 1 \in Indexes(c) /\ i + 1 # 1
                   /\ cq'[c][i] = cq[c][i + 1]
                   /\ Mine(i + 1) => at2[i] = at[i + 1] - n
                   /\ ~ Mine(i + 1) => at2[i] = at[i + 1]
  BY <1>1, <1>5
<1>8. at2 \in [D -> 1..QpDepth]
  <2>1. \A i \in D : at2[i] \in 1..QpDepth
    BY <1>3, <1>4, <1>7, Constants
  <2>2. QED  BY <1>5, <2>1
<1>9. ASSUME NEW i \in D PROVE OfSend(c, at2, i)' \/ OfRecv(c, at2, i)'
  <2>1. PICK j \in Indexes(c) : j = i + 1 /\ j # 1 /\ cq'[c][i] = cq[c][j]
    BY <1>7, <1>9
  <2>2. CASE Mine(j)
    <3>1. /\ at[j] <= ran[q] /\ sq[q][at[j]]
          /\ cq[c][j].entries <= at[j]
          /\ cq[c][j].entries < at[j] => sq[q][at[j] - cq[c][j].entries]
          /\ \A k \in 1..(at[j] - 1) : k > at[j] - cq[c][j].entries => ~ sq[q][k]
      BY <2>2 DEF Tracks, OfSend, OfRecv
    <3>2. PICK p \in Nat, e \in Nat :
            /\ p = at[j] - n /\ e = cq[c][j].entries /\ at2[i] = p
            /\ p >= 1 /\ n <= at[j] - e /\ e >= 1
      BY <1>3, <1>4, <1>7, <1>9, <2>1, <2>2
    <3>3. p <= ran'[q] /\ e <= p /\ p \in 1..(ran[q] - n)
      <4>1. at[j] \in Nat /\ e \in Nat /\ n \in Nat /\ ran[q] \in Nat
        BY <1>2, <1>3
      <4>2. p <= ran[q] - n
        BY <3>1, <3>2, <4>1
      <4>3. e <= p
        BY <3>2, <4>1
      <4>4. QED  BY <1>2, <3>2, <4>1, <4>2, <4>3
    <3>4. /\ at[j] = p + n /\ at[j] - e = p + n - e
          /\ at[j] \in Nat /\ n >= 1 /\ ran[q] \in Nat
      <4>1. at[j] \in Nat /\ n >= 1 /\ ran[q] \in Nat
        BY <1>2, <1>3
      <4>2. at[j] = p + n
        BY <3>2, <4>1
      <4>3. at[j] - e = p + n - e
        BY <4>2
      <4>4. QED  BY <4>1, <4>2, <4>3
    <3>5. sq'[q][p]
      <4>1. sq'[q][p] = sq[q][p + n]
        BY <3>3
      <4>2. QED  BY <3>1, <3>4, <4>1
    <3>6. e < p => sq'[q][p - e]
      <4> SUFFICES ASSUME e < p PROVE sq'[q][p - e]
        OBVIOUS
      <4>1. p - e \in Nat /\ p - e >= 1 /\ p - e <= p
        BY <3>2, SMTT(30)
      <4>2. p - e \in 1..(ran[q] - n)
        BY <3>3, <3>4, <4>1
      <4>3. PICK d \in 1..(ran[q] - n) : d = p - e
        BY <4>2
      <4>4. d + n = at[j] - e
        BY <3>4, <4>3
      <4>5. e < at[j]
        BY <3>4
      <4>6. sq'[q][d] = sq[q][d + n]
        OBVIOUS
      <4>7. sq[q][at[j] - e]
        BY <3>1, <3>2, <4>5
      <4>8. QED  BY <4>3, <4>6, <4>7, <4>4
    <3>7. ASSUME NEW k \in 1..(p - 1), k > p - e PROVE ~ sq'[q][k]
      <4>1. k \in Nat /\ k >= 1 /\ k < p /\ k \in 1..(ran[q] - n)
        BY <3>3, <3>4
      <4>2. PICK m \in Nat : m = k + n
        BY <4>1
      <4>3. m \in 1..(at[j] - 1) /\ m > at[j] - e
        BY <3>7, <3>4, <4>1, <4>2, SMTT(30)
      <4>4. sq'[q][k] = sq[q][m]
        BY <4>1, <4>2
      <4>5. QED  BY <3>1, <3>2, <4>3, <4>4
    <3>8. /\ cq'[c][i].q = q /\ cq'[c][i].op = "send" /\ cq'[c][i].entries = e
          /\ at2[i] = p
      BY <2>1, <2>2, <3>2
    <3>9. QED  BY <1>2, <3>3, <3>5, <3>6, <3>7, <3>8 DEF OfSend
  <2>3. CASE ~ Mine(j) /\ OfSend(c, at, j)
    <3>1. /\ cq[c][j].q # q /\ cq[c][j].q \in QueuePairs /\ at2[i] = at[j]
      BY <1>3, <1>7, <1>9, <2>1, <2>3 DEF OfSend
    <3>2. sq'[cq[c][j].q] = sq[cq[c][j].q] /\ ran'[cq[c][j].q] = ran[cq[c][j].q]
      BY <1>2, <3>1
    <3>3. PICK s \in QueuePairs : s = cq[c][j].q
      BY <3>1
    <3>4. /\ cq'[c][i].q = s /\ cq'[c][i].op = cq[c][j].op
          /\ cq'[c][i].entries = cq[c][j].entries
          /\ sq'[s] = sq[s] /\ ran'[s] = ran[s] /\ at2[i] = at[j]
      BY <2>1, <3>1, <3>2, <3>3
    <3>5. /\ cq[c][j].op = "send" /\ SendCq[s] = c
          /\ at[j] <= ran[s] /\ sq[s][at[j]]
          /\ cq[c][j].entries <= at[j]
          /\ cq[c][j].entries < at[j] => sq[s][at[j] - cq[c][j].entries]
          /\ \A k \in 1..(at[j] - 1) : k > at[j] - cq[c][j].entries => ~ sq[s][k]
      BY <2>3, <3>3 DEF OfSend
    <3>6. QED  BY <3>4, <3>5 DEF OfSend
  <2>4. CASE OfRecv(c, at, j)
    <3>1. at2[i] = at[j] /\ filled' = filled
      BY <1>7, <1>9, <2>1, <2>4 DEF OfRecv
    <3>2. QED  BY <2>1, <2>4, <3>1 DEF OfRecv
  <2>5. QED  BY <2>2, <2>3, <2>4 DEF Tracks
<1>10. InOrder(c, at2)'
  <2> SUFFICES ASSUME NEW i \in D, NEW j \in D, i < j,
                      cq'[c][i].q = cq'[c][j].q, cq'[c][i].op = cq'[c][j].op
               PROVE  at2[i] < at2[j]
    BY <1>1, <1>5 DEF InOrder
  <2>1. /\ i + 1 \in Indexes(c) /\ j + 1 \in Indexes(c) /\ i + 1 < j + 1
        /\ cq[c][i + 1].q = cq[c][j + 1].q /\ cq[c][i + 1].op = cq[c][j + 1].op
    <3>1. i \in Nat /\ j \in Nat /\ i + 1 < j + 1
      BY <1>7
    <3>2. cq'[c][i] = cq[c][i + 1] /\ cq'[c][j] = cq[c][j + 1]
      BY <1>7
    <3>3. QED  BY <1>7, <3>1, <3>2
  <2>2. at[i + 1] < at[j + 1]
    BY <2>1 DEF Tracks, InOrder
  <2>3. at[i + 1] \in Nat /\ at[j + 1] \in Nat
    BY <1>3, <2>1
  <2>4. CASE Mine(i + 1)
    <3>1. at2[i] = at[i + 1] - n /\ at2[j] = at[j + 1] - n
      BY <1>7, <2>1, <2>4
    <3>2. QED  BY <2>2, <2>3, <3>1
  <2>5. CASE ~ Mine(i + 1)
    <3>1. at2[i] = at[i + 1] /\ at2[j] = at[j + 1]
      BY <1>7, <2>1, <2>5
    <3>2. QED  BY <2>2, <3>1
  <2>6. QED  BY <2>4, <2>5
<1>11. AllSends(c, at2)'
  <2> SUFFICES ASSUME NEW r \in QueuePairs, SendCq[r] = c,
                      NEW k \in 1..ran'[r], sq'[r][k]
               PROVE  \E i \in Indexes(c)' : /\ cq'[c][i].q = r /\ cq'[c][i].op = "send"
                                             /\ at2[i] = k
    BY DEF AllSends
  <2>1. CASE r = q
    <3>1. k \in 1..(ran[q] - n) /\ k + n \in 1..ran[q] /\ k # 0 /\ k \in Nat
      BY <1>2, <2>1
    <3>2. sq[q][k + n]
      BY <2>1, <3>1
    <3>3. PICK m \in 1..ran[q] : m = k + n
      BY <3>1
    <3>4. PICK j \in Indexes(c) :
            cq[c][j].q = q /\ cq[c][j].op = "send" /\ at[j] = m
      <4>1. AllSends(c, at) /\ SendCq[q] = c /\ sq[q][m]
        BY <1>2, <3>2, <3>3 DEF Tracks
      <4>2. QED  BY <4>1 DEF AllSends
    <3>5. j # 1
      BY <3>1, <3>3, <3>4
    <3>6. PICK i \in D : j = i + 1
      BY <1>1, <1>5, <3>4, <3>5
    <3>7. at2[i] = k /\ cq'[c][i].q = r /\ cq'[c][i].op = "send"
      <4>1. /\ Mine(i + 1) /\ at[i + 1] = k + n /\ cq'[c][i] = cq[c][i + 1]
            /\ at2[i] = at[i + 1] - n
        BY <1>7, <3>3, <3>4, <3>6
      <4>2. at2[i] = k
        BY <3>1, <4>1
      <4>3. QED  BY <2>1, <4>1, <4>2
    <3>8. QED  BY <1>6, <3>7
  <2>2. CASE r # q
    <3>1. k \in 1..ran[r] /\ sq[r][k]
      BY <1>2, <2>2
    <3>2. PICK j \in Indexes(c) :
            cq[c][j].q = r /\ cq[c][j].op = "send" /\ at[j] = k
      BY <3>1 DEF Tracks, AllSends
    <3>3. j # 1
      BY <2>2, <3>2
    <3>4. PICK i \in D : j = i + 1
      BY <1>1, <1>5, <3>2, <3>3
    <3>5. ~ Mine(i + 1)
      BY <2>2, <3>2, <3>4
    <3>6. cq'[c][i] = cq[c][i + 1] /\ at2[i] = at[i + 1]
      BY <1>7, <3>4, <3>5
    <3>7. cq'[c][i] = cq[c][j] /\ at2[i] = k
      BY <3>2, <3>4, <3>6
    <3>8. i \in Indexes(c)' /\ cq'[c][i].q = r /\ cq'[c][i].op = "send"
      BY <1>6, <3>2, <3>7
    <3>9. QED  BY <3>7, <3>8
  <2>3. QED  BY <2>1, <2>2
<1>12. AllRecvs(c, at2)'
  <2> SUFFICES ASSUME NEW r \in QueuePairs, RecvCq[r] = c,
                      NEW k \in 1..filled'[r]
               PROVE  \E i \in Indexes(c)' : /\ cq'[c][i].q = r /\ cq'[c][i].op = "recv"
                                             /\ at2[i] = k
    BY DEF AllRecvs
  <2>1. k \in 1..filled[r]
    OBVIOUS
  <2>2. PICK j \in Indexes(c) : cq[c][j].q = r /\ cq[c][j].op = "recv" /\ at[j] = k
    BY <2>1 DEF Tracks, AllRecvs
  <2>3. j # 1
    BY <2>2
  <2>4. PICK i \in D : j = i + 1
    BY <1>1, <1>5, <2>2, <2>3
  <2>5. cq'[c][i] = cq[c][j] /\ at2[i] = k
    BY <1>7, <2>2, <2>4
  <2>6. QED  BY <1>6, <2>2, <2>5
<1>13. Tracks(c, at2)' /\ at2 \in [Indexes(c)' -> 1..QpDepth]
  BY <1>1, <1>5, <1>8, <1>9, <1>10, <1>11, <1>12 DEF Tracks
<1>14. QED  BY <1>13 DEF InStepAt

(* A receive's completion at the front is that of the oldest receive. *)
LEMMA FirstRecv ==
  ASSUME TypeOK, NEW c \in Cqs, NEW at \in [Indexes(c) -> 1..QpDepth], Tracks(c, at),
         1 \in Indexes(c), cq[c][1].op = "recv"
  PROVE  /\ RecvCq[cq[c][1].q] = c
         /\ cq[c][1].entries = 1 /\ at[1] = 1 /\ filled[cq[c][1].q] >= 1
<1> DEFINE q == cq[c][1].q
<1>1. /\ q \in QueuePairs /\ at[1] \in Nat /\ at[1] >= 1 /\ filled[q] \in Nat
  BY CqTypes, QueueTypes, Constants
<1>2. RecvCq[q] = c /\ at[1] <= filled[q] /\ cq[c][1].entries = 1
  BY DEF Tracks, OfSend, OfRecv
<1>3. filled[q] >= 1 /\ 1 \in 1..filled[q]
  BY <1>1, <1>2
<1>4. PICK i \in Indexes(c) : cq[c][i].q = q /\ cq[c][i].op = "recv" /\ at[i] = 1
  BY <1>1, <1>2, <1>3 DEF Tracks, AllRecvs
<1>5. CASE i = 1
  BY <1>2, <1>3, <1>4, <1>5
<1>6. CASE i # 1
  <2>1. i \in 1..Len(cq[c]) /\ Len(cq[c]) \in Nat
    BY CqTypes DEF Indexes
  <2>2. 1 < i
    BY <1>6, <2>1
  <2>3. at[1] < at[i]
    BY <1>4, <2>2 DEF Tracks, InOrder
  <2>4. QED  BY <1>1, <1>4, <2>3
<1>7. QED  BY <1>5, <1>6

LEMMA RecvPolled ==
  ASSUME TypeOK, NEW c \in Cqs, NEW at \in [Indexes(c) -> 1..QpDepth], Tracks(c, at),
         cq[c] # <<>>, cq'[c] = Tail(cq[c]), cq[c][1].op = "recv",
         NEW q \in QueuePairs, q = cq[c][1].q,
         filled' = [filled EXCEPT ![q] = @ - 1],
         sq' = sq, ran' = ran
  PROVE  InStepAt(c)'
<1>1. /\ 1 \in Indexes(c) /\ Len(cq[c]) \in Nat
      /\ Indexes(c)' = 1..(Len(cq[c]) - 1)
      /\ \A i \in 1..(Len(cq[c]) - 1) : i + 1 \in Indexes(c) /\ cq'[c][i] = cq[c][i + 1]
      /\ \A i \in Indexes(c) : i \in Nat /\ (i # 1 => i - 1 \in 1..(Len(cq[c]) - 1))
  BY Tailed DEF Indexes
<1>2. /\ RecvCq[q] = c /\ at[1] = 1
      /\ filled[q] \in Nat /\ filled'[q] = filled[q] - 1
      /\ \A r \in QueuePairs : r # q => filled'[r] = filled[r]
  BY <1>1, FirstRecv, QueueTypes DEF TypeOK
<1>3. \A i \in Indexes(c) : at[i] \in Nat /\ at[i] >= 1 /\ at[i] <= QpDepth
  BY Constants
<1> DEFINE Mine(i) == cq[c][i].q = q /\ cq[c][i].op = "recv"
<1>4. \A i \in Indexes(c) : (i # 1 /\ Mine(i)) => 1 < at[i]
  <2> SUFFICES ASSUME NEW i \in Indexes(c), i # 1, Mine(i) PROVE 1 < at[i]
    OBVIOUS
  <2>1. i \in 1..Len(cq[c])
    BY DEF Indexes
  <2>2. 1 < i
    BY <1>1, <2>1
  <2>3. at[1] < at[i]
    BY <1>1, <2>2 DEF Tracks, InOrder
  <2>4. QED  BY <1>2, <2>3
<1>5. PICK D, at2 :
        /\ D = 1..(Len(cq[c]) - 1)
        /\ at2 = [i \in D |-> IF Mine(i + 1) THEN at[i + 1] - 1 ELSE at[i + 1]]
  OBVIOUS
<1>6. D = Indexes(c)'
  BY <1>1, <1>5
<1>7. \A i \in D : /\ i \in Nat /\ i + 1 \in Indexes(c) /\ i + 1 # 1
                   /\ cq'[c][i] = cq[c][i + 1]
                   /\ Mine(i + 1) => at2[i] = at[i + 1] - 1
                   /\ ~ Mine(i + 1) => at2[i] = at[i + 1]
  BY <1>1, <1>5
<1>8. at2 \in [D -> 1..QpDepth]
  <2>1. \A i \in D : at2[i] \in 1..QpDepth
    BY <1>3, <1>4, <1>7, Constants
  <2>2. QED  BY <1>5, <2>1
<1>9. ASSUME NEW i \in D PROVE OfSend(c, at2, i)' \/ OfRecv(c, at2, i)'
  <2>1. PICK j \in Indexes(c) : j = i + 1 /\ j # 1 /\ cq'[c][i] = cq[c][j]
    BY <1>7, <1>9
  <2>2. CASE Mine(j)
    <3>1. /\ at[j] <= filled[q] /\ cq[c][j].entries = 1
      BY <2>2 DEF Tracks, OfSend, OfRecv
    <3>2. at2[i] = at[j] - 1
      BY <1>7, <2>1, <2>2
    <3>3. at2[i] <= filled'[q]
      BY <1>2, <1>3, <3>1, <3>2
    <3>4. QED  BY <1>2, <2>1, <2>2, <3>1, <3>3 DEF OfRecv
  <2>3. CASE ~ Mine(j) /\ OfRecv(c, at, j)
    <3>1. /\ cq[c][j].q # q /\ cq[c][j].q \in QueuePairs /\ at2[i] = at[j]
      BY <1>7, <2>1, <2>3, CqTypes DEF OfRecv
    <3>2. filled'[cq[c][j].q] = filled[cq[c][j].q]
      BY <1>2, <3>1
    <3>3. QED  BY <2>1, <2>3, <3>1, <3>2 DEF OfRecv
  <2>4. CASE OfSend(c, at, j)
    <3>1. at2[i] = at[j]
      BY <1>7, <2>1, <2>4 DEF OfSend
    <3>2. QED  BY <2>1, <2>4, <3>1 DEF OfSend
  <2>5. QED  BY <2>2, <2>3, <2>4 DEF Tracks
<1>10. InOrder(c, at2)'
  <2> SUFFICES ASSUME NEW i \in D, NEW j \in D, i < j,
                      cq'[c][i].q = cq'[c][j].q, cq'[c][i].op = cq'[c][j].op
               PROVE  at2[i] < at2[j]
    BY <1>1, <1>5 DEF InOrder
  <2>1. /\ i + 1 \in Indexes(c) /\ j + 1 \in Indexes(c) /\ i + 1 < j + 1
        /\ cq[c][i + 1].q = cq[c][j + 1].q /\ cq[c][i + 1].op = cq[c][j + 1].op
    <3>1. i \in Nat /\ j \in Nat /\ i + 1 < j + 1
      BY <1>7
    <3>2. cq'[c][i] = cq[c][i + 1] /\ cq'[c][j] = cq[c][j + 1]
      BY <1>7
    <3>3. QED  BY <1>7, <3>1, <3>2
  <2>2. at[i + 1] < at[j + 1]
    BY <2>1 DEF Tracks, InOrder
  <2>3. at[i + 1] \in Nat /\ at[j + 1] \in Nat
    BY <1>3, <2>1
  <2>4. CASE Mine(i + 1)
    <3>1. at2[i] = at[i + 1] - 1 /\ at2[j] = at[j + 1] - 1
      BY <1>7, <2>1, <2>4
    <3>2. QED  BY <2>2, <2>3, <3>1
  <2>5. CASE ~ Mine(i + 1)
    <3>1. at2[i] = at[i + 1] /\ at2[j] = at[j + 1]
      BY <1>7, <2>1, <2>5
    <3>2. QED  BY <2>2, <3>1
  <2>6. QED  BY <2>4, <2>5
<1>11. AllSends(c, at2)'
  <2> SUFFICES ASSUME NEW r \in QueuePairs, SendCq[r] = c,
                      NEW k \in 1..ran'[r], sq'[r][k]
               PROVE  \E i \in Indexes(c)' : /\ cq'[c][i].q = r /\ cq'[c][i].op = "send"
                                             /\ at2[i] = k
    BY DEF AllSends
  <2>1. k \in 1..ran[r] /\ sq[r][k]
    OBVIOUS
  <2>2. PICK j \in Indexes(c) : cq[c][j].q = r /\ cq[c][j].op = "send" /\ at[j] = k
    BY <2>1 DEF Tracks, AllSends
  <2>3. j # 1
    BY <2>2
  <2>4. PICK i \in D : j = i + 1
    BY <1>1, <1>5, <2>2, <2>3
  <2>5. cq'[c][i] = cq[c][j] /\ at2[i] = k
    BY <1>7, <2>2, <2>4
  <2>6. QED  BY <1>6, <2>2, <2>5
<1>12. AllRecvs(c, at2)'
  <2> SUFFICES ASSUME NEW r \in QueuePairs, RecvCq[r] = c,
                      NEW k \in 1..filled'[r]
               PROVE  \E i \in Indexes(c)' : /\ cq'[c][i].q = r /\ cq'[c][i].op = "recv"
                                             /\ at2[i] = k
    BY DEF AllRecvs
  <2>1. CASE r = q
    <3>1. k + 1 \in 1..filled[q] /\ k # 0 /\ k \in Nat
      BY <1>2, <2>1
    <3>2. PICK j \in Indexes(c) : Mine(j) /\ at[j] = k + 1
      BY <1>2, <3>1 DEF Tracks, AllRecvs
    <3>3. j # 1
      BY <1>2, <3>1, <3>2
    <3>4. PICK i \in D : j = i + 1
      BY <1>1, <1>5, <3>2, <3>3
    <3>5. /\ Mine(i + 1) /\ at[i + 1] = k + 1 /\ cq'[c][i] = cq[c][i + 1]
          /\ at2[i] = at[i + 1] - 1
      BY <1>7, <3>2, <3>4
    <3>6. at2[i] = k
      BY <3>1, <3>5
    <3>7. QED  BY <1>6, <2>1, <3>5, <3>6
  <2>2. CASE r # q
    <3>1. k \in 1..filled[r]
      BY <1>2, <2>2
    <3>2. PICK j \in Indexes(c) :
            cq[c][j].q = r /\ cq[c][j].op = "recv" /\ at[j] = k
      BY <3>1 DEF Tracks, AllRecvs
    <3>3. j # 1
      BY <2>2, <3>2
    <3>4. PICK i \in D : j = i + 1
      BY <1>1, <1>5, <3>2, <3>3
    <3>5. cq'[c][i] = cq[c][j] /\ at2[i] = k
      BY <1>7, <2>2, <3>2, <3>4
    <3>6. QED  BY <1>6, <3>2, <3>5
  <2>3. QED  BY <2>1, <2>2
<1>13. Tracks(c, at2)' /\ at2 \in [Indexes(c)' -> 1..QpDepth]
  BY <1>1, <1>5, <1>8, <1>9, <1>10, <1>11, <1>12 DEF Tracks
<1>14. QED  BY <1>13 DEF InStepAt

-----------------------------------------------------------------------------
(* A completion queue overruns only with more due than it holds. *)

LEMMA DueFinite ==
  ASSUME NEW c \in Cqs
  PROVE  IsFiniteSet(Due(c))
<1>1. IsFiniteSet(Directions)
  <2>1. IsFiniteSet({"send"}) /\ IsFiniteSet({"recv"})
    BY FS_Singleton
  <2>2. Directions = {"send"} \cup {"recv"}
    BY DEF Directions
  <2>3. QED  BY <2>1, <2>2, FS_Union
<1>2. IsFiniteSet(QueuePairs) /\ IsFiniteSet(1..QpDepth)
  BY DataPathAssumption, Constants, FS_Interval
<1>3. IsFiniteSet(Directions \X QueuePairs)
  BY <1>1, <1>2, FS_Product
<1>4. IsFiniteSet((Directions \X QueuePairs) \X (1..QpDepth))
  BY <1>2, <1>3, FS_Product
<1> DEFINE f == [d \in Due(c) |-> <<<<d[1], d[2]>>, d[3]>>]
<1>5. f \in Injection(Due(c), (Directions \X QueuePairs) \X (1..QpDepth))
  <2>1. f \in [Due(c) -> (Directions \X QueuePairs) \X (1..QpDepth)]
    BY DEF Due
  <2>2. ASSUME NEW a \in Due(c), NEW b \in Due(c), f[a] = f[b] PROVE a = b
    <3>1. a \in Directions \X QueuePairs \X (1..QpDepth)
          /\ b \in Directions \X QueuePairs \X (1..QpDepth)
      BY DEF Due
    <3>2. a[1] = b[1] /\ a[2] = b[2] /\ a[3] = b[3]
      BY <2>2
    <3>3. QED  BY <3>1, <3>2
  <2>3. QED  BY <2>1, <2>2, Fun_IsInj
<1>6. QED  BY <1>4, <1>5, FS_Injection

(* What is due includes what the queue holds. *)
LEMMA MoreDue ==
  ASSUME TypeOK, NEW c \in Cqs, NEW at \in [Indexes(c) -> 1..QpDepth], Tracks(c, at),
         NEW x \in Due(c),
         \A i \in Indexes(c) : x # <<cq[c][i].op, cq[c][i].q, at[i]>>
  PROVE  Len(cq[c]) < Cardinality(Due(c))
<1> DEFINE f == [i \in Indexes(c) |-> <<cq[c][i].op, cq[c][i].q, at[i]>>]
           T == Due(c) \ {x}
<1>1. \A i \in Indexes(c) :
        <<cq[c][i].op, cq[c][i].q, at[i]>> \in Due(c)
  <2> SUFFICES ASSUME NEW i \in Indexes(c)
               PROVE  /\ cq[c][i].op \in Directions /\ cq[c][i].q \in QueuePairs
                      /\ at[i] \in 1..QpDepth
                      /\ Feeds(c, cq[c][i].op, cq[c][i].q, at[i])
    BY DEF Due
  <2>1. /\ cq[c][i].op \in Directions /\ cq[c][i].q \in QueuePairs
        /\ at[i] \in 1..QpDepth /\ at[i] \in Nat
    BY CqTypes, Constants
  <2>2. CASE OfSend(c, at, i)
    <3>1. at[i] <= Len(sq[cq[c][i].q])
      BY <2>1, <2>2, QueueTypes DEF OfSend
    <3>2. QED  BY <2>1, <2>2, <3>1 DEF OfSend, Feeds
  <2>3. CASE OfRecv(c, at, i)
    <3>1. at[i] <= rq[cq[c][i].q]
      BY <2>1, <2>3, QueueTypes DEF OfRecv
    <3>2. QED  BY <2>1, <2>3, <3>1 DEF OfRecv, Feeds
  <2>4. QED  BY <2>2, <2>3 DEF Tracks
<1>2. f \in [Indexes(c) -> T]
  BY <1>1
<1>3. ASSUME NEW i \in Indexes(c), NEW j \in Indexes(c), f[i] = f[j] PROVE i = j
  <2>1. cq[c][i].op = cq[c][j].op /\ cq[c][i].q = cq[c][j].q /\ at[i] = at[j]
    BY <1>3
  <2>2. at[i] \in Nat /\ at[j] \in Nat /\ i \in Int /\ j \in Int
    BY Constants DEF Indexes
  <2>3. ~ i < j /\ ~ j < i
    BY <2>1, <2>2 DEF Tracks, InOrder
  <2>4. QED  BY <2>2, <2>3
<1>4. f \in Injection(Indexes(c), T)
  BY <1>2, <1>3, Fun_IsInj
<1>5. /\ IsFiniteSet(T) /\ Cardinality(T) = Cardinality(Due(c)) - 1
      /\ Cardinality(Due(c)) \in Nat
  BY DueFinite, FS_RemoveElement, FS_CardinalityType
<1>6. Cardinality(Indexes(c)) <= Cardinality(T)
  <2> HIDE DEF f, T
  <2>1. QED  BY <1>4, <1>5, FS_Injection
<1>7. Len(cq[c]) \in Nat /\ Cardinality(Indexes(c)) = Len(cq[c])
  <2>1. Len(cq[c]) \in Nat
    BY CqTypes
  <2>2. QED  BY <2>1, FS_Interval DEF Indexes
<1>8. QED  BY <1>5, <1>6, <1>7

(* A notified send, or a receive, that has no room for its completion. *)
LEMMA SendOverruns ==
  ASSUME TypeOK, InStep, NEW q \in QueuePairs,
         ran[q] + 1 <= Len(sq[q]), sq[q][ran[q] + 1]
  PROVE  Len(cq[SendCq[q]]) < Cardinality(Due(SendCq[q]))
<1>1. PICK c \in Cqs : c = SendCq[q]
  BY Constants
<1>2. PICK at \in [Indexes(c) -> 1..QpDepth] : Tracks(c, at)
  BY DEF InStep, InStepAt
<1>3. PICK p \in 1..QpDepth : p = ran[q] + 1 /\ p <= Len(sq[q]) /\ sq[q][p]
  BY QueueTypes, Constants
<1>4. <<"send", q, p>> \in Due(c)
  BY <1>1, <1>3 DEF Due, Directions, Feeds
<1>5. ASSUME NEW i \in Indexes(c) PROVE <<"send", q, p>> # <<cq[c][i].op, cq[c][i].q, at[i]>>
  <2> SUFFICES ASSUME cq[c][i].op = "send", cq[c][i].q = q, at[i] = p PROVE FALSE
    OBVIOUS
  <2>1. p <= ran[q] /\ ran[q] \in Nat
    BY <1>2, QueueTypes DEF Tracks, OfSend, OfRecv
  <2>2. QED  BY <1>3, <2>1
<1>6. Len(cq[c]) < Cardinality(Due(c))
  BY <1>2, <1>4, <1>5, MoreDue
<1>7. QED  BY <1>1, <1>6

LEMMA RecvOverruns ==
  ASSUME TypeOK, InStep, NEW q \in QueuePairs, filled[q] < rq[q]
  PROVE  Len(cq[RecvCq[q]]) < Cardinality(Due(RecvCq[q]))
<1>1. PICK c \in Cqs : c = RecvCq[q]
  BY Constants
<1>2. PICK at \in [Indexes(c) -> 1..QpDepth] : Tracks(c, at)
  BY DEF InStep, InStepAt
<1>3. PICK p \in 1..QpDepth : p = filled[q] + 1 /\ p <= rq[q]
  BY QueueTypes, Constants
<1>4. <<"recv", q, p>> \in Due(c)
  BY <1>1, <1>3 DEF Due, Directions, Feeds
<1>5. ASSUME NEW i \in Indexes(c) PROVE <<"recv", q, p>> # <<cq[c][i].op, cq[c][i].q, at[i]>>
  <2> SUFFICES ASSUME cq[c][i].op = "recv", cq[c][i].q = q, at[i] = p PROVE FALSE
    OBVIOUS
  <2>1. p <= filled[q] /\ filled[q] \in Nat
    BY <1>2, QueueTypes DEF Tracks, OfSend, OfRecv
  <2>2. QED  BY <1>3, <2>1
<1>6. Len(cq[c]) < Cardinality(Due(c))
  BY <1>2, <1>4, <1>5, MoreDue
<1>7. QED  BY <1>1, <1>6

-----------------------------------------------------------------------------
(* Every step keeps the invariant. *)

LEMMA InitKeeps == Init => IInv
<1> SUFFICES ASSUME Init PROVE IInv
  OBVIOUS
<1>1. /\ sq = [q \in QueuePairs |-> <<>>] /\ ran = [q \in QueuePairs |-> 0]
      /\ rq = [q \in QueuePairs |-> 0] /\ filled = [q \in QueuePairs |-> 0]
      /\ cq = [c \in Cqs |-> <<>>] /\ fate = "running"
  BY DEF Init
<1>2. /\ Len(<<>>) = 0 /\ <<>> \in Seq(BOOLEAN) /\ <<>> \in Seq(Cqe)
  BY EmptySeq
<1>3. TypeOK
  BY <1>1, <1>2, Constants DEF TypeOK
<1>4. ASSUME NEW c \in Cqs PROVE InStepAt(c)
  <2>1. Indexes(c) = {}
    BY <1>1, <1>2 DEF Indexes
  <2>2. PICK at : at \in [Indexes(c) -> 1..QpDepth]
    <3>1. [i \in Indexes(c) |-> i] \in [Indexes(c) -> 1..QpDepth]
      BY <2>1
    <3>2. QED  BY <3>1
  <2>3. \A q \in QueuePairs : 1..ran[q] = {} /\ 1..filled[q] = {}
    BY <1>1
  <2>4. Tracks(c, at)
    BY <2>1, <2>3 DEF Tracks, InOrder, AllSends, AllRecvs
  <2>5. QED  BY <2>2, <2>4 DEF InStepAt
<1>5. QED  BY <1>1, <1>3, <1>4 DEF IInv, InStep, OverrunExplained

LEMMA PostSendKeeps ==
  ASSUME IInv, NEW q \in QueuePairs, NEW notified \in BOOLEAN, PostSend(q, notified)
  PROVE  IInv'
<1>1. /\ fate = "running" /\ Len(sq[q]) < QpDepth
      /\ sq' = [sq EXCEPT ![q] = Append(sq[q], notified)]
      /\ ran' = ran /\ rq' = rq /\ filled' = filled /\ cq' = cq /\ fate' = fate
  BY DEF PostSend
<1>2. TypeOK
  BY DEF IInv
<1>3. /\ sq'[q] \in Seq(BOOLEAN) /\ Len(sq'[q]) = Len(sq[q]) + 1
      /\ \A k \in 1..Len(sq[q]) : sq'[q][k] = sq[q][k]
      /\ \A r \in QueuePairs : r # q => sq'[r] = sq[r]
      /\ sq' \in [QueuePairs -> Seq(BOOLEAN)]
  <2>1. sq'[q] = Append(sq[q], notified) /\ sq \in [QueuePairs -> Seq(BOOLEAN)]
    BY <1>1, <1>2 DEF TypeOK
  <2>2. Append(sq[q], notified) \in Seq(BOOLEAN)
    BY <2>1, AppendProperties
  <2>3. QED  BY <1>1, <2>1, <2>2, AppendProperties
<1>4. Len(sq[q]) \in Nat /\ ran[q] \in Nat /\ ran[q] <= Len(sq[q])
  BY <1>2, QueueTypes
<1>5. TypeOK'
  <2>1. \A r \in QueuePairs :
          ran[r] <= Len(sq'[r]) /\ Len(sq'[r]) <= QpDepth /\ filled[r] <= rq[r]
    BY <1>1, <1>2, <1>3, <1>4, Constants DEF TypeOK
  <2>2. QED  BY <1>1, <1>2, <1>3, <2>1 DEF TypeOK
<1>6. InStep'
  <2>1. ASSUME NEW r \in QueuePairs
        PROVE  /\ ran'[r] \in Nat /\ ran[r] <= ran'[r]
               /\ \A k \in 1..ran[r] : sq'[r][k] = sq[r][k]
               /\ \A k \in 1..ran'[r] : k > ran[r] => ~ sq'[r][k]
    <3>1. ran'[r] = ran[r] /\ ran[r] \in Nat
      BY <1>1, <1>2, QueueTypes
    <3>2. \A k \in 1..ran[r] : sq'[r][k] = sq[r][k]
      BY <1>3, <1>4
    <3>3. QED  BY <3>1, <3>2
  <2>2. QED  BY <1>1, <1>2, <2>1, InStepStable DEF IInv
<1>7. OverrunExplained'
  BY <1>1 DEF OverrunExplained
<1>8. QED  BY <1>5, <1>6, <1>7 DEF IInv

LEMMA PostRecvKeeps ==
  ASSUME IInv, NEW q \in QueuePairs, PostRecv(q)
  PROVE  IInv'
<1>1. /\ fate = "running" /\ rq[q] < QpDepth
      /\ rq' = [rq EXCEPT ![q] = rq[q] + 1]
      /\ sq' = sq /\ ran' = ran /\ filled' = filled /\ cq' = cq /\ fate' = fate
  BY DEF PostRecv
<1>2. TypeOK
  BY DEF IInv
<1>3. /\ rq[q] \in Nat /\ filled[q] \in Nat /\ filled[q] <= rq[q]
      /\ rq'[q] = rq[q] + 1 /\ rq' \in [QueuePairs -> 0..QpDepth]
      /\ \A r \in QueuePairs : r # q => rq'[r] = rq[r]
  BY <1>1, <1>2, QueueTypes, Constants DEF TypeOK
<1>4. TypeOK'
  <2>1. ASSUME NEW r \in QueuePairs PROVE filled[r] <= rq'[r]
    <3>1. filled[r] \in Nat /\ rq[r] \in Nat /\ filled[r] <= rq[r]
      BY <1>2, QueueTypes
    <3>2. QED  BY <1>3, <3>1
  <2>2. QED  BY <1>1, <1>2, <1>3, <2>1 DEF TypeOK
<1>5. InStep'
  <2>1. \A r \in QueuePairs : ran'[r] = ran[r] /\ ran[r] \in Nat /\ sq'[r] = sq[r]
    BY <1>1, <1>2, QueueTypes
  <2>2. \A r \in QueuePairs :
          /\ ran'[r] \in Nat /\ ran[r] <= ran'[r]
          /\ \A k \in 1..ran[r] : sq'[r][k] = sq[r][k]
          /\ \A k \in 1..ran'[r] : k > ran[r] => ~ sq'[r][k]
    BY <2>1
  <2>3. QED  BY <1>1, <1>2, <2>2, InStepStable DEF IInv
<1>6. OverrunExplained'
  BY <1>1 DEF OverrunExplained
<1>7. QED  BY <1>4, <1>5, <1>6 DEF IInv

(* Where the queues stay as they are, so does what is known of them. *)
LEMMA Unchanged ==
  ASSUME TypeOK, InStep, UNCHANGED <<sq, ran, rq, filled, cq>>,
         fate' \in {"running", "panicked", "overrun"}
  PROVE  TypeOK' /\ InStep'
<1>1. sq' = sq /\ ran' = ran /\ rq' = rq /\ filled' = filled /\ cq' = cq
  OBVIOUS
<1>2. TypeOK'
  BY <1>1 DEF TypeOK
<1>3. \A r \in QueuePairs :
        /\ ran'[r] \in Nat /\ ran[r] <= ran'[r]
        /\ \A k \in 1..ran[r] : sq'[r][k] = sq[r][k]
        /\ \A k \in 1..ran'[r] : k > ran[r] => ~ sq'[r][k]
  <2>1. \A r \in QueuePairs : ran'[r] = ran[r] /\ ran[r] \in Nat /\ sq'[r] = sq[r]
    BY <1>1, QueueTypes
  <2>2. QED  BY <2>1
<1>4. InStep'
  BY <1>1, <1>3, InStepStable
<1>5. QED  BY <1>2, <1>4

LEMMA PostPanicsKeeps ==
  ASSUME IInv, NEW q \in QueuePairs, PostPanics(q)
  PROVE  IInv'
<1>1. fate' = "panicked" /\ UNCHANGED <<sq, ran, rq, filled, cq>>
  BY DEF PostPanics, Ends
<1>2. TypeOK' /\ InStep'
  BY <1>1, Unchanged DEF IInv
<1>3. QED  BY <1>1, <1>2 DEF IInv, OverrunExplained

(* A completion queue that is full is told from others. *)
LEMMA OverrunKeeps ==
  ASSUME IInv, NEW c \in Cqs, ~ Len(cq[c]) < CqSize(c), Len(cq[c]) < Cardinality(Due(c)),
         Ends("overrun")
  PROVE  IInv'
<1>1. fate' = "overrun" /\ UNCHANGED <<sq, ran, rq, filled, cq>>
  BY DEF Ends
<1>2. TypeOK' /\ InStep'
  BY <1>1, Unchanged DEF IInv
<1>3. Len(cq[c]) = CqDepth
  <2>1. Len(cq[c]) \in Nat /\ Len(cq[c]) <= CqDepth /\ CqSize(c) = CqDepth
    BY CqTypes DEF IInv, CqSize
  <2>2. QED  BY <2>1, Constants
<1>4. Due(c)' = Due(c) /\ cq'[c] = cq[c]
  BY <1>1 DEF Due, Feeds
<1>5. Len(cq'[c]) = CqDepth /\ Cardinality(Due(c)') > CqDepth
  <2>1. Cardinality(Due(c)) \in Nat
    BY DueFinite, FS_CardinalityType
  <2>2. QED  BY <1>3, <1>4, <2>1, Constants
<1>6. OverrunExplained'
  BY <1>5 DEF OverrunExplained
<1>7. QED  BY <1>2, <1>6 DEF IInv

LEMMA ExecuteKeeps ==
  ASSUME IInv, NEW q \in QueuePairs, Execute(q)
  PROVE  IInv'
<1>1. TypeOK /\ InStep
  BY DEF IInv
<1>2. PICK c \in Cqs : c = SendCq[q]
  BY Constants
<1>3. fate = "running" /\ ran[q] + 1 <= Len(sq[q]) /\ ran[q] \in Nat
  BY <1>1, QueueTypes DEF Execute
<1>4. CASE ~ sq[q][ran[q] + 1]
  <2>1. /\ ran' = [ran EXCEPT ![q] = ran[q] + 1]
        /\ sq' = sq /\ rq' = rq /\ filled' = filled /\ cq' = cq /\ fate' = fate
    BY <1>4 DEF Execute
  <2>2. /\ ran'[q] = ran[q] + 1 /\ ran' \in [QueuePairs -> Nat]
        /\ \A r \in QueuePairs : r # q => ran'[r] = ran[r]
    BY <1>1, <1>3, <2>1 DEF TypeOK
  <2>3. TypeOK'
    <3>1. \A r \in QueuePairs : ran'[r] <= Len(sq[r])
      BY <1>1, <1>3, <2>2, QueueTypes
    <3>2. QED  BY <1>1, <2>1, <2>2, <3>1 DEF TypeOK
  <2>4. ASSUME NEW r \in QueuePairs
        PROVE  /\ ran'[r] \in Nat /\ ran[r] <= ran'[r]
               /\ \A k \in 1..ran[r] : sq'[r][k] = sq[r][k]
               /\ \A k \in 1..ran'[r] : k > ran[r] => ~ sq'[r][k]
    <3>1. CASE r = q
      <4>1. \A k \in 1..ran'[q] : k > ran[q] => k = ran[q] + 1
        BY <1>3, <2>2
      <4>2. QED  BY <1>3, <1>4, <2>1, <2>2, <3>1, <4>1
    <3>2. CASE r # q
      <4>1. ran'[r] = ran[r] /\ ran[r] \in Nat /\ sq'[r] = sq[r]
        BY <1>1, <2>1, <2>2, <3>2, QueueTypes
      <4>2. QED  BY <4>1
    <3>3. QED  BY <3>1, <3>2
  <2>5. InStep'
    BY <1>1, <2>1, <2>4, InStepStable
  <2>6. QED  BY <1>3, <2>1, <2>3, <2>5 DEF IInv, OverrunExplained
<1>5. CASE sq[q][ran[q] + 1] /\ Len(cq[c]) < CqSize(c)
  <2> DEFINE e == (ran[q] + 1) - LastNotified(q)
  <2>1. /\ ran' = [ran EXCEPT ![q] = ran[q] + 1]
        /\ cq' = [cq EXCEPT ![c] = Append(cq[c], Completion(q, "send", e))]
        /\ sq' = sq /\ rq' = rq /\ filled' = filled /\ fate' = fate
    BY <1>2, <1>5 DEF Execute
  <2>2. /\ ran'[q] = ran[q] + 1 /\ ran' \in [QueuePairs -> Nat]
        /\ \A r \in QueuePairs : r # q => ran'[r] = ran[r]
    BY <1>1, <1>3, <2>1 DEF TypeOK
  <2>3. Completion(q, "send", e) \in Cqe
    <3>1. LastNotified(q) \in 0..ran[q]
      BY <1>1, LastNotifiedIs
    <3>2. e \in 1..QpDepth
      BY <1>1, <1>3, <3>1, QueueTypes, Constants
    <3> HIDE DEF e
    <3>3. QED  BY <3>2 DEF Completion, Cqe, Directions
  <2> HIDE DEF e
  <2>4. /\ cq'[c] = Append(cq[c], Completion(q, "send", e))
        /\ cq'[c] \in Seq(Cqe) /\ Len(cq'[c]) = Len(cq[c]) + 1
        /\ \A d \in Cqs : d # c => cq'[d] = cq[d]
        /\ cq' \in [Cqs -> Seq(Cqe)]
    <3>1. cq \in [Cqs -> Seq(Cqe)] /\ cq[c] \in Seq(Cqe)
      BY <1>1 DEF TypeOK
    <3>2. Append(cq[c], Completion(q, "send", e)) \in Seq(Cqe)
      BY <2>3, <3>1, AppendProperties
    <3>3. Len(Append(cq[c], Completion(q, "send", e))) = Len(cq[c]) + 1
      BY <2>3, <3>1, AppendProperties
    <3>4. QED  BY <2>1, <3>1, <3>2, <3>3
  <2>5. TypeOK'
    <3>1. \A r \in QueuePairs : ran'[r] <= Len(sq[r])
      BY <1>1, <1>3, <2>2, QueueTypes
    <3>2. \A d \in Cqs : Len(cq'[d]) <= CqDepth
      <4>1. Len(cq'[c]) <= CqDepth
        BY <1>1, <1>5, <2>4, CqTypes, Constants DEF CqSize
      <4>2. QED  BY <1>1, <2>4, <4>1 DEF TypeOK
    <3>3. QED  BY <1>1, <2>1, <2>2, <2>4, <3>1, <3>2 DEF TypeOK
  <2>6. InStepAt(c)'
    <3>1. PICK at \in [Indexes(c) -> 1..QpDepth] : Tracks(c, at)
      BY <1>1 DEF InStep, InStepAt
    <3>2. QED  BY <1>1, <1>2, <1>3, <1>5, <2>1, <2>4, <3>1, SendTracks DEF e
  <2>7. ASSUME NEW d \in Cqs, d # c PROVE InStepAt(d)'
    <3>1. \A r \in QueuePairs : SendCq[r] = d =>
            /\ ran'[r] \in Nat /\ ran[r] <= ran'[r]
            /\ \A k \in 1..ran[r] : sq'[r][k] = sq[r][k]
            /\ \A k \in 1..ran'[r] : k > ran[r] => ~ sq'[r][k]
      <4> SUFFICES ASSUME NEW r \in QueuePairs, SendCq[r] = d
                   PROVE  ran'[r] = ran[r] /\ ran[r] \in Nat /\ sq'[r] = sq[r]
        OBVIOUS
      <4>1. QED  BY <1>1, <1>2, <2>1, <2>2, <2>7, QueueTypes
    <3>2. InStepAt(d) /\ cq'[d] = cq[d]
      BY <1>1, <2>4, <2>7 DEF InStep
    <3>3. QED  BY <1>1, <2>1, <3>1, <3>2, StableAt
  <2>8. InStep'
    BY <2>6, <2>7 DEF InStep
  <2>9. QED  BY <1>3, <2>1, <2>5, <2>8 DEF IInv, OverrunExplained
<1>6. CASE sq[q][ran[q] + 1] /\ ~ Len(cq[c]) < CqSize(c)
  <2>1. Ends("overrun")
    BY <1>2, <1>6 DEF Execute
  <2>2. Len(cq[c]) < Cardinality(Due(c))
    BY <1>1, <1>2, <1>3, <1>6, SendOverruns
  <2>3. QED  BY <1>6, <2>1, <2>2, OverrunKeeps
<1>7. QED  BY <1>4, <1>5, <1>6

LEMMA ArriveKeeps ==
  ASSUME IInv, NEW q \in QueuePairs, Arrive(q)
  PROVE  IInv'
<1>1. TypeOK /\ InStep
  BY DEF IInv
<1>2. PICK c \in Cqs : c = RecvCq[q]
  BY Constants
<1>3. fate = "running" /\ filled[q] < rq[q] /\ filled[q] \in Nat
  BY <1>1, QueueTypes DEF Arrive
<1>4. CASE Len(cq[c]) < CqSize(c)
  <2>1. /\ filled' = [filled EXCEPT ![q] = filled[q] + 1]
        /\ cq' = [cq EXCEPT ![c] = Append(cq[c], Completion(q, "recv", 1))]
        /\ sq' = sq /\ ran' = ran /\ rq' = rq /\ fate' = fate
    BY <1>2, <1>4 DEF Arrive
  <2>2. /\ filled'[q] = filled[q] + 1 /\ filled' \in [QueuePairs -> 0..QpDepth]
        /\ \A r \in QueuePairs : r # q => filled'[r] = filled[r]
    BY <1>1, <1>3, <2>1, QueueTypes, Constants DEF TypeOK
  <2>3. Completion(q, "recv", 1) \in Cqe
    BY Constants DEF Completion, Cqe, Directions
  <2>4. /\ cq'[c] = Append(cq[c], Completion(q, "recv", 1))
        /\ Len(cq'[c]) = Len(cq[c]) + 1
        /\ \A d \in Cqs : d # c => cq'[d] = cq[d]
        /\ cq' \in [Cqs -> Seq(Cqe)]
    <3>1. cq \in [Cqs -> Seq(Cqe)] /\ cq[c] \in Seq(Cqe)
      BY <1>1 DEF TypeOK
    <3>2. Append(cq[c], Completion(q, "recv", 1)) \in Seq(Cqe)
      BY <2>3, <3>1, AppendProperties
    <3>3. Len(Append(cq[c], Completion(q, "recv", 1))) = Len(cq[c]) + 1
      BY <2>3, <3>1, AppendProperties
    <3>4. QED  BY <2>1, <3>1, <3>2, <3>3
  <2>5. TypeOK'
    <3>1. \A r \in QueuePairs : filled'[r] <= rq[r]
      BY <1>1, <1>3, <2>2, QueueTypes
    <3>2. \A d \in Cqs : Len(cq'[d]) <= CqDepth
      <4>1. Len(cq'[c]) <= CqDepth
        BY <1>1, <1>4, <2>4, CqTypes, Constants DEF CqSize
      <4>2. QED  BY <1>1, <2>4, <4>1 DEF TypeOK
    <3>3. QED  BY <1>1, <2>1, <2>2, <2>4, <3>1, <3>2 DEF TypeOK
  <2>6. InStepAt(c)'
    <3>1. PICK at \in [Indexes(c) -> 1..QpDepth] : Tracks(c, at)
      BY <1>1 DEF InStep, InStepAt
    <3>2. QED  BY <1>1, <1>2, <1>3, <2>1, <2>4, <3>1, RecvTracks
  <2>7. ASSUME NEW d \in Cqs, d # c PROVE InStepAt(d)'
    <3>1. \A r \in QueuePairs : SendCq[r] = d =>
            /\ ran'[r] \in Nat /\ ran[r] <= ran'[r]
            /\ \A k \in 1..ran[r] : sq'[r][k] = sq[r][k]
            /\ \A k \in 1..ran'[r] : k > ran[r] => ~ sq'[r][k]
      <4> SUFFICES ASSUME NEW r \in QueuePairs
                   PROVE  ran'[r] = ran[r] /\ ran[r] \in Nat /\ sq'[r] = sq[r]
        OBVIOUS
      <4>1. QED  BY <1>1, <2>1, QueueTypes
    <3>2. \A r \in QueuePairs : RecvCq[r] = d => filled'[r] = filled[r]
      BY <1>2, <2>2, <2>7
    <3>3. InStepAt(d) /\ cq'[d] = cq[d]
      BY <1>1, <2>4, <2>7 DEF InStep
    <3>4. QED  BY <1>1, <3>1, <3>2, <3>3, StableAt
  <2>8. InStep'
    BY <2>6, <2>7 DEF InStep
  <2>9. QED  BY <1>3, <2>1, <2>5, <2>8 DEF IInv, OverrunExplained
<1>5. CASE ~ Len(cq[c]) < CqSize(c)
  <2>1. Ends("overrun")
    BY <1>2, <1>5 DEF Arrive
  <2>2. Len(cq[c]) < Cardinality(Due(c))
    BY <1>1, <1>2, <1>3, RecvOverruns
  <2>3. QED  BY <1>5, <2>1, <2>2, OverrunKeeps
<1>6. QED  BY <1>4, <1>5

(* A send queue without its first n entries. *)
LEMMA MovedUp ==
  ASSUME TypeOK, NEW q \in QueuePairs, NEW n \in 1..ran[q],
         sq' = [sq EXCEPT ![q] = SubSeq(sq[q], n + 1, Len(sq[q]))]
  PROVE  /\ sq'[q] \in Seq(BOOLEAN) /\ Len(sq'[q]) = Len(sq[q]) - n
         /\ \A k \in 1..(ran[q] - n) : sq'[q][k] = sq[q][k + n]
         /\ sq' \in [QueuePairs -> Seq(BOOLEAN)]
         /\ \A r \in QueuePairs : r # q => sq'[r] = sq[r]
<1>1. /\ sq[q] \in Seq(BOOLEAN) /\ Len(sq[q]) \in Nat /\ ran[q] \in Nat
      /\ ran[q] <= Len(sq[q]) /\ n \in Nat /\ n >= 1 /\ n <= Len(sq[q])
  BY QueueTypes
<1>2. PICK s \in Seq(BOOLEAN), m \in Nat : s = sq[q] /\ m = Len(s)
  BY <1>1
<1>3. PICK t : t = SubSeq(s, n + 1, m)
  OBVIOUS
<1>4. /\ t \in Seq(BOOLEAN) /\ Len(t) = m - n
      /\ \A k \in 1..(m - n) : t[k] = s[k + n]
  <2>1. \A i \in (n + 1)..m : s[i] \in BOOLEAN
    BY <1>1, <1>2, ElementOfSeq
  <2>2. /\ t \in Seq(BOOLEAN)
        /\ Len(t) = IF n + 1 <= m THEN m - (n + 1) + 1 ELSE 0
        /\ \A i \in 1..(m - (n + 1) + 1) : t[i] = s[(n + 1) + i - 1]
    BY <1>1, <1>2, <1>3, <2>1, SubSeqProperties
  <2>3. m - (n + 1) + 1 = m - n
    BY <1>1, <1>2
  <2>4. Len(t) = m - n
    BY <1>1, <1>2, <2>2
  <2>5. ASSUME NEW k \in 1..(m - n) PROVE t[k] = s[k + n]
    <3>1. (n + 1) + k - 1 = k + n
      BY <1>1, <1>2
    <3>2. QED  BY <2>2, <2>3, <3>1
  <2>6. QED  BY <2>2, <2>4, <2>5
<1>5. sq'[q] = t /\ \A r \in QueuePairs : r # q => sq'[r] = sq[r]
  BY <1>2, <1>3 DEF TypeOK
<1>6. sq' \in [QueuePairs -> Seq(BOOLEAN)]
  BY <1>2, <1>3, <1>4 DEF TypeOK
<1>7. \A k \in 1..(ran[q] - n) : k \in 1..(m - n)
  BY <1>1, <1>2
<1>8. QED  BY <1>2, <1>4, <1>5, <1>6, <1>7

LEMMA PollKeeps ==
  ASSUME IInv, NEW c \in Cqs, Poll(c)
  PROVE  IInv'
<1>1. TypeOK /\ InStep
  BY DEF IInv
<1>2. fate = "running" /\ cq[c] # <<>> /\ cq' = [cq EXCEPT ![c] = Tail(cq[c])] /\ fate' = fate
  BY DEF Poll
<1>3. cq'[c] = Tail(cq[c]) /\ \A d \in Cqs : d # c => cq'[d] = cq[d]
  BY <1>1, <1>2 DEF TypeOK
<1>4. /\ 1 \in Indexes(c) /\ Head(cq[c]) = cq[c][1]
      /\ cq'[c] \in Seq(Cqe) /\ Len(cq'[c]) = Len(cq[c]) - 1
  BY <1>1, <1>2, <1>3, Tailed
<1>5. cq' \in [Cqs -> Seq(Cqe)] /\ \A d \in Cqs : Len(cq'[d]) <= CqDepth
  <2>1. Len(cq'[c]) <= CqDepth
    BY <1>1, <1>4, CqTypes, Constants
  <2>2. cq' \in [Cqs -> Seq(Cqe)]
    BY <1>1, <1>2, <1>3, <1>4 DEF TypeOK
  <2>3. QED  BY <1>1, <1>3, <2>1, <2>2 DEF TypeOK
<1>6. PICK q \in QueuePairs : q = cq[c][1].q
  BY <1>1, <1>4, CqTypes
<1>7. PICK at \in [Indexes(c) -> 1..QpDepth] : Tracks(c, at)
  BY <1>1 DEF InStep, InStepAt
<1>8. CASE cq[c][1].op = "send"
  <2>1. PICK n \in Nat : n = at[1] /\ cq[c][1].entries = n
    BY <1>1, <1>4, <1>7, <1>8, FirstSend, Constants
  <2>2. SendCq[q] = c /\ n \in 1..ran[q] /\ ran[q] \in Nat
    BY <1>1, <1>4, <1>6, <1>7, <1>8, <2>1, FirstSend, QueueTypes
  <2>3. /\ sq' = [sq EXCEPT ![q] = SubSeq(sq[q], n + 1, Len(sq[q]))]
        /\ ran' = [ran EXCEPT ![q] = ran[q] - n]
        /\ rq' = rq /\ filled' = filled
    BY <1>4, <1>6, <1>8, <2>1 DEF Poll
  <2>4. /\ sq'[q] \in Seq(BOOLEAN) /\ Len(sq'[q]) = Len(sq[q]) - n
        /\ \A k \in 1..(ran[q] - n) : sq'[q][k] = sq[q][k + n]
        /\ sq' \in [QueuePairs -> Seq(BOOLEAN)]
        /\ \A r \in QueuePairs : r # q => sq'[r] = sq[r]
    BY <1>1, <2>2, <2>3, MovedUp
  <2>5. /\ ran'[q] = ran[q] - n /\ ran' \in [QueuePairs -> Nat]
        /\ \A r \in QueuePairs : r # q => ran'[r] = ran[r]
    BY <1>1, <2>2, <2>3 DEF TypeOK
  <2>6. ASSUME NEW r \in QueuePairs
        PROVE  ran'[r] <= Len(sq'[r]) /\ Len(sq'[r]) <= QpDepth /\ filled'[r] <= rq'[r]
    <3>1. /\ ran[r] \in Nat /\ Len(sq[r]) \in Nat /\ ran[r] <= Len(sq[r])
          /\ Len(sq[r]) <= QpDepth /\ filled[r] <= rq[r]
      BY <1>1, QueueTypes
    <3>2. CASE r = q
      BY <2>2, <2>3, <2>4, <2>5, <3>1, <3>2, Constants
    <3>3. CASE r # q
      BY <2>3, <2>4, <2>5, <3>1, <3>3
    <3>4. QED  BY <3>2, <3>3
  <2>7. TypeOK'
    BY <1>1, <1>2, <1>5, <2>3, <2>4, <2>5, <2>6 DEF TypeOK
  <2>8. InStepAt(c)'
    <3>1. /\ \A r \in QueuePairs : r # q => sq'[r] = sq[r]
          /\ \A k \in 1..(ran[q] - n) : sq'[q][k] = sq[q][k + n]
      BY <2>4
    <3>2. ran' = [ran EXCEPT ![q] = ran[q] - n] /\ filled' = filled /\ n = at[1]
      BY <2>1, <2>3
    <3>3. cq[c] # <<>> /\ cq'[c] = Tail(cq[c]) /\ cq[c][1].op = "send" /\ q = cq[c][1].q
      BY <1>2, <1>3, <1>6, <1>8
    <3>4. TypeOK /\ Tracks(c, at)
      BY <1>1, <1>7
    <3>5. QED  BY <3>1, <3>2, <3>3, <3>4, SendPolled
  <2>9. ASSUME NEW d \in Cqs, d # c PROVE InStepAt(d)'
    <3>1. \A r \in QueuePairs : SendCq[r] = d =>
            /\ ran'[r] \in Nat /\ ran[r] <= ran'[r]
            /\ \A k \in 1..ran[r] : sq'[r][k] = sq[r][k]
            /\ \A k \in 1..ran'[r] : k > ran[r] => ~ sq'[r][k]
      <4> SUFFICES ASSUME NEW r \in QueuePairs, SendCq[r] = d
                   PROVE  ran'[r] = ran[r] /\ ran[r] \in Nat /\ sq'[r] = sq[r]
        OBVIOUS
      <4>1. r # q
        BY <2>2, <2>9
      <4>2. QED  BY <1>1, <2>4, <2>5, <4>1, QueueTypes
    <3>2. InStepAt(d) /\ cq'[d] = cq[d]
      BY <1>1, <1>3, <2>9 DEF InStep
    <3>3. QED  BY <1>1, <2>3, <3>1, <3>2, StableAt
  <2>10. InStep'
    BY <2>8, <2>9 DEF InStep
  <2>11. QED  BY <1>2, <2>7, <2>10 DEF IInv, OverrunExplained
<1>9. CASE cq[c][1].op = "recv"
  <2>1. /\ RecvCq[q] = c /\ cq[c][1].entries = 1 /\ at[1] = 1
        /\ filled[q] >= 1 /\ filled[q] \in Nat /\ rq[q] \in Nat /\ filled[q] <= rq[q]
        /\ rq[q] <= QpDepth
    BY <1>1, <1>4, <1>6, <1>7, <1>9, FirstRecv, QueueTypes
  <2>2. /\ rq' = [rq EXCEPT ![q] = rq[q] - 1]
        /\ filled' = [filled EXCEPT ![q] = filled[q] - 1]
        /\ sq' = sq /\ ran' = ran
    BY <1>4, <1>6, <1>9, <2>1 DEF Poll
  <2>3. /\ rq'[q] = rq[q] - 1 /\ filled'[q] = filled[q] - 1
        /\ \A r \in QueuePairs : r # q => rq'[r] = rq[r] /\ filled'[r] = filled[r]
        /\ rq' \in [QueuePairs -> 0..QpDepth] /\ filled' \in [QueuePairs -> 0..QpDepth]
    <3>1. rq[q] - 1 \in 0..QpDepth /\ filled[q] - 1 \in 0..QpDepth
      BY <2>1, Constants
    <3>2. QED  BY <1>1, <2>2, <3>1 DEF TypeOK
  <2>4. ASSUME NEW r \in QueuePairs PROVE filled'[r] <= rq'[r]
    <3>1. CASE r = q
      BY <2>1, <2>3, <3>1
    <3>2. CASE r # q
      BY <1>1, <2>3, <3>2, QueueTypes
    <3>3. QED  BY <3>1, <3>2
  <2>5. TypeOK'
    BY <1>1, <1>2, <1>5, <2>2, <2>3, <2>4 DEF TypeOK
  <2>6. InStepAt(c)'
    BY <1>1, <1>2, <1>3, <1>6, <1>7, <1>9, <2>2, RecvPolled
  <2>7. ASSUME NEW d \in Cqs, d # c PROVE InStepAt(d)'
    <3>1. \A r \in QueuePairs : SendCq[r] = d =>
            /\ ran'[r] \in Nat /\ ran[r] <= ran'[r]
            /\ \A k \in 1..ran[r] : sq'[r][k] = sq[r][k]
            /\ \A k \in 1..ran'[r] : k > ran[r] => ~ sq'[r][k]
      <4> SUFFICES ASSUME NEW r \in QueuePairs
                   PROVE  ran'[r] = ran[r] /\ ran[r] \in Nat /\ sq'[r] = sq[r]
        OBVIOUS
      <4>1. QED  BY <1>1, <2>2, QueueTypes
    <3>2. \A r \in QueuePairs : RecvCq[r] = d => filled'[r] = filled[r]
      BY <2>1, <2>3, <2>7
    <3>3. InStepAt(d) /\ cq'[d] = cq[d]
      BY <1>1, <1>3, <2>7 DEF InStep
    <3>4. QED  BY <1>1, <3>1, <3>2, <3>3, StableAt
  <2>8. InStep'
    BY <2>6, <2>7 DEF InStep
  <2>9. QED  BY <1>2, <2>5, <2>8 DEF IInv, OverrunExplained
<1>10. cq[c][1].op \in Directions
  BY <1>1, <1>4, CqTypes
<1>11. QED  BY <1>8, <1>9, <1>10 DEF Directions

-----------------------------------------------------------------------------
(* The invariant of every execution. *)

LEMMA Stutters ==
  ASSUME IInv, UNCHANGED vars
  PROVE  IInv'
<1>1. UNCHANGED <<sq, ran, rq, filled, cq>> /\ fate' = fate
  BY DEF vars
<1>2. TypeOK' /\ InStep'
  BY <1>1, Unchanged DEF IInv, TypeOK
<1>3. OverrunExplained'
  BY <1>1 DEF IInv, OverrunExplained, Due, Feeds
<1>4. QED  BY <1>2, <1>3 DEF IInv

LEMMA NextKeeps == IInv /\ [Next]_vars => IInv'
<1> SUFFICES ASSUME IInv, [Next]_vars PROVE IInv'
  OBVIOUS
<1>1. ASSUME NEW q \in QueuePairs, NEW notified \in BOOLEAN, PostSend(q, notified)
      PROVE  IInv'
  BY <1>1, PostSendKeeps
<1>2. ASSUME NEW q \in QueuePairs, PostRecv(q) PROVE IInv'
  BY <1>2, PostRecvKeeps
<1>3. ASSUME NEW q \in QueuePairs, PostPanics(q) PROVE IInv'
  BY <1>3, PostPanicsKeeps
<1>4. ASSUME NEW q \in QueuePairs, Execute(q) PROVE IInv'
  BY <1>4, ExecuteKeeps
<1>5. ASSUME NEW q \in QueuePairs, Arrive(q) PROVE IInv'
  BY <1>5, ArriveKeeps
<1>6. ASSUME NEW c \in Cqs, Poll(c) PROVE IInv'
  BY <1>6, PollKeeps
<1>7. CASE UNCHANGED vars
  BY <1>7, Stutters
<1>8. QED  BY <1>1, <1>2, <1>3, <1>4, <1>5, <1>6, <1>7 DEF Next

LEMMA Invariance == Spec => []IInv
BY InitKeeps, NextKeeps, PTL DEF Spec

(* The queues keep their types: no queue and no completion queue ever      *)
(* holds more than its depth (post_verb, the adapter and do_poll).         *)
THEOREM TypeCorrect == Spec => []TypeOK
<1>1. IInv => TypeOK
  BY DEF IInv
<1>2. QED  BY <1>1, Invariance, PTL

(* Whatever queue pairs share completion queues, and whatever the depths,  *)
(* an overrun needs more notified sends and receives outstanding on one    *)
(* completion queue than its depth.                                        *)
THEOREM OverrunExplainedAlways == Spec => []OverrunExplained
<1>1. IInv => OverrunExplained
  BY DEF IInv
<1>2. QED  BY <1>1, Invariance, PTL

-----------------------------------------------------------------------------
(* A depth that is enough. *)

(* The directions of queue pairs that feed a completion queue. *)
Feeders(c) ==
  {f \in Directions \X QueuePairs :
     \/ f[1] = "send" /\ SendCq[f[2]] = c
     \/ f[1] = "recv" /\ RecvCq[f[2]] = c}

DeepEnough == \A c \in Cqs : Cardinality(Feeders(c)) * QpDepth <= CqDepth

LEMMA FeedersFinite ==
  ASSUME NEW c \in Cqs
  PROVE  IsFiniteSet(Feeders(c))
<1>1. Directions = {"send"} \cup {"recv"}
  BY DEF Directions
<1>2. IsFiniteSet(Directions)
  BY <1>1, FS_Singleton, FS_Union
<1>3. IsFiniteSet(Directions \X QueuePairs)
  BY <1>2, DataPathAssumption, FS_Product
<1>4. Feeders(c) \in SUBSET (Directions \X QueuePairs)
  BY DEF Feeders
<1>5. QED  BY <1>3, <1>4, FS_Subset

LEMMA DueBounded ==
  ASSUME NEW c \in Cqs
  PROVE  Cardinality(Due(c)) <= Cardinality(Feeders(c)) * QpDepth
<1> DEFINE T == Feeders(c) \X (1..QpDepth)
           f == [d \in Due(c) |-> <<<<d[1], d[2]>>, d[3]>>]
<1>1. ASSUME NEW d \in Due(c)
      PROVE  <<<<d[1], d[2]>>, d[3]>> \in T /\ d = <<d[1], d[2], d[3]>>
  <2>1. PICK op \in Directions, q \in QueuePairs, i \in 1..QpDepth :
          d = <<op, q, i>> /\ Feeds(c, op, q, i)
    BY DEF Due
  <2>2. <<op, q>> \in Feeders(c)
    BY <2>1 DEF Feeders, Feeds
  <2>3. QED  BY <2>1, <2>2
<1>2. f \in [Due(c) -> T]
  BY <1>1
<1>3. ASSUME NEW d \in Due(c), NEW e \in Due(c), f[d] = f[e] PROVE d = e
  <2>1. d[1] = e[1] /\ d[2] = e[2] /\ d[3] = e[3]
    BY <1>3
  <2>2. d = <<d[1], d[2], d[3]>> /\ e = <<e[1], e[2], e[3]>>
    BY <1>1
  <2>3. QED  BY <2>1, <2>2
<1>4. f \in Injection(Due(c), T)
  BY <1>2, <1>3, Fun_IsInj
<1>5. IsFiniteSet(1..QpDepth) /\ Cardinality(1..QpDepth) = QpDepth
  BY Constants, FS_Interval
<1>6. IsFiniteSet(T) /\ Cardinality(T) = Cardinality(Feeders(c)) * QpDepth
  BY <1>5, FeedersFinite, FS_Product
<1>7. Cardinality(Due(c)) <= Cardinality(T)
  <2> HIDE DEF f, T
  <2>1. QED  BY <1>4, <1>6, FS_Injection
<1>8. QED  BY <1>6, <1>7

(* A completion queue that is as deep as all the queues that feed it never *)
(* overruns, whatever is posted and however late it is polled.  With the   *)
(* default depths of tweakme.h this is a queue for the sends, or for the   *)
(* receives, of one queue pair; one that both feed needs twice the depth.  *)
THEOREM DeepEnoughNeverOverruns ==
  ASSUME DeepEnough
  PROVE  Spec => [](fate # "overrun")
<1>1. IInv => fate # "overrun"
  <2> SUFFICES ASSUME OverrunExplained, fate = "overrun" PROVE FALSE
    BY DEF IInv
  <2>1. PICK c \in Cqs : Cardinality(Due(c)) > CqDepth
    BY DEF OverrunExplained
  <2>2. Cardinality(Due(c)) <= Cardinality(Feeders(c)) * QpDepth
    BY DueBounded
  <2>3. PICK m : m = Cardinality(Feeders(c)) * QpDepth
    OBVIOUS
  <2>4. m \in Nat /\ m <= CqDepth
    BY <2>3, FeedersFinite, FS_CardinalityType, Constants DEF DeepEnough
  <2>5. Cardinality(Due(c)) \in Nat
    BY DueFinite, FS_CardinalityType
  <2>6. QED  BY <2>1, <2>2, <2>3, <2>4, <2>5, Constants
<1>2. QED  BY <1>1, Invariance, PTL
===============================================================================
