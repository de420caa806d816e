# rdmalib2: specification, model checking and proofs

rdmalib2 is a header-only C++20 wrapper around MLNX OFED verbs: a device context,
memory regions and slices, completion queues, queue pairs, cached verbs, and a small
connection manager on top of an RPC library. This directory holds TLA+ modules that
model its logic, TLC configurations that check them on small instances, and TLAPS
proofs for instances of any size. Paths below are relative to `include/rdmalib2/`.

## Inventory

| component | state | operations | interacts with |
|---|---|---|---|
| `cm` (`cm.h`) | a reference to the context | `connect`, `run_server`, `run_server_with_stop` | one hrpc call `RPC_ESTABLISH` carries the addresses; the handler creates and connects a queue pair, hands it to the application's callback by value, and answers after that |
| `rdma_qp` (`predeclare/qp_pre.h`, `qp.h`) | device handle, remembered port | create, `get_info`, `get_qp_info`, `bind_port`, `connect` (RESET, INIT, RTR, RTS), `post_verb`, move, destroy | refers to the context and two completion queues; the adapter carries packets to the peer it names |
| `rdma_cq` (`cq.h`) | device handle | `poll`, `poll_with_wc`, `try_poll`, `try_poll_with_wc`, move, destroy | the adapter adds completions; any number of threads and queue pairs may share one |
| `rdma_verb` (`predeclare/verb_pre.h`, `verb.h`) | the verb's fields, its list of slices, the cached work request `wr` and entries `real_sgl` with a validity flag each | constructors, moves, some twenty setters, `get_wr`, `set_next`, `clear_next`, `execute` | slices (size, alignment, key), `post_verb` |
| `rdma_memory_region`, `rdma_memory_slice`, `rdma_remote_memory_slice` (`mem.h`) | registration, device memory; a slice refers to its region and keeps a raw pointer | register, `slice`, `to_sge`, `is_aligned`, move, destroy | context, verbs |
| `rdma_context` (`context.h`) | device, protection domain, resource domain, per-port GID and LID | open, query, close | everything else refers to it |
| `qp_verb_compat`, `common.h`, `tweakme.h` | none | opcode table; panic and assertions; limits | all |
| hrpc, ibverbs | external | RPC; the adapter | `cm`; all |

Hard behaviours. *Concurrency*: clients connect while the server handles one call at a
time; application threads poll one completion queue, and an adapter runs beside them.
*Ordering*: the callback runs before the client knows its peer; the client sends as soon as
it knows it. *Failure*: any panic is an `exit`, so a process may end in the middle of the
handshake and its queue pairs with it; `ibv_poll_cq` may fail and nobody looks; error
completions arrive in the middle of a batch. *Timeouts*: the transport retries and gives
up. *Caches*: a verb is built once and posted many times, between setters that invalidate
one cache, the other, or none. *Limits*: `kMaxPollCq` = 32 per round, `kMaxSge` = 16,
queue depths of 256. The full list, each at its line, is under `hazards` in
`PROJECT.json`.

What makes each component correct: a connected client has a peer that was ready before it
and is its own (`cm`); both ends can reach each other (`rdma_qp`); a poll takes what it was
asked for, returns what it took and comes back (`rdma_cq`); a post hands the adapter the
work request of the verb as it is (`rdma_verb`); a slice lies inside what it was cut from
and inside a live region (`mem.h`); objects are destroyed in an order the device accepts
(all).

## Modules

    QueuePair, Rendezvous <- ConnectionManager <- MCConnectionManager
                                               <- ConnectionManagerProofs <- ExchangeProofs
    Ownership  <-  CallbackScope      <-  MCCallbackScope
               <-  OwnershipProofs
                   CallbackScope, OwnershipProofs  <-  CallbackScopeProofs
    CqContract <-  CompletionQueue    <-  MCCompletionQueue
                                      <-  CompletionQueueProofs
                   Verb               <-  MCVerb
                                      <-  VerbProofs
                   Memory             <-  MCMemory
                                      <-  MemoryProofs
                   DataPath           <-  MCDataPath
                                      <-  DataPathProofs

The `MC` modules only name model values for TLC. Definitions marked *Seeded fault* in a
module are mutated forms of the definition that follows; no specification uses them. Each
shows that the property it is listed with in `PROJECT.json` can fail.

### QueuePair

Records for the device's queue pair and the operators that make one (`Created`), move it
on (`ToInit`, `ToRtr`, `ToRts`, one for each `modify_qp_to_*`) and describe it to a peer
(`GetInfo`). A GID or a LID is the pair of process and port it names. `Routed`, `Receives`
and `Reaches` are what the code relies on in the adapter: a packet goes through if the
path names the port the peer is attached to, the peer names the sender back and expects
its PSN.

### ConnectionManager

Clients, each with one queue pair and one thread, and a server that runs one handler at a
time. `CallEstablish` to `ClientToRts` are a client's `connect`, split at every point where
another process can act: the call leaves, the answer is there, and each `ibv_modify_qp`.
`Accept` to `Reply` are the handler. `CallbackReturns(keep, should_stop)` is the end of the
application's callback: it has moved the queue pair away (`keep`) or it has not, and then
`~rdma_qp` runs. While `spc = "callback"` the callback may post on its queue pair with the
same `PostRecv` and `PostSend` everybody uses later. `ClientEnds` and `ServerEnds` are what
any panic comes to; the actions that call them are the panics themselves (`ReconnectPanics`,
`CallFails`, `ClientPollPanics`, `ServerOutOfQps`, `ServerPollPanics`) and exits for other
reasons (`ClientCrash`, `ServerCrash`).

`bind_port` only stores a number, so `BindPort` may happen at any time outside of `connect`,
before it and after it; what a client told its server is the number stored when `connect`
took its info (`announced` keeps it, as history). On the server the callback could bind its
queue pair's port as well, but the info of the answer is taken before it runs (`cm.h:57-67`),
and nothing looks at the number later.

The state of the data path is reduced to four counters per queue pair. `Deliver` takes a
receive of the peer for a send; `Expire` is the end of the retries, possible whenever the
peer cannot take the send. The next number a device gives to a queue pair is always a new
one.

### Rendezvous

What connection establishment promises, without calls, queue pair states or callbacks: a
matchmaker. A request is served by one queue pair, which serves nobody else for ever; it is
offered to its client alone, and when it is ready; a client takes an offer once and for
good; an exit may lose a request. `MeetsRendezvous` maps the handshake to it: `asked` is a
call that waits or is in the handler, a server queue pair serves the client its
`ibv_modify_qp` to RTR named, is ready when it has its send PSN (RTS), is offered by an
answer, and taken by the client's own step to RTR. Exits change none of this.

### Ownership and CallbackScope

`Ownership` has the objects `rdma_context`, `rdma_cq` and `rdma_qp` as holders of handles,
and the device objects behind the handles with what each one uses. An object lives at a
place of the program (a local variable, a parameter, a box of the application), where it is
constructed, moved into (`MoveConstruct`, `MoveAssign`: the destructor, then the move
constructor, in place), moved from (a null handle) and destroyed. The device refuses to
destroy what another of its objects uses (`Destroyed`); the destructors forget the handle
all the same, which is a leak. Closing the device takes everything on it along, and handles
kept beyond that dangle. `BindPort`, `BringUp` and `Connect` are the ways to a port, the
last two with their panics; `InfoFails` is a `get_info` that cannot return, `PostPanics` the
assertion on `qp_verb_compat`, `UseMoved` the use of a moved-from object. `orderly` records
whether the program has kept the order that the library leaves to it: a completion queue is
destroyed when no queue pair uses it, the context when nothing is left.

`CallbackScope` is the program that calls these: the handler of `cm.h` and an application
around it. For every connection the handler creates two queues and a queue pair, connects,
and moves all three into the by-value parameters of the callback, which may move them on to
boxes, over what is there. When it returns, the parameters are destroyed in any order,
because C++ leaves the order of parameters open. So a callback keeps the order only if it
leaves no queue in a parameter that a queue pair still uses, its own parameter included
(`Settled`): the callback of `tests/server.cpp`, which keeps nothing, does not. Between two
connections the application creates datagram queue pairs and queues of its own, moves,
binds, destroys, and may close the context. Handler and application share one thread here;
the interleaving with clients is in `ConnectionManager`.

### CompletionQueue and CqContract

One queue, any threads, all four polling functions. One action (`Round`) is one trip
through the loop of a function: the rounds are where other threads get in, because
`ibv_poll_cq` is atomic (it takes the queue's lock). The functions differ in the batch they
ask for (`EntriesPolled`), in what they count (`Count`), in when they break off (`Breaks`)
and in what they store (`Stored`). A round that fails (`RoundFails`), meets an error
completion (`RoundPanics`) or writes outside of an array (`RoundOverruns`; the process is
"corrupt" and nothing is said of it afterwards) is an action of its own. `Posted` notified
verbs complete at any time.

`CqContract` is what a caller expects of any of them, without batches: take from the front,
never more than asked, stop early only in a try that emptied the queue, answer what was
taken. `MeetsContract` maps the loops to it (`out` and `tot` are the answer, "leaving" is
a try that came up short).

### Verb

One verb of the send family with its two caches. `scalars` are its fields, `sgl` and
`length` its list; `real_sgl` is the whole array of the vector with the size beside it,
because `resize` keeps the array when it is large enough and `wr.sg_list` keeps pointing
into it. `dangling` says that it points to an array since freed. Setters follow the code in
what they invalidate: fields invalidate `wr`, list changes invalidate `real_sgl`, moves
invalidate nothing. `stale`, `longest` and `miscounted` only record history, so that the
properties can say in which histories the caches may be trusted. Opcodes are reduced to the
three kinds `construct_wr` treats differently (send, read/write, atomic), immediate data
to a value or none, the four atomic operands to one. `rdma_recv` is the same class
without the fields.

### Memory

Region objects and the slices cut from them. A program keeps a region object at a place
(`Objects`), where it is constructed (`Construct`, or `ConstructFails`, which ends the
process), moved into, moved from and destroyed. A region of device memory holds a second
handle; `Release` is what the destructor gives back, in its order: the registration, then
the memory, which the device would not free while it is registered (external). A slice refers
to the place, as the reference member of `rdma_memory_slice` does, and so sees whatever
lives there now (`Succeeds`, `CutSlice`). Pointers and sizes are words of `Word` values, and
`Add` and `Sub` wrap. `CutRegion`, `CutSlice` and the two one-argument forms are the four
`slice()` functions with their check (`TooLarge`) and their panic; `SliceOf` is the public
constructor, which checks nothing. Reading a key through a null `ibv_mr` or a dead object
ends the model ("undefined"). `trusted` and `inside` are history: whether every check the
slice went through summed without wrapping, on the region it was first cut from, and
whether the slice lies inside of what it was cut from.

### DataPath

The queues that `ConnectionManager` reduces to counters: send and receive queues of
`QpDepth` entries and completion queues of `CqDepth`, shared between queue pairs and
directions as `SendCq` and `RecvCq` say. `PostSend` and `PostRecv` are `post_verb`,
`PostPanics` its refusal, `Poll` one completion taken by `do_poll`. The adapter is external:
it executes sends in order, completes the notified ones, and an entry of the send queue is
free again only when the completion of it or of a later one is polled. A completion that
finds its queue full ends the model ("overrun"). `Careful` is a choice of the application
that the library leaves to it: to notify at least one of the sends that fill a queue.

## Runs

| run | instance | states | checks |
|---|---|---|---|
| `cm_safety` | 2 clients, 2 server queue pairs, ports 1 and 2, everyone may exit, `MaxRecv = MaxSend = 1` | 619,495 | safety and refinement |
| `cm_live` | 2 clients, 2 server queue pairs, one port, everyone may exit, the server may stop, `MaxRecv = 0`, `MaxSend = 1` | 63,552 | liveness |
| `cm_test_server` | 1 client, 1 server queue pair, callback never keeps | stops at the violation | the test's claim |
| `cq_safety` | 2 threads, K = 2, 4 completions, requests of 0 to 3, at most 1 failure per call, errors | 297,943 | safety |
| `cq_contract` | the same, tries of at most K, no failures | 136,227 | refinement and liveness |
| `callback_scope` | the three parameters and boxes for 1 connected and 2 datagram queue pairs and 2 queues, 11 device objects, 2 ports | 689,355 | safety |
| `verb_setters` | 3 slices, lists of up to 2, 2 ids, 2 operands, immediate data or none, all setters | 4.37 million | safety |
| `verb_moves` | 3 slices, lists of up to 2, moves, 1 id, 1 operand, no immediate data | 3.86 million | safety |
| `verb_stale_sgl` | 2 slices, no moves | stops at the violation | the doc's claim |
| `memory_slices` | 2 region objects, 2 buffers, 2 registrations of host or device memory, 4-bit words, one slot | 186,558 | safety |
| `memory_subslice` | 1 region, 2 slots | stops at the violation | the doc's claim |
| `datapath_depths` | 2 queue pairs, a shared and an own completion queue, all depths 3 | 726,506 | safety and liveness |

*Connection manager.* `PairedWithReadyPeer`: a client that has set its peer has one that
was in RTS before, names the client back and expects its PSN; so no two clients share one,
whatever they do at once and whoever exits. `CallbackIsolated`: while the callback runs,
nobody has its queue pair for a peer and nothing it sends is delivered, so a callback must
not wait for its client. `ReachableIffPort1`: two ends in RTS can talk, in both directions,
exactly if the client's port was 1 when its `connect` took its info, whatever it bound before
and binds later: `connect` attaches to port 1 whatever `bind_port` said, and `get_info` mixes
the GID of port 1 with the LID of the bound one.
`SendFailureExplained`: a client's send fails only if the peer is gone, the client is
misaddressed, or it sent more than the callback had posted receives for. `ConnectReturns`:
nobody hangs in `connect`, whoever exits, client or server, at whatever point.
`MeetsRendezvous` says of every step what `PairedWithReadyPeer` says of every state: no
peer, once set on either side, ever changes, a call is served at most once, and an address
goes to the client it is meant for.

*Completion queue.* `Accounted`: what a call took and what it still wants add up, plus one
for every failed `ibv_poll_cq` (a failure is counted as minus one completion).
`TakesOnlyItsOwn`: no call takes more than it was asked for, unless it is a try for more
than `kMaxPollCq`. `OverrunExplained`: memory is overrun only by those tries, or by
`poll_with_wc` after a failure. `ReturnsWhatItTook`, `GivesUpOnlyWhenEmpty`, `CallsReturn`
and `MeetsContract` say the rest of what a caller relies on.

*Verb.* `Coherent`: a post shows the adapter the verb as it is unless its list was changed,
or the verb moved, behind a valid cache; what is posted then is not spoken of.
`FieldsCoherent`: a work request marked valid has all the fields of the verb even then, but
for `signaled`, which a move into the verb may leave as it was. It is checked twice: with
moves, and in `verb_setters` with several ids and operands and immediate data.
`SameLengthReuse`: giving a
posted verb another list of the same length, the usual way to reuse one, is safe although
the work request is not rebuilt, as long as no list in between was longer.
`DanglingExplained`: the entry pointer dangles only if one was. `AtomicCapable`: the
assertion on atomics holds of what is posted, except for lists that came in behind it.

*Memory.* `OwnedOnce`: whatever is moved onto whatever, each registration the adapter has
and all device memory belongs to one living region object, and is released once; the memory
never stays behind because its registration was still there; and an object without a
registration has no extent from which a slice could be cut (`TypeOK`). `InsideRegistration`:
slices of slices may lie at the wrong place, but never outside of the registered memory,
unless a sum wrapped in a check or the region object was replaced in between; the bound
against the parent and the offset from the region together are never larger than the region.
It marks the wrap and the replaced region as the only ways out; it does not forbid them, as
the code does not.

*Ownership.* `OwnedOnce`: whatever is moved where, dropped or destroyed out of order, no two
objects hold one handle, and the device never has a queue pair that no object holds; what
leaks is always a completion queue. `OrderlyClean`: a program that keeps the order leaks
nothing, never touches a handle of a closed device, and never runs out of device objects,
however many clients come and go. A program that does not keep it is excluded: its leaks are
in the code, and `OwnedOnce` bounds them; that it needs the discipline is what the run's other
states show, where the handler finds the device full. `PortTold`: the port that `get_info`
tells is the one a datagram queue pair is attached to until the object is moved, and then
the default one, wherever the queue pair is attached.

*Data path.* `OverrunExplained`: a completion queue overruns only if more notified sends and
receives are posted and not polled than it has entries. So with the default depths
(`kQpDepth` = `kCqDepth`) a queue that serves one direction of one queue pair never
overruns, and the one that `tests/send_recv.cpp` uses for both directions may. `FullDrains`:
a send queue filled with a notified send among its entries has room again if the caller
polls; the caller that does not take care may fill it for good.

The deadlock check is off everywhere it could only report an intended end: every process
exited, every completion delivered, a panic. A wait for ever inside a call is what
`ConnectReturns` and `CallsReturn` exclude.

### What the three violated properties show

`SendWorksNormally` is the claim of `tests/send_recv.cpp`. The callback of
`tests/server.cpp` declares a box for the queue pair (`qp_box`), never puts it there, and
the by-value parameter destroys it when the callback returns, before the client even has
its address. The send fails.

`GetWrReflectsVerb` is the comment on `get_wr()` (`verb_pre.h:64`). After a list change,
`construct_sgl` renews the entries but `construct_wr` keeps the old pointer and number.

`SubSliceOfParent` is the comment on `rdma_memory_slice::slice` (`mem.h:241`). The bound is
checked against the slice and the offset counted from the region (`mem.h:249`), so a slice
of a slice that does not start at the region's start lies elsewhere.

### Bounds

`MaxRecv`, `MaxSend` = 1: one receive and one send per queue pair are enough for every order
of post, delivery, expiry and destruction; `SendFailureExplained` compares the two counts at
0 and 1. Two clients and two server queue pairs give every order of calls, a client that
connects twice and a handler that finds no queue pair left. Clients are interchangeable in
every definition, and so are the numbers of server queue pairs, so `cm_safety`, which checks
safety only, uses their permutations as symmetry. Ports 1 and 2: the bound port is the
default one or not. The port a client has remembered is read only by a `connect`, the first
or, after that, one more; `View` identifies states that differ only in a port that will
never be read again, because the client or its queue pair is gone, or in the counts and the
announced port of a queue pair that is gone (without it the same instance has 4.16 million
states and the same result). `cm_live` has no receives, so every send expires: what it asks
is whether `connect` returns, and sends matter only for how a client ends. K = 2 with
requests up to 3 gives a full batch, a short one, and a second round; 4 completions are more
than one call can take and fewer than two need. `MaxFails` = 1: one failed poll per call
shows its whole effect (one completion more is waited for). `MaxSge` = 2 lets the list grow,
shrink and hit the limit; `MaxLength` bounds the running length, which moves leave behind
and which would otherwise grow for ever. Slices are 8 bytes aligned, 8 bytes unaligned and
16 bytes: the three answers of `is_atomic_capable` on one entry. `verb_moves` has one id and
operand and no immediate data: moves treat these fields alike, and `FieldsCoherent` is
proved for all values.

Eleven device objects are the context's three, one for each of the five boxes and the three
of a handler: exactly what an orderly program can need at once, so that any leak makes it
fail. With `MaxLeaked` = 3 of them lost the handler fails at its first constructor, and
the exploration stops there. The handles' numbers say nothing: `View` identifies states that
differ only in them. Ports 0, 2 and 3 of a device with two: none, one that is not the
default, and one too many. Two datagram boxes are needed for a move, two queue boxes to keep
what the handler made. The application's own queue pairs use one queue for both directions.

Words of four bits with two buffers at 3 and 9 leave sums that wrap past the end, and land
before, in and behind a buffer; the offsets and sizes take every side of each check. One
slot is enough: a slice cut from the slice in the slot takes its place, so the slot runs
through every chain of slices. Two region objects and two registrations give every move
between a live, a moved-from and a dead object. Depth 3 in `DataPath` leaves room for a
notified send between unnotified ones; the completion queue of the same depth is fed by
three queues and can overrun, the other by one and cannot.

### Fairness

Weak fairness only, of code that runs on without waiting: the straight lines of `connect`
and of the handler, a thread in its polling loop, the adapter's completions, hrpc reporting a
lost server, and the callback,
which in `tests/server.cpp` posts one receive and returns. In `FullDrains` a caller that
waits for room polls, and the adapter works off its send queues; posts and arriving messages
are not fair. Whatever else an application decides (to call, post, poll, keep, stop,
destroy, exit) is not fair. `CallsReturn` further speaks only of callers that together claim
no more completions than there will be (`claimed`), as the test does: two threads that both
wait for the only completion wait for ever, and rightly so.

## Proofs

Every invariant and every action property and refinement that a passing run checks is
proved for all values of the constants, from the modules' own assumptions on them and those
that a theorem names; liveness is not (below). Each proof has the same plan: one lemma per
action says that it keeps the inductive invariant `IInv`, `Invariance` puts them together,
and the theorems follow.

`ConnectionManagerProofs` proves, for all sets of clients, server queue pairs and ports and
all bounds, from `QueuePairAssumption` and `ConnectionManagerAssumption` alone:

- `TypeCorrect`: `Spec => []TypeOK`
- `PairedWithReadyPeerHolds`: `Spec => []PairedWithReadyPeer`
- `CallbackIsolatedHolds`: `Spec => []CallbackIsolated`

Neither of the last two is inductive. That a client pairs well when it sets its peer depends
on the answer it was given, that on the state of the handler's queue pair when the answer
was made, and that on the address in the call. `IInv` therefore follows the handshake:
`CallsOk` (a call names its client), `CurOk` (how far the handler's queue pair has come,
per program counter), `ReplyOk` (an answer names a queue pair established for the one it
goes to), `PeerOk` (so does a client's peer), `AnswerHeld` (a client between INIT and RTS
has an answer), and, for the isolation of the callback, `Unknown` (no client and no answer
names the handler's queue pair) and `NothingDone` (no delivery before RTS). `Established`
is stable: after RTS a server's queue pair changes nothing but its state, to ERR or
DESTROYED. The two assumptions that client and server queue pairs are different and that
the server is no client are what keeps a step of one from touching the other. There is
one lemma per action; the lemmas before them state what a step that leaves the handler's
and the established queue pairs alone preserves.

`MemoryProofs` proves, for words of any size and any objects, slots, buffers, offsets and
sizes, from `MemoryAssumption` alone (buffers lie in the address space, and arguments are
words):

- `OwnedOnceHolds`: `Spec => []OwnedOnce`
- `InsideRegistrationHolds`: `Spec => []InsideRegistration`

Neither is inductive. A slice stays inside of a registration because the region object it is
cut from still has the pointer and size it was registered with (`RegionsHold`), because
registered memory does not reach the end of the address space, so that an offset inside of
it does not wrap (`BuffersFit`), and because its parent did (`SlicesHold`). `DeadHoldNone`
is what lets a place be used again without a leak. Device memory is freed (`ReleaseFrees`)
because a region object has no other than that of its own registration. `IInv` is their
conjunction with `TypeOK` and `OwnedOnce`. `TypeCorrect` is `Spec => []TypeOK`.

`ExchangeProofs` goes on from `ConnectionManagerProofs`:

- `ReachableIffPort1Always`: `Spec => []ReachableIffPort1`
- `SendFailureExplainedAlways`: `Spec => []SendFailureExplained`
- `MeetsRendezvousAlways`: `Spec => MeetsRendezvous`

They need more of the history of a call than `IInv` keeps, and `JInv` has it: a client is in
one call at most, which is queued, served or answered, and in none before and after
`connect` (`OneCall`); what a queue pair has got agrees with its state (`Phases`); a client
works with one answer to the end (`TookAnswer`); its queue pair is as it was created, but
for the port it remembers, until `connect` takes its info (`Fresh`, `IdleFresh`); what a
call or an answer says is what `GetInfo` said of the port announced then, although the port
may be another one since (`InfosOk`), and so are the paths made of it (`PathsOk`); a receive
that the callback posted is there or was used by its client (`PostedKept`). The refinement
is a simulation step by step, under the mapping in `ConnectionManager`: asking, answering,
connecting and losing a call are the steps of `Rendezvous`, and every other action leaves
its variables alone. That a step of `Rendezvous` has its guard is what `PairedWithReadyPeer`
and `TookAnswer` give.

`CompletionQueueProofs` proves, for any threads, requests, `kMaxPollCq` and completions:

- `TypeCorrect`, `AccountedAlways`, `TakesOnlyItsOwnAlways`, `ReturnsWhatItTookAlways`,
  `OverrunExplainedAlways`: `Spec => []P` for the five invariants
- `GivesUpOnlyWhenEmptyAlways`: `Spec => GivesUpOnlyWhenEmpty`
- `MeetsContractAlways`: `Spec => MeetsContract`, if `MaxFails` = 0 and no try is for more
  than `kMaxPollCq`

The invariant follows the loop of each call (`CallOk`): a call in flight was one the program
makes (`Called`), `poll` counts down and the others up (`Counts`), what a call took is what
it no longer wants and one more for each failure (`CountedFor`), a try that is still in its
loop has not failed and took all or nothing (`TriesOnce`), the vector is as long as asked
for and filled with what was taken (`Fills`), which is good (`GotGood`) and is what is
returned (`Returned`), and a call takes no more than it may (`Modest`). `ClaimsFit`: as long
as there are enough completions for all, the claims of the calls in progress fit side by
side among those claimed so far; without it `claimed` might go below zero when calls give
back. The contract is met step by step: one `ibv_poll_cq` of the code is one `Take` of
`CqContract`. The two conditions of `MeetsContractAlways` are those of the run: a failed
poll is counted as minus one completion, so after it a call takes more than it was asked
for, and a try for more than `kMaxPollCq` overruns its array. `OverrunExplainedAlways` says
that nothing else does.

`VerbProofs` proves, for any slices, values of the fields and `kMaxSge`, `Spec => []P` for
`TypeOK`, `Coherent`, `FieldsCoherent`, `SameLengthReuse`, `DanglingExplained` and
`AtomicCapable`. The invariant: the array of entries never shrinks and so still holds what
the work request counts (`Sizes`), valid entries are those of the list unless the verb was
moved (`EntriesFit`), a work request built since the list last changed has their number, and
the array was not replaced (`WrFits`), what was asserted of an atomic then still holds
(`AtomicBuilt`), and the running length is the sum of the list's sizes (`LengthCounted`);
and `FieldsCoherent` and `DanglingExplained`, which are inductive with these. The proof
found that the model's `construct_sgl` had two overlapping cases of which the code takes the
first; it is an `IF` now, as in the code.

`OwnershipProofs` and `CallbackScopeProofs` prove, for any device and any objects of the
application, `Spec => []P` for `TypeOK`, `OwnedOnce`, `PortTold` and, under the condition
below, `OrderlyClean`. `OInv`, about `Ownership` alone, says that the dead hold nothing
(`DeadHoldNone`), that two objects never hold one handle (`HeldOnce`), that what does not
exist has left no trace (`NoTraces`), that the device is empty without a context and has one
of each of its handles with one (`NoContext`, `ContextUp`), that objects hold what they are
for (`KindsFit`) and only queue pairs use more than the context (`UsesFit`), that queue
pairs are never lost (`QpsHeld`), that orderly programs have lost nothing (`Clean`), and
where a queue pair is attached (`PortTold`). The program of `CallbackScope` adds that an
orderly callback's promise holds until its parameters are gone, whatever order they go in
(`Kept`). `OrderlyCleanAlways` assumes finitely many objects and handles and
`Cardinality(Places) + 3 <= Cardinality(Handles)`: a device with a handle for each object
there may be and three for the context. That is the device of the run, and the least that
suffices for a program that uses all its objects.

`DataPathProofs` proves, for any queue pairs, completion queues and depths, however they are
shared:

- `TypeCorrect`, `OverrunExplainedAlways`: `Spec => []P`
- `DeepEnoughNeverOverruns`: `Spec => [](fate # "overrun")` if every completion queue is as
  deep as all the queues that feed it together. With the default depths (256 and 256) this
  is a queue for one direction of one queue pair; the one that `tests/send_recv.cpp` uses
  for both would need twice the depth to be safe whatever is posted

`OverrunExplained` is not inductive: that the completions outstanding
are those of different sends and receives, in order, is not said by any count. `InStep` says
it: for each completion queue there is a function `at` from its places to places in the send
and receive queues, so that the completion at place `i` is that of the notified send, or of
the receive, at `at[i]`; it grows along the queue for each queue pair and direction
(`InOrder`), and every notified send executed and every receive filled is in its range
(`AllSends`, `AllRecvs`). A step that adds a completion makes `at` longer; a poll takes its
first place away and moves the rest of its queue down. `at` is an injection into `Due`,
which gives `OverrunExplained`.

Only model-checked: liveness under fairness (`ConnectReturns`, `CallsReturn` and
`FullDrains`), which is beyond the prover. The claims of the three violated runs are false,
and TLC's counterexamples are all there is to say of them.

## Not modelled

- Reuse of queue pair numbers, and with it the fixed first PSN: a device gives every queue
  pair a new number in the model. Whether an adapter takes a stray packet of a former life,
  with the right number, address and PSN, is up to the adapter; nothing in the code tells.
  Numbers are unique across devices, which costs nothing: a number is only ever used
  together with an address. `ReachableIffPort1` speaks of InfiniBand, where packets go by
  LID; on RoCE, where the GID alone decides, the mixed address still works.
- The permissions of a region (constants of a type), remote slices (a record of three
  numbers), the zeroing of device memory.
- Failures while a context is opened (the process ends before it has done anything), and
  more than one context in a process. Memory regions, which use the protection domain, are
  in `Memory` and not in `Ownership`.
- XRC and DC queue pairs, which do not compile; `get_qp_info`, which nothing calls.
- Posting a range of verbs and `set_next`: the template cannot be instantiated (`set_next`
  takes a `const` verb and calls the non-`const` `get_wr`).
- Message formats, MTU, logging: no decision of the modelled code
  depends on them.

## Plan

1. done: QueuePair and ConnectionManager with their runs and the first three theorems;
   CompletionQueue with its contract; Verb; Memory with its three theorems; DataPath.
2. done: `Ownership` and `CallbackScope`; `Rendezvous` and the refinement of it.
3. done: the proofs of all invariants, action properties and refinements, in
   `ExchangeProofs`, `CompletionQueueProofs`, `VerbProofs`, `OwnershipProofs`,
   `CallbackScopeProofs` and `DataPathProofs`.
4. done: device memory in `Memory` and its proofs.
5. Left: what the abstract specifications promise, proved of them alone (that `Rendezvous`
   never pairs one address twice, that `CqContract` hands out each completion once), so that it
   follows for the code from the two refinements.
