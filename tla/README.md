# TLA+ specifications of CubeMPC

CubeMPC (`src/cubempc`) runs layered multi-party computation: `n` processes,
one per rank, exchange messages over TCP; process `k` plays party `P_k` of one
committee after the other (a *layer* each). Inputs are shared by a verifiable
secret sharing (VSS) that spans three committees, multiplications use masks
from a random-sharing protocol (RG) and move shares one layer on by resharing
(RS), and all decoding is Reed-Solomon decoding with up to `t` errors,
`n >= 4t + 1`.

This directory holds TLA+ models of that code, TLC runs that check them on
small instances, and proofs checked by TLAPS. `PROJECT.json` maps every
definition to the source lines it models.

## 1. Inventory

| Component | Source | State it keeps | Operations | What is hard about it |
|---|---|---|---|---|
| Inbound path of a node | `network/node.py` | `pending_messages`, `inbox`, a condition variable | `_queue_inbound`, `recv_until`, `clear_before_layer`, `clear_instance_state` | tasks interleave at every `await`; two containers mirror each other; timeouts race notifications |
| Transport of a node | `network/node.py` | `peer_writers`, a lock per peer, the server | `connect_peers`, `_write_framed`, `broadcast`, `stop_server` | reconnection, a frame sent twice, shutdown while peers still send |
| Vertex cover | `protocols/vss.py` | a matching in two dictionaries | `hopcroft_karp`, `minimum_vertex_cover_from_complaints` | re-pairing while a recursion unwinds |
| VSS | `protocols/vss.py` | per node: slice, column, complaints, cover, share | `run_vss_party` and its stages; `run_vss_batch` for a vector of secrets | faulty parties in two committees, agreement on what to leave out, interpolation without error correction; a batch of which some secrets are given up |
| Decoding | `rs_decode.py`, `utils/bw.py`, `shamir.py` | none | `berlekamp_welch_decode`, `robust_reconstruct` | fast path and slow path, too few points |
| Resharing, multiplication | `protocols/resharing.py`, `protocols/multiplication.py` | shares per layer | `run_resharing`, `run_mul` | a node that aborts without broadcasting |
| Random sharings | `protocols/rg.py`, pool in `protocols/mpc.py` | buffers per layer, counters | `run_rg`, `run_rg_batch`, `consume_to_keys` | counters in step on all nodes |
| Circuit evaluation | `protocols/mpc.py`, `circuits/` | the layer of each wire | `run_cubempc`, `align_wire_to_layer` | alignment moves a wire for later gates |
| Cost accounting | `metrics.py` | counters | `mpc_logical_cost` | must follow the refills and alignments of the evaluation |
| Drivers | `network/coordinator.py`, `*_multiprocess`, `_run_one_repeat` | process handles, a result queue | spawn, collect, join, terminate | workers that die, hang or report late; nodes that stop at different times |
| Stage runner | `benchmarks/run_mpc_stage_raw.py`, `async_util.py` | wires, scratch keys | layer loop with cleanup | cleanup while peers are a layer ahead or behind |
| Result files | `benchmarks/run_mpc_stage_raw.py` (`main`) | several files and their buffers, completed keys | write, flush, prune, `--resume` | a kill between two files |
| Remote workers | `benchmarks/distributed.py`, `*_worker.py`, `csv_io.py` | files | launch, wait, load | partially written files |

Components interact in three ways: protocol code calls `send_layer_msg` and
`recv_until` of its own node (many tasks of one event loop share the inbound
path); nodes exchange messages through the transport; the stage runner calls
the cleanup operations between the layers of a circuit. Around them a driver
launches one process per node and reads results from a queue, and a campaign
runs one driver after the other and appends what they return to files.

What makes each component correct is stated with its module below; for what is
not modelled yet it is the plan's last column (section 6).

## 2. Modules

### Inbound path: `NodeInbox`, `Mailbox`, `Arrivals`, `NodeInboxProofs`

`Mailbox` is the promise: messages become available in arrival order, a task
receives the oldest ones its filter accepts and never more than it asked for,
a message goes to one task only, cleanup discards whole kinds of messages.
`NodeInbox` is the code. The event loop switches tasks at an `await` only, so
an action is what a task does between two of them:

| Action | Code |
|---|---|
| `StoreInbound` | a connection handler (or a local delivery) enters `_queue_inbound` and asks for the lock |
| `QueueInbound` | it gets the lock: append to the list, append to the bucket, `notify_all` |
| `RecvPass` | one pass of the loop of `recv_until`: collect from the bucket, scan the list, then return, wait or raise |
| `WaitTimeout` | `wait_for` gives up, also when the notification is already under way |
| `ClearBeforeLayer`, `ClearInstanceState` | the cleanup calls, which take no lock |

A message is its arrival number and its kind. `pending_messages` and the
buckets are always in arrival order (`Numbered` is the invariant behind that),
so they are sets and "the first in the list" is "the oldest". The per-layer
copy of inbound messages (`state.values['inbound']`) is left out: nothing
reads it.

### Vertex cover: `VertexCover`, `Covers`, `VssProofs`

The algorithm one step at a time: the breadth-first search a level, the
depth-first search a column. The calls of `dfs` that are in progress are the
stack `calls`, each with its row, the column it is at, and the columns still to
be tried; it grows and shrinks by one call, and the two dictionaries are re-paired
by one pair for each call that returns `True`.

| Action | Code |
|---|---|
| `NextLevel`, `EndBfs` | `bfs`: the rows of the queue that have the same `dist`; then another round, or the cover |
| `Search`, `EndRound` | the `for` loop over the rows that are free at their turn; the next `bfs` |
| `TryColumn` | `dfs` reads the partner of its next column: a way out, a call one level deeper, or neither |
| `GiveUp`, `Unwind` | `return False`, which resets the level; `return True`, after the pair is changed |
| `Reach` | rows and columns reached for the cover, until there are no more |

The order in which the code tries rows and columns is kept. Inside a level it is
left out: which rows and columns are reached does not depend on it. `Covers` says
what a cover of complaints is, for this module and for `Vss`. The properties are
about the result (`CoverIsMinimum`: no cover at all is smaller), about every
re-pairing (`IsMatching`) and about rounds (`RoundProgress`): the searches of a
round rely on levels that the earlier ones have made stale, so that one of them
finds a way out, and the rounds come to an end, is not obvious.

### VSS: `VssIdeal`, `Vss`, `VssProofs`, `MCCovers`

`Vss` runs `run_vss` at every node. A node is a sequence of stages
(`com1` -> `com2` -> `scalars` -> `public` -> `com3` -> `done`), each an action; the dealer
sends its slices by one task per destination (`Deal`). Values are abstracted to
"what the dealer's polynomial gives" or "something else":

- a faulty com1 party (`byzantine_com1_rank` in the code, which changes the
  line of every destination) sends wrong lines to any set of columns;
- a faulty com2 party accuses any set of rows and forwards any values;
- `Decode(m, e)` is what Berlekamp-Welch decoding promises for `m` points with
  `e` errors: right up to `t` errors; above that nothing, or another
  polynomial when the errors are enough for one to agree with `m - t` points;
- a wrong line may by chance have the right value at one point, so the number
  of errors of a row ranges up to what the suspect columns allow.

`CoverOf` is a constant function with the assumption that, on the complaints
that can arise, it returns a minimum cover, whichever one. `CoverForVss` proves
that what `VertexCover` computes is such a cover. The TLC instances compute one
directly (`MCCovers`). `VssIdeal` is the promise: after the deal a
party may obtain its share, once, and it is the right one.

What the model assumes of its surroundings: a broadcast reaches everybody with
the same content (the code broadcasts by sending one frame to each peer), and
each party's message is received once. Then no column is missing from the
broadcasts, and the default for one in `run_vss` (`all_ij.setdefault`, which takes
it to accuse everybody) is not needed.

### A batch of secrets: `VssBatch`, `VssBatchProofs`

`run_vss_batch` goes through the stages once, with messages about all secrets.
`VssBatch` has the same actions as `Vss` (each is the `_batch` function of that
name), over one complaint set, cover and share per secret. What a stage computes
for a secret is taken from `Vss` itself: `One(b)` is the run that secret `b`
sees. The stages differ in one place: a secret without retained sets is given
up, and its node goes on to wait for values as long as another secret needs
them (`Needed`). `One(b)` counts it as done at that moment, with the default
share; that the code stores the share only at the end, or not at all if the
node fails while it waits, is not visible in it.

`ImplementsVss` is the point: whichever secret is chosen, the batch is a run of
`Vss` for it. So nothing that is wrong with one secret has an effect on another
that travels in the same messages. A message of another batch size, which ends
a node's run with an exception, is a `Fail`.

### Decoding: `Decoding`, `BerlekampWelch`

`BerlekampWelch` is the algorithm over a prime field: the fast path of
`rs_decode.berlekamp_welch_decode` (a polynomial through the first points,
accepted when enough points agree), the linear system of
`utils/bw.berlekamp_welch_decode`, its Gaussian elimination one column per step
(`EliminateColumn`), the division of the numerator by the error locator, and
the vector decoder that decodes component after component and refuses when the
components together have too many errors. A code (`Codes`) has its points, which
are distinct modulo `p` and otherwise any, in any order; its degree and its number
of errors are any too, so there may be too few points for the linear system, or
for the fast path. Polynomials are coefficients up to the largest degree, where
the code trims zeros; the vector decoder's early return with a component that has
no solution is `ReadSolution`'s second disjunct. `Decoding!Outcomes` is what the
other modules use instead: which of "right", "wrong" and "none" a decoder can
return for a number of points and of errors. `OutcomesCover` ties the two
together: whatever the algorithm returns, `Outcomes` allows. `Vss!Decode` is the
special case it needs. The theorems about the decoder follow those about its
caller, in `MultiplicationProofs`.

### Multiplication and resharing: `Multiplication`, `MultiplicationProofs`

`run_mul` at every node, with the resharing it ends in.

| Action | Code |
|---|---|
| `SendMasks` | a point of the masks to every node (`mul_mask_eval`) |
| `BroadcastProduct` | all mask points heard: decode `S_t` and `S_2t`; return without a word if one is missing, else broadcast `xy - S_2t` (`mul_d`) |
| `SendRow` | openings heard: decode the difference (it needs `4t + 1` senders), start `run_resharing` (`rs_mu`) |
| `AddMask` | rows heard: decode the reshared mask, which is 0 when that fails, and add the difference all the same |
| `Fail` | a receive times out |

A value is "right", "any" or "none". Because `recv_until` counts messages and
the transport may send a frame twice, `Heard(m)` lets a receive end with some
senders twice and others not at all, up to `Repeats` times in a run. The sends
of a stage are one step: a receiver cannot tell a message not yet sent from one
that is on its way. A failing node fails between its stages.

### Stage runner: `StageRunner`, `LayerBarrier`, `EvaluationProofs`

The loop over the layers in `_run_rank_async` (randomness in `batch_layer`
mode) at every node.

| Action | Code |
|---|---|
| `ShareStep` | one stage of one dealer's batch sharing inside `run_rg_batch` |
| `MaskPrep` | the layer's randomness is complete: clear the sharings' messages, send the masks of all gates |
| `StartGate` | `bounded_gather`'s semaphore admits the next gate |
| `GateStep`, `FinishGate` | the online stages of `run_mul`, then `_clear_mul_scratch` |
| `FinishLayer` | pop the operands, `clear_before_layer`, go on |
| `Fail` | an exception ends the worker |

There is no barrier in the code. `LayerBarrier` is the promise that comes out
of the messages: a node finishes a layer only when all have finished the one
before. A clearing may drop any message that its node has not received and
that may have arrived (`Lost`); `NothingUnreceivedIsCleared` says that no such
message exists. A message of layer `L` of the circuit belongs to layer
`L + Ahead(kind)` of the protocols, which is what `clear_before_layer` looks
at. What a stage sends is available when the stage ends. Not included: the
sharing of the inputs before the first layer and the `per_gate` mode.

### Transport: `PeerLink`, `PeerLinkProofs`

All frames of one node to one peer. Each is sent by a task of its own, as
`_write_framed` is called from many protocol tasks; they share
`peer_writers[dst]` and the peer's lock.

| Action | Code |
|---|---|
| `UseRegistered`, `Connect`, `Opened` | `_get_peer_writer` and `_connect_peer`: use the writer, or close it, open a connection and register it over whatever is there by then |
| `Woken` (and `Enter`) | the lock is taken and the frame written |
| `Drained`, `DrainRaises` | `drain` returns, or raises and the writer that is registered *now* is closed |
| `Refuse` | `open_connection` raises |
| `Retry` | second attempt, or the exception is raised again |
| `Lose`, `Receive`, `Break` | the event loop notices a lost connection, the peer reads a frame, the network breaks a connection |

A break shows late: writing to a connection that is "broken" looks like
success until `drain` or the event loop finds out. A task may close a
connection that others are using (line 263 closes the registered writer, not
the one that failed). The properties say what that can cost: nothing that was
reported as sent is lost except with a connection that the network broke
(`NoQuietLoss`), one lost connection repeats at most one frame
(`OneRepeatPerConnection`, the reason why `Multiplication` treats repeats as
rare), and every send ends (`Settled`). What they do not say: a single broken
connection can make two sends raise, because the retry of one may be cut off
by the failure of the other, which closes the connection just opened.

### Runs: `Session`, `SessionProofs`

One run with its processes: the nodes from `start_server` to `stop_server` and
the driver that launched them. Four kinds of drivers differ in what they do
about errors: `run_ping_benchmark` (collects all, then terminates), those of
VSS, MUL, RS and RG (raise at the first error, join with `join_worker_processes`),
`run_cubempc_multiprocess` (raises, joins, terminates nobody), and
`_run_one_repeat` (notes errors, joins for a while).

| Action | Code |
|---|---|
| `Listen`, `Connect`, `Begin` | `start_server`; `connect_peers` until all are connected (a ping node waits `startup_delay` instead) |
| `Send`, `Advance` | a round of a protocol: a message to each peer, then their messages; the nodes in `Early` skip the last wait, as a node that gave up in VSS does |
| `Close`, `CloseServer`, `Stopped` | `stop_server`: close the connections one by one, close the server, wait until the peers have closed theirs; then the result is put into the queue |
| `Exit` | the process ends |
| `Fail` in `Refused`, `TimeOut`, `Fault` | an exception: its text goes into the queue instead |
| `Fault`, `Die` | a process is killed, hangs or raises |
| `Collect`, `Deadline`, `Reap`, `Finish` | the driver's loop over the queue, its deadline, `terminate_all` or the end of `join_worker_processes`, the verdict |

`wait_closed` waits for the open connections from Python 3.12 on, which the
code needs for its nested quotes in f-strings (`coordinator.py:109`). That wait
is what makes `stop_server` a barrier (`StopIsBarrier`): a node's early return
costs nobody a message, because its server lives on until all peers have closed.
Without it a run fails although nothing went wrong (`FailureHasCause`). And it
is a place where all could wait for all, were the own connections not closed
first (`Termination`).

### Result files: `Campaign`, `CampaignProofs`

`main` of the stage runner, launch after launch over the same files. Rows go
from a writer into a buffer and from there, at the `flush` of that file or when
the buffer is full (`Spill`), to the disk. A kill (`Crash`) loses the buffers,
an exception (`Interrupt`) closes the files one by one, which writes them.

| Action | Code |
|---|---|
| `Launch`, `Prune` | `--resume`: the keys with a count row of success; batch rows of others are dropped |
| `OpenWriter` | without `--resume`: each file is truncated |
| `Skip`, `RunOneRepeat` | the loop over the repeats; an attempt that raises leaves the rows of a failure |
| `Write`, `Flush` | the writers in their order; then the flushes in theirs |
| `Finish`, `Interrupt`, `Close` | the end of the loop, or the `finally` clause |
| `Crash`, `CrashInHeader` | the process is killed; the same between the opening of the count file (`_open_writer`, `_write_header`) and its header's way to the disk |

Four of the seven files are modelled: those `--resume` reads or prunes (`count`,
`batch`), one written for each attempt (`comm`), and one for successful attempts
only (`summary`), which stands for the other three. What matters is the order: a
count is flushed after the batch rows it vouches for and before the costs.

`--resume` writes a header only into files that do not exist, so a count file that
lost its header to a kill (`header`) keeps without one the rows that are appended to
it: readers take the first row for the header and find no success, and nothing in
it counts until a fresh launch. Headers of the other files are left out: pruning
restores that of the batch file, and `main` does not read the rest.

### Circuits: `CircuitRun`, `EvaluationProofs`

`run_cubempc` with the preprocessing pool, `validate_circuit`,
`evaluate_plain`, and `mpc_logical_cost`. What a node does depends on the
circuit and the mode only, so all nodes make the same calls in the same order
and one node is modelled; calls of VSS, RG, RS and MUL do what their modules
promise. A share is represented by the expression it is a share of, so two
shares are of the same value only if they were computed alike.

| Action | Code |
|---|---|
| `Reject`, `ShareInputs` | `validate_circuit` raises; `run_vss` for all inputs |
| `Refill` | `_refill_rg`: `n - t` more sharings for a layer |
| `AlignGate` | `align_wire_to_layer` for the operand that is lower, a layer at a time |
| `InputGate`, `CmulGate`, `AddGate`, `MulGate` | the branches of the loop over the gates |

`Plain` and `LogicalCost` are computed from the circuit alone, as
`evaluate_plain` and `metrics.py` do: functions over the prefixes of the list of
gates, `Account` with the counters, the layers of the wires and what is left in
the buffers after each prefix. The specification is called `CircuitSpec` (and
its parts `CircuitInit`, `CircuitNext`) because `EvaluationProofs` extends
`StageRunner` too. Only one operand of a gate can be below the other, so the order in which
`metrics.py` visits the set of the two does not matter. The constants of `cmul`
gates, and the check that they are there, are left out.

## 3. Runs

| Run | Instance | Distinct states | What it shows |
|---|---|---|---|
| `MCNodeInbox` | 3 receives, 2 of which compete; 3 kinds, 2 inbox keys, 4 messages; timeouts and both clearings | 88 511 | list and index stay equal, nothing is delivered twice, no call sleeps on something it could have, what has arrived is received, refinement of `Mailbox` (order, and never more than asked for) |
| `MCVertexCover` | every 4 x 4 complaint matrix | 1 639 675 | a minimum cover, one matching in both directions, no row loses its partner, each round matches one |
| `MCVss` | `n = 5`, `t = 1`, a faulty row, a faulty column | 38 628 | accusations are about lying rows; agreement on the cover; refinement of `VssIdeal`; termination |
| `MCVss_two` | `n = 9`, `t = 2`, two faulty rows and two faulty columns, a node that may fail, nodes in rank order | 22 741 | covers reach `2t` and no further; shares are right where several errors add up |
| `MCVssBatch` | two secrets, `n = 5`, `t = 1`, two faulty rows, a node that may fail | 20 880 | each secret of a batch is shared as if alone; termination also when some are given up |
| `MCBerlekampWelch` | words of 2 to 5 values at points in any order over the field of 7, one or two components | 5 708 | decoding is right, complete, and within `Outcomes` |
| `MCMultiplication` | `n = 6`, `t = 1`, a faulty node, one that may fail, three repeated frames | 139 391 | whose share a repeated frame can cost; one node's abort stops all; termination |
| `MCStageRunner` | 3 nodes, 3 layers of 2 gates, 1 gate at a time, a node that may fail | 14 617 | barrier, clearing, operands, no deadlock among gates |
| `MCPeerLink` | 3 frames, one connection breaks, one is refused | 357 335 | nothing quietly lost, few repeats, every send ends |
| `MCCircuitRun` | `n = 5`, `t = 1`; all circuits of 3 gates over 2 inputs; also malformed ones of 2 gates | 95 222 | evaluation agrees with the plain one, sharings are used once, cost is predicted |
| `MCSession` | 3 nodes, 2 rounds, one node returns early; all four drivers; one process is killed, hangs or raises | 1 057 452 | `stop_server` is a barrier, a run without faults succeeds, driver and processes end |
| `MCCampaign` | 3 repeats, one of which may fail, 2 batch rows each, 3 launches | 102 578 | counted repeats have their rows, none is run twice, costs follow counts, nothing is left out |

**Bounds.** `MaxMessages`, `MaxBreaks`, `MaxRefusals`, `Conn`, `Repeats`,
`MayFail`, `Targets`, `Lies`, `Dealer` (of `StageRunner`), `Early`, `Rounds`,
`MaxFaults`, `StageRows`, `MaxLaunches` and the sets of circuits, codes and graphs
bound the instances; each is named as a bound where it is
declared. They are chosen so that the interesting cases occur: four messages
let two competing calls that need two each starve one another; three frames
are one that fails, one that reconnects and one that waits; seven connections
are as many as six attempts can open; four rows and columns let a round have a search that
fails, one that re-pairs two rows and one that meets levels made stale by it, and
need several rounds; three layers make a message meet both
the clearing of its own layer and that of the next; `n = 5` makes `n - t = 4`
sharings per refill against draws of 4 and 1, so buffers run dry in between;
with `n = 6` there is one sender more than the opening needs, and three repeated
frames are as many as make masks undecodable. In `MCVssBatch` two faulty rows,
twice `t`, make a secret given up or not by what they lie about it (`Lies`: to
all targets or nobody), so that one, both or none of the two is given up; the
secret named in `Chosen` is any of them. In `MCSession` two rounds let a node
return before the last wait while the others are in it, and three nodes give one
that dies, one that waits for it and one that waits for that one. In `MCCampaign`
three launches are one that is cut short, one that resumes and is cut short
again, and one that mends; two batch rows can be cut apart. `MCVss_two` takes
the nodes in rank order (its CONSTRAINT): what a stage reads is fixed before
any node is in it, so the order of the nodes is immaterial there; `MCVss`
explores all orders. Deadlock is checked in `MCCircuitRun`; the other systems
rightly stop.

**Fairness.** Liveness is checked under weak fairness of "some task, or some
node, that can take a step takes one": the event loop and the operating system
run what is ready. (`NodeInbox` asks it of each call, as `asyncio`'s queue of
ready tasks is first in, first out.) Nothing is assumed to arrive, to time out
or to fail; the properties have that as an alternative in their conclusion. In
`Session` the timeouts are among the steps that are taken in the end, as clocks
run, but they strike only after something has gone wrong: a timeout that is too
short for a run that is well counts as a fault, as does a ping node's startup
delay that is too short for its peers.

Every property has a mutant in `PROJECT.json`: a form of a definition, beside
it in its module, that a plausible bug would have, and under which the run finds
the property violated.

## 4. Proofs

All theorems hold for every value of the constants that satisfies the modules'
assumptions, and are checked by TLAPS without an unproved step.

- `NodeInboxProofs`. The inductive invariant is `Inv`: types, `Numbered`
  (arrival numbers are unique and below `arrived`), `Mirror`, and that what calls
  hold and what is available are disjoint and ordered. `Mirror` alone is not
  inductive: removing "the same message" from both containers is only the same
  because numbers are unique. From it: no lost wakeup, exactly-once, order, and
  `Implementation`, the refinement of `Mailbox`, whose core is the lemma that an
  indexed part and a scanned part together take the oldest messages.
- `VssProofs`. `Base` (types, the order of the stages, what decided nodes have
  computed) holds without a fault bound and gives `Agreement`. With
  `FaultBound` (at most `t` faulty parties in each committee) `Honest` adds that
  accusations are about lying rows; then the cover is at most `2t`, the errors
  of a retained row lie in covered or faulty columns, and every outcome of the
  reconstruction is right (`ShareIsRight` has one case for each branch of the
  code) and no node gives the secret up (`NoSecretGivenUp`).
  Which cover a node computes plays no part, only that it is a minimum one
  (`CoverAssumption`); the next item discharges that.
- `VssProofs`, for `VertexCover`: any finite sets of rows and columns, any
  complaints. `IsMatching` is inductive only with `Stacked`, that the calls in
  progress are one alternating path whose levels rise by one, and that the column
  about to be given away is nobody's; so `CoverInv` adds the rest of what the code
  relies on between its two searches. `Parented`: a row with a level above the
  first has one below it that leads to its partner. `Broad`: levels that are done
  lead to no row without a level. `Tried`: the columns a call is done with lead
  nowhere, which is why resetting a level (`GiveUp`) cuts off no way out. `Turns`:
  as long as no search of the round has succeeded, some row still has a way out
  and the rows that have had their turn have no level. Hence `Progress`: at the end
  of a round without success no row would have level 0, but the row that has a way
  out has a least level, and the row with the least level has one below it unless
  that is 0. For the result, `Closed`: what is reached for the cover was reached by
  the last search, which found no free column. `MinimumCover` is then Koenig's
  argument by injections (`CoverIsLeast`): the partners of the rows that are left
  out here and not in another cover are columns left out there and not here, and
  the other way round. `CoverForVss` puts it in the words of `CoverAssumption`.
- `VssBatchProofs`. `Refinement`: every step of the batch is, for each secret, a
  step of `Vss` or leaves it alone. The invariant behind it (`Vectors`)
  says that a node has no cover before `public`, so that a secret can only be
  given up there. Together with `VssProofs`, whose theorems hold of every
  behaviour of `Vss`, it makes each secret's share right; the prover's `INSTANCE`
  does not carry those theorems over, so the conclusion is drawn here and not in
  a module.
- `MultiplicationProofs`. `Staged` relates what a node has sent to what it has
  decoded; `Sound` says that within the fault bound decoded masks are right
  and openings and rows are right or missed a sender. `AbortIsCollective`
  needs no fault bound.
- `MultiplicationProofs`, for `BerlekampWelch`: any prime, any code, any values.
  That `p` is prime enters by one assumption, `FieldAssumption`: the power that
  `mod_inv` computes is an inverse. The invariant is `DecodeInv`: what is decoded so
  far is near the values; the fast path was taken when it could be (`FastFirst`);
  and (`Eliminating`) the matrix always has the solutions of the system it was
  built from, and its pivots' columns are 1 in one row and 0 elsewhere. At the end
  the solution that is read off solves every row unless a row says 0 = 1
  (`SolutionSolves`, `SolvableConsistent`). A row holds exactly when
  `Q(x) = y E(x)` (`RowHolds`), so the right polynomial times a locator of its
  errors is a solution (`AnswerSolves`), and there is such a locator
  (`Vanishing`); the system is solvable when there is an answer. The
  elimination may find another solution, as the system may be underdetermined; but
  where the values are right, `Q` agrees with the answer times `E`, and these are
  enough points for `Q` divided by `E` to be the answer without a remainder
  (`SolutionDecodes`, by `NoSmallMultiple`: a polynomial has no more roots than its
  degree). Two answers would agree on too many points (`Overlap`, `NearUnique`),
  which settles the vector decoder and that the fast path returns the same as the
  slow one. Beneath are congruences, Horner's rule, sums, the coefficients of a
  product and the recursion of the division, each with an induction of its own
  over the indices (`Upward`, `Downward`).
- `EvaluationProofs`, for the stage runner. `Ordered` is the heart: who is in a
  layer has been sent the rows of all gates before it, nodes are at most one
  layer apart, and the sharings of a layer precede its gates everywhere. From it
  follow the barrier, that a clearing has nothing to lose, and that a node which
  stops has been sent everything (`StoppedLast`, which `Session` checks of all
  drivers).
- `EvaluationProofs`, for circuits: any circuits, any `n >= 4t + 1`
  (`CircuitAssumption`), both modes of randomness.
  `UsedOnce`: that a sharing is never used twice says nothing of the next draw, so
  `PoolInv` relates four parts of the state. `Underway` and `Layered` say where
  the evaluation is and that a wire is at or above the layer of what it was
  computed from; `Pooled`, that each buffer holds sharings of its own layer,
  all different and numbered below what the layer was given; `Drawn`, that a
  sharing that was used is in no buffer, and which keys are taken: those of the
  layers below a wire's, and of the gates already evaluated. A key is never
  taken twice because a wire only moves up and a gate is evaluated once.
  `PlainShares`: on top of it `Evaluated`, that the wires evaluated so far have at
  their layer a share of what `Plain` gives them.
  `CostPredicted`: `Accounted` ties each state to the account of the gates before
  the current one. Between two gates the counters, the layers of the wires and the
  buffers are those of the account; inside a gate they differ by the moves already
  made, and a refill made for a draw that has not been made yet is one round paid in
  advance (`Prepaid`). `metrics.py` computes the refills of an alignment and of a
  gate's masks in one go, the pool by single draws: `RefillAccount` and
  `DrawAccount` show that they come to the same.
  `Plain` and `Account` are recursive functions; that each satisfies its
  equation (`PlainUnfolds`, `AccountUnfolds`) is proved from a least index at
  which it would not.
- `PeerLinkProofs`. A frame that a connection has taken is sent once and for
  all, or being written by the lock's holder, or its first connection is lost
  (`FirstIsLost`); and of two frames with the same first connection one is sent
  once and for all (`OneUnsettled`). The two are inductive only together: a
  frame that is now written to a connection cannot share it with an unsettled
  one, because that one is not in the lock and its connection would be lost.
- `SessionProofs`. `StopIsBarrier` speaks of nodes that need not have heard the
  last round themselves, so what they know comes from connections: `Links` says
  that an open connection leads to a process that goes on, a dead one to one that
  has gone without a result, and that none is left out when a protocol runs;
  `Sends` and `Heard` what a node has sent and heard by the time it is this far. A
  node that has stopped has heard everybody once, so everybody was connected to
  it, and it has waited until they were not. `Blameless` adds that without faults
  who has gone has put a result, and gives `Cause`.
- `CampaignProofs`. `Files` says of the repeats what the properties need, and that
  a repeat still to be run has no batch rows; `Attempt` what file and buffer hold
  together for the one in progress, at each place in the order of writing,
  flushing and closing: no count is on the disk, nor in the buffer, without its
  batch rows. `Kept` leaves out files that a launch was killed emptying or creating;
  `Headed` says that the count file has its header in all others once it has rows.
  `NoneLeftOut` needs what a launch knows of its own past: `Filled`, that a buffer
  written and not yet flushed has the attempt's row, and `Progress`, that the
  repeats passed are completed, and the completed ones counted, the one in progress
  excepted until its flush. `CostsBehind` compares a number of attempts with a
  number of launches: `Late` are the attempts that would lack their cost if the
  launch ended here, and `Costs` bounds them by the launches that have been cut
  short.

## 5. What is only model-checked, and limits

Liveness (`EnoughIsReceived`, `Settled`, the `Termination`s) is checked by TLC
only; the prover does not handle fairness. Every safety invariant the runs check is
a theorem, and so is every action property and refinement; those about `Vss` and
`Multiplication` that hold only up to a number of faulty parties suppose
`FaultBound`. The library's induction theorems take an operator, which the
provers cannot instantiate; the inductions here are about sets of numbers or about
functions, from a least element.

Abstractions to keep in mind: a broadcast has the same content for everybody
in all models, although the code sends one frame per peer and a faulty node
might not; `Vss` and `VssBatch` take each party's message as received once, only
`Multiplication` has repeated frames; in `Multiplication` and `Vss` field
arithmetic is "right or not"; the nodes of `StageRunner`, `Session` and
`CircuitRun` follow the protocol. `Session` takes a message that a connection has
taken as delivered (what happens on a network that fails is `PeerLink`'s
subject), and the sockets of a worker that raises as closed when its event loop
ends. `Campaign` writes whole rows: a kill may also tear one, which a reader of
the files sees as a malformed last line.

What the code does not promise, seen while modelling:

- A launch that is killed between creating the count file and writing its header
  leaves a file whose rows `--resume` never recognises: it drops their batch rows and
  runs all repeats again (`CrashInHeader`). The properties of `Campaign` are not
  about such files.
- A fresh launch that is killed while it truncates its files leaves counts
  without batch rows; `--resume` skips those repeats. The properties of
  `Campaign` are about files that were not cut so (`Whole`).
- `--resume` never adds a row of costs that a kill has lost, and prunes the batch
  file only: failed attempts keep their rows in the others.
- What counts as done is known by `n`, depth and repeat only, not by the width or
  the mode of the randomness.
- A driver that raises at the first error leaves its workers to themselves. They
  end by their timeouts; one that hangs is waited for at the interpreter's exit.
  `stop_server` has no timeout either, so a hung node keeps the others from
  stopping; `Termination` of `Session` says as much. `Coordinator.__enter__`
  raises before `__exit__` can terminate anything (nothing in `src/` uses it so).
- The stage runner does not terminate workers that are left over; the next repeat
  uses other ports.

Not modelled: encodings, ports, configuration and measurements, field arithmetic
for its own sake, workers on other machines, the compressed task file and the
detailed call file.

## 6. Plan

Done: inbound path; cover and VSS; decoding; multiplication; stage runner;
transport; circuits; batches of secrets; runs with start-up, shutdown and
drivers; result files.

| Next | Sources | What would make it correct |
|---|---|---|
| inputs and `per_gate` randomness in `StageRunner` | `benchmarks/run_mpc_stage_raw.py` | the same properties with nested `bounded_gather`s |
| `RandomSharing`: the combination in `run_rg` | `protocols/rg.py` | with `t` dealers faulty each output still has an honest dealer's secret in it |
| remote workers in `Session` | `benchmarks/distributed.py`, `benchmarks/mpc_stage_worker.py` | a result is read when it is whole, and a worker that failed is not taken for one that is slow |

Launching remote workers by `ssh` and the standalone benchmarks are command
lines around these parts and stay out.
