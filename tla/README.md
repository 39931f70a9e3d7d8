# Airbot: formal models, checks and proofs

This directory keeps TLA+ models of the Airbot program beside its C sources (`src/src/*.c`), the
TLC configurations that check them on small instances, and TLAPS proofs of the properties that
matter most, for every value of the constants. `PROJECT.json` lists the components, the runs, the
lines every definition stands for, the hazards the properties are aimed at, and the theorems.

Airbot has two halves in one binary. One is a **bit machine**: units ("EIUs") of bytecode, state and
rights that are verified, executed and evolved. The other is a **private transport**: onion layers
over TCP, a replay filter, a batching relay, a pinned relay directory, and a policy gate that keeps a
process in privacy mode away from every socket but its Tor proxy's.

## 1. Inventory

### The transport

| part | code | state | operations | what must hold |
|---|---|---|---|---|
| Network policy gate | `netpolicy.c` | the mode, `validated`, the proxy, the counters, whether privacy was requested: globals without a lock | `init_from_env`, `set_mode`, `set_proxy`, `authorize_dial / family / dns / listen`, `preflight` | privacy mode permits sockets to the loopback proxy only; it looks up no names; it is not left behind the user's back |
| Transport | `transport.c` | sockets | dial (three gates), listen, accept, send, receive, close | no dial passes the gate; every socket is closed |
| SOCKS5 client | `socks5.c` | one socket at a time | `socks5_probe`, `socks5_connect` | each of its failures closes the socket |
| Frames and relays | `transport.c`, `netcmd.c` | a relay's connection in hand, its frame, its count | `transport_send_frame`, `_recv_frame`, `relay`, `net-send` | what is passed on or reported is what was sent |
| Network commands | `netcmd.c` | the role of the process | `net-probe`, `net-echo`, `net-send`, `relay`, `privacy-preflight`, `privacy-probe`, `privacy-fetch` | a stream needs a preflight that vetted the very proxy in use |
| Onion layers | `onionx.c` | relay identities | `ox_wrap`, `ox_peel` | layers come off at the relay they are for, which names the next |
| Replay filter | `onionx.c` | an open-addressing table of ids, a count, an epoch | `ox_replay_init`, `_check`, `_reset` | within an epoch no id is admitted twice, none is refused unseen |
| Onion channel | `airbchan.c` | none of its own | `airbchan_send`, `_recv`, `_forward_to`, `_exit_payload`, `_max_payload` | what a relay peels still fits the next constant-size envelope |
| Relay directory | `relaydir.c` | an array of pins | `rd_pinset_init`, `rd_pin_add`, `rd_validate` | only pinned keys are handed out; generations never go back, and a refused entry moves none |
| Batching queue | `batch.c` | slots with used marks, a count, the first arrival | `batch_init`, `_enqueue`, `_should_release`, `_release`, `_flush` | bounded; a batch leaves whole; its deadline is its oldest frame's |
| Batching relay | `measure.c` | the queue and the output under `g_lock`, `g_stop` without it | `run_mode`, `relay_thread`, `flusher_thread` | no frame is lost or emitted twice; shutdown ends although the dial that wakes the relay may fail |
| Live socket test | `livetest.c` | one context for each relay thread, read by `main` without a lock | `livetest_run_all`, `relay_thread` | a verdict of "passed" is true although it is read from contexts still being written |
| Length-hiding frames | `privframe.c` | a key of the process | `privframe_set_key`, `_encode`, `_decode`, `_send`, `_recv` | its two parsers agree; frames are accepted whole, once and in order; their size tells the bucket only |
| Onion simulation | `onion.c` | a circuit, a replay filter of slots by hash | `onion_wrap`, `_unwrap`, `_simulate`, `replay_filter_check` | every relay peels one layer and the payload comes out, if it fits |

### The bit machine

| part | code | state | operations | what must hold |
|---|---|---|---|---|
| Virtual machine | `vm.c` | registers, flags, two stacks, memory, output, fuel | 32 opcodes | a failed instruction does nothing; calls nest; fuel bounds every run |
| Static verifier | `verifier.c` | none | `verifier_analyze` | a verified program stays inside its code |
| Environment, evolution | `environment.c`, `state.c` | a trace of hashes | `env_execute`, `state_evolve`, the two detectors | an execution depends on the unit's state alone; what the detectors say is true |
| Units | `eiu.c` | the unit: sections, flags, fuel, a content hash | the setters, validate, hash, serialize, deserialize | what a file lost is noticed |
| Capabilities | `capability.c` | rights, generation limit, token, expiry | init, attenuate, check, compute and verify a token | rights never grow; a token speaks for the rights it was computed for |
| Experiments | `experiments.c` | none that outlives a call | `experiment_h1`, `_h2`, `_h3`, `experiments_run_all` | the scores are those of the programs |
| Replicator, matrix | `replicator.c`, `matrix.c` | a population with an entry for each unit | replicate, run a round, count the different units | an entry says what its unit is; equal units stay equal |

### Under both

| part | code | state | operations | what must hold |
|---|---|---|---|---|
| Hashes | `blake3.c`, `sha256.c` | partial block, chunk, stack of subtrees, total | init, update, finalize | the digest depends on the message, not on the pieces it came in |
| Authenticated encryption | `chacha20.c` | counter, partial block of the MAC | encrypt, decrypt, Poly1305 | only what was sealed is opened |
| Key agreement | `x25519.c` | limbs of field elements, the ladder | `x25519_scalarmult` | it multiplies, for every scalar and every representative of the point |
| Key schedule | `sha256.c`, `onionx.c`, `airbchan.c` | relay identities | HMAC, HKDF, `derive_hop_key`, `ox_derive_labeled_key` | both ends have one key, and no other pair, key or label has it |
| TLV and bit streams | `tlv.c`, `bitstream.c` | a buffer and a place in it, in bits | write, read, skip, seek, encode, decode | what is read is what was written there, or it is refused |

### How they interact

`main` reads the environment into the gate and dispatches to one command. Network commands call the
transport, which asks the gate before every dial; privacy commands go through the SOCKS5 client,
which asks it once more. The onion channel calls the onion layers, which call the replay filter. The
live test and the measurement start threads of their own: the live test's relays share the gate's
globals with the main thread, the batching relay shares its queue with a flusher. On the other side
`evolve` calls `state_evolve`, which calls `env_execute`, which loads and runs the machine; the
verifier is a command of its own (see section 7). `replicate` reads a unit from a file and copies it;
`matrix` runs a population in one environment, unit after unit. Units are hashed with BLAKE3, keys
are derived with HMAC over SHA-256, and layers, envelopes and frames are sealed with
ChaCha20-Poly1305.

### What is hard here

* **Threads.** The queue is locked; the stop flag, the mode and the live test's contexts are not:
  main reads field after field while a thread writes field after field.
* **Blocking.** `accept` has no timeout. Shutdown depends on a connection made to wake it, which may
  fail as any dial may.
* **The network.** Envelopes can be repeated, late or misrouted; any call can fail or do half; a
  frame arrives in any parts, or only in part.
* **Order.** The gate's safety depends on the order in which five callers set the mode, set the
  proxy, validate and dial.
* **Limits.** The replay table empties itself when full; queue, pins, trace and stacks have limits,
  and the sizes of layers, envelope and bucket are computed in three files. Digests close a block, a
  chunk or a subtree only when more input follows.
* **Stale data.** A validation for another proxy, a pin that shadows a newer one, a counter kept
  apart from the slots it counts, a machine register that survives an execution.

`PROJECT.json` gives every hazard its line and the properties that would catch it.

## 2. Modules

| module | models | its state and actions in the code |
|---|---|---|
| `ReplaySet` | what the replay filter promises (abstract) | a set of ids that is emptied when full |
| `ReplayWindow` | `ox_replay_*` | `slot` is `used[]` with `ids[]`, `count` and `epoch` are the code's; `CheckFresh`, `CheckReplay` are the outcomes of `ox_replay_check`, `Rotate` is `ox_replay_reset` |
| `BatchPool` | what the queue promises (abstract) | a bounded pool of frames, and those gone |
| `BatchQueue` | `batch.c` | operators on the queue record, one per function |
| `BatchRelay` | the threads of `measure.c` | one program counter for each thread; a critical section is one action because nothing it touches is read outside the lock |
| `PinStore` | what the pins promise (abstract) | a map from label to key with a generation floor, and whom the last call vouched for |
| `RelayDir` | `relaydir.c` | `pins` is the array, cut addresses are labels; `PinsetInit`, `PinAdd`, `Validate` with its six tests in order |
| `NetPolicy` | `netpolicy.c`, the gates of `transport_dial_ex` | the globals as variables; every authorization is an operator that returns the code's answer |
| `NetClient` | `netcmd.c`, `socks5.c` over `NetPolicy` | one network command from entry to exit status, an action for each call or stage of an exchange that may fail |
| `OnionPath` | `onionx.c`, `airbchan.c` | relays' windows, the network as a set of envelopes; `Send`, `Forward`, `Deliver`, `Refuse` |
| `FrameRelay` | `transport_*_frame`, `cmd_relay`, `cmd_net_send` | connections with the frame their writer means to send and the bytes of it that were written; a program counter for each relay and client |
| `LiveTest` | `livetest.c` over `NetPolicy` | a program counter for main and for each relay; each store to a context and each load of one is a step of its own, in the order of the source |
| `Bytecode` | the encoding of instructions, `verifier.c` | operators |
| `BitMachine` | `vm.c` | an action for each group of opcodes, bytes and words at their width |
| `Environment` | the loading half of `environment.c` | `LoadUnit` puts code, state and rights into a machine within the environment's fuel and rights |
| `Evolution` | `environment.c`, `state.c`, `cmd_evolve` over `Environment` and `BitMachine` | load, run, take over the state, record, detect |
| `Units` | `eiu.c`, `replicator.c` | operators on units and on the files they are kept in |
| `Population` | `matrix.c`, `cmd_replicate`, `cmd_matrix` over `Environment`, `BitMachine` and `Units` | `units` and `entries` are the arrays, `turn` the loop index; `ExecuteUnit`, `RunUnit`, `Survive`, `Die` are the parts of an `env_execute` and what `matrix_step` makes of it |
| `Digests` | `sha256.c`, `blake3.c`, Poly1305 | operators, one for each function; a compression function's value is its input |
| `Primitives` | ChaCha20-Poly1305, and the callers that feed a digest in pieces | a digest's state after each `Update`; one message from `Seal` to `Open` |
| `X25519` | `x25519.c` | operators for each field function, limb by limb; `Climb` is one turn of the ladder's loop |
| `KeySchedule` | HMAC and HKDF of `sha256.c`, the keys of `onionx.c` and `airbchan.c` | `identity` is each relay's `OxIdentity`, `derived` the keys so far |
| `Tlv` | `bitstream.c`, `tlv.c` | `writer` and `reader` are the structs, a buffer is the sequence of its bits; an action for each call |
| `PrivFrame` | `privframe.c` | `connection` is what is on its way; `SetKey`, `SendFrame`, `Receive` |
| `OnionSimulation` | `onion.c`, `cmd_onion` | a circuit, the packet, the loop counter of wrap and simulate; the filter's slots |
| `Capabilities` | `capability.c` | a sequence of capabilities, each made by `CapInit` or by `Attenuate` of another |
| `Experiments` | `experiments.c`, `cmd_experiment` over `Evolution` and `Units` | `agenda` is what is still to be done, `seen` the fingerprints, `results` the scores |
| `MC...` | | the instances TLC checks |
| `..._proofs` | | theorems about the module of that name; `Policy_proofs` is about `NetClient` and `LiveTest`, `Programs_proofs` about `BitMachine`, `Evolution`, `Units`, `Population` and `Experiments`, `Sequential_proofs` about `Capabilities`, `Primitives` and `KeySchedule`; `OnionPath_proofs` is also about `OnionSimulation` and `PrivFrame`, and `FrameRelay_proofs` about `Tlv` |

`ReplayWindow` implements `ReplaySet`, `BatchRelay` implements `BatchPool` and `RelayDir` implements
`PinStore`, each through an INSTANCE with a refinement mapping. `OnionPath` uses `ReplaySet` through
INSTANCE in place of the table, which the refinement of `ReplayWindow` justifies.
`NetClient` and `LiveTest` are two programs over the same `NetPolicy`, `Evolution` and `Population` over
the same `BitMachine`, and `Experiments` calls `Evolution`'s steps. `MCPrimitives` puts the parts that
share nothing side by side: its variable `part` says which of them moves in a behaviour.

Operators whose name begins like a definition and goes on (`EnqueueAppends`, `PreflightSkipped`) and
whose comment says *Seeded fault* are plausible bugs of the definition they precede. They are part of
no specification. `PROJECT.json` names, for each checked property, a fault that violates it.

## 3. Abstractions

* **Cryptography is ideal** outside `Digests`, `Primitives`, `X25519` and `KeySchedule`. A layer opens for the one relay it was
  sealed for, ids differ for different messages and hops, a key is known by its fingerprint. In `Digests`
  and the two modules over it a compression function is its input and a key stream a set of masks: what is kept is where
  blocks, chunks and subtrees begin and end, and in which order the cipher and the MAC are used.
* **Names are values.** A host is a model value together with what the string tests of the code make
  of it: `localhost` is loopback and no literal, and so is any name that begins like `127.0.0.1`.
* **Sizes** are the program's own in `OnionPath`. In `Evolution` memory, stacks and buffers are small, words and
  bytes have their width, and addresses wrap where the code's do. In `Digests` blocks and chunks are a few
  bytes and keep their proportions; a file in `Units` has its header and the three bytes before each body.
  In `Tlv` bytes have three bits, and prefixes, words and `size_t` shrink with them. What the code computes in
  `size_t` is computed modulo its width, but with three bits no length is large enough to wrap (three times 2^22 is less
  than 2^24), and TLC's integers have no room for more. The theorems are for every width, and so cover the wrap as far
  as they go: a reader stays in its buffer. What `tlv_decode` and `tlv_skip` make of a length that wraps is judged by no property.
* **A small field** takes the place of 2^255-19 in `X25519`: 2^14-3 in four limbs of 4, 3, 4 and 3 bits. The
  limbs alternate as the code's do, bytes do not line up with them, and every carry of the code is there.
  The exponent of `fe_invert` has its true chain of squarings, computed modulo two primes.
* **Time** in `BatchRelay` is the age of a frame up to the deadline, since the code compares nothing
  else. Sleeps and timeouts elsewhere are steps that may be taken at any moment.
* **History variables** (`got`, `age`, `accepted`, `peeled`, `probed`, `vetted`, the `ends` of a frame) record what
  happened, are read by no guard of the code they accompany, and let a property speak of the past.
* **Unlocked reads** in `LiveTest` come between any two stores of the threads, so main sees contexts that are partly
  filled, and a different part of each. Stores are seen in the order of the source: what a compiler or a weak memory
  makes of unsynchronized variables is not modelled. A field is one store, the payload too, whose length,
  which main tests first, is stored after its bytes.

## 4. Runs

Ten runs pass.

**`replay_window`** - a table of five slots and eight ids. Three ids share the last slot as home, so
probes collide and wrap; one slot is nobody's home. The admission that takes the last free slot empties the table, as in the code. Epochs are counted modulo 3, which no behaviour but the number depends on.
`ProbeChainsUnbroken`: every stored id is met before the first free slot of its probe path.
`RefinesReplaySet`: the table is the set, and rotates when it is full.

**`batch_relay`** - four flows, a batch of three in an array of four, a listen queue of two, with and
without batching. A frame can meet a full batch, a batch can be part full at its deadline, and a
connection can be refused. `NothingLost`: each received frame is in exactly one place, although
`relay_thread` ignores the result of its second enqueue. `LeavesWhenDue`: the deadline is the oldest
frame's, and frames leave only when the batch is full or due. `RefinesPool`: bounded, once, whole.
Any dial may fail, the one that wakes the relay included. `HeldFramesLeave` and `ShutdownEnds` are
liveness: a queued frame leaves without further arrivals; once the relay is stopped main returns and
the flusher ends whatever the relay does, and the relay ends unless it is in `accept` with no connection waiting.

**`relay_dir`** - three names, two of which are cut to one label; room for three pins, so that a
label can be pinned twice and the array fills up; two instants give the three positions of *now* in
a validity window, two generations a rollback. `OnlyPinnedKeys`: an identity has a key pinned for its stored
address. `RefinesPinStore`: the array with its first match is a map with a floor that never falls. The map is told
whom each call vouched for, so a floor moves only with an entry that was accepted, whichever test refused the others.

**`net_client`** - every command, with a host for every outcome of the string tests, every
environment and `--proxy` (none, garbled, port 0, any host), two connections for the relay; any call
may fail. `PrivacyPromise`: in privacy mode no socket but those to the loopback proxy, and no name looked up. `RequestedIsKept`: no
command leaves a privacy mode that was asked for. `StreamIsVetted`: a stream goes to the proxy the last
preflight vetted. `NothingLeftOpen`: every path closes what it opened.

**`frame_relay`** - two relays as a chain, as a ring, or one its own successor, a third that was asked
for privacy and never listens; one client sends with a hop count on both sides of a byte's limit, the
other writes frames with a wrong magic, length or digest. Frames are written in any parts, writers
stop in the middle, dials fail, listeners fill up, processes are killed.
`FramesAreAsSent`: what is passed on or reported is what the first sender's digest is for, hops left
and relays crossed add up, and it is reported once. The type invariant also ties a relay's count to
the connections it is through with.

**`onion_path`** - three relays, two messages, paths of one to three hops, one of them twice through
a relay, and one longer than the limit; lengths 0, 726, 727 and 1000, on both sides of what three
hops leave room for; the program's sizes; windows of two ids and three epochs, so that windows rotate while old
envelopes are about. `OncePerEpoch`: a payload comes out once per epoch of its exit's window.
`AcceptedIsPassedOn`: what a relay has peeled is on its way to the next relay of the path, or came out at the
exit, unless the send itself failed; a relay's send may fail, after its window has taken the id.
`SentIsDelivered` is liveness: a message comes out unless one of its relays failed to send it.

**`live_test`** - the code's chain of three relays, with and without `AIRBOT_PRIVACY`.
The threads and main take turns between any two fields: a relay can be done without having said why it failed, or peeled
without having said whether it is the exit, and main can read one of its fields before and the next after it went on.
`PassedMeansDelivered`: the verdict is sound all the same. It also holds that layers come off from the front, that a
relay that says it is done has closed its listener and will write nothing but the code of its failure, and that the code of one that has
ended is true. `MainReturns`: whatever the threads do, main gets past them and leaves the mode as it found it.

**`evolution`** - about 3500 units: every program of two instructions from a pool with every opcode
and operands on both sides of their bounds, every program of three from a pool of calls, jumps and
stores, and counters that go round cycles of two and three states; states of length zero to two in room for four,
fuel of zero to 20 under a limit of 10, up to seven steps in a trace of five. Memory has eight cells.
`ReturnsFollowCalls`: RET goes to the place after a CALL. `VerifiedStays`: a verified program
stays inside its code, but for falling off its end. `FailureIsInert`: a failing instruction changes
nothing but its status, the fuel and the program counter.
`DetectorsAreRight`: a cycle that is reported goes on for the rest of the trace, fuel included, and
fixed points are the cycles of length one. `EvolutionEnds` is liveness.
Beside them the three experiments, each alone and one after the other: 256 units, more than 256 and two, as
many steps as the trace holds and more, and targets that are met and missed. `ScoresAreEarned`: every score is the
number arithmetic gives for those programs (126 different behaviours of 256 units), so nothing one execution
leaves behind counts for another.

**`population`** - files with every choice of sections, cut at every byte, also of a unit too long to
be read back; populations of zero to four of the counter in `main.c` and of units that merge, stop on
some states, start with little fuel or are of another version, for up to four rounds.
`LostSectionsAreFlagged`: what a file lost is announced by the flags and empty.
`DiversityNeverGrows`: from round to round there are never more different units, since an execution
leaves nothing behind for the next. The type invariant says that an entry's hash is its unit's.

**`primitives`** - messages of up to 74 bytes in pieces of one to thirteen, over blocks of eight, two and four
bytes and chunks of four, so that a message has up to nineteen chunks and ends at every place of
every block. Sealed messages with parts of zero to five bytes around a MAC block of four arrive with the
border between the parts anywhere, cut off, or with zeros added.
`DigestsAreStandard`: SHA-256, BLAKE3 and Poly1305 return what FIPS 180-4, the BLAKE3 paper and RFC
8439 define on the whole message, which the module states in their words. `OpenedIsSealed`: what is
opened was sealed. The type invariant holds the stack of subtrees to one for each bit of the count.
Six more parts move in behaviours of their own:
* *agreement* - five scalars and twelve points, with representatives above the prime and the ignored top bit.
  `LadderMultiplies`: before every turn the ladder holds k and k+1 times the point, computed with affine
  formulas the module states itself, and the result is the reduced multiple.
* *schedule* - two relays, two ephemeral keys, a point of small order, two labels, info on both sides of its
  limit. `KeysAreSeparate`: both ends derive one key, and another relay, ephemeral or label another; the
  key is RFC 5869's.
* *stream* - buffers of 2 to 22 bytes, blocks and single lengths on both sides of every prefix, up to two
  writes and two reads at any place that was written. `ReadIsWritten`.
* *framing* - two buckets, payloads on both sides of what fits them, a key at either end, both or none,
  two frames cut anywhere or with a byte changed. `FramesAreOpened`: the parser that reads a connection and
  the one that reads a buffer agree, and frames are accepted whole, once and in order. The type invariant has the
  sizes: a frame `privframe_encode` calls OK is within the room it was given, which may be a byte short, and all it
  writes is within the buffer `privframe_send` gives it.
* *simulation* - circuits of zero to five relays, payloads on both sides of what their layers leave of the buffer; a
  filter asked about nonces that share a slot. `SimulationDelivers`.
* *capabilities* - up to four, of two grants, through removals in any order to past the last generation;
  tokens under two root keys. `TokensSpeakForRights`.

Every module of a program has one type invariant, and all are proved (section 6) but that of `X25519`.
`PartsTypeOK` joins those of `MCPrimitives`' parts for the run.

Two runs show a disagreement between the code and what the repository says of it; section 7.

*Are the bounds enough?* Each is chosen at the smallest value at which the hazard it is for can
occur: a probe that wraps and collides, a frame that meets a full batch, a shadowed pin, a path that
revisits a relay, a trace that fills up, a carry that runs through every limb, a length that takes the next prefix. The proofs of section 6 remove the bounds for what they
cover.

## 5. Fairness and stopping

* `BatchRelay`: weak fairness for the shutdown steps of main, for each thread and for the clock. The
  scheduler runs a thread that can run, and time passes. No fairness for the next flow or the
  decision to stop: both are the user's. None for a failing `accept`. Nothing
  says that the dial that wakes the relay succeeds.
* `OnionPath`: each envelope that was sent reaches its relay at least once and is handled. The code gives no such
  guarantee on a failing TCP connection; the property says what the relays make of a network that does. A send that
  fails at a relay (`AC_ERR_SEND`) is in the model, and the message is then lost.
* `LiveTest`: weak fairness for main only. All its waits have a timeout; the relay threads owe
  nothing, since a thread may hang in `accept`.
* `Evolution`: weak fairness for the next step: one thread that waits for nothing.
* `FrameRelay`: none. A relay's `recv` has no timeout, so a peer that stops writing holds it for good,
  and the model has that behaviour.

`CHECK_DEADLOCK FALSE` is set for `OnionPath`, where all messages may have been sent and each refusal stutters,
and for `Evolution`, where the command is over. The other models say by an action of
their own (`Finished`, `Exited`, `Returned`) where the system may stop, so a deadlock anywhere else
would be found.

## 6. Theorems

TLAPS checks the following for all values of the constants, from the named assumptions beside them
(`...Assumption`), which TLC evaluates in the runs.

**`ReplayWindow_proofs`** - for every window size, home function and set of ids: `Invariance` (the table is never
full at rest, its count is its occupancy, probe chains are unbroken) and `Refinement` (it implements
`ReplaySet`). The counter needs facts on cardinality, and probing needs that a first free slot exists, which
is where "never full at rest" comes in. A probe that reaches a free slot has passed every stored id
with the same home; that is what makes the answer of `CheckFresh` right.

**`RelayDir_proofs`** - for any names and any truncation of them: `PinnedKeysOnly`, `Refinement` and `TypesHold`. The
invariant `PinsWereAsked` says that each pin in the array came from a call of `rd_pin_add`; the
refinement maps a label to its first pin, and a later pin of the label, as every refused entry, to the step that moves
nothing.

**`OnionPath_proofs`** - `DeliveredOncePerEpoch`, `PeeledIsPassedOn`, `WindowsUnrelated` and
`TypesHold`, for every set of relays and messages, every path, size and window. "Once per epoch" is not inductive: a delivery needs
the exit's window not to hold the id, so `Counted` bounds the deliveries by the epoch with the id in
the window and by one less without it. That windows are unrelated needs that each holds ids of its own relay only (`SeenIsOwn`). That a relay can pass on
what it has peeled needs that `airbchan_send` left room for the outermost layer (`HaveRoom`), that a layer
less is no larger, which is about products of constants (`OnionShrinks`), and that an envelope is
for the relay of its hop (`NetInPath`). Two more parts are proved about in the same module.
* `PayloadsArriveLayerByLayer` and `PacketsStayInTheirBuffer`, for every circuit, payload and buffer: no recursion is needed
  to say what an onion is, because the tag of a layer holds the ciphertext it vouches for (`Wrapped`).
* `FramesAreOpenedInOrder` and `FramingTypesHold`, for every choice of buckets, payloads and frames: `Comes` says that
  the bytes on their way are those of the frames, one after the other, from some place on, but for a byte that was changed.
  That place is the end of a frame until no whole frame is left to come (`InStep`, `Past`). A sealed byte tells its
  frame and its place in it, so a stream that is out of step never reads as a frame again. The sizes of what is encoded
(`EncodingFits`) need that no bucket is larger than the last (`LargestFrame`).

**`FrameRelay_proofs`** - `FramesArrive` and `TypeInvariance`, for any number of relays in any arrangement, any
clients, frames and hop counts. That a frame is reported once needs that it has one copy under way
(`OneCopy`: unread on a connection, in a relay's hand, or in a report, and in one of these only), which the frame a relay
has passed on does not break because the connection it was read from has then been read to its end, and that
nothing of a client is under way before it sends (`NotBefore`). That hops and relays crossed add up is
kept link by link (`Carried`), with the hop count a byte. A relay's count is that of the connections it closed
(`Counted`), which is about cardinalities of sets of places in a growing sequence. Streams of bits are the module's other subject.
* `ReadsAreWrites` and `StreamsStayWithin`, for every width of a byte, every block, length and number of bits, and buffers
  of fewer than half as many bits as `size_t` counts: a number written in slices of a width reads back as the number, and
  bytes are their bits (`WritesBytes`); what is in a buffer stays there when more is written behind it
  (`BytesStay`). A first byte tells how many bytes of length follow it, because the four ranges of lengths do not overlap
  (`ReadsLength`), so a decoder that begins where a block begins finds its tag, length and value, or the end
  of the buffer, in the order the code looks for them (`DecodesItem`). `StreamInv` says that each item is in the buffer
  at its place (`WriterSound`), and that the last call returned what its place gives (`ReaderSound`).

**`Policy_proofs`**, about two programs over the same gate. The network commands: `PromiseKept`, `PrivacyIsKept`,
`StreamsAreVetted`, `AllClosedAtEnd` and `TypesHold`, for every set of hosts, ports and proxies. The mode is
settled in a command's first step, when no socket is open and no name looked up (`StartsClean`); from then
on each place has one mode (`RoleFits`) and one role's sockets (`HoldsItsRole`), and the places behind the
preflight have a vetted proxy (`VettedBehind`). The live test: `VerdictIsSound` and `TestTypesHold`, for a
chain of any length. Nothing reaches a relay before the one in front of it has peeled (`FrontPeeled`), so a
payload at the exit is proof that all have; what a thread has stored when it is at a place of its own is fixed by the
order of its stores (`FlagsFitPlace`), and `VerdictSoFar` says what main's checks have established at each of its places: of
the codes it may have read zeroes, but a payload is stored once and never taken back.

**`Programs_proofs`**, about the machine and what runs on it, for every set of units, memory size, stack depth,
fuel, trace and environment.
* `CallsNest`, `VerifierIsSound`, `FailuresAreInert`: `Nested` says that every entry of the return stack is the
  place after a CALL of the loaded code; a lemma reduces 32 opcodes to the few shapes in which an
  instruction changes the control state. The verifier's soundness uses that code does not change while
  the machine runs.
* `DetectorsAreSound`: `vm_step` is a function of the machine's state, so an execution is determined by what
  `env_execute` loads, and what it loads by the unit's state; every entry of the trace is an execution from the entry before
  it (`Executed`). Equal entries then have equal successors for the rest of the trace, by induction.
* `EvolutionTypes`: the number a set of bits stands for is the sum of its bits' places, so the folds
  with which the instructions compute return words; `EvolutionTyped` adds that the trace is shorter than the
  steps asked for while an execution is under way, and that fuel only falls.
* `DiversityFalls`: `MatrixInv` says that the units behind the loop index are executions of the same units of the round
  before, and that units of a matrix differ in their states and fuel only; equal states before a round then
  give equal states after it, and the map from old states to new ones bounds the count. That different units have
  different hashes needs that a hash tells apart the units that one template can become.
* `PopulationTypesHold`, `LossesShow`: a file has each section once and each announced by a flag
  (`Orderly`), so at most four; the fold over them is unfolded, and each section of the file is in the unit that was
  read, or its flag without it.
* `ExperimentsAreScored`, for every plan, and every machine whose buffers and fuel have room for the two programs of
  five instructions and whose trace is no longer than a byte counts: the bytes of a program read as its words
  (`InARow`), and because neither program jumps, the place it has reached tells its registers, memory and output
  (`Summing`, `Counting`). `ScoresInv` adds what has been counted so far: the fingerprints are those of the units executed,
  and as many were counted as the units have different sums, because two fingerprints are equal just if the sums are
  (`PrintsDiffer`, `OneMorePrint`); entry i of H2's trace begins with i modulo 256, so its states differ (`NewStates`). That
  no experiment sees another's remains is the load: all `Summing` and `Counting` say of the machine is set by it.
* `CommandTypes`, `CommandCallsNest`, `CommandStaysVerified`, `CommandDetects`, `CommandFailuresAreInert`: what holds of an
  evolution holds of `CommandSpec`, the specification of the run `evolution`, in which experiments run other units on the
  same machine. `CommandInv` is the evolution's invariants with what the experiments change: H1 is the first on the agenda and
  finds the trace empty, it alone runs units without steps being asked for (`H1Untraced`), H2 begins a new trace, and
  what was detected is still there when the experiments after it are judged.

**`Sequential_proofs`**, about parts that run inside one call.
* `RightsOnlyShrink` and `CapabilityTypes`, for every set of grants, removals and root keys: a token is two
  combinations of the rights' bytes with the key, so equal tokens under one key have equal rights, and a child's
  rights are within its parent's (`Descent`).
* `SealedIsOpened`, for every size of blocks and all lengths the last block of the tag's input has room for: a state of
  Poly1305 is the message in blocks and what is left of it, whatever pieces it came in (`Absorbed`). So a tag is the
  blocks of the padded parts and of their lengths (`MacInput`); the lengths tell where the parts end, because
  the digits of a number tell it (`DigitsTell`), and with the ends the blocks tell the parts (`MacTells`). What holds of a
  message that was sealed is then carried to the one that is opened (`SealedInv`).
* `LinksHaveTheirKeys` and `KeysAreWhole`, for every set of relays, ephemeral keys and labels: a state of SHA-256 is the
  message in blocks (`ShaState`), so that two messages with one digest are one message once they are padded, and the
  padding can be taken off because the byte after the longer of two would be a one in one of them and a zero in the other
  (`ShaTells`). HMAC then tells messages and keys of one length (`HmacTells`), HKDF its secret, salt and
  info, and the salt its two halves (`KeyTells`). That both ends agree needs that the secret is shared by the two ends the
  salt names (`Linked`). The salt and the extracted secret fit a block of SHA-256; keys that HMAC has to hash first, which no
  derivation has, are outside the theorem.
* `PiecesMakeTheWhole`, for every size of blocks, chunks and lengths, and every way to cut a message: all of
  `DigestsAreStandard`. What a state holds (`ShaState`, `Absorbed`, `ChunkState`, `B3State`) is kept by every piece
  (`ShaAbsorbs`, `PolyTakes`, `ChunkAbsorbs`, `B3Absorbs`); the zeros `sha256_final` counts from the fill of its buffer are
  the fewest that end a block, because only one number below a block does (`ZerosFit`, `ZerosAreUnique`). BLAKE3's stack
  is a spine (`IsSpine`): each value stands for a subtree of a power of two leaves that begins at a multiple of twice
  its size, and is larger than all that is to its right. So an even count of chunks means that the last subtree is as
  large as the one in hand (`WidthsMeet`), a merge joins two halves (`HalvesMake`), and each turn of the last fold joins a
  subtree of the size the paper asks for, the largest power of two that leaves something on the right, with the tree of
  the rest (`LeftSizeIs`, `FoldsOne`).
* `DigestsFill`, the digests' type invariant, for the same: a spine has as many subtrees as the number of its chunks has
  ones, because a subtree of two halves is one bit further left and a chunk one more bit (`OnesIs`), so
  the stack, which has room for a subtree a bit, does not overflow.

**`BatchRelay_proofs`** - `TypesHold`, `NoFrameIsLost`, `ReleasesAreDue` and `Refinement`, for every number of flows,
every size asked for and every deadline. The first half is about `batch.c` alone: there is a free slot exactly
while fewer than `max_frames` are held (`RoomMeans`), enqueueing and draining keep the counters and
the slots agreed (`EnqueueFits`, `DrainEmpties`), and a buffer of `max_frames` slots always takes the whole
batch (`DrainedAll`). The second half carries that through the threads. No frame is queued twice
because what waits at the socket has not been received (`WaitingAreNew`); the deadline is that of the
oldest frame because the frame in the relay's hand came after all that are queued (`AgesFit`).

**Left to TLC**: everything temporal (`HeldFramesLeave`, `ShutdownEnds`, `SentIsDelivered`, `MainReturns`,
`EvolutionEnds`), because the prover has no fairness; `LadderMultiplies`, which is algebra in a field and on a
curve, and with it `LadderTypes`, whose bounds on limbs depend on the numbers of one field, and so the part of
`PartsTypeOK` that is `LadderTypes`: the other parts of it are theorems.

## 7. Where code and documents disagree

Shown by a run that finds the violation:

* `batch_relay_flush` - `measure.c:255` says "Drain anything still queued", but `run_mode` flushes before it
  joins `relay_thread`, which may enqueue one more frame afterwards.
* `evolution_spawn` - `OP_SPAWN` tests bit 0, which is `CAP_READ`, where `capability.h:13` has `CAP_SPAWN` at bit 6.
  `OP_SELF` tests bit 1, `CAP_WRITE`, in the same way (`vm.c:218`).

Met while modelling, and visible in the models, without a run of their own:

* `relaydir.h:23-24` describes rotation as pinning the new fingerprint and dropping the old. There is
  no way to drop a pin, and the old one shadows the new until `rd_pinset_init`.
* The preflight's codes for a proxy off loopback or without a port can never be returned, and a proxy
  named `localhost` is reported as an endpoint that does not speak SOCKS5.
* `netpolicy.h:88-90` says a role that would weaken privacy must refuse; the live test takes the relay
  role under `AIRBOT_PRIVACY=1`.
* A relay prints that it forwarded a frame whether or not the send went through (`netcmd.c:295`), drops
  a frame without a word if `--next` has no port, and `net-send` reports success once the bytes are
  written, although the relay may never read them.
* A frame is bound to its sender on one link only: each relay computes the digest anew.
* The comment at `eiu.c:73` says "Hash all EIU content"; the capability is not hashed, nor where one
  section ends and the next begins. `write_file` (`main.c:120`) ignores how much `fwrite` wrote.
* Replicas of a unit without a state are identical. A matrix entry's generation is a byte.
* `privframe.h:48-51` says that `blake3.c` does not match the official vectors; `blake3.c:10-14` says it
  was replaced and does.
* The replay table rotates on the admission that fills it and forgets the id just admitted (`onionx.c:161`).
* `airbchan_max_payload` computes from the biggest bucket of 8192 bytes (`airbchan.c:140`); a send pads
  to an envelope of 1024 and refuses what does not fit.
* `AIRB_POL_UNVALIDATED` is returned nowhere: the gate lets the hop to the proxy pass before a
  preflight, which itself needs it. That streams come after a preflight is the callers' doing.
* A `--proxy` that cannot be parsed is ignored (`netcmd.c:433`); the command goes on with the proxy it had.
* The live test's contexts are zeroed and zero is `OX_OK`, so a relay that has not run yet reads as
  one that succeeded (`livetest.c:155`), and so does one that could not listen or accept, between its store to `done`
  and the one to `peel_rc` (`livetest.c:68`, `:73`); other checks keep the verdict sound. The contexts are in the
  frame of `livetest_run_all`, which returns although a thread may still hang in `accept` with a pointer to its own.
* `run_mode` does not look at the result of the dial that is to wake `relay_thread` (`measure.c:270`). When it fails the
  thread stays in `accept` with its listener open; main goes on after its waits' time limits.
* A relay records an id before it sends the rest on, so when the send fails (`airbchan.c:207`) it refuses every copy of
  the envelope and the message is lost.
* `privframe_encode` takes the room it may write to, and compares it with the frame's length only after it has written the whole
  frame (`privframe.c:109-122`): with too little room it returns `TOOBIG` with bytes already written past it. The
  only caller but the tests, `privframe_send`, gives it room for the largest frame, which is what `PartsTypeOK` and
  `FramingTypesHold` say.
* `SUB` computes the carry after it has overwritten its operand's register when the two coincide (`vm.c:144`).
* `env_execute` never calls the verifier, so `VerifiedStays` is a property of the verifier and the
  machine, not of every execution.
* `experiments.h` says a behavioral fingerprint holds "(output_values, final_register_state, fuel_consumed,
  halted_normally)"; `fingerprints_equal` (`experiments.c:28`) compares neither registers nor fuel, and with the
  registers all 256 units of H1 would differ.
* `onion_simulate` with no relays succeeds and delivers nothing. A slot of its replay filter holds one nonce,
  so a collision forgets the older one; only the crypto tests use that filter.
* `privframe_recv` leaves the stream where a malformed prefix ended, so the next call starts inside a frame.
* `tlv_skip` (`tlv.c:100`) lacks the test of the length that `tlv_decode` makes, and the bits of a length are
  computed in `size_t`.
* `fe_invert`'s comment names another exponent than its chain has; the chain is right.
* `airbchan_send` computes what it pads to before anything looks at the number of hops, and with more than ten the
  number wraps (`airbchan.c:138`). Its callers pass one and three, and `PathAssumption` keeps to such paths.
* `cap_attenuate` copies the token of the parent, which does not verify for a child that lost a right;
  `cap_is_valid` looks at the generation, where `capability.h:34` says "Check if not expired".
* A capability's expiry is stored and never looked at; `instructions_executed` is never set and the
  verifier's `max_stack_depth` never computed.
* Relay addresses are cut to 17 bytes (`RD_ADDR_SIZE`): two ports of one host can be the same label.

## 8. Not modelled

Compression functions, the limbs of Poly1305 and the source of random bytes: arithmetic without state that outlives
a call, with tests by vectors. Scores, benchmarks and reports (`visibility.c`, `privacy.c`, `benchmark.c`,
`metrics.c`, `eia.c`): floating point over simulated traffic. Test drivers call the parts one after the
other. Text (assembler, disassembler, diagnostics) is left out, and so are the functions of `bitstream.c`
that copy, count or compare bits of memory. `PROJECT.json` gives the reason part by part.

## 9. Plan

Done, in this order: replay filter, batching queue and relay, relay directory, policy gate and network
commands, onion path, live test, machine with verifier and evolution, populations and unit files, frames
over TCP, digests and authenticated encryption, key agreement and key schedule, bit streams and frames of
hidden length, the onion simulation, capabilities, the experiments; the theorems of section 6.

What is left is `X25519`: that its limbs stay within a word for the code's own field, and that the ladder multiplies for
every scalar. Both are checked on a small field only.
