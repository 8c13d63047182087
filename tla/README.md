# Verification of the connection experiments

TLA+ models of the RDMA and TCP benchmarks in `src/ConnectionExperiments`, of
their command line and of the two programs in `src/QueueExperiments`, with TLC
runs, and TLAPS proofs about both benchmarks, the command line and the BCL
experiment, for every choice of sizes and for lines and queues of any length.

## 1. The system

The repository measures throughput and latency between two machines.  One
program is built from `main.cpp`; `-s` makes it a server, otherwise it is a
client.  `-connection` selects RDMA or TCP, `-metric` the throughput tests, the
latency tests or both, `-datasize` the bytes a throughput pass moves.  A second
directory, `QueueExperiments`, holds two small programs on distributed queues.
The rest of the tree is measured data, plots and build output.

| Component | State it keeps | Operations | Interaction |
|---|---|---|---|
| RDMA client (`RdmaClient.cpp`) | context, queue pair of the running test, local buffer, loop counters, vector of results, six results files | six tests: read, write and two-sided, each for throughput and latency | one connection per test; one-sided access to the server's region; one-byte control messages; data messages in the two-sided tests |
| RDMA server (`RdmaServer.cpp`) | context, queue pair, registered region, loop counters | the six matching tests | region token handed over on connection; control messages; refills or clears the region between passes |
| Chunk loops | loop variable, `last_index` | move `data_size` bytes in pieces of `buffer_size` | the sender's and the receiver's loop must take the same number of steps |
| Verbs layer (`infinity`, a submodule not in the tree) | send queue, shared receive queue, completion queues, queue-pair state | post, poll, connect, destroy | carries everything between the two RDMA programs |
| TCP client, TCP server (`TcpClient.cpp`, `TcpServer.cpp`) | socket, `bytes_sent` / `bytes_read`, buffers | connect or accept; throughput and latency passes; `send_tcp_message`, `receive_message` | one byte stream in each direction; the server answers each pass with one byte |
| Command line (`main.cpp`, `experiment_type.h`) | none but `argv` | one scan over all the words for each option; pick class and tests | started independently on each side |
| Sizes and utilities (`utils.h`, `utils.cpp`) | lists of sizes, random data | `dev_random_data`, `GenerateRandomData`, address lookup | called by all |
| Legacy drivers (`RunClient.cpp`, `RunServer.cpp`) | | | not compiled; `RunClient.cpp` does not parse |
| BCL queue experiment (`BCLTests.cpp`) | one bounded queue shared by all ranks | push, pop, barrier | several processes, synchronised by barriers only |
| Boost queue experiment (`BoostTests.cpp`) | a part of the queue in each process | push, `size`, `empty`, top and pop | an element travels to the process that owns it, at a synchronisation of all |

**What is hard.**  No message says which test, pass, buffer size or step it
belongs to.  The two programs stay together only because each counts the same
messages, and `context->receive` hands out whatever message came.  Receive
buffers live on the stack of the call that posts them.  One-sided accesses are
invisible to the server, which meanwhile refills, clears and finally frees its
region.  Outcomes of requests are never looked at, calls have no timeout, an
error of `send` is printed and then added to an unsigned counter, and nothing
checks that both sides were given the same options.  `PROJECT.json` lists these
hazards at their lines, each with the properties that watch it.

**What makes each part correct.**  RDMA: the two programs meet at the same call
(`Agreement`), buffers do not dangle (`NoDanglingReceive`), the region is left
alone and alive while it is accessed (`ExclusiveRegion`, `RegionAlive`,
`RequestInRegion`), no request fails unseen (`NoFailure`), the data arrive whole
(`TransferComplete`), the results files are complete and about the tests they
are named for (`FilesComplete`, `GenuineResults`), nobody waits for ever (`NoDeadlock`), and
`main` ends (`Termination`).  Started with different options, the programs may
hang, but only in certain places (`StuckOnlyThere`), do not write a wrong result
in silence (`NoSilentMismatch`), refill a region under a transfer in one place
only (`RefillsOnlyThere`), and begin nothing on a queue pair that has failed
(`StopsAtFailure`).  TCP: passes do not
run into each other (`NothingLeftOver`), the data are intact when the server
answers (`DataIntact`), a result stands for an answered pass whatever fails
(`NoResultWithoutAnswer`), and for the same one if the connection is there or
lost (`ResultsAnswered`, `Promise`), and nobody is left blocked (`NoDeadlock`,
`Ends`).  Chunk
loops: each byte exactly once (`Covered`), and as many steps on both sides
(`StepCounts`).  Command line: what is read is
what was written (`ReadsSettings`), and equal settings start equal tests
(`StartAlike`).  Queues: nothing is popped that was not pushed, nothing is lost
(`NoPopFails`, `EachElementOnce`), and all processes end (`AllEnd`).

## 2. Modules

| Module | What it models |
|---|---|
| `ChunkLoop` | `last_index`, the pieces, and the two ways of counting them |
| `Verbs` | the RDMA layer as the two classes use it (external) |
| `RdmaBench` | client, server and hardware of the RDMA benchmark; extends the two above |
| `RdmaResults` | the client's vector of results and its six files, on top of `RdmaBench` |
| `RdmaLockstep` | the inductive invariants of `RdmaBench` for two programs started alike, and for a program on its own |
| `RdmaPairs` | its inductive invariant for two programs started with any options |
| `TcpStream` | the TCP connection as `send` and `recv` see it (external) |
| `TcpBench` | client and server of the TCP benchmark; extends `TcpStream` and `ChunkLoop` |
| `TcpLockstep` | the inductive invariants of `TcpBench` |
| `PassProtocol` | the abstract promise of both benchmarks: a result is the time of one whole pass |
| `Options` | how `main` reads its command line and what it starts |
| `BclQueue`, `BoostQueue` | the two queue experiments |
| `MCRdmaBench`, `MCTcpBench`, `MCChunkLoop`, `MCOptions` | constants for TLC |
| `MCRdmaPairs`, `MCTcpPairs` | an instance of the benchmark for every pair of options two programs may be started with |
| `ChunkLoopProofs` | theorems about the loops |
| `RdmaProofs` | the control flow of the two RDMA programs, and the invariants of `RdmaLockstep` |
| `RdmaSafetyProofs` | the safety properties of two RDMA programs started alike, deadlock freedom among them, and the refinement of `PassProtocol` |
| `RdmaPairsProofs` | the invariant of `RdmaPairs`, the safety properties of any two RDMA programs, and where they can be stuck |
| `TcpProofs` | types, answers and counts of bytes of any two TCP programs; that they do not block each other |
| `TcpDataProofs` | data of two TCP programs started alike, and the refinement of `PassProtocol` |
| `OptionsProofs`, `BclQueueProofs` | theorems about the command line and the BCL experiment |

### RdmaBench and the code

Each program is single-threaded, so its state is the call it is at: `pos[n]`
gives the test, the pass over the buffer sizes, the place in the test and the
inner loop variable.  `ClientAfter` and `ServerAfter` are the control flow: from
each call, the next one, test by test as `run_*_tests` and `*_test` go.

| Place | Client | Server |
|---|---|---|
| `open` | `connect_to_remote_buffer`: `Connect`, `ConnectReturns` | `acceptIncomingConnection`: `Accept` |
| `fill` | `dev_random_data` after a write pass: `Refill` | refill (read) or `memset` (write) before a pass: `Refill` |
| `ready` | waits (one-sided) or sends (two-sided) | the other one |
| `data` | `read`, `write`: `ReadOrWrite`; `send`: `SendData`; `postReceiveBuffer`: `PostDataBuffer` | `SendData`, `PostDataBuffer` |
| `done` | control message at the end of a pass | waits for it |
| `fin` | control message at the end of a one-sided test | waits for it |
| `close` | end of scope: `Close` | end of scope: `Close` |

A blocking call is two actions, one that makes it and one that returns
(`WaitUntilCompleted`, `Receive`); the steps of the hardware
(`DeliverMessage`, `AccessRegion`, `FlushRequest`) come in between.
`WaitUntilCompleted` returns on failure as on success, as the callers ignore the
difference; `failed` is a history variable that remembers it.  A request carries
the position that posted it; the real one does not, and no guard reads it except
as the offset a one-sided request really carries.  `mem` holds the buffers of
the throughput tests; a byte is the number of the fill that wrote it, and
`Scribble` writes any prefix, because `dev_random_data` ignores how much
`read` delivered.

What `Verbs` grants: requests of a queue pair run in order; a send waits for ever
for a receive buffer (the code sends before the other side has posted, so it
relies on unlimited receiver-not-ready retries); a message takes the oldest
posted buffer; too long a message, an access outside the region, or a vanished
peer fail the request and break the queue pair.

### RdmaResults and the code

The client keeps its results in a vector and writes one file per test.  Both are
bookkeeping of the client alone, so `RdmaResults` adds no step: `ResultsNext` is
a step of `RdmaBench` together with `Record`, what the code does to the vector
and the files on the way from one call to the next.  `KeepResult` is the
`push_back` when the call that stops the clock returns; in the one-sided latency
tests that is the last transfer, in the others the control message.  `WriteFile`
is the return of the test function: its file gets the lines, and the file of the
next test is opened and so emptied.  A line has its size and `ok`, whether no
request waited for has failed; the program does not know that, the model does.

### TcpBench and the code

`at[n]` is the place in the pass (`move` the data, `reply`), the loop variable
and `count`, which is `bytes_sent` or `bytes_read` modulo `SizeMax`.  `SendSome`
and `ReceiveSome` are single calls of `send` and `recv` moving any number of
bytes; `SendFails` is a `send` that returns -1, which the code adds to the
unsigned counter; `SendKills` is `SIGPIPE`; `ReceiveFails` is `exit(-1)`.
`MoveOver` ends a message (with the server's `std::copy`, end iterator
included), `PassOver` ends a pass.  The client is refused if the server does not
listen yet (`ConnectRefused`); `ListenFails`, `AcceptFails` and `ConnectFails`
are the other ways out of the constructors.  If the address cannot be resolved
the constructor returns all the same (`Unresolved`), and the tests run without a
socket: every `send` fails, and the first `recv` ends the program (`NoSocket`).
`LoseConnection` drops the connection at any
moment, after any prefix of what was under way has arrived.

### Options, BclQueue, BoostQueue and the code

`Options` has one operator per function of `main.cpp`: `ArgValue` and `IsServer`
scan all the words for the first hit, `After` is `argv[i + 1]` also when `i` is
the last word, `IsInt` what `std::stoi` accepts, `MetricOf` and `ConnectionOf`
the fall back of a word that is unknown, `Readable` whether an exception nobody
catches comes first, `Started` what is constructed and run.  Its steps are those
of the two people who write the two lines.

In `BclQueue` a rank pushes, passes a barrier, and pops as often; a failed pop
leaves the variable it prints as it was.  In `BoostQueue` `size` and `empty` look
at the local part, and synchronise with every other process as long as that is
empty.  Queue, barrier and synchronisation are the libraries'.

### Variants

Operators whose comment begins with "Variant of" are not part of the models: no
specification uses them.  Each is a definition as a plausible slip in the code
would make it (`i <= num_loops`, a last piece not shortened, a missing wait),
and `PROJECT.json` names, for every property, the variant that breaks it.

## 3. Runs

| Run | Question | States |
|---|---|---|
| `RdmaMatched` | two programs with the same options, all six tests: all safety properties, the inductive invariant `IInv`, the files, `Promise` and `Termination` | 128117 |
| `RdmaExactMultiple` | a data size that a buffer size divides: expected violation of `AnnouncedMessagesReceived` | about 12500, up to the counterexample |
| `RdmaAnyTwo` | any two metrics, and a server with less data than the client, as much or more: requests fail or the programs hang; where do they (`StuckOnlyThere`), where does a refill meet a transfer (`RefillsOnlyThere`), and is a wrong result written (`NoSilentMismatch`)? | 407206 |
| `RdmaUnserved` | a pair of options with a wrong result: what does the server still do once a read has failed (`StopsAtFailure`)? And the inductive invariant `PairInv` | 223 |
| `ChunkLoop` | all data sizes to 40 with all buffer sizes to 12 | 480 |
| `TcpClean` | the stream cut in every way, no failures: do passes run into each other (`NothingLeftOver`)? And the types | 433 |
| `TcpReset` | any call of the constructors fails, the connection is lost at any moment, or neither happens: are the data intact (`DataIntact`), does a result stand for an answered pass (`ResultsAnswered`, `Promise`), is anybody blocked (`NoDeadlock`), do both programs end (`Ends`)? And the inductive invariant `HandInv` | 4631 |
| `TcpErrors` | up to three calls of `send` fail and the connection stays: does every result have an answer (`NoResultWithoutAnswer`)? | 61290 |
| `TcpMismatched` | any two metrics and different data sizes: does every result have an answer (`NoResultWithoutAnswer`), does a server that wants less leave anybody waiting (`EndsIfServerWantsLess`)? | 5084 |
| `CommandLines` | all pairs of lines of up to five options, flags and words: is what was meant read, do equal settings start equal tests? And the inductive invariant `LinesInv` | 319321 |
| `BclQueue` | one to three ranks: does every pop find an element, is each printed once, do all end? And the inductive invariant `QueueInv` | 145468 |
| `BoostQueue` | two processes: expected violation of `AllEnd` | up to the counterexample |

**Disagreement in the two-sided throughput test.**
`RdmaServer::two_sided_tp_test` computes and prints that it will send
`data_size / buffer_size + 1` messages and sends as many, the last one of
`data_size % buffer_size` bytes even if that is none.  The client's loop
receives `ceil(data_size / buffer_size)`; the line with the server's count is
commented out above it (`RdmaClient.cpp:209`).  When the buffer size divides the
data size the client sends its confirmation while the server's last message
finds no buffer: both wait for ever.  The default data size, 780000000, is no
multiple of 1024, so the defaults are not affected.

**Disagreement in the Boost experiment.**  Process 1 is to read the element and
print that it does (`BoostTests.cpp:103-108`).  The element is
`global_value v(0, 0)`, which belongs to process 0, so it arrives in the part of
process 0, which never pops: process 0 goes round `while (!q.empty())` for ever,
and process 1 waits for it in the synchronisation of `size()`.

**Different options.**  Nothing compares the options of the two RDMA programs.
Nearly always they hang before a file is written (`NoSilentMismatch`), for two
reasons: a test begins with a new connection, and most passes end with a message
the other one must wait for.  `Unserved` names the exception.  A client started
with `-metric l` begins with the read-latency test, which exchanges no message
before its end; a server that begins with the throughput tests offers it a
region of its `-datasize`.  If that is smaller than the largest latency size,
reads fail, are timed all the same, and the first file is written from them.  The
client never connects a second time, so this is the only such file.  The first
read can come before the server has filled its region, as the client waits for
nothing: this is the one refill that can meet a transfer (`RefillsOnlyThere`),
and the server ends it even if the read has failed.  Nothing more happens to the
region then (`StopsAtFailure`, in `RdmaUnserved`).
With TCP nothing fails:
a server that counts fewer bytes answers early and takes the rest for its next
pass, so the times are those of other passes.  What is left is that every result
has an answer, and that such a server leaves nobody waiting; one that counts
more leaves the client waiting, which is why `EndsIfServerWantsLess` has its
premise.

**Bounds.** RDMA: data size 5 with buffers 2, 4 and 8 gives several whole pieces
and a rest, one piece and a rest, and a buffer larger than the data; latency
buffers 1, 2, 4 with a region of 4 and two loops. Three passes let a message or
refill of one pass meet the next or the last. The pairs of programs have data
sizes (client, server) of 5 and 3, 6 and 4, 3 and 1, and 3 and 5, 2 and 4, 4 and
4, 5 and 5: multiples of a buffer size and others, server regions smaller and
larger than the latency buffers; `RdmaUnserved` has 3 and 1, one of these pairs,
for the two properties that are about the steps of one pair. TCP: data size 9
with buffers 3, 4 and 12 (divides, does not, exceeds), latency buffers 1 and 3
with three loops, a stream of `Capacity` 6 bytes so that both sides block,
`SizeMax` 256 so that -1 wraps far beyond any size; at most three failed calls
of `send` in `TcpErrors` (`MaxErrors`), enough for the server to get two passes
ahead of the client. The pairs have data sizes 4 or 5 for the client and 3 to 5
for the server, buffers 2 and 3, latency buffers 1 and 2, two loops, a stream of
3. A longer loop repeats states already seen up to the loop variable, and the
theorems of section 5 hold for all sizes. Options: five groups (`MaxGroups`) let
an option be repeated, lack its value, and follow a stray word, on either line;
the ten of `MCOffered` have numbers in range, out of range and negative, and
known and unknown names. BCL: three ranks with three elements each (`Count`),
and room for them all (`QueueSize`), as the constructor call in the code has
more room than elements.

`CHECK_DEADLOCK FALSE` stands where the system really may stop: mismatched RDMA
programs hang, a TCP client that came too early or gave up leaves the server in
`accept`, a short TCP message leaves both waiting, and the processes of the
queue experiments end. `ChunkLoop` and `CommandLines` merely run out of sizes
and words. `RdmaMatched` and `RdmaExactMultiple` check deadlock.

**Fairness.**  Each RDMA program spins (`while (!receive)`,
`waitUntilCompleted`) on a thread of its own that the operating system
schedules, hence `WF(Client)` and `WF(Server)`; the transport retries until a
buffer is posted, hence weak fairness of the steps of the hardware.
`ResultsFairSpec` is the same fairness with `Record`.  In TCP the programs block
in `send` and `recv`, which return when there is room or data; losing the
connection, or a failing call, is never forced.  The processes of the queue
experiments are scheduled fairly, and a synchronisation all have come to ends.

## 4. What the abstract specification says

`PassProtocol` has three counters: passes handed over, confirmed and measured.
Passes do not overlap, and none is measured before it is confirmed.

`TcpBench` implements it (`Promise`): `sent` is the passes whose last byte the
client has given to `send`, `confirmed` the answers the server has written,
`measured` the lines in the results files.  This holds with a lost connection
too, and is proved.  With a failing `send` on a connection that stays it need
not (a message cut short counts as sent), nor does `ResultsAnswered`: a failed
`send` may have one byte sent twice, and three of them carry the server two
passes ahead.  What remains is `NoResultWithoutAnswer`.

`RdmaResults` implements it as well.  `measured` counts the lines of the files
and of the vector, `sent` in addition the pass whose last call the client is in.
`confirmed` is read off the server's own place: the passes of whose end it has
been told.  In a one-sided latency test it is the memory of the server that
confirms, as no message ends a pass.  For two programs started alike this too
is proved.

## 5. Proofs

All theorems hold for all lists of sizes, data sizes and numbers of loops that
satisfy the constants' assumption of their module.

### Chunk loops (`ChunkLoopProofs`)

`Coverage` (`Covered`): the pieces of the moving loop lie one after the other and
cover every byte once.  `SameNumberOfSteps`: the moving and the receiving loop
take the same steps unless the buffer divides the data; `OneStepShort`: if it
does, the receiving loop has one step less.  `StepsCounted` (`StepCounts`) says
how many steps these are: `data_size / buffer_size + 1`, and one less for the
receiver of a data size that is a multiple.  The steps are counted through the
bijection of a step and its number.

### One RDMA program, whatever the other one does (`RdmaProofs`)

A program keeps to its own control flow, and its queues hold exactly what the
call it is in has put there, or what came of it: nothing outside a call, one
request or one receive buffer inside (`CallAlone`).  With the types and
`PositionOK`, where a program can be, that is inductive whatever the other one
does (`AloneInv`, `AloneInvariance`).  It gives `TypedAlone` (`TypeOK`),
`NothingDangles` (`NoDanglingReceive`), and, with `FilesInv` -- there is one line
for every pass the client has ended -- `FilesAreComplete` (`FilesComplete`).

### RDMA, two programs started alike

These theorems assume `Matched`: same metric, same data size, and no buffer size
divides the data size.  `RdmaExactMultiple` shows that the last part is needed.

`IInv` (module `RdmaLockstep`) is `TypeOK /\ Inv`.  None of the safety
properties is inductive: that a message reaches the right call depends on where
both programs are.  The invariant cuts both programs at their *meetings*, the
connection and every message.  `Meeting(n)` is the one `n` is at or heads for,
`NextMeeting(n)` the one after it.  `Lockstep` says: if both or neither have had
their meeting, it is the same one; if one has returned from it and the other has
not noticed, the first one heads for the second one's next.  `CallOK` says that
a program has posted exactly what its call posts, or nothing; `LinkOK` that the
queue pair of the running test is up; `PositionOK` where a program can be.

1. The control flow alone (`RdmaProofs`).  From the same meeting both programs
   head for the same next meeting (`NextMeetingsAgree`); this is where
   `SameNumberOfSteps` is used.
2. One lemma per action, then `Invariance`, `Spec => []IInv` (`RdmaProofs`).
3. `RdmaSafetyProofs`: from `IInv`, `Receives`, `Regions`, `RegionsLast`,
   `RequestsInside`, `Successes`, `Announced`.  `Transfers` needs in addition
   `MovedSoFar`: up to the frontier of the running pass, both buffers agree.
   `Genuine` needs that the lines kept so far are good and that the server is
   not in an earlier test than the client, which the lockstep gives.
4. `NeverStuck` (`NoDeadlock`), there too; the argument is below.
5. `PassesMeasured`, at the end of the same module: `RdmaResults` implements
   `PassProtocol`.  It rests on `Ledger`, which follows from the invariants above:
   the client has measured as many passes as its place says it has left, and the
   server knows of the end of just these, or of one more while the client is
   about to leave that one (`LedgerKept`; `SameBooks` takes the server's side
   from the lockstep).  `ClientSteps` then sorts the steps: a pass begins, a pass
   ends, or nothing the counters show.  `PassesBefore` is a recursive function;
   as there are three or six tests, its solution is exhibited (`PassesUnfold`)
   rather than found by induction.

### RDMA, any two programs (`RdmaPairsProofs`)

Nothing is assumed here of the options of the two programs, nor of the data
sizes; only that there is more than one buffer size (`SeveralSizes`), as there
is in `utils::buffer_sizes`.  With a single one a client with more data than the
server would come to the end of its first test with failed requests behind it,
and write its file.

`PairInv` (module `RdmaPairs`) is `AloneInv` and one of two cases.

- `Sound`: nothing has failed.  `InFront` is the lockstep again, but the two
  programs may also be *facing* each other at a `Standstill`: at the same test,
  both to send or both to receive, for good.  Programs that begin with different
  tests come to this before any message is exchanged (`Apart`); those that begin
  with the same ones only in the two-sided throughput test, where one counts more
  messages than the other.  `Inside` says that what the client has read or
  written lies inside the region, `CutShort` that a client with more data than
  the region holds does not get to the end of its first pass.
- `Broken`: a request of the client has failed, and with it the queue pair.  That
  happens in the first test only, and leaves the server in its first pass.  There
  it ends the refill it may be in, tries to announce the pass and waits, as no
  message can reach it any more.  The client goes on as
  if nothing had happened, but not further than its second pass, which begins
  with a wait; if its first test is a latency test (`Unserved`), it gets to its
  second connection.

That no step leads from one case anywhere else is proved action by action
(`PairInvariance`).  From it follow

- `NothingMistaken` (`Agreement`);
- `NoPassAfterFailure` (`StopsAtFailure`): the steps of `Broken` keep the server
  in its test and pass, and only the end of its refill changes its region;
- `FirstPassOnly` (`FirstPass`): a server that begins with other tests than the
  client does not get to the end of its first pass.  It is inductive beside
  `PairInv`, as by `Apart` no call that needs the client returns;
- `RegionsOfAny` (`RefillsOnlyThere`), for the reads and writes of all four
  one-sided tests.  Programs that begin alike are in the same pass, the server
  past its refill (`PassShared`), or in the same latency test, the server at its
  end (`TestShared`); a failed request changes nothing about that.  Programs that
  begin differently are in their first tests (`OtherTests`), and with
  `FirstPass` the server is in its first pass: this is the exception, and the
  theorem claims nothing better of it;
- with the lines written so far, `ResultsMatch` (`NoSilentMismatch`).

The run `RdmaAnyTwo` chooses the options at the start, and so instantiates
`RdmaPairs` once for each choice: the properties of `MCRdmaPairs` say of the
chosen instance what the theorems say of every one.  So does
`NoResultWithoutAnswer` of `MCTcpPairs`, which `NoResultUnanswered` proves, and
`EndsIfServerWantsLess`, for the liveness of one kind of pairs.

### RDMA, who can be stuck

`Stuck` says without `ENABLED` that nothing can happen although a program is
left: no call can be made or return (`CanProceed`), and no request at the head of
a queue can be carried out or given up (`Servable`).  The argument begins with
one program alone.  A program that cannot proceed is in a blocking call, so it
waits for a message, or for the outcome of a request that is still in the queue;
a one-sided request is always servable, so it is a message it wants to send to a
peer without a receive buffer (`StuckCall`).  Such a call *is* its next meeting.

- Two programs started alike have the same meeting before them, and of every
  meeting one sends and the other one receives.  So neither waits, both are past
  their last test, and that is the end (`NeverStuck`).
- Any two programs face each other: at the same meeting, for which the above
  holds, or at a `Standstill`, or one has run fewer tests and has left.  With the
  failures of the client these are the four disjuncts of `StuckOnlyThere`
  (`WhereProgramsStick`).  `LoopsPart` names the data sizes for which the loops of
  the two-sided throughput test part: at some offset one goes on to a next
  message and the other one does not.
- Conversely, the options need not match for the programs to get through
  (`NeverStuckIfCounted`): with the same metric, the client's data within the
  server's region, and loops that do not part for any buffer size, they are
  never stuck; with 5 and 7 bytes, say, and buffers of 4 and 8.

### TCP (`TcpProofs`, `TcpDataProofs`)

Without any assumption on the options or the failures: `TypeCorrect`, and
`NoResultUnanswered`, from `RepliesOK`: replies under way or received are answers
no result stands for yet.

*Nobody is blocked.*  Again for any options, `CountInv` says that no byte and no
answer is lost as long as nothing has failed.  The passes of the two programs
need not be the same, so it counts all bytes since the start: `Position(n)` is
the number of bytes of the passes before the one `n` is in (`Before`), and of
those it has moved in this one; the client's position is the server's and what is
in the stream, and the answers are the results, the reply the client has just
taken in, and those in the stream.  Sums over passes are cardinalities of sets of
pairs (`Earlier`), as the prover has no induction over a recursive sum.
`CountsInvariant` proves it, one lemma per action.

A server that runs the same tests and takes in no more than the client sends
(`ServerWantsLess`) is then never short of bytes while the client waits for its
answer: with an empty stream the positions are equal, and a client waiting for
the answer to pass `p` has sent all of it, and so the server has taken in its own
share of `p`, and has answered.  Nor do both wait to send.  The server sends
answers only; with the same data size it has none to give while one is under
way, as it would have taken in a pass the client has not begun (`OneReply`).
With less data it can be further ahead, and then `NeverStuck` assumes room for
the answers of all passes, `Len(Passes("client")) <= Capacity`: a byte for each
pass, a few dozen with the lists in `utils.h`, against socket buffers of
kilobytes.  Without it the theorem is false: with a `Capacity` of 1 TLC finds a
server that is ahead and blocked in `send`, and a client blocked in `send`
because the server does not receive.

Two programs started alike (`Matched`, which here allows any sizes but no failed
`send` on a connection that stays): the server is always about to take in byte
`NextByte` of pass `NextPass`, and the stream holds the bytes from there on, of
that pass (`WireOK`).  As long as the link is up nothing is missing in between
(`UpOK`); when it is lost a gap may open behind what is in the stream, and
nothing follows it.  `BuffersOK` says that what the server has taken in is in its two
buffers.  This is inductive (`StreamInv`) and gives `DataArrive`,
`EveryResultAnswered` and `CleanStart`.  The refinement needs in addition that
the client has handed over a pass when the stream and the server have all of it
(`HandOK`), although a failed `send` has set its count to -1 (`CountOK`), and
that a pass has fewer bytes than a `size_t` counts (`ShortPasses`).
`HandInvariant` proves the invariant, `PromiseKept` that every step is a step of
`PassProtocol` or a stutter.

### The command line (`OptionsProofs`)

For any set of words, any table of numbers and lines of any length.  `LinesInv`
says what a line is to what its writer means by it: there is a setting for each
option and flag in the line and for no other, and it is the value `main` will
find.  It is inductive because a scan stops at its first hit, and what is
written later is behind it (`FirstHit`, `ValueStays`): one case per kind of
word, and in each the value, the flag or the stray word must not be taken for
an option.  `LinesInvariance` proves it, `SettingsRead` (`ReadsSettings`) and
`SameStart` (`StartAlike`) follow.  That a scan has a *first* hit uses the
well-ordering of the positions.

### The BCL experiment (`BclQueueProofs`)

For any number of processes and elements that the queue has room for.  Why does
no pop find the queue empty?  The pushes so far are a set of calls (`Pushes`: a
rank and a value of its loop variable), and so are the pops (`Pops`); `QueueInv`
says that the queue is as long as the first set is larger than the second.  No
rank pops more than it has pushed, so that a rank about to pop has a push
without a pop in these sets, and the queue an element.  In the same way no push
finds the queue full.  `QueueInvariance`, `PopsSucceed` (`NoPopFails`) and
`PrintedOnce` (`EachElementOnce`) are the theorems; the barrier between the
loops is not needed for them.

### Only model-checked

Liveness (`Termination`, `Ends`, `EndsIfServerWantsLess`, `AllEnd`): fairness and
`ENABLED` are outside what the prover can do.  `NoDeadlock` is the part of
`Termination` and `Ends` that is a safety property, and is proved.  That
the theorems on any two programs hold for each choice of options in `MCRdmaPairs`
and `MCTcpPairs` is left to the reader: each choice is an instance the theorems
speak of, but the prover does not reason through an instance that depends on a
variable.  In the same way `Covered` and `StepCounts`
of `MCChunkLoop` are the theorems `Coverage` and `StepsCounted` for the sizes it
goes through.  The two violations are TLC's counterexamples.

## 6. Not modelled

- Timing, output, and the times in the results files.
- A crash of an RDMA program; the loss of the last acknowledgement when the
  receiver of a message destroys its queue pair at once.
- An RDMA client that starts before the server is bound to its port, and what
  becomes of a connection attempt to a server that has left: the model lets it
  wait for ever, as the two classes never give up on one.
- A data size of 0, or one too large for the memory, such as a negative `-datasize`
  becomes.
- The file descriptor `dev_random_data` leaks at each call.
- Option values spelled like an option (`-metric -s`); the scans would take
  them for both.  The direction and parallelism flags are read and not used.
- `random_data`, `create_large_buffer` (never called) and
  `get_ib_card_address` (its outcome does not change the protocol).
- `master` and `worker` of `BCLTests.cpp` and the helpers of
  `QueueExperiments/utils.cpp`: called from commented-out code only.
- The legacy drivers `RunClient.cpp` and `RunServer.cpp`: `CMakeLists.txt` does
  not list them, and `RunClient.cpp` does not parse.
- `verbs`, BCL, Boost and the operating system themselves: they are modelled as
  far as this code relies on them.
- The compiler probes CMake has generated under `QueueExperiments/build-*`: not
  part of any program of the repository, though they are most of its lines of C
  and C++.

## 7. Where to go on

TCP with different options: `CountInv` says how far the bytes the server has taken
in are behind those the client has sent.  Together with the order of the bytes in
the stream it would say which pass a result is really about.
