# Verification of the cs438 programs

The repository holds the five machine problems of a networking course: small
programs that send files, route packets and simulate a channel.  This
directory holds TLA+ models of them, the TLC runs that check the models, and
proofs that hold for every value of the parameters.

## 1. The system

| part | program | state it keeps | operations | how it interacts |
|---|---|---|---|---|
| `mp0` | file server and client | the file as a string; children | accept, fork, reap, push length and content in one send; one receive, print | TCP, signals |
| `mp1` | HTTP/1.0 client and server | open connections, the output file, children | accept, fork, reap, send a file in blocks; receive it in pieces | TCP, signals |
| `mp2` | reliable sender and receiver over UDP | window of unacknowledged packets, congestion phase; reorder buffer, output file | send, resend, timeout, new and duplicate ACK; store, write in order, acknowledge | datagrams and ACKs that are lost, duplicated, delayed, reordered |
| `mp3` distvec | distance-vector routing, emulated | each node's links, table and what it knows of the vectors of others; one queue of messages | update and send a vector, receive one, cut a node off, apply a change, route a packet | vectors in the queue |
| `mp3` linkstate | link-state routing | a graph (class `GraphData`, kept twice), the result of Dijkstra's algorithm per node | insert, update, delete an edge; finish a node; write tables and routes by walking back | calls |
| `mp4` | CSMA channel simulation | countdown and collisions of each node, times and counts | idle, transmit, collide | shared channel |

What is hard in them, and what makes each correct:

* **mp2 sender.**  Old, repeated and reordered ACKs and timeouts arrive in any
  congestion phase.  The window must shrink by exactly what was acknowledged,
  the front of an empty window must never be read, and phase and window must
  agree (the window is a divisor).
* **mp2 receiver.**  Packets arrive out of order and more than once, the last
  one perhaps first.  A gap that is filled releases everything behind it, and
  the receiver leaves when, and only when, everything is written.
* **mp2 together.**  What the receiver writes is always a prefix of the file;
  the sender ends only after the receiver; with a network that is not
  completely silent the file arrives.
* **mp2 packet loader.**  The number of bytes asked for may be less or more
  than the file, either may be 0 or a multiple of the packet size, and the empty
  packet that marks the end must be the last and the only empty one.
* **mp3 distvec.**  Vectors of several nodes cross in the queue.  When it is
  empty, the costs are those of the shortest paths, also after links were cut
  and parts of the network counted up to `INFINI`, and the tables lead along
  those paths.
* **mp3 linkstate.**  The two copies of the graph agree; the distances are
  shortest; ties are broken by the smaller predecessor; the tables of different
  nodes, computed separately, fit together.
* **mp3 input files.**  Nothing checks them.  A link may be listed twice, an id
  left out, a change or a message may name a node that does not exist.  Each program
  keeps its own copy of the network; as long as both run the copies must agree.
* **mp4.**  Times and counts kept in different places add up, the back-off
  range follows the collisions since the last success, an idle period ends with a
  node that is ready, and every run ends less than one activity after its time.
* **mp0.**  The client calls `recv` once, whatever piece of the answer that
  gets, and takes it apart at fixed distances from the first newline.  A piece that
  ends before or with that newline goes wrong; any longer one must be shown without
  losing or inventing a character.  The server handles the end of children as mp1 does.
* **mp1.**  Whatever pieces TCP makes of the answer, the client has the whole
  file or nothing; every process gives up the descriptors of a connection, or the
  client would wait for ever; children end in any order and signals merge, and
  still every child is reaped; a child whose read fails goes on in the main
  process's loop, and must not take connections there.

`PROJECT.json` lists the components, and as hazards every point of the code
where one of these can go wrong, with the properties that watch it.  Where the code
does go wrong and the repository promises nothing else, the model has what happens,
and the hazard has a note in place of a property.

## 2. Modules

| module | models | in terms of |
|---|---|---|
| `Packets` | the datagrams of mp2 | a chunk of the file is its number, `FIN` the empty one |
| `Sender` | `ReliableSender`, `SlowStart`, `CongAvoid`, `FastRecovery` | one action for the sending half of an iteration of `working()` (`SenderAct`), one per outcome of the receiving half (`Timeout`, `DupACK`, `NewACK`, each with the cases of the three phases) |
| `PacketLoader` | `loadNewPacketsFromFile`, byte by byte | one action per kind of pass of its loop |
| `Receiver` | `reliablyReceive` | one action per datagram: store, write, acknowledge, leave |
| `Transfer` | both programs and the network | the actions above, delivery and loss |
| `FileTransfer` | what the pair promises | the file grows block by block in order, is reported received when complete, and the sender closes after that |
| `Topology` | the graphs of mp3 | links, changes, and the cheapest path by looking at all paths |
| `Routing` | what both programs of mp3 promise | after each change the costs of the cheapest paths are reported |
| `DistVec` | `Node` and `NetworkEmulator` | one action per node in the first loop of `converge()`, one per message and receiver in the second, one per hop of `findPath` |
| `GraphData` | class `GraphData` | one action per operation |
| `LinkState` | `dijkstra`, `outputTable`, `outputMessage`, `main` | one action per node finished and per step of a walk |
| `RoutingFiles` | both programs of mp3 reading a topology file, messages and changes | one action per line of the two files, and one per output |
| `CSMA` | `simulate` and its `Node` | one action per kind of pass of the loop |
| `Connections` | TCP between client and server of mp0 or mp1 | the backlog, the bytes under way, what failed |
| `ForkingServer` | what `server.c` of mp0 and of mp1 have in common | one action per system call of the accept loop; the handler of `SIGCHLD` may interrupt anywhere |
| `FilePush` | `client.c` and `server.c` of mp0 | the child's `concat` and `send`, the client's `recv` and the two `printf`s |
| `Requests` | what mp1's clients ask for | header and content of an answer |
| `HTTPClient` | `client.c` of mp1 | one action per system call |
| `HTTPServer` | the children of `server.c` of mp1 | one action per system call |
| `HTTP` | clients and server | the actions above, failing connections |
| `Download` | what they promise | files grow as prefixes; all or nothing without a failure |

`Transfer` extends `Sender` and `Receiver`.  `DistVec` extends `Topology`;
`GraphData` does too, and is extended by `LinkState` and `RoutingFiles`.
`ForkingServer` extends `Connections`, and is extended by `FilePush` and, with
`Requests`, by `HTTPServer`; `HTTP` extends that and `HTTPClient`.  `Transfer`
instantiates `FileTransfer` with a refinement mapping, `DistVec` and `LinkState`
both instantiate `Routing`, and `HTTP` instantiates `Download`.  The `MC`
modules give the constants values that a `.cfg` cannot express.  The proofs are
in `TransferProofs` (the loader, the sender, and both programs of mp2),
`TopologyProofs`, `DistVecProofs`, `LinkStateProofs`, `RoutingFilesProofs`,
`CSMAProofs` and `ServerProofs` (mp0 and mp1), and `NatSets` has facts that several
of them use.

The operators with a suffix (`AfterTimeout_NoResend`, `SelfVector_Improves`) are
faulty versions of the definition they precede.  No specification uses them;
each is a mistake the code could plausibly contain, and `PROJECT.json` says
which property notices it.

### How the models abstract

* **Contents.**  A chunk is its position in the file; that is all the
  properties of mp2 tell apart.  `PacketLoader` is the bridge: it shows that
  the loop over bytes produces just this sequence of chunks.
* **`windowSize_`** is a float.  It is a multiple of `1/Unit` here; what
  congestion avoidance adds is rounded to the grid.
* **`context_` after `delete`.**  `FastRecovery::newACK` reads a member of the
  object that `changeState` has just deleted.  The constant `ContextAfterFree`
  says what such a read may find: the old value, what the allocator wrote
  there, or a fault.  The transfer runs and proofs fix which outcomes they allow.
* **The network** of mp2 is a set of datagrams.  A delivery leaves the datagram
  there, so that it can be delivered again, later, and after younger ones; a
  loss removes it.  A process with a closed socket receives nothing.
* **The iteration order of `nodes_`** (an `unordered_map`) is chosen at the
  start and then fixed.
* **A missing entry** in a distance vector counts as `INFINI`, because
  `costFromNeighborToDestination` returns that for it.
* **Messages to route** (mp3) change nothing but the output, so one message per
  output, with any source and destination, stands for the message file.
* **Input files** of mp3: `DistVec` and `LinkState` assume that they name existing
  nodes with gapless ids and link different nodes.  `RoutingFiles` has what happens
  otherwise: a null pointer in distvec, an exception or a node without a table in
  linkstate.  It leaves out the computation of the routes, which for such files is
  that of the other two modules or does not come to its end.  Costs are positive
  everywhere; the code does not check that, and a hazard names what follows.
* **`rand()`** is any value in its range.
* **The distances of linkstate** are ints: `Wrapped` is what one holds of a sum above
  `INFINI`, which stands for `INT_MAX`.  `LinkStateAssumption` keeps the costs so
  small that no path reaches it; then only adding to `INFINI` itself could wrap.
* **`FirstMin`** (mp4) is the 191919191 from which `countDownAll` starts its search for
  the shortest countdown.  When all countdowns are above it nobody becomes ready, and
  the next pass is idle, too.
* **`atSuccess`** (mp4) is a history variable: no action reads it.  It remembers the
  `totalCollisions` of a node at its last success, so that the collisions since
  then can be told without `curCollisions`.
* **A string** (mp0) is a sequence of units: the content's, a NUL, newlines, and one
  unit for the digits of a length.  `WILD` stands for memory that was never written,
  which the client reads when the piece has no newline or ends with the first one.
  `numbytes`, what `recv` returned, is kept for the properties.
* **TCP** (mp0, mp1) delivers bytes in order and in pieces of any size, until the
  connection fails, which it may do at any time.  A request, one `write` of at most
  256 bytes, arrives whole, or the server's `read` returns 0 when the client has gone
  without it; a `send` takes everything or fails, as on a blocking
  socket.  The search for the end of the header ends with the bytes received.
  The header is two units, so that it can be cut; a file is the sequence of its
  units' numbers.
* **Processes** (mp0, mp1) are named after the connection they were forked for.  What
  each has open is state, so that who serves and when the client sees the end of
  the stream follow from the descriptors.
* Parsing, logging, socket set-up and the layout of the output are left out.

## 3. Runs

| run | instance | shows |
|---|---|---|
| `loader` | packets of 3 bytes, both sizes 0 to 10 (0, below, at and above one, two and three packets) | the packets are the blocks of the shorter size, exactly one empty one ends them, loading ends |
| `transfer` | 4 chunks and the FIN, all losses, duplicates and orders; the window reaches the whole file, and three duplicate ACKs start fast recovery from congestion avoidance, which a timeout makes reachable | the deque is never read empty, phase and window agree, nothing that is still needed is forgotten, the ACK -1 never occurs, the reorder buffer holds only what lies beyond a gap, and the pair implements `FileTransfer` |
| `transfer_live` | 3 chunks, fair-lossy network | the file arrives; the sender ends unless the last ACK is lost |
| `transfer_last_ack` | 1 chunk | *violation*: the sender need not end |
| `transfer_stale` | 5 chunks, deleted memory overwritten | *violation*: a chunk is lost from the file |
| `distvec` | 4 nodes in a line or in two pairs with costs 1 and 2, and in a circle with all costs 1 and 2; 2 orders, any 2 changes (nodes are cut off and come back, links are added, pairs lose each other and count up to `INFINI`) | neighbours end up with each other's latest vector; table and cost agree on what is unreachable; the exchange ends with the right costs; until the first change the next hops lie on shortest paths and every packet's route ends |
| `distvec_loop` | 4 nodes, a line, 1 change | *violation*: `findPath` goes back and forth for ever |
| `linkstate` | 4 nodes, 5 possible links of cost 1 or 2, 1 change | the neighbour sets and weights agree, the invariant of Dijkstra's algorithm, the tie-break, the fit of the tables, the right costs, and that every walk ends |
| `routing_files` | any 3 lines of a topology file over 4 ids and costs 1 and 2 (links listed twice, in both orders of their ends; ids left out), any 2 changes and a message between any two ids or none after each | both programs have the same network as long as both run, but for links listed twice; linkstate ends only where distvec has ended |
| `csma` | 3 nodes, 3 of 4 back-off ranges, of which one is above `FirstMin`, 11 units of time | times and counts add up, the back-off range is that of the collisions since the last success, an idle pass ends with a ready node unless all countdowns are above `FirstMin`, the run ends |
| `http` | 2 clients, backlog 1, a file of a block and a half and another that is smaller or missing, 1 failed connection, any failed `fork` or `fopen` | no descriptor and no dead child is forgotten, only the main process serves, the programs implement `Download`, and everything begun ends, but for a child whose read failed (it stays in the main process's loop) |
| `file_push` | 2 clients, backlog 1, a buffer of 8 units and four files: empty, one that fits with its length, one that does not, one with a NUL; 1 failed connection, any failed `fork` | a piece that reaches behind the second newline is shown without loss: with what is left unread it makes up the length, a newline and the file up to its first NUL; everything begun ends |

There is no run of `Sender` alone: `SenderSafe` (section 5) is about it with any
acknowledgements whatever, and `transfer` has those a network and a receiver can
produce.

**Bounds.**  `MaxWindow` and `MaxDupACK` cap the inflation of the window and the
count of duplicate ACKs, both unbounded in the code; beyond the number of
packets of the file neither changes what can be sent.  `INFINI` is chosen larger
than the longest path of the instance, so that counting up to it is seen but
short.  `MaxChanges`, `MaxLines`, `MaxBytes`, `MaxTime`, `Files` and `Contents`
bound the inputs.  Three lines are enough for a link that is listed twice beside
one that is not, for a gap, and for two parts that only a change joins.  Two
children are enough for signals to merge and for one to end while the handler
reaps the other; `MaxBroken` caps the failed connections at one, which leaves
another client to be served meanwhile.  The proofs below do not use the sizes.

**Deadlock** is checked except where the sender may have crashed
(`transfer`, `transfer_stale`) and where the server waits for connections that
do not come (`http`, `file_push`).

**Fairness.**  `Transfer`: both processes run (`WF` of `Act`); a `recvfrom` that
is reached again and again times out, because a datagram is delivered finitely
often; and the network does not lose every copy of a packet or of an ACK that is
sent for ever (`SF` of delivering the oldest packet, and an ACK that is news).
Nothing is assumed of packets that are sent once.  `HTTP`: every process runs,
in its program or its handler (`WF` for each); no client need connect.
`FilePush` is fair in the same way.  The other programs are sequential: `WF` of
the next step says that they run.

## 4. What the violations show

* `distvec.cpp:150` replaces a next hop only when the cost changes.  In a line
  1-2-4-3 with links of cost 1, raising 4-3 to 5 ends with 1 and 2 as each other's
  next hop for 3: counting up, node 2 meets the cost of its true route while its
  hop still points to 1.  `findPath` then never returns.  The same test keeps a hop
  behind a link that was deleted.  Costs stay right (`distvec`), and without
  changes the tables do too (`HopMatchesCost` and `RoutesEnd` of the same run).
* `sender_main.cpp:359` uses freed memory.  If it was overwritten, `leftPacketId_`
  keeps its old value, new packets reuse old ids, and the receiver's file misses
  a chunk.
* `receiver_main.cpp:122` leaves after the last ACK was sent once.  If it is
  lost the sender resends the last packet for ever.
* `server.c:71` of mp0 says "Need to send len-1 as length"; line 75 formats `len`.  The
  model and `PrintsWhatArrives` have the length of the file, as the code does, so that
  the passing run `file_push` contradicts the comment.  The client shows the right
  number; the comment is what is wrong.
* The header comment of `sender_main.cpp` (line 55) says that the receiver sends
  back the id of each packet it receives.  The ACKs are cumulative (`ACKToSend`); a
  receiver written after the comment would not work with this sender.

## 5. Proofs

All are checked by TLAPS to the last leaf.  Assumptions are the `ASSUME`s of the
modules (sizes are naturals, `ssthresh_` at least 2, a packet has room for a
byte) and what a theorem states itself.

* **`TransferProofs!LoaderSafe`**: `LoaderTypeOK`, `PacketsAreBlocks` and
  `OnlyLastIsEmpty` (`EmptyPacketEnds`) for every packet size and sizes.  `LoaderInv` adds
  where the file pointer and the remaining count are after `k` packets: both are
  functions of `k` as long as nothing is exhausted.  `LoadsAllBlocks`: an exhausted
  file has given one packet for every started block and the empty one, the number
  the other modules of mp2 count with.
* **`TransferProofs!SenderSafe`**: for any ACKs and timeouts, `SenderTypeOK`,
  `SomethingOutstanding` and `PhaseMatchesWindow`.  `SenderInv` adds that ids in
  the window are consecutive and that the window is not empty unless the file
  is exhausted; what congestion avoidance adds is bounded by an induction over
  the packets acknowledged (`GrowProperties`).
* **`TransferProofs!TransferInvariant`, `TransferSafe`**: every safety invariant
  of the transfer for a file of any length, any number of losses and duplicates,
  provided the deleted read finds the old value or faults
  (`"stale" \notin ContextAfterFree`; the run `transfer_stale` shows that it is
  needed).  The properties are not inductive: `NothingForgotten` says where one
  packet is, and a step can only keep that when it is known where all are.
  `TransferInv` says it: the window is the interval from the last ACK to the
  last packet read, ids are positions in the file, the output is a prefix,
  nobody acknowledges what was not written, and before packet 0 arrives nothing
  else was sent.  `TransferTypes`, `PacketZeroFirst`, `BufferBeyondGap` and
  `LeftFollowsACK` name four parts of it that the runs check.
* **`TransferProofs!TransferImplementsFileTransfer`**: every step of the transfer
  is a step of `FileTransfer` or leaves its variables alone.
* **`TransferProofs!TransferImplementsSender`**: within the network the sender takes
  only the steps `SenderSpec` has, so that the first two theorems are about
  the same program; `PhaseAgrees` draws the conclusion for phase and window.
* **`TopologyProofs`** is about graphs with positive costs alone.
  `OneSolution`: the equations "my cost is 0, and that of another node is the least
  cost of a link plus the neighbour's cost" have one solution below a bound; of two
  different ones, the place where they differ and the smaller of the two values is
  least leads to a neighbour where they differ at a smaller value.  `ShortestSolves`:
  `ShortestCosts`, the least cost over all paths, is that solution; a cheapest
  path without its last link is a path, and a path with a link added contains one
  that is not dearer.  `Triangle`: a way over a third node is no cheaper.
* **`DistVecProofs!VectorsArrive`, `OutputsAgree`**: for any network and order of
  nodes, neighbours end up with each other's latest vector
  (`LatestVectorKnown`), and table and cost agree on what is unreachable.  For
  this the invariant needs what the queue looks like while the nodes start
  (`PhaseOK`: the vectors of those that have started, in order and to all their
  neighbours) and that a message with receivers goes to neighbours of its sender
  (`QueueOK`); it adds that a node's own vector is always what
  `updateSelfDistanceVector` makes of what it knows (`VectorsCurrent`).
  `TypeCorrect` says that vectors stay within `INFINI`.
* **`DistVecProofs!DistVecImplementsRouting`**: with an empty queue the vectors
  satisfy the equations, so they are the shortest costs.  "With an empty queue" is
  the point: while messages are under way nothing is said about the costs, and
  counting up to `INFINI` needs no separate treatment.
* **`DistVecProofs!TablesLeadOn`**: `HopMatchesCost`, the tables before the first
  change.  An entry is replaced only where the cost changes, so that a hop that is
  kept must still cost what it did.  It does because until the first change vectors
  only improve (`FirstInv`): what is under way to a node becomes better along the
  queue, lies between what the receiver has and what the sender has now
  (`Improving`), and the least offer is at most the improved offer of the hop
  (`BetterHops`).  A node without links has not been heard of by anybody
  (`Unheard`), so that disconnecting it is no exception.  After a change costs may
  rise, and the property is false.  **`EveryHopNearer`** draws the conclusion for
  `findPath`: what is left of the way is a natural number that every pass of its
  loop lowers, which is why `RoutesEnd` holds.
* **`LinkStateProofs!GraphConsistent`**: after any operations of `GraphData` the
  neighbour sets and weights agree.  **`NearestFirstHolds`**: what is finished is
  at most as far as what is not, and every distance is the least over the finished
  neighbours.  From it the distances solve the equations when all
  nodes are finished, hence **`LinkStateImplementsRouting`**.  With the
  theorem above, both programs report the same costs for the same network and
  changes.  The proofs use `LinkStateAssumption`: that no sum wraps follows from what
  the invariant says of a finite distance, that it is at most as many times the largest
  cost as there are finished nodes (`PathLong`).
* **`LinkStateProofs!TieBreak`**: a predecessor is the smallest of all neighbours on
  shortest paths.  `PredsSmallest` says it of the finished nodes at every pass of
  the loop: the node that is finished either offers the same distance as the
  predecessor, and then the smaller wins, or is the only one to offer the new one.
* **`LinkStateProofs!TablesFitTogether`**: from it, what `outputTable` passes on its
  way back lies on a shortest path (`WalkOnPath`; a step back keeps that by
  `Triangle`), so that the entry it writes does (`TablesOnPath`).  An entry is about
  one source's run of `dijkstra()`; that it fits the tables of others follows because
  the runs agree on the costs of the cheapest paths (`OneColumn`).
* **`RoutingFilesProofs!NetworksAgree`, `AllSources`**: `SameNetwork` and
  `SourcesComplete` for files of any length.  `Agree` relates the three copies of the
  network, the neighbour maps of distvec and the edge sets and weights of linkstate:
  same nodes, same links, distvec's costs equal at both ends, and the costs of a
  link those of its last change or, until one names it, each that of some line of
  the topology file (`CostsAgree`).  What may differ is then exactly what
  `SameNetwork` allows.  It is kept while distvec runs (`FilesInv`): a change that
  names an unknown node, or a gap in the ids, ends distvec first.
* **`CSMAProofs`**: for any number of nodes, ranges and draws, `StatisticsAddUp`
  (the counts of all nodes and the times agree; the sum over the nodes is a fold,
  which `SumTable` describes one node at a time), `BacksOffInRange` (the range is that
  of the collisions since the last success, modulo M; the invariant adds that a node
  had no more of them at its last success than it has now, `SuccessBefore`),
  `EndsInTime` (`StopsInTime`, which no run repeats), and the action properties
  `IdleEndsReady`, which excepts a period in which all countdowns are above
  `FirstMin`, and `IdleOnce`: with ranges up to `FirstMin` there is no such period.
* **`ServerProofs`**: the servers and clients of mp0 and mp1 for any number of
  clients, any files and any cuts of the stream.  Both servers keep `ServerInv`,
  which is proved once for the steps of `ForkingServer`.  A descriptor is in a table
  only between the two system calls that open and close it, and which they are
  depends on whether the process is `Main` (`MainOK`), a child in its branch, or a
  child that has left it after a failed read (`ChildrenOK`); a connection is in the
  backlog, in the hands of `Main`, or of one child (`BacklogOK`).  From it follow
  `HTTPNoSocketLeaks`, `HTTPOnlyMainServes`, `PushNoSocketLeaks` and the second half
  of `PushDeadChildrenAnnounced`.  `DeadChildrenAnnounced` is inductive beside it: the
  handler leaves only when `waitpid` finds nothing, and a child that dies later
  raises the signal again (`HTTPDeadChildrenAnnounced`, `PushDeadChildrenAnnounced`).
* **`ServerProofs!Downloads`**: `HTTP` implements `Download`.  `Delivery` says for each
  client where the answer is: what has been written to the file, what is under way,
  and what the child has not yet read make up header and content, cut at places
  that depend on how far both sides are, and a stream that has ended before its
  answer was complete belongs to a connection that failed.  `HTTPTypesCorrect` is the
  type invariant with it.  **`PushPrints`**: the same for mp0, where all of the answer
  is sent at once and one piece of it is received (`PushDelivery`); what the
  two `printf`s make of a piece that reaches behind the second newline is a lemma about
  the units in it (`ShownPiece`).  Of shorter pieces nothing is claimed.
* `NatSets` has the facts on natural numbers the proofs need in place of
  induction over a predicate: a set of naturals has a least element, and a set
  with 0 and all successors has every natural; and what a quotient is.

Every invariant and every action property that a passing run checks is a theorem,
and so are the refinements.  Only model-checked are the liveness properties, which
this prover does not do: that a file arrives and both sides end (`FileArrives`,
`EndsUnlessLastACKLost`), that loading, the exchange of vectors, the walks, the
simulation and the servers' work end (`LoadsAllAndFIN`, `Converges`, `RoutesEnd`,
`Terminates`, `Ends`, `AllEnd`).  For three of them the theorems have the safety
part of the argument: `LoadsAllBlocks`, `EveryHopNearer` and `EndsInTime`.
Whatever depends on `Unit` as an approximation of a float is about the
approximation.  The three expected violations are counterexamples of TLC.

## 6. Not modelled

* The talker and listener of `mp0` and `mp1`, which nothing uses: one datagram, no
  state beside it.
* The UDP part of `mp0`'s client, which is commented out.
* Parsing of arguments, URLs, requests and lines, socket set-up, printing.
* Costs below 1, which the routing programs accept, and a file server whose file
  cannot be opened, which uses it before the test.
* The means and variances over the 200 runs of `mp4`: arithmetic on floats.

## 7. Plan

1. Lemmas that say how far a liveness property is from a proof, as for `RoutesEnd`:
   for `Converges`, that after a change a vector that is too low rises until it
   reaches `INFINI` or the cost of a path; for `AllEnd`, that every step of a process
   brings it nearer to its end.
2. That the reported costs of the two programs of mp3 are equal also for a
   topology file that lists a link twice, once a change has named every such link.
3. The proofs again, for shorter ones: the entry-by-entry description of the queue of
   `converge()` is derived twice.
