# TLA+ models of the three course projects

The repository holds three independent C programs:

* **project_1**: a publish/subscribe group server. Clients call it over ONC RPC (UDP),
  subscribe to kinds of articles, and receive matching articles as datagrams.
* **project_2**: a replicated bulletin board. Each server keeps a database of articles; one
  of three protocols (sequential, quorum, read-your-write) keeps the copies together over TCP.
* **project_3**: a file-sharing network. Peers announce the files in a folder to a tracker,
  ask it who has a file, and download from one another.

This directory holds the TLA+ modules that model their core, the TLC configurations that
check the modules on small instances, and TLAPS proofs of the main safety properties for all
instances. `PROJECT.json` maps every definition to the lines it models and lists runs,
mutants, hazards, findings and theorems.

    tlc -workers 2 -config Sequential.cfg MCSequential    # one run
    tlapm SequentialProofs.tla                            # one proof module

## 1. Inventory

Lines in brackets are the places where the behaviour is decided.

### project_1

| component | state | operations | correct if |
|---|---|---|---|
| group server (`server_routines.c`) | `client_list` with last check-in times, `subscription_list`, a mutex for each | six RPC routines on one thread; a timeout thread started by the first join | live clients are listed, dead ones removed; articles go to exactly the matching subscribers; the server always answers |
| client (`client.c`) | one RPC handle under `lock_rpc`, a UDP socket | send, receive and ping threads | gets what it asked for; can retry what failed |
| article headers (`article.c`) | none | decode and validate `type;originator;org;contents` | accepts exactly headers with some field and a known type |
| RPC stubs | none (generated) | marshalling, dispatch | - |

Hard here: two server threads share the client list; two error paths return with a mutex
locked [378, 506]; the timeout thread acts on a list it made before it released the mutex
[628]; UDP calls are repeated and run again.

### project_2

| component | state | operations | correct if |
|---|---|---|---|
| article database (`shared/database.c`) | array of nodes with a linked list in it, `article_count`, `version`, one mutex | `db_Post`, `db_Reply`, `db_Read`, `db_Choose`, `db_Backup`, `db_Restore` | the list threads every article once; ids are unique; replies hang below older articles |
| sequential protocol | per process: database, global response buffer; per connection: a thread | coordinator commits, answers, pushes snapshots; others forward | all servers list writes in one order; nothing committed is lost or doubled; replicas catch up |
| quorum protocol | the same, and a sync thread in each server | local write; READ pulls from Nr servers; sync thread pulls and takes over | servers that share an article agree on its id and what precedes it; failed pulls do no harm; servers come to one version |
| read-your-write protocol | the same | commit, push before the answer, forward | a client sees its own writes; success means the pushes were taken over; servers that share an article agree on its id |
| message handlers, network layer, codec, server main | message buffers, sockets | parse, dispatch, send with a 5 second limit, accept loop | a response belongs to its request |
| client, renderer, configuration file | none that matters | command loop, printing, line parser | - |

Hard here: commit, snapshot and push happen under no common lock; pushes and pulls overtake
one another, arrive after the caller gave up, or find a server that restarted; all threads of
a process share one response buffer; after a restore the unused slots of the array are
uninitialised; the sync thread uses a version it read before a network call and ignores
failures; the accept loop overwrites the record it handed to a new thread; the read-your-write
coordinator pushes to its own process while it serves the request [40-42].

### project_3

| component | state | operations | correct if |
|---|---|---|---|
| tracker (`server/database.c`, `connection_handler.c`) | array of peer entries, `peer_count`, one mutex | add peer, keep alive, find, discover; timeout monitor | one entry for each peer; right count; only silent peers are forgotten |
| broadcaster (`peer/broadcaster.c`, `send.c`) | last names seen | ping thread, file monitor thread | the tracker knows a running peer and its files |
| download, peer selection, load tracker, checksum (`peer/ui.c`, `peer_selection.c`, `connection_handler.c`, `load_tracker.c`, `file.c`) | number of current uploads; files in the folder | DISCOVER, FIND, GET-LOAD, DOWNLOAD with retries; handlers that serve them | what is stored is what somebody shared; a command ends; the load counter comes back to zero |
| codec, sockets, main, rendering | none that matters | - | - |

Hard here: the monitor reads the clock before it has the mutex; both threads of a peer may
register at once; lists may be served in another order than they were read; requests are
served after their sender gave up or died; the tracker restarts empty; a file is summed,
opened again and read while it may be replaced or is just being written [`file.c` 53-68].

## 2. Modules

| module | models | extended by |
|---|---|---|
| `ArticleDatabase` | `project_2/shared/database.c`, and what the DB messages of `msg.c` do to a database | `MCArticleDatabase`, `ArticleDatabaseProofs` |
| `BulletinBoard` | the abstract specification of it: one sequence of articles | instantiated by `ArticleDatabase` |
| `WriteLog` | the other abstract specification of it: the log of writes that the three protocol modules keep as a database | instantiated by `ArticleDatabase` |
| `Sequential` | `protocol_sequential.c` with the handlers, `net.c` and `server.c` below it | `MCSequential`, `SequentialProofs` |
| `QuorumProtocol` | `protocol_quorum.c` with DB-PULL below it | `MCQuorum`, `QuorumProofs` |
| `ReadYourWrite` | `protocol_readyourwrite.c` with the handlers, `net.c` and `server.c` below it, and the requests of the client | `MCReadYourWrite`, `ReadYourWriteProofs` |
| `PubSub` | `project_1/server_routines.c`, `client.c`, the validation of `article.c` | `MCPubSub`, `PubSubProofs`, `PubSubOrderlyProofs` |
| `Tracker` | `project_3/server`, `peer/broadcaster.c`, `peer/send.c` | `MCTracker`, `TrackerProofs` |
| `Download` | the DOWNLOAD command of `peer/ui.c`, `peer_selection.c`, and the serving side in `connection_handler.c`, `load_tracker.c`, `file.c`, `checksum.c` | `MCDownload`, `DownloadProofs` |

Definitions whose name ends in `Bug` are the slips that `PROJECT.json` lists as mutants; no
specification uses them.

**ArticleDatabase.** `db` is the static array with its counters, `snapshot` what `db_Backup`
copied last. Each operation holds `db_lock` throughout and is one action. `Posted` and
`Replied` keep the order in which the code looks and links: `db_Post` looks for the end of the
list after it incremented the counter, so it also inspects the slot it is about to fill
(`EndOfList`). `db_Restore` puts arbitrary `Garbage` into slots beyond `article_count`, as the
messages carry only the used ones and the receiving buffer is an uninitialised local.
Text of articles is left out; a reply to an id that is missing and a write to a full database
change nothing and have no action.

**Sequential.** A database is the sequence of writes applied to it; that the array of the
previous module implements such a sequence is its property `ImplementsLog`. A request `r` has a forwarding handler `fwd[r]` if
it enters at a replica, a coordinator's handler `pc[r]` with its `snap[r]` and loop counter
`next[r]`, and one DB-PUSH handler for each replica, `pushes[r][i]`. Every database operation,
every build of a response and every send is a step of its own. `response[s]` is the global
buffer of server `s`; a send delivers what it holds at that time. With `Faults`, a request is
lost, any wait is given up while the other side runs on, and replicas restart. The
coordinator does not restart: the code has no recovery for it, and a restarted coordinator
simply begins a new history.

**QuorumProtocol.** `from_server` is 1 from the start and nothing makes it 0, so the loops
that write to Nw servers are never executed, and a write is one local operation. Every server
has a sync thread that goes around all servers; it and the READ handlers are the `Pullers`,
each with its place `pos`, its call `pull`, and for each server a DB-PULL handler `serving`
with its own `snapshot`. `version` is what the sync thread saw of its own database before the
pull, and `rcvd` the buffer that keeps its contents when a pull fails. Any server may restart.

**ReadYourWrite.** State and steps as in `Sequential`, with what is different in the code: the
coordinator pushes before it answers, a failed push ends the loop with an error, the loop of
a post goes from server 0 (itself) to N-2 and that of a reply from 1 to N-1 (`FirstPush`,
`LastPush`), and the error of a post that could not be forwarded is overwritten
(`ForwardError`). DB-PUSH handlers run at every server including the coordinator, whose
database may thereby shrink. Every server may restart, the coordinator too, which ends the
handlers there. `taken[r]` is a history variable: the servers that have restored the snapshot
of `r`.

**PubSub.** A routine holds its mutex from beginning to end and is one step; `client_lock` and
`subscription_lock` say that an error path returned without releasing it. `Block` is the RPC
thread waiting for such a mutex, after which no call is served. The timeout thread takes one
step to collect silent clients and one for each removal. Check-in times are ages that `Tick`
increments. `Retries` allows lost replies, repeated calls and copies that arrive later;
`Careful` says that users unsubscribe only from what they subscribed to; `Punctual` that pings
and calls arrive in time. The three say which environment a property needs.

**Tracker.** `db` is the array of entries with ages for timestamps. A request is served in one
step, as its handler takes the mutex once. The timeout monitor takes two, `ReadClock` and
`Sweep`, and `lag` is the time between them: an entry is compared with the older clock. Each
peer has its two threads; the file monitor remembers names (`prev`, `curr`) and every broadcast
reads the folder again. A request that a peer gave up on is lost (the connect failed) or, like
those of a peer that was stopped, `late`: it is served, but nobody gets the reply. `Crash`
restarts the tracker.

**Download.** One file name; contents are sequences of blocks, and a checksum is the contents
it was computed from, so that it tells any two apart. `ui[p]` is where the UI thread is,
`queue[p]` the peers it has still to try and `attempt[p]` the counter of the inner loop. The
answer of the tracker is any set of peers. An estimate is one of the classes that the sort
tells apart: negative (a load above the limit), finite, `DBL_MAX` (no answer), infinite (a
division by zero) and NaN (an empty file from a peer without throughput; the sort is then
free). `handler[p][q]` is the thread at `q` that serves `p`: it takes the checksum, opens the
file again and reads, may change the first byte (the code does so half of the time),
increments the load counter, sends, and decrements it. A handler whose peer has given up is
`late` and runs on. Opening a file for writing empties it, and blocks are written one by one,
so that other handlers see every beginning of it. `Edit` is somebody who puts a file into a
folder or takes it away.

## 3. Runs

Twelve runs, ten that pass and two that show a disagreement between the code and what it or
its documentation says.

| run | instance | states | shows |
|---|---|---|---|
| `article_database` | 5 slots, two kinds of garbage | 16 000 | list whole, parents older; implements `BulletinBoard` and `WriteLog` |
| `sequential` | 3 servers, a post entering at a replica and a reply, all faults, weak fairness | 772 000 | one history, replies after parents, committed once, handlers finish, posts are pushed to all |
| `quorum` | 2 servers, post and reply at different ones, 1 fault | 3 300 000 | shared history, replies after parents, failed pulls restore nothing |
| `quorum_live` | 2 servers, a post at each and a READ of both, of which two are made, or one and 1 fault; weak fairness | 1 330 000 | versions converge, handlers finish |
| `pubsub_orderly` | 2 clients, 2 patterns, 3 articles, room for 2 clients and 2 subscriptions; careful and punctual | 1 100 000 | lists right, articles to exactly the subscribers, nobody is stuck, dead clients go |
| `pubsub_faults` | 2 clients, repeated, lost and late calls | 566 000 | removals take one entry of the right client |
| `tracker_safety` | 3 peers, 2 slots, monitor held up by 1 second | 711 000 | one entry for each peer, right count, only silent peers forgotten, nobody displaced |
| `tracker_faults` | 1 peer, 2 slots, 2 faults, 1 change of its folder, fairness | 64 000 | with late requests and restarts, running peers register and stopped ones are forgotten |
| `tracker_stale` | 1 peer, 1 change | violation | the tracker may keep an outdated list for good |
| `read_your_write` | 3 servers, a post forwarded by server 1 and a reply at the coordinator, 1 fault, weak fairness | 315 000 | shared history, replies after parents, success means taken over, handlers finish |
| `read_your_write_own` | 2 servers, a post and a reply at the coordinator, no faults | violation | a write that was reported as successful may be rolled back |
| `download` | 2 peers, a file of 2 blocks at one of them, 2 attempts for each peer, 1 fault or edit, weak fairness | 245 000 | only genuine contents are stored, downloads end, loads return to zero |

`CHECK_DEADLOCK FALSE` is set for `PubSub` and `Download` only: clients of the group server end
and a server whose mutex is lost really stops; and when every user has given their commands,
nothing is left to download.

Five more configurations are kept beside the runs, each of which TLC refutes at once; section
4 says what they show: `SequentialReplicas.cfg` and `SequentialAcked.cfg` (for
`MCSequential`), `PubSubHang.cfg` and `PubSubStale.cfg` (for `MCPubSub`) and
`DownloadWhole.cfg` (for `MCDownload`).

### Why the bounds are enough

* `article_database`: with five slots a reply can have an older sibling, a nested reply, a
  post behind it and a free slot with garbage, which are all the cases the code tells apart.
* `sequential`: the post enters at a replica and is forwarded, the reply at the
  coordinator; they race for the buffer, for commit order and for the replicas, and the reply
  may come first and be rejected. With two replicas the loop goes on after a push that failed,
  and a replica may have what the one before it has not. More requests and servers are the
  theorem's business. `ReadsMatter` of `MCSequential` leaves out the READs that build their
  response in a buffer nobody is about to send from: the next handler to use it builds its own
  response first.
* `quorum`: a fault is a wait given up, a lost connection, an aborted write or a restart, so
  one fault anywhere is every single failure. A handler that serves an earlier pull of the
  same puller has to end before it asks the same server again (`Ask`), a bound of the model.
  An instance with three writes and no faults (12.2 million states) passes too.
* `quorum_live`: `MaxEvents` counts requests and faults together. Two posts at two servers are
  what it takes for a sync thread to overwrite a write made since it read its version; a post
  and a fault are a pull that fails with an older database in `rcvd`, or a server that restarts
  empty and has to catch up; a READ with a post or a fault has its pulls disturbed.
* `read_your_write`: three servers are the smallest group in which the coordinator, a server in
  both loops and the last server, which posts leave out, are different. One fault is every
  single failure, a restart of the coordinator included.
* `download`: the peers ask each other and themselves, so that a copy is served while it is
  being written, by the peer that writes it as well. One command for each user and two
  attempts for each peer reach every outcome; with the load limit at one download the
  estimates of an exhausted peer occur. A peer has one handler for each other peer, so an
  attempt waits for a late handler of its own at the same place (`Attempt`), and nobody edits a
  file while the peer writes it (`Edit`): bounds of the model.
* `PubSub`: two clients fill the client list and compete for two places in the subscription
  list, so that the last entry is moved to a gap, two clients subscribe to the same, and a
  third subscription is refused. Each pattern has a wild card and a field that tells two
  articles apart; a third article is incomplete and rejected.
* `Tracker`: three peers for two slots is the full array; one peer with both threads and two
  faults is a restart of the tracker and a late request, or any other two.

### Fairness

Nothing makes a client send, a peer start or a fault happen. What is fair:

* Handler threads run once they are started, and so do sync, ping, monitor and timeout
  threads: they are loops with a sleep, on a scheduler that runs every thread.
* A wait on a socket ends, as `tcp_Recv` has a limit of 5 seconds. In `Sequential` this and the
  progress of the coordinator's handlers is all that is assumed: replicas may stop for good.
* `Tick` in `Tracker` is strongly fair, since the monitor may not be held up beyond `MaxLag`
  and time cannot be stopped by it sleeping and waking. In `PubSub` the ping of a client is
  strongly fair: it is enabled again and again, between the calls of the other thread, and
  needs to get `lock_rpc` at some time.
* `PubSub` serves every client's calls eventually: the socket is a queue.
* In `ReadYourWrite` the wait for a connection that is gone ends (`PushFails`, `ForwardFails`
  where the other side has ended); a wait given up too early is a fault and not fair.
* In `Download` the UI thread and every handler thread run; giving up a wait is a fault, so
  that commands are shown to end because handlers answer, not because waits time out.

## 4. Findings

Two runs end in a violation, and five more configurations do; TLC prints the trace.

1. **Outdated file list** (`tracker_stale`). The lists of a peer's two threads are served in
   the wrong order, and the monitor, which saved the new names, does not send again.
2. **A write that is rolled back** (`read_your_write_own`). A post is committed and its snapshot
   taken; a reply is committed, pushed and reported as successful; then the post's loop,
   which starts at server 0, pushes the older snapshot to the coordinator itself. The client
   does not find its own reply. If the push to itself comes between the commit of another
   write and its snapshot, that write is never pushed anywhere.
3. **A replica stays behind** (`SequentialReplicas.cfg`). Snapshot and push of two handlers are
   not ordered; the older snapshot may be pushed last.
4. **A success that was none** (`SequentialAcked.cfg`). The response buffer is shared: a
   rejected write is answered with what another handler built there.
5. **The group server hangs** (`PubSubHang.cfg`). An unsubscribe from what was not subscribed
   to returns with the mutex locked.
6. **Half a file is a success** (`DownloadWhole.cfg`). A peer is served a copy that is being
   written; the checksum in the response is that of the part, so the test agrees. The size and
   checksum that the tracker knows are not used.
7. **Removed although it pinged** (`PubSubStale.cfg`). The timeout thread removes clients from a
   list it made before it released the mutex; a ping that is served in between does not save
   the client. Its `leave` is then one of a client that is not listed, and returns with the
   client mutex locked.

Observations from the same models that nothing records:

* The passing properties of `pubsub_orderly` need its environment. With `Retries` a repeated
  `subscribe` leaves a second entry that the one `unsubscribe` does not remove, and TLC
  refutes all of its safety properties but `TypeOK`. Without `Careful` users may do the
  same, and the server hangs. Without `Punctual` live clients are removed (finding 7), and a
  `leave` between check and removal leaves the client mutex locked; who is sent what is still
  right. Nothing in the code makes clients punctual: it is what the server relies on. The proofs
  (section 5) assume for each property only what it needs of this.
* `db_Reply` links a reply behind the latest sibling and not behind that sibling's own
  replies: after 0, 1 (to 0), 2 (to 1) and 3 (to 0), the list reads 0, 1, 3, 2.
  `BulletinBoard` states the order as it is.
* In `QuorumProtocol` an acknowledged write is on one server only, and a sync thread may
  overwrite it with a longer foreign database; servers with databases of equal length and
  different contents never notice. So two servers may show different articles under one id.
  `SharedHistory` and `VersionsConverge` are what remains.
* In `ReadYourWrite`, too, an id may mean two articles: after the push to itself took the
  coordinator back, or it restarted, the next write gets an id that another server shows for a
  write that is gone. `SharedHistory` says only what servers that share an article agree on.
* In `ReadYourWrite` a post never reaches the last server, and a post whose forward failed is
  reported as successful (`ForwardError`), so a client of the last server does not read its
  own posts until somebody replies.
* A late push may take an article away from a replica that has already served it;
  `OneHistory` holds all the same.

## 5. Proofs

All by an inductive invariant, `IInv` in the proof module (or the type invariant itself), with
`Init => IInv` and `IInv /\ [Next]_vars => IInv'` split by action. All constants are arbitrary
within the named assumptions of the modules (sizes are naturals, most of them positive,
functions have their domains, `Garbage` is a nonempty set of nodes, `NoPeer` is no peer).

* **ArticleDatabaseProofs**: `TypeCorrect`, `ListCorrect`, `IdsCorrect`, `ParentsCorrect`,
  `BoardImplemented`, `LogImplemented`.
  `IInv` says that database and snapshot are both good: ids equal indices, and there is a
  permutation of the used slots that starts at 0 and follows `next`. The core is
  `InsertBehind`: storing a node in the next free slot and linking it behind any node of such
  an order gives such an order again. That `db_Post` also inspects the slot it fills does no
  harm because the true end of the list has a lower index (`EndOfListIsTail`).
  `BoardImplemented` is the refinement `Spec => ImplementsBoard`: the array implements the one
  sequence of `BulletinBoard`. The mapping `Listed` walks the linked list by recursion; that the
  walk is the permutation of `IInv` (`ReadOrderIs`) is shown by a least counterexample, since
  two orders that follow `next` from slot 0 cannot differ first anywhere. Then every operation
  extends that order as `BulletinBoard` inserts into its sequence (`Extends`, `InsertAtIs`,
  `PostedListed`, `ReplyImplements`), a transfer keeps what is listed whatever the garbage
  (`TransferredListed`), and the article that `db_Reply` finds in the array is the one that
  the board finds in the sequence (`SearchesAgree`).
  `LogImplemented` is the refinement `Spec => ImplementsLog`, the link between the array and the
  protocol modules: in storage order the articles are the log of `WriteLog`, in which article
  id k is element k + 1, a write is taken only if there is room and its parent is there, and
  `version`, by which the sync threads of the quorum protocol choose, is the length. `LogInv`
  adds to `IInv` that the version of database and snapshot counts their articles.
  `IdsCorrect` gives the other direction, that the search of `db_Reply` finds every parent the
  log has.
* **SequentialProofs**: `TypeCorrect`, `OneHistoryCorrect`, `RepliesCorrect`,
  `CommittedOnceCorrect`. `OneHistory` alone is not inductive: a push in
  flight carries an old snapshot. `IInv` adds that every snapshot is a prefix of the
  coordinator's database, that a handler before its commit has not committed, and that the
  loop counter of a pushing handler names a replica.
  Two theorems delimit findings 3 and 4, stating the property that TLC refutes under the
  discipline that the code lacks. `AckedUnlessOverwritten`: with every fault, also timeouts and
  restarts, a success reaches a client only for a committed write if no response buffer
  is refilled between build and send (`BuffersKept`). `ReplicasOneAtATime`: without faults, the
  replicas equal the coordinator once nothing is under way, if also one handler at a time is
  between its commit and its last push (`OneAtATime`), as under one lock around `db_Post` and
  the loop. `Told` says what each handler knows before it tells; `SyncInv` says that the
  loop pushes the coordinator's present database, that the replicas below its counter have
  it, that a push under way is the one waited for, and that all agree when nobody is busy.
  So nothing else in the protocol causes the two findings.
* **QuorumProofs**: `TypeCorrect`, `SharedHistoryCorrect`, `RepliesCorrect`,
  `FailedPullCorrect`. Databases here do shrink and are replaced, so the invariant is about
  all copies that exist anywhere (databases, snapshots of handlers, response buffers, `rcvd` buffers): any two of them agree,
  each is grounded (replies behind an article of the id), and a write that was not executed
  yet is in none of them. Every step copies a copy, drops one, or appends a new write to one.
  `FailedPullRestoresNothing` has an invariant of its own, `StaleInv`, that follows a sync thread
  around its loop: between pulls `rcvd` is not longer than the database (it was taken over or
  was not newer), while a pull is under way it is not longer than the version read before, and
  that version is not beyond the database, which only its own sync thread or a restart makes
  shorter. So ignoring the result of `net_DbPull` is harmless as long as the version is read
  anew in each round.
* **ReadYourWriteProofs**: `TypeCorrect`, `SharedHistoryCorrect`, `RepliesCorrect`,
  `SuccessCorrect`. As in the quorum protocol, databases are replaced by older ones, so the
  invariant is about all copies (databases and snapshots): they agree, are grounded, and
  hold no write that is not committed yet. `SuccessIsTaken` needs more: acknowledgements carry
  no name, so `IInv` says that the servers below the loop counter have taken the snapshot over,
  that a DB-PUSH handler past its restore has, and that the loop is over when it says so.
* **DownloadProofs**: `TypeCorrect`, `GenuineCorrect`. What is stored came as the data of a
  response, that is believed for its checksum, which was taken from another folder: `IInv`
  says that all three (folders, checksums that may still be believed, validated data) are
  beginnings of originals, that a file being written is there, and that a handler whose peer
  still waits serves the peer's current attempt, which the type invariant needs.
* **TrackerProofs**: `TypeCorrect`, `EntriesCorrect`, `CountCorrect`, `DisplacedCorrect`,
  `ForgottenCorrect`. `IInv` joins the type invariant, one entry for each peer, and the count;
  the count needs the cardinality of the active slots before and after each operation.
* **PubSubProofs**: `TypeCorrect`, `RemovalsCorrect`. The type invariant is inductive: it bounds
  both lists by their arrays, also with repeated and late calls, and says that the timeout
  thread holds somebody to remove exactly when it is about to. `RemovalsAreOwn` rests on
  `RemoveCount`: moving the last entry to the gap lowers the number of entries of one client
  by one and keeps that of every other, also when the removed entry is the last one or the
  moved one belongs to the same client.

* **PubSubOrderlyProofs**: what the group server promises, each theorem under the weakest of
  three environments that it holds in.
  Without retries, `SubscribersCorrect`: `AnsweredInv` says that every call under way is its
  sender's last one (so that it is served once and answered), and that what a client wants is
  in the subscription list. Users may subscribe twice, pings be late and the server hang.
  With careful users as well, `UnsubscribedCorrect`: `CarefulInv` adds that the list holds
  nothing else, each subscription once, and that a call finds the list as it was when it was
  made, also if its sender was killed in between.
  With punctual pings as well (`Orderly`, the constants of run `pubsub_orderly`),
  `ListedCorrect` and `NobodyGivesUpCorrect`: `OrderlyInv` adds that the client
  list has every client once, that live clients and those with a call under way are in it and
  fresh, that whoever is about to be removed is silent and comes up once, and that no mutex was
  left locked. These depend on one another: a mutex stays free because nobody who
  leaves was removed before, nobody is removed too early because pings are answered, and
  they are answered because the mutexes are free. None is inductive alone.

Only model-checked: the liveness properties (`HandlersFinish`, `PostsPushedToAll`,
`VersionsConverge`, `DeadClientsRemoved`, `RunningPeersRegister`, `StoppedPeersForgotten`,
`DownloadsEnd`), as fairness is out of the prover's reach. Every invariant and action property of
a passing run is a theorem.

## 6. Not modelled, and the plan

Modelled: the article database, the three replication protocols, the group server with its
clients, the tracker with the broadcasters, and downloads. What could still be added:

1. READs with contents: the shared `articles` buffer of `protocol_sequential.c:16`, from which
   a response may mix two lists. `Sequential` has READs as messages only.
2. The record that the accept loop of project_2 shares with its threads (`server.c:105`): the
   models have the request that is lost, not the socket that two threads read; and the
   descriptors that the error paths of `net_SendRecv` leave open, which need many failures.
3. Restarts of peers during a download, and the folder that changes while a broadcast reads it
   (`broadcaster.c:82`).
4. Header splitting, the configuration file and message layouts: pure conversions without
   state, which unit tests reach well.

Left out for good: RPC stubs (generated), rendering and prompts, checksum arithmetic,
Makefiles and scripts. `PROJECT.json` has a line for each component.
