# Models of the code in jeffdonahoo.github.io

The repository is a web site for courses and books, with programs in between.
Two of them are modelled here:

- **FreeOxy**, a peer-to-peer web proxy
  (`src/classes/5321/projects/freeoxya/FreeOxySrc/src`, 24 Java files), the
  largest program with a protocol of its own: the neighbour list of a node,
  the routing of probes and responses, the way neighbour lists spread and
  survive, the starting and stopping of a node.
- **The scripts of the javadoc pages** (`src/classes/5304/rp/doc`): jQuery 3.4.1,
  jQuery UI and `search.js`. They are the largest implementation in the
  repository by lines, and their difficulty is of another kind: one thread,
  but user code that is called in the middle of everything and calls back.
  Modelled are callback lists, deferreds, the effects queue, events, requests,
  the ready event, and the search box with its autocomplete.

The other programs are in the inventory and the plan below. File names without
a path are in FreeOxy's `src` directory or in `src/classes/5304/rp/doc`.

## Inventory

### FreeOxy

A node is a proxy for browsers and a peer of other nodes. A browser connects
to its TCP port; a peer to its SSL port; nodes send each other UDP messages on
a third port. A node that can reach a web server serves the request itself. One
that cannot (a firewall) asks its neighbours with a PROBE, which they forward
until its TTL is spent; a node that reaches the server answers with a RSP that
goes back the way the probe came. The requester then connects over SSL to the
node that the RSP came from, and that node serves the request, perhaps by
connecting to the next.

| part | state | operations | what must hold |
|---|---|---|---|
| neighbour list (`MaintainNeighborList`) | map from address to satisfaction, threshold | `addNeighbor`, `inc`, `dec`, `getAddress`, `getOneNeighbor`, `checkAddress`, `toStream`, `addByHand` | no vote lost, removal only at the threshold, no local address, saves complete |
| UDP thread (`UDPServer`) | `m_pendingProbe`, `m_URLCache` (in `FreeOxy`) | `receivePacket` for PROBE, RSP, PING, PONG; `sendProbe`, called by other threads | every waiting browser has one pending entry; a response is relayed and cached so that the chain leads to the server |
| connection thread (`Connection`) | one request, one pipe | `dispatch`, `response` (called back by the UDP thread) | answered at most once; answered at all when a path exists |
| PingPong thread (`PingPong`) | none | a PING to a random neighbour, then the save of the list, then sleep | lists spread, the saved list is whole again and again |
| configuration (`FreeOxy.init`, `saveNeighbor`) | `FreeOxy.conf` | read at the start, truncated and rewritten | a restarted node has neighbours |
| life cycle (`FreeOxy.startThreads`, `stopThreads`, `FreeOxyUI`) | four threads, three sockets | Start, Stop, exit | no half-started node; Stop stops |
| requests and pipes (`Request`, `noKeepAlive`, `PipeLine`) | streams | copy bytes | not modelled, see below |

The parts share state in one process: connection threads and the UDP thread
write the neighbour list and the pending probes, the UDP thread calls a
connection back from inside the monitor of the pending probes, PingPong saves
the list that the others change. Between processes there are datagrams, which
may be lost, duplicated or reordered, and SSL connections, which may be
refused. Everything but `FreeOxy.conf` is lost when a node exits.

What is hard in it:

- `inc` and `dec` read a value and write it back; `toStream` iterates without
  the monitor while other threads enter and drop neighbours;
- a response may come twice, late, never, or after the connection it answers
  has been answered by another; the look-up of one response is many steps,
  with sends and an SSL connection in the middle, each of which may throw;
- probes go round in circles and back to their sender, bounded by the TTL only;
- nodes at random put their own names into responses they relay
  (`oracle()`), so that caches name nodes that only know another cache;
- `FreeOxy.conf` is truncated and then rewritten, and a node may exit between;
- sockets and threads that Start leaves behind when it fails half-way, and a UDP
  thread that blocks in `receive` and cannot be interrupted.

### The page scripts

JavaScript runs one thing at a time: an event of the browser, a timer, an answer
from a server or a script that was loaded. Within one of these, the library
calls user code (callbacks, handlers, listeners), which may call any function of
the library again, the one that is calling it included, or throw.

| part | state | operations | what must hold |
|---|---|---|---|
| callback lists (`jQuery.Callbacks`) | the closure's `list`, `queue`, `memory`, `firing`, `firingIndex`, `locked` | `add`, `remove`, `has`, `empty`, `disable`, `lock`, `fireWith` | a pass calls each of its callbacks once; late additions hear the value remembered; a locked list keeps its value |
| deferreds (`jQuery.Deferred`, `jQuery.when`) | state, three lists, `maxDepth`, the count of a master | `resolve`, `reject`, `notify`, `done`, `fail`, `progress`, `then`, `when` | a promise ends as the first word on it said; none is forgotten |
| effects (`jQuery.queue`, `Animation`, `jQuery.fx`) | a queue with hooks for each element, `jQuery.timers`, `inProgress`, the private data `fxshow` | `show`, `hide`, `toggle`, `delay`, `stop`, `finish`, `clearQueue`, `dequeue`; frames, timeouts | one animation of an element at a time, all of them end, elements end as asked |
| events (`jQuery.event`) | the private data of a node (handlers, `delegates`, what `leverageNative` keeps), `triggered` | `on`, `one`, `off`, `trigger`, `click`, `clone`, `append`, `remove`, `detach`; native clicks | a checkbox has changed before its handlers are told; one native click per event |
| requests (`jQuery.ajax`) | a jqXHR for each request, `jQuery.active`, JSONP names and their functions | `ajax`, `abort`; answers, timeouts | each told of one outcome, busy while requests are active, data of the type asked for and of the request's own script |
| ready event (`jQuery.ready`) | `readyWait`, `isReady` | `holdReady`, the document's events | functions start when the document is there and nobody holds them |
| search box (`search.js`, autocomplete and menu of `jquery-ui.js`) | value, watermark, search timer, `pending`, menu and its active item, index files loaded | keys, mouse, focus, blur, timers, answers, index files, selection | the menu shows what is to be found for the last term, stays closed when closed; a selection leads to what was shown |

The autocomplete asks its source, `doSearch` of `search.js`, which answers from the
index files that have come in so far and again with each that comes in later;
the files are loaded by script elements that `script.js` adds. `search.js` starts
by `$(function)`, that is by the `then` of a deferred that `jQuery.ready` resolves,
through a callback list.

What is hard in it:

- every loop over callbacks, handlers or timers runs code that changes what the
  loop walks over: `firingIndex`, the `index` that `stop` and `fx.tick` keep, the
  handler queue of an event;
- an exception leaves such a loop without its last lines;
- a timer that was set, a script that was asked for and an answer on its way
  cannot always be called back, and arrive after what they were for has ended
  (a delay after `stop(true)`, the script of an aborted JSONP request, the answer to an
  earlier search);
- `leverageNative` turns one `trigger` into a native click and a second, inner
  event, and is entered three times for it;
- the watermark is kept as the value of the box, beside a widget that compares
  values.

### The rest of the repository

Every part is a row of `components` in `PROJECT.json`. In short: the programs of
the books (`src/practical/JavaSockets*`, `src/practical/CSockets*`,
`src/PocketSocket`: echo servers and clients in every style, framers and
coders, a vote service, UDP retransmission, signals), the operating systems
examples (`src/classes/4337/code`: queues, locks, shared memory, turn taking),
small exercises of other courses, agents for the ns simulator (`src/tools/ns`),
programs that are wrong on purpose to show a debugger (`src/tools/gdb` and its
neighbours), and pages and papers.

## Modules

| module | models | extends or instantiates |
|---|---|---|
| `SatisfactionTable` | the neighbour table as a value: the methods of `MaintainNeighborList` as operators | |
| `NeighborList` | one node's table, the threads that use it, the save of `FreeOxy.conf` | `SatisfactionTable` |
| `ProxyService` | abstract: what is promised of a connection | |
| `ProbeRouting` | probes, responses, pending probes, caches and connections of all nodes, and the network | `SatisfactionTable`, `ProxyService` |
| `Gossip` | PING, PONG, lists and `FreeOxy.conf` of all nodes | |
| `Lifecycle` | Start and Stop of one node | |
| `CallbackLists` | a callback list as a value | |
| `Callbacks` | one list and the user code that calls it | `CallbackLists` |
| `Deferred` | deferreds, promises of `then` and `when`, timers | `CallbackLists` |
| `Effects` | queues, animations and the ticker | |
| `Events` | handlers, `dispatch`, `trigger`, `leverageNative`, clones and removal | |
| `Ajax` | requests with their transports | |
| `DocumentReady` | the ready event as a value | |
| `SearchResults` | the index files, ranking, headings and the page of an entry, as operators | |
| `SearchPage` | the page with its search box | `SearchResults`, `DocumentReady` |
| `MCNeighborList`, `MCProbeRouting`, `MCGossip`, `MCCallbacks`, `MCDeferred`, `MCEvents`, `MCAjax`, `MCSearchPage` | values of the constants for TLC | the module they instantiate |
| `ProbeRoutingProofs`, `CallbacksProofs`, `DeferredProofs`, `EffectsProofs`, `EventsProofs`, `AjaxProofs`, `SearchPageProofs` | theorems | the module they are about |
| `FreeOxyProofs` | theorems about the neighbour list, membership and the life cycle | `NeighborList`, `Gossip`, `Lifecycle` (names of the first carry `List` and of the last `Life` where they would meet those of `Gossip`) |

A definition called `...Late`, `...Bare` or the like with a comment that begins
"Variant:" is a plausible error in the definition after it. No module uses
them; each was put in the place of the right definition once to see that the
property it belongs to (`mutants` in `PROJECT.json`) then fails.

### NeighborList

A method of `MaintainNeighborList` that reads and then writes is two actions:
`DecRead` and `DecWrite`, `IncRead` and `IncWrite`, with `monitor` held in
between, because the methods are `synchronized`. What they compute are the
operators of `SatisfactionTable`. `checkAddress` and `addNeighbor` are two calls
in `receivePacket` and two actions here (`CheckHost`, `AddHost`). A probe loop is
`GetTargets` (one `getAddress`), then for each address a send and a `dec`; a
send that throws ends the loop (`SendFails`). The save is `SaveTruncate` (the file is
truncated), `SaveIterate`, `SaveWrite` per entry, and `SaveClose`, or `SaveAbort`
when the iterator finds the map changed; `SaveRaced` is the unsynchronized read
of the map's modification count, which need not see the change.

`getAddress` sorts with a comparator that compares an entry with itself
(`MaintainNeighborList.java:117-118`), so `GetAddress` returns any set of the
right size.

`votes` is a history variable: increments minus decrements since a neighbour
was last entered.

### ProbeRouting

A node stands for its IP address and port; a URL for the host name, which is
all the code looks at. `Reach[n][u]` is the outcome of `testURL` at `n`: the
server answers, the connection is refused, or an exception is thrown.

- A connection thread is `thread[c]`: `dispatch` (`ServeLocally`,
  `ServeFromCache`, `DispatchFails`, `NeedsProbe`), then `sendProbe`
  (`AddPending`, one `SendProbe` per neighbour, or `SendProbeFails`).
- The UDP thread handles a PROBE in one step (`AnswerLocally`,
  `AnswerFromCache`, `ProbeFails`, `ProbeExpires`, `ForwardProbe`): it takes no
  monitor that another thread's state depends on half-way. A RSP is many steps:
  `ReceiveResponse` (the vote and the look-up), then for each matching entry,
  oldest first, `CallBack` or `CallBackFails` for a browser's, `RelayResponse` or
  `RelayFails` and then `CacheProxy` for a neighbour's. Between `RelayResponse`
  and `CacheProxy` the datagrams are out and the cache is not written.
- The monitor of the Vector is held for the whole look-up: `AddPending` waits
  for it (`scan[n] = NoScan`).
- `CallBack` opens an SSL connection: it makes a new connection at the other
  node, which dispatches the same request. `route[c]` is what the pipe of `c`
  copies from: another connection or the web server.
- The Vector of pending probes is a set of entries numbered by insertion.
- `Lose`, `Duplicate` and `Crash` are the network and the exit of a process.

A probe's chain of connections is finite in the model because `Conn` is
finite, and `EventuallyRouted` holds of every connection in it, so the chain of
the browser's request ends at the web server.

### Gossip

A list is the set of its keys; values are in `NeighborList`, and `Forget` stands
for a probe that costs a neighbour its last point. PingPong draws the
neighbour to ping (`PickAddr`, `PickNobody`) and the host to name (`Ping`) in two
calls, with the list free to change in between; then it saves. `ReceivePing`
sends the PONG and then enters the host that the PING named. `Crash` may come
between `SaveOpen`, which truncates, and the last `SaveNext`.

### Lifecycle

`StartSucceeds`, `StartFails` and `Stop` are the menu's handlers with what
`startThreads` and `stopThreads` do. `held` are the sockets that a static field
refers to, `leaked` those bound by a Start that failed afterwards: nothing can
close them, only `Collect` (the garbage collector). A Start fails on a port that the node itself
or another process has (`taken`), or for the ciphers.

### Callbacks and Deferred

`fire()` is cut at every call it makes. `Start` and `Returned` lead to the next
callback, `Advance` is its two loops; between them the callback runs (`running`) and
may call any method. `Throw` leaves `firing` as it is. `memory` and `queue` hold values
of `Vals`; the context of a call is part of the value.

In `Deferred` the same operators serve the lists behind `done`, `fail` and
`progress`. What the deferred's own callbacks do, which are first in its lists (set the
state, disable the other list, lock the progress list), is done by `SettledLists` and
`Settle` as the list is fired; the callbacks of `when()` (`Update`, `RejectMaster`)
are entries of the lists like the user's.
`stack` holds what was entered and not left: a list that fires, a `process()`, a
foreign `then` method, a `when()` that is looking at its arguments. User code is in
control when the stack is empty or its top is a user callback. `Disregarded` is
the comparison of depths by which `then` keeps the first word said.

### Effects, Events, Ajax

Each has one variable for the page, `s`, a record, and a function of the library
that others call is an operator from `s` to `s`. What calls user code is a frame of
`s.stack`, taken a turn at a time (`TickTurn`, `DispatchTurn`, `Settle`, ...); a user
callback is a frame that ends by returning or by throwing, which
drops the stack down to what the browser catches. `calls` counts calls of user code
up to `MaxCalls`.

- `Effects` has one animated property with the values zero, full and anything
  between; time passes in frames. `TickTurn`, `TickBack` and `TickEnd` are the loop of
  `fx.tick`, `StopTurn` to `StopEnd` that of `stop`, `FinishTurn` that of `finish`.
  `Prefilter` is `defaultPrefilter` for show, hide and toggle with its private data.
  `ClearQueue` puts an empty queue for the old one, sentinel and all, and dequeues
  it; `DequeueCall` is a page's own `dequeue()`; `CallbackThrows` ends every loop
  that was entered. The histories (`leaked`, `hurried`, `derailed`, `miscut`, `rerun`) note
  what jQuery does not guard against.
- `Events` has one type, click. `Native...` is what the browser does: the
  checkbox changes before its handlers run and changes back if one prevents the
  default. `Leverage`, `InterruptedEnds` and `ReinvokedEnds` take
  the three entries of `leverageNative`'s controller; the second throws when an exception before
  it has left it no result to read (5467). An event made from a native one takes
  over whether its default was prevented (5525). `Append_`, `Clone` and `AppendToBoth` are `domManip` as far as
  handlers and parents go.
- `Ajax` follows one request through prefilters, `ajaxStart`, `beforeSend`, the
  installation of callbacks, `ajaxSend`, `send`, the answer, `done` with its
  callbacks and `ajaxStop`. Callbacks are installed in the order of the code, `complete` first
  (`InstallCallbacks`, `InstallOthers`), which shows for a request that has ended by then.
  `ByScript` requests cannot be called back: their script
  runs when it comes, whatever has become of the request.

### SearchPage

One record `w`; an event, a timer, an answer or an index file is one step, since
none of the handlers is interrupted. `kind` is the source of the autocomplete: the page's own
(`doSearch`), or for the widget's other code paths a URL or a function that answers
late. `boot` starts the page: the document, holds, `search.js` loaded, its first
function (the box), its second (the widget). A term is a member of a small set and
how it matches an entry is given (`Matches`); the ranking, the threshold, the cap, the
sorting, the headings and the selection are the code's.

## Runs

| run | question | bounds |
|---|---|---|
| `neighbor_list` | Are votes, removals and saves right under every interleaving of the UDP thread, two probing connections, the user and the saver? | two remote addresses and the local one; threshold 98, default 100, no increment above 101: four values, so that both ends and the reset are reached |
| `routing_crash` | Do pending entries and waiting connections match, does a named node serve, is `ProxyService` implemented, does the network fall silent, through losses, a duplicate, failing sends and connections, and an exit? | a line of three nodes of which the far end reaches the server, one request, TTL 1: the probe is relayed and bounces; the asking node has NoLocalSrv set |
| `routing_calm` | Is every request answered, and do caches lead to the server, stay acyclic and fixed while nodes put their own names into responses? | the same line; six connections, three more than one chain needs |
| `gossip_join` | Is a node that joins with neighbours in its own list ever named by another? | three nodes, one datagram in flight, losses, one exit with restart (the list that the exit truncates is how a node comes to name itself), one neighbour dropped, one entered by hand |
| `gossip_spread` | Does a list spread, and does `FreeOxy.conf` hold the whole list again and again? | three nodes, one of which lists the others; one exit of any of them, with restart |
| `lifecycle` | Is a node ever half up? | four uses of the menu, two datagrams; other processes may have any of the ports |
| `callbacks` | Does every callback get its value, once, whatever callbacks do to the list? | two callbacks, two values, six sets of options (those jQuery makes and one with each other flag), five calls |
| `deferred` | Do promises end, all of them and as the first word said? | two deferreds of the user, two made by `then` or `when`, five calls, a promise led on twice |
| `effects` | Do queues and timers survive what complete callbacks do? | two elements, so that one's `stop` meets the other's timer; two frames, delays, four calls |
| `events` | Are handlers told, after the change, once, and do the handler lists stay in order? | a document, an element, a checkbox and one to clone it into; a direct handler and a delegated one-time one; four calls |
| `ajax` | Is each request told of one outcome and counted out, and its data its own? | two requests of four sorts (JSONP by script and synchronous, any type with `beforeSend`, JSON without global events), six answers (one of them a 204 whose script calls back), four calls |
| `search_page` | Is what the menu shows current, ranked, closed when closed, and where does it lead? | two index files in which one term has more matches than there is room for; two searches, two holds, two results per category |

Each run's properties are in its `.cfg`. A hazard in `PROJECT.json` names the properties that
would catch it going wrong. Where the code does go wrong there is none: it has a
note with what happens, and the properties next to it hold but for that. What they
exclude is written as a premise, mostly a history variable (`miscut`, `hurried`, `leaked`,
`derailed`, `rerun`, `threw`, `rebound`, `keptBlur`), and told below.

`Conn` (connections ever accepted), `MaxNet`, `MaxDup`, `MaxCrash`, `MaxForget`, `MaxHand`,
`MaxQueue`, `MaxClick`, `MaxSat`, `MaxCalls`, `MaxDepth`, `MaxRequests`, `MaxSearches` and `MaxHolds` are
bounds of the models; the others are the programs' own constants. Two runs that have been
made smaller than the code allows are backed by proofs: `routing_*` have one
request on one line of nodes, and `PendingIffWaiting`, `NamedNodesCanServe`,
`ImplementsService` and `CacheWrittenOnce` are proved for any overlay, any number of
requests and duplicates, with a `testURL` that throws and NoLocalSrv anywhere, and
`CacheLeadsToServer` likewise as long as every node lives and no send fails. The
liveness properties rest on the run alone; one URL's probes and cache entries do not
touch another's. With `Conn` used up no more pipes open, and the safety properties
do not depend on their number. `MAX_FAN` is 7 in the code and in the runs: nodes
have at most two neighbours. In the page scripts the errors that were put in on
trial show within the bounds on calls.

Runs do not look for deadlock where the modelled system may come to rest: every
browser answered, every node exited, the menu used up, or the calls and searches that the
bounds allow all made. `neighbor_list` looks for it: its threads may always go on.

`NeighborList` starts with an empty table and an empty `FreeOxy.conf`, a first
start; `Gossip` starts with the lists read from the file. The page scripts start
when the page is loaded, `SearchPage` when it is being parsed.

Symmetry is used in `deferred` and `events`, which check invariants only, of deferreds
made by the user, of those in store and of the two checkboxes.

### Fairness

- `ProbeRouting`: the UDP thread and each connection thread run (weak fairness),
  and datagrams for a node that has exited disappear. Datagrams to live nodes
  arrive in the end because the UDP thread takes whichever it has. Nothing is
  assumed of browsers, exits, losses and duplicates. `routing_calm` has no
  losses, failures or exits: nothing in the code sends a probe twice.
- `Gossip`: the threads run, an exited node is started again, and a send does
  not fail for ever. `getOneNeighbor` draws at random at every call, so the one
  draw that the property is about is fair (`Draw`): if it is possible again and
  again, it comes. The thread's own fairness is strong, because the bound on
  datagrams in flight (`MaxNet`) stops it now and then, which nothing in the code
  does. Nothing is assumed of exits, losses or the user.
- `Callbacks`: a callback that was entered ends, by returning or by throwing.
- `Effects`: what was entered goes on, complete callbacks return, the browser
  gives the frames that were asked for, and timeouts fire. Nothing is assumed
  of user code outside callbacks.

## What the runs show

- The monitor of `MaintainNeighborList` is needed and enough: no vote is lost,
  although every change of a value is a read and a write.
- A save is complete unless the list changes under it. An exit in a save loses
  the list, and a node with an empty list pings nobody; it recovers only
  through a node that lists it.
- A browser's connection is called back once at most, for any duplicates and
  failures. Its entry leaves the pending probes only with the call back, so a
  later response finds it if an earlier one led to a refused connection.
- Caches lead to the web server although nodes lie about who reached it. The
  reason is the order: a node that knows a proxy accepts no more probes for the
  URL, so what it relays is older than what it claims. This needs both sends of
  a relayed response to succeed: a node that has sent its own name and then
  fails (`RelayFails`) has claimed what it does not know. With `Faulty` and
  `Oracle` both on, TLC finds two caches that name each other
  (`CacheLeadsToServer`), and a cached proxy replaced (`CacheWrittenOnce`).
- A node that joins is never heard of: neither PING nor PONG names its sender
  unless its list is empty.
- A callback list keeps its word to callbacks that add, remove, lock, disable and
  fire it in the middle of a firing. It does not to those that call `empty()`
  (`firingIndex` is left standing), and a callback that throws leaves `firing` set
  for ever: what is fired later waits for ever. `QueueDrains`, `MemoryReachesAll`
  and `ListenersAllCalled` say so.
- Promises have no flag "already called": the depths are enough, for thenables
  that call both functions, twice, later, or throw after a call.
- `fx.tick` looks whether the timer is still where it was. `stop` does not: it
  cuts out the timer at an index that its own callbacks may have shifted (`miscut`). The
  animation whose timer went never ends, its queue waits for ever, and `AnimationsEnd`
  and `ComesToRest` hold but for that. `stop` in the complete callback of the same animation starts
  two of the queue, and so does what is called while `finish` runs its jobs (`hurried`);
  `stop(true)` lets go of a delay whose timeout still dequeues (`leaked`). `clearQueue()` with an
  animation under way drops the sentinel with the queue, so that the next to be queued begins
  beside it, and so does a `dequeue()` then (`hurried`): a hide that ends first leaves a show to end on a hidden
  element, and a `stop` of the second a size that nobody restores. A complete callback that
  throws leaves its queue waiting behind the sentinel, and `fx.tick` without its last lines (`derailed`). Apart from
  these an element has one animation at a time. A timer that a tick passes over
  runs once more after its animation has ended, and so does one whose job `finish` has done in
  no time (`rerun`): both leave the element at a size that nobody restores.
- A click triggered on a checkbox is one native click, before its handlers,
  through nested triggers, `one()`, clones and removals; but a handler that
  throws inside it has handlers and default action run again (`ClicksOnce`).
- `one()` unbinds by what the event says, and an event says which node it was given to
  last. When it has been given to another meanwhile (triggered anew by a handler, or left
  standing by one that throws out of the native click), the handler stays bound (`Astray`).
- `jQuery.active` is right however requests end, unless a callback throws: then
  it stays up, and `ajaxStop` never comes again.
- A JSONP name is free as soon as its request is aborted. The script of that
  request, still on its way, calls the function of the next to take the name, and the data is
  taken for that request's own unless that request's function is gone or was called
  before; `JsonpOwnData` holds as long as every script calls back. A 204 or a 304 succeeds
  without data, also when its script has called back.
- The search box keeps its watermark out of searches, but for a blur that comes while the
  menu is pressed: the widget ignores it and the watermark does not (`keptBlur`).
- The page starts when the document is there and no hold is left, in any order.

### Disagreements with the texts of the repository

None of these has a run of its own: each follows from the models by reading one or
two actions, named here.

FreeOxy:

- `getAddress` is to get "the list of nodes with high satisfaction value"
  (`MaintainNeighborList.java:79`); its comparator reads the value of `o1` twice
  (`MaintainNeighborList.java:117-118`), so any neighbours may be left out (`GetAddress`).
- "Set NoLocalSrv to prevent this node from attempting to contact the www
  directly" (`FreeOxyUI.java:114`): `receivePacket` contacts it for every probe
  (`AnswerLocally`). When the node then gets the request, it does not: it probes
  again, and the request may go back to where it came from.
- "FreeOxy Node start successfully!" (`FreeOxyUI.java:75`) is also shown when
  `startThreads` has thrown (`StartFails`), and after a Stop it always throws, since
  nothing closes the UDP socket.
- A probe "makes satisfaction value dec" (`UDPServer.java:162`): the dec of a
  neighbour that another thread has dropped since `getAddress` enters it again
  at the default (`Dec` of an absent key).
- "when TTL=0, the server will forward every request to WWW server directly"
  (`readme.txt:13`): `dispatch` does not read the TTL (`NeedsProbe`).
- "FreeOxy takes a direct route from proxy node to your FreeOxy node"
  (`Why.html:53`): the call back connects to the neighbour that relayed the
  response (`CallBack`).
- `freeoxy.doc` has a node register by naming itself in a PING, a PONG name a
  third node, and duplicate requests dropped: `PingPong.java:22`,
  `UDPServer.java:92` and `UDPServer.java:159` do none of these (`Ping`,
  `ReceivePing`, `ForwardProbe`).
- `PROBE_Q_LEN` is used nowhere: entries whose response never comes stay.
- After "FreeOxy Node stopped." (`FreeOxyUI.java:99`) one more datagram is
  handled (`HandleDatagram`), and more when handlers throw (`HandlerThrows`).

The page scripts:

- "ensuring that state changes have already occurred before other listeners are
  invoked" (`jquery-3.4.1.js:5415-5418`): once `off` has removed all handlers of a
  checkbox, its private data still says that the controller is there, a later
  `trigger` does not add it, and the handlers of ancestors run before the box has
  changed. `HandlersSeeTheChange` is the claim, `ClaimedSeeTheChange` what holds.
- A request aborted in `ajaxStart` still installs its callbacks, which are
  called at once, `complete` before `error` (`InstallCallbacks`), and a `complete` that throws keeps
  `error` from being told. `ToldOnce` counts and says nothing of the order.
- "Add a progress sentinel to prevent the fx queue from being automatically dequeued"
  (`jquery-3.4.1.js:4392-4393`): `clearQueue()` with an animation under way takes it away, and the next
  animation to be queued is dequeued at once, beside the first (`ClearQueue`).
- The script in a 404 answer to a request for a script is evaluated: "Convert no
  matter what" (`jquery-3.4.1.js:9482`).
- `pending` of the autocomplete counts answers. `doSearch` answers a request again with
  every index file and one for blanks never, so on the page the count goes
  below zero or stays up, and the class that shows a request on its way is wrong.
- The cap on results takes the first matches of an index file that are good
  enough, not the best ranked (`GoodEnough`): `MenuIsRanked` says no more.
- A click in the menu selects the active item, which a key or an index file may
  have changed since the mouse came over the one clicked (`ClickItem`).
- Selecting "No results found" empties the box.
- A type selected before the index of the packages is there loses the module in
  front of its page (`URLPrefix`): `GoesWhereShown` says when.
- Text typed between the two functions that `search.js` gives to `$()` is not
  searched before the next key.

## What is proved

For all values of the constants that satisfy the named assumptions of the
modules: all overlays, all numbers of nodes, URLs, connections and threads,
any TTL and any bounds.

`FreeOxyProofs`: of `NeighborList`, the invariant is `ListTypeOK`, `TableOK`, `NoLostVote` and
`LockInv`, which says that a thread inside `inc` or `dec` is the one that holds
the monitor, and that what it has read is still the value in the table.
Without `LockInv`, `NoLostVote` is not inductive: the write uses the value read
a step before. `DropsOnlyAtThreshold` follows from the same invariant,
`SaveIsComplete` from an invariant of the save alone.
Of `Gossip`, `NamesAreIntroduced` is inductive with `TypeOK`. Of
`Lifecycle`, `NeverHalfUp` is inductive with its types (`LifeTypeOK`): a Start that fails
starts nothing, and a Start after a Stop fails before it starts anything.
`LateDatagrams` is that after Stop one datagram more is handled to its end at most: its invariant
(`UdpInv`) says that the UDP socket, once held, is never let go of, so that no Start gets
as far as running the thread again.

`ProbeRoutingProofs`: `PendingIffWaiting` relates entries to connections, and is
inductive together with `HomeInv` (an accepted connection has a home and a
request, and no route before its dispatch or its call back), `EntryInv` (entries are numbered below the next number, have either a
source or a connection, and numbers do not repeat) and `ScanInv` (a look-up
under way is about entries that are still pending, and stands between sending
and caching only at a neighbour's). With `Crash`, the entries
and the connections of a node go together.

From that invariant, every step of `ProbeRouting` is a step
of `ProxyService` or leaves its variables unchanged (`Refinement`).
`NamedServe`: responses and cache entries name nodes that can serve; it assumes
that sends do not fail or that no node names itself, and a cache entry or a
datagram that is already out keeps its truth because caches are never emptied
but by an exit. `CachedForGood` assumes that sends do not fail; it needs that
a node with a cache entry for a URL has no pending probe of a neighbour for it
but those its current look-up is about to settle (`OnceInv`).
`CachesLeadOn`: while no node has exited and no send fails, every cache entry leads to a
node that serves the page itself. The order of events need not be recorded: a set of
nodes closed under the cache entries in it, with none that can serve, has none that
anybody names (a node named in a response, a probe or a cache can serve, or has an
entry and so leads on itself), and only `RelayResponse` adds an entry, at a node that
had none.

`CallbacksProofs`: `LockedListKeepsValue` and `OnceListOneValue`, for any callbacks, values, options and
number of calls. The invariant is that a list that does not fire, and a
list that is locked, have nothing in the queue (`NothingWaits`); the operators are
taken one by one to keep it (`AdvanceLemma` to `ReturnedKeeps`). For `once` it is
strengthened by `OneValue`: nothing was called before the list was locked.
`PassesCallEach` and `MemoryIsHeard` are about the passes of a list: who is called in one
and with what. The invariant (`PassInv`) relates the calls of the pass under way, the list
and the index at which it stands, and what `add` and `remove` inside it do to the three.
What the recursive functions of `CallbackLists` do to a sequence is proved from the
least element of a set of numbers that fail, not by an induction theorem.

`DeferredProofs`: `FirstWordHolds` (a promise that was resolved or rejected by somebody ends
as that says, `EndsAsFirstSaid`), `NothingIsLost` (`NoPromiseForgotten`), `ListenersHeard`
(`ListenersAllCalled`), `MastersCount` (the master of a `when` ends as its subordinates do,
`MasterCountsAll`) and `SettledOnce` (a settled deferred keeps its state and its value,
`SettledForGood`, which no run checks), for any deferreds, callbacks, handlers, thenables
and number of calls. The code has no variable that says a deferred was
settled or spoken for; it shows in the lists, in `maxDepth` and in who still holds the
functions. The invariant has four parts. `ListsInv`: both lists of a settled deferred are locked,
the one that was fired by `once` and the other by its `disable()`, and a list made with
`once` fires only when locked, so that `fireWith` on an unlocked list starts it at
once and never queues. `StackInv`: what stands on the stack of calls, and that a frame that fires
a list is the only one that does. `PromInv`: a promise of `then` that is
pending has something to come at its present depth (the deferred it waits for is pending, or a timer, a
handler or a thenable that has its functions will bring the word), what comes at an older depth is
ignored, and once settled it says what it was bound to. Most actions
are calm: they leave the promises alone and only move lists on, and one lemma does for
all of them. `MastersInv`: the number `remaining` of a master is that of the subordinates that
still hold it (`Held`): the ones that are not resolved, that `when` has yet to come to, or whose
list has the callback that counts them still before it. That callback is in a list once, and
the list reaches it once although other callbacks add to the list, settle others and enter
it again; the index of the list and what runs on the stack together say whether it is due (`Due`).
After an exception a list may stand still with the callback in it: then no more than
`remaining` still hold the master, which is why it is never resolved too early, and may never be
resolved at all. The proof takes from the code that no user can add these callbacks (`OwnCallbacks`: `updateFunc`
makes the one anew, and the other, `master.reject`, is not in the `promise()` that `when` returns),
and from the model that the deferreds are finite in number (`DeferredAssumption`), as the
arguments of a call are.

`EffectsProofs`: `AlwaysOneAtATime` (`OneAtATime`), `AlwaysComesToRest` (`ComesToRest`, and with
it `TypeOK`) and `AlwaysEndsAsAsked` (`EndsAsAsked`), for any elements, kinds of animation,
durations and number of calls, from one invariant (`PageInvariant`). Nothing in the code says that an element
has one animation under way. Between calls the sentinel at the head of its queue says so; inside
`stop`, `finish` and the complete callbacks the sentinel may be gone, and only what stands on
the stack of calls tells who is about to dequeue. So the invariant has three parts. `DataInv`:
animations, timers, queues and styles; a pending animation is in the list of timers once, and what a show or
hide has noted fits the size it left. `StackInv`: each loop and callback that has been entered, how far it has
come in the timers, and what it may still take for granted. `Waits`: for an element with an
animation under way there is a sentinel or a frame that waits for it, and a queue that is not empty is
followed by something that will dequeue it (an animation, a delay or a frame). What jQuery does not
guard against breaks some of this for good, and the model keeps a history of it:
`leaked` (a delay stopped with its timeout set), `hurried` (a dequeue out of turn, or a queue cleared
or dequeued by the page with an animation under way), `miscut`
(a loop that came back to another timer than it left), `derailed` (that, or a complete callback that
threw) and `rerun` (the tween of an animation that had ended). They are premises of the properties, part by part, and no more of
them than each needs: that queues are empty at rest asks only that no loop was derailed, and
holds through every `clearQueue()` and `dequeue()`.
The proof cuts each step into the few moves it is made of (a frame pushed, popped or
swapped, an animation ended, a tween run, a timer cut out, a queue changed, an animation begun), with
a lemma for each that it keeps the invariant. In looking for the invariant, runs with other bounds than those of
`Effects.cfg` were needed: a `finish` inside the `finish` of the same element and some of the
loops that go astray take five calls, and a job of no duration, whose tween `finish` runs again, takes
a duration of 0. The run has four calls and durations of 2; the theorems have no such bounds.

`EventsProofs`: `ListensAsBoundHolds` (`ListensAsBound`), `OneIsUnboundHolds`
(`OneIsUnbound`) and `EventsTyped` (`TypeOK`), for any document, boxes, handlers and number
of calls, from one invariant (`Fine`). Handlers run inside dispatches, which run inside triggers and
native clicks, and may bind, unbind, clone, remove, trigger, click and throw at any
depth; so the invariant is about the page and the stack of calls together. `ListsInv`:
the handlers with a selector are as many as the count says and in front, the controller
that `leverageNative` binds comes directly behind them on a box and nowhere else, and a node listens as long
as its list is not empty. `Numbered`: each event is owned by one frame and is younger than the
events of the frames below, so that dropping the last event is what a frame that ends
has to do, and an exception that cuts the stack at a native click cuts the events
where that click began. `Clicking`: `inClick` is the set of the click methods on the stack, each there
once. `Follows` and `Wired`: a controller is interrupted by the click
method of its own node only, and arguments kept in a node's data, which a later call
of the controller takes for its own, belong to a call that is under way. `LetGo`: the
function of `one()` that runs is in no list and in no queue of handlers made since. It is
here that `OneIsUnbound` was found to be false as it once stood: the wrapper of `one()`
calls `off(event)`, which looks at `event.delegateTarget`, and a handler that passes its
event to `trigger` on another node has changed that before the wrapper of a later
handler runs. `Astray` says when, and is a premise of the property by way of the
history `rebound`. The lists left by `off()` and made by a clone are recursive
functions in the model; what they hold is proved of the first k handlers, by the
least k that fails.

`AjaxProofs`: `AlwaysToldOnce` (`ToldOnce`: one outcome and one completion are told, in whatever order) and `AlwaysBusyWhileActive` (`BusyWhileActive`, and
with it `TypeOK`), for any options and answers, and any number of requests and calls, from one invariant
(`RequestsInvariant`). A request's flags say little of how far it has come: between
`beforeSend` and the transport, or between `success` and `complete`, user code runs that may abort
the request, begin others or throw, and only the frames of `ajax()` and `done()` on the
stack know what is still to be done. The invariant says what a request must look like under each of
its frames (`Fits`), that it has one frame of a kind at most, that `done()` settles only
on top of the stack, and that a `beforeSend` lies on the `ajax()` that waits for its word
(`StackInv`); what each request has been told and whether its timer or its transport can still answer
(`ReqInv`); that a request which is over and has not been told all has a `done()` that will tell it
(`HeardInv`), that one not yet sent has an `ajax()` that will send it (`Begun`), and that
`jQuery.active` counts those on their way, with the frames that have yet to count one out (`CountInv`).
A callback that throws takes the frames down to the last event with it; the last three hold only until then,
and what a request has been told at most holds after it too.
The operators are shown one by one to keep the parts, in two classes that spare most of the
work: those that leave the stack and what the parts read alone (`Quietly`: conversions, the names
and scripts of JSONP) and those that only let go of timers and listeners (`Calmly`); then each action.

`AlwaysJsonpOwnData` and `AlwaysTypeAsAsked` (`JsonpOwnData`, `TypeAsAsked`) rest on that invariant and a
second one (`NamesAndDataInvariant`). A name is held by the request that installed it until `done()` settles it, so
the invariant follows who holds one (`Lives`) with the frames of `done()`: each name made up is on
the list of free ones, once, and its `window` property calls nobody, or is held by one request, whose
function it calls (`NamesOK`); and what has been noted of a request's type and data so far is of the sort it asked for
and its own (`Known`). Most operators leave what these read alone (`Moves`); the
others, `Install`, `CleanUp`, `RunScript` and `Done`, have lemmas of their own. What data
comes out of `done()` depends on the types a response is converted through. `Chains` is a recursive function over the
types asked for, which are two at most, so it is unfolded for each sort of request (`JsonpChain`,
`PlainChain`, `AutoChain`) and no induction is needed. The assumption on answers is
that a body is text or binary, which is all that the transport hands over
(`jquery-3.4.1.js:9794-9795`). In proving it `JsonpOwnData` turned out to be false as
it stood: it said that a JSONP request succeeds with its own data, but a 204 or a 304
succeeds with none, and a script that came with it runs nonetheless; the run had no such answer. The
property now says so, and the run has one.

`SearchPageProofs`: `PageStarts`, `MenuKeepsUp`, `DismissedStaysSo` and `WatermarkUnsearched`
(`StartsWhenReady`, `MenuIsCurrent`, `StaysDismissed`, `WatermarkNotSearched`), for any index
files, terms and numbers of searches and holds. The operators take a page to
a page, so the invariant is a predicate of a page (`PageOK`), kept by each operator and true between
any two events (`Always`). What is shown was found for the term
searched last, and what would show anything else is stopped: `cancelSearch` when the menu was
closed, the request index when another search came after, `updateSearchResults` when an
index file comes in. A handler sets these one after the other, so there is a weaker
predicate (`Basic`) for the moments between. Of the
ready event it counts the holds: `readyWait` is theirs and the document's.

The theorems named `TableTyping` and the like prove `TypeOK` for the four FreeOxy models,
and `SatisfactionRange` that no table names the local host or holds a value below the threshold; no run repeats them. In
the page scripts `TypeOK` is a part of one invariant of each run, and for the callback lists, the
effects queue, events, requests and the search page proved with it.

Only model-checked: the liveness properties (`FallsSilent`, `EventuallyRouted`,
`ListsSpread`, `SavedAgain`, `QueueDrains`, `AnimationsEnd`), which rest on fairness;
`MenuIsRanked`, whose sort is
a choice among permutations and whose lists are made by `SelectSeq`, which takes an operator that the
provers cannot put in; `GoesWhereShown`, which rests on the same;
and two invariants of events (`ClaimedSeeTheChange`, `ClicksOnce`), which relate the flags of one
event to what several frames have yet to do with it and need an invariant beyond `Fine`.

## Not modelled

- The bytes of a request and of a response: `noKeepAlive` drops a header's word
  and not, as its comment says, the rest of its line, and the request is read
  up to an empty line. `PipeLine` copies until either side closes.
- What a peer does that accepts a connection and then says nothing: the call
  back would hold the UDP thread for as long.
- The menu's switching of NoLocalSrv while requests run: `ProxyAll` is constant.
- Port numbers and addresses as text, log output and dialogs.
- Time: the timestamp of a cache entry is written and never read.
- How long a response takes. No timeout is in FreeOxy's code.
- In `Gossip`, a PONG that cannot be sent (`UDPServer.java:100` throws) and so keeps the node from
  entering the host it was told of: the lists stand as if the PING had been lost, which the model has.
- Of jQuery: selectors (Sizzle), attributes, styles, dimensions and traversal,
  which keep no state between calls; `promise()` of a set of elements (4456-4483), queues
  of other types than fx, and functions or arrays that a page queues itself; `pipe`, the progress handlers of `then`, `when`
  of one argument; easings and what a tween computes; events other than click,
  the copying of native event properties; header getters, `statusCode` maps, `dataFilter`,
  `param` and `load`.
- Of jQuery UI: options and inheritance of the widget factory, positioning and
  layout, submenus, `destroy`.
- Of the pages: the tabs of `script.js`, frames (`top !== window`), the regular
  expressions by which a term matches an entry (`Matches` gives the outcome), and the index files, which are data;
  the `u` of a package or a type, a page in place of the prefix (`search.js:342-343`, `348-349`), which in the
  repository's index files only "All Packages" and "All Classes" have, and the anchor of a member within its page.

## Plan

Done in this order: `SatisfactionTable` and `NeighborList`; `ProxyService` and
`ProbeRouting`; `Gossip`; `Lifecycle`; their theorems; `CallbackLists`, `Callbacks` and
`Deferred`; `Effects`; `Events`; `Ajax`; `SearchResults`, `DocumentReady` and `SearchPage`.

Next, by the weight of what can go wrong:

1. The theorems about events that are left: `ClicksOnce` and `ClaimedSeeTheChange`.
2. FreeOxy's request reader and pipes, as a module beside `ProbeRouting`
   (the header filter against what its comment says).
3. `JavaSockets3`: the selector echo server, the servers with a thread per client, a pool and an
   executor; the UDP client with timeout and retransmission; the Compress client, whose two
   streams deadlock when both buffers are full.
4. `CSockets2`: forking servers and the reaping of children, the select loop,
   the SIGIO server, the client with an alarm.
5. `4337`: the shared queues with their conditions, `TakeTurns`, file locks.

Of these worth proving: that the selector server echoes a prefix of what it got
with bounded buffers, that the UDP client accepts only an answer to its own
request, and mutual exclusion and FIFO order of the queues as refinements of an
abstract channel.
