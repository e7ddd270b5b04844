# boost_web: specifications, model checking and proofs

boost_web is a C++ library over boost.asio and boost.beast. One port of a
*service node* serves http, https, ws and wss, and a manager can also create ws
and wss clients. A program derives from `WebServiceBase` and answers callbacks.
This directory holds TLA+ specifications of the library, the TLC runs that check
them, and TLAPS proofs about them. `PROJECT.json` maps every definition to the
lines it translates.

## Inventory

| Part | State it keeps | Operations and handlers | Talks to |
|---|---|---|---|
| Websocket session (`inc/websocket_session_base.hpp`, plain and ssl) | receive and send queue, two atomic counters, `m_has_close`, the beast stream | `run`, `accept`, `recv`, `send`, `eof`; `on_accept`, `on_recv`, `on_send`, `on_close`, `on_post`; for the service: `send_buffer_fill`, `recv_buffer_*`, the sizes, `close` | service (callbacks), stream (async operations), any thread (fill, sizes) |
| Http session (`inc/http_session_base.hpp`, plain and ssl) | response queue with a limit of 8, parser, stream | `run`, `recv`, `send`, `eof`; `on_recv`, `on_send`, `on_handshake`, `on_shutdown` | request handling, stream, websocket session (upgrade) |
| Request handling (`inc/http_utility.h`, `src/http_utility.cpp`) | none; mime table | `handle_request`, `path_catenate`, `get_mime_type` | service, file system |
| Message wrappers (`inc/http_message.hpp`, ...) | reference to a beast message | accessors | service |
| Detection (`src/detect_session.cpp`) | stream, buffer, mask of protocols | `run`, `on_run`, `on_detect` | http sessions |
| Listener (`src/listener.cpp`) | acceptor, `m_good` | constructor, `run`, `accept`, `on_accept` | detection |
| Connectors (`src/websocket_connector_*.cpp`) | resolver, stream, identity | `run`, `on_resolve`, `on_connect`, `on_ssl_handshake`, `on_handshake`, `error` | service, websocket session |
| Manager (`src/web_manager.cpp`, `src/web_manager_impl.cpp`) | io_context, signal set, work guard, threads, ports | `init`, `exit`, `get_ports`, `create_ws_client`, `create_wss_client` | listeners, connectors |
| Test service (`test/test_service.cpp`) | limit and type of its messages; for each connection a count in its user data | `on_connect`, `on_accept`, `on_recv`, `on_send`; `insert_connection`, `send_message`, `recv_message`, `check_message` | websocket sessions of both ends |
| Echo service (`echo/echo_service.cpp`) | its greeting | `on_accept`, `on_recv`, `on_send`; `send_message`, `recv_message` | websocket session |
| Address, build files and pages | - | - | - |

How they interact: the manager makes listeners; a listener makes a detection for
each socket; that makes an http or https session; an upgrade request moves the
stream to a websocket session. A connector makes a websocket session from its
finished handshake. Every object lives as long as a handler of one of its
operations (each handler holds a shared pointer), so "who still has an operation
outstanding" decides whether a callback ever comes.

What is hard here:

- a handler runs on the strand of its stream, but the operation it belongs to
  ended earlier: other handlers run in between, with the old state;
- two handlers start the same kind of operation (`on_post` and `on_send` write,
  `on_recv` and `on_send` read), each under a condition on a queue;
- one failure ends several operations, and each handler reports it;
- a service may give the connection up in any callback;
- queues at their limit, and buffers owned by a queue while the stream uses them;
- peers that pipeline, close and upgrade early;
- two ends that each keep a count of what both sent, and only agree if nothing
  between them is lost, doubled or overtaken;
- the manager that stops while sessions are alive.

What makes each part correct: an answer is for the file or the service the
target names and for no other, framed and kept open as its request says. A websocket session delivers both ways in order,
each message once with its type; starts one operation of a kind at a time; loses
no wakeup; closes exactly once. An http session answers in order, stops reading
at the limit and resumes, releases the stream at rest. A connector reports each
client once. A listener goes on accepting. The manager reports and releases what
it created. The two programs of the repository rely on all of it: the ping-pong
of the test program never fails an assert and ends, the echo service answers each
message, in order. `PROJECT.json` lists the hazards, each at its line with the
properties that cover it, or the reason why none does yet.

## Modules

| Module | What it is |
|---|---|
| `Connection` | abstract: what `WebsocketConnectionBase` and the callbacks of `boost_web.h` promise a service |
| `WebsocketSession` | one websocket session, both roles, plain or ssl; implements `Connection` |
| `MCWebsocketSession` | its instances for TLC |
| `WebsocketSessionProofs` | theorems about it |
| `Pair` | the two ends of one connection: a `WebsocketSession` each, joined by a link |
| `Exchange` | the test service and the echo service on a `Pair` |
| `ExchangeProofs` | theorems about it: types, asserts, order |
| `ExchangeEndProofs` | theorems about it: how a conversation ends |
| `Pipeline` | abstract: what an http connection promises the service and the peer |
| `HttpSession` | one http or https session; implements `Pipeline` |
| `HttpSessionProofs` | theorems about it |
| `PipelineProofs` | the refinement of `Pipeline` |
| `RequestHandler` | one call of `handle_request`, for every request |
| `RequestHandlerProofs` | theorems about it |
| `Acceptor` | the way of connections through one service node: listener, detection, the gates of the sessions |
| `AcceptorProofs` | theorems about it |
| `Clients` | abstract: what `boost_web.h` promises about the clients a program creates |
| `WebManager` | the manager: `init`, `exit`, signal, threads, connectors; implements `Clients` |
| `WebManagerProofs` | theorems about it |

### WebsocketSession

*State.* `m_recv_queue`, `m_send_queue`, the two counters (modulo `SizeMod`, as
`std::size_t` wraps) and `m_has_close` are the members of the class. `posts` are
the nodes that `send_buffer_fill` handed to `boost::asio::post` and that
`on_post` has not taken. `rd`, `wr`, `cl` are the one async read, write and close
the session may have: `idle`, `busy`, or ended with a result whose handler has
not run. `ws_text` is the `text()` option of the stream. The rest is history.

*Steps.* Each handler is one action with the callback inside it, since handlers
of a stream run on its strand (`make_strand` in the listener and the connectors).
The end of an operation is a separate step of the stream. What a service decides
is an input: how many received frames it drops, and its answer - return true,
return false, call `close()` and return true, or both. A fill made inside a
callback is the same as a fill just before the handler, because the node is only
posted. A fill by another thread is `Fill`. Posts keep a FIFO of their own, which
is the order asio gives work posted to one strand.

*Inputs.* `DropByHasData` tells two kinds of service apart: one that, in
`on_send`, drops what `recv_queue_size()` counts, and one that drops while
`recv_buffer_has_data()`. In `on_recv` both drop the same frames. `CloseOnce`
says that the service asks for the close at most once; a second `async_close`
while one is outstanding is not allowed by beast.

*Left out.* The branch of `on_send` for a partial write
(`websocket_session_base.hpp:394`) is never taken: `async_write` ends with the
whole message or an error. `set_user_data` stores a
word, which `Exchange` uses. `close()` off the
strand is a data race on the stream from its first step. After a buffer in use
was destroyed nothing is said.

### Pair and Exchange

*State.* Every variable of `WebsocketSession` twice, `c_` for the session a
connector made and `s_` for the one an upgrade made, and the `link`. Of the test
service the two parameters its messages depend on, `m_text` and
`m_max_message_count`, and `m_send_finish_count` by side; `count` is the user
data of the two connections. `asserted` is history.

*Steps.* A step of `Pair` is a step of one session under a condition on the
other: a read ends with the next message the peer has on its wire, or with the
peer's close behind the last of them; a close ends when the other end is dead; any
operation may fail once the link is broken, and one left over on a dead stream
fails. `Exchange` replaces the inputs of the callbacks by what the two services
do. A callback that reads the front of its queue, drops it and fills the next message
does so in one handler; what it fills depends on what it read, so that the model
makes the fill (`ClientFills`, `ServerFills`) the step after the handler's, and the
strand runs no other handler in between (`ClientStrand`, `ServerStrand`). Other
steps do come in between, as they do in the code: the stream, the other end,
another thread of the echo client.

*Inputs.* `program` chooses the services. The ping-pong has the same limit and
type at both ends, since `test/main.cpp` starts both with the same. With the limit
0 a test service sends nothing and asserts that nothing comes. The client of the
echo service is any program that takes each message it gets: it sends whatever
it likes from any thread, when it likes, and gives the connection up when it likes.
`EchoService` is a server only.

*Data.* A message of the ping-pong is as long as the number of copies of
`msg_blk` in it, which is also what the code checks of it, by its length and then
block by block.

*Left out.* The counters of connections, which are printed; what `init` and `exit`
of the services ask of the manager, which is `WebManager`'s.

### HttpSession

*State.* `m_response_queue` holds the number of the request and whether the
response keeps the connection (`handle_request` copies that from the request).
`stage` follows the session from `run()` through the ssl handshake to the release
of the stream; `ssl` says which derived class it is and `m_protocol` is the mask
of the service node reduced to what this class serves. `rd` and `wr` are the read
and the write, `sd` the number of shutdowns outstanding, `tcp` and `shut` the
stream. `handled`, `wire`, `stopped` and `misuse` are history.

*Steps.* One action per branch of `on_recv` and `on_send`, in the order of the
code: the size of the queue is compared before the pop in `on_send` and after the
push in `on_recv`. `misuse` collects operations the stream was given and could
not take. `Hasty` says what the peer does without waiting for its answers.
`on_error` reports are output only and left out.

A write that starts after the sending side was shut down is `late`: it can only
fail. A write that was under way may still end well. A write counts as on the
wire when the composed operation ends; that a peer may see the last byte a moment
earlier is not modelled.

### Pipeline

The promise without its mechanism: how far the connection is, which requests
were handled, which were answered, and whether this side still sends. At most
`queue_limit` requests wait; they are answered in order, each once, whether or
not more are read; the answer that closes is the last; after the side was shut
down at most the answer under way gets through (`Answer`) or is lost (`Lose`);
the upgrade comes when every request has its answer, and nothing after it.

In the refinement `PublicStage` and `Sending` replace `stage` and `sending`;
`handled` and `wire` keep their names. A session is `reading` until `on_recv`
gives up, so the moments when it waits for room in the queue are reading too. It
sends (`open`) until the side is shut down; then it is at its `last` answer if a
write was under way, and `over` otherwise. The response queue, the operations,
the shutdowns and the wakeups disappear: a step that only moves them is a
stutter. That requests are answered in order (`AnswersInOrder`) follows, since
`Answer` is the only step that adds to `wire`.

### RequestHandler

*State.* The request, how far the call is (`stage`), the path that was opened and
what the file system said (`found`), the response, and the history of callbacks.
Nothing is kept between two calls, so that one call for every request is all
there is, and two sessions that call it at once share nothing but the mime table,
which is constant.

*Steps.* One per end of the function: a refused target, a file that is missing,
cannot be opened, is sent, or is not to be sent by such a method, a method no
service is asked about, and the service. `target_is_path` is a step of its own.
What a service may do to its response is an input: version, status, size of the
body. A directory opens as a file of some size; that reading it fails afterwards is
a failing write of `HttpSession`.

*Data.* A target is a sequence of the characters the code looks at and of runs
of letters. Pages and bodies are sizes. The mime table has the entries for `.`,
`.js` and `.html`, one for each way of looking up: a suffix that is only a dot, one
whose case differs, one that the code appended itself. The reference is a path as
a walk, on a system with either separator: a component is found by where it starts
(`Starts`, `ComponentIs`); those that leave a directory are `Parents`, those that
enter one `Names`; and a path stays below its root if, up to each component, it
has entered at least as many directories as it has left (`StaysBelow`).

*What beast does* is stated in `KeepAlive`, `Saying`, `Created`,
`PreparePayload`: what a Connection field means depends on the version, a
response is made for version 11, and a body under a status that has none is an
exception (`threw`).

### Connection

Two reliable ordered streams of typed messages. The connection is shown or
refused; `send_buffer_fill` may be called from then on, even after `on_close`, by
whoever still holds it; what has arrived may be taken after `on_close`; but from
`on_close` on nothing moves on the wire. The refinement maps the stages of the
session with its calls of `on_close` to the stage of the connection; the queues,
counters, posts and operations disappear.

### Acceptor

*State.* What the program asked of the node (`protocol`, `certificate`) and what
`init` made of it (`m_protocol`); the acceptor with the connections the system
holds for it (`backlog`) and the result of an accept; for each connection where
it is, the kind of its session, its one operation and whether its stream has a
deadline. Peers speak ssl or not and may reset at any moment. `served` is the
history of protocols in which the service was called.

*Steps.* `on_accept`, `on_run`, the branches of `on_detect`, `on_handshake`, the
two kinds of request of `on_recv`, `on_accept` of the websocket session that an
upgrade makes. The constructor and `run()` of the listener
are the initial states, since `init` calls both before any thread runs.
`DetectSession::run()` dispatches to another strand, so that steps of the peer and
of other connections come in between. How responses are queued is left to
`HttpSession`: here a session reads one request after the other.

*Resets.* A reset does not take back what the peer sent before it. A connection
that was reset while it waited in `backlog` is still accepted; the socket has no
peer address by then, `remote_endpoint` fails and its error is ignored; the bytes
that had arrived are read, so that the detection and reads of requests succeed.
What has to write to the peer fails: the ssl handshake and the answer to an
upgrade. (That one of them ended well before the reset and its handler runs after
it is possible.) So the service does handle requests of a connection whose
addresses are those of an empty endpoint, and `Addressed` says that this is the
only case: the peer reset the connection and all that is served of it is plain
http. https, ws and wss need an answer of the peer after the accept, hence were not
reset when the addresses were read. `served` has the calls of the request
handler and of `on_accept`; `on_error` of a websocket session whose answer could
not be written is called with the connection too, and there the addresses may be
missing.

### WebManager and Clients

*State.* The members of the manager: whether there is an impl, the work guard,
the ports, the threads with what each runs; `stopped` is the state of the
io_context. Each client has a stage and one operation, the signal handler has its
wait. `report` is what the service was told of a client last.

*Steps.* `init` with all its ends (a bad certificate, no protocol left, a port
that cannot be listened on, an address that does not parse and throws) is one
action, since no thread runs before it is over; `AnyNode` and `EachNode` are its
two loops. A thrown `init` leaves a manager with listeners and no threads.
While there is a manager `init` answers false and changes nothing, so that call is
not a step: after a thrown `init` every later one is refused until `exit`. No
document rules this out and no property does. An `init` that answers false deletes
its manager, and with it the listeners that already ran.
`exit` is two: it stops the context, and when all threads returned it destroys
what is left. In between threads finish the handler they run. A thread takes a
ready handler (`Take`) and runs it (a handler's action); what it waits for ended
before (`Ends`). The four stages of the two connectors are the actions of a
client; plain clients skip the ssl handshake. A callback for a failed or closed
client may create another client. A session is reduced to the handler that ends
it with `on_close`; `WebsocketSession` has the rest.

One thread of the program calls `init`, `exit` and `create_*_client`; the class
has no lock, and two threads that call it race from the first access on.
`get_ports` reads `m_web_ports`. A node that does not parse is taken to ask for a
protocol that is supported; with none, it is a node that cannot be served.

`Clients` knows the clients asked for, those done with, and what was reported: one
outcome each, a close only after a connection, nothing after the manager stopped.
The refinement forgets threads, operations, stages and the context.

## Runs

| Run | Bounds | Shows |
|---|---|---|
| `ws_safety` | two payloads, two fills, two arriving messages, ssl, service with `CloseOnce`, counted drops | types, `SendFifo`, `RecvFifo`, `QueueSizes`, `OneOfEachKind`, `BuffersAlive`, `SenderAwake`, `NotOrphaned`, `ClosedOnce`, and the refinement of `Connection` |
| `ws_liveness` | one payload, two fills, one arriving message | `CloseReported`, `Flushed` |
| `ws_phantom_frame` | service of the other kind | `NoPhantomFrame` is violated |
| `ws_last_callback` | as `ws_liveness` | `OnCloseIsLast` is violated |
| `ws_all_sent` | as `ws_liveness` | `OnSendWhenAllSent` is violated |
| `exchange` | limits 0 to 3 of either type; up to two messages behind the greeting | types, `AssertsHold`, `Echoed`, `ExchangeEnds` |
| `http` | limit 3 instead of 8, six requests, plain and ssl, every mask, peer that pipelines past a closing request and ends its side at any time | types, `NoMisuse`, `WriterAwake`, `ReaderAwake`, `Answered`, `SessionEnds`, and the refinement of `Pipeline` |
| `http_half_close` | limit 3, two requests, peer that ends its side early | `AnsweredBeforeShutdown` is violated |
| `requests` | targets of up to five characters, methods up to one past `http_connect`, files of size 0 and 2 | types, `Confined`, `RefusedForParent`, `ConnectionAgreed`, `Framed`, `TypeByExtension`, `ServiceAsked` |
| `acceptor` | two connections, every mask, with and without certificate, peers that may reset at any moment | types, `ServedAsConfigured`, `Addressed`, `Accepted`, `NoSilentPeer` |
| `manager` | two generations of the manager, up to two nodes of each kind, as many threads as nodes, two clients, one with ssl | types, `Released`, `ExitReturns`, `Reported`, and the refinement of `Clients` |
| `manager_lost_close` | one thread, one client, no node | `ClosedWhenReleased` is violated |

*Why the bounds are enough.* Two fills make a queue with one message being
written and one behind it, and a post that meets either; a third adds length, not
a new condition (the code compares with 0 and 1). Two payloads tell order and
duplication apart, and each comes with either type. The ssl variant has the plain
one's behaviours and one error more. The limits 0 to 3 of a ping-pong are one that
forbids every message, and limits that the accepting side, the connecting side and
the accepting side again come to first, the last after a turn of each; two messages
to the echo service are the least of which the second may come while the answer
to the first is posted, queued or being written. A limit of 3 with six requests fills the
response queue, resumes, and fills it again. Five characters hold a parent component at the
start or behind a name, ended by either separator, by the end or by more letters.
Two connections show that the first does not hold up or change
the second; no state is shared by more than the listener. Two generations of the
manager tell what the first leaves to the second; two nodes are the least with a
first that fails or throws after, or before, one that listens; two threads and
two clients with the signal make handlers run, wait and be created at once. What the bounds cut off, the
theorems cover: they hold for every value of the constants. Runs check no
deadlock, since a finished session has nothing left to do, and an echo client need
not send.

*Symmetry* over payloads is used in `ws_safety` only, which has no liveness.

*Fairness.* Handlers: the threads of the manager run the io_context, so that a
ready handler runs. Websocket operations: a write ends since the peer reads it
or a timeout kills the stream - `accept` sets the suggested timeouts of a server,
whose idle timeout covers it; those of a client have none, so for a client it is
an assumption on the peer. `async_close` is under the handshake timeout on either
side. A read may wait for ever on an open stream and is aborted on a dead one.
In `exchange` the link carries what was written, and nothing is said of it once
it broke: `ExchangeEnds` promises its end or a broken link.
Http operations: each starts under the timer of the tcp stream (`expires_after`
in `run`, `recv` and `eof`), and a write either under the timer that the last
`recv()` armed or beside a read that is.
Listener and detection: an accept does not fail for ever while connections wait
(strong fairness: errors such as a lack of descriptors come and go), and every
deadline that is armed passes; the run counts on no deadline that the code does
not arm. Manager: a thread returns or finishes its handler, and each ready handler
is taken in the end, since the io_context queues them. What a connector waits for
ends: the resolver gives up, the tcp stream has its timer up to the websocket
handshake, which has the suggested timeout. Signals, sessions and the program's
calls are under no fairness.

*What the violations say.*

- `readme.md:422` offers `recv_buffer_has_data()` to see whether there is more
  frame data. It is also true for the empty node that a read in progress writes
  into. In `on_recv` there is no such node; in `on_send` there is, and a service
  that empties the queue there takes a frame that never came.
- `readme.md:318` calls `on_close` the last callback. With a read and a write
  outstanding when the stream fails, the first handler calls `on_close` and the
  second still calls `on_error`, or `on_recv` for a message read before.
- `readme.md:449` says `on_send` comes when all data was sent; it comes for each
  message.
- `readme.md:162` says the response that `handle_request` filled is sent. A peer
  that ends its side while responses are queued makes `on_recv` shut the sending
  side down, and the responses behind the one being written are lost.
- `readme.md:318` also makes `on_close` the end of every connection. A program that
  calls `exit()` gets none for connections that are open then: the io_context is
  stopped, and destroyed with their handlers (`manager_lost_close`).

## Theorems

All hold for every value of the constants under the assumptions named in the
modules: `Empty` is no payload, the counters do not wrap within the bounds
(`SizeAssumption`), the queue limit is positive, the model values of `WebManager`
and `Acceptor` are distinct and not clients or connections, bounds are naturals.

*WebsocketSessionProofs.* `IInv` is inductive and uses no assumption on the
service. It adds to the types and to `SenderAwake`, `NotOrphaned`, `ClosedOnce`
what they need: the buffer of an outstanding operation is in its queue
(`NonEmpty`), nothing starts before the connection was shown (`NotBefore`), and a
failed or closed operation leaves the stream dead (`Failed`) - without the last, the step
of a failing handler would leave a queued message with an open stream and nobody
sending. On top of it, `SendInv` adds that `ws_text` is the type of the front
message while it is written, which is why the wire carries the right type, and
that at most `MaxFill` messages are around, so that the counter equals the
length; `CloseInv` adds that a close is outstanding only if the service asked
(with `CloseOnce`); `RecvInv` adds where the node being read into is (with
counted drops).

| Theorem | States |
|---|---|
| `TypeCorrect`, `SenderNeverSleeps`, `NeverOrphaned`, `CloseIsOnce` | `TypeOK`, `SenderAwake`, `NotOrphaned`, `ClosedOnce`, for any service |
| `SentInOrder` | `SendFifo`, for any service |
| `OneOperation` | `OneOfEachKind`, for a service with `CloseOnce` |
| `ReceivedInOrder`, `CountersAgree`, `BuffersStayAlive` | `RecvFifo`, `QueueSizes`, `BuffersAlive`, for a service that drops what is counted |
| `OnlyFramesOfThePeer` | `NoPhantomFrame`, for such a service |
| `Implements` | the refinement of `Connection`, for such a service |
| `NoEndlessWork` | `Work` is a natural number, and every step lowers it, for any service |

`OnlyFramesOfThePeer` is the other half of the run `ws_phantom_frame`: what that
run finds comes from asking `recv_buffer_has_data()` in `on_send`, and from
nothing else.

`NoEndlessWork` says that the handlers cannot keep each other going. `Work` adds up
what is still to come (messages not yet filled or sent by the peer), what is
queued, and what is outstanding, each with a weight that pays for what follows
from it: a filled message pays for its post, its place in the queue, its write
and the handler of the write; the end of a read pays for the next read. Only a
message from outside brings work in, and these are bounded. So every behaviour
stops. With `NotOrphaned` and `SenderAwake`, which say what cannot be left over
where it stops, this is the part of `CloseReported` and `Flushed` that does not
rest on fairness; that an enabled step is taken is all the rest.

*ExchangeProofs.* Two instances of `WebsocketSessionProofs` say of each end what
is proved of one: its invariants hold whatever the service does, so that they need
only be carried through the steps of `Exchange`, each of which is a step of one
session. `Base` collects them and says of the link that an end has read a prefix
of what the other wrote. From it, what a callback finds at the front of its queue
is the message that comes next in what the callbacks of the other end gave
(`ClientFront`, `ServerFront`). `Turns` says which messages those are - the
connecting end gives the odd ones and the accepting end the even ones, each the
next after what it took - and that each count is the number of messages its end
has given and taken. Without it, an assert that compares the count of one end with the length
the other chose could not be shown, as the two never meet in one state. `Echoes`
says that the echo server gave its greeting and then what it took.

| Theorem | States |
|---|---|
| `TypeCorrect` | `TypeOK` |
| `AssertsNeverFail` | `AssertsHold`, for every limit |
| `EchoedInOrder` | `Echoed`, for every number of messages |

*ExchangeEndProofs.* The parts of `ExchangeEnds` that need no fairness.
`Finished` says which end counts the connection as finished: the one that took
a message and gave none for it, and then it was at the limit. `FinishesOnce`
follows with `Turns`. `NoEndlessWork` adds up the work of both ends (that of
`WebsocketSessionProofs`, by instances) and the link that may break.

`SettlesRight` looks at the states where no step is left. `Settled` is the
conjunction of the negated guards of both ends over a link that is up. That in
such a state nothing can happen but a break of the link or a message of an echo
client is proved (`SettledStays`). That every state without another step is
`Settled` would be a statement about ENABLED; it is read off the guards, which
`Settled` repeats one by one. `EndInv` carries what a settled state needs:
that neither end is refused while the link is up (`Stages`), that an end closes
only if its service asked and then reads no more (`ClientAsks`, `ServerAsks`),
that a stream dies only because an end asked (`Deaths`), and that the services
ask for one cause: a test service because it counted the connection as
finished, the echo service never (`Causes`). Without `Causes`, a ping-pong that
was given up before its limit would be settled and unfinished. That on_close was
called follows from `NotOrphaned` of each end.

| Theorem | States |
|---|---|
| `FinishesOnce` | `FinishedOnce`: of a ping-pong one message at most is under way and one end at most counts it as finished, with all messages up to the limit taken |
| `NoEndlessWork` | every step of the two ends and the link lowers `Work` |
| `SettlesRight` | `SettlesWell`: where nothing is left to do over an open link, a ping-pong with a limit came to it, an echo client has all its messages back or gave up, and on_close was called at both ends |

*HttpSessionProofs.* `IInv` says when a read may be outstanding (`Room`: only
while its response fits, and once reading gave up there is room for ever - so
`on_send` never resumes it by mistake), that a write has its response at the
front (`Fronted`), that each of reading and writing ends once (`Shutdowns`, from
which at most two shutdowns), that a queued response keeps the connection if its
request did (`Kept`), that the stream is shut for a cause (`Cause`), that a write
fails or starts late only when the session is over (`Failed`), and that the
response being written is the next one in order (`Front`).
`Upgrading` then says that at an upgrade, and after, nothing is outstanding;
it needs a peer that upgrades when it has its answers.

| Theorem | States |
|---|---|
| `TypeCorrect`, `AnsweredInOrder`, `WriterNeverSleeps`, `ReaderNeverSleeps` | `TypeOK`, `AnswersInOrder`, `WriterAwake`, `ReaderAwake`, for any peer |
| `OneReaderOneWriter` | `NoMisuse`, for a peer that does not upgrade early |
| `AnsweredFirstIfPatient` | `AnsweredBeforeShutdown`, for a peer that does not end its side early |
| `NoEndlessWork` | `Work` is a natural number, and every step lowers it, for any peer |
| `SettlesRight` | `SettlesWell`: with nothing outstanding on an open stream, every request handled was answered and `on_recv` gave reading up, for any peer |

`AnsweredFirstIfPatient` bounds the finding of `http_half_close`: a peer that
keeps its side open until its answers came gets all of them, up to the one that
closes the connection. Its invariant `AnsweredFirst` says what is left when this side was shut
down. `NoEndlessWork` is the argument of `WebsocketSessionProofs`, fed by
requests: one pays for its read, its response, the write and, at the limit, the
read that `on_send` resumes. With `SettlesRight` it is the part of `Answered`
and `SessionEnds` that does not rest on fairness.

*PipelineProofs.* `Closed` says that the answer that closes the connection is the
last written and that its response stays in the queue, as `on_send` returns
before the pop: this is why nothing behind it is sent. With it, each action is
one step of `Pipeline` or a stutter: `OnRecvRequest` is `Handle`, `WriteOk` is
`Answer`, `OnSendClose` is `Close` and so on. `Upgrading` is what makes an
upgrade a step of `Pipeline`, so that the refinement, like `NoMisuse`, is for
a peer that does not upgrade early.

| Theorem | States |
|---|---|
| `ClosingIsLast` | `OnlyLastCloses`: nothing is answered behind a closing answer, for any peer |
| `Refinement` | `ImplementsPipeline`, for a peer that does not upgrade early |

*RequestHandlerProofs.* `IInv` says that the file system is asked last and that
what is returned fits. Its lemmas follow a response through its setters
(`Setting`, `SettingKeepAlive`, `Preparing`): a Connection field is chosen for the
version the response has at that moment and nothing changes the version later.

`Course` is the second invariant: the six situations a call can be in (`Called`,
`Refused`, `Asked`, `Opened`, `Unasked`, `Answered`), each with what is known of
its variables. From it the theorems about targets and paths follow by lemmas on
sequences. The code searches a changed copy of the target for one string;
`LegalMeans` says what that finds, `ParentIs` what a parent component is, and
`LegalTargets` joins them: the target is legal exactly if it is rooted and none of
its components leads to a parent, with either separator. `PathIs` follows the
target into the path, where the root and the page appended by the code are the
only additions, and neither adds a component that leads to a parent below the root.
A path without such components stays below it (`NothingLeft`): the left side of
`StaysBelow` is 0 for every component, which is why a target of any length needs no
induction. `PathDescends` puts these together.

| Theorem | States |
|---|---|
| `TypeCorrect` | `TypeOK` |
| `AgreedConnection`, `FramedAnswers` | `ConnectionAgreed`, `Framed` |
| `ConfinedToRoot`, `RefusedOnlyForParent` | `Confined`, `RefusedForParent`, for targets of any length |
| `TypedByExtension`, `AskedInOrder` | `TypeByExtension`, `ServiceAsked` |

*AcceptorProofs.* `IInv` says that a connection waits in one place before it is
accepted (`Waiting`), that a session is of the kind its peer speaks (`Kind`), that
what was served fits the session and the mask (`Fits`), that a connection is made
a websocket only where the node serves such (`Upgraded`), and that an address is
missing only if the peer reset the connection before the accept (`Address`): then
neither handshake ends well, so that an https session that reads and a websocket
have their addresses, and only `http` is left to be served without.

| Theorem | States |
|---|---|
| `TypeCorrect`, `OnlyConfigured`, `ServedWithAddress` | `TypeOK`, `ServedAsConfigured`, `Addressed` |

*WebManagerProofs.* `IInv` says that a thread runs a task whose operation ended
and no other thread runs it (`Running`), that threads are joined only while there
is a manager (`Joining`), that without one nothing is left (`Empty`), and that the
report follows the stage of a client (`Told`). `Running` needs `Told`: a callback
creates a client, which starts an operation, and no thread may be at work for it.
That the ports are those of nodes that listen rests on the first node of a set
being in the set, by well-foundedness.

| Theorem | States |
|---|---|
| `TypeCorrect`, `NothingLeft` | `TypeOK`, `Released` |
| `Implements` | the refinement of `Clients` |

*Only model-checked:* liveness (`CloseReported`, `Flushed`, `ExchangeEnds`, `Answered`,
`SessionEnds`, `Accepted`, `NoSilentPeer`, `ExitReturns`, `Reported`), as the
prover does not handle fairness and ENABLED. For the http session, the websocket
session and the exchange, the theorems on `Work` and on settled states leave
of these little more than that an enabled step is taken. Every invariant that a run
checks and that holds is proved, as are the three refinements; of the five
properties that a run refutes, two are proved under the condition that the run
does not meet. `Work` counts the messages and requests of one run of
the model, which are bounded (`MaxFill`, `MaxArrive`, `MaxRequests`,
`MaxMessages`) by constants of any size.

## Plan

In this order; items 1 to 9 are done.

1. `WebsocketSession`, `Connection`, the refinement, their proofs.
2. `HttpSession` and its proofs.
3. The documented promises that the two do not keep.
4. `Clients` and `WebManager` with the connectors, the refinement, their proofs.
5. `Acceptor`: listener, detection, mask and gates, and its proofs.
6. `RequestHandler`: `handle_request` for every request, against a reference, and
   its proofs.
7. `Pair` and `Exchange`: two `WebsocketSession`s joined by their wires with the
   test service on both; its assertions as an invariant, and their proof.
8. The echo service on the same composition, with any client.
9. `Pipeline`, its refinement, and what can be proved of liveness: no endless work
   and settled states, for the sessions and the exchange.
10. The same for `Acceptor` (what a settled listener has accepted) and for
    `WebManager` (what is left while `exit` waits for the threads).
11. An abstract specification of a service node for `Acceptor`: which connections
    are served, in which protocol, and its refinement.
12. A larger `WebManager`: sessions of the listeners as handlers of their own, and
    `exit` while they report.

## Not modelled

The accessors of messages that name one header field each, `Address` (a value), pages and build files.
The http side of the test service and what it does with a multipart body, which
it prints. Bytes,
headers other than Connection, and buffers below a message, tls itself, and time: a timer is the
possibility that an operation fails. Memory exhaustion and exceptions in
handlers, but for the one of `RequestHandler`.

## Running

    tlc -workers 2 -config WebsocketSession.cfg MCWebsocketSession.tla
    tlc -workers 2 -config Exchange.cfg Exchange.tla
    tlc -workers 2 -config Acceptor.cfg Acceptor.tla
    tlc -workers 2 -config RequestHandler.cfg RequestHandler.tla
    tlapm WebsocketSessionProofs.tla
    tlapm ExchangeProofs.tla
