# A TLA+ model of esp8266-http-server-async

This directory is the verification project of the HTTP server library of this
repository. TLC checks its modules on small instances; TLAPS proves their safety
properties for every instance. Paths below are
relative to the source tree (`src/` of it is the library).

## 1. The system

The library serves one request per TCP connection on a single-core device. A
TCP transport (the separate library `esp8266-tcp-transport`) owns the sockets
and calls back on its network task; the adapter turns each callback into calls
on a shared `HttpEngine`, which keeps one slot per client.

| Component | State | Operations | Used by |
|---|---|---|---|
| `HttpParser` (`src/http_parser.cpp`) | parser state, line, header storage and table, body, Content-Length | `reset`, `feed` | each slot of the engine |
| `HttpEngine` (`src/http_engine.cpp`) | `slots_[HTTP_MAX_CLIENTS]`, `max_clients_`; through the slots, open files of the backend | `alloc_slot`, `find_slot`, `release_slot`, `on_data`, `on_drain`, `on_bytes_sent`, `ready_to_close`, `reset` | adapter, `HttpServer` |
| TCP adapter (`src/http_tcp_adapter.cpp`) | `g_engine`, `g_srv` | `on_connect`, `on_data`, `on_drain`, `on_close`, `on_error`, `flush_tx`; start and stop | transport, `HttpServer` |
| `HttpServer` (`src/http_server.cpp`) | `started_`; the engine every instance shares | constructor, `begin`, `stop`, `on`, `serve_static` | application |
| `HttpRouter`, `HttpStaticFiles` | tables of routes and of mounted directories | `add`, `resolve`; `add`, `resolve_open` | engine's `dispatch` |
| `HttpResponse`, `HttpRequest` | the response a handler builds; a view of the request | `send*`, `set_header`; `header`, `param`, `form_param` | handlers |
| URL decoding, common helpers, configuration | none | | the above |

Where it is hard:

* **Interleaving.** A callback that flushes takes several steps (fill tx, send,
  account); the peer acknowledges bytes or disappears between them. `stop()`
  runs on another task.
* **Backpressure.** `tcp_send` takes what fits. The rest must be sent later, by
  a wake-up that must not be lost, and be accounted exactly: one byte counted
  twice or not at all repeats data or wraps an unsigned subtraction.
* **Partial failure.** A body reader or file backend may fail after the header
  block has announced a length.
* **Segmentation.** The bytes of a request arrive in any pieces, and more may
  follow its end.
* **Fixed resources.** Slots, file handles, every buffer and table.

What makes each component correct: the parser's result depends on its input
only and no buffer is overrun; the engine streams each response in order, to the
announced length, and closes each file once; the adapter keeps slots and
connections together and closes a connection after the whole response; the
server's lifecycle never leaves a callback without an engine, nor the next run
with slots of the last; the router answers by the documented order; no static
path leads out of its directory; what a handler sent is encoded whole, and no
more changes; a parameter is found and decoded as its text says.
`PROJECT.json` lists each hazard at its line with the properties aimed at it.

## 2. The modules

```
HttpParserStates <---- HttpParser <---- HttpParserReference <---- MCHttpParser
      ^
      |
 HttpEngine <---- MCHttpEngine
      ^     <---- HttpSharedBody <---- MCHttpSharedBody
      | INSTANCE (E)
 HttpTcpAdapter ---- INSTANCE (X) ----> HttpExchange
      ^ <---- MCHttpTcpAdapter
      | INSTANCE (A)
 HttpServer <---- MCHttpServer

 HttpRouter, HttpStaticFiles, HttpResponse, HttpRequest <---- MCHttpLibrary
```

The theorems about a module `M` and their proofs are in `M_proofs`, which EXTENDS `M`
(those about the parser EXTEND `HttpParserReference`).
`HttpTcpAdapter_proofs` uses `HttpEngine_proofs` as an INSTANCE, and
`HttpServer_proofs` uses `HttpTcpAdapter_proofs`, so that what was proved below
is cited above and not proved again.

**HttpParser** is `consume_char`, one action per byte (`Consume`); `feed` is the
sequence of them until a verdict, so a split into segments makes no difference
to the model, as it makes none to the code. Each count (`line_len`,
`header_storage_len`, `header_count`, `body_len`) is the one of the code, with
the code's limits as constants. The contents of a line are abstracted to what
the line feed that ends it reveals: a request line, a header with the lengths of
its name and value, a Content-Length with its number, or something the parsing
functions refuse. `Possible` keeps a line from saying more than its text has
room for. `FeedAgain` is a later `feed` of a parser that has ended. `input` is
a history variable. Merging `content_length_seen_` into `content_length > 0`
loses nothing: `finish_headers` asks for both.

**HttpParserReference** says without a state machine what the state must be
after an input: where its head ends, whether one of its bytes is the first
malformed or oversized one, how long the body is.

**HttpParserStates** holds the parser states and the moves the engine relies on
(`Forward`, `CanComplete`, `CanReject`). The engine's `on_data` is written with
them, and `HttpParser` is shown to make no other (`ParserContract`): this is
how the two modules are composed without multiplying their states.

**HttpEngine** has a record for each `HttpClientSlot`. Bytes are abstracted to
positions: the response of a slot is the stream of its header block followed by
its body, tx holds the `tx_len` bytes from `tx_pos`, and `wire` counts what the
transport accepted. `tx_pos`, `hdr_len`, `wire` and `split` (a body chunk was
accepted in more than one part) are history; the other fields are the
code's. Actions:

| Action | Code |
|---|---|
| `AllocSlot`, `ReleaseSlot`, `Reset` | `alloc_slot`, `release_slot`, `reset` |
| `OnDataMore`, `OnDataRejected`, `OnDataComplete` | the outcomes of `feed` in `on_data` |
| `AnswerError`, `AnswerFromHandler`, `AnswerFromFile` | the paths of `dispatch` |
| `OnDrain` (`FillNextTx`) | `on_drain`, `fill_next_tx` with every result of a source |
| `OnBytesSent` (`PartlySent`, `AllSent`) | `on_bytes_sent` |
| `ReadyToClose`, `FoundSlot`, `NoSlotFor` | `ready_to_close`, `find_slot` |

What a handler, the router or a file system decides is a free choice:
a response of any header and body length, an error, or a file. `Next` offers
every legal call at any moment. `HttpClientSlot::state` is written and never read,
and is left out.

**HttpTcpAdapter** adds the network task (`task`: which step of `flush_tx`, for
which connection and slot) and the transport. Callbacks run to their end one at
a time, on the one task, and each loop iteration of `flush_tx` is two steps
(`FlushFill`, `FlushSend`) with `FlushFinish` at the end, so acknowledgements
(`Ack`) and disconnections (`PeerGone`) come between them. A connection that was
closed by the adapter or the peer is "closing" until its `on_close` was called;
then its pointer may be used again. `on_error` does nothing in the code and has
no action. The transport is external: its contract, as the adapter uses it, is
stated at the head of the module.

**HttpExchange** is the abstract specification: what one connection experiences,
without slots, buffers or callbacks. Receive, respond with a length fixed
beforehand, send each byte once, close; or fail half-way; or be cut off.

**HttpServer** adds the application task (`app`: where it is in `begin()` or
`stop()`) to the adapter's network task. `Begin`, `TcpServerStart`,
`BeginReturn` and `Stop`, `TcpServerStopReturn`, `StopClear`, `StopReset` are
the steps of the two functions; between any two the callbacks go on. What
`stop()` relies on in the transport (accepts no more, ends every
connection, returns when no callback runs) is stated at the head of the module.
Whether the transport calls `on_close` for what it ends is left open:
`DropSilently` is the connection it forgets. `g_srv` is the `listening` of the
model. The callbacks' branches for `g_engine == 0` have no action, because
`CallbacksHaveEngine` shows they are not reached under that contract.

**HttpRouter** is `add` on the application task against `resolve` on the network
task, a step for each route looked at, and the choice `dispatch` makes of it.
**HttpStaticFiles** is `add`, `build_path` with its checks, on sequences of the
four kinds of characters they tell apart, and `resolve_open` with every answer a
file system may give; requests are enumerated by writing the path on. An
`fs_path` is the string `strcpy` and `strcat` leave in the buffer, there before it is
known whether the file exists or opens. **HttpResponse** is every call a
handler can make, in any order and number, and `encode_headers` of what results;
names are words that may differ in capitals or be too long, values are lengths.
**HttpRequest** is one call of `param` or `form_param` with any text and buffer
size, a step for each pair and each decoded character, up to its result.

**HttpSharedBody** is `HttpEngine` with one fact more: where the bytes of a
response are while it is being sent. The handler of the model keeps them in one
buffer of its own.

**MCHttpLibrary** checks the four components that share no state with any other
in one run: it EXTENDS all four, which is why their variables and specifications
have names of their own (`RouterNext`, `FilesNext`, ...; the `routes_` of
`HttpStaticFiles` are `mounts`). A behaviour picks a `part` and takes that component's steps only.
Nothing is lost, as no step of one can be seen by another; where they are
called by the engine, its choice of results is free (`AnswerFromHandler`,
`AnswerFromFile`, `AnswerError`) and so includes theirs.

## 3. What TLC checks

| Run | Question | Distinct states |
|---|---|---|
| `parser` | Does every input up to 12 bytes give the reference result, within every buffer? | 183,000 |
| `engine` | Byte accounting, order, length and file ownership under every order of calls | 311,000 |
| `adapter_polite` | Does each connection go through one exchange, is a wake-up ever lost, is every answered slot released? One request per peer; sources may fail | 117,000 |
| `adapter_rough` | Is the engine called legally, and does a connection that ends always give its slot back? Peers that go on sending, sends taken in part, failing sources, two slots of which `max_clients` allows one | 174,000 |
| `server` | `begin()` and `stop()` again and again against every step of the callbacks | 161,000 |
| `library` | Router, static files, response and request, each on its own | 668,000 |

Engine properties. `RemainingNeverUnderflows`: `body_len - body_sent` never
wraps. `StreamInOrder` and `ClosesAtAnnouncedLength`: nothing is repeated,
skipped or missing, except after a chunk was accepted in two parts, where the
defect of section 5 shows. `HandlesAccounted`: a file is closed once
and by its owner, or was dropped by `reset`. `AnsweredWhenParsed`: each request
that ends is answered, and none before. `StreamsInvariant`: the invariant the
proofs use.

Adapter properties. `SlotsFollowConnections`: no slot outlives its
connection or is shared, and a flush works on the slot its connection still has.
`NoLostWakeup`: an unfinished response always has an acknowledgement to come or
an `on_drain` due. `DrainsOnlyComplete`: `tcp_close_after_drain` is called only when
the whole response was accepted and nothing is added later. `ImplementsEngine`
(refinement `E!Spec`): the adapter calls the engine only in ways that the
engine's own results allow for, so that what is shown of the engine alone holds
in the composition. `ImplementsExchange` (refinement `X!Spec`, mapping
`ExchangeOf`): what a connection experiences is the abstract exchange.
`ReleasedUnlessFailed`: a response whose source works ends with its slot
released, even if another connection's source fails. `GoneIsReleased`: a connection
that ends, at whatever step of whichever flush, becomes free again with its slot. As
`on_close` has to wait for the callback that is running, this says of the unbounded
loop of `flush_tx` that it ends even if a source fails, a send is cut short or its
own connection is the one that ended.

Server properties. `CallbacksHaveEngine`: no callback is ever made, or cut short,
without an engine. `SlotsFollowWhileListening`: each time the server listens,
its slots are those of its connections and none of an earlier run.
`ListensIffStarted`: between calls of the application, `started_` and the
transport agree, so that `stop()` never refuses to stop what listens.
`NoFileLost`: if the transport reports what it ends, `reset` in `stop()` finds
nothing to close. `ImplementsEngine`: refinement again, now with `stop()`'s `reset`.
`StopReturns`: `stop()` does not wait for a flush that waits for it.

Library properties, each stated in its module. `AnswersAsDocumented`: handler, 405,
file, 404 in the order of `docs/api.md`, though `on()` runs between any two steps of
the loops; the one answer this can change is named in section 5.
`ResolvedStaysValid`: the table entry `dispatch` points to stays the request's.
`StaysBelowRoot`: an opened path begins with its mount's directory and has no name
`..` in it, read as a file system reads it and not as `strstr` does. `PathFits`:
what `build_path` writes, with its zero, fits the buffer, though the sum it compares
with the size (`PathLen`) is computed apart from the writing (`build_path`). `OneMountPerPath`: two mounts accept one path only
if one lies beneath the other. `OrdinaryPathsMapped`: what is accepted
includes every plain name beneath a mount. `TypeOfFileName`: the type is
that of the last name. `HeadersAsSet`: the table is the last value of each name,
in order of first use. `EncodesWhatFits`: the header block is refused exactly when it
leaves no room for a zero. `OneContentType`, `BodyHasSource`, `SentIsFinal`:
what the engine later reads is there, once, and does not change. `FindsAndDecodes`:
the two loops give what a definition without loops says a parameter is.
`RoomForZero` and `CallReturns`: within the buffer, and in the end.

### Bounds

* Two slots, two connections: the properties relate a slot to at most one other
  slot, and every slot and connection is treated alike except for the order of
  the search, which two suffice to exercise. One slot and two connections gives
  contention, two slots of which one is usable gives `max_clients`.
* In the engine's run `TxSize` is 3; header blocks of 2 (fits, and may be sent in
  two parts) and 3 (does not, because of the terminating zero); bodies of 0, 1,
  4: empty, below one chunk, several chunks with a rest. The adapter's runs take
  `TxSize` 2, header blocks of 1 and 2 and `SndBuf` 2, with bodies of 0 and 3
  (`adapter_rough`) or of 2 (`adapter_polite`): with its header block, neither 3
  nor 2 fits the send buffer, so each response that has a body needs a wake-up.
* `MaxSegments` 1 or 2 per connection: with 2, a request in pieces or, with
  `ExtraData`, data after it. The counter starts again with each
  connection, and connection pointers are used again without bound.
* Parser: lines up to 4, storage of 8, two headers, bodies up to 2, inputs up to
  12 bytes: a request line, two headers that fill the storage exactly and a blank
  line fit, as do one header and a whole body, and each limit can be exceeded by one.
  Both headers and a body behind them take 13, which `ParsesCorrect` includes.
* `server`: one object, responses of two bytes, one segment per connection. What
  matters is where `begin()` and `stop()` fall between the steps of an exchange,
  not how many chunks it has; the number of `begin()`s and `stop()`s is not bounded.
* `library`: three routes of two methods, matching one path or both, so that two
  routes can match a request behind one that does not. Two of three mounts, in both
  orders: prefixes nested and only looking so, directories with and without a last
  slash; requests up to `MaxPath` 8 against `HTTP_STATIC_PATH_MAX` 7, room for two
  names beneath the longest prefix and for each pattern the checks look for. A
  header table of two and up to `MaxCalls` 3 accepted headers: replaced, full, cut.
  Queries and bodies up to `MaxText` 4 with buffers of 0, 2 and 3: a name with an
  escape, two pairs, empty names and values, each filling the buffer or just not.
* Nothing else is bounded: counters return to 0 with each response.

### Fairness

`FairSpec` assumes that the task runs (`WF Flush`), that a live peer
acknowledges (`WF Ack`), that the transport finishes a drained close
(`WF DrainDone`), and that it calls the callbacks it owes (`SF` on `OnDrain`
when due, and on `OnClose`). The last two are strong because the guard "the task
is idle" comes and goes while other connections are served; the transport serves its events
in turn, so one that is due is not passed over for ever. Nothing obliges a peer
to send, and `PeerGone` has no fairness: release does not rest on peers that hang
up, nor on the transport's idle timeout (`include/http_config.h:48`), which is off
by default and which a peer that trickles data never meets. `adapter_polite` assumes that `on_drain` exists and that sends
are whole: what happens otherwise is in section 5.

`FairSpec` of `HttpServer` assumes less: that a callback once begun runs to its end
(`WF Flush`), that the owed `on_close` calls are made, and that the steps of `stop()`
after the call of the transport are taken. Nothing makes the application call anything.
`MCHttpLibrary` has fairness for a call of the request only: a function runs.

## 4. What TLAPS proves

For every value of the constants that the named assumptions of each module allow
(limits are numbers, null is no connection, an error header block fits tx):

| Theorem | Says | Beyond the module's assumption |
|---|---|---|
| **`HttpParser_proofs`** | | |
| `ParserTypeCorrect` | no index of the parser leaves its buffer | |
| `BodyCorrect` | a completed request has a body of exactly the announced length | |
| `ContractCorrect` | the parser makes only the moves the engine is built on | |
| `ParsesCorrect` | `ParsesAsReference`: after any input the parser is where the reference says | |
| **`HttpEngine_proofs`** | | |
| `TypeCorrect` | no count of a slot leaves its type | |
| `StreamsCorrect` | the stream invariant | |
| `RemainingCorrect`, `OrderCorrect`, `LengthCorrect` | the three byte-accounting properties | |
| `HandlesCorrect` | file ownership | |
| `AnswersCorrect` | an answer for each ended request | |
| `OwnersCorrect` | one slot for a connection, among the usable ones only | |
| **`HttpTcpAdapter_proofs`** | | |
| `AdapterTypeCorrect`, `SlotsCorrect` | `TypeOK`, `SlotsFollowConnections` | |
| `EngineImplemented` | the adapter's steps are steps of the engine | |
| `EngineTheoremsHold` | so the engine's theorems hold of the adapter's engine | |
| `WakeupCorrect` | `NoLostWakeup` | `HasOnDrain` |
| `DrainsCorrect` | `DrainsOnlyComplete` | `~ExtraData` |
| `ExchangeImplemented` | each connection goes through the abstract exchange | `~ExtraData`, `~SplitSends` |
| **`HttpServer_proofs`** | | |
| `CallbacksCorrect`, `ListensCorrect` | `CallbacksHaveEngine`, `ListensIffStarted` | |
| `ServerImplementsEngine` | the engine is called legally with `stop()` and many servers, too | |
| `SlotsFollowCorrect`, `FilesCorrect` | `SlotsFollowWhileListening`, `NoFileLost` | `NoneConstructedInService` |
| `OneServerSuffices` | both, in a program with one `HttpServer` | one server |
| **`HttpRouter_proofs`** | | |
| `ResolvedCorrect`, `AnswersCorrect` | `ResolvedStaysValid`, `AnswersAsDocumented` | |
| **`HttpRequest_proofs`** | | |
| `FindsAndDecodesCorrect`, `RoomForZeroCorrect` | `FindsAndDecodes`, `RoomForZero` | |
| **`HttpResponse_proofs`** | | |
| `TypeCorrect`, `FinalCorrect`, `BodyCorrect` | type, `SentIsFinal`, `BodyHasSource` | |
| `HeadersCorrect`, `TypeOnceCorrect`, `EncodesCorrect` | `HeadersAsSet`, `OneContentType`, `EncodesWhatFits` | |
| **`HttpStaticFiles_proofs`** | | |
| `PathFitsCorrect`, `OneMountCorrect`, `OrdinaryCorrect` | `PathFits`, `OneMountPerPath`, `OrdinaryPathsMapped` | |
| `BelowRootCorrect` | `StaysBelowRoot` | `RootsClean` |
| `TypeOfFileCorrect` | `TypeOfFileName` | `DotsInFront` |

### The further hypotheses

Each is about what the code leaves to the build, the transport, the peer or the
application; what happens without the first four is in section 5.

* `HasOnDrain`: built without `HTTP_TCP_TRANSPORT_HAS_ON_DRAIN`, a wake-up *is* lost (`no_drain`).
* `~ExtraData`: a peer that goes on sending behind its request has it answered again
  (`two_responses`).
* `~SplitSends`: a chunk accepted in two parts is miscounted (`split_chunk`).
* `NoneConstructedInService`: no `HttpServer` is constructed while another listens,
  because the constructor resets the engine they share. Every
  example program constructs one, before `setup()`; for these, `OneServerSuffices` needs
  no such hypothesis.
* `RootsClean`: the application mounts no directory that itself contains `..`.
* `DotsInFront`: an extension is a dot and what follows it, without another dot or a
  slash; those of `http_static_mime_type` are.

### The arguments

*Engine.* `TypeOK` alone is not inductive: that tx does not hold more than
its size needs the header block to fit, and that `body_len - body_sent` is a
number needs the byte accounting. `StreamsInvariant` says for each send phase
what `wire`, `tx_pos`, `tx_len`, `body_sent` and the file position are to each
other. The clause that carries the argument is the one of BODY: as long as no
chunk was split, `wire = hdr_len + body_sent` between chunks; after a split,
`wire` is strictly larger, because the first part was accepted and not
counted, and this gap never closes. Order and length follow from it phase by
phase. Ownership of files is a second invariant, independent of the first:
`open_handles` is the disjoint union of what slots hold and what `reset` dropped.

*Parser.* One lemma per function of the code shows that it makes a `GoodMove`:
into the type, keeping the relation between `body_len` and `content_length`, and
to an allowed state. The invariant is needed for `AddBody`: the branch that
returns `BODY_TOO_LARGE` from within a body cannot be reached, because a
Content-Length beyond the limit has been rejected with its header.

`ParsesAsReference` needs to know of more than state and body: `HasRead` says of every count
what it is in terms of the whole input. Before the head ends, `line_len` is the text since the
last line feed, `header_count`, `header_storage_len` and `content_length` are the
number, the storage and the last length of the headers so far, and nothing yet is a
fault; after it, `content_length` is that of the head and `body_len` what follows
it. A group of lemmas says of each definition of the reference what one more byte
(`Longer`) does to it: nothing at the positions before (`EndSame`,
`LineSame`), and at the last position what the input before and the byte decide (`EndNew`,
`StoredNew`, `FaultNew`, `LengthNew`). Then there is one lemma per function of the code
again. That a blank line is no header, so that the count and the sum are not
disturbed by it, is where `Possible` is needed (`BlankSaysNothing`).

*Adapter.* `AdapterInv` joins the engine's invariants to the transport's view: an open
connection has one slot, a free one none, and while the task is in a flush, the
slot it remembers is still that of its connection, because `on_close` cannot be called
before the callback returns. With it each adapter action is shown to be a call the
engine allows, which gives the refinement, and the engine's theorems follow from it
by citation. `NoLostWakeup` adds `WakeInv` (a response that waits has bytes unacknowledged, `drain_due`
or a flush under way), and the abstract exchange adds `WireInv` (what the transport
`accepted` is the `wire` of the slot): `ExchangeOf` maps each action to a step of the
exchange or to none.

*Server.* `LifeInv` says for each place of `begin()` and `stop()` what `listening`,
`g_engine`, every `started_` and the connections are. The refinement of the engine and
the slots' invariants are then those of the adapter, except for `Reset`, which happens
only where no callback runs and no connection has a slot.

*Library.* The loops of router and request carry what they have excluded so far: the
router, that no route before `i` matched with the method; the request, that no pair
before the one it looks at has the name, and that what is decoded is the decoding of
what was read. For the header table the invariant is `TableInv`: what is `Kept`, in which
order (`Ordered`) and of which entry the Content-Type is. An `fs_path` was built by one mount for one
path (`FileInv`), and `PathLen` is the length of what is built (`PathLenIs`), so that the rest is reasoning about concatenations: a `..` between
two slashes of the whole lies in the root, in the relative path, or across
the joint, and the checks exclude the last two.

*Induction over data.* The library's induction theorems take an operator as a
parameter and cannot be cited here. `WFMin` and `NatLessThanWellFounded` can: they say
that a non-empty set of numbers has a least element (`MinOfNat`), from which induction
over a *set* of numbers follows (`NatSet`). With it the existence of a recursive
function, and so what a fold computes, is proved like anything else: the sum of
`encode_headers` over any number of lines in `EncodesCorrect`, decodings of any length in
`FindsAndDecodesCorrect`, and in `ParsesCorrect` that the storage of a set of headers, which
`MapThenSumSet` adds in an order of its own, grows by that of the header
that is added (`TotalsExist`, `TotalsAny`, `TotalsAgree`).

### Only model-checked

* Liveness: `ReleasedUnlessFailed`, `GoneIsReleased`, `StopReturns`, `CallReturns`. Fairness
  and ENABLED are out of the prover's reach.

## 5. Where code and documentation disagree

Six runs are expected to find a violation, each of one documented statement:

| Run | Statement | What the code does |
|---|---|---|
| `split_chunk` | responses are streamed, `docs/memory.md:44` | when `tcp_send` takes a body chunk in two parts, `on_bytes_sent` counts only the second, and bytes are sent again |
| `two_responses` | one request, one response, `README.md:17` | data after a complete request dispatches it again over the response being sent |
| `no_drain` | the adapter sends the response and closes, `docs/architecture.md:34` | without `on_drain`, the default, a response that once filled the send buffer stops for good |
| `read_fails` | one response, then closes, `README.md:17` | a body source that fails leaves connection and slot taken |
| `read_after_headers` | inconsistent reads return 500 where the error can be told from others, `docs/api.md:86` | the first read happens after the 200 header block was sent |
| `shared_body` | the response is built in the slot's buffer, `docs/architecture.md:33` | only the header block is; the body is read from the handler's memory after the handler returned, and one buffer used for two clients mixes their responses |

Also seen while modelling, without a run of their own:

* Constructing a second `HttpServer` resets the engine both share
  (`src/http_server.cpp:14`): responses under way are forgotten, and their
  connections stay open unanswered. `Construct` does what the code does; the `server`
  run has one object.
* A header name longer than the limit is stored cut and looked up whole
  (`src/http_response.cpp:56`), so set twice it is sent twice, where
  `docs/functions.md:81` says it is replaced. `HeadersAsSet` promises less for them.
* A prefix that ends in a slash, `/` among them, serves only itself
  (`src/http_static_files.cpp:17`): a second slash is asked for behind it. The
  premise `~EndsInSlash(m.prefix)` of `OrdinaryPathsMapped` says so.
* One slash behind the prefix is dropped before the path is checked
  (`src/http_static_files.cpp:80`), so a doubled one there passes, though
  `docs/static-files.md:36` and `:43` have it rejected. `StaysBelowRoot` holds all the same.
* A route added between the two loops of `resolve` (`src/http_router.cpp:68`) is
  missed by the first and found by the second: 405 for a method that is registered by
  then. `AnswersAsDocumented` allows this, and only for routes added since.
* `docs/api.md:74` and `:75` limit a response to the tx buffer; the code streams bodies.

## 6. Not modelled

* The branches of callbacks for `g_engine == 0`, which are not reached
  (`CallbacksHaveEngine`), and `begin()` with an invalid port, which changes nothing.
* The order in which `HttpRouter::add` and `HttpStaticFiles::add` store the fields of
  an entry and then the count: an entry appears at once.
* Accessors without control: `HttpRequest::init`, `header` beyond the Content-Type
  that `form_param` asks for, `HttpRouteMatch`, which nothing reads.
* Name tables: methods, reason phrases, the list of known extensions.
* The contents of headers and bodies, beyond what `HttpResponse` and `HttpRequest`
  tell apart.
* Timeouts as such: the library has none of its own, and the idle timeout of the
  transport (`include/http_config.h:48`) is one of the reasons for `PeerGone`, which
  may come at any time or never. That a slot is given up by a connection which does not
  end is therefore not claimed.
* In the parser: the buffers of path, query and version, which the request line is cut
  into; the sign and the saturation of `strtoul`, whose result is a number; and the
  call `feed(0, len)`, an error at once (`src/http_parser.cpp:35`), which the engine's
  `on_data` would have to be given by the transport.
* The transport itself, the configuration header (its limits are the constants),
  the examples, the host entry point and its mock.

## 7. Plan

Every safety invariant and every action property that a passing run checks is proved for
every instance, under the hypotheses section 4 names. What is left is not for the prover
(liveness), or is in section 6.
