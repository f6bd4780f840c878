# BurpTUI: a verification development

TLA+ models of BurpTUI (`src/src/`), the TLC runs that check them on small
instances, and TLAPS proofs of the most important results for every instance.
Paths below are relative to `src/src/` unless they begin with `src/`.

    tlc -workers 2 -config Intercept.cfg MCIntercept     # one run
    tlapm InterceptProofs.tla                            # one set of proofs

`PROJECT.json` lists the components, the runs, the source lines behind every
definition, a variant with a bug for each property, the hazards, the
disagreements between code and documents, and the theorems.

## The system

Three kinds of threads share one process:

* the **UI thread** runs FTXUI's loop: draws the tabs and handles keys, clicks
  and posted `Custom` events, one at a time;
* the **network thread** runs one `io_context`: every handler of `ProxyServer`,
  `Session` and `MitmSession`, one at a time;
* a detached **worker** per Repeater request.

| component | state | operations | interacts with | what makes it correct |
|---|---|---|---|---|
| `InterceptManager` | `enabled_`, `queue_` under `mutex_` | intercept, forward/drop one or all, remove by id, set enabled | called by sessions (network) and `ProxyTab` (UI); decides through callbacks posted to the session's executor; notifies the UI | every held request decided once, in order; none lost; the screen follows |
| `ProxyTab` | editor, id of the request it shows | toggle, forward, drop, frames | `InterceptManager` | what is forwarded is what was shown |
| `Session` | two sockets, parser, `currentTransaction_`, timer, write queues | accept to close: read, pause, resolve, connect, write, relay, CONNECT, local pages | asio, `InterceptManager`, `MitmSession`, the transaction callback | turns never mix; always watched; one consistent log |
| `MitmSession` | two TLS streams, handshake flags, `isClosed_` | CONNECT answer, handshakes, HTTP turns, close | asio, `CertCache`, `InterceptManager`, callback | layers in order; nothing after close; logged once |
| `CertCache` | LRU list and map under a `shared_mutex` | get, touch, clear | `CertGenerator` | list = map; capacity; no redundant minting |
| feed: `TsQueue`, `TuiApp`'s trigger, `HistoryTab` | queue, `updatePending_`, posted events, entries | push, trigger, drain | network, workers and UI | all shown, in order, once |
| `RepeaterManager`, `RepeaterTab` | target, request, response, `isSending_`; the tab's copies | load, edit, send, answer | History and Proxy tabs, workers | one send in flight, answers in order, the right target |
| `App`, `SslInit`, `ProxyServer` | CA files, CA in memory, acceptor, `running_` | initialize, start, stop | file system, other instances | a matching CA, one instance per port, a whole CA replaced in a race only |
| `ProxyServer`, end of `App::run` | acceptor, `running_`, the thread, the order of destruction | accept, stop, join, destroy | sessions, `TuiApp`, Repeater workers | the accept loop is never lost; nothing is used after it is gone |
| `HttpParser` | the message being parsed | feed, take, reset | sessions | the same messages for every way the stream is cut |
| `TextEditor` | lines, cursor, scroll, selection | keys, mouse, load, frames | Proxy and Repeater tabs | it is a text; cursor, view and selection stay in it |

What is hard: the UI thread and the network thread interleave inside every
`InterceptManager` operation; an asio completion that is already queued runs
after `close()`, after a re-arm of the timer, after a cancelled operation;
notifications are sent after locks are released; flags are checked in one
critical section and used in another; a CA is two files and a crash may fall
between them. `PROJECT.json` lists each place as a hazard.

## Modules

| modules | models | correspondence |
|---|---|---|
| `Queues`, `SequenceLemmas` | removing from a sequence; lemmas on it, on sequences in general, on induction and on functions defined by recursion | `removeById`, list erasure |
| `InterceptGate` | abstract: hold, pass, decide front, decide all, leave | none: the promise |
| `Intercept`, `MCIntercept`, `InterceptProofs` | `InterceptManager`, `ProxyTab`'s interception, the sessions' side of a pause | a step is one critical section of `mutex_` or the code between two; `netPc` and `uiPc` say where each thread is; `hand` is the batch `forwardAll` swapped out, `posted` the decisions on the executor |
| `Session`, `SessionProofs` | one `Session`, plain HTTP, CONNECT tunnel | record `s` holds the object; `ops` the asynchronous operations under way, `done` the handlers ready to run; `out` all chunks queued for the client, `wq` how many of them are still in `writeQueue_`; one action per handler |
| `MitmSession`, `MitmProofs` | one `MitmSession` | as `Session`, with `closed`, `tls` and the handshake flags; a write queue is its length, `out` the stream it belongs to |
| `CertCache`, `MCCertCache`, `PartsProofs` | `CertCache` | a step is one critical section of the shared mutex; `mints` and `drops` are history |
| `FeedChannel`; `Feed`, `MCFeed`, `TabsProofs` | a growing prefix of what was published; `TsQueue`, trigger, event, tabs | the trigger is two steps, test-and-set then post; the handler three, take, clear, drain |
| `Repeater`, `MCRepeater`, `TabsProofs` | `RepeaterManager`, `RepeaterTab` | Send is four critical sections; each worker has a phase; `sent` is history |
| `Startup`, `MCStartup`, `AppProofs` | `App::run`, `SslInit`, binding a port | each check, open, write and load of a file is a step; `port` is what each acceptor is bound to, any of those `--port` can ask for; `alone` is history |
| `Server`, `AppProofs` | `ProxyServer`'s accept loop, the end of `App::run` | `main` is the main thread's place between leaving the UI and the end of the process, `net` the network thread's; a session is what keeps it alive: an operation, or InterceptManager's queue |
| `FlatText`; `Editor`, `MCEditor`, `EditorProofs` | abstract: bytes and a position; `TextEditor` | one action per key and mouse event, one for a frame; `copied` is what the event put on the clipboard |
| `Parser`, `MCParser`, `PartsProofs` | `HttpParser` | `wire` is the stream in elements, `Feed` one read of any length, the callbacks are functions of the parser's record; `taken` and `tidy` are history |

Abstractions shared by all: a request, text, target, host or key pair is a model
value or a number; bytes, headers, wording and layout are left out. `Session`
keeps from a read only what the control flow looks at: partial data, a complete
request of some kind, a response that keeps or ends the connection, the end of
the stream, an error. A conversion that matters is modelled by its effect
(`Clean` and `Crlf` in `Repeater`). Code outside the repository (asio, FTXUI, the
file system, the peers) is modelled from how the code uses it and is marked
`external` in the map. The important rule about asio, in `Session` and
`MitmSession`: closing a socket or cancelling a timer turns operations *under
way* into aborted completions, and cannot change a completion already *queued*.

## Runs

| run | bounds | what it shows |
|---|---|---|
| `intercept` | 3 requests; toggle, forward, drop, drop all | `IInv`: each paused session has exactly one way to be resumed. `NoOvertaking`, `DecidedOnce`, `OffReleases`, `ScreenFollowsQueue`. `ImplementsGate`: the locks and callbacks implement `InterceptGate` |
| `intercept_edit` | the same | **violated** `NeverForwardsAnothersText`: the editor is one frame behind the queue |
| `session` | 2 requests, 2 further reads | `OneTurn`, `Watched`, `StreamInOrder`, `LogShape`; `Answered` and `IdleTornDown` under fairness |
| `session_eof` | 2 requests, 3 further reads | **violated** `EmittedAtEof`: a response that ends with the connection is never logged |
| `mitm` | 3 requests, 5 further reads | `Layers`, `OneTurn`, `Watched`, `LogOnce`, `StreamInOrder`, `StaysClosed`; `TornDown` under fairness |
| `cert_cache` | 2 threads, 3 hosts, capacity 2, 3 certificates per host | `IInv` (list = map, capacity, no redundant minting), `SharedContext` |
| `feed` | 3 threads, 4 transactions of 2 kinds, 1 event posted by others | `IInv` (no lost wake-up, order), `AllShown`, `ImplementsChannel` |
| `repeater` | 3 targets, 2 texts, 3 sends | `RepeaterInv` (one send in flight, answers in order, whatever the tab does not show yet is announced), `Shown` |
| `startup` | 3 instances, 2 ports, 5 key pairs | `IInv` (`Paired`, `Alone`, `Held`), `SignsWithTheFile`, `ReplacedOnlyInRace` |
| `server` | 3 connections, 1 worker | `ServerInv` (`Listens`: the accept loop is not lost; `Quiet`: after `join()` the network thread does nothing; `OnlyHeldOutlive`), `Quits` |
| `editor` | texts up to 4 typed bytes over a letter, a blank, LF and CR; 2 documents, one with CR LF; heights 4 and 5 | `IInv` (no line end in a line; cursor, view, displayed selection in the text), `CopiesWhatIsShown`, `RoundTrip`, `ViewFollows`, `ImplementsFlatText` |
| `parser` | 2 kinds of message, up to 2 per direction, reads of every length, body limit 2 | `TakenAsSent`; `ParserInv` (`NoneLost`, `BodyBounded`) |

Why the bounds are enough. Three requests give a queue a front, a middle and a
back, and let one arrive while one is in hand and one is posted. Two requests
per connection and two further reads give every turn a predecessor whose
handlers may be late, a response in two pieces and a tunnel in both directions
(what holds of safety is proved for every number of both). Reads being bounded,
an upstream that trickles data for ever, re-arming the timer each time, is outside
`Answered`. `EmittedAtEof` takes a third read, and the TLS session, having fewer kinds of request, affords more.
Three hosts over a capacity of two make every third insertion evict. The feed
needs one transaction in each of the places queue, being drained, shown, and one
more that triggers. Three sends are one shown, one stored, one in flight. Of
three instances any two race while the third looks, and five pairs allow each to
fail once; with two ports two of them serve and the third is refused. Symmetry is used where only safety is checked (`cert_cache`,
`startup`). Three connections to the server are one being served, one held and
one arriving. The editor's steps of 10 rows, 3 rows and 4 blanks are constants,
2, 1 and 2 in the run, so that four bytes make a page, a wheel step and a tab
that reach the ends of the text and steps that do not; a click falls before, in
and behind a line. Its `VIEW` leaves out the two ends of a selection that is not
displayed: no action reads them before it sets them. A message of the parser's
run has a name and a value that a read may cut in the middle and an empty value,
the other a body that exceeds the limit; two of them in one direction are enough
for a read that holds parts of both.

`CHECK_DEADLOCK FALSE` stands only in the runs of `Session`, `MitmSession` and
`Server`: a session whose sockets are closed, and a process that has exited, have
come to their end.

### Fairness

* `Intercept`, `Session`, `MitmSession`: the executor runs a handler that is
  ready and an armed timer expires (`io_context::run` and `steady_timer` give
  this); a UI operation that began is finished and a frame that is due is drawn.
  Nothing is assumed of clients, servers, the resolver, or the user. So
  `Answered` excuses a request as long as it is held for the user.
* `Feed`: a thread that began to pull the trigger finishes; the UI loop takes its
  events first in, first out, so other events delay the `Custom` event but do not
  hold it up for ever, which is strong fairness of its handler.
* `Repeater`: the same for the UI; a worker goes on once it *has* its answer. A
  worker's network reads have no timeout, so nothing is assumed of them: a silent
  server leaves Send dead, which the code does and a hazard records.
* `Server`: a thread that can go on does (the operating system schedules both).
  Clients, the worker and the user need not: `Quits` begins where the user has
  left the UI.
* `CertCache`, `Startup`, `Editor`, `Parser`: safety only.

### Disagreements found

Two, each with its run; `PROJECT.json` quotes the sentence that disagrees:

* `intercept_edit`: Forward may send the text of another request, because the
  editor is synchronised only when a frame is drawn.
* `session_eof`: a response that ends with the connection is never emitted.

Others were met while modelling; the models do what the code does, and the
passing properties are stated so that they hold beside it:

* `enabled_` is read before the request is queued, so a request may be held just
  after interception was switched off (`Session.cpp:215`); `OffReleases` speaks
  of what the click finds.
* `handleTimeout` asks whether the response was parsed to its end, not whether
  the client has a part of it (`Session.cpp:65`): the 504 page may land in the
  middle of a relayed response, although `src/phases/phase2.md:115` says that
  responses are relayed correctly. `StreamInOrder` admits this page there, in its
  own request's answer, and no other.
* When the read of the response fails, or ends before any of it came, the client's
  connection is closed without a page (`Session.cpp:361`), where
  `src/phases/phase2.md:80` asks that the client be informed; `Answered` counts the
  request as given up.
* Two first launches at once both generate a CA, and the first may go on signing
  with a certificate that is no longer in `ca/ca.crt`, the file `App.cpp:24`
  names and `src/README.md:50` has imported. `ReplacedOnlyInRace` says that a
  whole CA is replaced in no other way, `SignsWithTheFile` is about instances
  that ran alone.
* An exception in a handler (`remote_endpoint()` in `Session::start`, `std::stoi` on
  a port) ends the network thread, and the accept loop with it, while `running_`
  stays true; `src/phases/phase2.md:34` asks for a loop that listens continuously.
  `Listens` says that the loop is lost in no other way.
* After the timeout's 504 the handler of the aborted resolve or connect writes a
  502 as well (`Session.cpp:72`, `:278`), and a failure after CONNECT's 200 logs
  the request again; `LogShape` admits a second entry after these two only, and
  `StreamInOrder` something behind a complete answer only if that is a 504.
* A timer expiry that is already queued when the timer is re-armed still runs
  (`Session.cpp:64`), so a request that has just come may get a 504 at once.
* A request with the same text for another target leaves the old target in the
  Repeater's fields (`RepeaterTab.cpp:72`).
* In the editor the release of the button never ends a selection, because the
  branch for dragging stands before it (`TextEditor.cpp:200`): the automatic copy
  on release is dead code and the selection follows every later left event.
* A read that holds the end of one message and the start of the next is merged
  or dropped (`HttpParser.cpp:199`); `tidy` says when that has happened.
* `src/phases/phase2.md:103` asks that a stop closes all active sessions; a session held
  for the user outlives even the `io_context` (`OnlyHeldOutlive`).

## Proofs

All proofs are about the modules the runs check, for all values of the
constants; assumed are only the named `ASSUME`s, which TLC evaluates.

* `InterceptInvariant`: `Spec => []IInv`. `OneWayOut` says that a paused session
  is in exactly one of queue, hand and executor, and only once. It is not
  inductive alone: `PcInv` ties the program counters to what each thread holds
  (the network thread is about to push exactly the request that is "arriving").
  `InterceptDecidedOnce` and `InterceptImplementsGate` follow step by step, the
  latter with the verdict of a session computed from where its decision is.
  `InterceptScreen` needs `Texts`: a queued request still has its own text, but
  for the front between the two halves of Forward, and whatever the UI thread has
  begun ends with a frame. `InterceptNoOvertaking` takes the line apart into what
  is posted, in hand and queued, and shows that each step moves a request over
  one border at most.
* `FeedInvariant`: with something queued, a drain is on its way. Needs
  `FlagIsBacked`: the flag is set only while an event is coming or about to be
  handled, which is where the order "clear, then drain" in `TuiApp` is used.
  `FeedImplementsChannel` follows from `InOrder`.
* `CertCacheInvariant` and `CertCacheSharesContext`: each critical section keeps
  list and map equal, using lemmas on moving to the front, dropping the last and
  their cardinalities.
* `RepeaterInvariant`: `sending` is set exactly while the last accepted send is
  unfinished, so a worker that stores its answer is always the last one;
  `Announced`: a text or answer the tab has not loaded has an event on its way or
  a worker about to post one.
* `MitmTypes`, `MitmLayers`, `MitmOneTurn`, `MitmWatched`, `MitmLogOnce`,
  `MitmStreamInOrder`, `MitmStaysClosed`: one inductive invariant, `IInv`, for
  all of them. `Places` extends `OneTurn` to pauses and handshakes; `Stages` ties
  each operation to the stage of the connection; `Transactions` says where a
  transaction is open and unanswered, which the log's order needs; `Writes` ties
  the queue's length to the stream; `Complete` says that every answer but the
  open one has its last chunk. The executor's queue is dealt with once, in
  lemmas on what completes, is taken, is started and is given up by `close()`
  (`FinishFacts`, `RanFacts`, `StartFacts`, `CloseFacts`); then each handler has
  a lemma, most of them by way of `Settled`: nothing but one operation has the
  turn.
* `SessionTypes`, `SessionOneTurn`, `SessionWatched`, `SessionStreamInOrder`,
  `SessionLogShape`: again one inductive invariant. `close()` sets no flag here, so
  handlers go on after it, and the invariant has two layers: `Core` says nothing of
  the sockets and holds whatever was closed (`CloseInner`, `FewerCore`); `Flows`
  and `Watches` speak of a connection that is still open. `Tame` says that what
  only an HTTP turn reads never waits in a tunnel, where both sides are read at
  once; `Loggable` and `Reopened` say when a second entry may follow, which is
  after a CONNECT or a 504 only; `Complete` and `InOrder` carry the stream across
  requests. Within one answer `Answers` does: the stream is `Unbroken` so far,
  what is under way (`Asking`) may add only what the stream is still `Open` for,
  and an operation that begins a request finds it `Fresh`, with no chunk of it
  written yet.
* `StartupInvariant`, `StartupSignsWithTheFile`, `StartupReplacedOnlyInRace`:
  `Paired` needs `Held` (what a process has in memory while it generates or
  loads, and which port). The other two need `Alone`, which says what the files
  hold at each stage of an instance that runs beside nobody: it entered
  `generateRootCA` because a file was missing, and until it has written both,
  they are not a pair. So a writer that finds a whole pair was not alone.
* `ServerInvariant`: `Order` ties what is still alive (flags, acceptor, objects)
  to the main thread's place. With it `Listens` is inductive: a handler of the
  accept loop ends without a new accept only when `running_` is already false.
  `Quiet` is `join()`'s return, after which no step of the network thread is left.
* `EditorInvariant`, `EditorCopiesWhatIsShown`, `EditorViewFollows`,
  `EditorRoundTrip`, `EditorImplementsFlatText`: `TypeOK` says that no line holds
  CR or LF. That is why `SetText` makes the same lines of what `GetText` returned
  (`LinesApart`, `LinesGlued`). Keys are dealt with once for all of them: each
  leaves a text, a cursor that fits it and a view that keeps up with the cursor
  (`GoodKey`). For the refinement, the bytes are those ahead of the cursor and
  those behind it, joined by the line ends (`FlatAs`); an edit changes one of the
  two at the cursor (`FlatTypes`, `FlatCuts`, `FlatErases`, `FlatGlues`), and any
  other key leaves the bytes alone (`FlatStays`).
* `ParserInvariant`, `ParserTakenAsSent`: the messages, their headers and the reads
  are of any number and length. The parser is compared with a reference: the
  request parser, fed one element of the stream at a time (`Reference`). Two
  pieces of a name, value, line or body are worth one span of both (`PiecesJoin`),
  and a span fed to both keeps them alike (`Simulates`; for a response `KeptGrows`
  bounds the copy of the body), so a parser fed reads of any length is like the
  reference fed the same elements (`FeedLike`). The reference that has read the
  stream of a message holds that message and is complete, and it is not complete
  earlier (`StreamRead`, `PartRead`). The inductive invariant `ParserIInv` adds
  `Tracks`: what was read of the current message and what is on the wire are
  together the stream of the messages not taken yet, and the parser is like the
  reference that has read the first part. `NoneLost` follows by counting ends.

Induction. The library's induction theorems take the predicate as an operator,
which the provers cannot instantiate. `SequenceLemmas` states induction over the
numbers and over sequences with the predicate as a set (`NatSetInduction`,
`SeqInduction`), from the least number of a set, and derives from it that a
function defined by recursion exists and is unique. That suffices for the
recursive functions of `Editor` (`SplitLines`, `Join`) and of `Parser` (`Spans`,
`Execute`, and `FlattenSeq` of the community modules).

Model-checked only:

* liveness (`OffReleases`, `Answered`, `IdleTornDown`, `TornDown`, `AllShown`,
  `Shown`, `Quits`): fairness and `ENABLED` are out of the prover's reach.

## Limits

* One session at a time in `Session` and `MitmSession`; several share only
  `InterceptManager` and `CertCache`, which have modules of their own with many.
* Memory lifetime is not modelled (the buffer in `MitmSession.cpp:150`). The
  exceptions that `std::stoi` and `remote_endpoint()` throw are steps of `Server`,
  not of `Session`.
* `CertCache` moves a host to the front only on the slow path; the model does the
  same, and states nothing about which host is evicted.
* `Startup` takes a file that was being written in a crash, or whose write
  failed, as unreadable. Such a CA makes every later start fail. A port stands
  for an address and a port (`--host`, `--port`); that another program holds it is
  the failure `Bind` may always end in.
* `Editor`: a column is a byte, as in the code; the focus is FTXUI's. Its
  `Render` is the drawing of rows and the selection, without colours.
* `Parser`: llhttp is external. Which bytes it accepts is not modelled, only the
  order in which it calls back and that it refuses a header without a name. What
  `feed` returns is taken to be whether a message is complete. Left out are
  llhttp's errors (after one `feed` returns false, even if the same read completed
  a message), its pause for an upgrade, and responses that end with the connection
  (`session_eof` is about those).

## Not modelled

* `ScrollableViewer`: the selection code of `TextEditor` over a text no key
  changes; the rest is scrolling and drawing.
* `HttpRequest`, `HttpResponse`, `Encoding`, `StringUtils`: functions on strings
  without state or interaction.
* `CertGenerator`: a sequence of OpenSSL calls without shared state; `CertCache`
  has its outcomes.
* `EventQueue`, `MemoryStore`: used by their unit tests only. `SqliteStore`:
  stubs.
* `HttpFormatter`, `Widgets`, the Decoder tab, `Clipboard`, `Logger`, `main`,
  `Config`: layout, input/output and constants.
* Of `ProxyTab` the live view and the clipboard buttons, of `HistoryTab` the
  details pane, of `RepeaterTab` the status line: they display what the models
  already hold.
