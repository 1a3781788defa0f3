# A verification project for linux_http_file_server

`linux_http_file_server` is a small HTTP file server for Linux, in C++: it lists
directories, serves files with chunked replies and stores files uploaded as
`multipart/form-data`. This directory holds TLA+ modules for the parts of it that
decide what happens, the TLC configurations that check them on small instances,
and proofs for TLAPS of the properties that matter most for every instance.

To check: `tlc -config X.cfg M` for each run of the table in section 4,
`tlapm M.tla` for each module `*Proofs.tla`.

## 1. The system

### Components

| component | source | state | operations | modelled in |
|---|---|---|---|---|
| thread pool | `thread_pool.*` | task queue, `running`, mutex, condition variable, 32 threads | construct, `submit`/`push`, `pop`, the worker loop, `shutdown`, destructor | `FifoPool`, `ThreadPool` |
| asynchronous logger | `async_logger.*` | message queue, `running`, log thread, `ofstream`, level | `open_file`, `log_*`/`push`, `pop`, `process_queue`, destructor, `set_level` | `LogFile`, `AsyncLogger`; levels in `Startup` |
| terminate handler | `global_terminator.*` | none | log the exception and a stack trace, `std::abort()` | `Startup` (its steps), `AsyncLogger` (what is lost of the log) |
| accept loop and sockets | `server.*`, `net_socket.h` | listening descriptor, client descriptors, the pool | `open`, `start`, the task lambda, `~Socket`, `set_http_method_callback` | `Server`; the callback in `Startup` |
| connection handler | `connection.*` | receive buffer, header parser, body buffer, descriptor | `handle`, `read_content`, `set_http_method_callback` | `Exchange`, `Connection` |
| request header parser | `http_request.*` | parser state, two temporaries, the `Request` | `parse`, `consume_one` | `RequestParser`, `RequestReading` |
| request body parser | `http_request.cpp` | none between calls | `RequestBodyParser::parse`, multipart | `Forms`, `Multipart` |
| file handlers | `main.cpp` | none of their own: the file system | `http_handler`, listing, chunked download, upload | `FileReply` (one GET), `FileStore` (all on shared files), `Browsing` (paths, links) |
| replies | `reply.*` | none | `send_all`, template page, chunk framing | `FileReply` |
| start-up | `main.cpp`, `global_config.*` | process-wide configuration, written before there are threads | argument checks, `mime.txt`, SIGPIPE, `daemon`, settings | `Startup`, `MimeTable`, `PortNumber` |
| file system operations | `filesystem_ops.*` | none | wrappers of `opendir`, `stat` | `FileReply` (`is_dir`, `is_regular_file`), `Browsing` (`walk_dir`, `get_file_extension`) |
| string utilities | `utils.*`, `str_splitter.*` | none | case, percent decoding, ports, splitting | `StrSplitter`, `Strings`, `UrlDecoding`, `PortNumber`; lower case in `RequestParser`, `MimeTable` |
| exceptions | `custom_exception.h` | none | throw macros | no behaviour of its own |

### How they interact

`main` ignores SIGPIPE, turns the process into a daemon, opens the log, sets the
configuration and calls `Server::start`, which never returns: it accepts for ever.
Each accepted descriptor is captured, as a plain `int`, in a task; one of the 32
workers of the pool pops the task, constructs a `Connection` around the descriptor
and calls `handle`. `handle` receives bytes until the header parser has a verdict,
receives and parses the body if there is one, and either answers with an error page
itself or calls back `http_handler` in `main.cpp`, which answers. The end of the
task destroys the `Connection`, whose `Socket` closes the descriptor. Every
connection serves one request. All threads log through one `Logger`; an exception
that reaches the top of a thread runs the terminate handler, which logs through it
too and aborts.

Shared state is therefore little: the task queue, the log queue (each behind one
mutex that is never held while another is taken), the kernel's table of
descriptors, and the file system, on which workers meet without any lock. The
configuration is constant once there are threads.

### What is hard about it, and what makes each part correct

- **Thread pool.** One `notify_one` per `push` while workers return from tasks, wake
  up spuriously or overtake one another; a decision to stop made of two facts; tasks
  that never return. Correct when no task is lost, repeated or reordered, no worker
  sleeps on a task, `shutdown()` drains the queue and returns.
- **Logger.** Threads log while `~Logger` runs and while another thread aborts; a
  stream that fails stays bad and nobody looks at it. Correct when the file always is
  an initial segment of what was logged, and when little, known in advance, is missing.
- **Connection.** TCP cuts the bytes anywhere; header and body share segments; the
  body's length is a `size_t` that the code subtracts from without comparing first;
  the peer may stop, close or reset anywhere and no `recv` has a timeout. Correct when
  the answer depends on the request alone and the descriptor is always closed.
- **Header parser.** State survives from piece to piece; classification of negative
  `char`s; a map that keeps the first of several entries. Correct when it accepts
  the texts of requests and nothing else, and files every byte where it belongs.
- **Accept loop.** Descriptor numbers are reused the moment they are closed, while
  tasks hold them as `int`s in a queue; descriptors run out. Correct when a task's
  descriptor is its own, none leaks, and waiting peers are accepted in the end.
- **Downloads and replies.** A path is looked at twice and opened later; it may name
  something else each time, and a file may be written while it is sent; sends are
  partial, fail between chunks, or block on a peer that does not read. Correct when
  the peer has the beginning of a well-formed reply at any time, and a reply that
  was cut does not look complete.
- **Uploads.** Two uploads of one name, or an upload and a download, meet on a file
  without a lock; opens and writes that fail are not looked at, and the answer is 200.
  Correct when an upload that nobody disturbed is stored as it was sent, and a download
  that nobody disturbed is the file.
- **Body parser.** Boundaries, quoted names, line ends next to boundaries, a body that
  stops anywhere. Correct when a form is read as the browser meant it, and no byte of
  the body is read twice.
- **Start-up.** `daemon` forks, so that no thread made before it survives, and hides
  whatever is written to stderr after it; threads read settings without a lock.
  Correct when every refusal comes before the fork, every thread and setting after it,
  and all settings before the first connection.
- **Texts.** A url is decoded, split from a root, joined again with names in links and
  with names in uploads, each time in its own way; searching and counting at the ends
  of strings.

`PROJECT.json` lists these hazards one by one under `hazards`, each at its line with
the properties that guard it.

## 2. The modules

### FifoPool, ThreadPool

`FifoPool` is the pool's promise: tasks numbered by submission start in that order,
each once, in one worker. `ThreadPool` is the code. All accesses to the queue hold
its mutex and nothing else is locked inside, so one critical section is one action.
`cv.wait` splits `TaskQueue::pop` in `PopWait` (fall asleep), `PopTake` and
`PopStop`; a woken worker goes round the `while` again. `waiting` is the set of
threads in `cv.wait`, `SpuriousWakeup` its freedom to return. `Submit` is
`submit`/`push` with `notify_one`, enabled during and after a shutdown since `push`
does not look at `running`. `Shutdown` is `shutdown`'s critical section with
`notify_all`, `JoinAll` the end of its loop of joins. A task in `Stuck` never
returns: `Connection` shows that handling a peer may indeed take for ever.

### LogFile, AsyncLogger

`LogFile` promises a file that grows by the next message or not at all.
`AsyncLogger` has the queue (as above), the log thread's loop with its local `msg`,
the stream's buffer, the stream's state and the file. `stream << msg` and
`stream.flush()` are two actions, because the process may abort between them; a
message longer than the stream's buffer may in truth reach the file with the first,
which shortens the window of loss and is left out. A thread enters the terminate
handler (`Terminate`, also while `~Logger` joins), logs from it (`Log`) and calls
`abort` (`Abort`), all of which interleaves with the log thread. `~Logger` is `Shutdown` and `JoinLogThread`.
In the daemon, `main` never returns from the accept loop, so the destructor does
not run there and the process ends by a signal or by `abort`; the destructor's code
is modelled all the same.

### Exchange, Connection

`Exchange` promises at most one answer, the one the request deserves, and one close.
`Connection` is one connection of `handle` and `read_content`. A request is a record
of the facts the code decides on: how many bytes its head has and what the parser
says at their end, how many bytes follow, what its headers say, whether its body
parses. Bytes are counted; `recv` returns any number from 1 to the buffer's size of
those that have arrived. After a reset it may return what had arrived or an error.
`Minus` is the subtraction of two `size_t`. Every return of the two functions is a
disjunct: see the comments of `RecvHeader`, `OnHeaderComplete`, `ReadContent`.

Two behaviours of the code stand out and are modelled as they are. `recv` returning
0 in `handle` is matched by no branch, so the loop calls `recv` for ever
(`RecvHeaderEof`, a step that changes nothing). And `read_content` asks for a full
buffer, so it may receive more than the body: `length` wraps and the worker waits
for bytes that never come (`ContentAccounting` says exactly when).

### RequestParser, RequestReading

`consume_one`'s `switch` is written as three tables: `Literal` (states that expect one
byte), `Ends` (the byte that ends a field) and `Field` (the bytes a state files), and
one action per way of treating a byte. `Bytes` has one member for each class of bytes
and one more for each byte the code compares with; `HI` is a byte above 127, which
`is_control_char(int)` gets as a negative number; a tab is a control byte like any other,
and a name must be followed by a colon and one blank. `headers` is the `std::map`;
`Emplaced` keeps the first entry, as `emplace` does. Since all state is in the parser, `parse` of
a piece is `consume_one` on its bytes, and the pieces do not matter here. The integer
that the digits of a version make is never read and is left out.
`RequestReading` adds a peer that sends the text of a request (`SentHead`) or whatever bytes
it likes. Of the request's lines, what stands between the colon and the line's end is the
peer's choice, as HTTP leaves it: it begins with one blank, several or none, and may hold
blanks and tabs anywhere. `Readable` says which of these lines the code takes, `AsRead` what
it makes of them; `HeadText` is the text of what was filed, with one blank behind each colon.

### Server

The accept loop, the backlog, the kernel's table of descriptors (`holder`), the
numbers captured in tasks (`clientFd`, arbitrary before they are assigned) and each
connection's progress. It is composed with the pool through the pool's promise:
`Pool == INSTANCE FifoPool`, whose actions are conjuncts of `Accept`, `Handle` and
`Return`; `ThreadPool` implements that promise (`ImplementsFifoPool`, proved). What
`Connection` shows of a connection is kept as: it ends, or it is in `StuckConns`.
`new Connection` is outside the task's `try`, so `Handle` may end the process, and so
may a failing `open`, or memory that is short for a task in the accept loop (`AcceptThrows`).

### FileReply

One GET on one worker: the two looks at the path (`IsDir`, `IsFile`), `open`, the loop
of `read` and `send_chunked_data`, the end of the chunks, and `send_all` with any
number of bytes per `send`. The file system is a path that names a file, a directory
or nothing (`Relink` changes it) and contents that may be rewritten (`Rewrite`: other
programs, or uploads by other workers); an open file stays readable when the path
names something else. `read` of a regular file returns full blocks up to its end.
A peer that closes (`closing`) makes later sends vanish until its reset has come
(`closed`), after which each send fails; the process ignores SIGPIPE.
A reply is a sequence of tokens: status line, framing header, chunk size, data bytes
(each a token of its own), CRLF. `Understand` is a client that reads them; the
properties are about what it has understood. The wording of heads and pages and the
decimal and hexadecimal digits of sizes are abstracted.

### FileStore

`http_handler` on several workers at once, with one file system among them. A request
is what the body parser leaves of it; `Names` are complete paths. A file is its size
and, for each place, who wrote the byte there: an upload writes at its own stream's
offset, so the places of an upload are fixed, and what a byte is follows from who wrote
it. `OpenToWrite` truncates. `Write` writes any number of bytes, as the stream's
buffer and the kernel may; `WriteFails` makes the stream bad, so that the rest is
dropped; `Close` is the stream's destructor at the end of the loop's body. A download
reads byte by byte until it is at the end that the file has at that moment. What
`FileReply` shows of the reply is left out here, and replies never fail.
`opener`, `length`, `alone`, `whole`, `failed` and `quiet` are history.

### StrSplitter, Strings

`StrSplitter` is the class and its one caller, `string_split_to_list`: a counting pass
to the end, the data put back, and a collecting pass, one `get_next` per step. `Multipart`
and `MimeTable` instantiate it and take its steps where the code calls the splitter, on the
headers of a part and on a line of the file. `Strings` holds `std::string::find` and the
reference definition `Split` of what the list must be; `TextLemmas` what the proofs need of
both, of texts that are cut at a byte or put together from others (what is found in
them, and where), of the splitter for any pattern, and of numbers.

### Forms, Multipart

`RequestBodyParser::parse` on a Content-Type and a body, one turn of the loop over the
parts and one `get_next` of the header splitting per step. A body is a sequence of tokens.
Dashes, CR, LF and quotation marks are tokens of their own, since boundaries and line ends may stand next to any of them; a
text that the code looks for is one token when nothing shorter can match in it.
`filename="` is three tokens, because the search for `name="` finds it too.
`spans` is history: where each part's data lie.

What comes in is either a form (`form` says which) or anything at all (`NoForm`).
`Forms` is the browser, which is external: how it writes a `Content-Type` and a body from a
boundary and a list of parts, what is meant by these (`Meant`), and how many bytes of the body
arrive before a `Content-Length` that is too small cuts it off. A part is a field or a
file, with `filename=` behind or before `name=` and the type behind or before both.
`FormsAssumption` is what browsers see to (the boundary is not in the data; no line end and no
quotation mark in a name) and one exception that the code makes (no `Content-Type:` in a name,
section 6). `OthersAssumption` says only that anything else is a sequence of strings.

### UrlDecoding, PortNumber, MimeTable

`decode_percent_encoding_url` is a recursive function over the positions of a url; beside it
stands the reference definition of decoding that it is compared with. `parse_port` is
one turn of the loop per step, in an `int` with room for `MaxInt`; the largest port is the
constant `MaxPort`, 65535 in the program. `load_mime` is one line per step, over a stream
that may fail at any read, with the table that `mime_map_add` fills and
`extension_to_mime` reads. `std::tolower` is the function `Lower`.

### Browsing

What a peer sees that follows links and uploads files: `concatenate_path`, the links
that `build_dir_list` writes, the paths that `serve_file_or_dir_list` and
`handle_upload_files` open, `walk_dir`, `get_file_extension` and the decoding of a url
that is sent back as it stands in the page. Nothing happens at the same time here;
that is `FileStore`'s and `FileReply`'s subject. The kernel's part is `Place`, with the
names in it, and `EndsInSlash`; `.`, `..` and a byte 0 in a path (`Sendable`) are left out.
A page's form posts to the url as it was decoded, which is decoded again when it comes
back (`Upload`).

### Startup

`main`, statement by statement, with what each may refuse or throw, in the process that
`daemon` leaves: the parent before `Fork`, the child after it. `daemon` is two steps,
since it may fail after the fork. `process` is what the child inherits or loses. Then
requests come and are logged, connections are closed under a `send`, and a worker may
throw, as far as that depends on what `main` has set. An exception that nobody catches
stops its own thread only: that thread enters the terminate handler (`Terminate`), logs
the report (`Report`) and lines of its stack trace (`TraceLine`), and aborts (`Abort`), while
the log thread, `main` and the other workers go on, which may throw as well. `Log`
is the filter of the levels and the queue; the lines of a trace have no level and go
past the filter (`SimpleLog`). `pushed` is the history of what has entered the queue. The pool, the accept loop and the log are reduced to
their outcomes, which the modules named above give. The port and `mime.txt` are not: `Startup`
extends `PortNumber` and `MimeTable` and takes their steps between its own.

## 3. Fairness

- Pool: every worker that can run does (`WF` of `Spawn`, `Pop`, `Finish` for each
  worker, of `JoinAll` for the owner). This is the kernel's scheduling of runnable
  threads; a thread blocked on the mutex gets it, since critical sections are short
  and do not block. There is no fairness on submitting, on shutting down, on spurious
  wakeups or on the end of stuck tasks.
- Logger: the log thread and the joining thread run. Nobody has to log, exit or crash.
- Connection: the worker runs when `recv` would not block and the callback returns.
  The peer owes nothing: it may fall silent anywhere.
- Server: the main thread and each worker run. Weak fairness of `Accept` is enough,
  although descriptors run out, because no other step makes a free descriptor
  disappear. No peer has to connect.
- FileReply: the worker runs when `send` would not block. The peer may stop reading or go
  away anywhere; `HandlerReturns` has what it may count on as its premise.
- Startup: `main` and the log thread go on. Failing calls, exceptions and peers are
  outside of the fair actions. A `main` that reads a failing `mime.txt` for ever takes
  fair steps too, so nothing is claimed of it.

`FileStore`, `RequestReading`, `Multipart` and `Browsing` are about what is stored, read
and shown; their properties are safety properties and their specifications state no
fairness.

## 4. The runs

| run | instance | what it shows |
|---|---|---|
| `thread_pool` | 3 workers, 6 tasks of which 2 never return, spurious wakeups, shutdown anywhere | `NoLostWakeup`, `DrainedWhenStopped`; `AcceptedTasksStart`: while one worker is left, every accepted task starts; `ShutdownReturns`: from any state the joins end, if tasks do; implements `FifoPool` |
| `async_logger` | 2 logging threads, 4 messages, failing stream, abort and exit anywhere | `LossIsBounded`, `NothingLostOnExit`, `MessagesReachFile`, `ExitReturns`; implements `LogFile` |
| `connection` | 126 requests, buffer of 3, limit 2, `size_t` of 4 bits | `ContentAccounting`, `WellFormedAnswered`, `GoneWhenPeerGone`, `SpinsForever`; implements `Exchange` |
| `request_reading` | a peer that sends requests (2 methods, 3 urls, 2 versions, up to 2 lines of 3 names and 7 values, 3 bodies), or any bytes (6 filed bytes, 2 header lines) | `MeansWhatWasSent`; `AcceptedIsText`, `FirstLineCounts` |
| `server` | 2 workers, 3 descriptors, 5 peers, backlog 2, the second connection stuck | `DescriptorIsOwn`, `NoLeak`, `ConnectionsEnd`, `PeersAccepted` |
| `file_reply` | a file and a directory, 6 contents of up to 3 blocks, 2 changes of the file system, buffer of 4, sends of up to 3 | `Intelligible`, `FailureIsVisible`, `DownloadIsFile`, `FileIsClosed`, `HandlerReturns` |
| `file_reply_bom` | as above, 1 change | violated: `OnlyLeadingBomSkipped` (section 6) |
| `file_reply_closed` | as above, 1 change | violated: `ErrorIsNotClosed` (section 6) |
| `file_store` | 2 workers (symmetric), 2 names, uploads of 0 to 3 bytes in up to 3 parts | `SoleUploadIsStored`, `UploadedWhenAnswered`, `QuietDownloadIsFile` |
| `multipart` | forms of one part with any data of up to 3 tokens of 5, of one or two parts with difficult names and data, each of the latter cut off anywhere; bodies of up to 6 pieces (boundary line, line end, header end, CR, dashes) in any order, under 5 Content-Types | `PartsAreRead`; `PartsWithinBody` |
| `browsing` | a tree of 4 directories with dots, percent signs and a link; 3 spellings of the root; first urls: 6 plain ones, an escaped percent sign, up to 3 bytes of 13 at the edges of the digits' classes, up to 6 of 4; uploads of 3 names, one of them ill-formed as a url and one that of the link | `PageIsOfUrl`, `UploadIsListed`, `TypeIsOfName` |
| `startup` | arguments of up to 8 characters around 65535, files of up to 2 lines of 8 kinds and of 3 lines of 4 kinds, with reads that fail anywhere; 2 pool threads, 1 request, 1 line of stack trace, every failing call and exceptions in several threads | `RefusalIsTold`, `ReadAsWritten`, `CrashIsReported`, `HandledAsConfigured`, `LogIsWritten` |

Where a module has a `TypeOK`, or a strengthening that only its proofs need (`QueueOrder`,
`ExactlyOnce`, `FileIsPrefix`, `NoSleepOnWork`, `NoGapInLastUpload`, `NoOverflow`), it is
proved (section 5) and not among the properties of the runs. For each property
`PROJECT.json` names a mutant: a plausible bug (a forgotten notification, an early
stop, a wrong end of file, ...) under which the same run finds the property violated.

### Bounds, and why they are enough

- `MaxTasks`, `MaxPushes`, `MaxConns` bound counters that only grow. Six tasks over
  three workers, two of which are lost to stuck tasks, leave one worker with tasks before,
  between and after these; four messages make the queue
  longer than the one message in hand; five connections over three descriptors reuse
  each number and exhaust them. The proofs hold for every value.
- `BufSize` 3, `MaxContent` 2 and bodies of 0 to 4 bytes put the body inside, at and
  beyond the first segment, the announced length below, at and above the bytes sent,
  and the limit on both sides; length 15 is `stoul("-1")` at four bits. Heads are of
  two bytes: split once or not. The proofs hold for every width of `size_t`.
- `MaxText` and `MaxLines` bound what is filed in a `Request`, `Texts` the bytes of which
  it consists, where the peer sends any bytes; bytes that are compared or refused are not
  bounded. Six filed bytes give each of method, url, two version numbers and one
  header name a byte and leave one; two lines of empty values are within reach, which
  is what `FirstLineCounts` needs. The peer's own requests have longer fields, and
  values that are empty, with one blank, two or none in front, with a tab at either end.
- `ReadSize` 4 is the smallest that is longer than a byte order mark, `SendSize` 3 is
  smaller than a chunk of two bytes with its framing, so that messages take several
  sends, each of any size. The contents are empty, shorter than, equal to and longer than
  a mark, and one has a mark where its second block begins. `MaxChanges` 2 lets a
  path change and come back, or change while the open file is rewritten.
- `Backlog` 2 keeps a peer waiting while descriptors are exhausted. `StuckConns` and
  `Stuck` hold one element less than there are workers: with as many, the
  server stops serving, which the liveness properties exclude by their premise.
- `MaxSize` 3 lets an upload be interrupted twice and be shorter, as long as or longer than
  the one it meets. Two workers are what two streams of one file, or a stream and a
  download, need; the proofs hold for any number. A worker that begins anew stands for
  later requests, so that there is no bound on their number.
- Texts are exhausted up to a length that is more than twice a pattern's, since what is
  decided is decided where a pattern, an escape or a line end meets an edge or
  another one. 655359 is the least `int` that `parse_port` needs: one more digit
  behind the largest port.
- Two lines show which of two entries of a key counts, the third what comes after them.
  Two directories below the root show that joining works on its own results.
- `Inputs` pairs a long argument with a file that is refused and every file with an argument
  of one digit, since the two are read one after the other and share nothing.
- With `PoolSize` 2 and `MaxRequests` 1 a worker serves, or throws, while `main`
  may throw too: two threads in the handler at the same time. One line of
  a stack trace (`MaxTraces`) can come between the reports of two threads or behind both. The
  proofs hold for any numbers.

Deadlock checking is off only where the system may rest: after `~Logger` or `abort`,
after a verdict of the parser, when a silent peer keeps its worker, when all peers
are served, when a peer has stopped reading, when a body has been parsed, when a peer has no link to
follow, after the program's end, and when a stuck task keeps `shutdown` in `join`.

## 5. What is proved

Each `*Proofs` module proves, for every value of the constants that satisfies the
module's named assumptions (finite non-empty sets of workers, natural bounds,
`RequestsAssumption`: nobody sends `2^w` bytes; `PortAssumption`: an `int` has room for
one digit more than a port; `FormsAssumption`: what browsers see to in a form), that an inductive invariant holds,
and from it the properties.

- `ThreadPoolProofs`: type correctness, `QueueOrder`, `ExactlyOnce`, `NoLostWakeup`,
  `DrainedWhenStopped` and the refinement of `FifoPool` (`PoolRefinement`). None of
  these is inductive. `NoLostWakeup` counts workers on their way to the queue against
  queued tasks, and its steps need the cardinality lemmas stated before them;
  `DrainedWhenStopped` needs that a worker leaves only when the queue holds nothing
  accepted, and that nobody sleeps after a shutdown.
- `AsyncLoggerProofs`: type correctness, `FileIsPrefix`, `LossIsBounded`,
  `NoSleepOnWork`, `NothingLostOnExit` and the refinement of `LogFile`. The invariant
  accounts for each pushed message: it is in the file, in the stream's buffer, in the
  log thread's hand or in the queue, in this order; a failed stream only loses.
- `ServingProofs`, of `Connection`: type correctness, `ContentAccounting`, `SpinsForever` and
  the refinement of `Exchange`. The invariant ties each phase to the branch conditions that led there,
  and says that a wrapped `length` exceeds the bytes still to come, so that it
  cannot come down to zero and hand the callback a body of the wrong length.
- `ServingProofs`, of `Server`: type correctness, `DescriptorIsOwn` and `NoLeak`. The
  invariant adds `TaskStates`, which relates a connection's progress with the pool's history:
  not submitted, queued, in one worker's hands, or done.
- `FileReplyProofs`: type correctness, `FileIsClosed`, `Intelligible`, `FailureIsVisible`
  and `DownloadIsFile`. The first invariant says in which statements a file is open, that
  `send_all` is only inside the statements that call it, and that an exception ends the
  handler; types need that no message is empty when `send_all` begins, and that a
  directory's page is built before its head is sent. The second says, statement by
  statement, what a reader of all that is on the wire and still in `send_all`'s hands
  has understood: so a cut between any two bytes leaves the beginning of one reply, and only the
  last chunk makes it complete. `DownloadIsFile` adds that the reader's body is what is to be
  kept of the file up to `pos`, which is at a block's end whenever `read` is called.
- `FilesProofs`, of `FileStore`: type correctness, `SoleUploadIsStored`, `NoGapInLastUpload`,
  `QuietDownloadIsFile` and `UploadedWhenAnswered`, for any number of workers. None is
  inductive. `WorkerOK` says what a worker's program counter tells of its part and offset;
  `FileOK` what is true of a file at any moment while its last opener still writes: the places
  up to its offset are filled, and are its own if it was alone; `DownloadOK` that a
  download with no upload about has read what is still there; `UploadOK` that of each part a
  worker is through with, the file is there, or a failure has been noted. That the opener is
  a worker and not an upload needs that its next open replaces the history.
- `FilesProofs`, of `Browsing`: `PageIsOfUrl`, `UploadIsListed` and `TypeIsOfName`, for every
  root, tree, url and name. The invariant (`BrowsingInv`) says that the page is what the
  url and the tree make of it, and that a url put together from links without percent signs
  leads to where their names do (`PlainArrives`). Three facts about the operators carry it:
  `concatenate_path` concatenates the names of its paths, with or without slashes
  at the seam (`ConcatIs`); the decoder returns exactly what the reference definition
  says and refuses exactly what is not well formed (`DecodingOf`); and the extension of a
  path is that of its last name when no other name has a dot (`ExtensionOfName`).
- `StartupProofs`: `RefusalIsTold`, `HandledAsConfigured`, `CrashIsReported`, `NoOverflow` of
  the port and `ReadAsWritten`, for every argument, file, number of workers and of requests. The
  invariant says what `main` has set by where it is (`Order`), who can still be told (`Told`),
  and that the number is less than ten ports and a digit (`Port`). `CrashIsReported` is not
  inductive: it needs that a thread in the handler past its report has put one into the queue,
  which the level cannot have dropped, and that in front of each line of a trace in the queue
  there is a report, in the queue or, if the stream is open, in the file already (`Reports`),
  as the queue is taken in its order. `ReadAsWritten` needs that
  the number is the value of the digits so far (`Digits`); that what the splitter has
  collected, with the pieces from its position on, is what `Split` gives (`SplitterOK`); and
  that the table holds, of the lines read, the first of each key (`Table`).
- `RequestReadingProofs`: type correctness (names have token characters only),
  `FirstLineCounts`, `AcceptedIsText` and `MeansWhatWasSent`, for all requests and all other
  bytes. `EndLine` is the only step that disturbs `FirstLineCounts`; a line that was filed
  before keeps its entry since `Emplaced` does. For `AcceptedIsText` the invariant says,
  state by state, that the bytes consumed are the text of what has been filed and of what is
  still in the temporaries (`Consumed`); for `MeansWhatWasSent`, that they are the beginning of
  the sent request's text, that what is filed agrees up to there with that request as it is
  read (`InStep`), and that the parser can only stop at a line that is not `Readable`
  (`StopsAtLine`). What the peer's names and values consist of is `WordsAssumption`: all that
  HTTP allows there.
- `RequestReadingProofs`, of `Multipart`: `PartsWithinBody`, for every Content-Type and body.
  The invariant (`WithinBody`) adds that the loop stands behind the boundary line that ends the
  last part (`Behind`), without which the next part could begin inside of it, and what the
  splitter of the headers has counted or collected (`Splits`, for a pattern of any
  length). That no part holds a boundary line is `PartIsWithin`: one inside the data would
  have been found as the next one (`OccursInPart`).
- `RequestReadingProofs`, of `Multipart`: `PartsAreRead`, for every form, cut off anywhere. It is
  not inductive, as it says nothing of where the loop stands. The invariant (`ReadsForm`) says
  that what has been read are the form's first parts as they are meant (`AsMeant`); that the
  loop stands behind the boundary line with which the form's text from the next part on
  begins (`AtPart`); and that a whole form is not refused. Its step needs these facts about the
  text of a form: the first header end and the next boundary line that are found are the
  part's own, although the data may have line ends and dashes next to either
  (`HeaderEndPlace`, `NextPlace`); a part is found when it and the boundary line behind it have
  arrived, and only then (`TurnIs`), and none behind the closing line (`NoPartBehind`); the
  header is split into its lines and read as it is meant, wherever the filename stands
  (`HeaderIs`); the data end before their line ends (`StrippedIs`); and only the last part is
  taken for the last (`NotLast`).

What a recursive function or a fold computes for every input is proved here without the
library's induction theorems, which take an operator as a parameter that none of the
installed provers can instantiate: `TextLemmas` derives induction for a set of numbers
from the least number of a set (`SetInduction`), and the existence of each such function from
it.

Only model-checked: all liveness properties (`ShutdownReturns`, `AcceptedTasksStart`,
`MessagesReachFile`, `ExitReturns`, `WellFormedAnswered`, `GoneWhenPeerGone`,
`ConnectionsEnd`, `PeersAccepted`, `HandlerReturns`, `LogIsWritten`), which are out of the
prover's reach. All other properties that a passing run checks are theorems.

## 6. What the project shows of the code

- The synchronisation of the pool and of the logger is right, including the one
  notification per push and the shutdowns.
- A connection's answer does not depend on segmentation. Two things depend on the
  peer: bytes beyond `Content-Length` make the worker wait until the peer goes,
  and an end of stream inside the header makes it spin until the process ends
  (`SpinsForever`), which costs one of the 32 workers for good, each time.
- Two things that HTTP allows in a header line are refused with 400: a value that does not
  have a blank right behind the colon (`Name:value`, or an empty value with no blank), and
  a tab in a value. All other requests are read as they were sent, except that of the blanks
  around a value only the first is taken away (`MeansWhatWasSent`). Folded lines, which
  HTTP no longer allows, are not in the model.
- Before the program is aborted, the terminate handler has logged a report (`CrashIsReported`),
  but `abort` does not wait for the log thread: the report, like any message still in the
  queue, may never reach the file (`LossIsBounded`).
- A reply that fails midway can always be told from a complete one, a download is the
  file block by block, and its file is closed on each return (not when making a chunk
  throws: `file_fd` is then lost).
- The comment at `main.cpp:211` says that a byte order mark at a file's start is
  skipped. The code looks for it in each block of 8192 bytes, so a file that has
  the bytes EF BB BF at a multiple of 8192 loses them, in a download that looks
  complete (`file_reply_bom`).
- `reply.h:41` says that `send_all` returns 0 when the connection is closed. It then
  returns -1, and never 0, so that the branch at `main.cpp:227` is never taken
  (`file_reply_closed`).
- The server survives the exhaustion of descriptors, but as many connections without
  end as there are workers stop it.
- An upload that meets no other one of its name is stored as it was sent. Uploads of one
  name that overlap may leave a mixture of both, or bytes of the first behind a gap of zeros
  behind the second. Each is answered with 200, as is one that could not be stored
  (`UploadedWhenAnswered` needs `failed`). A download that meets an upload may be cut
  or mixed.
- A form is read as browsers mean it, with these exceptions, which `Multipart` shows as
  the code has them: all CR and LF at the end of a file's data are dropped; a boundary in
  quotation marks is refused; when `filename=` comes before `name=`, the name is the
  filename; a header line with `Content-Type:` inside a filename is taken for the type. A
  body that was cut keeps the parts before the cut.
- Decoding, splitting and the port are right at their edges. An empty port argument is 0.
- A read error in `mime.txt` makes the program hang in the foreground (`GetLineAgain`); it
  never serves with half a table. A line with a CR alone refuses the whole file.
- Links lead where they should, except for names with a percent sign, since links are not
  encoded. Worse, a page's form holds the decoded url, so that an upload from the page of
  `/%2561` goes to `/a`, or is refused. Symbolic links are served and not listed, and an upload
  under the name of one is stored where it leads. A dot in the root's or a directory's
  name spoils the types of all files below (`TypeIsOfName` has that premise), since the
  extension begins at the first dot of the path.
- The steps of `main` are in a right order. It has to be this one: `debug_mime` before
  `daemon`, for instance, would leave the log thread in the parent. The shell is told of
  success before the address is bound, so an address in use shows only in the log; an
  exception of `Logger()` itself, before `set_terminate`, shows nowhere. The default level `info`
  would hide warnings, as `warn` stands below it in the enumeration.

## 7. Plan

Done: `FifoPool`/`ThreadPool`, `LogFile`/`AsyncLogger`, `Exchange`/`Connection`, `Server`
on `FifoPool`, `RequestParser`/`RequestReading`, `FileReply`, `FileStore`, `Multipart` (with `Forms`) and
`MimeTable` on `StrSplitter`, `Browsing` on `UrlDecoding`, `Startup` on `PortNumber` and
`MimeTable`, and eight proof modules. Left out: the composition of `Server` with
`Connection`s in place of the one word "handling". Connections share nothing but
descriptors and workers, which `Server` has, and what they do in a worker's hands ends in the
same two ways (it ends, or it never does); a `Connection` for each descriptor is beyond what
TLC can enumerate.

### Not modelled

The text of log messages and pages and the clock (`str_format`, `get_current_time`,
`file_size_to_str`, `http_status_code_str`), which decide nothing; what nothing uses
(`reverse_string`, `build_upload_success_page`, `debug_mime`, `set_max_content_length`, the move operations of
`Socket` and `WalkDirHandle`); the wrappers of `opendir` and `stat`, which are the
kernel's answer; `custom_exception.h`, whose effect (which `catch` sees what) is in
`Connection`, `Server` and `Startup`. An exception of logging itself (no memory for a
message, inside the terminate handler or anywhere else) is left out as well.
