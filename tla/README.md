# A TLA+ model of rupicola-go

rupicola is a server that runs configured commands on JSON-RPC requests. A
request comes in over HTTP (TCP, TLS or a Unix socket), names a method, and the
standard output of the method's command is the answer. These modules model its
concurrent core: one request from its HTTP handler to the child process, the
decisions on whether it runs and with which arguments, the processes that
compete for one Unix socket, and one process from the files of its
configuration over its bind points to its end.

## The system

| Part | Code | State | Operations | Talks to |
|---|---|---|---|---|
| Startup | `cmd/rupicola/main.go`, `rupicola.go`, `processor.go` | configuration, failure channel | read the configuration, add the methods, one goroutine per bind point, exit on the first failure or on a signal | Bind, Methods |
| Bind and socket lock | `bind.go`, `filelock.go` | listener, lock file and its POSIX lock, socket, umask | `ListenUnixLock`, `Close`, chown, serve | file system, other server processes |
| HTTP entry | `utils.go` | none of its own | method, size and URI checks, authorization, choice of the responser, flush after each write of a stream | Request |
| Request | `rupicolarpc/rupicolarpc.go` | parsed request, `f.err`, `f.done`, context | `readFromTransport`, `process`, `Close`, `SetResponseError`, `SetResponseResult` | Responser, Invoke |
| Responsers | `rpcresponse.go`, `legacystreaming.go`, `streaming.go`, `respones.go` | id, limit, buffer, flags | `Write`, `SetResponse*`, `MaxResponse`, `Flush`, `Close` | `http.ResponseWriter` |
| Invoke | `rpcmethod.go` | child process, pipe, base64 encoder | start the command, copy its output, wait for it | child, Request |
| Methods | `rupicolarpc.go`, `processor.go` | method table, limits | `AddMethod`, lookup | Request |
| Parameters | `config.go` | none | `CheckParams`, `evalueateArgs`, `Validate` | Invoke |
| Configuration | `config/config.go`, `config.go` | merged map, stack of files | `Load`, `ReadConfig` | Startup |

One request runs in up to four goroutines of the program. The *handler* is the
goroutine of net/http in `ProcessContext`. It starts the *invoker*, waits for
it or for the context, and closes the responser. The invoker runs
`MethodDef.Invoke` and copies the answer into the responser. Invoke starts the
*copier*, which copies the child's stdout into an `io.Pipe` and then waits for
the child. A plain RPC answer also gets the *flusher*, a ten second timer.
Handler and invoker share `f.err` and the responser without a lock; the context
and `f.done` are all that orders them.

What is hard in this code, and what `hazards` in PROJECT.json lists line by line:

* the deadline, the end of the child, the client's disconnect and the grace
  period of 500 ms race with each other and with writes to shared state;
* a failed copy leaves the other end of a pipe to itself;
* descendants of the child may keep its stdout open after it has exited;
* an error must replace a plain answer that is under way, and must end a
  stream exactly once, whichever goroutine reports it;
* lines cut anywhere, and limits met anywhere, the last frame included;
* Go visits a map in any order, and `CheckParams` returns from the middle of one;
* the binds of one process share its umask, its POSIX locks and its end: the
  first failure exits while the others start, serve or clean up;
* a configuration is spread over files that include each other, and what is
  wrong with one decides the start after others have been merged;
* processes killed at any point of their start leave lock files and sockets,
  and the lock file's name and its lock can come apart.

What makes each part correct:

* Request: it ends; exactly one answer, consistent with `f.err`; only one
  goroutine at a time uses the responser, and none after the handler returned.
* Invoke: all output arrives, once and in order; an exit status is not lost; a
  child is reaped.
* Responsers: a plain answer leaves in one piece; a stream is header, lines,
  one footer or error; limits are kept.
* HTTP entry and parameters: no command runs for a client without the right to
  it or with a parameter that was not checked; given values reach the command line.
* Socket lock: one holder; nobody loses its socket; leftovers do not matter.
* Startup: a bind's socket is its own, with the mode it asks for; a failure or a
  signal ends all; a sane configuration serves.
* Configuration: every required file is in; nothing said gets lost but to a later
  file; a method's limits are its own; loading ends in a decision.

## Modules

| Module | Models | Extends |
|---|---|---|
| `Responser` | the three responsers and the limiter, as operators on a record | |
| `Request` | handler, invoker, copier, flusher, child, client, clock | `Responser` |
| `MCRequest` | the requests and outputs that TLC considers | `Request` |
| `Answer` | what an answer promises its client (abstract) | |
| `SequenceLemmas` | induction with sets instead of operators; what flattening does | |
| `RequestProofs` | what the operators of `Responser` return; theorems about who uses the responser when, and in what order | `Request` |
| `ContentProofs` | theorems about what an answer holds | `RequestProofs`, `SequenceLemmas` |
| `LimitProofs` | the theorem about the limit of an answer | `ContentProofs` |
| `PromiseProofs` | the theorem that `Request` implements `Answer` | `LimitProofs` |
| `OneServer` | what the lock file promises (abstract) | |
| `SocketLock` | start, failure, signal and death of servers of one Unix socket | |
| `MCSocketLock` | three or two processes | `SocketLock` |
| `SocketLockProofs` | theorems about `SocketLock` | `SocketLock` |
| `Call` | `ServeHTTP`, parsing, method lookup, authorization, parameters, arguments | |
| `MCCall` | the requests and methods that TLC considers | `Call` |
| `CallProofs` | theorems about `Call` | `Call` |
| `ConfigLoad` | `config.Load`: includes, `searchFiles`, the stack, the merge | |
| `Startup` | the binds of one process, its first failure, its signal handler | |
| `Main` | `main` and `ReadConfig`: what the files make of the start, the binds and the limits | `ConfigLoad`, `Startup` |
| `MCMain` | the files, binds and worlds that TLC considers | `Main` |
| `MainProofs` | theorems about `Startup`, `ConfigLoad` and `Main` | `Main`, `SequenceLemmas` |

### Responser

A record holds what the Go structs hold: the id, the limiter's `N` (`room`),
the sticky error of `json.Encoder`, the buffer, the flags, and `wire`, the
frames that reached the `http.ResponseWriter`. Each method of the code is an
operator that returns the new record and the error. Whether the transport takes
a write is an argument, `up`, that the calling action chooses.

Abstractions: a byte of output is its position in the output, so that loss,
duplication and reordering show. A byte 0 stands for a letter of the library's
own texts. JSON adds a fixed `Envelope` to a frame. Raw bytes carry no
boundaries (`Join`). A frame keeps the code of an error by name; errors that are
not the library's own become `InternalError`, as in `NewErrorEx`.
A newline is a position of the output like any other, so a line may be empty and a
write may be a newline only; a line's frame keeps it in `body` and says so in `nl`,
and what is sent and counted is `Content`, without it. Chunk mode of the stream is
left out: the only caller of `newStreamingResponse` passes 0.

### Request

`h`, `inv`, `cp` and `timer` say where each goroutine is; `rsp`, `err`, `ctx`
are what they share; `hand`, `enc`, `chunk`, `pw`, `child` are the bytes under
way. An action is one access of shared state:

| Code | Actions |
|---|---|
| `readFromTransport` | `ReadFromTransport` |
| `process` | `Process`, `SelectTimeout`, `SelectDone`, `CheckErr`, `GraceDone`, `GraceTimer` |
| `jsonRPCrequestPriv.Close` | `CloseBranch`, `CloseError`, `CloseEnd` |
| `MethodDef.Invoke`, up to its return | `Invoke`, `DeferFlush` |
| `SetResponseError`, `SetResponseResult` | `Deliver`, then `SetResponseError`, `SetResponseResult` or the copy |
| `io.Copy` into the responser | `ReadPipe`, `CheckWrite`, `PutPiece`, `ReadEnd` |
| `defer close(f.done)` | `CloseDone` |
| the flush goroutine | `Flush` |
| the copier | `WakeUp`, `CopyChunk`, `WriteRejected`, `StdoutEnd`, `Wait` |
| `exec.CommandContext`, net/http, child, client | `Kill`, `Deadline`, `Cancel`, `Emit`, `Exit`, `CloseStdout`, `Stall`, `Disconnect` |

A *setup* is a request with the configuration of its method. Its `fault` names
the step that fails before the child runs. Abstractions beside the data: a
write of a responser is one step once it has been let through, and for a stream one
step for each line of it (`Portion`, `First`), since each line is a write of its own to
the transport; the copier reads any part of what the child has written, before, behind
or across newlines; the child's stdout has no
capacity, and a descendant writes until the pipe's reader is closed by `Wait`; the base64
encoder turns groups of three bytes into four characters (`Encoded`), which from there
on are what is carried, limited and counted, as in the limiter (the code writes a group
that it completes apart from the rest of the same write; the model has that as a shorter
read of the copier); after the client has gone, and after
`ServeHTTP` has ended, a write may succeed or fail.

A client that stays connected and reads no more is `stalled`: a step that would
send something to it does not happen (`Unblocked`), which holds the goroutine
of the code in its write. On a Unix bind this may last for ever. On a TCP bind the
write deadline of `utils.go` ends it, and the model has that, as the disconnect of any
such client, as `Disconnect`, which is possible and not owed. A client that only pauses
is a slow step.

An invoker that outlives the grace period goes on using the responser of a
request that is over. What a write does then is undefined in net/http. The
model keeps the invoker going (`left = "forced"`), lets its writes succeed or
fail, and has the panic of `NewErrorEx(nil)` as a state of the handler;
most properties leave these requests out, and `CloseRunsAlone` and
`ResponserSettles` say that there is no other way to get there.

### Answer

The abstract specification of a request: a counter of what the method has
written, what of it the client has got, and how the answer has ended. There are
no responsers, pipes, goroutines or limits. An answer is a prefix of the output
that only grows; it ends once; it ends in success only with the whole output
of a method that did well, unless the deadline or the client has cut it short. `Promise`
in `Request` is the mapping: `got` is the output in the frames on the
wire (`OutputIn`, which leaves out frames of the library's own text), `end` is read off the last frame (for the legacy stream, which has no
frames, off `f.err` when `ServeHTTP` has returned), `written` is the child's
output, in base64 the characters of its whole groups (see `base64_tail`). The abstract
`Forsake` allows everything once the grace period ran out, because so
does net/http.

### SocketLock

The lock file is a name (`lockPath`) for an inode; locks belong to inodes and
die with their process. `CreateLockFile`, `SetLock`, `StatSocket`,
`RemoveLeftovers` and `Listen` are the system calls of `ListenUnixLock`, in its
order; `Chown` and `ServeFails` the rest of `Bind`; `CloseListener`,
`RemoveLockFile` and `CloseLockFile` those of its deferred `Close`. `Kill` may
come at any point, and `HandleSignal` removes the socket before `SignalExit`,
while `Bind` runs on. `mode` says which of these can happen in a behaviour:
processes overlap or not, and end by SIGKILL, by a signal or by a failure.

`OneServer` is the abstract specification: one holder, and a socket that only
the holder puts up or takes away, or anybody when there is no holder. `Abstract`
maps it: `holding` are the processes past `SetLock`, and the steps on the lock file's
name are stutters.

### Call

One request, sequentially: `ServeHTTP`, `ReadFrom` and `FindMethod` (`isValid` and
the method table) decide up to the invocation; `Authorize`, `CheckParam`,
`CheckEnd` and `EvalueateArgs` are `prepareCommand`. `CheckParam` is one turn of
the range over `m.Params` and takes any parameter not yet visited, which is what
Go promises of a map. This module says when the faults of a `Request`'s setup
happen: `unauthorized` and the parse errors are its transport faults, refusals
and the panic those of `Invoke`.

Abstractions: a value is its kind and whether the client or a default gave it.
An argument is the preorder sequence of the nodes of its tree, which is the order
in which `evalueateArgs` writes them; a list node has the empty name, as
`m.Param` of a list has, so a parameter named `""` is written for it. Whether any
node skips decides for the whole argument, so nesting is not needed beyond the
sequence. A method passes `Validate` (`CallAssumption`). Passwords, addresses
and JSON are outcomes in `Entry` and `Body`. An unauthorized client is refused in
`ServeHTTP`; the code does it when the reader it sets up there is read.

### ConfigLoad

A name stands for a mapping, a scalar or a list (what the three `Unmarshal`s try),
for a directory, or for what makes a read fail or panic. `LoadFile` is
one turn of the loop of `Load` that goes well: the includes are searched and
pushed, and the mapping is merged into the root. The other turns are `ReadFails`,
`ParsePanics` and `IncludeFails`. `Refusal` is `searchFiles`' error, or its
panic on the nil `FileInfo` when `os.Stat` fails with anything but "not exist".

Abstractions: a mapping is a function from key paths to leaves, without its empty
mappings; an include is the set of what Go may take of its entry, since an entry
with several keys gives any one of them; a `value` that is no list has no
includes, as `Array(nil)` of a scalar or a mapping is nil. `loaded` is a history.

### Startup

| Code | Actions |
|---|---|
| `ListenAndServe` | `Spawn`, `Receive` |
| `Bind.Bind`, HTTP and HTTPS | `ListenTCP`, `ServeTLS` |
| `Bind.Bind`, Unix | `SetMask`, `RestoreMask`, `Chown`, and of `ListenUnixLock` `Lock`, `StatSocket`, `RemoveLeftovers`, `ListenUnix` |
| the end of a bind | `ServeFails`, `Close` |
| `registerCleanupAtExit` | `Signal`, `CleanUp`, `ExitSignaled` |
| `main` after a failure | `ExitFailed` |

A goroutine's steps are those at which it touches what all share: the umask, the
names of sockets, locks and listeners. A `world` is what the process finds, and
what can go wrong for it. The lock file is one step here, because
`SocketLock` has it in detail: other processes are in `world.taken`, which never
changes. `Lock` succeeds for a second bind of the same process, as POSIX
locks do.

### Main

The composition. `LoadFiles` is `ConfigLoad`; `Refuse`, `Panic` and
`ListenAndServe` are `main` with the configuration that came of it: what
`ReadConfig`, `main`, `SetLogging` and `http.ServeMux` ask for, the binds with
their types and modes (`shamefullFileModeFix` with its ignored error), and
`table`, the limits each method gets. Then `Startup` runs. `table` is where this model meets
`Request`: a `Setup`'s `limit` is a method's `size`, and its
`timeout` says whether the method's `timeout` is above 0.

Left out of `ReadConfig`: what is only passed on to other components (encoding,
delay, run-as, users, texts).

## Runs

| Run | Shows | Bounds |
|---|---|---|
| `request_safety` | types, exclusive use of the responser, completeness, that no part is given for the whole, one answer, order and lines of streams, limits, and that `Request` implements `Answer` | 91 setups, four bytes of output, newlines the second and third (3.2 million states) |
| `request_live` | requests end unless their client reads no more; children are reaped | 12 setups, two bytes (200 000 states) |
| `child_leak` | *violated*: a child nobody waits for | plain requests with and without a limit |
| `base64_tail` | *violated*: the end of a base64 answer is lost | base64, four bytes |
| `stream_unterminated` | *violated*: a stream without a footer or an error | streams with limits |
| `socket_lock` | exclusion, reachability, recovery from leftovers, and that `SocketLock` implements `OneServer` | three processes, four inodes |
| `lock_unlinked` | *violated*: `Close` lets two processes hold the lock | two processes that may fail |
| `call` | who may run what, what is refused, what the arguments are | every entry and body with a bare method; every presence and kind of three parameters with three methods (9 000 states) |
| `params_unchecked` | *violated*: a required parameter that nobody checked | the three-parameter methods |
| `startup` | required files, what a merge keeps, limits, own sockets, the umask of one bind; a start is decided, a failure or a signal ends all, a sane configuration serves | 37 disks of four files and a directory, up to four binds, seven loads, nine permission bits, six worlds (120 000 states) |
| `umask_race` | *violated*: a Unix bind whose socket has the mode of another | one disk with two Unix binds |
| `documented_limits` | *violated*: a method whose limit is not the documented one | one disk with limits in two files and in the limits section |

Why the bounds are enough: four bytes of which the second and third are newlines make
a full line, an empty line and an unfinished one, cut at every place: a newline with
its line, alone behind a buffered start, alone behind another newline, and two of them
in one write; in base64, one full group and a rest. Limits 0, 2, 4 and 7 are none, one
that the first line exceeds, one that a plain answer of four bytes meets and a stream
exceeds in its frames, and one that a stream exceeds with its last frame. Base64 meets
0, 3 and 4: the one group has four characters, which 3 refuses although it has three bytes, and 4
takes; a stream in base64 holds them back without a limit, and sends them at the end or
before an error. Every fault occurs with
every responser and with and without an id. Liveness needs neither content nor
line structure, only who can block whom: two bytes fill the pipe and leave one
behind. `MaxInt64` is any number no output reaches. Three processes let one
crash, one hold the lock and one wait; an inode more than processes always leaves
one for a new file.

In `call`, decisions depend on one parameter at a time and on the order of two:
three parameters, of all types, required and optional, give every order of a
missing, a wrong and a good one, and the arguments hold each kind of node alone
and in lists.

In `startup`, every disk meets a world in which nothing goes wrong, and a few
disks, with each kind of bind alone and mixed, meet every world (`Scenes`): what the files
say decides up to `ListenAndServe`, what the process meets decides after it, and only the
list of binds passes from one to the other. The disks have each way to include,
each kind of bad file behind an optional and a required include, a cycle and a
diamond. Seven loads are more than any disk without a cycle asks for; with a
cycle the bound is met, and `StartDecided` claims nothing. Nine bits are the
permissions of a file.

`CHECK_DEADLOCK FALSE` is set everywhere: a request ends, servers may all
be dead for ever, and a server without surprises serves for ever.

The violated runs are disagreements with what the code's own comments or the
README say; `findings` in PROJECT.json quotes them. `documented_limits` shows two, either of
which a state of its counterexample refutes: README line 42 has the first definition of
anything win, where `mergeMap` takes the later one, appends lists, and lets a key without
a value replace a whole section; and lines 129 and 178 have the limits section set the
defaults of the methods, which reads it (`config.go`) and never gets it
(`processor.go`). `SettingsKept` and `OwnLimit` therefore say only what neither reading
touches: that nothing said by one file alone gets lost, and that no method gets another's limit.
`stream_unterminated` shows two as well: a stream without an end, and a limit that
counts the JSON wrapping, which the comment of `MaxSize` excludes: its property is about
streams whose output alone is within the limit.

Other disagreements have no run of their own:

* README line 180 has `private` force local access; `prepareCommand` lets an authorized
  client run a private method from anywhere, and `private` only lets local clients in
  without a login, as README line 12 has it. `OnlyEntitledRun` states the code's rule;
* a request past its deadline is not always told of it: the invoker replaces
  `ErrTimeout` in `f.err` by its own outcome, mostly the exit error of the killed
  child, and a deadline just before the test in `SetResponseResult` can leave no error
  at all and an answer without output. `PartIsNoSuccess` states what remains, that a part of an output
  is never given for the whole;
* README lines 188-190 leave out the arguments of a
  missing optional parameter, while the code passes them with a default value, or
  empty, and keeps or drops a phantom's argument by the order of the map (`CheckParam`);
* README line 43 says that the depth of includes is limited to 10; `Load` has
  no limit, and a cycle never ends;
* `-config` with a directory fails: only includes are searched for `.conf` files.

Two things the liveness
properties leave out on purpose: `EndOfOutputEndsRequest` is about requests without base64,
because `writerEncoder.Close` may wait in `Invoke` for a reader that
only comes after it, and `ReapedUnlessCut` about requests that nothing cuts
short, because of the leak. All three let a client that reads no more off: on a Unix
bind it keeps the handler in its write, with or without a deadline.

Fairness: weak fairness of the handler, the invoker, the copier and the flusher
each (the Go scheduler runs a goroutine that can run), of `Kill` and `Cancel`
(the runtime's own goroutines deliver them) and of `Deadline` (a timer
expires). The child owes nothing: it may run, keep silent or keep writing for
ever, so there is none for `Emit`, `Exit` and `CloseStdout`; nor does the client for `Stall` and `Disconnect`. In
`SocketLock`, a process that can take its next step takes it; starts, kills,
signals and failures are never owed. In `Main`, `main` up to `ListenAndServe`,
its receive and exit, and the signal handler are weakly fair each. So is some step
of some bind: one weak fairness for all is enough, as each bind has finitely many steps before it
serves or has failed. Signals and failures of `Serve` are not owed.

## Proofs

TLAPS proves, for every value of the constants (setups, output, lines, limits,
servers, configurations and requests):

| Theorem | Statement | Argument |
|---|---|---|
| `CloseIsAlone` | `Spec => []CloseRunsAlone` | the invariant `Control` ties where the handler is to where the invoker is: the handler leaves the wait with `left = "done"` only when the invoker has exited, and with an error it waits |
| `NothingAfterReturn` | `Spec => ResponserSettles` | from `Control`: every step that changes the responser needs a handler that has not returned or an invoker that has not exited |
| `TypeCorrect` | `Spec => []TypeOK` | each operator of `Responser` returns a `Record`, by a lemma for each; the room stays natural because a write that does not fit is refused |
| `AnswerInOnePiece` | `Spec => RpcWireAtClose` | every step but `CloseEnd` is *quiet* for a plain responser (`QuietStep`), from the lemmas that no operator but `CloseRpc` lengthens its wire; a returned handler stays returned |
| `OnlyFailureStrands` | `Spec => []StrandedNeedsFailure` | an inductive invariant relating the copier's pending write to why the invoker stopped reading |
| `SocketTypes` | `Spec => []TypeOK` | action by action |
| `Exclusion` | `Spec => []OneHolder` | below |
| `Reachability` | `Spec => []ServerReachable` | below |
| `LeftoversDoNoHarm` | `Spec => StartSucceedsAlone` | the lock of a process that is alone is free, and `StatSocket` has seen the socket it removes |
| `EntitledOnly` | `Spec => []OnlyEntitledRun` | `Gates`: whoever gets past a decision has what it asks for, up to the end |
| `CompleteIsChecked` | `Spec => []CheckedWhenComplete` | `Visited`: until the loop ends the parameters are the given ones and those visited are good; it ends early only over a missing optional one |
| `RefusalHasReason` | `Spec => []RefusedForAReason` | from `Visited` |
| `StreamsInOrder` | `Spec => []StreamOrder` | below |
| `OneAnswer` | `Spec => []OneRpcAnswer` | below |
| `NothingIsLost` | `Spec => []NothingLostInTransit` | below |
| `OutputInLines` | `Spec => []StreamLines` | below |
| `SuccessHasAll` | `Spec => []SuccessIsComplete` | below |
| `LimitHolds` | `Spec => []WithinLimit` | below |
| `AnswerRefinement` | `Spec => AnswerAsPromised` | below |
| `CallTypes` | `Spec => []TypeOK` | action by action |
| `GivenReach` | `Spec => []GivenValuesReachCommand` | the arguments are the flattened lists of those that are not skipped, and an argument with a given value is not |
| `SocketRefinement` | `Spec => OneServerAtATime` | from the invariant of `Exclusion`: each step is one of `OneServer` or leaves its variables alone |
| `StartTypes` | `StartSpec => []StartTypeOK` | action by action |
| `MaskKept` | `StartSpec => []OneBindKeepsMask` | `MaskInv`: while the one Unix bind is between its two calls of umask, `saved` is the mask the process began with |
| `OwnSocketKept` | `StartSpec => []OwnSocket` | below |
| `PartsOfMain` | `Spec => StartSpec /\ LoadSpec` | a step of `Main` is a step of one part and a stutter of the other |
| `MainKeepsSockets`, `MainKeepsMask` | the two above for `Main` | from `PartsOfMain` |
| `LimitsAreOwn` | `Spec => []OwnLimit` | below |
| `MainTypes` | `Spec => []TypeOK` | from the types of the parts and of the configuration's scalars |
| `RequiredLoaded` | `LoadSpec => []RequiredPresent` | below |
| `SettingsStay` | `LoadSpec => []SettingsKept` | below |

The socket lock's invariant is `TypeOK /\ Apart /\ Locks /\ Listeners /\ Sockets`.
`OneHolder` alone is not inductive: two processes may hold the locks of two
inodes. `Apart` says that overlapping processes have the same inode open, the
one the name stands for; `Locks` that whoever is past `SetLock` owns the lock of
the inode it has open; `Listeners` and `Sockets` that the socket in the file
system is the one the holder listens on. `Apart` needs the assumption of these
theorems, `\A m \in Modes : Orderly(m)`: processes that overlap end by SIGKILL
only. `lock_unlinked` shows what happens without it: `Close` removes the name.

`StreamOrder` is not inductive because the wire alone does not tell what the next write may
be. `StreamInv` adds to it what the fields of a streaming responser say of the wire
(`Ordered`): nothing is on it while `first` is set, its first frame is the header once data
is (`Headed`), and when its last frame ends it, the responser is closed. `Beginning` ties
this to the goroutines: until the invoker's first access the stream is as `process`
made it. Each operator of `Responser` keeps `Ordered`, by a lemma of its own.

`OneRpcAnswer` relates the wire to `f.err`, which two goroutines write, and so `AnswerInv`
relates them at every step before: what the responser holds is a result as long as `f.err` is
nil, an error has been set by the time `Close` is called (`Settled`), the invoker
sets a responser that nobody has touched (`Blank`), and nothing has been sent (`Unsent`). That
`Close` does not fail on its own limit needs the size of what it sends (`Shaped`, below):
`Close` lifts the limit to `MaxInt64`, and `OutputFits` says that no output is that long.

What an answer holds is one invariant for three properties. `Carried(d, e, g)` says where
each byte is that the copier has read: `d` characters are with the responser, those that the
bytes up to `e` make in the invoker's hand, bytes up to `g` in the encoder, and the rest in
the copier's blocked write; `Fit` converts, in base64, bytes to characters, and `Grouped` says that
what has left the encoder is in whole groups. A
step moves a boundary. `Tidy` says what the responser's part looks like: the data frames are
lines (`InLines`: each begins behind the one before it, has no newline but at its end, and
all but the last have one there) and the buffer goes on from the last of them. `CutInv` carries
what is still known once something has failed, when the output is only a prefix, and `Finished` what is
known of success: the end of the pipe is met only after the child was waited for, and then
`d` is all it wrote, up to an incomplete group of base64. `Shaped` bounds everything by the
output's length.

`WithinLimit` has an invariant in the manner of a ledger. It counts what the limiter gets: the
`Content` of frames with their envelopes, and of base64 its characters. `Bill` is what has been sent or is
held back for a plain answer, at its `Price`. As long as the limiter is in force (`Metering`),
bill and room together are the limit at most; each write takes from one what it adds to the other.
The limit is lifted, by `SetResponseError` or by `Close`, only when what follows is not
`Counted`: an error, and the unfinished line before it. `Early`
says that a request whose invoker never starts is closed with an error.

The refinement of `Answer` uses all of these invariants, and needs more because it speaks of
every step. `got` must be a beginning of the output at every moment, also for an
answer that has failed or that nobody will read, where the properties above claim nothing. So
`Promised` says of whatever a responser holds that it is a text or the first bytes of the output:
for a stream, `n` bytes are sent and those up to `e` held back (`Sends`); a plain or legacy
answer is in one piece (`Solid`). Each operator keeps it and only lengthens what the client
has (`Gained`). That success comes with all of the output is the lemma `Complete`: with
`f.err` nil at `CloseEnd` and nobody having cut the request short, the method has
done well and the responser holds its whole output, from `Finished` and from `Resolved`, which says
how an invoker can be over without an error. `Failing` says that a stream that was told
an error cannot end in success afterwards. A step is then one of three: it moves the method or the
clock and not the answer (`Write`, `Finish`, `Cut`), it moves the answer alone (`Goes`:
`Send`, `Succeed`, `Fail`), or it leaves what `Answer` sees as it is. After the grace
period every step is `Forsake`, so no claim is made there.

`OwnSocket` needs what a bind that has not yet its socket may do to the others.
`Whereabouts` ties a bind's step to its kind and to its listener, and `Held` says that
who is past `Lock` holds the lock of its address and who is past `ListenUnix` owns the
socket. With distinct addresses no other goroutine touches either.

`OwnLimit` compares `table`, filled once, with a history. `Sourced` is the link, and
stronger: every
scalar of the merged root is what the last loaded file that speaks of its path says.
A file that is merged either speaks of the path, and then is the last, or
does not, and `Merge` keeps what is there. It needs no induction over the files.

`RequiredPresent` and `SettingsKept` say something of every file loaded, at the end. `LoadInv`
says it of every moment: if nothing in an include of a loaded file is optional, what one of
its alternatives names is there, and is loaded or on the stack (`Visits`). `MergeInv` says that what a
loaded file says of a path is in the root as long as no later file contradicts it: a list
as a part of the list there, which later files extend at its end, another value as it is;
and that whatever is in the root is from some file (`Origin`).

About induction: no prover here instantiates the library's induction theorems, whose
parameter is an operator. A set can take the place of the operator, since every set of
numbers with an element has a least one (`Least`, from the well-foundedness that
`WellFoundedInduction` states). `Induction` and `SequenceInduction` say
so for subsets of `Nat` and of `Seq(S)`, and from them come the facts about
`FlattenSeq`. It does not help with operators that take an operator
themselves.

The assumptions are those on the constants. They have their types, `Envelope` is in
`1..MaxInt64`, and methods pass `Validate`. `OutputFits` says that the output, encoded and with each
byte in an envelope of its own, is shorter than `MaxInt64`, a length that no Go string reaches. The disks of `ConfigLoad` are
functions from all names to files of its kinds, whose leaves and includes are of the kinds the
`Unmarshal`s try, and the scalars at the paths that `Main` reads have the types it reads.

Only model-checked is liveness (`BoundedRequestEnds`, `EndOfOutputEndsRequest`,
`ReapedUnlessCut`, `LeftoversDoNotBlock`, `StartDecided`, `FailureEndsProgram`,
`SaneConfigurationServes`, `SignalCleansUp`), which TLAPS cannot prove here, as it
cannot prove anything with `ENABLED`, and `PartIsNoSuccess`, which needs what is known of an
answer after its deadline. Every other invariant, action property and refinement that
a passing run checks is a theorem.

## Not modelled, and what is left

* A bound for the unlimited line buffer of a stream: there is none in the code.
  `WithinLimit` says which frame goes beyond the limit because of it.
* The chunk mode of `streamingResponse.Write`: the program creates streams with
  chunk size 0 only. The fallback of `method` for `StreamingMethod`: no caller asks for
  it.
* Reloading on SIGHUP: the handler logs a TODO.
* The conversions of single fields in `ReadConfig`, and how a body is decoded
  into parameters: data without control.
* JSON, YAML and HTTP libraries, password hashing, logging, TCP keepalive, the Windows
  stubs and `poorargparse.go`: no state of the program's own to check. Of the write
  deadline only what it does to a client that reads no more is modelled.
* What an invoker does to the `http.ResponseWriter` after the grace period:
  undefined in net/http.
