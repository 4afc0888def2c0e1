# Formal model of SansShell

TLA+ modules, TLC instances and TLAPS proofs for SansShell: the proxy server
that multiplexes one client stream over many target streams, the client library
at the other end, the multi-party-authorization (MPA) store, the authorization
of a call from the user to the handler, the handlers of every service, and the
commands of `sanssh`.  Paths below are relative to `src/`.

## The system

A user runs `sanssh`.  It connects to one *sansshell-server* directly or, for
many targets at once, to a *proxy server*.  A server authorizes each call
(`auth/rpcauth`, `auth/opa`), possibly with the help of an MPA request that
other people approved, and runs one of its services (`services/*`).

| Part | State it keeps | Operations | Talks to | Hard behaviour |
|---|---|---|---|---|
| Proxy RPC, `proxy/server/server.go` | request, reply and done channels; errgroup | `Proxy`, `send`, `receive`, `dispatch` | client stream, stream set | five kinds of goroutine, channels closed while others send, contexts |
| Target streams, `proxy/server/target.go` | `streams`, `closedStreams`, `noncePairs`; per stream `reqChan`, `errChan`, cancel function | `Add`, `Send`, `ClientClose`, `ClientCancel`, `Remove`, `Wait`; `Run` | dispatcher, authorizer, target | errors from four places, half-close behind buffered data |
| Proxy client, `proxy/proxy/proxy.go` | stream id to target map, errors kept from the setup | `createStreams`, `InvokeOneMany`, `NewStream`, `SendMsg`, `RecvMsg` | proxy server, generated code | replies of many targets on one stream, targets that fail early |
| Generated methods, `services/*/*_grpcproxy.pb.go`, `*_grpc.pb.go` | none | `XOneMany`, stubs, handlers | proxy client, services | one answer a target, errors folded into answers |
| MPA store, `services/mpa/server` | `actions`, `curBytes` under one mutex | `Store`, `Approve`, `WaitForApproval`, `List`, `Get`, `Clear`, hook | hooks, other servers | eviction, expiry, waiters that hold old pointers |
| MPA hooks, `services/mpa/mpahooks` | the delayed stream | client and proxy interceptors, `ActionMatchesInput` | MPA store, rpcauth | store, wait, then call, against several servers |
| Authorization, `auth/rpcauth`, `auth/opa`, `proxy/auth` | none | hook chain, `Eval`, interceptors | every RPC | stream messages authorized one by one |
| mTLS, `auth/mtls` | loader, cached credentials | handshake, reload, clone | gRPC | reload during handshakes |
| Server plumbing, `server`, `cmd/*` | options, listener | `Serve`, interceptors | services | order of hooks |
| Services, `services/*/server` | little: a mutex, cached ids | one handler per RPC | the host | streams of output, temporary files, commands run in sequence, shared files |
| Commands, `services/*/client` | targets done, exit status | one `Execute` per command | OneMany methods | answers of several targets, partial failure |
| `sanssh`, `cmd/sanssh` | per-target output writers | batches of targets, idle timeout | commands, proxy client | exit status over batches, timers against answers |

What makes them correct: a target receives exactly what its client was allowed
to send it, in that order; the client sees every stream's life in order and
learns how it ended; no goroutine sends on a closed channel or waits for ever;
each target's answer is reported once and under its own name; an approval counts
only for the request it was given for, from somebody else than the requestor,
and while it is fresh; the store keeps its limits; a handler that says OK has
done what it was asked, one that refuses has done nothing, and none leaves
anything behind; concurrent edits of one file do not lose each other; a command
that exits with success has not seen a failure, and tells every failure to the
target it belongs to.

## Modules

| Module | Models |
|---|---|
| `ProxyServer` | One Proxy RPC: every goroutine of `server.go` and `target.go` |
| `ProxySession` | What the proxy promises about each stream; `ProxyServer` implements it |
| `ProxyServer_proofs` | The inductive invariant of `ProxyServer` and the theorems |
| `ProxyPaths_proofs` | What travels through `ProxyServer`, to the target and back, and that it implements `ProxySession` |
| `MpaStore` | `services/mpa/server/server.go` with the authorization hook |
| `MpaStore_proofs` | Its inductive invariant and the theorems |
| `ProxyClient` | The client end: `createStreams`, `InvokeOneMany`, `Invoke` and the `proxyStream` of `NewStream` |
| `ProxyClient_proofs` | Its inductive invariant and the theorems |
| `OneMany` | What the generated OneMany methods hand to their caller |
| `ClientCommands` | `Run` of `sanssh`, the `Execute` of every command, the client helpers |
| `ClientCommands_proofs` | That the table of the commands is well made, the inductive invariant and the theorems |
| `FdbWords`, `FdbCliClient`, `FdbCliServer`, `FdbCli` | fdbcli lines: the words, the client's translation into a request, the server's into a command line, both composed |
| `ServiceDescs` | The generated stubs and handlers: which kind each method is |
| `RpcAuth` | What an authorizer decides about one message: input, hooks, policy |
| `AuthorizedCall` | One call from the interceptors of `sanssh` through the proxy to the handlers |
| `AuthorizedCall_proofs` | Its inductive invariant and the theorem |
| `HandlerScripts` | Every handler as the sequence of its steps |
| `Parsers` | How the output of commands is cut into records |
| `Handlers` | What a step of a handler does, on a host with one shared file |
| `Credentials` | Handshakes and reloads of certificates |
| `TargetServer` | The handlers together, with the goroutines of `Read` and `StreamingRun` |
| `TargetScripts_proofs` | That every handler's script is orderly |
| `TargetServer_proofs` | The inductive invariant of `TargetServer` and the theorems |
| `MC*` | Instances for TLC |

`ClientCommands` extends `OneMany`; `FdbCli` extends both translations;
`AuthorizedCall` extends `RpcAuth`, which extends `ServiceDescs`; `TargetServer`
extends `Credentials`, which extends `Handlers`, `HandlerScripts` and `Parsers`.

### ProxyServer

Each goroutine is a process with a program counter: `rcv` and `par` are
`receive` and the goroutine that started it, `sender` is `send`, `dpc` is
`dispatch` and the goroutine around it, and for each stream `run`, `wr` and `rd`
are `Run`, its writer and its reader.  An unbuffered channel is a rendezvous, so
a step that sends also moves the receiver (`Relay` for `replyChan`,
`DispatchDone` for `doneChan`, `Take` for `requestChan`); `reqChan` is the queue
`reqBuf`, `errChan` the slot `errc`.  Contexts are not variables: `GroupCtxDone`,
`DispatchCtxDone`, `StreamCtxDone`, `RunCtxDone` and `GrpcCtxDone` compute from
the recorded cancellations and errors whether a context is done, in the same
nesting as the code derives them.  An error is a status name, and `OK` is Go's
nil; an errgroup keeps its first error.

The client, the targets and gRPC are environment: `ClientRequests` lists what a
client can send in a state (`ClientOps` selects, per instance, which kinds:
starting, data, closing, cancelling, half-closing, unknown ids, unknown methods,
wrong payload types, unknown requests, requests the authorizer refuses,
disconnecting).  The history variables `accepted` and `out` record what `Send`
took and what the client received; no action reads them, except that a client
can only name a stream it was told of.  A client may send `StreamData` on a stream
that it has closed: `Send` then finds `reqChan` closed and panics (`SendPanics`),
and no goroutine takes another step (`Alive`).  The history `usage` tells such a
client from the others.

Assumed: stream ids drawn from `rand.Uint64` do not collide; `stream.Send` succeeds until the client is
gone; `CloseSend` and `ClientConn.Close` do not fail.

### MpaStore

A request's id is the hash of its contents, so an action is its own id.
`actions` maps it to the address of a `storedAction`; the objects (`action`,
`lastModified`, `approvers`, `approved`) live on after the map drops them, since
a `WaitForApproval` still points to one.  `storing` is the mutex while `Store`
evicts, one entry per step; every other critical section is one step.  `List`
and `Get` sweep outdated requests first, `Get` under a lock of its own, so the
hook takes two steps.  `Restart` forgets everything.  `TotalSize`, which the
counter is compared with, counts a set with one element for each byte of each
stored request.

### ProxyClient

`snd` and `rcv` are the two goroutines of `createStreams`, `pc` is what follows
them: for `InvokeOneMany` the goroutine that fills `retChan`, for a stream the
caller's `RecvMsg` calls, with the caller's sending goroutine (`app`) beside
them.  `ids` is `proxyStream.ids`; `obj` holds the `Ret` of each target, because
a `Ret` travels by reference: one waits for the channel (`pend`), one has been
taken and not yet looked at (`hand`), and `seen` is what the caller read of each
target when it looked.  Replies are numbered per target (a reply is its number,
0 none), so that a lost, repeated or reordered one shows.  The three ways to use a connection (`mode`) and the number of targets
are chosen in the initial state.

The proxy is the environment, and behaves as `ProxyServer` shows: `ReplyOrder` for the order on a stream,
`ReplyMeansOk` for the status after a unary answer, `EndsAfterHalfClose` for the
end of the RPC, and the RPC may be lost at any point, with or without the
replies under way.

### OneMany and ClientCommands

`OneMany` is the client library as the commands see it, with what `ProxyClient`
shows of it: a call fails as a whole, or gives answers (`Answer`: a reply, an end
of stream or an error of one target); refusals of a stream's setup (`owed`) come
together with the first answer of a target that did start, and never when none
did: `Recv` then gives `io.EOF` at once; a lost Proxy RPC
(`gone`) fails every later `Recv`.  Each method of each service is one of four
kinds.

In `ClientCommands` a command is a record read off its `Execute`: the method it
calls, the statuses that refuse its arguments, whom it tells that the call
failed, whether an error of a target makes the exit status a failure, what a
broken stream does, what a failing write of output does, and so on.  The actions
are the shape all of them share: `Run` takes the targets in batches, connects
(`Dial`), slices the outputs (`Slot`) and calls `Execute`, which parses its
arguments, makes the call, goes through the answers and returns.  `stat`, `sum`
and streaming raw calls have a sending goroutine (`snd`), `cp` uploads and
collects, the MPA commands look up the action first.  `hurt`, `silent` and
`mishap` are history: the targets whose part failed, with the argument of the call,
those that failed without a line of their own, and those whose reply or output was
at fault; `unheard` has the calls of which no target started.  The helpers of
the services' `client/utils.go` are records too; they have one batch, and their
result is the error they return.

### FdbCli

Words are model strings that differ in what the code tells apart: numbers with a
leading zero or a sign, `key=value`, flags, empty words.  `FdbCliClient` has one
operator for each subcommand's `Execute`, from words to a message or a refusal;
`FdbCliServer` one for each `parseFDBCLI...`, from a message to words; `FdbCli`
runs a typed line through both, command by command, with the top level flags.
`Lossy` and `Unchecked` list where the code does not keep the words it was given.

### RpcAuth and AuthorizedCall

`RpcAuth` evaluates one message: `NewRPCAuthInput`, then the hooks in the order
in which the servers' commands install them, then the policy, which permits
everything or asks for an approver.  The id of an MPA action is a hash of it, so
the action stands for its id.  `AuthorizedCall` makes one call with it.  The
caller (`pc`) goes through the client's policy and, with `--mpa`, stores the
action on each target, waits for the approvals and then makes the call with the
id; for a stream all of that happens in the first `SendMsg` of the delayed
stream (`ready` is its `innerReady`), while the receiver of a bidirectional
stream may already wait for it (`rcv`).  The proxy evaluates each message for
each target (`ProxyEvals`), a target each message of the call (`Authorize`,
`AuthorizeStream`).  Approvers approve, and stores forget, at any time.

### HandlerScripts, Handlers, Credentials, TargetServer

A handler is the sequence of what it does that can fail or leave something
behind: checks that refuse, commands with the rule for their result, temporary
files with their removal, changes, sends.  `Handlers` gives each kind of step its
meaning; every step of a script that can fail does so nondeterministically and
the handler then returns by the path the code takes.
A handler that parses is given any output (`Lines`): for stacks and repositories
lines that start a record, that belong to one, or that are too long for
`bufio.Scanner`; for packages the fields of each line, and whether it is the header.
What a line says may be refused (`Rejects`) or, where the code indexes without a
check, end the server (`ParsePanics`).  One shared file models what
`DataSet`, `DataGet`, the Conf handlers, `Write` and `Copy` may do to each other:
an inode is the set of RPCs whose edit it holds, a rewrite in progress is `torn`,
a rename moves `path` to another inode, and `lock` is the advisory lock of the
inode a handler has open.  `processCreds` is two steps, the copy and the locked
part.  `Credentials` adds the check, the load and the store of a certificate
reload with the handshakes that use it; a certificate is the number of the change
that brought it.  `TargetServer` adds the lister and the two readers of `Read`
with the server's mutex, and the stderr goroutine of `StreamingRun`.

Assumed: commands, `systemd`, files, buckets and the kernel are environment that
succeeds or fails at will; `flock` excludes.

## Runs

| Run | Checks | Shows |
|---|---|---|
| `proxy_two_streams` (pass) | `NoSendOnClosedChannel`, `ReplyOrder`, `NoStrandedStream`, `NonceUnambiguous` | Two target streams of one Proxy RPC race for the reply channel, report on doneChan and are torn down together, while the client may close a stream, send data after that, half-close or disconnect at any point; no deadlock while it stays. |
| `proxy_one_stream` (pass) | `TypeOK`, `DeliveryFaithful`, `OkMeansTargetOk`, `ReplyMeansOk`, `ImplementsSession` | One target stream of every method kind, dry run or not, under every request a client can send (unknown ids, methods, payload types and request types included): what reaches the target and what the client is told; the goroutines implement the abstract session. |
| `proxy_liveness` (pass) | `CancelCloses`, `UnaryCloses`, `EndsAfterHalfClose`, `ErrorEnds` | Under fair scheduling, cancelled and finished streams are closed and the RPC ends after a half-close or an error. |
| `proxy_leak` (violation) | `EndsAfterBreak` | When the client is gone, send exits after its first failed write and the next unconditional send on replyChan blocks for ever: the RPC never ends. |
| `mpa_limits` (pass) | `TypeOK`, `Accounting`, `Bounded`, `ApprovalsKept` | Byte accounting, the limits and the approvals of the MPA store through stores, approvals, evictions, expiry, clears and restarts. |
| `mpa_users` (pass) | `WaitMeansApproved`, `HookApproversGenuine`, `WaiterWakes` | WaitForApproval holds a storedAction while the map moves on, and the hook works in two critical sections with other clients between them: neither reports a false approval, and a waiter does not hang. |
| `client_calls` (pass) | `SetupAccounts`, `UnaryAnswers`, `InvokeTruthful`, `StreamAnswers`, `CallEnds` | Calls over one and two targets in all three forms (InvokeOneMany, a stream of Rets, a stream of plain messages): streams that are refused, closed early, answered, failed or lost are reported under their own target, completely, and the call ends. |
| `commands` (pass) | `ExitTellsFailure`, `FailureNamed`, `OutputOwn`, `CommandEnds` | Every command of sanssh and every client helper, over one and two targets, in one batch or two, direct or through the proxy, with calls that fail, targets that refuse, answer, fail or are lost, and output that cannot be written: the exit status, the error lines and the output belong to the right targets, save for a stream that all its targets refuse during the setup, and the command ends. |
| `fdbcli` (pass) | `CommandsFaithful`, `ServerAccepts`, `FlagsFaithful` | Typed fdbcli lines of every subcommand go through the client, which builds a request of them, and the server, which builds a command line of the request: the words, their order and the options come out as typed, and the server refuses nothing the client built, save for the listed exceptions. |
| `handlers` (pass) | `OkEarned`, `NothingLeft`, `RefusedUntouched`, `KeysKept`, `HandshakeFresh`, `HandlersEnd` | The handlers of every service, alone and in the pairs that share state (a file, the yum commands, certificates, the fdbcli user), with every command, file operation and send failing or not, and with any output to parse, lines too long to scan and missing headers included: what an OK means, what is left behind, what concurrent edits and reloads do to each other, and that handlers return. |
| `auth` (pass) | `PermittedOnly`, `FlowEnds` | One call of each method kind from sanssh to one target or, through the proxy, to two, with every combination of --mpa, justification, policies and client policy: nothing reaches a handler that was not permitted, and the call ends. |
| `fdb_creds` (violation) | `RunsAsConfigured` | Two concurrent FDBCLI calls: the second copies the uid and gid before it takes the lock, finds them cached under the lock, and runs fdbcli as the server's own user. |

### Bounds

* `ProxyServer`: `Ids` bounds the streams (two where streams interact, with
  symmetry over ids and pairs and unary methods, so that start, start and data
  for both fit; one where every kind of request and method is enabled).  `MaxReqs`
  bounds what the client sends, enough to start both streams and send, close or
  cancel once or twice after that; `MaxReplies` bounds a streaming target.
  `ReqBufferSize` is 1, so that a full buffer is reached.
* `MpaStore`: `MaxStores` bounds the objects ever made, `MaxTime` the clock; the
  limits are small enough that both eviction loops, the request larger than the
  total, and expiry happen.
* `ProxyClient`: two targets (one that fails early next to one that answers is
  the interesting mix), two replies of a streaming target and one `SendMsg`
  beside the receiving goroutine.
* `ClientCommands`: all commands, up to two targets (so one batch of two, or two
  of one) and two replies of a stream; a second reply is what shows an order or a
  reply written after an error.
* `FdbCli`: for each subcommand all lines of up to two to four words over a
  vocabulary of its keywords, a plain word, numbers, a negative number and the
  empty word; two and three commands in one line; each flag alone and in pairs.
* `TargetServer`: every handler alone and the pairs that share something; two
  changes of the certificates, output of three lines (four for `ParsersChecked`, so that
  a package wrapped over three lines follows its header), four files with a channel
  of one and two readers, two pieces of stderr.  One way to lose an edit of the
  shared file takes three handlers (one whose edit it is, one that rewrites the file,
  one that reads it meanwhile); that one is left to the proof.
* `AuthorizedCall`: every method directly, and one of each kind through the
  proxy to two targets; two messages on a client stream; every combination of the
  flags and of what the stores already hold.

Deadlock is checked in the proxy, MPA, client and command runs; a finished RPC,
and one whose client is gone, stutters (the second because of the leak that
`proxy_leak` shows).  In `fdbcli`, `handlers` and `auth` a behaviour is one line,
one load or one call and simply ends; what must not be stuck is stated by
`HandlersEnd` and `FlowEnds`.

### Fairness

`ProxyServer`: weak fairness for every goroutine (the Go scheduler), for gRPC
ending an RPC whose context is done, and for a target that has all its input to
end.  None for the client.  `MpaStore`: the holder of the mutex finishes, a
waiter is scheduled and its one-minute timer fires; strong fairness for taking
the approved case, because the timer disables it again and again and Go's
`select` picks among ready cases at random.  Nobody has to approve.
`ProxyClient`: weak fairness for the client's goroutines and for a caller that
keeps calling `RecvMsg`, reads its channel and closes its sending side; and the
proxy ends an RPC that is half-closed with no stream left (`ProxyEnds`, which
`EndsAfterHalfClose` justifies).  The targets owe nothing.  `ClientCommands`: the
command's goroutines are scheduled, and a call that hears nothing fails by the
idle timeout that `Run` installs (`clientStreamWithTimeout`, and the deadline of
a unary call).  The user owes no answer.  `TargetServer`: every goroutine is
scheduled; commands, `systemd` and callers do not hang for ever (a command runs
under the RPC's context); strong fairness for a reader that takes the mutex,
which Go's mutex gives to a waiter that has waited for a millisecond.
`AuthorizedCall`: caller and servers are scheduled, the timeouts end what servers
do not answer; no fairness for approvers and stores.

## Findings

* `proxy_leak` violates `EndsAfterBreak` (`src/proxy/server/target.go:401`): Run ends with an unconditional `replyChan <- reply`, but once the client is gone send (src/proxy/server/server.go:203-207) returns on its first failed stream.Send and nobody reads replyChan any more. The second message any stream produces blocks its goroutine, streamSet.Wait never returns and the Proxy handler never ends. src/proxy/README.md:85-87 says "all of the various streams initiated by a clients are 'children' of the single client -> proxy stream, and will be cancelled automatically if the client -> proxy stream is itself broken or times out."
* `fdb_creds` violates `RunsAsConfigured` (`src/services/fdb/server/fdbcli.go:83`): src/services/fdb/server/fdbcli.go:81 says "processCreds does a cached load of the uid/gid and is thread safe." Line 83 copies fdbCLIUid and fdbCLIGid into the result before line 84 takes the lock. A call that copies -1 while another call is filling the cache then finds the cache filled (lines 88 and 91), looks nothing up and returns the copied -1, so that its fdbcli runs as the user of the server instead of FDBCLIUser and FDBCLIGroup.

### Other divergences

Met while modelling.  The models follow the code; where a property would be
violated, it names the exception in its premise.

Proxy server and client:

* A `StreamData` that names a stream which has failed or finished but is not yet
  removed makes `TargetStream.Send` return a context error, which fails the RPC
  and all its streams; the comment at `proxy/server/target.go:622` says other
  streams continue.
* `StreamData` on a stream that its client has closed is a send on the closed
  `reqChan` and panics the proxy (`target.go:182`): neither `TargetStreamSet.Send` nor
  `TargetStream.Send` looks.  The client library never does this.
  `NoSendOnClosedChannel` says that it takes such a client.
* A client-streaming target that ends first gets its `ServerClose` only after the
  client half-closes, sends or cancels (`target.go:294`; `proxy/README.md:81`).
* An error of `Recv` is dropped when the parent has not reached its select
  (`server.go:154`), and the RPC ends with OK; the comment above rules that out.
* A half-close does not reach a unary target that was sent no request
  (`target.go:308`), so `EndsAfterHalfClose` excludes it.
* When every target fails during the setup, `RecvMsg` returns `io.EOF` and the
  kept errors are never reported (`proxy/proxy/proxy.go:312`, against line 433).  A
  command that takes `io.EOF` for the end of its stream then exits with success and
  writes nothing, although all its targets failed
  (`services/localfile/client/client.go:186`, against the comment at 207).
  `ExitTellsFailure` and `FailureNamed` except such a call (`unheard`), and no other.
* `SendMsg` iterates over the map of streams while `RecvMsg` deletes from it
  (`proxy.go:256`), although stat and sum use them from two goroutines.
* A target that has answered is reported again, with an error, when the RPC is
  lost before its close arrives (`proxy.go:703`, against line 678).

Commands and helpers:

* stat and sum: the sender's status replaces a failure of the receiver; fdbcli:
  `processLog`'s status does, and open logs are remembered by name only, so that
  two targets' logs go to one file.
* `ls a b` keeps `targetsDone` across its arguments; dmesg writes to `Out[i]` by
  the position of an answer; `cp` takes the `io.EOF` of `CloseAndRecv` with no
  answers for success.
* A streamed `http get` calls `Recv` again for ever after its stream broke, and is
  silent about a failed call; get-certs tells only the first target; approve asks
  again for ever when stdin is at its end; get-proxy-verbosity goes on after its
  complaint about several targets; a raw bidirectional call whose input does not
  parse never closes its stream.
* `ReloadRemoteService` drops the channel of answers and returns nil whatever
  the targets say; `RoundTrip` looks at one answer of any number of targets;
  `ExecRemoteCommandWithOpts` does not pass its options on.
* fdbcli lines that come out otherwise than typed, or that no server accepts, are
  listed in `Lossy` and `Unchecked`: forms of changefeed, option, profile,
  throttle, coordinators, kill, configure, datadistribution, negative numbers,
  and flags given as false.

Authorization:

* With a client policy and `--mpa`, the first `SendMsg` of a stream asks for the
  `Context` of a stream that only this `SendMsg` would open
  (`rpcauth.go:242`, `mpahooks.go:203`): it waits for ever.  The receiver of a
  bidirectional stream waits for ever when the first send fails.
* Through the proxy, a target that fails to store contributes a blank id: next to
  a good one the call is aborted for "multiple" ids; alone it is used.
* A second message of a stream under `--mpa` is always refused
  (`services/mpa/README.md:119` says streams are not supported).
* Hooks and interceptors run in an order other than comments say
  (`cmd/sanssh/client/client.go:302`, `server/server.go:185`).

Services:

* `processCreds` as above; an fdbcli command that fails before its defer leaves
  its log directory, although `fdbcli.go:271` says they are always removed;
  `Copy` leaves its temporary file when the attributes are refused;
  `GetTLSCertificate` never closes its connection; a failing `GetMemoryDump`
  leaves part of an object in the bucket.
* The Conf handlers load, change and rename without a lock and lose each other's
  edits, and those of a `DataSet` on the same file: one that came after the load, one
  made to the file that was renamed over, one that was in the hands of a rewrite when
  the Conf handler loaded.  A `DataSetYml` that fails after it has truncated the file
  leaves it empty.  `DataGet` reads without the lock and may see a file that is being
  rewritten; the dotenv `DataSet` does not truncate and leaves an old tail.
* `Dmesg` compiles the request's expression with `MustCompile`, which panics
  (`Read` avoids that, and says why at `localfile.go:141`).
* `Read` hangs when both readers have failed and the lister has more names than
  the channel takes; the server's mutex is held across `Send`.
* `StreamingRun` does not wait for the goroutine that sends stderr, which may
  send concurrently with it, or after it returned.
* repoinfo, pstack and jstack output without a head gives one empty record.
  `GetStacks` and `GetJavaStacks` never ask for `scanner.Err`
  (`process/server/process.go:279`, `412`): a line longer than the scanner takes ends
  the reply, which is OK.  A yum list without the line `Installed Packages` is
  answered with OK and no package (`packages/server/packages.go:559`).
  `ListsTheRecords` excepts these.
* A package name without a period (`packages.go:545`) and a `Repo-` line without a value
  (`packages.go:816`) index out of range and panic.
* `Mkdir` with the immutable attribute, and `SetFileAttributes`, report errors
  after part of the change was made.
* Concurrent certificate reloads may store the older certificates last, and the
  loader then has nothing new to tell; `Clone` drops the server name; the
  multi-identity credentials never ask their root CA loader.

## Proofs

`MpaStore_proofs` proves, for all constants that satisfy `ActionsAssumption` and
`LimitsAssumption`, that `IInv` is inductive, one lemma per action, and from it
`TypeOK`, `WaitMeansApproved`, `HookApproversGenuine` and `ApprovalsKept`, and with
`BytesInv` also `Accounting` and `Bounded`.  None of these is inductive by itself.  `ObjectsInv` says that the map points to
objects of the right request and that nobody in an object's approvers is its
requestor; `StoringInv` that the request being stored is not in the map yet, so
that inserting it replaces no object; `WaitersInv` and `CallsInv` say what a
waiter or a hook between two steps may still rely on, above all that after the
sweep nothing older than the limit is in the map, because the clock of the hook
is the one it swept with and times only grow.  The counter is exact because what a
step adds to or takes from the map has a set of bytes disjoint from the rest, so
the cardinalities add up (`FiniteSetTheorems`) without an induction over the map;
the loops of `Store` end within the limits because an empty map has no bytes, so
that the counter is zero then.

`ProxyServer_proofs` proves, for every set of streams, pairs, methods, payloads
and policies that satisfies `ConstantsAssumption` and `BoundsAssumption`, that
`ProxyServer`'s `IInv` is inductive, and from it `TypeOK`, `ReplyOrder`,
`NoSendOnClosedChannel`, `NoStrandedStream` and `NonceUnambiguous`.  The
strengthening relates the program counters: `LifeInv` says that a stream exists
exactly when `Add` made it, that its writer and reader run only while `Run` waits
for them, and that it stays in the set until `Run` reported; `OutInv` ties what
the client was sent to where `Run` is, and lets an announcement be missing only
when dispatch's context is done; `DataInv` says who closed a `reqChan`: while
dispatch still takes requests only a `ClientClose`, which `usage` has seen when
`receive` held it, so that data that find the channel closed were sent after it;
`ExitInv` and `NonceInv` are the rest.  Steps that touch none of this are
`Quiet`, and one lemma (`QuietStep`) covers them; the others have a lemma each.

`ProxyPaths_proofs` builds on that invariant and adds `PathInv`, about what is
under way.  `RequestPath` says that what dispatch accepted for a stream is, in
order, what the target got, then what the writer holds, then `reqBuf`: a `Chain`
of three sequences, whose head moves when the writer takes or sends and whose end
grows when `Send` enqueues.  `ReplyPath` and `ErrorPath` do the same for replies
and for the one error that decides a stream's status (the reader's, the writer's
and the one in `errc`, in the order `Run` reads them); `UnaryPath` says that a
unary target's OK and its reply go together, and `NamedInv` that an error in the
wrong place has a cause.  From it follow `DeliveryFaithful`, `OkMeansTargetOk` and
`ReplyMeansOk`, and the refinement: `ImplementsProxySession` maps `AddReply` to
`Announce`, `Add` to `Register`, `SendEnqueue` to `Accept`, `WriterSends` to
`Deliver`, `RunPush` to `Close`, a step that makes a stream's context done to
`Tear`, and every other step to a stutter.

`AuthorizedCall_proofs` proves `PermittedOnly` for every set of methods, targets
and messages.  A first group of lemmas evaluates the authorizers of `RpcAuth`: if
the target's (or the proxy's) let a message through, then the policy's condition
held on the input the hooks built, and an approver in that input was in the
store when the hook looked.  The rest is the protocol: `FlowInv` (nothing is sent
before the multi-party flow is over, so the id that was approved is the id that
travels), `ApprovalsInv` (approvers in a store are in the history, even when the
store forgets), `ArrivalInv` (what a handler got was sent, and passed the proxy)
and `PassedInv` (what passed satisfied the proxy's policy then).

`ProxyClient_proofs` proves `SetupAccounts`, `UnaryAnswers`, `InvokeTruthful` and
`StreamAnswers` for every number of targets, ids, replies and requests.  None is
inductive, because each depends on what is still on the wire.  `WireOrder`,
`WireTruthful`, `WireAhead` and `WireComplete` together say that the wire holds
exactly what happened at the proxy and was not read yet, in the order a stream
allows, until the RPC fails; so the head of the wire is always the announcement of
the next target, the next reply of a tracked stream or the close behind its last
reply (`HeadOpens`, `HeadTarget`), and the branches of `invokeOneMany` and
`RecvMsg` for unexpected ids are never taken.  `AccountInv` is the bookkeeping of
`createStreams`.  `Served` says for each target that the `Ret` it is `Due` was
`Heard` of (waiting for the channel, in the caller's hand, or read as it is now)
and that nothing else was; `Partial` and `Whole` are what `RecvMsg` has returned
of a stream that is open or closed.  The proof assumes of the proxy what the
actions of the environment do, which `ProxyServer` was shown to provide
(`ReplyOrder`, `RepliesMeanOk`).

`TargetScripts_proofs` and `TargetServer_proofs` prove `OkEarned`, `NothingLeft`,
`RefusedUntouched` and `HandshakeFresh` for every set `Loads` of sequences of
handlers (`LoadsAssumption`): any number of RPCs in any mix, where the run has the
handlers alone and the pairs that share something.  First, `ScriptsOrderly`: all 55
scripts satisfy `Orderly`, the conditions on the order of steps that the four
properties need (`ChecksFirst`, `TempsGuarded`, `UploadsEnd`, `TellsLast`,
`SkipsSafely`, `ReloadsInOrder`).  Then every step of a handler is shown to be of
one of four forms (`Goes`, `Leaps`, `Returns`, `Stays`), and each part of the
invariant to be kept by these: what a handler has made (`CleanInv`), uploaded
(`UploadInv`), changed (`ActsInv`), run (`StatusInv`) and listed (`ListInv`) is a
function of where it is in its script.  What handlers share has parts of its own:
`ReadInv` for the goroutines of `Read`, and `CertsOK`, `ReloadInv`, `FreshInv` for the
certificates, where the argument is that without an overlap at most one reload is
under way, what it loaded is the newest the source gave, and when none is under way
that is what is in use.  `OkEarned` has one hypothesis, `ParsersRight`: that the three
parsers, on output they accept and that has a head or its header, compute the records
of the lines the scanner gave.  Their definitions are recursive, so TLC
evaluates that (`ParsersChecked` in `MCTargetServer`), on all output up to
`MaxLines` and up to four lines.

`KeysKept`, about the edits of the shared file, rests on a second invariant, `FileInv`,
that is inductive on top of `IInv`.  `Placed` first turns what a handler has behind it
into its position in its script, and `HandleKeys` shows that a step is one of eight that
touch the file, or goes on, returns or rests; there is a lemma for each.  `LockInv` is
the argument for `DataSet`: whoever has the lock of an inode has in hand what the inode
holds, or has just emptied it, until it has saved that together with its own edit; two
holders have two inodes (`OneHolder`).  For the handlers that take no lock the history
`missed` records who saved while they worked: `FollowInv` says that a `DataSet` works
on the inode at the path, or that another was put there under it, and `TraceInv` that
every saved edit a Conf handler does not have in its copy is one it missed, one already
lost, or one in the hands of a rewrite.  So when the copy is renamed over the file, each
edit is in it or lost in a way that `Lost` names, and what is lost stays so
(`LostStays`).  From `FileInvariance` follow `EditsKept`, which is `KeysKept` for any
number of handlers, and `LockedEditsKept`: where nobody renames over the file and every
`DataSetYml` was answered without an error, the file has every edit that was.  Each of the
four exceptions of `KeysKept` is needed: TLC finds a violation without it.

`ClientCommands_proofs` proves `ExitTellsFailure`, `FailureNamed` and `OutputOwn` for
every number of targets, batch size, number of replies and set of commands of the
table (`CmdsAssumption`).  First `CommandsWellMade`: all 87 records satisfy
`WellMade`, the combinations of traits the properties rest on (a command outside
`AlwaysOk` and `Overwritten` marks the status on every failure, one outside
`Elsewhere` tells each kind of them, only a unary call keeps the last reply only,
and so on); the exceptions that the properties name are thus exactly what the proof
needs.  Then the invariant.  The properties speak of a process that has ended, the
invariant of every moment of a call: in `FailInv` a target that failed has its error
still held by the library (`owed`), among the answers in hand (`todo`), or is
`Settled`, marked in the status and told of.  An answer moves along these and none
drops out, unless no target of the call started (`Unstarted`), when the library never
hands over what it holds: `TodoInv` says what `Recv` handed over (refusals first, one other answer
last), so that an Execute which leaves the loop early, or whose stream breaks, can
only drop answers whose failure it has told in another way; `UploadInv` is the same
for the answers that `CloseAndRecv` collects, `DoneInv` says that a target taken off
the list of those to be told has ended or was told, and `LinkInv` and `PlaceInv` are
what the library and the position in `Execute` allow.  `StatusInv` carries the status
of a call through the batches to the exit.  For the output, `Handled` is the number of
replies dealt with: `OutInv` says that a target's output has no reply beyond it, none
twice or out of order, and, while the target is `Due`, every one up to it.

Each `IInv` was model-checked on the instance of its run, and `ProxyClient`'s also
with three targets, before it was proved.  `FileInv` was, with `KeysKept`, on all loads of
three out of `DataSetYml`, `DataSetDotenv`, `ConfWrite`, `ConfDelete` and `Write` (3.4
million states; the constants of `Handlers.cfg` with those `Loads`, and no temporal
property).

Only model-checked: all liveness properties, which need fairness; `FdbCli`, where
the claims are about what recursive translations compute; and what the parsers compute.
Every other invariant and action property of a passing run is a theorem.

## Parts, and what is not modelled

| Part | Status | What is modelled, or why not |
|---|---|---|
| proxy server: Proxy RPC | modelled | Proxy, send, receive and dispatch: every goroutine, channel, context and error path. The reply cache of the reflection service is part of the next component but one. |
| proxy server: target streams | modelled | TargetStream (NewStream, Run, CloseSend, Send, CloseWith, ClientCancel) and TargetStreamSet (Add, Remove, Send, ClientClose, ClientCloseAll, ClientCancel, Wait). |
| proxy server: reflection | not modelled | Loads file descriptors into the service map once at start; no state afterwards. |
| MPA store | modelled | Store with its eviction, Approve, WaitForApproval, List, Get, Clear, the expiry sweep and the server's authorization hook. |
| MPA hooks and interceptors | modelled | The client interceptors (one target, and through the proxy), the delayed stream, the hook of the server and of the proxy, ActionMatchesInput. |
| MPA client commands | modelled | approve with its confirmation, list, get and clear, with the lookup they start from. |
| proxy client library | modelled | createStreams, InvokeOneMany, Invoke, NewStream with SendMsg, RecvMsg and CloseSend. Dial and the parsing of targets set up one connection and keep no further state; interceptors wrap these calls. |
| proxied identity | modelled | The metadata the proxy adds and whom a server believes it from, as part of NewRPCAuthInput. |
| rpc authorization | partly | Eval with its hooks, the client and server interceptors, unary and streaming, and the input they build. The redaction of logged input and the fields of the input that no hook reads are left out. |
| OPA policy evaluation | partly | The verdict of Eval, for policies that permit everything or ask for an approver; the rego interpreter and the denial hints are left out. |
| mTLS credentials | partly | The credentials wrapper: checkRefresh, refreshNow, both handshakes, Info, Clone, the forced refresh, and the multi-identity credentials. Loading from files, the choice among identities and the flags are left out. |
| server plumbing | partly | Which interceptors and hooks a server has and in which order they see a call. Listening, serving and the unix peer credentials are left out: one call each into gRPC or the kernel. |
| sansshell-server command | partly | The hooks it installs, in their order. The rest parses flags and starts the server. |
| proxy-server command | partly | The hooks it installs, in their order. The rest parses flags and starts the server. |
| sanssh command | partly | Run with its batches, connections, output slices and exit status; the interceptors it installs, in their order; the idle timeout of a stream. Flags, output file names and shell completion are left out. |
| exec service | modelled | Run, StreamingRun with its stderr goroutine, the command in both forms, and the client helpers. |
| localfile service | partly | Every handler: Read with its lister and readers, Stat, Sum, Write, Copy, List, SetFileAttributes, Rm, Rmdir, Rename, Readlink, Symlink, Mkdir, Shred, DataGet and DataSet with the file lock. How tailing waits for the kernel (inotify, epoll) and the walk of a YAML document are left out. |
| localfile client | modelled | Every command, and every helper of utils.go. |
| packages service | modelled | Install, Remove, Update, ListInstalled, Search, RepoList and Cleanup as sequences of commands with the checks between them; the splitting of their output into records; the commands. |
| process service | partly | List, Kill, GetStacks, GetJavaStacks and GetMemoryDump with its file and its bucket; the commands. The fields of a process are left out. |
| service management | modelled | List, Status and Action on Linux with the job that systemd reports on; the commands and the helpers. |
| FoundationDB service | modelled | The translation of every fdbcli subcommand and option on the client and on the server, the FDBCLI handler with its credentials and logs, the Conf handlers, FDBServer, and the commands. The FDBMove service has generated stubs and no server. |
| sysinfo service | modelled | Uptime, Dmesg and Journal; the commands. |
| httpoverrpc service | partly | Host and StreamHost, the get command and RoundTrip. The listener of the proxy command, an HTTP server that forwards each request with Host, is left out. |
| service utilities | partly | RunCommand and its rules for exit status and stderr, ValidPath, the exclusive file lock. Formatting, flags, and the YAML and string helpers are left out. |
| ansible service | modelled | Run and the command. |
| dns service | modelled | Lookup and the command. |
| healthcheck service | modelled | The command; the server's answer is constant. |
| power service | modelled | Reboot and the command. |
| network service | modelled | TCPCheck and the command. |
| tlsinfo service | modelled | GetTLSCertificate and the command. |
| whoami command | not modelled | Prints the client's certificate. |
| raw command | modelled | The calls of every method kind and the generic OneMany methods of grpcproxy.go; the JSON is a message that parses or not. |
| sansshell control service | partly | The commands, to the targets and to the proxy. The servers set or read one number under a lock. |
| telemetry | not modelled | Logging interceptors and counters, which no property is about. |
| protoc-gen-go-grpcproxy | partly | OneMany models the code it writes. The generator runs at build time on a descriptor. |
| test support | not modelled | Helpers of the tests. |

Left out everywhere: the wording of messages, the fields of replies no property
tells apart, the generated message types (`*.pb.go`), metrics and logging.  The
darwin variants of the servers are left out; the Linux ones are modelled.

## Plan

Every safety property of the runs is proved except those of `FdbCli`, whose translations
are recursive over the words of a line; stating them by position in the line, without
recursion, would bring the client's half within reach.  The liveness properties stay
with TLC.
