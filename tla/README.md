# A verification of the sandbox execution engine

TLA+ models of this repository's concurrent core, the TLC runs that check them
on small instances, and TLAPS proofs of the properties that matter most. Line
numbers refer to the repository's files.

## 1. The system

A caller hands `UniversalSandbox` (main_app.py) a piece of Python and a policy;
`handle_request` (advanced-sandbox/supervisor.py) runs it in bubblewrap and
returns what it printed and what it returned. Network and database access go
through two proxy processes the supervisor starts for each job.

| component | state it keeps | operations | talks to |
|---|---|---|---|
| Supervisor, `handle_request` | `slot_semaphore` (shared by threads); per job: policy file, two proxy handles and socket directories, four descriptors, bwrap, cgroup | admit, set up, launch, read, clean up | both proxies (spawn, socket file, signals), bwrap (pipes, kill) |
| Output reader, `_read_output` | bytes kept, totals, `truncated`, deadline | the select loop, the final wait | the two pipes of bwrap |
| Seccomp filter | one memfd, its offset | compile at load, dup and rewind per job | every bwrap |
| Sandbox engine | none | builds the bwrap command | supervisor |
| Dispatcher | the DB connection, the urllib3 patch | call the function, print the result line | both proxies, stdout and stderr |
| Client API, `_execute_rpc` | none | send a request, interpret the response | supervisor |
| DB proxy, `handle_client` | one driver object for all connections; per connection two streams and two tasks | connect, log in, filter frames, relay answers | sandboxed client, upstream server |
| MySQL and PostgreSQL drivers | MySQL: `_server_reader`, `_server_writer` | connect, intercept the login, filter | DB proxy |
| SCRAM client | none between calls | proofs and checks of one login | PostgreSQL driver |
| SQL firewall | none | allow or deny a text | both drivers |
| SQL parser pool | four workers and a queue | parse with a time limit | SQL firewall |
| Egress proxy, SSRF guard | the policy's domains | check, resolve, connect, relay or tunnel | sandbox, origin servers |
| Policy loader, driver registry | none | load, look up | everything above, at start-up |
| Image, compose file, scripts | none | deployment | - |

What is hard here:

* **Concurrency.** One thread per request around a semaphore and a shared
  descriptor; one event loop with many coroutines around a shared driver
  object; a reader racing with the process it reads from.
* **Failure.** `handle_request` can fail at some twenty points, before and after
  each resource exists; everything hangs on one `finally` block.
* **Time.** Five waits with a time limit, each racing with the event it waits
  for.
* **Crashes.** Nothing of a job is persisted, but processes, files and
  directories outlive a supervisor that dies.

What makes each component correct:

* Supervisor: slots are conserved; at most `N_SLOTS` sandboxes run; a sandbox
  always has someone who will kill it; an answered job has left nothing behind,
  with the exceptions section 4 names.
* Reader: a capped prefix, an honest flag, no kill without cause, it returns.
* Result path: a complete result is not silently lost.
* Seccomp filter: no job loads an empty one.
* DB proxy: what reaches the server is what the firewall let through; sessions
  do not mix; answers arrive; sessions end.
* Egress proxy: only allowed and public addresses are connected to; tunnels end.
* SQL firewall and parser pool: a verdict is the one the rules give on that very
  text, and an allowed text does nothing the policy does not grant (the rules do
  not achieve the second, section 4); a text that was given up is denied, and
  its late result reaches nobody; no worker is lost; the process ends when told
  to, unless a parse or a session holds it.
* Logins: nothing secret travels before the protection the mode demands; a
  session begins only when the server has accepted and proved itself; packets
  stay in sequence; a login fails for cause only, and ends.

## 2. The modules

| module | models | extends or uses |
|---|---|---|
| `SlotPool` | what the supervisor promises about admission (abstract) | - |
| `Supervisor` | `handle_request`, the processes it starts, the death of the supervisor | refines `SlotPool` |
| `SupervisorProofs`, `SupervisorCleanProofs`, `SupervisorRefinement` | theorems about `Supervisor` | `Supervisor`, TLAPS |
| `ReadOutput` | dispatcher's output, `_read_output`, result line, `_execute_rpc` | - |
| `SeccompTemplate` | the offset jobs share through the filter's memfd | - |
| `DBProxy` | `handle_client`, `_relay`, both `filter_client_frames` | - |
| `DBLogin` | `connect_upstream` and `intercept_auth` of both drivers, the SCRAM client, the TLS rules | refines `DBProxy` |
| `SqlFirewall` | `validate_mysql_sql`, `validate_sql` as operators | - |
| `ParsePool` | `parse_with_timeout` and its workers under the event loop, SIGTERM | `SqlFirewall` |
| `ReadOutputProofs`, `DBProxyProofs`, `DBLoginProofs`, `ParsePoolProofs` | theorems about the module they are named for | that module, TLAPS |
| `EgressProxy` | `handle` to `_relay` of the egress proxy, `check_policy`, the SSRF guard | - |
| `EgressProofs` | theorems about `EgressProxy` | `EgressProxy`, TLAPS |
| `MCSupervisor`, `MCReadOutput`, `MCEgressProxy`, `MCDBLogin`, `MCParsePool` | bounded instances | the module they are named for |

### Supervisor

`pc[j]` is the next statement group of the thread that handles request `j`, in
the order of the code: `wait` (362), `parse` (369), `policy` (396), `config`
(400), `egressStart`/`egressWait` (`_start_per_job_egress_proxy`),
`dbStart`/`dbWait` (428-461), `inject` (466-517), `launch` (531), `cgroup`
(538-546), `read` (549), then the finally block in its own order: `stopEgress`,
`stopDb`, `removePolicy`, `removeCgroup`, `killBox`, `release`. `Raise` is an
exception reaching line 578. `raised` is a thread whose finally block raised.

Data is kept as far as the properties tell it apart. A request is one of eight
kinds (bad JSON, JSON of the wrong shape, deny-all, and which proxies it needs,
with a known driver or not). A proxy process is `starting`, `up`, ended before
or after its socket appeared, or has a signal pending; the processes move by
themselves (`EgressMoves`, `DbMoves`, `BoxExits`). `egressKnown` is whether
`task_egress_proc` has been assigned: until `_start_per_job_egress_proxy`
returns, the finally block does not know the process.

`Faults` names the system calls that may fail; each makes its action take a
second branch that leaves what the code leaves: a directory made by `mkdtemp`
and a process that could not be spawned, some of the four descriptors. `fds[j]`
holds the descriptors by the name of the variable that knows them. The fault
`args` is the one failure that does not raise: writing or rewinding the memfd of
the arguments fails, a pipe takes its place in `args_fd`, and the memfd is `lost`,
open until the supervisor ends (`Inject`, `CloseFds`). Every
wait with a time limit may also simply run out (`EgressNotReady`, `DbNotReady`,
`Overloaded`, and the kill in `ReadOutput` and `Stopped`). `Crash` is the death
of the supervisor process and its restart: threads, semaphore and descriptors
go, bwrap goes because of `--die-with-parent`, the rest stays.

### ReadOutput

One call. The process writes lines, unterminated words and pieces of stderr
into two bounded pipes, may close its streams, and ends in one of four ways
(`fate`): it returns and prints the result line, raises, exits without it, or
hangs. The reader is the loop of `_read_output`, one action per system call, so
that the process can move between any two of them. Sizes are counted in pieces;
the result line is two pieces, so that a cap can fall inside it. After the
loop, `ExecuteRpc` is the search for the last line that starts with
`__RESULT__:` and what `_execute_rpc` makes of it. Two causes for leaving the
loop are not modelled: `select` and `os.read` failing on a valid descriptor.

### SeccompTemplate

`os.dup` duplicates a descriptor and not an open file, so the offset is one
variable for all jobs. Each job dups, rewinds and launches; each bwrap reads to
end of file.

### DBProxy

The proxy is one event loop: an action is what a coroutine does between two
awaits that may suspend. `stash` is `MySQLDriver._server_writer`, the only state
two connections share; `route[c]` is the writer the filter of `c` uses. A frame
has a kind (SQL that is allowed or denied, the end of a session, anything else)
and, on an upstream connection, the client it came from. Oversized and malformed
frames end a session the way a denied one does. `Settings` chooses the driver
and, for MySQL, whether the upstream connection is upgraded to TLS inside the
login: from then on the reader the relay holds hears nothing (`Hears`). The
server is modelled from how the proxy uses it: it answers frames in order,
closes on a quit, and may close at any time. A login may succeed or fail at any
time, and either end may leave during it; how a login decides is `DBLogin`.
`MaxFrames` bounds the frames all clients send together.

### DBLogin

One connection from `load_connection_from_env` to the end of its login; before
that end, connections share nothing. `setting` is the driver, `DB_*_SSL_MODE`,
whether the operator requires TLS, whether a CA is given, whether a user is
named, and whether the password is right. `upstream` is the server: whether it
offers TLS, its certificate, how the account logs in, and how it behaves in
SCRAM (sound, a nonce of its own, too few iterations, a wrong signature).

`pc` is the read the proxy waits in. For MySQL: `greeting`, `response` (the
client's HandshakeResponse), `tls` (the handshake of `_wrap_writer_tls`),
`verdict` (the loop of `_drive_server_auth`, with `plugin` for
`current_plugin`). For PostgreSQL: `startup` and `restart` (the client's opening
before and after an SSLRequest was answered), `auth`, `scramFirst`,
`scramFinal`. Of a message its kind, its sequence number, and the plugin and
seed an answer was computed from are kept; hashes are right or wrong according
to these. The server counts packets itself (`next`) and refuses an answer made
with the seed or plugin of before a switch. Client and server may leave at any
time. Packets that do not parse are left out.

`Proxied` maps the login to `DBProxy` with one client: a proxy that has not loaded
its connection to `new`, the labels of the dialogue to `auth`, and a session to
one whose filter and relay have not run yet.

### SqlFirewall and ParsePool

`SqlFirewall` has the rules in the order of the code. A text is what the rules
look at: length, what the two regular expressions find, and the statements
sqlglot makes of it. A statement has the key of its root (`op`), which is all the
rules know of what it does, the marks of the blocked constructs, and what it
really does: `does`, a set of pairs of an operation and a table, those of queries
and changes nested in it included. The rules see of `does` only the tables
(`Named`). Both drivers share `WithinGrants`; `MysqlAllows` and `PgAllows` add what
differs.

`ParsePool` is the event loop (`waitsFor`, the future it is blocked on), the
worker threads and the executor's queue. `sent[c]` and `verdicts[c]` are the texts
of client `c` and the verdicts on the first of them. `Screen` takes the next text
of a client: it decides without a parse or submits one and blocks the loop;
`Answer` and `TimeOut` are `future.result` returning and raising. A denied text ends
the filter (`Filtering`) and not the session. A parse that timed out goes on, in
its worker or in the queue. A text is quick (always in time once it runs), slow
(may take longer than its budget) or endless. The pool keeps, as history, how
many parses were unfinished at each submission (`crowd`).

`Signal` may come at any time. `StopServer` is the end of `run_proxy`: on the Python
3.10 of the image `wait_closed` of a server waits for no handler, and
`asyncio.run` cancels the sessions. Each is then in the finally block of
`handle_client`, where it awaits `wait_closed` of both writers: `SessionCloses` is the
return from it. It never comes where `NeverCloses` holds (section 4), and
need not come for a client in `Deaf`, which may read nothing, so that the writer's
buffer is never flushed. `Exit` is the end of the interpreter, which waits for
every session and joins the workers. Clients that leave, and texts sent after
the end of a filter, are left out.

### EgressProxy

One connection of the sandbox. `pc` follows the coroutine from one await to the
next: `read` (`_read_http_request`), `resolve` (the await in
`resolve_public_endpoints`), `connect` (`open_connection`, once per address),
`relay` (the `gather`), `closing` (the finally block of `handle`). The policy
check follows the request without an await and is part of `ReadRequest`.
`_handle_http` and `_handle_connect` share the actions and differ where the code
does: what `check_policy` is given, whether one or both directions are relayed,
403 or 502 when no address answers, and the 200 of a tunnel.

A policy entry carries the sets of hosts and paths its patterns match; of an
address only its membership in `_PRIVATE_NETS` matters. The name service may
change its answer at any time (`DnsChanges`). The client may shut down its side
or leave, and the origin may end; either may be a reset, which loses what the
proxy has not read yet. The end of one relay is not passed on to the other side,
so a tunnel lasts until both directions have ended.

## 3. Runs

| run | instance | checks | result |
|---|---|---|---|
| `jobs` | 2 jobs (symmetric), 1 slot, all eight kinds, all eleven faults, 1 crash; 3.5 million states | type, slots, sandboxes, leftovers, readiness | holds |
| `slots` | 2 jobs, 1 slot, 3 kinds, no faults, 1 crash | refinement of `SlotPool`, processes end | holds |
| `slot_leak` | 1 job, `os.remove` may fail | "Finally: ... release semaphore" | violated |
| `reader` | cap 3, stderr cap 2, chunk 2, pipe 2, every body of up to 4 pieces and two of 5 | prefix, flag, kills, result, return | holds |
| `lost_output` | empty body or one line | nothing is lost without the flag | violated |
| `seccomp_offset` | 2 jobs | every job loads the filter | violated |
| `db_sessions` | 2 clients, 2 frames in all, all settings; 245,288 states | screening, separate answers, sessions end, answers arrive | holds |
| `shared_writer` | 2 clients, MySQL | a connection carries its own client's frames | violated |
| `deaf_relay` | 1 client, MySQL over TLS | answers arrive | violated |
| `logins` | 1 login, both drivers, all modes, certificates, plugins, accounts and SCRAM servers; 101,407 states | secrets, acceptance, sequence numbers, causes of failure, the end, refinement of `DBProxy` | holds |
| `parse_pool` | 3 clients, one of them possibly deaf, 2 workers, 3 texts in all of 3 kinds, both drivers over TLS; 134,327 states | verdicts, needless timeouts, every text is answered, the process ends | holds |
| `egress` | 1 connection, 4 policies of up to 2 entries, 7 requests, 3 addresses, 1 chunk each way; 131,624 states | policy before lookup, guard before connection, refusals, closes, tunnels | holds |

Bounds, and why they are enough. Threads interact only through the semaphore,
which treats them alike, so two jobs and one slot already contain a wait, a
refusal, an admission after a release, and two jobs in clean-up and set-up at
once; the proofs (section 5) cover every other number. One crash is enough to
meet every state it can hit, since nothing but processes and files survives it.
In `reader` the output exceeds the cap, a chunk and a pipe, in every alignment.
Two database clients are the fewest that can share a driver, and two frames put
one behind a denied one or one on each connection. A login has no counter but the
sequence number, whose range is the longest dialogue; `SomeSettings` and
`SomeUpstreams` drop combinations that differ in nothing the code looks at (the
cache of a plugin that has none, a certificate without TLS, and wrong passwords
and unnamed users under more than two modes). A denied text ends its filter,
so each client times out at most once: two clients can fill two workers with
parses that were given up, and the third meets the full pool. The policy is of
the form the policy schema allows. Over TLS MySQL sessions never close, so that
there the exit is checked for PostgreSQL; without TLS the two drivers' sessions
close alike. Symmetry of the jobs is used in `jobs` alone, which checks invariants only.

Connections of the egress proxy share only a policy that never changes, so one
is enough; two entries for one host, in both orders, make the first decide
against the second (`OnlyListed` demands that it is the first entry with the host
that permits the request, not some entry); two public addresses and a private one give every mixture
of screened, tried and failed; `EgressProofs` covers the other bounds.

`CHECK_DEADLOCK FALSE` stands in every run: each request is handled once and
each client sends a bounded number of frames, so a finished instance really
stops.

Fairness. In `Supervisor`, threads make progress (every wait in
`handle_request` has a time limit) and the kernel delivers pending signals;
nothing obliges a proxy to start or a sandbox to exit. In `ReadOutput`, the
process and the thread are scheduled; the deadline is not assumed to pass. In
`DBProxy`, the event loop runs every ready task and the server handles what it
was sent; logins, clients and closes are not fair. In `DBLogin` there is no time
limit to rely on: the proxy runs when it can, and client and server each go on
with the dialogue or leave; `LoginEnds` says that then no login waits for ever,
which is the absence of a state where each waits for the other. In `ParsePool`,
asyncio runs its callbacks in turn, so a filter that is ready again and again
is run (strong fairness, as other clients block the loop in between), the wait
for a parse is limited, and threads run; an endless parse never ends. A session
closes once it is cancelled if its client reads (`Clients \ Deaf`); that a session
ends before that is not assumed. In
`EgressProxy`, the event
loop runs every ready task, a request is read within ten seconds or given up
(asyncio.wait_for), and a lookup and a connection attempt come to an end, as
the resolver's and the kernel's own limits see to; nobody has to send, to leave
or to close.

The liveness properties of the relays (`AnswersArrive` and `EndsWhenBothGone` of
`DBProxy` and of `EgressProxy`) assume that a peer that is still there reads what it
is sent, so that `drain` returns: a relay's turn is one action, from its read to
its drain. A peer that stays and reads nothing stops the relay towards it, and no
time limit of the code ends that.

## 4. What the violated runs show

* `slot_leak`: an `os.remove` that raises at supervisor.py:610 skips the kill of
  bwrap and the release. The slot is gone for good. Theorem `SlotsComeBack`
  shows this is the only cause.
* `lost_output`: supervisor.py:266-273. select times out, the process prints its
  result and exits, poll sees the exit, the loop ends: the caller gets `None`.
* `seccomp_offset`: supervisor.py:474-477. Two jobs rewind the shared offset before
  either bwrap reads; the first to read takes it to the end of the file, and the
  other reads an empty filter (`copies = 0`), so that its job fails. A rewind
  between the reads of one bwrap would instead give it the filter twice; the run
  asks for at least one copy, and so shows the empty read.
* `shared_writer`: mysql.py:562 and 660. Logins that end in the same turn of the
  event loop leave both filters with the writer of the second.
* `deaf_relay`: db_proxy.py:144. Over TLS, which is MySQL's default, the relay
  holds the reader from before the upgrade.

More things were met on the way, which no run shows; where a property would be
false for them it says what does hold, and its comment names the exception:

* supervisor.py:503-514: when writing the memfd of the arguments fails, the pipe
  that replaces it overwrites `args_fd`, the only variable that names the memfd: the
  job goes on and is answered, the descriptor stays open. `AnsweredClean` excepts
  it (`lost`).
* mysql.py:520: under `verify-full` the name to compare comes from keys of the
  connection that `load_connection_from_env` never sets. `start_tls` is given None,
  which asyncio turns into a TLS object without a name, and such an object compares
  none, whatever `check_hostname` says. A trusted certificate of any name is
  accepted: `verify-full`, recommended at mysql.py:528, is `verify-ca`. The
  PostgreSQL driver gives the name and compares it. `CertificateSuffices` follows
  the code, and `CredentialsProtected` demands the name of PostgreSQL only.
* policy_loader.py:133: `.env.example:33-34` says that
  `SANDBOX_REQUIRE_UPSTREAM_TLS=1` makes every connection have `verify-full`; the check
  also accepts `verify-ca`, as its own docstring says. `CredentialsProtected` demands
  of a required connection what `verify-ca` gives.
* db_proxy.py:149-156: `start_tls` gives the connection to the protocol of the new
  writer, so that the old one is never told that it is lost; `wait_closed` of the
  old writer, the one `handle_client` holds, does not return. After SIGTERM the
  cancelled session stays, and with it the process, which the supervisor kills two
  seconds later. `ExitsUnlessStuck` excepts it (`NeverCloses`).
* postgres.py:162-186, mysql.py:412-441: the operation is the key of the root of the
  tree, the tables are all its tables. What is nested in a statement is judged as
  if it were the root's operation: a query in an INSERT, a DELETE in a WITH before
  a SELECT. Therefore no property says that an allowed text does only what is
  granted; `VerdictsFollowPolicy` says that the verdict is that of the rules.
* postgres.py:131: `validate_sql` does not read the `blocked_statements` it is given
  (db_proxy.py:37, base.py:81-82); only the MySQL rules do. `PgAllows` follows the
  code. No policy `run_proxy` loads has any: the schema has no such key.
* A PostgreSQL client that opens with GSSENCRequest waits for ever: the request
  is passed on, and the one byte of the answer is not a frame. `LoginEnds`
  excepts it.
* db_proxy.py:245 logs "Draining active connections", but nothing is drained: the
  sessions are cancelled (`StopServer`).
* `_sql_parse.shutdown` has no caller: the interpreter joins every parse at exit,
  so that one that never ends holds the process (`Held`).
* The comment at mysql.py:522-523 says the response keeps its number after an
  SSLRequest, while the code adds one, as the protocol wants (`InSequence`).
* An egress proxy that fails while it starts leaves its directory, since the
  finally block does not know it yet (supervisor.py:167), and the cgroup of a bwrap
  that still runs when it is to be removed stays (supervisor.py:613).
  `AnsweredClean` excepts both. The directory `db_mount` of supervisor.py:435 is one for
  all jobs and is never removed; it is not part of the model.

egress_proxy.py:307 drains the 200 before the try
block that closes the origin: if the client has left by then the connection to
the origin stays open until it is collected. No text of the repository promises
a close, so `OriginClosed` states what does hold, with this one exception.
postgres.py:363 passes an `SSLSocket` to
`asyncio.open_connection(sock=...)`, which Python 3.11 and later refuse with a
TypeError; the image installs 3.10, which is the one modelled.

## 5. Proofs

Each module names what it assumes of its constants (`SupervisorAssumption`,
`SizesAssumption`, `BodiesAssumption`, `StreamAssumption`, `LoginAssumption`,
`EgressAssumption`,
`PoolAssumption`): sizes are natural numbers, sets contain what their comment
says. The theorems hold for all such values, and TLC evaluates the assumptions in
the runs.

`SupervisorProofs` proves, for any finite set of jobs and any values of the
other constants (assumption `SupervisorAssumption`), that `TypeOK`,
`SlotConservation`, `SandboxSupervised` and `RunningBounded` are invariants.

None of the last three is inductive alone. `RunningBounded` follows from
`SandboxSupervised`, since a running sandbox's thread holds a slot, and
`SlotConservation`, since there are no more holders than slots. Conservation
needs to know that the only labels that change the set of holders are those of
`Acquire`, the early return of `ParsePolicy`, `Release` and `Crash`. The proof
therefore sorts the actions: *inside* actions move a thread between two labels
that both hold a slot (`InsideStepConserves` treats all of them at once), and
the four others are done one by one with the cardinality lemmas
`HoldersAdd` and `HoldersRemove`. `IInv` is the conjunction; `InductiveInvariant`
is the theorem the others cite.

`SupervisorCleanProofs` proves `AnsweredClean`: whichever calls failed, an answered job
holds nothing but, at most, the three leftovers of section 4 (the memfd a pipe
replaced, the egress directory, the cgroup). "Done" says nothing about how a
job got there, so the invariant `JobClean` says, label by label, what a thread
may still hold: which descriptors before and after the launch, when the proxy of
the egress wait is still unknown to the finally block, and what each step of the
block has taken away. `ProxiesFirst` proves `ProxiesBeforeSandbox`: `JobReady` says
from which label on a needed proxy has opened its socket, and that nothing that
happens to it later undoes that. `SlotsComeBack` adds that without the fault at
`os.remove` no thread ever reaches `raised`, and concludes with conservation.

`SupervisorRefinement` proves the safety half of `ImplementsSlotPool`. A step of
a thread changes the status of its own request only (`OneStatusChanges`); the
pool's admitted requests are the holders, so that conservation turns the value
of the semaphore into the pool's guards; inside actions stutter, and a crash is
the pool's `Die`. The mapping looks at the outcome of a request that is done,
which needs one more invariant: an overload answer is final (`RefusedIsDone`).

`EgressProofs` proves the five invariants of `EgressProxy` for any policy, set of
hosts, addresses and requests, and any number of chunks. `EInv` adds what holds
before a request is read (`BeforeRequest`), before a connection exists
(`BeforeConnect`), that every address still to be tried has passed the guard
(`EndpointsScreened`; this makes `OnlyScreened` inductive, as the name service
moves on in the meantime), which connections the handler still owes a close
(`OriginAccounted`), and that nothing is read that was not sent
(`ChunksCounted`, which bounds the counters for `TypeOK`). `AnswersNotCutOff`
proves the action property `NothingCutOff`, from `DownInv`: the relay to the
client is done only when the origin has ended with nothing left to pass on, or
the client has left.

`ReadOutputProofs` proves `TypeOK`, `KeepsPrefix`, `TruncatedHonest` and
`KilledForCause` for any caps, sizes and outputs. `Kept` is what makes them
inductive: as long as nothing was cut, what was written is what was read
followed by what is in the pipe, so that a chunk moves from one to the other
without loss; after the cut, the buffer is full and a prefix, and writes only
extend what it is a prefix of. That stdout is complete when the loop stops
watching it needs `AtEnd`: select reported it only with data or with its write
end closed, and nothing but the reader takes data away.

`ValuesReported` proves `ValueReported` under `NoOwnMark`, that the function prints no
`__RESULT__:` line of its own: the dispatcher lets it, and one that did and then
closed its stdout would be reported as the text it printed. The instances keep to it
(TLC evaluates `NoOwnMark` in them). `VInv` follows the result line from the script
to the buffer: it is still to be written, can no longer be, is written up to
the cut, or is written (`Marked`), and a process cannot exit with a status of
0 while it is half written. With `Kept` this makes a buffer that was neither cut
nor left behind end with the whole line, and `WholeIsValue` shows that the
parser then finds that line and no other.

`DBProxyProofs` proves `TypeOK`, `ForwardsScreenedPrefix` and `RelaysInOrder` for any
set of clients and any bound on frames. `PInv` says, client by client, that until
its filter is done what it sent is what was passed on followed by what is unread
(`Screened`), and that while the client is there what was served is what was
delivered followed by what the relay has not read (`Relayed`). `Stashed` keeps the
shared driver in it: MySQL's stash holds some stream once a filter exists.
`PostgresKeepsApart` adds that under PostgreSQL no frame reaches the connection of
another client, so that the defect of `shared_writer` is the MySQL driver's alone.

`DBLoginProofs` proves `CredentialsProtected` and `SessionMeansAccepted` for every
setting and server. What protection a mode gives is what the code makes of it:
under `verify-full` the name of the certificate is part of it for PostgreSQL and
not for MySQL (`CertificateSuffices`, section 4). The first needs `LInv`: from which label on the connection
has the protection that is demanded (`Secured`), and that only those labels are
reached with a credential in the channel (`Protected`). The second needs more
(`SInv`), as an acceptance may come from a server that never proved itself:
`Turns` says that the dialogue has turns, so that whoever reads has nothing else
unread and an OK cannot be one left over; `Verified` at which label and stage
the SCRAM exchange has been checked; `Told` that what the client was told of an
acceptance comes after both.

On `SInv` rest four more layers, each the induction hypothesis of the next, so that
every one is a small invariant with its own lemma per handler:

- `CInv` (`Closing`): a server that has refused has nothing to read and sends only
  its refusal. Without it the refinement fails, as a connection the server is
  about to close could be one that DBProxy still sees as connecting.
- `NInv` (`Numbered`): at which label of the proxy and which stage of the server
  which packet number is next. `InSequence` alone is not inductive: that the proxy
  answers the greeting it read with 1, and after TLS with 2, is known only with
  the stage and with what the client was told so far.
- `KInv` (`Caused`): what a refusal, a request for the whole password, a switch or
  an unknown method on its way says about settings and server. `FailsForCause`
  looks at the moment of the failure; `Caused` carries its cause there.
- `TInv` (`Sized`, `Said`): how far each stage lets the numbers get, and when a client
  can have been told how much. Both drivers are bounded by their dialogue, not by a
  counter, so that the bounds of `TypeOK` need all the layers below.

`LoginImplementsDBProxy` is the refinement: `InitRefinesProxy` and
`StepRefinesProxy` map the initial state and every step of `Spec`. Every step of the
proxy is one of five moves (`ProxyMoves`); moves within the login and everything the
server says short of a refusal stutter (`Unseen`), connecting, success, failure,
the client's leaving and the server's closing are the steps of DBProxy of that
name. DBProxy's fairness is not part of it, nor of `ImplementsDBProxy`.

`ParsePoolProofs` proves `TypeOK`, `VerdictsFollowPolicy` and `NoNeedlessTimeout` for
any policies, texts and numbers of clients and workers. `PInv` adds that idle
workers and running parses add up to the pool (`WorkersConserved`), so that a
parse that found no idle worker found the pool full of unfinished ones
(`LateMeansCrowded`); that a submitted text is one the rules had not decided
without a parse (`SubmittedUndecided`); and that the client whose parse the loop
waits for still has it to be decided next (`AwaitedIsNext`), so that its verdict is
the one whose turn it is (`InTurn`). That the verdicts are the rules' own is
proved; what the rules let through is not the subject of the theorem (section 4).

Only model-checked: liveness (`NothingLeftRunning`, `ReaderReturns`,
`EndsWhenBothGone`, `AnswersArrive`, `LoginEnds`, `EveryTextAnswered`,
`ExitsUnlessStuck`, the fair part of `SlotPool`), which TLAPS cannot do. Every
invariant and every action property of the passing runs, and the safety part of both
refinements, is a theorem.

## 6. Not modelled, and the plan

Mounts and environment of the bwrap command, the schema check of the policy
loader, the driver registry, the deployment files and log records have no state
and no order that a property could be about. Of the policy loader the TLS
invariant and what it leaves unset are in `DBLogin`. What sqlglot, bubblewrap,
the kernel and the databases do inside is external, as are the cryptographic
functions of the logins.

Clients that leave are left out of `ParsePool` (they are in `DBProxy`), and the
sessions that are not over when the supervisor kills a proxy are its `kill` in
`Supervisor`. Malformed packets and MySQL capability flags are left out of `DBLogin`, and frames
split across reads of both `DBLogin` and `DBProxy`: the code ends a login on the
first, negotiates the second once, and reads whole frames with `readexactly`.

Two hazards have no property. That a silent origin holds its handler
(egress_proxy.py:236): nothing is promised about it. And that nested operations
are judged by their root's (postgres.py:162): the model can express them (`does`),
but what one would ask of them does not hold.

Left for later: `LoginEnds` for a proxy with a time limit, should the code get one.
