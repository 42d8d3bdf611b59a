# Verification of vpsmcp in TLA+

vpsmcp is a gateway between MCP clients and a fleet of servers: an OAuth 2.1
authorization server, a set of MCP tools, and a pool of SSH connections the tools
share.  This directory holds TLA+ models of its concurrent and persistent parts,
the TLC configurations that check them on small instances, and theorems about
them checked by TLAPS.  Paths below are relative to `src/src/vpsmcp/`.

## The system

One asyncio process (`vpsmcp serve`) does the work.  Beside it run short-lived
command line processes (`vpsmcp revoke`, `unlock`, `redirect`, `node`), which share
its SQLite database `oauth.db` and its inventory files, and, where installed, an
egress proxy.  Inside the process coroutines interleave at `await`s; two reapers
(`ssh/pool.py` every 30 s, `runtime.py` every 60 s) run among them.  On the nodes,
scripts and processes the gateway started run by themselves.

| Component | State | Operations | Correct when | Module |
|---|---|---|---|---|
| Token endpoint (`auth/oauth.py`, `auth/store.py`) | tables `clients`, `auth_codes`, `refresh_tokens` | register, authorize, token (code, refresh), revoke, `gc`, `delete_client` | a code is redeemed once; rotation never forks a family; a replay kills the family for good; scope never widens; a client with a secret always presents it | `OAuthGrants` |
| Callback allowlist (same files) | tables `redirect_allow`, `redirect_rejects` | register, authorize, `vpsmcp redirect` | nothing is sent to a callback that is not allowed; what was refused is listed | `Callbacks` |
| Login form and enrollment gate (`auth/oauth.py`, `enroll.py`) | failures and locks per address | login, gate, `vpsmcp unlock` | no failure is forgotten; guesses are spaced | `Lockout` |
| Connection pool (`ssh/pool.py`) | `_conns`, `_locks` | acquire, pin, unpin, reap, close | one connection per node; through its jump host; nobody waits for ever | `SSHPool` |
| Handles (`ssh/session.py`, `logs.py`, `tunnels.py`, `runtime.py`) | `_sessions`, `_subs`, `_tunnels` | open, close, reap | a handle holds its connection; what is dead is cleaned up | `FleetHandles` |
| Shell (`ssh/session.py`) | lock, buffer, channel | run, close | a call gets its own output, and an end | `ShellSession` |
| Log subscription (`ssh/logs.py`) | line splitter, ring, `seq`, `dropped` | pump, read, close | lines in order, gaps only where `dropped` says so | `LogBuffer` |
| Command runner (`ssh/runner.py`, `tools/core.py`) | drains, semaphore | exec_many, run_command | every host answers; a cut is said to be one | `CommandRun` |
| File tools (`tools/files.py`) | a path and its backups on the node | write, copy, delete | what is overwritten can be had back | `RemoteFiles` |
| Jobs (`ssh/jobs.py`, `tools/ops.py`) | files and processes on the node | start, status, output, kill, purge | reports are true and final; output without gaps | `Jobs`, `JobOutput` |
| Inventory (`inventory.py`) | files in `hosts.d`, what the watcher read last | load, select, write, remove | a reader finds whole entries; what is written is seen | `Inventory` |
| Enrollment (`enroll.py`) | pending reports, entries of the inventory | register, approve, deregister | no entry of a node that nobody reached; in approve mode nothing nobody approved; every registration is answered | `Enroll` |
| Egress proxy (`proxy.py`) | two streams per connection | connect, forward, splice | only to checked addresses; nothing cut off; both ends closed | `Proxy` |
| Policy (`policy.py`, `runtime.py`) | none | guard | a tool needs the scope of the token and of the host | guards in `FleetHandles` |
| Profiles, addresses, setup, deployment | files | administration | - | not modelled |

Interaction: tools call `Runtime.resolve` (inventory and policy) and `Runtime.conn`
(pool); handles pin pool entries; enrollment writes the inventory and probes through
the pool; the command line shares tables and files with the server without any lock
but SQLite's.

What is hard here: two statements of one request with another process or a crash
between them; state that is read before an `await` and used after it; counters kept
per node and not per connection; nested locks; reapers that judge by time stamps; a
marker that ends one command's output on a stream the next one shares; scripts on a
node that read files and processes one after the other.  `PROJECT.json` lists the
hazards with their lines and the properties about each.

## Modules

| Module | What it is |
|---|---|
| `GrantFamily` | abstract: the life of one consent (offered, held, dead) |
| `OAuthGrants` | the token endpoint, one action per SQL statement |
| `ConnCache` | abstract: what the documentation promises of the pool |
| `SSHPool` | `ssh/pool.py`, one action per piece of coroutine between suspensions |
| `FleetHandles` | `SSHPool` composed with the tools, the handles that pin its entries, the scopes and the edits of the inventory |
| `Inventory` | the files of `hosts.d`, `write_host` in its three steps, the watcher |
| `Enroll` | registrations, deregistration, `vpsmcp node` and restarts over `Inventory` |
| `ShellSession` | one shell and the calls that share it |
| `CommandRun` | `exec_many` and the commands it runs |
| `RemoteFiles` | the file tools on one path |
| `Jobs`, `JobOutput` | the life of detached jobs; the reading of their logs |
| `LogBuffer` | one subscription: splitter, ring, cursor |
| `Proxy` | one connection to the egress proxy |
| `Lockout`, `Callbacks` | the parts of the authorization server beside its grants |
| `*_proofs` | theorems: `OAuthGrants`, `SSHPool`, `FleetHandles`, `Enroll`, `Jobs`; `AuthServer_proofs` for `Lockout` and `Callbacks`; `Remote_proofs` for `MCRemote` and its three components; `Parts_proofs` for `LogBuffer`, `JobOutput`, `Proxy` and `MCParts` as a whole |
| `MC...` | values of constants, symmetry and bounds of a behaviour for TLC; `MCRemote` and `MCParts` put components into one run each |

The small components of `MCRemote` (`ShellSession`, `CommandRun`, `RemoteFiles`) and of
`MCParts` (`Jobs`, `JobOutput`, `LogBuffer`, `Proxy`, `Lockout`, `Callbacks`) share no
variable.  A behaviour of these modules is one of a single component, chosen by `part` in the
initial state, while the others stand still: this is the union of their state graphs and not
the product.  An interleaving would add nothing, since none of them reads what another
writes; in the code they meet only in the pool, which `FleetHandles` models, and where a
purge removes the log of a job under a client that reads it, which is left out.

### OAuthGrants

`Store._x` commits each statement, so a statement is an action.  The handlers of the
token endpoint do not suspend between statements, so one handler (`srv`, with its
program counter and locals) is under way at a time; only a second process, a crash
or the clock comes between.  `codes[k]` and `tokens[t]` are the rows; a row is
`fresh` before its random value has been drawn and `gone` after `gc` deleted it, and
the code sees no row in either case.  A family is the hash of a code, here the code
itself.  `cli` is a `vpsmcp revoke` between its two statements.  PKCE verifier,
redirect and resource are booleans: whether they match.  The secret is a boolean:
whether it was presented.  `authorize` is `ResolveClient` (which may await a metadata
document) and then `PutCode` or `AuthorizeEnds`.  `killed` and `revoked` are history.
The clock ticks in units for which `CodeTTL`, `RefreshTTL`, `CodeKeep` and `TokenKeep`
give the lifetimes and the delays of `gc`.

Left out: the login that precedes consent, the subject (one administrator), the access
token (a signed value nobody stores), and audit lines.

### SSHPool

A task is a call that wants the connection of a node.  `task[p].at` is the node of the
innermost frame of `acquire` it is in; the outer frames are those nodes whose lock it
owns.  `Look` is the look without the lock; `LookAgain` the look with it, then the
recursion for the jump host or the connect; `Connected` and `Fail` are what the connect
can do; `Cancel` is a cancellation in the queue of a lock.  An exception leaves every
frame (`Leave`), so all locks of the task are released.  `run` holds the task that has
not suspended yet, since `acquire` calls itself without giving up the loop.  The
`asyncio.Lock` is external: `release` hands it to the first waiter, a cancelled waiter
leaves the queue.  `Age` abstracts `idle_conn_ttl`: after it, and before the next
acquire, the reaper finds the entry idle.  A restart is either orderly or a crash.

The jump relation is a constant: an edit that changes a jump host while calls are under
way is not modelled (edits of what a host grants are, in `FleetHandles`).  Failures of key files and host key checks are failures of the connect.

### FleetHandles

Each task may become a handle: `Open` is a manager's `open` up to its `acquire`,
`Register` the rest, when the process or the listener exists, with the pin.  `GoesDown`
is a shell that exits, times out or fails to boot, or a pump that ends.  `Close` is any
manager's `close`: `ShellClose`, `LogClose` and `TunnelClose` are the tools, which ask for
the token's scope and not for the host's, since the host may be gone; `ReapDown` and
`ReapOld` are the runtime's reaper, which closes shells that are down in any case and idle
shells and old tunnels by their age (here: at any time).  Subscriptions have no reaper.
`Exec` stands for every tool that only borrows a connection.

`Guard` is `policy.guard`: the token must carry the scope and the host must grant it, with
`fleet.admin` standing for all.  `scopes[n]` is what the inventory says of the node now;
`Edit` changes it between any two steps of a call, and an empty set is a node that was
removed.  Handles and connections that exist stay.

### Inventory and Enroll

`Inventory` has no behaviour of its own: it gives the steps on the files that `Enroll`
puts into its actions.  The gateway and `vpsmcp node` write a node through one and the
same `<node>.yaml.tmp`, so `write_host` is three steps: `Truncate`, `Write` and
`MoveIntoPlace`.  `handle` is what a writer has open; it follows the file through a
rename.  `Torn` is what a file holds that is empty or half overwritten.  `snap` and
`snapTime` are the watcher's; a load is `ReadFiles` and then `NoteTime`, between which
the command line may write.  `remove_host` (look, then unlink) is one step.

In `Enroll`, `job[w]` is the place and the locals of a registration or of a command, and
`loop` the handler that keeps the event loop: from the write of the entry to the acquire
of the connection `register` does not suspend.  `Register` or `RegisterPending`, `Open`,
`Fill`, `Replace`, then `GetSnapshot` or `GetReads` and `GetRead` (`self.inv.get()`),
`Acquire`, `Probe`; `RegisterFails` is any exception inside the `try`, with the removal of
the entry, and `ReplaceFails` the one outside of it.  `Cli...` are the commands, which
may be interrupted anywhere; `CliApprove` and `CliTake` are the two statements of
`take_pending`.  `Tool...` stands for every call that reads the inventory or connects.
`mode` is the setting and does not change; `approved` is history, and so is `crossed`, the
writers whose last write of an entry found another one's under way, or was found by one.

Left out: the gate, whose counters are in `Lockout`, the table `nodes` (a list for display),
the hand-written `hosts.yaml` (it does not change here), lookup by alias and tag, and a
report's fields other than its host key.  `label` stands for what the administrator edits.
`MaxTime` bounds the clock: the first `MaxTime` writes have mtimes of their own, later
ones fall into one tick, as writes within the resolution of the file system do.

### ShellSession

The shell's output is a stream of pieces: output, a marker, and the tail of the marker's
line with the exit code and the directory, which may come in a later read.  `ShellRun` is
`shell_run` up to the session's lock, `Locked` what follows when the lock is had; in
between `closed` is not looked at again, but what is written to a channel that was closed
raises (`Write`).  `Cancel` is a client that takes its request back: the lock is released
and the command goes on in the shell.  `Read` keeps the last part of a buffer that grows
past four times the limit.  The shell itself (`ShellPrints`, `CommandEnds`, `ShellDies`)
may print for ever, up to `Window` pieces ahead of the reader.

### CommandRun

`Enter` takes the semaphore of `exec_many`; `Started`, `Drain`, `Drained`, `Ended` are
`run_command`; `Raises` is any exception, which `one()` turns into a row; `TimesOut` is the
timeout while draining or the 10 s after it, `GivenUp` the 5 s after the kill.  Output is
counted in pieces; a command that fills a pipe nobody reads waits.  A process left behind
may hold the streams after the command has exited, and a command may close its streams and
go on.

### RemoteFiles

Calls of four kinds (with backup, without, append, copy from another host) on one path:
look, name the backup by the second, `cp`, open with truncation, write.  A file that was
removed while it is open takes what is written to it along.  `shadow` is what a call
overwrote, `past` what has been at the path since a call looked until it opens it, `met` the
calls under whose copy the path changed, and `shared` those whose backup another call's `cp`
has replaced: history.

### Jobs and JobOutput

The scripts that `job_start`, `job_status`, `job_kill` and `job_purge` run on the node are
modelled one command at a time, so that the wrapper and other scripts come between.
`wrapper[j]` is the process whose number is in the pid file: not yet in its session
(`forked`), in it (`running`, `writing`), a zombie, gone, or, when the number was given to
another process, a `stranger`.  `file[j].pgid` says whether the group that was noted is the
job's own or the start script's, which `ps` may still report.  The node may restart; a call
may be lost at any step.  `job_list` is `job_status` of each job.

In `JobOutput` a log is a sequence of bytes, some of them halves of a character; the client
reads from `next_offset`, which the gateway computes from decoded text whose newlines at the
end were end were stripped, capped by a size that was taken before the bytes.  `halves`, history, counts
the halves of characters that answers showed.

### LogBuffer

A chunk is the sequence of the lengths of its pieces between newlines.  `Cut` is the inner
loop of `_capped_lines`, `Push` and `StreamFails` are `_pump` (the notice of a failed pump
is appended without being counted), `Read` is `log_read` with the client's cursor.
`printed`, `long` and `last` describe the input: history.

### Proxy

One connection from its head to its end.  `dns` is what the name resolves to now and may
change at any time before the connection is opened; `ResolveTarget` looks at every address
and pins the first.  A peer is up, has ended its own direction, or is gone; a transport is
closed whole, as `writer.close()` does, which is why a pipe that ends takes the other
direction's writer along.  `Crash` are exceptions that `handle()` does not expect.

`slow` are the peers that do not read now; a pipe that writes to one of them may find its
window full and waits in `drain()` (`full`) until the peer reads or is lost.  The 200 of a
CONNECT is a step of its own, after the connection to the server: `Confirm`, or `ConfirmFails`
when the client is lost by then, which leaves the server's transport to the garbage collector.
`RelayPiece` leaves out the wait for a client that does not read, as no property is about how
long a plain request takes.

### Lockout and Callbacks

`Lockout` has both tables of counters.  `login_failed` is a SELECT (`LoginWrong`) and an
INSERT (`LoginFailed`), between which only `vpsmcp unlock` runs, a process of its own;
the gate of enrollment uses one action.  A lock is the seconds it still lasts, and `Tick` a
second.  `streak` and `owed`, history, are the failures since the counter was last cleared
and the wait they ask for.

In `Callbacks` prefixes are relations between callbacks: `Accepts` (what `redirect_allowed`
lets in), `Like` (the rows SQL's LIKE removes, which is neither more nor less) and `Matches`
(what a registered callback stands for, with any port on loopback).  The server's handler
registers, authorizes, or notes a refusal by UPDATE, COUNT and INSERT; `vpsmcp redirect`
allows (an INSERT and the cleaning of the list), denies and clears.

## Runs

| Run | Bounds | States | Shows |
|---|---|---|---|
| `OAuthGrants` | 1 code, 1 permission and `offline_access`, lifetimes 0, delays 1; either 1 client, 3 refresh tokens and a clock 0..2, or, with PKCE required and no clock, a DCR client and a CIMD client and 2 refresh tokens | 1.18 M | `OneLivePerFamily`, `KilledFamilyStaysDead`, `TokenWithinGrant`, `PkceAtIssue`, `OwnerAuthenticated`, and `GrantLifecycle`: the tables implement `GrantFamily` |
| `SSHPool` | 3 nodes in a chain; 3 tasks and 2 connections, or 2 tasks and 3 connections, or 2 tasks that want the first two nodes and 4 connections; no symmetry | 0.15 M | `SingleFlight`, `ThroughJump`, `CacheOfConnections`: the pool implements `ConnCache`; `Answered` |
| `FleetHandles` | 1 node, which may be taken out of the inventory and put back, 2 tasks, one with a token for everything and one that may read and execute, 3 connections, all three kinds of handle | 0.46 M | `NoPinLeak`, `Drains` |
| `Enroll` | 2 nodes, 3 registrations, 2 keys, 3 distinct mtimes, no command, 1 restart | 0.64 M | `WritesSeen`, `BrokenNodeGone` |
| `EnrollCli` | both modes, 1 node, 2 registrations, 1 command, 1 restart, no symmetry | 0.42 M | `ApprovedOnly`, `RegisterAnswered`, `TornOnlyByTwo` |
| `Remote` | shell: 3 calls, window 1, limit 1; exec: 2 hosts, 1 at a time, cap 1, pipe 2, 2 pieces per stream; files: 2 writers, one of them with a backup, file limit 1, 2 seconds | 0.25 M | `OwnOutput`, `DestroyedRunsNothing`, `EveryRunEnds`; `SaysWhatItCut`, `EveryHostAnswers`; `BackedUp`; `RemoteTypeOK` |
| `Parts` | 1 job, 1 poller, 1 client that kills and purges, 1 reboot; ring 2, page 1, lines of 2, 6 lines; a log of 6 bytes, with characters of one byte and of two, read 2 at a time; 2 public addresses and 1 private, 2 pieces; 1 address, 4 failures; 1 client, 2 callbacks, one a prefix of the other, a list of 1 row | 0.13 M | `ReportsTrue`, `PurgedOver`, `FinishedFinal`, `Settles`; `LinesOfInput`, `LossCounted`, `ReaderCatchesUp`; `GapFree`; `OnlyPublic`, `NothingCutOff`, `TunnelEnds`; `NoFailureForgotten`, `SpacedGuesses`; `SentAllowed`, `RefusedListed`; `PartsTypeOK` |

Type invariants that are theorems are not spent on a run; `RemoteTypeOK` and `PartsTypeOK`
are checked because they bound buffers (what a shell's reader keeps, what a relayed copy
takes, the ring, the splitter's rest, the list of callbacks) that faults of the code exceed.

Why the bounds are enough: three refresh tokens are two rotations, so a token that was used,
one that is being used and one that is being issued exist together; two clients are an owner
and another; with the clock at 0..2 every row meets each of its times (valid, expired,
collected) with both orders of its neighbours.  Three tasks are one that connects, one that
holds the lock of the next hop and one that waits; a chain of three nodes nests the recursion
twice, and takes three connections to connect; four connections are both hops of a node, lost
and made again.  Connections are drawn from a bounded set, in a fixed order since they are
alike, and given back only at a restart; when all are used, a connect can only fail.  Three
tasks with all four connections would not fit into a run that checks liveness; but for
`Answered`, what the run checks is proved for any number of each.  In `FleetHandles` three
connections of one node are one under a stale handle, its replacement, and one after that.
Three registrations of two nodes are two that overlap on one node and one on the other, so the
newest mtime may be another node's.  In `Enroll` every registration writes at most once, so
three mtimes keep all writes apart, which `WritesSeen` needs: two writes within one tick look
the same to the watcher, and so do writes of another process during a load.  `EnrollCli`
therefore does not check it, but with a command beside two registrations it has two writers of
one temporary file.

Three calls on a shell are one that was cancelled, one that reads past its remains, and one
that waits; a window of one piece in front of a marker lets a read end before, at and after
the marker, and a limit of one lets output past four pieces be trimmed.  Two hosts with one
permit are a host behind another; two pieces under a cap of one are a chunk that fills the
room, one that exceeds it and one that comes after.  Two writers within two seconds are a
backup of its own, with another call's write, copy or removal at any of its steps, and one
that shares its name.  A ring of two with pages of one lets lines fall out between two pages;
chunks end before, in and after an over-long line.  A job's races are between its own
processes and scripts, so one job suffices, with one client that looks and one that acts.  A
lock reaches its greatest exponent and, for the gate, its cap within four failures.  One
refused callback fills a list of one.

Runs that are expected to be violated show where the code does not do what its
documents say (`findings` in `PROJECT.json` quotes them):

| Run | Property | What happens |
|---|---|---|
| `OAuthRevoke` | `RevokedClientHoldsNothing` | a code approved before `vpsmcp revoke`, or a rotation its sweep falls into, leaves the client a live token |
| `HandlesHeld` | `HeldConnNotReaped` | a stale handle's close takes the pin of another handle's connection |
| `EnrollRollback` | `FailureRollsBack` | a failed registration of an enrolled node removes the entry that was there before |
| `EnrollTorn` | `NeverTorn` | the gateway and `vpsmcp node` write one node at once, and an empty file is moved into place (inventory.py:218) |
| `OutputGaps` | `NoGaps` | a read ends within a character, which is decoded as three bytes, and the offset runs ahead of what was given (ARCHITECTURE.md:118) |

The models allow more, for which there is no run.  Some of it the documents do not say:

* the replay of a code whose row `gc` collected is not recognised (ARCHITECTURE.md:154);
* the jump host's connection is not pinned by a shell behind it, and a connection may be
  reaped under a command that runs for longer than `idle_conn_ttl` (ARCHITECTURE.md:138, 139);
* the removal of a file that is not the newest is not noticed by the watcher, and the
  node stays usable until another write (OPERATIONS.md:30);
* a registration may be probed over a pooled connection that was checked against the
  previous host key (OPERATIONS.md:73, 76);
* a stop of the gateway between write and probe leaves an entry nobody verified, and a
  command that edits an entry may write it back after it was removed (OPERATIONS.md:77).

On some the documents are silent, or the properties say so by an exception:

* a job answered with `killed` may still run, when the group that was noted was the start
  script's; a kill may hit another process that has the number; a job that ends between two
  reads of a status is told `aborted` once;
* a host's grant that is withdrawn while a call waits for the shell's lock is not noticed;
* what a cancelled call left in the shell comes out before the next call's output, and so
  does the end of a marker's line that came in two reads (`OwnOutput`);
* when `cp` fails, the file is overwritten and the answer names no backup; two backups
  within a second share a name, and the later `cp` may find the file truncated already; after an
  edit between `cp` and `open` the backup is not what was overwritten (`BackedUp`);
* `vpsmcp unlock` between the two statements of a failed login is undone by the second;
* LIKE cleans rows of the table of refused callbacks that the prefix does not let in, a full
  table takes no more, and `vpsmcp redirects` shows the 20 rows seen last of its 200, though a
  comment says that every refused callback is listed (oauth.py:160): `RefusedListed` is about
  the table;
* the limits of shells, subscriptions and tunnels are passed by opens that overlap;
* subscriptions whose pump ended are never reaped;
* jump hosts in a circle wait for each other's locks for ever; `Answered` is checked for
  chains;
* a client of the proxy that closes its half first loses the rest of the answer
  (`NothingCutOff`);
* the proxy waits in `drain()` without a timeout: a peer that never reads keeps its tunnel for
  as long as it stays connected (`TunnelEnds` has the premise that both read in the end); and
  when the client is lost before the 200 has been written, nobody closes the connection to the
  server (`ConfirmFails`).

Deadlock is checked in every run but `Remote` and `Parts`, where components really finish
(a shell that is closed with every call done, a connection that is over).  Every property of
a passing run has a mutant of the model, a plausible fault of the code, that violates it; the
faults stand beside the definitions they replace, marked "Fault of".

### Fairness

`FairSpec` of `SSHPool` asks for strong fairness of each task's own steps: asyncio runs every
callback that is ready, in order, and `connect_timeout` ends every connect.  Strong, since a
step is disabled while another task keeps the loop (`run`), and an attempt that can succeed
may instead see its tunnel lost; no fairness is asked of losses, cancellations or the end of a
call.  `FairHandles` adds that the two reapers come round for ever and that time passes;
nobody has to close a handle that is up.

`FairSpec` of `Enroll` asks for strong fairness of each registration's steps together (a
connect ends after `connect_timeout`, the command on the node after 20 s, and while
another handler keeps the loop none of them is enabled) and for weak fairness of the
second half of a tool's load.  Nothing is asked of commands, tools or the network.

In the small components: `ShellFair` is weak fairness of a call's own steps, where
`wait_for` makes the timeout one of them; the shell owes nothing.  `RunFair` is weak fairness
of the semaphore, of the connect (which succeeds or raises) and of the two timeouts, not of
the drains or the command, which may print for ever.  `JobsFair` is weak fairness of the
wrapper's last two commands (the kernel runs it) and strong fairness of a poller's calls:
somebody keeps asking, and not every call is lost.  `ProxyFair` is weak fairness of the pipes'
steps that can be taken: a piece that is there is passed on, and a `drain()` whose peer reads
returns.  A pipe's end is only owed while the peer it still has to write to reads, since a
reader hands out what it holds before it ends.  That peers read is not assumed: it is
the premise of `TunnelEnds`.
The reader of a log reads again and again (weak fairness of `Read`), which is what
`ReaderCatchesUp` is about.

## Proofs

All theorems hold for any values of the constants that satisfy the assumptions stated in the
modules (`SetsAssumption`, `TimesAssumption`, `PoolAssumption`, `HandlesAssumption`,
`EnrollAssumption`, `ValuesAssumption`, `RunAssumption`, `FilesAssumption`, `JobsAssumption`,
`ProxyAssumption`, `LogAssumption`, `OutputAssumption`, `ShellAssumption`, `LockoutAssumption`,
`BackoffAssumption`, `CallbacksAssumption`), finite or not; only what counts asks for a finite
set: `HandlesAssumption` of tasks, and the hypothesis of `WritesAreSeen` of registrations.
`BackoffAssumption` says that more failures never mean a shorter lock; TLC evaluates it.

* `TypeCorrect`, `OneLive`, `KilledForGood` (`OAuthGrants_proofs`).  The inductive invariant
  joins the types with what links the handler to the tables: a handler past a burn owns a
  family without live tokens, a killed family has a used or collected code, and only a
  handler that read a live token can be about to issue.  `OneLivePerFamily` alone is not
  inductive: an `issue` needs to know that nothing is live, which the burn establishes,
  while `KilledFamilyStaysDead` needs that a family with a live token was never killed
  after the handler read it.
* `NeverWidened`, `PkceHolds` (`OAuthGrants_proofs`).  `GInv` adds that a row keeps the
  columns its grant gave it, that the approved scope is not empty and that what a handler
  is about to write lies within its code's row.
* `SecretRequired` (`OAuthGrants_proofs`): `OwnerAuthenticated`, also while clients are
  deleted and registered again.
* `PoolTypeCorrect`, `OneConnection` (`SSHPool_proofs`).  The invariant `PoolInv` adds to
  the types that a lock's queue holds each waiting task once and only tasks that wait
  there (`Queues`), that a connecting task owns the lock of its node and a waiting one is
  its owner or in its queue (`Placed`), that while the owner of a lock is past the second
  look the node has no entry (`EmptyHanded`), and that an open connection is the entry of its
  node (`Known`).  Two connects of one node then need two owners of one lock.  No assumption
  is made on the jump relation, so this holds for jump hosts in a circle too.
* `AlwaysThroughJump` (`SSHPool_proofs`).  `TunnelInv` says that connections, entries and
  tasks that connect name the tunnel they were made with, which is a connection of the jump
  host.
* `HandlesTyped`, `PinsNotLeaked`, `OneConnectionUnderHandles` (`FleetHandles_proofs`).
  `FleetInv` is `PoolInv`, the types of handles, `FreeHanded` (who is about to register a
  handle has none, so a registration adds one to the handles of its node) and `NoPinLeak`.
  The handles' steps change nothing of the pool's but pins (`PinsOnly`), so `PoolInv` carries
  over; the pool's own steps leave pins or begin from none (`PoolLowers`); the rest is
  counting with the library's facts on cardinality.
* `ApprovedHolds` (`Enroll_proofs`).  `Typed` joins the types of the files and of the jobs
  with what a program counter says of the locals (`Sound`).  `Trusted` adds to
  `ApprovedOnly` that the temporary files, and the entries that commands have in hand, hold
  approved reports too, and that no registration is past its report: a rename alone could
  otherwise bring in what nobody approved.  `EnrollTypes` follows from `Typed`.
* `OnlyTwoTear` (`Enroll_proofs`), for any number of processes.  `Met` says that of two writers
  amid a write of one node both have met the other (`Pairs`), and that a writer that met none
  holds its own temporary file open and truncated until it fills it, and finds it whole when it
  moves it (`Untouched`); so a torn entry is moved into place, or made of one that is there, by
  a writer that was met.
* `WholeFiles` (`Enroll_proofs`), a lemma of the next two: without commands no entry is torn at
  all.  By `WritesAlone` a registration that writes keeps the loop, is the only one with an
  open handle, and that handle is on the temporary file of its node.
* `NoBrokenNode` (`Enroll_proofs`), under the hypothesis that there are no commands.  `Owned` adds that what a
  registration writes is its own report, and that whoever has an entry on file still has it
  on trial, on that node, or has finished with it.  `WritesAlone` is needed again: a
  registration that could move another's temporary file would enter a report whose own
  registration has failed already.
* `WritesAreSeen` (`Enroll_proofs`), under the hypothesis `ClockSuffices`: no commands, and a tick of
  the clock for every registration (`Cardinality(Requests) <= MaxTime`), as in the run.  The
  bound is of the model; what it stands for is that the file system's clock tells the writes
  apart.  `Times` says that what is about to be moved into place was written after the last
  load, `Counted` that the clock has a tick left for every registration that has not written,
  and `Seen` that what is not newer than the last load is in the snapshot.  A load notes the
  time after it has read; nobody writes between the two, since who loads keeps the loop
  (`WritesAlone`).  `MaxOf`, that a set of numbers up to a bound has a greatest, comes from the
  library's well-foundedness of `<`.
* `NothingAfterTheEnd` (`Remote_proofs`): whoever sets `closed` has closed the channel
  or found it closed, so a queued call cannot start to read.
* `AnswersOwnOutput` (`Remote_proofs`).  The inductive invariant `ShellInv` follows the output
  back to the commands it is of.  `Orderly`: the line holds who waits or reads, each once, and
  only its first reads.  `Running`: what the shell was given to run is the reader's, or its
  caller was cancelled.  `Printed`: the marker and its tail come when the command has ended,
  and nothing of it after the tail.  `Sources`: what a reader has read or will read is its own,
  or of a call nobody waits for.
* `CutIsFlagged` (`Remote_proofs`).  `Counts` says of a sink what it holds of the `n` pieces
  taken off its stream; taking another chunk keeps it (`TakenCounts`), and when the drains have
  ended `n` is all that was printed.
* `OverwritesAreBackedUp` (`Remote_proofs`).  A call that is about to copy will copy something it
  has seen at the path, and whoever has its copy under a name that nobody took has one of those
  (`Seen`), whatever others do to the path.  Between its `cp` and its `open` a call that nobody
  crossed holds a copy of what is there (`Kept`); from its `open` on, a copy of what it
  overwrote.
* `TablesAreGrants` (`OAuthGrants_proofs`): `OAuthGrants` implements `GrantFamily`.  By
  `OneLivePerFamily` a family has one live token at most, so the mapping `grantBar` can be read
  off without its choice (`Bar`, `Reading`).  A statement then touches one family, and the
  others stay as they are (`Elsewhere`), or it issues and redeems nothing, and what changes is
  the end of some consents (`Quietly`, `FadeAll`: one `Kill`).  That a rotation does not widen
  comes from `NarrowProperties`, that its scope is not empty from `TokenWithinGrant`.
* `PoolIsCache` (`SSHPool_proofs`): `SSHPool` implements `ConnCache`.  `Wanting` says what a
  call in progress asked for and `Moves` what a step may do to a node's slot; at most one task
  connects to a node (`PoolInv`), so a slot opens before it is live, and a call is answered
  with a connection that is live or not at all (`SlotMoves`, `AskStep`).
* `JobTypes`, `TrueReports`, `OnlyOverPurged`, `FinishedForGood` (`Jobs_proofs`).  The
  invariant says how far the script, the wrapper and the files of a job can be apart
  (`Shape`), that what a call has read stays true as far as its answer depends on it
  (`ReadOf`: a job never goes back, `Grows`), what a report means (`ReportOf`), and that a
  poller that knows of the end reads the exit code again (`Again`).
* `RemoteTypes` (`Remote_proofs`): the types and limits of the three components at once.  A
  behaviour of `RemoteSpec` is one of a single component, so the proof takes each `Next` in
  turn.  For `CommandRun` the semaphore needs that permits and hosts inside add up
  (`PermitsAddUp`), by counting; `ShellTypes` is the part about shells.
* `LogLossCounted`, `LogLinesOfInput`, `LogTypes` (`Parts_proofs`).  `Numbered` says that the
  ring holds the last numbers without a gap, `Losses` that what is not in the ring was counted
  by `dropped`, but for the line a notice pushes out, and that what the reader was not given
  had been counted when it read on.  `Splits` ties the splitter's rest and its skipping to
  the length of the line the node has not ended.  Nothing is assumed of the chunks but that
  they are sequences of numbers.
* `OutputTypes`, `OutputGapFree` (`Parts_proofs`), for any bytes.  What `rstrip` leaves is a prefix
  of what was read, so its length is that of what the client got; by `MissedFacts` the offset
  passes over at most the two bytes more that each half of a character counts.
* `PartsTypes` (`Parts_proofs`): `PartsTypeOK` of `FairSpec`.  By `EveryPart` a behaviour of the
  whole is, for each component, one of that component, so the theorems about each of them
  carry over.
* `ProxyTypes`, `PinnedToPublic`, `NothingLost` (`Parts_proofs`).  `Progress` says what has
  happened by the time the handler is where it is, `ClosedForAReason` that a transport is
  closed only after its stream was read to the end or a peer went away.
* `LockTypes`, `FailuresKept`, `GuessesSpaced` (`AuthServer_proofs`).  `LoginCovers` is
  needed for a login between its two statements: the number it read covers the failures so
  far, less those `vpsmcp unlock` cleared since.
* `CallbackTypes`, `OnlyToAllowed`, `RefusedKept` (`AuthServer_proofs`).  The server alone
  inserts, so the room it counted is there when it inserts (`RoomLeft`); who is about to send
  has found the callback in the table (`WasAllowed`); a refusal that is not in the table yet is in
  the hands of the handler (`Noted`).

Only model-checked: all liveness (`Answered`, `Drains`, `RegisterAnswered`, `EveryRunEnds`,
`EveryHostAnswers`, `Settles`, `ReaderCatchesUp`, `TunnelEnds`), which is out of the prover's
reach, as is `ENABLED`.  Every invariant and every action property of a passing run is also a
theorem; `NoBrokenNode` and `WritesAreSeen` have hypotheses on the constants, which the run's
instance satisfies and without which the model refutes them.

Lines, bytes and pieces are counted with cardinalities of sets of places (`Long` of
`LogBuffer`, `Bytes` of `JobOutput`), and no operator of these modules is recursive: a sum
along a sequence would need an induction over data, which is out of the prover's reach.

## Not modelled

* Setup and the Caddy file (`setup.py`, `caddy.py`), deployment and the installer of the nodes:
  they ask an administrator and edit files once, with nothing running beside them.
* Client profiles, URL and address parsing, command guardrails (`policy.py`'s patterns), the
  text of pages and answers: functions of strings, without state.
* Signing and checking of access tokens and keys: a library's.
* Login sessions and their cookie; the listings (hosts, files, processes, jobs), which read
  and change nothing; `tunnel_http`, which is a request through a tunnel that exists.
* The table `nodes` of enrollments and the audit log: written, and shown to an administrator.
* Aliases, tags and read-only mode: they narrow which node a call may name.
