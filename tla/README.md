# dictd in TLA+

`dictd` is a server for the DICT protocol (RFC 2229): a parent process that
forks one daemon per connection, each of which answers `DEFINE`, `MATCH`,
`SHOW`, `AUTH` and a few other commands from dictionary databases read through
sorted index files, compressed data files and plugins. The repository also
holds the client (`dict`), the tools that build databases (`dictfmt`,
`dictzip`) and plugins. This directory holds TLA+ models of the server, of the
client and of the files between them, their TLC configurations, and theorems
about them checked by TLAPS.

Paths below are relative to the repository; `dictd.c` is `dictd/dictd.c`,
`daemon.c` is `dictd/daemon.c`, `index.c` and `data.c` are in `libdictd/`.

## 1. Inventory

| Component | State it keeps | Operations | Talks to |
|---|---|---|---|
| Parent process, `dictd.c` | `_dict_forks`, `_dict_reaps`, `need_reload_config`, `need_unload_databases`, `DictConfig`, the settings a configuration leaves in globals (`_dict_daemon_limit_childs`, `_dict_markTime`, ...), its alarm | main loop, `start_daemon`, `reload_config`, `unload_databases`, the signal handlers | daemons (`fork`, `SIGCHLD`), administrator (`SIGHUP`, `SIGUSR1`, `SIGTERM`), clients (the listen backlog) |
| Client session, `daemon.c` | the alarm, `query_count`, `db->available` of every database, the line being handled | `_handleconn`, one function per command, `daemon_terminate` | client (socket), parent (exit status), search |
| Access lists, `daemon.c`, `servparse.y` | rule lists of the site and of each database | `daemon_check_list`, `daemon_check_auth`, matching of masks, ranges and wildcards | session |
| Search dispatch, `daemon.c`, `index.c` | database list, virtual lists, MIME pairs, the exit marker | `dict_search_databases`, `next_database`, `dict_search` | index search, plugins |
| Index search, `index.c` | an immutable mapped index | `dict_index_open`, the binary searches, one function per strategy | search dispatch |
| Data files, `data.c` | chunk table, cache of five inflated chunks, a stamp | `dict_data_open`, `dict_data_read_`, `dict_data_close` | `DEFINE`, `SHOW INFO` |
| Plugins, `plugin.c`, `dictdplugins/` | plugin data, `dictdb_free_called` | open, init (1 and 2), search, free, close | search dispatch, configuration |
| Strategies, `strategy.c` | the table of strategies, their numbers, the default | add, disable (globally, per database), look up | `MATCH`, configuration, plugins |
| Configuration, `servparse.y`, `servscan.l`, `parse.c` | `DictConfig` and the global settings | `prs_file_pp` at start and at every reload | parent, strategies |
| Client, `dict/` | `cmd_list`, `cmd_reply`, the exit status | `request`, `process`, the fallback from server to server, `client_read_status`, `client_read_text` | the session's peer |
| Pools and I/O, `libcommon/` | the pool's fill and allocation count | `heap_alloc`, `heap_realloc`, `heap_free`, `net_read`, `net_write` | everything |
| `dictzip` | a file and its compressed form | compress, uncompress, remove what is not needed any more | the files the server reads |
| `dictfmt` | one pass over a text | batch conversion | the files the server reads |
| Network set-up, scripts, tests, build | none of the server's | | |

What is hard here, and so what the models are for:

* *Signals.* Every handler of the parent runs between any two steps of its
  loop. `reaper` changes one of the two counters the limit is computed from;
  `SIGHUP` and `SIGUSR1` set flags that the loop looks at only after a system
  call failed with `EINTR`; one `SIGCHLD` may stand for several children;
  `fork` may fail after it has been counted, and what follows ends in
  `pause()`, under an alarm that may kill the server.
* *Timers.* A daemon has one `alarm`, used for the idle timer (`delay`) or for
  the time limit (`limit_time`). It is set and cancelled around each command.
* *Order.* Clients send commands ahead; replies have no number, so they are
  matched to commands by order alone, also when a command ends the session.
* *Stale state.* A daemon keeps the configuration it was forked with; what a
  client may read is a flag on each database, computed when somebody
  authenticates and read by every later command.
* *Boundaries.* The query limit and the limit on daemons; chunk boundaries of
  compressed data; entries next to the ends of a sorted index.
* *Long sequences.* Reloads in one process, with a table of strategies and a
  site file that outlive the configuration that set them; plugins that must be
  freed after each search and not before.
* *Two that wait for each other.* The client writes ahead without reading; the
  server answers without reading on.
* *Frames.* A text and the status lines around it share one stream; what tells
  them apart is a dot, and both sides must double and undouble the same ones.
* *Crashes.* Only `dictzip` has something to lose: it removes one of two files.

`PROJECT.json` lists each hazard at its line, with the properties that would
catch it or the reason none does.

For each component, what makes it correct:

* parent: the counters stand for the processes that exist; the limit is kept;
  no accepted connection, zombie or request is forgotten; every client is
  eventually answered;
* session: access is that of the user who authenticated last; replies come in
  the order of the commands, whole, one each; timers end idle or long sessions
  and never cut a reply; limits are kept;
* search dispatch: exactly the databases a name reaches are searched; `!`
  stops at the first that matches; nothing found under a virtual database
  carries the name of a hidden one;
* index search: each strategy returns what its definition says, over any
  sorted index; data files: a read returns the bytes of the uncompressed file
  whatever is cached; plugins: results are used before they are freed and
  freed once; strategies: numbers and names stay a bijection across reloads;
* client: every command is matched with its own reply, none is lost or sent
  twice, and the exit status says what was printed;
* dictzip: whenever it is killed, the text is still in one of the two files;
* configuration: what is opened is closed once, and databases are joined before
  they are searched, whatever their order in the file.

## 2. Modules

| Module | What it is |
|---|---|
| `ConnectionService` | what the parent promises clients: abstract specification |
| `DictdServer` | the parent process, with its daemons as far as it sees them |
| `MCDictdServer` | its instances for TLC |
| `DictdServer_proofs` | theorems about it |
| `DictProtocol` | what a session promises a client: abstract specification |
| `Session` | one session, as its daemon runs it |
| `MCSession` | its instances for TLC |
| `Session_proofs` | theorems about it and about `TextChannel` |
| `Search` | how a daemon carries out `DEFINE`, `MATCH` and `SHOW INFO` |
| `MCSearch` | its instances for TLC |
| `Search_proofs` | theorems about it |
| `IndexLookup` | the table of first characters, the binary search and the strategies that look a word up |
| `IndexSearch` | extends it with the strategies that read through an index |
| `MCIndexSearch` | its instances for TLC |
| `IndexLookup_proofs` | theorems about `IndexLookup` |
| `DataFile` | compressed files: `dictzip` writes and unpacks them, `dictd` reads parts of them |
| `MCDataFile` | its instances for TLC |
| `DataFile_proofs` | theorems about it |
| `DictClient` | the `dict` client, with its connection and a server that answers anything the protocol allows |
| `MCDictClient` | its instances for TLC |
| `DictClient_proofs` | theorems about it |
| `RecursionTheorems` | lemmas the proofs share: recursive functions over the numbers, the part of a sequence that is in a set, and sequences made of pieces (`FlattenSeq`) |
| `TextChannel` | the bytes between a session and its client |
| `MCTextChannel` | its instances for TLC |
| `Lifecycle` | configuration files, strategies, and the opening and closing of databases over the reloads of a process |
| `MCLifecycle` | its instances for TLC |
| `Lifecycle_proofs` | theorems about `Lifecycle` |

The modules are layers of one system. `Lifecycle` is what the steps
`reload_config` and `unload_databases` of `DictdServer` do inside;
`DictdServer` forks sessions of which it sees only the process; `Session` runs
one of them and lets a search find any subset of what it reaches; `Search` is
what happens inside that step, one search at a time; `IndexSearch` is the search
of one index inside a step of `Search`, and `DataFile` the reading of the texts it
finds. `DictClient` is the other end of a session, and `TextChannel` how the
commands and replies that both take for single messages become bytes and
messages again. `Session` and `Search`
describe `next_database` alike: what a name reaches is available and not
hidden, and `550` means that nothing is.

### DictdServer

`pc` is the parent's place in `main`'s loop (`dictd.c:1785-1886`): `top`,
`select`, `accept`, `dispatch` (a connection is in `child_sock`), `pause` (after
a failed fork), `close`, and after `EINTR` the places `eintr`, `reloaded` and
`usr1` around `reload_config` and `unload_databases`. `forks`, `reaps`,
`needReload`, `needUnload`, `limit`, `markTime` are the variables of that name
in the code; `dbs` is `DictConfig` (or `Unloaded`), `disk` the configuration
file. `client[c]` says how far the client of a connection has come, `proc[c]`
is the process forked for it. `failed`, `stolen` and `asked` are history
variables: the code has no such variable, the properties need them.

Each handler is one action that may happen at any `pc`; `Interrupt` says what
its return does to the system call it interrupts. Which calls are restarted
depends on the flags `setsig` was given (`SA_RESTART` for `SIGCHLD` and
`SIGALRM`, none for `SIGHUP` and `SIGUSR1`); `select` is never restarted. A
configuration is reduced to what a reload does with it: its limit, whether it
sets a timestamp interval, whether it disables a strategy globally, and whether
it and its files can be read.

Several listening sockets are one queue. The refusal at the limit runs the
session's code in the parent (`dict_daemon(.., 1)`): it is one step with every
outcome that code has there, the parent's death included.

### Session

`pc` is the daemon's place in `_handleconn` (`daemon.c:1610-1689`): `start`,
`read`, `got` (a line is read and counted), `work`, `auth` (an `AUTH` goes on after
its `501`), `rest` (a text reply is half written), `done`, `closed`. `timer` is what the process's one alarm means now.
`inbox` holds the lines sent and not read; the client may send ahead, close
its side, or stop reading (`stalled`), and then every write of the daemon blocks.
`avail` is the set of databases whose `available` flag is set; `user`, `replies`
and `why` are history.

Access lists are sequences of rules; whether a rule's notation matches the
client's address is part of the rule (`yes`, `no`, or `bad` for a notation that
cannot be read, which denies). `Members` is what a virtual database, or a MIME
one, is made of. `next_database` asks for the `available` flag of what a name
reaches (`Reach`), `dict_search` asks nobody before it goes into the members
(`Inside`). What a search finds is in any nonempty subset of the databases it comes
to, or nowhere; a reply is its code and the databases its entries are taken from
(under which name a hidden one is shown is the subject of `Search`, and so are the
exit markers). `daemon_auth` does not return after its `501`: with too few words it
looks up, or compares, an argument that is not there (`AuthFault`), or denies; with
four or more it goes on as with three. Commands whose reply depends on no
database are represented by two members, one with a text (`HELP`, `SHOW STRAT`) and
one with a line (`STATUS`, `CLIENT`, `OPTION`, unknown commands).

### Search

`pc` is the daemon's place in the search: `next` (the head of the outer loop of
`dict_search_databases`, `daemon.c:1073`), `words` (the loop of
`dict_search_words`), `merge` (what is done with the result of a database,
1088-1123), `reply` and `free` (the end of `daemon_define` and `daemon_match`),
`info` and `entries` (`daemon_show_info`). `pos`, `words`, `at`, `list`,
`result`, `count`, `matches`, `error`, `dbFound` are the locals of these
functions; `lent` is `dictdb_free_called` of each plugin; `reply` is what the
client was told, with the name each result was shown under; `seen` is history.

A database is a record of what a configuration can say of it, with the texts
its index or its plugin holds for each word; a text stands for a place in a data
file, a headword, or a plugin's pointer, which is what duplicates are recognised
by. `DictSearch` is one call of `dict_search`: the index, the plugin, the virtual
list, the MIME pair, in this order, each only if nothing was found before, with
the list of results threaded through, since the comparison that decides which
results get a visible name depends on its length. `Look[n]` is the search with
room for `n` calls inside each other; `Looked` has `Depth` of them, for the
stack. Nothing in the code keeps a database from being listed in itself; such a
search uses up the stack, and the session is `aborted`, as it is by the assertion
of `dict_search_words`. A word is a member of a small set; `Bad` is one that is not valid
UTF-8, for which an index puts one complaint into the list and counts minus one.
Matching a headword under a strategy is part of what an index holds; a strategy
that is disabled for a database is not.

### IndexLookup and IndexSearch

An index file is the set of byte positions at which its lines begin, with the
headword and the other columns of each, so that lines may have any length and
the middle of a range may fall anywhere in one. `FindPrev` and `FindNext` are the
macros `FIND_PREV` and `FIND_NEXT` as relations; `Compare` is `compare()`, with its
two functions for bytes and for letters, digits and blanks. `opt`, `start`, `end`,
`previous` are the variables of the code; `skip` and `item` are `skip_count` and
`item_count`. The places of `pc` are the filling of the table
(`dict_index_open`), the binary search (`fill`, `search`), the linear search after
it (`linear`), the loops that collect (`scan`), and those of `IndexSearch`: `brute`
and `bmh` for substring, suffix, word and last, `range` for expressions and
soundex. `Lev` looks every neighbour of a word up in one step. That an index is
sorted for the comparison that searches it is an assumption (`dictfmt` and `sort`
see to it), which TLC evaluates for every instance.

### DataFile

`orig` and `dz` are a file and its compressed form; a compressed chunk is a run
of cells that inflate only if all are there and in order, so that an offset that
is wrong by one inflates to nothing. `tool` is `dictzip` between two writes, and
it may be killed there. `data`, `cache` and `stamp` are `dictData`, its array of
cached chunks and the counter that all files share; `rd` is one call of
`dict_data_read_`, one chunk per step. `recent` is history: the least-recently-used
list the stamps stand for.

### DictClient

`cmds` is `cmd_list`, with the `sent` mark of each command; `pc` is `request`
(with `connect` and `write` inside it), `process`, and the places where a reply is
read. `Request` is the loop of `request()`, which marks as much of the list as fits
into the pipe; `Await`, `PrintReply`, `PrintDefinitions`, `Spell` and `Wind` are the
cases of `process()`. The server side is `Greet`, `Serve`, `Deliver` and `Close`: it
reads commands in order and answers each with any reply the protocol has for it.
Each line on its way back carries the command it answers, which the client does
not look at and `RepliesMatch` does.

### TextChannel

`up` and `down` are the bytes on their way, one character each (a status line is
one character, since only its difference from text matters). `out` holds the
buffers of a reply still to be written; `left` is how much of the first `write()`
has not taken. `LineRead` is `net_read` with its limit, `Doubled` and `Undotted` are
the two sides of the convention about dots, and `Cut` is what the client makes of
a line that filled its buffer: `net_read` then returns the 1 of its last `read`, which
`client_read_text` takes for the length. `Ask` is `client_crlf`, `AnswerTo` the
buffers of the reply, `WriteOut` and `WritePart` are `daemon_write`. A `write` and
a `read` are one step each for as many characters as they move; in between, either
end may die (`ClientEnds`, `DaemonEnds`), also in the middle of what it writes.
`Fits`, `Dotless` and `Parted` name the requests for which the two ends mean
the same (section 5 says what happens to the others). The names of this module are
its own (`ChannelInit`, `ChannelNext`, `ChannelSpec`, `ChannelTypes`), since its
proofs are kept together with those of `Session`.

### Lifecycle

`text` is the file that is parsed, a sequence of directives; `strategies` is the
table in `strategy.c`; `site` is what `site_info` points to (a string of the parser,
the heap, or what has been freed). `dbs` is `DictConfig->dbl`. `phase` walks over the
five passes of `dict_init_databases` (`databases`, `plugins`, `virtual`, `mime`,
`short`) and over `dict_close_databases`, one database per step. `opened` is history.
What a plugin is told of a strategy whose number lies behind the end of
`strategy_disabled` is any value, as what is read there is.

### The abstract specifications

`ConnectionService` lets a client wait, be served by a process of its own while
databases are loaded, be told that the server is unavailable, be dropped, and
leave; databases are loaded and unloaded. `ImplementsService` says that the
parent does nothing else: the mapping forgets `pc`, counters, flags and signals,
and merges queued and accepted connections into waiting ones.

`DictProtocol` lets a client send commands, which are answered one reply each
and in order; a reply is taken only from databases granted to whoever has
authenticated, and from what those bring with them (`Brings`: the members of
virtual ones, restricted or not); a session may be shut at any time. The
exceptions the code makes are actions of their own: a blank line is skipped
(`Skip`), and an `AUTH` with a wrong number of words is complained about and then
owed an answer (`Complain`, `owed`), which may even be that it succeeded. The mapping computes the grants from the access lists by the
manual's reading ("the first rule that decides"), not by the code's function.

## 3. Runs

| Run | Question | Result |
|---|---|---|
| `server` | Does the parent keep its counters, its limit and its clients, under every interleaving of signals, forks and reloads? | holds |
| `session` | Does a session follow the protocol, its access lists, its timers and its limits? | holds |
| `search` | Is every search answered with what the documented composition of databases holds, and is plugin data lent just as long as needed? | holds |
| `index` | Does every strategy find exactly the headwords it is defined by, with the table of first characters and without? | holds |
| `client` | Does the client match replies to commands, send each command once, never block, and end with the right status? | holds (without `OPTION MIME`) |
| `data` | Do reads through the cache return the text, and does `dictzip` never lose one? | holds |
| `channel` | Do commands and texts arrive whole, and are texts and status lines told apart? | holds (no write cut short by a signal) |
| `lifecycle` | Are databases opened, joined, searched and closed in order over reloads, and do strategy numbers stay unique? | holds |
| `sighup_lost` | Is every `SIGHUP` honoured, as the manual says? | no |
| `idle_forgotten` | Is an idle client dropped under `delay`? | no, after an empty line |
| `text_dots` | Does a client find the end of every text? | no, in `SHOW INFO` |
| `site_twice` | Is a site directive that finds `site_info` set a second one of its file? | no, after a reload |

`server` has two connections, because each hazard of the parent is about one
connection while another is in another state (served, zombie, waiting), and one
or two slots, so that the limit is reached in every way: with a daemon alive,
with one unreaped, after a failed fork. Two signals (`MaxSignals`) are enough
for a second request during the handling of the first, and for `SIGHUP` and
`SIGUSR1` pending together; one edit of the file (`MaxEdits`) for a reload that
changes the limit, the timestamp, or breaks the file. `MixedConfigs` has a
member for each thing that a reload does. Symmetry is not used, because
liveness is checked in the same run.

`session` has two users, three databases (`part`, restricted to one user; `inner`,
hidden; and `both`, open to all and made of these two), four access lists (none; must
authenticate; denied by a rule; denied by an unreadable rule), both timers, and
clients that send four lines, one of them ahead of the one being handled; the
query limit is four, so that the last line meets it. The commands are a search over
all databases, `SHOW INFO` of the restricted one and of one that does not exist,
`AUTH` by both users, with a wrong digest, with two words and with four (right and
wrong), `QUIT` and the empty line. Replies of one text kind are all alike for the
session, so `SHOW DB` and `HELP` are not among the lines sent in this instance;
the proofs cover them.

`search` takes every combination of nine shapes of a first database, ten of a
second and five of a third: an index with one or two texts, hidden, unavailable,
with its strategy disabled; a plugin that finds, fails, ends the walk or replaces
the word by two; an exit marker; virtual and MIME databases of the later ones,
two levels deep. Three databases are the least that allow something before and
something behind the one in question. Each is asked for `*`, `!` and two names,
with a good word and one that is not UTF-8, before and after `OPTION MIME`.
`AnswersAsDocumented` compares the reply with a reference that has no list, no
counters and no walk: the databases a request is for, the words each of them is
asked, what each holds. Three kinds of configuration are left out because the
code departs from the documents there (section 5): two replacements of words in
one search, an exit plugin after a replacement by several words, and plugins
that end the walk or replace words inside virtual databases; and no two
databases have a definition at the same place. Three databases nest no deeper than
three calls, so `Depth = 4` is never used up: an aborted session would be a
deadlock. Deadlock is checked: the daemon
can always go on, which with `WalkAdvances` shows that every command ends. (A
liveness property says the same and takes TLC twenty times as long.)

`index` has ten index files of one to ten short lines: equal lines in a row,
which is where a binary search for the first of them goes wrong; lines of
different length, four columns, punctuation, capitals, bytes above 127, one line,
none, and lines for which the range of the table is empty and only the linear
search that follows finds anything. Each is opened with and without `fast_start` and asked for some fifty
words under every strategy, with limits, and with windows of `nprefix` at and
beyond the ends. `Threshold = 3` is `BMH_THRESHOLD`, so that words of both scans
are asked for. `EveryStrategyRight` compares the list with the headwords read one
by one; of expressions and soundex codes it claims this where the table has entries
for the first character (`RangeKeepsHits`; section 5 has the others). Only one request is carried out at a time, and nothing of it is left in
the state, so that the histories need not be longer.

`client` has nineteen command lines, each with at most three words: one with
definitions and a match, one with matches only, one with neither. The pipe and
both directions of the connection hold two commands or lines (`Pipe`, `Room`,
`RoomBack`), the least with which something is sent ahead and something is left
behind; `NeverBlocked` would be trivial with more room than pipe. Two servers, of
which one has a key, show the fallback and the second `AUTH`.

`data` has a file of two chunks and a part, one of exactly one chunk, and a text,
read at every offset and length; a cache of two (`Slots`) is filled and replaced
by the three chunks of the first file, and four look-ups (`MaxStamp`) are enough
to fill it, use the older one, and replace the other. Two runs of `dictzip`
(`MaxRuns`) are enough to compress and unpack, to be killed in one and to repeat it.

`channel` has two requests (`MaxRequests`), so that what is left of the first is
read by the second, of eight kinds. `LineLimit = 3` and `CommandLimit = 2` stand for
the 4096 and 4000 bytes of the code: commands of exactly the limit are among the
requests, and so is a line longer than the client's buffer. One signal (`MaxSignals`) may cut a write short.

`lifecycle` has seven files, each in the order of its databases that the five
passes find hardest (a virtual database before its members), three signals
(`MaxSignals`), and three command lines; strategies have the numbers of the code,
in an order in which the last is not the greatest.

Deadlock is not checked in the runs of `DictdServer`, `Session`, `DataFile`,
`TextChannel` and `Lifecycle`: the parent may exit, a session or a client may
close, `dictd` may find a file it cannot inflate and end, and then the system stops. That the first two
do not stop otherwise is what the liveness properties say. It is checked in
`search`, `index` and `client`.

### Fairness

`DictdServer`: the parent's loop keeps running (`WF(MainLoop)`; a call that
blocks is not enabled, so nothing is assumed of `select` without clients); the
kernel delivers a pending `SIGCHLD` and an expired alarm; and a daemon with a
time limit reaches it (its alarm was set before the session began). Daemons
need not end by themselves, clients need not connect, go on or leave, and the
administrator owes nothing. `SlotsComeBack` is therefore only claimed with
`limit_time`.

`Session`: the daemon takes the steps it can take (`WF(Step)`, which excludes
writing to a client that does not read and reading from one that does not
write), and a timer that stays set fires. The client owes nothing.

`IndexSearch`: a search that has begun goes on (`WF(Running)`); it is a function
call, and nobody need make another. `DictClient`: the client runs, and the server
answers what it has read (`WF(ServerNext)`); closing is not part of that, so a
server that neither closes nor is asked anything owes nothing. `ClientEnds` says
that no wait of the one for the other is for ever.

## 4. Proofs

`tlapm` checks the theorems for every value of the constants, under the
assumptions the modules name (`ServerAssumption`, `SessionAssumption`,
`SearchAssumption`: types of the constants, and that the values standing for
"none" are not among the others; `LookupAssumption`: also that every index is
sorted for what it is asked). `Conns` may be infinite; that the processes alive at one time are
finitely many is part of the invariant. TLC evaluates the assumptions in every
run.

`DictdServer_proofs`: the inductive invariant `ServerInv` is the type invariant
with the state invariants of the run, that finitely many processes are alive,
and `HistoryOK`: without a preprocessor no reap is stolen, without a timestamp
interval only a failed fork sets the alarm, and a server that is up has no
reason to have exited. `SlotAccounting` is not inductive by itself: when
`SIGCHLD` is handled it needs that zombies and running daemons are disjoint
finite sets, and when a fork succeeds that the connection had no process
before, which is `SessionsHaveDaemons` together with `NoConnectionLeaked`
(`ForkAddsOne`). From `ServerInv` follow `ServerTypeCorrect`, `SlotsAccounted`,
`NoZombieForgotten`, `ConnectionsOwned` and `AlarmDeath`. Two theorems assume
`~Preprocessor`: `LimitKept` (the limit) and `ServerImplementsService` (the
refinement). Without that assumption `LimitKept` is false (section 5).

`Session_proofs`: `SessionInv` joins the type invariant, the order of the
timers, the query budget and access. The central lemma, `FirstRuleDecides`,
says that the loop of `daemon_check_list` computes the manual's reading of a
list; `CheckAuthGrants` lifts it to the flags of all databases, and `AccessStep`
shows that each step keeps flags and user together. `SessionImplementsProtocol`
shows that each step is a step of `DictProtocol` or a stutter: what a reply is taken
from is within `Inside` of what the name reaches, which is within what is available, and
that is what the user is granted; an `AUTH` that was complained about (`pc = "auth"`)
is no longer pending, and its answer is a `Settle`. This is all that is claimed of
access: that the members of a virtual database are themselves granted is false
(`RestrictedUnseen`, section 5).

The second part of `Session_proofs` (from `ChannelAssumption`: a command is letters that
fit the daemon's buffer, a text is letters, dots and line ends, and the client's buffer
has room for more than two) proves `ChannelTypesHold`, `CommandsArriveHolds`,
`TextsArriveHolds` and `InSyncHolds`, for texts of any length and any number of
requests. The argument speaks of lines, not of characters:

* `Wire(ls)` is the lines `ls` as they are written. `ReadOneLine` says what `net_read`
  returns of them: a line and the rest of the lines, or a part of a line, at the end of the file
  or because the buffer is full. This is proved once and used for both directions.
* `UpInv`: what is on the way to the daemon is the commands of the requests not yet
  heard (`Unheard`), perhaps after an empty line, the end of a command that
  filled the buffer, which the daemon drops. When the client died inside a
  command, only a beginning of them comes.
* `AnswerWire`: what `daemon_crlf` makes of the buffers of an answer, character by
  character, is the lines of its `Sheet`: a status line, the lines of the text with their dots
  doubled, a dot, and `ok`. By induction on the length of the text, a line at a
  time (`TextLines`).
* `DownInv`: the texts read so far are those of their requests (`TextsRead`), and
  the client is at one of four places (`Located`): it has ended; it is lost, after the
  daemon went away or after a text that is not `Parted`; the daemon is gone and
  nothing is left; or what the daemon has written and will write is `Wire` of the
  lines due (`Due`) from the one the client is about to read (`Stage`: a
  status, a line of the text with the rest of it to come, or the end).

Neither `UpInv` nor `DownInv` is preserved without the types and `Writing` (a daemon
that writes has a buffer to write, one that does not has none). `DownInv` is claimed
as long as no signal has cut a write short: `cut \/ DownInv` is what is inductive.

`Search_proofs` (from `SearchAssumption`): `WalkExact`, by an invariant on the
position and the databases seen; `CommandsEnd`, an action property from the
types of the position and of `pc` alone; `SearchesGiveBack`, that after `DEFINE`
and `MATCH` no plugin has anything on loan. These three hold whatever a search
finds. `LentUntilPrinted` (the invariant `LentAsLongAsNeeded`) is about what it
finds: whoever lent an entry of the list (`Lenders`) is still owed for it. One
search never takes entries away that were there, adds at least as many as it
counts, and only entries lent by plugins it asked (`Grown`); each of its stages
keeps this (`AddedGrown`, `RenamedGrown`, `BelowGrown`, `MembersGrown`), hence
one call of `dict_search` does when the calls below do (`DictSearchGrown`), and
`Look`, a function of the depth, for every depth (`RecursionTheorems`), also
when a database contains itself. `SearchInv` has the types, `Lenders(list)`
within what is on loan from `next` to `free`, and a count no greater than the length of the
list, which needs the bound on what a search counts.

`IndexLookup_proofs` proves `LookupTypeCorrect`, `LinesFound` (the invariant
`FindsEveryLine`) and `SearchNarrows` (the action property `SearchShrinks`) for
every index, line length, word and request. `FindsEveryLine` speaks of a search
that is done; what carries it is `LookupInv`: positions are beginnings of lines or
the end of the file (`PlacesOK`); every line before an entry of the table is too
low for its character (`TableOK`); every line before `start` is too low for the word
(`SearchOK`); what was found is wanted, in order, and before `start` (`ListOK`); and
nothing wanted before `start` is missing (`ScanOK`). The links are
`FirstCharEnough` (too low for the first character is too low for the word, which
is why the table may be used at all), `LowSpreads` (the lines before a line that is
too low are too low, since the index is sorted) and `NothingWantedBeyond` (after the
first line that does not match none does). `RangeStartLow` needs that the word
does not begin with a capital, which is where the finding about case-sensitive
indexes comes from.

`Lifecycle_proofs` (from `BuiltinAssumption`: the compiled-in numbers are positive,
unique and less than `FirstNew`; and `FilesAssumption`: a file is a sequence of
directives) proves `LifecycleTypeCorrect`, `OpenedAndClosed` (the invariant
`EverythingClosed`) and `NumbersStaySound` (`NumbersSound`) for any files, any
number of databases and any number of reloads. `LifecycleInv` adds what the
properties rest on: `StatesInv`, how far each database has come when the parent is
at the one called `at` in each pass, without which a database could be opened or
closed twice; `CountInv`, the count itself, which changes by what one database
changes (`CountOne`); `TableInv`, that new numbers are greater than all there were;
and `ToldInv`, which holds through the parse because no plugin is open then
(`ParseKeeps`).

`SearchesStayOpen` (the invariant `SearchesReadOpen`) is about what a search
reaches, a recursion over the members of databases (`Reached`) that is written as
a function on the numbers. `RecursionTheorems` says what such a function is for
every number: the theorems of the library for that take an operator as a parameter, and
the lemmas here take a set or a function instead, from the fact that every set of
numbers has a least one. `ReadyInv` carries the theorem: which databases each pass
of `dict_init_databases` has left open and with their members joined, and that
these members are databases of the same list (`ReachedWithin`).

`DictClient_proofs` (from `ClientAssumption`: types, and that names of hosts and
words are not the marks that stand for none) proves, for any command line, any
pipe, any room in the connection, and any server that answers in order and may close
at any time: `ClientTypeCorrect`, `RepliesStayMatched` (the invariant
`RepliesMatch`), `TextsStay` (`NoFreedText`), `CommandsAreDelivered`
(`CommandsDelivered`), `ExitStatusRight` (`ExitAsDocumented`) and
`ClientNeverBlocked` (`NeverBlocked`). The last assumes `Pipe <= Room`: `client_pipesize` is 256 bytes,
but `--pipesize` sets any number (`dict.c:1452`), and with a pipe that does not fit in the
connection the claim is false. `ClientInv` has five parts.

* `ShapeInv`: every command has the word that belongs to it, so that a `DEFINE`
  always names a word and a `CONNECT` a host.
* `ListInv`: the list is in order (`Before`: connections first, then what asks
  for information, and the commands sent are a beginning of the list), and no
  command is sent that may stop the pipe.
* `HostInv`: whether a server is being looked for, and what is then not there yet; that
  `request` writes only when nothing it wrote before is unread, which is what
  `NeverBlocked` needs.
* `TextInv`: matches counted are in a text that is there; when a text has been freed
  no `PRINT` is left in the list.
* `StreamInv`: the one `RepliesMatch` needs. The lines on their way (`Arriving`)
  are the replies to the first of the commands expected (`Expected`: the one
  being read and those marked as sent), from the line the reader is at (`Where`), and
  what the server has still to read (`Pending`) are the other ones. `Reads` says so
  with a state of a reader before and after each line; `After` is the grammar of
  replies. `StreamTake` takes a line off, `StreamShift` a command that was answered,
  `StreamJoin` adds a reply (`AnswersFit`: every reply the server may give fits
  its command), and `StreamCut` loses the rest when the server closes.

`StreamInv` is kept by `Spell` and `Wind`, which put commands in front of the
list, because they are only carried out when nothing is expected: a command that
stops the pipe is never sent, and neither is anything after it.

`CommandsDelivered` compares what one server has been sent, over the whole session, with
the list `main` built, most of which is gone by then. `OrderInv` adds four
parts to `ClientInv`:

* `DeliverInv`: that list (`TheList`: its commands that a server can be sent) is
  `P \o Q`. Q is what is on the list and not sent (`Rem`). P has been taken off it, and what
  the server was sent, followed by some R, is what was due of P. R is what is in
  the buffer of `request`, or, when the connection is lost, what was in it. `KeyInv` is
  about `AUTH`, which is only due when this server has a key and its banner a message:
  while one is connecting, none has been passed over in the list.
* `KindInv`: only a list that asks for definitions gets corrections, and only one that
  winds gets definitions put in front of it; so what they add is never among the
  commands the property follows.
* `WiresInv` and `CloseInv`: a reply 221 exists only after `quit` has been read, and
  `quit` is the last command due (`DueLast`). When the client has read a 221,
  what the server was sent is therefore a beginning of what is due that has its last
  element, which is all of it.

`ExitAsDocumented` compares the exit status with everything printed since the
start. `AnswerInv` adds five parts to `OrderInv`:

* `PairInv`: what prints or winds the matches of a word stands right behind the
  `MATCH` for that word, in the list or as its first command when the reply to that
  `MATCH` has been read. What corrections and matches put in front of the list comes
  in such pairs too, and the list is only taken apart between them.
* `LinesInv` and `FoundInv`: the matches on their way, counted and read are all those the
  server has for the word. A server that was sent `OPTION MIME` may begin a text with
  a blank line, at which `Wind` stops; `NoMime` takes from `DeliverInv` that the
  option is not sent when it was not asked for.
* `PromiseInv`: as long as the exit status is 0, every word of the command line has been
  printed or is printed by a command still on the list; with a strategy that winds, it
  still has its `wind`, or each of its matches has been printed or still has its
  `defprint`. A command that leaves the list without printing sets the status.
* `ZeroInv`: the client ends with 0 only when the list is empty and the status is 0: what is
  reported for a reply nobody expects (`ExitOf`) is never 0.

The list is built by loops over hosts and words of any number; what is said of
its members and of taking a list apart (`Listed`, `Sift`) is by induction over
sequences, with `EverySequence` of `RecursionTheorems` for the theorems of the library
that take an operator.

`DataFile_proofs` (from `DataAssumption`: no file is empty, and the table of its
chunks fits in a header) proves `ReadsStayExact` (the invariant `ReadsExact`),
`CacheStaysLru` (`CacheIsLru`) and `NothingIsLost` (`NothingLost`) for files and
chunks of every length, caches of every size and any number of runs of `dictzip`.
None of the three is inductive; `DataInv` has four parts.

* `ToolInv` carries `NothingLost`: a file is as it was, or its compressed file is
  `Complete`, that is `Packed` (each chunk's cells at the sum of the sizes before
  it) with the length at its end. `ZippingInv` and `UnzippingInv` say how far each
  program has come; the table in the header stays zero until the last write, so that
  a file that is not finished inflates to nothing and not to something else
  (`InflateNothing`), and `ZipInv` says that there is no third case. `ChunksJoin`
  shows that the chunks of a file, put together, are the file.
* `OpenInv`: whatever `dictd` has open, also when its name is gone or a killed
  `dictzip` left it half written, a chunk of it inflates to its text or to nothing.
* `CacheInv`: a slot holds the whole text of its chunk, no two hold the same
  (`SlotsInv`), and the stamps order the slots as `recent` orders the chunks (`Lru`).
  An empty slot has the stamp -1, less than any other, which is why the slot that
  `Target` takes is an empty one as long as there is one, and then the one of the
  chunk used longest ago (`CacheUsed`, with `LruUsed` for the new order).
* `ReadInv`: what has been copied is the beginning of what was asked for, as long as
  `Copied` says. `PartFollows` is the arithmetic: the part taken of a chunk
  begins where the parts before it end, for first, middle, last and only chunks.

The models also name properties that no run checks since the theorems give more:
`SessionsHaveDaemons`, `AlarmKillsOnlyAfterForkFailure` (theorem `AlarmDeath`),
`TimeLimitStands` (part of `SessionInv`) and `QueryBudget` (theorem
`QueriesLimited`).

Only model-checked: everything that needs fairness (`EveryClientAnswered`,
`SlotsComeBack`, `LimitedSessionsEnd`, `LinesDealtWith`, `EverySearchEnds`,
`ClientEnds`), which is out of the prover's reach, and what recursive
definitions compute (`AnswersAsDocumented`, `InfoAsDocumented`,
`EveryStrategyRight`).

## 5. Where code and documentation differ

Each has an entry in `PROJECT.json` with the lines it is about and the words it
disagrees with. Four have a run that ends in a counterexample:

* `SIGHUP` and `SIGUSR1` are acted on only if they interrupt `select` or `accept`;
  otherwise they wait for the next signal, or are forgotten by the line that
  clears the flag; and a `SIGUSR1` that waits together with a later `SIGHUP` is
  carried out after it (`sighup_lost`).
* An empty line leaves the idle timer off (`idle_forgotten`).
* A line of one dot in what `SHOW INFO` prints ends the text (`text_dots`).
* The name of the site file is freed by a reload and used again (`site_twice`).

Others are stated in the modules as properties the code does not have. TLC shows
the counterexample when the name is put into the configuration of the run:

| Difference | Property | Add it to |
|---|---|---|
| With `--pp`, `reaper` may count the preprocessor of a reload as a daemon. | `DaemonsWithinLimit` | `Server.cfg`, `Preprocessor = TRUE` |
| A global `disable_strategy` makes the server exit on the first `SIGHUP`. | `SighupSurvived` | `Server.cfg` |
| A restricted database is searched, and named, as a member of a virtual or MIME database that is not restricted: only `next_database` asks for the `available` flag. | `RestrictedUnseen` | `Session.cfg` |
| `AUTH` with a wrong number of words goes on after its `501`: to `531`, to a crash, or, with a word too many, to `230`. | `OneReplyPerCommand` | `Session.cfg` |
| Results of hidden members of a virtual database are shown under `*` when other results come before them. | `HiddenResultsNamed` | `Search.cfg` |
| Definitions of two databases at the same place of their files are shown once. | `AllMatchesDisplayed` | `Search.cfg`, `Confs <- SamePlace` |
| In a case-sensitive index an exact search of a word with a capital finds nothing. | `TableOnlySpeeds` | `Index.cfg` |
| Expressions and soundex codes find nothing when neither their first character nor the one after it has a place of its own in the table (punctuation, capitals, the last letter). | `RangeOnlySpeeds` | `Index.cfg` |
| `MATCH` lists equal headwords again; no two lines are ever compared. | `MatchesUnique` | `Index.cfg` |
| With `OPTION MIME` a strategy that winds leaves out the last match. | `ExitZeroMeansAnswered` | `Client.cfg` |
| "No matches found for" names the last word sent ahead. | `RightWordNamed` | `Client.cfg` |

The rest is kept out of what is claimed, where the modules say so:

* After a replacement by several words only the last word's result decides how
  the walk goes on; and the replacements of a plugin inside a virtual database
  are shown as definitions.
* `SHOW INFO` shows the names of hidden members, and reads plugin data after the
  plugin was told to free it, from the second entry on.
* `daemon_crlf` doubles a dot only if it is the whole line, while the client takes
  one away from every line that begins with two (`Dotless`); and it doubles none at the
  end of a text without a line end, where the client then takes the line for
  the end of the text (`Parted`).
* The client keeps one character of a line that fills its buffer (`Fits`).
* When `write()` takes only a part, `daemon_write` and `net_write` go on from the
  beginning of the buffer; `net_read` takes what it has at the end of file for a
  line.
* `dictzip` overwrites a compressed file without `-f`, and writes a header that
  cannot be read for more than 32762 chunks; an empty entry at the beginning of a
  file is looked for in a chunk that is not there.
* `strategy_disabled` may be shorter than the numbers it is asked for; a default
  strategy may be one that is disabled; added strategies are added again at every
  reload; the dbi plugin clears one entry of the table it enlarged.

## 6. Plan

What the project still lacks, in the order of its importance:

1. `Access` (`daemon.c:187-382`): masks, ranges and wildcards as functions, which
   replaces the `match` field of the rules of `Session`.
2. Composition of `Session` with `Search` in place of its arbitrary answers, and
   of `DictdServer` with `Lifecycle` in place of its configurations.
3. The other strategies in the proofs: `ScanFindsEveryLine` for the scan of one
   character at a time, written without `RECURSIVE`.

## 7. Not modelled

* Socket creation (`net_server.c`), MD5 and string helpers, logging, process
  titles, the wording of replies, the scripts (`colorit`, `dictl`), tests and
  build files: they keep no state the programs' behaviour depends on, or only
  format text.
* The pool allocator (`heap.c`): a block that `realloc` moves out of the pool keeps
  its count, so that the pool is not emptied again. That is memory not used
  again; no caller can tell.
* `dictfmt`: it formats a text in one pass, with no state to interleave and no
  step that can be repeated. The order it leaves an index in is the assumption
  `SortedFor` of `IndexLookup`.
* The grammar of configuration files, the options of `dict` and `dictzip`: what
  they set is a constant or a directive of the models. Filters of data files and
  the gzip format (which is not read in part).
* In `IndexLookup` and `IndexSearch`: the auxiliary indexes of suffix and word
  searches (`index_suffix`, `index_word`), whose use makes other lists to look
  through, and the collation of 8-bit locales: characters are ordered by their bytes.
* In `Session`: names that begin with `*` or `!` and go on, which `next_database`
  takes for the patterns while `SHOW INFO` takes them for a name.
* In `Lifecycle`: a default strategy given on the command line, with which the one of
  the file is skipped (`servparse.y:281`).
* The inner working of zlib, of regular expressions and of plugins is external:
  the models take it as any behaviour their interface allows. The plugins in
  `dictdplugins/` are therefore only covered as far as `dictd` sees them.
