# fzdb: a TLA+ verification development

fzdb is a graph database.  Its server (`src/src/`, C++) takes text commands (an
FSPARQL dialect, and commands on accounts, links and files) from TCP clients and
answers in JSON.  Its web client (`src/frontend/`, JavaScript) is a page with a
terminal, and a Node service that gives each page a connection to the server.
This directory models the parts of both whose correctness depends on long
histories of commands, on threads, requests and callbacks that interleave, or on
failures; it checks them with TLC and proves most of their safety properties
with TLAPS.

Source paths below are relative to `src/src/` for the server and to
`src/frontend/` for the web client.

## 1. The system

### Components, their state and their operations

| component | state | operations |
|---|---|---|
| TCP server and sessions (`server.cc`, `session.cc`, `isession.h`) | per connection: the pending read, the bytes of an unfinished command; name, id and group of the logged-in user | accept, `handle_read`, `respond` |
| Command interpreter and parser (`command_interpreter.cc`, `parser.cc`) | none between commands | tokenize, parse, create one job per command; a command that does not parse is answered at once |
| Job queue and jobs (`job_queue.cc`, `job.cc`, `singletons.cc`) | the queue of the `io_service`, two threads (the main one and `THREAD_COUNT` = 1 more), the reader-writer lock `databaseMutex` | `AddJob`, `ExecuteJob`, `Job::execute`: check the permission, take the shared or the exclusive lock, run, answer |
| Entity and link tables (`model/entity_manager.cc`, `model/entity.cc`) | `_entities`, `_links`, `_lastHandle`, each entity's link status | `createEntity` (INSERT), LINK, UNLINK, LINK FINAL, DELETE, FLUSH |
| Property values (`model/property_owner.cc`, `model/entity_property.cc`, `types/`) | per entity and property: an ordered list of values with confidences and metadata | insert, append, remove, sort and renumber, merge |
| Name tables (`util/name_manager.h`, `util/id_generator.h`) | ids of entity types and property names, the pool of released ids | `getId`, `releaseId`, add and remove a name |
| Queries (`model/entity_manager_queries.cc`, `variable_set.cc`, `filters/`) | the table of bindings of one query | `BGP`, the scans, filters, sorting |
| Accounts and permissions (`user/`) | `_userFileCache`, the id generator | login, logout, add, remove, promote, demote, passwords, `checkPermission` |
| Data file (`file_system.cc`, `model/*_serialiser.cc`) | the data file and the files SAVE writes | `saveToFile`, `loadFromFile`, start-up |
| Debug commands (`jobs/debug_*.cc`, `echo`, `ping`) | none | text output |
| Web service (`server.js`) | the sessions of its pages, `clients`: a socket to the server for each CONNECT | the routes `POST /` (a query), `/connect`, `/disconnect`, the sockets' events |
| Page (`public/index.html`) | whether it is connected | one request for each command of the terminal |
| Command line (`public/terminal.js`, `$.fn.cmd`) | command, position, prompt, kill buffer, history, reverse search, paste, flags of the key handlers | keys, and the methods `set`, `insert`, `delete`, `prompt`, `name`, `purge`, `enable` |
| Output (`public/terminal.js`, `$.fn.terminal`) | lines, output buffer, the rows on the screen, size, scrollbar | `echo`, `flush`, `update`, `error`, `exception`, `clear`, `resize`, `export_view`, `import_view` |
| Commands (same) | paused, enabled, frozen, the delayed commands and their promises | `exec`, ENTER, `pause`, `resume`, answers of requests, CTRL+D, focus and blur, `freeze` |
| Login and interpreters (same) | the stack of interpreters, masks, token, whether the history is on | `push`, `pop`, `read`, `login`, `logout`, `autologin`, `reset`, `set_mask` |
| Formatting, completion, JSON-RPC (same) | none | functions of their text |
| Command line clients, Windows service, scripts (`sendfile.js`, `tel.js`, `service/`, `scripts/`, `tools/`) | none of the database's | |

### How they interact

A session reads a command, has it parsed on the reading thread and posts a job.
Any of the two threads takes the job, reads the session's group (no lock), takes
the lock and runs it.  A job that changes data holds the lock alone, changes the
tables in memory and, before it returns, writes the whole database to the data
file.  A command that throws half way reads the data file back.  INSERT asks the
session (through a thread-local pointer) for the id of the author of what it
stores.  A query is evaluated over the tables and the link graphs: a condition
is answered by an entity without links, or by the Master of a link graph for the
whole graph.

A command typed in the page is an HTTP request.  The service finds the socket of
the request's session, writes the command to it and takes the next data event of
that socket for the answer.  In the terminal everything is a callback of the
browser's event loop: keys, timers, answers of requests and calls of the program
come in any order, and each runs to its end.  ENTER hands the command line's text
to `commands`, which prints it, calls the interpreter on top of the stack and
pauses the terminal while the answer is outstanding.

### What is hard about it

* Threads: a permission is checked before a wait for the lock; answers of one
  session may overtake each other; a job waiting to become a writer waits for
  readers that keep coming.
* Failure: a command stops half way and is undone by reading a file which other
  parts of the same command may already have overwritten; the process stops
  while it writes that file.
* Histories: handles, user ids and name ids are given out again; link graphs are
  joined, split and merged and every member's status must follow.
* Stale copies: a session keeps what its user was at login; records keep author
  ids of accounts that are gone; queries hold indexes into lists that are
  renumbered.
* Requests: they overtake one another, cookies expire, answers come in pieces,
  and a data event does not say which query it answers.
* Event loop: answers arrive when the command line, the stack of interpreters or
  the screen is no longer what it was when the request was sent; flags set by one
  handler are read by the next; several modes (search, mask, pause, login) are
  left by many ways out.

### What makes each component correct

* Links: symmetric table, one Master per graph and it is the lowest handle, one
  answer per value, no DELETE of a linked entity, handles never shared.
* Accounts: unique ids, sessions never half one user and half another, accounts
  changed only by those who may, true authors.
* Jobs: each command is answered once and takes effect at one moment between its
  receipt and its answer, no command waits for ever.
* Data file: what is loaded is a state the database was in; a command that fails
  leaves no trace; the server starts after any crash.
* Web client: a page gets its own answers, whole ones if it waits for them; a page
  that believes it is connected is; each page has one connection.
* Terminal: the cursor is drawn where the next letter goes and the screen shows
  what was printed; what is killed can be yanked; delayed commands run once and in
  order; a password is masked and kept out of the history, and no command runs
  before the login.
* Property values: indexes without gaps, references that name the value they
  named, metadata that stays with its value.

## 2. Plan

1. `EntityLinks`: entities, links, rollback and restart, one command at a time.
   Done; safety proved.
2. `UserAccounts`: accounts, sessions and the permission check, with two worker
   threads.  Done; safety proved.
3. `JobQueue` over `AtomicCommands`: sessions, queue, threads and lock in detail,
   shown to implement commands that run at one moment each.  Done; safety and
   the refinement proved, liveness checked.
4. `DataFile`: the file written piece by piece, crashes, a full disk, SAVE, LOAD
   and start-up.  Done; safety proved.
5. `WebBridge`: pages, service and the server's sessions.  Done; safety
   proved, liveness checked.
6. The terminal: `CommandLine` and `CommandLineView`, `TerminalOutput`, their
   composition `TerminalScreen`, `TerminalCommands` and `TerminalLogin`.  Done; safety
   proved.
7. `PropertyValues`, with the name tables: ordered lists of values, renumbering,
   references by index, metadata, names released by DELETE.
8. `SessionReader`: the framing of commands and answers, and the acceptor.
9. `Bindings`: a query's table of bindings and its joins, as pure operators
   against the relational meaning of a pattern; the order and merge of values.
10. The round trip of the member records of the file formats.
11. Several terminals in a page, and the states kept in the browser's history.

Abstract specifications worth stating: `AtomicCommands` (for 3); for the link
tables, an equivalence relation on entities with one representative per class;
for 5, one channel of queries and answers per page; for 7, a bag of values per
entity and property.  Theorems worth proving next: that references of 7 name
the value they named, and that names and values of 7 keep their ids apart.

## 3. The modules

### EntityLinks

`store` is `_entities` (type and link status by handle) and `_links` (its pairs
and its keys: a key stays when its set of links becomes empty on some paths), and the
entities that are `_locked`, of which the unknown source, handle 1, is the only
one; `disk` is the database as `saveToFile` last wrote it, `lastHandle` is
`_lastHandle`.  `running` becomes FALSE when an assertion fails or a null pointer
is followed, `reply` is what the last command answered.

| action | code |
|---|---|
| `InsertEntity`, `InsertFails` | `createEntity` in `Insert`, and the `catch` that reads the file back |
| `LinkEntities`, `UnlinkEntities`, `MergeEntities` | `linkEntities`, `unlinkEntities`, `mergeEntities`, with what the jobs of `jobs/link.cc` answer |
| `DeleteEntities` | `Delete` over the rows of its pattern: the first row that is linked, or was deleted before, stops it |
| `Flush`, `Restart` | `clearAll`; the start of a new process from the file |

Commands run one at a time here; `JobQueue` shows why that is sound.  Properties
of entities are left out (a value of an entity is a value of its handle), and
`SelectsAnswer` evaluates the condition of a scan, `meetsCondition`, on every
entity.  `MergeEntities` into a locked entity throws like the copy of the property
that every entity has, its type; `Merges` says which LINK FINAL commands clients
send.  A debug build is modelled: assertions abort.

### UserAccounts

`users` is `_userFileCache`, `idGen` the counter and the stack of released ids,
`sessions` the name, id and group each session keeps, `jobs` what each worker has
checked and not yet run, `record` one record with its author.  `CheckPermission`
is the check in `Job::execute` before the lock; `login`, `logout`, `addUser`,
`removeUser`, `changeUserGroup`, `resetPassword`, `changeUserPassword` and
`insertRecord` run the job with the lock.  A job that is refused has no action:
it changes nothing.  `Pipelining`, `Removing` and `Restarting` are constants that
say what clients and operators do.

### JobQueue and AtomicCommands

`AtomicCommands` is what a client is promised: a command that was received takes
effect on the database at one moment, or has none and fails, and then it is
answered.  A query returns the rows of one state.

`JobQueue` is how the server does it.  `request` is the command under way in
each slot of each client, `socket` what was sent and not yet read, `listening`
the sessions with a pending read; `job` is the Job that was made for a command;
`handlers` is the queue of the `io_service`,
`threads` are the threads that call `run`, each at a place of `Job::execute`;
`mutex` is the state of the `boost::shared_mutex`.  `tables` are the tables one job visits or changes one
after the other, `saved` is the data file.

`Patient` are the sessions whose client waits for each answer; others send up to
`Outstanding` commands ahead.  One read takes what has arrived, and the newlines in
it are removed: commands that are read together are the text of one.  `handle_read`
takes any number of the commands on the socket; the first of them gets the job and
the answer, what runs is any command or none (`TextOf`), and the others get no
answer and keep their slot for ever.

| action | code |
|---|---|
| `ReadCompletes`, `handle_read` | `async_read_some` and `TCPSession::handle_read`: parse what has arrived, `AddJob`, read again |
| `ExecuteJob` | a thread takes a job; a session without the permission gets the error at once |
| `LockShared`, `UnlockShared` | `boost::shared_lock` around `executeConst` |
| `LockUpgrade`, `UpgradeToUnique`, `UnlockUnique` | `upgrade_lock`, then `upgrade_to_unique_lock`, around `executeNonConst` |
| `VisitTable`, `QueryEnds`, `QueryThrows` | a query |
| `ChangeTable`, `saveToFile`, `UpdateThrows` | INSERT: change, save, or throw half way and read the file back |
| `Respond` | `TCPSession::respond` |

`ImplementsPromise` maps the result a thread holds, from the moment its job has
ended, to the results of `AtomicCommands`, and `saved` to its database.

### DataFile

`files` are the cells (a header and `Parts` parts) of the data file and of one
file clients SAVE to; `jobs` is what each thread is writing; `disk` says whether
the disk is full and `running` whether the process runs.  `Opens` truncates,
`WritePart` writes the next cell and says nothing when it fails, `Close` answers
with success.  `Insert` makes the memory `Half` made; `InsertSaves` completes it,
`InsertThrows` reads the file back.  `Flush`, `SaveFile`, `LoadFile` and `Start`
are `clearAll`, the two jobs and `initialise`.  `ProcessEnds` and `DiskFills`
happen at any moment.  When `unserialise` throws, on bytes that were not saved
together, `clearAll` has overwritten the data file, and a server that was starting
ends (`Unserialise`).  Jobs that change data run alone; SAVE is declared a query
(`jobs/save_file.h:14`), so SAVEs overlap.

All saved states have the same size here.  The `.failed` copy is not followed
(nothing reads it), a file that cannot be opened is left out, and `Garbage`
stands for whatever `unserialise` makes of bytes that were not saved together.

### WebBridge

`connected` and `cookie` are the page's, `sessions` and `clients` the service's,
`link`, `toDb` and `fromDb` the sockets and what is on its way in them,
`listeners` the `once('data')` handlers.  A request is numbered; a session, a
connection and its id carry the number of the request that made them.  `phase`
says how far a request got, `body` what its response is made of.

| action | code |
|---|---|
| `Post`, `Deliver`, `Reload`, `CookieExpires` | `index.html`: a command of the terminal, the success callbacks, the browser |
| `LoadSession` | the session middleware, before the body of the request is read |
| `SendQuery`, `WriteFails`, `NoClient` | `POST /` (query), and the error answers of it and of `/disconnect` |
| `Connect`, `Connected`, `Disconnect` | `POST /connect` and the callback of `client.connect`; `POST /disconnect` |
| `Data`, `TimesOut` | the `once('data')` callback; Node's timeout of a response nobody ends |
| `NodeDies` | an 'error' event that nobody listens to ends the process; part of `WriteFails` and `DatabaseStops` |
| `DatabaseAnswers`, `DatabaseStops` | external: `TCPSession::handle_read` and `respond` seen from the socket; the server ends and comes back |

A patient page waits for each answer before it sends the next request; the others
send up to `MaxAhead`.  `torn`, `lapsed` and `left` remember what voids a promise:
a data event that cut an answer, a lost cookie or service, a reloaded page.

### CommandLine and CommandLineView

A command is a sequence of characters with a position in it; `search`, `history`,
`last_command`, `kill_text`, `prevent_keypress`, `no_keypress`, `clip` and `pastes`
are variables of the same meaning in the `cmd` plugin.

| action | code |
|---|---|
| `Type`, `TypeAlt` | the `keypress` handler |
| `Enter`, `ShiftEnter`, `Backspace`, `CtrlH`, `Delete`, `AltD`, `Up`, `Down`, `Move`, `Escape`, `Shift` | the branches of `keydown_event` |
| `CtrlR`, `CtrlG` | reverse search: `reverse_history_search`, `clear_reverse_state` |
| `KillWord`, `KillToEnd`, `KillToStart`, `Yank` | CTRL+W, CTRL+K, CTRL+U and CTRL+Y |
| `Paste`, `PasteTimer`, `Release` | `paste` and its timer of 100 ms; the key that goes up |
| `SetPrompt`, `SetName`, `Purge`, `EnableHistory`, `Enable` | the methods `prompt`, `name`, `purge`, `history().enable`, `enable` and `disable` |

`CommandLineView` has no action: `ScreenLines` and `CursorPlace` are `redraw`, which
splits the command into screen lines and puts the cursor into one of them, as
operators that are evaluated in every state.  `typist` says which keys a behaviour
uses and how long a command may get.

### TerminalOutput and TerminalScreen

`screen` is the record of what `$.fn.terminal` keeps for output: `lines`,
`output_buffer`, the rows on the page (`output`), sizes, limit and timers.
`process_line`, `flush`, `redraw`, `resize`, `echo`, `error`, `exception`, `update`,
`cleared` and `on_scrollbar_show_resize` are functions from one such record to the
next, named after the methods; `promised` are echoed promises not yet resolved.

`TerminalScreen` is one terminal made of both: `EnterPrints` is `Enter` with the
echo of the command, `KeyPressed` any other key, `Printed` and `Resized` what the
program and the window do to the output, `Clear`, `ExportView` and `ImportView` the
methods that touch both.

### TerminalCommands

`term` is the terminal: paused, enabled, frozen, `delayed_commands`, the callbacks
that wait for 'resume', the requests CTRL+D would abort, and for each command its
work and its promise.  A turn of the browser's event loop is not one step: `resume`
runs the program's interpreter, and `deferred.resolve()` its callbacks, before they
return, and both may call `exec` while the loop of `resume` has commands left.  So
`stack` holds the calls that have not returned, each with the place it is at
(`Places`) and the commands it is about, and `thrown` says that an exception leaves
the innermost one.  `inside` are the commands executed in such a call while delayed
ones were left to a loop, `typed` those that came by ENTER.

| action | code |
|---|---|
| `Exec`, `Freeze`, `Catches` | the program calls `exec` and `freeze`, in an event, in its interpreter or in a callback, and may catch what they throw |
| `Requests`, `Returns`, `Promises`, `ReturnsValue`, `Throws` | what the program's interpreter does, and what `commands` makes of it |
| `CallbackReturns`, `CallbackThrows` | a callback of a promise of `exec` |
| `LoopNext`, `LoopEnds`, `TriggerNext`, `TriggerEnds` | `resume`: the delayed commands, then the handlers of 'resume' |
| `Resolves`, `Rethrows`, `Escapes`, `EscapesFrom` | `commands` and `then` after their own `resume`; exceptions on their way out |
| `Enter` | `commands` called from the command line |
| `Fulfilled`, `Rejected`, `Answered` | the interpreter's promise; the request of a command that paused the terminal itself |
| `CtrlD`, `AbortNext`, `AbortCatches`, `AbortEnds` | the key while the terminal is paused |
| `Click`, `ClickElsewhere`, `WindowBlur`, `WindowFocus` | the handlers that enable and disable the terminal |

### TerminalLogin

`term` holds the stack of interpreters, the mask, the token, whether the history
is on and whether a login is under way; `calls` counts the authentications of
each login that are not answered.  `push`, `pop`, `login`, `logout`, `LoggedIn`,
`WrongPassword` and `NestedFails` are functions of the terminal.

| action | code |
|---|---|
| `EnterUser`, `EnterPassword`, `EnterRead` | ENTER at the prompts of `login` and `read` |
| `Exit`, `LoginCommand`, `CtrlD` | the commands `exit` and `login`, the key |
| `Answer`, `autologin` | the callback of the program's authentication; the event `terminal.autologin` |
| `Push`, `PushLogin`, `read`, `Pop`, `SetMask`, `reset` | the methods, called by the program |

`odd` remembers what voids a promise: an answer that comes when its password
prompt is not up ("astray"), a program that changes the stack during a login
("meddled"), a failed login of a pushed interpreter ("failed"), masks taken off by
`reset` ("stripped").  The page of fzdb uses no login; the code is part of the
terminal it ships.

## 4. The runs

| run | what it shows | bounds |
|---|---|---|
| `links_full` | all commands: the table is symmetric, memory and file agree, no live handle is given out, Master and Slave are where they belong, DELETE spares linked entities | 3 handles (the smallest number with a chain), 2 types, DELETEs of 2 rows |
| `links_no_merge` | without LINK FINAL: each graph has its lowest handle as Master, every value is answered under exactly one entity | 4 handles: two graphs that are joined or split |
| `links_LowestIsMaster` | violated with LINK FINAL (see Finding) | 4 handles, LINK FINAL of two different entities |
| `accounts_concurrent` | ids are unique, sessions whole, accounts changed only by those who may | 2 names, 2 sessions, 2 workers, ids 1..2, pipelining, removals, restarts |
| `accounts_waiting` | clients that wait for replies, accounts that last: a job runs with what was checked, authors are true | 2 passwords, ids 1..3 |
| `jobs_safety` | isolation, rollback, no command run twice, none of a client that waits lost, and the promise implemented | 2 sessions, one that waits and one with 2 commands ahead, 2 threads, 2 tables, 2 values |
| `jobs_liveness` | every command of a client that waits is answered | 3 sessions that go on asking and wait, 2 threads |
| `data_file` | what a file gives back is whole, the start is from the newest save | 3 states, 3 parts and a header, 2 threads, 2 files |
| `web_bridge` | answers stay with their page, a patient user gets whole answers, stays connected and holds one connection; every request ends | 2 pages of which one is patient, 2 requests ahead, 4 requests, answers of 2 chunks, 1 expiry or stop |
| `terminal_screen` | the position stays in the command and is drawn where the next letter goes, what is killed can be yanked, a search gives the prompt back, the screen shows what was printed | commands of 1 to 5 characters, 2 lines of output, terminals of 2x2 and 4x3 characters |
| `terminal_commands` | commands run once and in order but for those executed inside `resume`, none is forgotten, a promise is resolved when its command is done, delayed commands run in the end | 4 commands of any kinds, or 3 while user, window and program switch the terminal on and off |
| `terminal_login` | a password is masked and not remembered, commands need a token, history and mask come back | 2 logins with 2 answers outstanding each, 5 interpreters |

Why the bounds are enough for what they are for.  Server: two workers are the two
threads it has (`THREAD_COUNT` and the main one); a third session is needed for a
job to wait behind two others; two tables let a query stand between the halves of
an update; ids 1..2 make the id of a removed user return, 1..3 let two users live
beside the administrator; two overlapping SAVEs are all two threads can make.  The
theorems of section 6 have none of these bounds.

Web client: one patient and one impatient page are the two ways to use the
service and can disturb each other only through it; four requests let a page
connect, ask twice and disconnect, or let both pages connect and ask; a second
chunk is the one that is left over.  Three commands let one run, one be delayed
and a third come between; a fourth lets one executed inside `resume` overtake
another, which takes one to pause, two delayed ones and a callback of the first of
these.  Two answers outstanding are one more than the login
expects, five interpreters are a login on a pushed interpreter on the main one.

`MCTerminalScreen` splits the keys among typists, since all keys at once on long
commands are too many states: `Editing` (commands of up to 5 characters on lines
of 2: four screen lines and all places of the cursor), `Killing` (4: two words),
`Recalling`, `Searching`, `Prompted` and `Pasting` (1 to 3, with two pastes under
way), `Printing` (texts of 0 and 3 characters, output limits -1, 0 and 1, windows
that change while hidden or scrolled) and `Viewing` (`clear` and saved views).  The
terminal of all but `Printing` is the small one and prints no more than they ask
for.

All counters that grow (`MaxHandle`, `MaxId`, `MaxRequests`, `MaxFaults`,
`MaxCommands`, `MaxLogins`, `MaxCalls`, `MaxDepth`, `MaxLines`, `MaxPastes`
and the length of a command) are bounded by a guard on the action that takes a
new one.  In `TerminalCommands` a behaviour in which others than the commands switch
the terminal on or off has one command less (`switched`, `Switches`).  The symmetry
sets permute sessions, workers, threads, names or prompts,
which no definition distinguishes; runs that check liveness use none.  Deadlock
is checked except in `web_bridge`, `terminal_screen` and `terminal_commands`: there all
requests or commands may be used up, and a command of full length may leave a typist
without a key.

### Finding

LINK FINAL of a Master into an entity outside its graph leaves a graph without
Master, whose entities answer no query, where `model/entity_manager.h:149`
promises that the lowest id is the Master (`links_LowestIsMaster`).  With entities
2, 3 and 4 of one type, `LINK 4 3` makes 3 the Master of {3, 4}; `LINK FINAL 3 2`
erases 3, and 4 stays the Slave of a graph that has no other entity.  Entity 1,
the unknown source, plays no part: it is locked, and LINK FINAL into it is undone.

### What was observed

Each of these is in the model, as the code has it; where it makes a property
false, the property names it as its exception.

Server:

* LINK of an entity that does not exist is answered with success: `linkEntities`
  catches its own exception (`model/entity_manager.cc:669,691`, `jobs/link.cc:17`).
* LINK FINAL of an entity with itself erases it.  The links of an entity that LINK
  FINAL erased stay, in the file too: a new entity that is given its handle after a
  restart or rollback has them (`model/entity_manager.cc:779`).
* Commands that a client sends without waiting, and that one read takes together,
  are joined to one text, since newlines are removed (`session.cc:59-90`,
  `command_interpreter.cc:31-32`): it is answered once, if at all with what one of
  them asks for, and the others are lost.  `EachCommandOnce` and
  `EveryCommandIsAnswered` promise only to clients that wait that no command is
  lost.
* A read that fills its chunk of 384 bytes is taken for a part of a command
  (`session.cc:71`): a command whose length is a multiple of that waits for the next.
* The permission of a job is that of the session before it waits for the lock: a
  pipelined LOGOUT may run in between (`job.cc:26,46`).
* The id of a removed account goes to the next one, which then is the author of
  the records of the removed one (`user/user_operation.cc:87`).
* `saveToFile` is documented to return whether it succeeded
  (`model/entity_manager.h:134`) and returns true whatever the stream did.  So a
  full disk leaves short files, the rollback of the next INSERT that fails finds
  nothing to read, and what the INSERT did half stays.
* Two SAVEs to one file share the lock: the second truncates what the first still
  writes, and a crash or a full disk then leaves a file of the right length with a
  hole, which `readFile` accepts.  This is the exception of `ReadableIsWhole`.
* When `unserialise` throws, `clearAll` has overwritten the data file with an empty
  database before the exception goes on (`model/graph_serialiser.cc:160-163`): a
  damaged file given to LOAD costs the data file, and a damaged data file is emptied
  by the start that fails.
* LOAD does not save what it loads: the rollback of a later INSERT returns to what
  was saved before the LOAD.

Web service and page:

* The cookie lasts 60 seconds.  A page whose cookie has expired can neither query
  nor DISCONNECT, and cannot CONNECT because it believes it is connected.
* Every `once` listener of a socket gets the next data event: queries that are
  under way together get the same answer.
* The server answers in chunks of 384 bytes (`session.h`, `OUT_CHUNK_LENGTH`; the
  comment at `session.cc:141` says 1024).  A data event may hold the first only,
  and what is left is taken for the answer of the next query.  `sendfile.js` takes
  a chunk shorter than 384 bytes for the last one and waits for ever when an
  answer is a multiple of it.
* A socket's 'error' has no listener: one failed write ends the service for all.
* A connection of a page that was loaded again is never closed.

Command line and output:

* With three screen lines and the cursor in the middle one, it is drawn one
  character too far to the left (`terminal.js:1188`).
* CTRL+K at the end of the line puts the plugin itself aside, and CTRL+Y inserts
  `[object Object]` and moves one place; CTRL+W behind nothing but blanks throws.
* SHIFT and ESCAPE leave `no_keypress` set, and a stale `prevent_keypress` swallows
  a character typed with ALT.
* When the history is replaced during a search, CTRL+R may loop for ever; a
  prompt set during a search is lost with it.
* DOWN at the end of the history brings back a `last_command` of long ago; of two
  pastes within 100 ms the first is lost; masked and empty lines go to the history
  when there is no filter.
* `echo` empties the buffer first: of several with `flush: false` only the last is
  shown, until a redraw.  `clear` keeps the buffer.
* `outputLimit` compares rows, and removes one more than needed; in `redraw` it
  counts from a negative index when the limit exceeds the number of lines.
* The text of an extended command is printed again by each redraw; `clear`,
  `update` and `import_view` do not look whether the scrollbar came or went; a
  window that changes while the terminal is hidden is not noticed.

Commands and login:

* A callback of a command's promise, or the program's interpreter, may call `exec`
  while `resume` has delayed commands left to run: the terminal is not paused then,
  and the new command runs before them (`terminal.js:3315,3851,4045-4047`).  This is
  the exception of `RunsInOrder`, in `inside`.
* A handler of 'resume' unbinds all of them, those that its own callback has bound
  included: a command that waits for the next `resume` is then forgotten, and its
  promise stays pending (`terminal.js:3381-3385`).  The same befalls the requests begun
  while CTRL+D aborts others, since `requests` is emptied afterwards: CTRL+D does not
  abort them any more (`terminal.js:3686-3698`).
* A delayed command that throws makes `resume` forget the others, whose promises
  stay pending; `exec` of `clear` or `exit` always throws a TypeError.
* A rejected promise leaves the terminal paused.
* Pausing is not counted: a click, the focus or unfreezing enables a paused
  terminal, a command then typed runs at once, and its resume resolves the promise
  of another command that waits for one.
* Two wrong answers to one password prompt pop the user prompt too and show the
  main interpreter, without a token.
* A failed login of a pushed interpreter leaves the history off; one that succeeds
  pops that interpreter and replaces the terminal's token.
* The handler of `terminal.autologin` is gone after the first failure; `pop` of the
  last interpreter of a terminal with a login goes on with a value that has no
  `set_mask`, and throws; `logout` pops one level only.

## 5. Fairness

`jobs_liveness`.  A read completes when there is something to read and a thread
that can take a step does (weak fairness): the operating system schedules the
threads and every step ends.  `LockShared` and `LockUpgrade` have strong fairness,
since each unlock of `boost::shared_mutex` wakes all threads that wait, and one
that is woken again and again while the lock is free gets it.  Nothing is assumed
of `UpgradeToUnique` beyond the weak fairness of the thread's steps, nor of
clients, who may stop sending.  The result rests on there being two threads.  With
three, an update that holds the upgradable lock may wait for ever for queries that
overlap (`job.cc:46`), and `EveryCommandIsAnswered` fails; it also fails without
strong fairness on the locks.

`web_bridge`.  Weak fairness for each request of what the event loop, the network
and the database do: `LoadSession`, the handler, `Connected`, `Data`,
`DatabaseAnswers`, `TimesOut`, `Deliver`.  Node runs every callback it has, TCP
delivers what is sent on an open socket, and `jobs_liveness` is the database's
side.  Users, failures and restarts owe nothing.

`terminal_commands`.  Weak fairness of `Runs`: a turn of the event loop goes on to its
end, the program's interpreter and callbacks in it included.  Weak fairness of
`Fulfilled` and `Answered`: the requests that commands wait for are answered, as
`EveryRequestEnds` says of the service's.  Nothing is assumed of users, of the focus
or of when the program calls `exec`.

## 6. What is proved

The theorems hold for all values of the constants that the assumptions
`LinksAssumption`, `AccountsAssumption`, `QueueAssumption`, `DataAssumption`,
`WebAssumption`, `CommandLineAssumption`, `CommandLineViewAssumption`,
`TerminalOutputAssumption`,
`CommandsAssumption` and `LoginAssumption` allow; TLC evaluates these in each run.
PROJECT.json lists the theorems.

* `EntityLinks_proofs`.  `LinksSymmetric` or `StatusFollowsGraph` alone are not
  inductive: a command that throws replaces the memory by the file.  `IInv` is
  `TypeOK`, `GoodStore` of the memory and of the file (symmetric links, keys that
  cover them, statuses that follow the graphs), `MemoryMatchesDisk`,
  `NewHandleIsUnused` and that live linked entities are alive in the file too.  The
  graph of an entity is the smallest closed set that contains it; the lemmas on it
  (it contains the start, is closed, is the same from each of its members, and how
  LINK joins and UNLINK splits it) carry the proof.  `LowestIsMaster` and
  `SelectsAnswer` are proved under `Merges = {}`, with `Unmerged`: every entity that
  has links, in memory and in the file, exists and has a status.
* `UserAccounts_proofs`.  `IInv` is `TypeOK`, `IdsAreUnique` (with the pool and the
  counter), `SessionIsWhole` and `JobsWereChecked`: a waiting job's command is
  permitted to the group it was checked with.  `RunsAsChecked` needs in addition,
  when clients wait, that a session has one job at a time and keeps its group
  while it runs; `AttributionIsTrue` needs, when accounts last, that sessions
  and records hold the ids of existing users.
* `JobQueue_proofs`.  `IInv` says where each command is (socket, handlers, threads),
  that the mutex is held by the threads whose place says so and that readers
  exclude writers, that a thread past a place has a request of the right kind, and
  that a query has seen one value, the saved one.  `NotLost` counts each command
  once, and a session whose client waits has one command at most, so that a read
  takes it alone.
  `Atomicity` is `Safety => ImplementsPromise`: a query takes
  effect when it ends, an update at its save, a refused or failed command when its
  result is known; `Respond` is the answer and every other step but `Send` a
  stutter.  Its lemma `ShownResults` is that at most one thread has a command.
* `DataFile_proofs`.  `IInv` adds to the types that at most one job writes each file
  that is not in `mixed`, and that this file is a beginning of the value its writer
  writes and ends where the writer is, unless a write has failed; a file nobody
  writes is a beginning of some value; and what is readable in the data file is the
  newest state.
* `WebBridge_proofs`.  `OwnAnswers` follows from `Apart`: cookies, sessions,
  connections, listeners, and the queries and answers on a socket all name
  requests of the page they belong to.
  A page that waits for its answers has one request in flight
  (`Lone`), which is the one its connection's listeners and queries are about
  (`Attended`); it holds one connection, and knows it or is about to (`Held`); the
  session of a connected page leads to it (`Steady`); and a connection that has cut
  no answer holds nothing, the one query, or its whole answer (`Piped`).
* `TerminalScreen_proofs`.  `IInv` says by groups of variables what the command line
  keeps: the position within the command, the texts that are lines, the histories
  within their size, the search at an entry of the history, and a backup of the
  prompt exactly during a search, when it is the prompt that was asked for last.
  The lemmas before it say what `slice`, the words of ALT+D, CTRL+W and the
  cursor keys, `delete`, `insert` and the search return, for lines of any length.
  The proofs are about `ScreenSpec`, so with the calls that the terminal makes
  (`import_view` sets prompt, command and position at any time).  `KillTakesOut` is
  an action property: the part that a key cuts out of the line is the one that it
  keeps, to be put back where it was.

  `ScreenFollowsLines` is about the page alone and not inductive: what
  `flush` brings to the page waits in `output_buffer`.  `Orderly` says it of both: the divs
  are of lines there are, those of the page above those of the buffer, in order, and
  whole for the present width but for the first on the page (`Placed`); without a
  limit each line that is due has its div on the page (`NoneMissing`).  Each method
  is shown to keep it: `flush` appends the buffer and `outputLimit` takes an end
  of what is then there (`IsEndOf`), `redraw` makes it anew whatever was there,
  which is why a resize, an update and an imported view need nothing of the old
  page, and `echo` keeps it although it may redraw between its two halves.  Lines,
  texts, limits and windows are of any size: rows are counted and lines are
  processed by recursive functions; `LoopExists` shows that there are such, and
  `Reaches` that they keep what their steps keep.

  `CursorIsAtPosition` follows from the two invariants: the position is in the
  command and the terminal has a width of at least one.  `IsSplit` says that lines
  are numbers, one at least, and hold so many characters together; the command's own
  lines (`OwnLinesIs`), their parts (`StrPartsIs`) and the screen lines made of
  them (`SplitLinesIs`) are such, and of any such lines the five ways to place the
  cursor find the position (`CursorPlaceIs`), one of them one off.
* `TerminalCommands_proofs`.  `IInv` speaks of the terminal and of the calls that have
  not returned.  `QueueInv`: the commands that have run, those that are delayed and
  those that the loops on the stack have left, the innermost loop first, form one
  queue without repetition in which each pair satisfies `MayPrecede`, which is the
  order of the calls but for typed commands and those executed `inside`.  `WorkInv`:
  what each kind of work and promise of a command means (`Kind`), what each call on
  the stack may be about (`CallsFit`), that the interpreter works on a command in one
  call only (`CalledOnce`), and that nothing else resumes the terminal for a command
  while that is the only one that has run (`Alone`).
  `Good` says this of any terminal and any stack, and a lemma for each method
  (`GoodResume`, `GoodExec`, `GoodRun`, ...) that it keeps it; `Fine` says it of a
  step, with one lemma per action.  `StepIs` adds that no step loses a command but
  `Escapes` from a loop, which is `NothingForgotten`.
* `TerminalLogin_proofs`.  `Basics` always holds: the main interpreter is at the
  bottom of the stack and only there, the command line has the mask of the
  interpreter on top and the others have saved theirs, and the history is on
  outside a login.  When no answer came astray and the program has not meddled with
  a login (`Quiet`), `Undisturbed` says what the stack looks like in one: the prompt
  for the user is on top, or under the prompt for the password with the mask on;
  below them are the interpreters that were there before, only the main one if the
  login is the terminal's; the history is off; and a terminal that wants a login
  has its token or is in that login.  A login that succeeds pops all but the main
  interpreter by a recursive function, which is shown to end there.

## 7. What is only model-checked

* `EveryCommandIsAnswered`, `EveryRequestEnds`, `DelayedRuns`: liveness under
  fairness, and `ENABLED`, are not for this prover.

No module has a recursive operator: the walk over links is a smallest closed set,
and loops, those of a login and of the two that draw, are recursive functions;
the loop of `resume` is a call on a stack.

## 8. What is not modelled

* Property values, name tables, queries and the formats of records: see the plan.
  Hazards met there: values are numbered by position and renumbered when some are
  removed (`model/entity_property.cc:191`), a meta variable keeps the numbers
  from before (`model/entity_manager.cc:480`), a property's name is removed with
  the last value of one entity (`:445`) and a DELETE may name what it has erased
  (`:414`).
* The sessions' details: a buffer that `async_write` uses after it is gone
  (`session.cc:169`), a command that fills the last read exactly (`session.cc:71`),
  an acceptor that stops at the first error (`server.cc:42`), and the race of
  LOGOUT, declared a query, with queries of its session (`jobs/user_logout.h:18`).
* The exception thrown as a pointer at `model/entity_manager.cc:257`, which no
  handler catches and which ends the process.
* In `JobQueue`: the pieces of commands: a command fits one segment and one chunk of
  384 bytes, so a read takes whole commands.  Also LOAD, FLUSH and the commands on
  links and accounts as updates
  of their own (their locking is that of INSERT, which is modelled),
  clients that disconnect, the end of the server.
* In `DataFile`: all saved states have one size; a file that cannot be opened.
* In `TerminalCommands`: a program that calls `pause` and `resume` on its own, but for
  the pause of a request that its answer ends; what it does in the hooks
  `onBeforeCommand`, `onAfterCommand`, `onPause` and `onResume`.
* In the terminal: TAB and completion, selection, touch, the history filter,
  formatting, raw lines, finalize functions, lines that are functions, several
  terminals in a page, the states kept in the browser's history, JSON-RPC
  interpreters (for the terminal, a command that pauses it), and the start of the
  plugin.  `import_view` shares its saved stack with the terminal.
* Passwords' hashes, the user file (written, never read), the parser, debug
  commands, command line clients, the service wrapper and the scripts:
  PROJECT.json says why, for each.
