# A TLA+ model of msgbrowse

msgbrowse keeps a local, searchable archive of a user's messages. It runs
exporters (Signal, iMessage), reads WhatsApp's own database, imports what they
give into a SQLite database, derives facts, journals, vectors and scores from
it with a language model, keeps snapshots of the database, and replicates the
archives between the user's devices with a private Syncthing daemon. It runs as
a server (`msgbrowse serve`), as a desktop app around the same server, and as
commands. This directory holds TLA+ specifications of the parts of it that keep
state while several things happen at once, TLC configurations that check them
on small instances, and proofs that TLAPS checks for every instance.

Paths below are relative to the repository (`internal/...`).

## 1. The system

### Components, their state, their operations

| component | state | operations | what is hard |
|---|---|---|---|
| `onboard` job runner | registry `jobs` under `r.mu`, one context per job, a WaitGroup; `<root>`, `<root>.staging`, `<root>.old` on disk | Enable, Refresh, SyncImport, Cancel, Shutdown; the worker's export → adopt → import | handlers, workers, cancellation and shutdown interleave; adopt is four file-system calls; crashes; exporters that hang |
| `onboardsvc` | none | run an exporter; import an archive | killed exporters, imports that leave out conversations |
| `ingest`, `imessage` | `ingest_state` and `messages` in the store | a pass: stat, look up, hash, parse, replace, record | transcripts written while they are read; errors and crashes between two transactions; skips that must be safe |
| `signal`, `imessage`, `whatsapp` parsers | none, but a message's hash is its identity for ever | parse, number the doublets, hash | late messages, reactions and doublets that change an earlier message's number; renamed chats |
| `backup` | the snapshot directory, the live database, its aside copies, a single-flight flag per process | Create, Prune, Restore | serve and the CLI share the files but no lock; half-written snapshots; a swap that is a rename and a copy; a server that has the old file open |
| `devsync` manager and watcher | `paired_devices`; the daemon's device and folder lists; the live folder set; debounce deadlines; an event cursor | Pair, Unpair, accept a device or a folder, dispatch an import | read-modify-write of whole lists by several actors; registry and daemon disagree after a fault; lost and late events |
| `syncthing` supervisor | the child process | start, await readiness, restart with backoff, terminate | a child that dies at any of those points |
| `store` contacts | contacts, identifiers, links, decisions, facts | import's upsert, merge, split, reconcile, repair, disable | decisions that must outlive the rows they are about; rules that match again what the user has split |
| `store` migrations | the schema and `user_version` | Open, of several builds and processes | a version read outside the transactions it guards; steps that are not in one; a process that dies in between |
| `facts`, `sentiment`, `spam` | cursors and rows in the store | passes over conversations, page by page | messages replaced during a pass; two processes; resets; merged contacts; opt-outs in mid-pass |
| `journal`, `embed` | counts and digests by day; vectors by hash and model | builds and rebuilds | counts and transcripts read at different times; a client swapped in mid-run |
| run logs | `fact_runs`, `journal_runs`, `sentiment_runs` and heartbeats | begin, heartbeat, finish, latest | runs of two processes; a killed run's row |
| `llm` | the holder's current client | call, retry, swap | retries, lost and unordered answers, cancellation, a swap between two attempts |
| `web` Setup page | cards in a browser, page tokens, jobs | enable, disable, refresh, poll, recheck | a page that is older than what it shows; an expired or evicted token |
| `web` settings | the configuration file, in memory, in the holder, in the backup manager | save LLM, save Backups, list models, test, snapshot | four copies of one setting; a save that fails half-way; overlapping saves; the environment's key |
| `web` pages and search | none (keyset and offset positions in URLs) | older, newer, around, gallery, search | conversations replaced between two pages; caps; fused rankings |
| `journal` calendar | counts, digests and scores | month, neighbours, streak | three tables with different days in them |
| `cli serve`, desktop shell | goroutines, contexts, one store, a window | start, signal, quit, close, crash | everything stops in order, whatever dies first |
| `mcp`, rendering, media, detection, command lines | none | read-only handlers and pure functions | — |

### How they interact

A browser's request reaches a `web` handler, which calls the runner; the runner
starts a worker goroutine, which runs an exporter as a subprocess, renames
directories and calls an importer, which writes to the store. `autorefresh`
does the same on a ticker, and the `devsync` watcher when Syncthing has received
an archive. The CLI runs the same importers, the same pipelines and the same
backup manager in a process of its own, over the same files and with no lock
between the two. The pairing manager and the watcher both edit the daemon's
configuration over REST, after the registry in the store; the daemon's
configuration is regenerated from that registry at each start of the server. A
save of the settings replaces the language model's client and the backup manager
while pipelines and snapshots use them. The process that owns all of these
stops them in an order of its own.

### What makes each one correct

* Onboarding: one pipeline per source at a time; an archive is a complete
  export, replaced by a complete export or not at all; no archive is lost; a
  cancelled export never becomes the archive; Cancel ends a job and Shutdown
  returns; "done" means that what is in place has been imported.
* Import: whatever is skipped is up to date; no edit is lost; one bad
  conversation does not stop the others; every message once, and under the same
  hash in every import.
* Backup: a restore is all or nothing; what was live before it can be found
  again; there stays something to restore from.
* Device sync: a device that is not paired gets nothing; at most one importer
  per source; the daemon's configuration follows the registry; a received
  change is imported in the end, and never mid-transfer; no daemon is orphaned.
* Contacts: no person without anything, none who comes back; what the user has
  decided holds after every import; facts are not lost.
* Derivation: what a cursor has behind it has been derived from; nobody who has
  opted out is scored; a digest that counts as current has read all of its day;
  a run under way is seen; every run ends.
* The server: cards, settings and the schema in use are what a restart would
  give; the environment's key stays out of the file; the store is closed last.

## 2. Modules

| module | models | from |
|---|---|---|
| `Onboard` | the runner and adopt, with the processes that start, quit and crash | `internal/onboard/runner.go`, `stage.go`, `internal/onboardsvc` |
| `AtomicArchive` | what onboarding promises: statuses in order, archives replaced in one step | `internal/onboard/onboard.go` |
| `Ingest` | one pass after another over an archive that is being edited | `internal/ingest/ingest.go`, `internal/imessage/import.go`, `internal/web/autorefresh.go` |
| `Transcripts` | what three parsers make of one dialogue, imported again and again | `internal/signal/parser.go`, `internal/imessage/parser.go`, `internal/whatsapp/parser.go`, `import.go` of each, `internal/signal/message.go` |
| `Backup` | create, prune and restore in several processes | `internal/backup/manager.go` |
| `Pairing` | the registry of paired devices, the managed folders and the daemon's two lists, with everyone who edits them | `internal/devsync/manager.go`, `folderset.go`, `watcher.go`, `internal/store/syncdevices.go`, `internal/cli/devices.go` |
| `Supervisor` | the daemon's child process and who starts and ends it | `internal/syncthing/supervisor.go` |
| `Watcher` (extends `Supervisor`) | the event pump, the debounce, the completion check and the import | `internal/devsync/watcher.go`, `internal/syncthing/events.go` |
| `Shell` | the life of a process: `serve` and the desktop app | `internal/cli/serve.go`, `cmd/msgbrowse-desktop` |
| `Contacts` | people, identifiers, decisions and what refers to them | `internal/store/contactmerge.go`, `contactrepair.go`, `contacts.go`, `sources.go` |
| `Reader` | conversation pages, the gallery, and search in its modes | `internal/store/query.go`, `gallery.go`, `search.go`, `internal/web/search.go` |
| `Calendar` | a month of the journal and the year's figures | `internal/web/journal*.go`, `internal/store/journal.go`, `sentiment.go` |
| `Migrations` | Open, by processes of several builds | `internal/store/migrations.go`, `store.go` |
| `Archive` | the messages that the pipelines derive from, and an import's replacement of them | `internal/store/ingest.go` |
| `Extract` | facts, sentiment and spam: passes behind a cursor | `internal/facts`, `internal/sentiment`, `internal/spam` and their store files |
| `Journal` | counts, digests and what is current | `internal/journal` |
| `Embed` | vectors, and the client a run calls | `internal/embed`, `internal/store/vector.go`, `internal/llm/holder.go` |
| `RunLog` | a pipeline's run log and the guard of a web request | `internal/store/facts.go` and its like, `internal/web/pipelines.go` |
| `Client` | a call of the language model, its attempts and its answer | `internal/llm/openai.go`, `retry.go`, `holder.go` |
| `Setup` | the Setup page in a browser, its tokens and the jobs behind it | `internal/web/setup.go`, `setup_security.go`, `enable.go`, `refresh.go`, `disable.go` |
| `Settings` | the four copies of the settings, saves, restarts | `internal/web/llmsettings.go`, `backups.go`, `internal/config/save.go`, `internal/llm/holder.go` |
| `Absent` | the value "there is none", for the modules that need one | |
| `MC*` | the instances TLC checks | |
| `DeriveProofs` | theorems about `Extract`, `Journal` and `Client` | |
| `PartsProofs` | theorems about `Reader`, `Calendar` and `Backup` | |
| `ImportProofs` | theorems about `Contacts` and `Transcripts` | |
| `ServerProofs` | theorems about `Settings`, `Setup` and `Migrations` | |
| `ProcessProofs` | theorems about `RunLog`, `Supervisor`, `Watcher` and `Shell` | |
| other `*Proofs` | theorems about the module of that name | |

The instances: `MCOnboard` and `MCIngest` are one module each. `MCDerive` puts
together `Extract`, `Journal`, `Embed`, `RunLog` and `Client`; `MCDevices`
`Watcher` and `Shell`; `MCParts` `Contacts`, `Reader`, `Transcripts`, `Calendar`
and `Backup`; `MCServer` `Pairing`, `Setup`, `Migrations` and `Settings`. A
behaviour of these four is about one of the parts, chosen at its beginning,
while the others keep one of their initial values: the parts do not share
variables, and their product would say nothing that the parts do not.

### Onboard

`jobs`, `phase`, `src`, `mode`, `ctxDone`, `wg` and `stopped` are the fields of
`Runner` and `job`. `starter` is the `start()` call that is between its checks
and its unlock: `r.mu` is held there, but `Shutdown` and finishing workers do
not take it. A worker's `pc` names the next access to shared state: `resolve`,
`stage`, `prepare`, `running` and `exported` are in `execute`; `clearTrash`,
`aside`, `promote`, `restore` and `dropTrash` are adopt's calls; labels that
begin with `to`, and `failing` and `cancelling`, are calls of `update()`, which
is a step of its own because a cancel may come between the check and the update.
`managed`, `staging` and `trash` are the three directories of each source, each
absent or a tree known by the run that made it and by whether it is whole.
A crash may interrupt a removal or an import half-way, so that it leaves trees
and stores incomplete. `archived` is history.

`AtomicArchive` has one status and one archive per source. The refinement
mapping takes the archive a reader would find: the managed root, or, between
the two renames, the tree that was moved aside.

### Ingest and Transcripts

`file[c]` is the sequence of contents a transcript has had; its length stands
for the pair (mtime, size), so an edit that changes neither is outside the
model, as the code says it is outside its promise (`ingest.go:208-218`). A
content is a set of lines, of which the parser keeps the well-formed ones; a
transcript read while it is being written is one more content. Each importer
has the locals of `ingestConversation` (`seen`, `prev`, `hash`, `parsed`).
`touched` and `caughtUp` are history: whether the conversation has been edited
since the importer's stat, and which conversations have been imported without
error and not edited since. `Reuse` allows contents to return; the safety of the
skips is claimed without it (see the disagreements below).

`Transcripts` looks inside a transcript. `sent` is the dialogue as the exporter
writes it, in each of the three formats; `rows` what the last import stored, and
`named` the chats' names, which are part of an identity. Between two imports a
message arrives late, in any place, gets a reaction, or a chat is renamed. A text
is a sequence of lines of a few kinds, those that the parsers tell apart: a
plain line, one that imitates a header, a list of reactions or a list of files.
`IdentityKept` has three exceptions, each necessary: a renamed chat, a line that
imitates reactions, and what a first reaction does to a Signal message with files
(`signal/parser.go:272-284`). What is said is lines without files of their own
(`SayingOK`); the exporters name the transcripts of Signal and iMessage by the chat,
and WhatsApp's chats have distinct ids (`DialogueAssumption`).

### Backup

A database is the number of its last commit; a file that is still being written
holds the name of its writer, so "whole" is "a number". `node` maps inodes to
contents, `path` and `aside` names to inodes: the server's connection `conn` is
an inode, not a name, and after a restore its commits go where that inode is.
`Reopen` is `store.Open`, and also each new connection of its pool: SQLite creates
what it does not find. `spoilt` is history: which of the accidents that the
code leaves to luck have happened (a directory two creates share, a prune that
counts an unfinished snapshot, two restores at once, a restore that dies while
the live file is away). The properties say exactly what holds without each of
them; TLC found every one of these exceptions necessary.

### Pairing

`registry` is `paired_devices`; `roots` the managed roots on disk and `managed`
those the running server's `FolderSet` knows; `devs` and `shares` the daemon's
device and folder lists. An actor is a request of a page, the watcher's
dispatcher (one goroutine) or the CLI's `devices unpair`. Its `pc` names its next
transaction, call of the folder set or REST call; `row`, `got` and `known` are
what it has read, which it later writes back. `resolve`, `lookup` and `upsert`
are in `Pair`; `lookup`, `provision` and `upsert` in the watcher's accepts; the
`get` and `put` labels are `ensureDevice`, `ensureFolders`, `ensureFolderShares`
and `RemoveDeviceFromDaemon`. A folder is its source. Whether a device's name has
changed is left open, so `GetDevices` may or may not lead to a PUT. An Enable is
one step, because `Onboard` has its steps; it matters here as it makes a root
that the folder set does not know. `own`, `accepted`, `overtaken` and `disturbed`
are history.

The whole lists are read, edited and put back, so an edit may be lost when two
actors meet; `DaemonFollowsRegistry` is therefore about operations that neither
met nor failed since the server started, and TLC refutes it without that
condition. `TrustIsExplicit` excepts a device whose unpairing overtook an
operation about it; `OneImporter` holds without exception.

### Supervisor, Watcher and Shell

`Supervisor`: `child` is an operating-system process that may answer, hang or
exit by itself; `sup` says where `Start`, and then `supervise`, is.

`Watcher` adds one managed folder per source. `files[s]` is the folder's version,
odd in mid-transfer; `stream` is what the daemon will announce, `since` and
`pump` the poll's cursor and place, `batch` and `channel` what the pump has read
and what the dispatcher has not; `due`, `dispatch` and `slot` are the deadlines, a
completion check or start that is under way, and the runner's job; `stored` is the
version last imported. `forgotten` is history: what was announced by a daemon that
exited between two polls, or whose import failed, which the code gives up on.

`Shell` is one process, of either kind (`App`). `main` is where the main goroutine
is, from the store's opening to the exit; `http`, `runner`, `refresh`, `daemon`,
`watcher`, `window` are the others; `visit` the requests under way; `latch` and
`guard` are the desktop's lifecycle; `cut` is history (the drain ran out).

### Contacts

All state is one record `db`, and each operation is one step because it is one
transaction: an import's upsert of the identities it met, Merge, Split,
ReconcileContacts, RepairContactIdentities, DeleteSourceData. `rules` is the
row of `contact_merge_rules` (automatic or not, numbers, mail addresses, names);
`shown` the Contacts tab as it was last rendered, which an action of the user
goes by. A text is a number, a mail address, words or a list of these, with what
the matching looks at (prefix, digits, length) and nothing else. A reconcile merges
along the stored decisions in the order in which the rows are read, which is any,
and then along the candidates of the rules in the order of their ids; both rows of
merges are folds, written as recursive functions. `Chained` says that links lead
from one identifier to another, and is what the properties compare an outcome with.

Two fields of `db` are history. `renamed` has the identifiers that a repair has
replaced, since decisions go on naming the old text. `left` has the people whose
conversation an import found to be a group's: it takes the conversation away
(`store.go:214-217`), and a later repair passes over it because it is a group
without a contact by then (`contactrepair.go:100-142`), so that these people may
stay without anything; `NoGhosts` excepts them.

### Extract, Journal, Embed, RunLog

A message is its time; `Archive` has the set of those present, and an import
replaces those of one conversation. An `Extract` behaviour is about one pipeline
(`Kind`). `run[r]` is a pass: the generation it began with, the conversations
left, the position in one and the page it has read; `state` are the cursors,
`rows` what was derived, `optedOut` and `events` what people did, `flagged` the
spam flags. `contact` says whose conversation is whose, since merges change it.
`missed`, `declined` and `settled` are history: messages that no pass will derive
from again (those that came in behind a cursor, a known limit of keyset cursors
which a reset is for; those the model gave no usable answer for; those of people
who had opted out), conversations with a person who has opted out, and the
generation whose flags were computed last, unless a scan was cut short since. The workers of one pass take turns.

`Journal`: `rollup` are the counts, `digest` what a digest has read, counted and
been made with; `jrun` a run's counts, days and transcript. `shrunk` is history:
the days that lost a message, for which a count cannot tell. `Embed`: `holder` is
the client of the moment, `erun` a run with the model it began under. `RunLog`:
`log` is the table, `flag` the server's own, `job` a request or command between its
look at the log and its end; time passes by a clock.

### Client

`client` is the holder's; `call` is a caller's place in `doWithRetry` with the
client it took, its attempts and its pause; `hungUp` whether its context has
ended. The delay is computed in the width of a `time.Duration`, so an overflow
would be seen. An answer to Embed is any sequence of indices, right or not.

### Setup, Settings, Migrations

`Setup`: `tab` is what one open page shows for each provider, its card and its progress
region; `tokens` the server's, with expiry and cap; `disk`, `jobs`, `pass` and
`deleting` what the server has. A request and its answer are one step. `unheard` is
history: what a page without polling cannot have heard of.

`Settings`: `file`, `conf`, `live` and `mgr` are the configuration on disk, in
memory, in the client and in the backup manager, `req` the requests by their place
in the handler, `shown` the page that reports a save. `overlapped` is history: two
saves were between read and write at once, and the later one's file may miss the
other's block (`config/save.go:27`).

`Migrations`: `store` is the file: its schema and version, and what it holds of a
step that is not one transaction; `opener` a process of some build, between its
read of `user_version` and its last step. `met` is history: a process
went on from a version that was no longer the database's.

### Reader and Calendar

These are algorithms over a state that moves. In `Reader`, `walk` is a page that
somebody scrolls, with the cursor it would go on from, while imports replace
conversations between two steps; it also has what it was promised (what has been
there, unmoved, since it began) and its seams (the seconds in which a cursor stood
when an import came). `found` is a page of results: keyword, semantic or both,
fused. `Calendar` compares a month's
and a year's figures with definitions in terms of days.

## 3. Runs

| run | instance | shows |
|---|---|---|
| `onboard_safety` | 2 sources, 2 jobs, 2 crashes or errors | exclusivity, whole archives, survival of one fault, a quiet shutdown |
| `onboard_service` | 1 source, 2 jobs, 1 fault, fair | refinement of `AtomicArchive`; a cancelled export is never promoted; cancelled jobs end and Shutdown returns |
| `ingest` | 2 conversations, one unreadable, 4 contents, 2 faults, fair | the skips are safe, no edit is lost, every readable conversation is imported in the end |
| `derive` | 2 runners, writers and indexers; 3 messages of a chat, 4 of a group; 2 web requests and a command; one caller | what a cursor has behind it was derived from; nobody who has opted out is scored; flags are current; a digest that counts as current is complete; a live run is seen; calls return their own answer or an error; everything that begins ends |
| `devices` | 1 folder, a channel of 1, 1 exit, 1 mishap; both kinds of process, 1 visitor, 1 job | no transfer is forgotten; no daemon is orphaned; the store is closed last; deltas are imported and a quit is drained; a process that is told to stop exits |
| `parts` | contacts: 3 sources, 2 acts; pages of 2; a dialogue of 2 with 3 imports; 2 generations and 3 writes; serve and CLI with 3 snapshot operations, 2 faults | people are the archive's and merged by decisions only; pages and searches are honest; imports are faithful and hashes permanent; the calendar agrees with the days; snapshots and restores lose nothing |
| `server` | 2 devices, 2 sources, 3 operations; 2 tokens, 4 mints; 2 processes of 3 builds, 3 opens; 2 requests, 2 saves, 1 restart | one importer per source; explicit trust; the daemon follows the registry; the Setup page is as good as new; the schema is whole and can be opened; settings agree; the environment's key stays out of the file; listed models are offered; one snapshot operation at a time |
| `backup_crash` | one process, a create, a restore, a crash | **violation**: no live database, or half of one, which `manager.go:451` rules out |
| `pairing_held` | 2 devices, 1 source, 3 operations | **violation**: a device becomes the importer of an archive this node has made itself, against `devsync/manager.go:316-321` |
| `optout_merge` | 1 runner, 2 events | **violation**: somebody who has opted out is scored after a merge, against `schema.go:752-756` |
| `split_undone` | 3 sources, 4 acts | **violation**: a reconcile brings two people together that the user has split, against `contactmerge.go:325-327` |
| `desktop_key` | the desktop app, one save | **violation**: the environment's key is written to the file, against ADR 0009 |

### Bounds

They are chosen so that the interesting cases happen. Two jobs let the
second start while the first is ending, and two sources show that only jobs of
one source exclude each other; two faults let a crash in adopt be followed by
an error in the next adopt, which is how an archive is lost (and why
`SingleFaultKeepsArchive` says one). Four contents let a transcript change after
the stat, after the hash and after the parse of one pass. Three operations in
two processes, in two seconds of two snapshots each, let a prune act between a
restore's verification and its copy, and a create meet another in its directory.
Three operations of `Pairing` are enough for two devices to be paired while the
watcher accepts a folder of one, and for pair, restart and pair again. A page of
two of three messages has one pass stop between two pages while another pass, a
reset or an import goes on; one event (an import, an opt-out, a change of the
model, a merge) and two passes let it happen in mid-pass, and be noticed. A
channel of one is full as soon as it is used; two versions of a folder let a
transfer begin while the last one is imported. Two acts let the user split what
an import merged. Three opens let a process of a new build die in the middle of
a migration and one of an old build come after it. Two saves overlap. Delays
overflow because the word is six bits wide and the first delay 20.

Every part was also run alone, in larger instances that take too long to keep,
with the same properties and the same result: `Extract` with 4 messages in 2
conversations and 2 events (5.0, 3.9 and 1.6 million states for the three
pipelines), `Journal` with 2 turns (0.6 million), `Watcher` with 2 exits (1.1
million), `Contacts` with 4 chats or with 3 acts (0.3 million), `Settings` with 3
asks (5.9 million), `Setup` (1.3 million), `Backup` with 4 operations (3.6
million), `Pairing` (0.4 million), `RunLog` with 2 commands (0.35 million).

`CHECK_DEADLOCK FALSE` appears in all runs but those of `Onboard` and `Ingest`:
their operations are bounded, so that they stop when these are used up, or a
process exits.

### Fairness

`Onboard`: goroutines are scheduled, so a worker that can go on does, a `start()`
leaves its critical section and Shutdown's wait ends when it can. An exporter may
hang for ever; it is weakly fair only once its context is done, because
`exec.CommandContext` then kills it. Nothing obliges anyone to start, cancel or
shut down. `Ingest`: a pass that has begun goes on, and passes recur because
`web/autorefresh.go` ticks (or the user clicks), not all of them with `--full`.
Errors, crashes and edits are never obliged to happen, nor to stop other than by
their bounds.

`derive`: a pass, run, build or call that has begun goes on (`Step`,
`JournalStep`, `EmbedStep`, `CallStep`); requests to the model end because
`http.Client.Timeout` ends them. Nobody has to begin, and no fault has to happen.

`devices`: weak fairness of every goroutine and of the daemon's announcements,
timers and imports. Strong fairness of two actions that are one case of a
`select`: `Receive` and `Fire` in the dispatcher's loop, since Go chooses among
ready cases at random and no case waits for ever. For `Shell`, weak fairness of
the main goroutine, the drain with its time limit, a worker once the runner was
stopped, the daemon and the watcher once their context has ended, and the guard.
A hung daemon, an exit, a request or a job that nobody cancels is not obliged to
end.

### Disagreements

The five violations are reported under "findings" in `PROJECT.json`, with the
lines that say otherwise. These were met while reading and have no run of their
own; where a property needs an exception for one of them, the module names it:

* Two processes import one source, or restore, at once: nothing keeps them apart.
  (`Ingest` claims safety for one importing process, `Backup` names `spoilt`.)
* `ingest.go:214` has an edit that changes mtime reach the store; a transcript that
  returns to an earlier content while a pass reads it does not (`Reuse`).
* `migrations.go:59` reads `user_version` outside the transactions (`met`).
* A save of the LLM settings loses `llm.retry` (`holder.go:286`).
* Overlapping saves lose the other's block (`config/save.go:27,67`).
* A contact's id is used again after it was deleted, and a form that names it acts
  on the new one (`contactsettings.go:172`). Conversations' ids are, too.
* Repair rewrites an identifier but not the decisions about it
  (`contactrepair.go:164`).
* An import that finds a person's only conversation to be a group's leaves the
  person behind, with her identifier if she has one, and a repair no longer
  notices (`left`).
* A split takes a conversation along only when its name is an identifier
  (`contactmerge.go:398`).
* `sources.go:96-98` speaks of facts that stay; `schema.go:271` cascades.
* A cap of 1024 tokens evicts those of a page that polls for seventeen minutes,
  although they would live an hour (`setup_security.go:58-62`).
* A disable checks for a running job and deletes later (`disable.go:66-85`).
* `search.go` says a list that is not capped is complete; the semantic mode is never
  capped.
* The month of the journal uses the generation scored last, the day the one
  configured; the day's grid and its card are read separately.
* "Refresh models" asks the endpoint in use, not the one in the form
  (`llmsettings.go:366`).
* With a key in the environment, a key typed into the form or cleared there is in
  use until the next start.

## 4. Proofs

Every theorem is of the form `Spec => []Inv`, `Spec => [][A]_vars`, `Spec => [](P =>
[]Q)` or a refinement, for every value of the constants that meets the module's named
assumptions (any number of sources, jobs, conversations, lines, devices, requests,
processes, pages, events and faults). The assumptions are those of the modules, and
TLC evaluates them in every run. What a theorem supposes beyond them is written into
its statement and named below. There is no induction rule that the provers could use,
so where a fact is about all members of a finite or well-founded set, the proof takes
a least counterexample.

`OnboardProofs`: `TypeCorrect`, `SlotOwned`, `ManagedRootWhole`,
`ArchiveSurvivesOneFault`, `QuietShutdown`, `DoneIsImported`, `CancelledStaysOut`,
`AdoptIsAtomic`. `WorkerOwnsSlot` is not inductive without knowing that a registered
job's source is the one it is registered for and that a start in its critical section
has found no active job; these facts make up `Slot`. On it rests everything about
directories, since only the owner of a source's slot touches them: `Disk` says what
each of the three directories holds at each label of adopt, `Kept` where the archive
is while at most one fault has happened. `Shut` follows contexts: after `stop()` each
live worker's context is done, which keeps a worker that was born late from exporting.
`Stored` says that no other job has moved the archive since the import.
`CancelledStaysOut` says of a job that is cancelled before its exporter has exited
that its export is never in place, then or later. Two invariants give it: `Owned`,
that what an owner of a slot promotes is its own export, and that before it does none
of its trees is in place or aside; and `Withdrawn`, that such a job never comes to
adopt again: what it can still reach, with its context done, is the way out.
`AdoptIsAtomic` is the refinement: with at most one fault the initial state of
`Onboard` maps to one of `AtomicArchive` and each step to a step or a stutter, for
which `Sequenced` knows that a status moves on in order.

`IngestProofs`: `TypeCorrect` for any number of importers; `SkipSafe` and `NoEditLost`
under two hypotheses without which they are false: one importing process
(`OneProcess`), and transcripts that do not return to an earlier content (`~Reuse`).
The inductive invariant numbers contents by their stamps: the recorded hash is that of
content *h* and the stored messages those of content *v*, with recorded stamp ≤ *h* ≤
*v* (`Recorded`); what a pass has read is ordered in the same way from its stat on
(`Reads`); until it replaces the messages, the store has nothing newer than its stat
(`Before`). As contents are written once (`Fresh`), an equal stamp or an equal hash
then forces *h* = *v* = now.

`PairingProofs`: `TypeCorrect`, `RootsOfShares`, `ImporterIsOne`, `TrustExplicit`,
`DaemonFollows`. What is recorded is not inductive by itself, because an operation
writes back a row that it read or made earlier; the invariants are therefore about the
rows in flight too. `Rooted`: the folders of every row, on record or about to be, are
managed, and what is managed has a root. `Claims`: the claims to a source, on record
or about to be, are one device's, and the source is managed; `Provision` lets a device
claim only what was not managed, so nobody else has claimed it, and a restart never
forgets a managed folder. `Trusted`: a row that an accept will write is one of a
device that was paired, or has been overtaken. `DaemonFollowsRegistry` needs to know,
while nothing is disturbed, that at most one operation is under way (`Alone`) and at
each of its labels how far the daemon's lists are behind the registry (`Stage`).

`DeriveProofs`: `OptOutKept`, `CursorsCover`, `FlagsCurrent`, `CurrentComplete`,
`CallsRight`. For the first, the
insert checks the opt-out in its own transaction, so the invariant is about the rows
only. For the second, the invariant joins what lies behind the cursors (`Cursors`)
with what lies behind the position of each pass (`Walks`): a page is *sound* when
every message before it is accounted for, that is, has its row, or is recorded as
missed. Nothing accounted for is ever forgotten (`Onward`), except by a reset or the
deletion of orphans, which take cursors and positions along. A step of one pass
therefore keeps the others' invariants. Cursors are hashes, and the lemmas on
`Greatest` and `Anchor` say which messages a cursor has behind it. The third follows
the scans: while flags are settled nobody has a scan under way that could be cut.

`ServerProofs`: `OneOperation`, `PageAsNew`, `EnvKeyUnwritten`,
`RestartChangesNothing`, `OnlyOffered`, `SchemaKept`. `OneOperation` needs a guard
that is held exactly while some request is between its claim and its release
(`Guarded`), in any manager. `EnvKeyUnwritten` holds for `serve` and files without the
key (`StartsClean`), and fails in the desktop app, where the holder is not told. For
`RestartChangesNothing`, `Carried` says what requests carry and `Staged`, while saves
have not met, how far the one save has come from the file to what is live; it supposes
that plans and files have their fields and that None is none of them (`StartsWhole`).

`PageAsNew` is about the page in the browser: each control works for the token's hour
and no longer, unless as many tokens as may be live were minted since, and each card
that does not wait for a job is what a new page would show. `PageInv` says what tokens
there are: those minted last, upward closed, no more than `TokenCap`, the later minted
expiring later (`Recent`); that a token given out is live until the time its card
implies, or has expired, or has had that many minted after it (`Accounted`); and that
a card that waits is out of date only if its job is done (`Awaited`). `OnlyOffered`
follows a model from a listing to the file and the client: what is live, in the file
or in a request's hands was configured at first or listed (`Chosen`), and until two
saves meet a listing that a save has or a page shows is of its endpoint (`Described`).
It supposes that the endpoints of the files that may be there at first are known ones
(`EndpointsKnown`). `SchemaKept` takes a database of any lineage through any builds,
with deaths between any two transactions. `MigrationInv` speaks of the database that
was inherited: up to its version the ledger is what it was, and what is on record has
made its objects (`Inherits`); every later version is on record (`Recorded`); what a
process has read is on record, and what it has verified or run is there (`Follows`,
`Sound`); and while no two processes have met, each is where the database is or
behind, and the newest build can go on (`Alone`). It rests on two assumptions: a build
is a sequence of texts (`BuildAssumption`), and a lineage's ledger names texts that
have made what they make, from which the chain of `schema.go` can go on and makes up
for what the other lineage ran (`InheritedAssumption`).

`CurrentComplete` is about the journal. A digest has the count of one moment
and the lines of a later one, and the two processes' runs write each other's rows. The
invariant `JInv` therefore compares both with the day as it is now, for every count
and transcript on record or in a run's hands: unless the day has lost a message
(`shrunk`), what was read is part of the day's lines (`ReadBehind`), a count is no
more than their number (`CountBehind`), and a digest's count no more than the number
of lines it has read (`DigestBehind`), because counting comes before reading. When the
count is the day's, the read lines are as many as the day has and part of them: all of
them. `CallsRight` is about `Client`: vectors are the caller's own, a request is sent
again only after a failure that may pass, within the attempts and pauses of the client
it began with, and to the same endpoint. `CallsInv` says for each place of a call how
many requests it has made and how many failures it has heard of, each but the last
worth another attempt (`Tallied`), and that all of them are its client's, although the
holder may have been given another (`Faithful`).

`PartsProofs`: `PagesTrue`, `CalendarTrue`, `RestoreLosesNothing`,
`FailuresCostNothing`. The first is
about `Reader`: a walk through a conversation or a gallery shows what
was there all the time once and in order, whatever is imported meanwhile, but for the
second its cursor stood in at an import; and a search shows each message once, in
every mode only those that pass the form, and those that both halves found first.
`ShelfOK` says of the tables that they are finite, and that neither a post nor a file
of one is in them twice. `WalkInv` says of a walk (`Told`): what is due is beyond the
cursor and not yet shown, or there exactly once, and in order. For it a page has to be
a run of the ordered rows (`PageIs`, `ContextIs`), each next page has to go on where
the last one ended (`Continued`), and an import, which gives a conversation's rows new
ids, must disturb no more than the cursor's second (`Imported`). Rows are ordered by
rank, the number of those before a row, which is a bijection that agrees with the
order (`RanksAre`, a lemma that `Calendar`'s days and the candidates of a reconcile
use as well). In a fused search reciprocal ranks are whole numbers of a scale,
which tells them apart as far as a list goes (`QuotientFalls`). The assumptions: the
scale is as large as a list's ranks (`ScaleAssumption`), a message is one of its
conversation and there once (`ContentAssumption`), and None is no key, view or
conversation (`NoneAssumption`).

`CalendarTrue` is about the journal page. `CalendarInv` says of a page whose card is
still to come that its month is laid out (`Laid`: the cell of a day is as far from the
first cell as the weekday of the first of the month says) and that what the cell of
the selected day shows is what the database has (`Current`), unless something was
written since. The rest is Go's calendar, for every year: a day's number is the first
of the month's and its day of the month (`NumberOf`), firsts of consecutive months are
28 to 31 days apart (`FirstIs`, `Lengths`), the month after the last is the first of
the next year (`MonthsFollow`), and so the order of dates as texts, by which the
queries sort, is the order of the days' numbers (`Chronology`). With it the days of a
year, in order, have rising numbers (`DaysOrdered`), and the streak that is counted
along them is the longest interval that they contain (`RunIs`, `LongestIs`). The
assumption, `DateAssumption`, is that the days that are stored or asked for are dates
(the code stores what it formats, and parses what it is asked for), and that None is
none.

`RestoreLosesNothing` and `FailuresCostNothing` are about `Backup`. `Shaped` is the type invariant with the locals that each label needs. `Held`: unless two restores
have met, what was live at the last swap is a whole database under its name or under
the aside name of the one restore that is at work, and never the file that restore is
writing. `Whole` says what a snapshot is worth: directories that are being made at the
same time have different names (`Alone`), one with a manifest has the database the
manifest was made of (`Signed`), the one a create is at has what its label says
(`Made1`), and a restore copies from one that is signed or from nothing (`Sought`).
`Present`: the live name is free only while a restore is between its two calls, and
has half a database only while one copies, which is whole once it is done as what it
copies is signed. The first theorem is about both halves of `BackupKeepsLive`. The
second joins `RollsBack`, which follows from the same invariant, with
`RestorePointStays`, which has one of its own, as it also holds when restores meet: a
directory without a manifest is made by one process alone (`Solitary`), so that no
failing create removes a snapshot that can be restored; and for each snapshot that a
prune has still to delete there is a newer one that can be restored (`Outlived`). A
second prune may take that one, but only because a yet newer one is there, and `Newer`
is transitive and irreflexive.

`ImportProofs`: `PeopleTrue`, `PeopleStay`, `ImportTrue`, `IdentityStays`.

`PeopleTrue` and `PeopleStay` are about `Contacts`. An operation is a function of the
database, so the invariant is a predicate of a database (`DbOK`) that every operation
keeps. `Typed` has the foreign keys. `Peopled` is `NoGhosts`. `MergesAreRecorded` is
not inductive: it says nothing while anything is split, and a merge may replace the last
split. `HeldTogether` says it of decisions of either kind and of what
a repair has renamed: of two identifiers of one person, each set with one and without
the other is crossed by one of these; where nothing is split, that is
`MergesAreRecorded`. An operation that moves identifiers records a decision for each
pair that it joins or parts, and one of them crosses whatever a set separates. A row
of transactions has a result (`RunsExist`), which each proof about a fold needs, and
is followed from the least place where something would be wrong. `RefoldIs`: the
stored merges make one person of each link's two, and nobody's identifiers leave a set
that is closed under links and owners (`Closed`). `AutoIs`: the rules' merges keep the
invariant, record what they do, never unite two that a split keeps apart, and leave no
candidate that a split does not block; so that a second reconcile does nothing
(`AutoRests`). `ReconcileIs` joins the two; `RepairedKeeps`, `DeleteKeeps` and
`SplitKeeps` are the operations of their names. The assumption is that the old
version's chats are a sequence (`LegacyAssumption`).

`ImportTrue` and `IdentityStays` are about `Transcripts`. The parsers are loops over
lines, and a transcript is the lines of its messages, so that what a loop makes of a
chat follows message by message: a loop has a result (`Runs`, `RunsExist`), and a
property of its states is followed from the least place where it would fail. Of a
message whose lines are plain, whatever came before it, the Signal parser makes one
row (`SignalRead`) and the iMessage parser one (`IMessageRead`), namely what was
sent: `TrailerTaken` finds the reactions at the end of the text, and `RowSays`
compares the lines. A message that imitates a format is read as anything, but leaves
what was read before it (`SignalGrows`, `IMessageGrows`). WhatsApp's entries are
sorted, which is a rank again. So each parser's list has the row of every message
that is kept, in the order in which they were sent at one time, and nothing else if
all is plain (`Finds`, `ParseIs`); the iMessage parser's rows are drawn from its
list, as those without a sender and without content take their number before they
are dropped (`WithoutEmpty`, `Drawn`). The number of a row is how many before it
look the same: different for rows that do (`PlacesDiffer`), and never beyond those
that a larger list has (`Lasting`), which needs only that a chat's plain rows are
still there, with their looks, when it has gone on: `LooksStay`, where the body of a
Signal message is compared before and after its first reaction, with the exception
`Rehashed`. In an iMessage transcript each row stays at its place
(`IMessageHashesStay`). Two chats have two conversations, as a counter finds a name
that is not taken (`FreeNameIs`, `ChatNamesDiffer`). The invariant,
`TranscriptsInv`, says that the rows of a conversation are drawn from a numbered
list, that those of a source which was imported since anything changed are what its
transcripts say (`FreshRead`), and that as long as no chat was renamed the rows of
every conversation are what the transcript of its chat said at some earlier time
(`OldRead`, `CameBefore`).

`ProcessProofs`: `LiveSeen`, `NoDaemonLeft`, `DeltasRemembered`, `OrderlyStop`. Rows
of runs under way are distinct and unfinished (`InFlight`), so that the newest
unfinished row is one of theirs or a killed run's. Between two children of the
supervisor there is none to be left (`NoneBetween`). `DeltasRemembered` says that
while the store differs from a folder that is complete, something that will lead to
another import is on its way. `DeltaInv` adds what the pump holds at each of its
places (`PumpKnows`), that its cursor and its batch are of the daemon that is up, or
else the loss is recorded (`Aligned`), and that an import has read what was there when
it began (`JobsRead`). `Ordered` says for each place of the main goroutine what has
already been stopped.

Only model-checked: everything about liveness, since the prover has no rules for
fairness and `ENABLED`. Every invariant of the runs that pass, and every action
property, is proved.

## 5. What is left out

Not modelled: the commands' flags and help; the `mcp` server, which only reads;
media and image conversion; HTML; the detection and the layout of exporters;
archive path checks; toolchain pinning; the text of prompts and the parsing of the
model's answers (an answer is usable or not); the wire formats of Syncthing and of
the language model; the daemon's XML configuration and API key; counts on the home
page, on-this-day cards; the address book of macOS and the scan of WhatsApp's
snapshots; SQLite's `-wal` and `-shm` files; the configuration file that a restore
also copies; an exporter orphaned by SIGKILL.

Simplified in what is modelled: the workers of one pass take turns; a message is
its time; a page of the journal is read in two steps; a request and its answer are
one step in `Setup`; in `Settings` only pages that report an LLM save are kept;
`Shell` has no pipelines that outlive their request, no second signal and none
before the handler is installed, and no refresh interval longer than the desktop's
start; one caller suffices in `Client`, since callers share only the holder.
