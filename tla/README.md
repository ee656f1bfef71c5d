# Agenta in TLA+

Agenta is a Slack agent. A *bot* process holds the Slack connections and forwards
events over HTTP; a *tenant* process keeps one directory per Slack thread, runs the
agent's turns and gives them a sandbox. Almost everything that is hard about it is
asynchronous: every event is handled by its own call, the calls of one thread interleave
at each `await`, and a small in-memory session, a JSON file and Slack itself must stay in
step; around them are a sandbox somewhere else, a git server that reaches into it through
a WebSocket, and a model whose stream is rendered as it comes. This directory models these
parts, checks them with TLC and proves the central invariants with TLAPS. Paths below are relative to `src/src/tenant` unless they say
otherwise.

## 1. Inventory

| Component | State | Operations | Talks to |
|---|---|---|---|
| Bot ingress (`bot/socket.ts`, `forward.ts`, `routing.ts`, `index.ts`) | none that outlives an event | ack, route, forward (one POST, no retry) | Slack, tenant `/events` |
| Tenant HTTP (`http.ts`, `index.ts`) | `readyRef` | authenticate, validate, dispatch, stream heartbeat/done/error | handler, asks |
| Dedupe store (`runtime/dedupe-store.ts`) | cached keys, `loaded`, `dedupe.json` | lazy load, prune, check-and-add, save | handler |
| Event handler (`runtime/handler.ts`) | none; one suspended call per event | mention, `/stop`, `/delete`, text reply, edit, deletion, `kickoffTurn` | all below |
| Turn scheduler (`runtime/session.ts`) | `status`, `abort`, `pending`, `thinking` per thread | `startOrQueue`, `signalStop`, `markThinking`, `clearThinking` | session store, SDK turn, Slack |
| Session store (`runtime/session-store.ts`) | `session.json`, the lock chain of each thread | `updateSession`, setters, `clearSession` | scheduler, handler, providers, bootstrap |
| Recovery (`runtime/recovery.ts`) | none | clear `running`/`stopping` at boot | session store |
| SDK turn (`runtime/sdk-turn.ts`, `sdk-stream.ts`, `stream-chunks.ts`) | the prompt, the open stream and its task row | collect the user turn, run the query, record and render frames | history, Slack, tools |
| History (`persistence/store.ts`, `events.ts`, `backfill.ts`) | `messages.jsonl` | append, read, remove, backfill | handler, SDK turn |
| Asks (`runtime/asks.ts`, `model/tools/ask-user.ts`, `slack/interactive.ts`) | `byMessageTs`, `byThreadKey`, timers | register, settle by click / reply / timeout / abort | tools, handler, HTTP |
| Sandbox (`sandbox/*.ts`) | in-flight `ensure`s, tokens or machines per thread, handles in `session.json`, names of files already pushed | ensure, getEndpoint, remove, reap, attachment sync, the client of exec | session store, docker / Fly / ECS |
| Git (`git/bootstrap.ts`, `git-server.ts`, `ws-tunnel.ts`, `git-hooks/`) | per-thread tunnel, server and stream table | bootstrap, open/close streams, reconnect, restrict pushes | sandbox, session store |
| Lock file (`shared/lockfile.ts`) | `agent.lock` | acquire, steal, release | boot |
| Attachments (`persistence/attachments.ts`) | `attachments/` of the thread | download, unlink, read into the prompt | handler, SDK turn, sandbox |
| Home mirror (`runtime/home-config.ts`, `home-refresh.ts`) | mirror clone | resolve transport, clone or fetch and reset | handler |
| Exec server (`/sandbox/server/server.ts`) | running commands, a listener and a stream table per tunnel | exec, read, write, tunnel | tenant |

How they interact. An event is acked by the bot, POSTed to the tenant, checked for
duplicates, recorded in `messages.jsonl`, and then is a command, a text reply to an ask,
a plain message or a mention. A mention adds the thinking reaction, freezes home and
creator in `session.json`, starts the sandbox in the background and enters
`startOrQueue`: the first one becomes the *owner* of the thread's loop, later ones set
`pending` and return. A turn collects its prompt from the log, runs the SDK, whose tools
use the sandbox, and records what it says. The owner runs turns until none is pending,
then cleans up. `/stop`, `/delete`, clicks and text replies are calls of their own.

What is hard, and what makes each part correct:

- *Scheduler*: one loop per thread; busy exactly while somebody is in the loop; queued
  mentions get a turn; a `/stop` aborts the loop it saw; nothing stale stays on disk.
- *Session store*: no update is lost between seven kinds of writers; a failing write
  neither wedges the chain nor the session.
- *Reactions*: none is orphaned although adds are not awaited and removals are in bulk.
- *Turn input*: a mention is in some prompt or was overtaken; the prompt is never empty.
- *Delivery*: an event is recorded at most once per process, and is recorded if it was
  acked and the tenant lives.
- *Asks*: one pending ask, a reply answers or is recorded, a click answers its own
  question, every call returns.
- *`/delete`*: it races a turn, the provisioning of a sandbox and its own halves.
- *Sandbox*: the token in memory is the one the box was started with; a box in use is on
  record, or the next boot destroys it; the workspace survives boxes and processes;
  `/delete` leaves nothing running.
- *Git and tunnel*: a bootstrap that returns has left a checkout; the tunnel in use leads
  to the git server in use and heals; bytes come out at the right end, in order and whole.
- *SDK turn*: however a turn whose stream has begun ends, its message is stopped, no row
  spins, the user is told, and the reply shown is recorded; a stopped turn ends, its calls
  are answered and none of its shells goes on.
- *Exec*: a command returns with all of its output; a shell whose request is lost dies soon.
- *History and files*: a backfill leaves nothing out, nothing is recorded twice, files on
  the disk are those of the records, what counts as pushed is in the sandbox.

The hazards, each at its source line and with the properties that cover it, are listed
in `PROJECT.json`.

## 2. Modules

| Module | Models | Composed from |
|---|---|---|
| `TurnOwnership` | abstract: one owner of the loop; mentions are folded in and drained | |
| `Session` | `session.ts`, the handler steps around it, the lock chain, recovery | implements `TurnOwnership` |
| `Reactions` | Slack's reaction messages | extends `Session` |
| `Conversation` | the log, `collectUserTurn`, what turns record, `/delete` | extends `Session` |
| `Delivery`, `DeliveryProofs` | Slack's redelivery, the bot, `/events`, the dedupe store | |
| `FrozenRecord` | abstract: fields set one at a time and never lost | |
| `SessionRecord`, `RecordProofs` | the fields of `session.json` and all their writers | implements `FrozenRecord` |
| `Asks`, `AsksProofs` | `ask_user` and its registry | |
| `Sandbox`, `SandboxProofs` | the providers, their in-flight wrapper, the boot reaper, boxes and volumes | |
| `GitTunnel`, `TunnelProofs` | `bootstrap.ts`, the git servers, both ends of the tunnel's life cycle | |
| `TunnelStream`, `TunnelProofs` | the bytes inside one tunnel of `GitTunnel` | |
| `Exec` | commands in the sandbox, from the shell to the client's stream | |
| `SdkTurn`, `SdkTurnProofs` | `sdk-turn.ts`, `sdk-stream.ts` and the tool calls | extends `Exec` |
| `Ingest`, `IngestProofs` | messages and files on their way to the disk and the sandbox, backfill | |
| `ThreadProofs` | the theorems about `Session`, `Reactions` and `Conversation` | extends them |
| other `*Proofs` | the theorems about the module of that name (`RecordProofs`: `SessionRecord`; `SdkTurnProofs`: `Exec` as well; `TunnelProofs`: `GitTunnel` and `TunnelStream`) | extend it |
| `MC*` | the small instances | extend the module of that name |

**How the code is read.** JavaScript runs to the next `await` without interruption. So
`pc[t]` names the await at which handler `t` is suspended, an action is the synchronous
code from one await to the next, and every order of resumptions is explored. Two awaits
are merged only where nothing observable lies between them; the comments say where.

**Session.** `memory` is the `Session` object; `abort` numbers the `AbortController`s so
that `fired` can say which one was aborted; `lockq` is the promise chain of
`withSessionLock`, whose head is the write in progress; `disk` is the status in
`session.json`. `Mentioned`, `QueueMention`, `StartLoop`, `BeginTurn`, `NextTurn`,
`FinishLoop`, `ClearRecord`, `LeaveLoop` are the stretches of a mention's handler;
`StopAccepted`, `StopFires`, `StopIdle`, `StopPosted` those of `/stop`. The failures are a constant:
`kickoff`, `turn`, `write` (swallowed), `mkdir` (not swallowed) and `crash`; `SteadySpec`
is the same program on a disk that takes every status write. `target` is
the only history variable. Under the refinement, `TurnOwnership`'s owner is the handler in
the loop, `queued` is `pending`, and `failed` says that a turn has thrown or the process
has died under a handler.

**Reactions** reuses Session's actions and derives the Slack calls from what they do to
`thinking`: whatever leaves the list is being removed by that handler, which waits for it.
Adds are not awaited, so Slack may apply a remove first; and it may refuse a call, which
`post.ts` swallows while the entry has left the list. `overtaken` and `refused` remember
whose reaction stays for that.

**Conversation** adds the log, with every message as itself and one value for anything a
turn records, and defines `CollectUserTurn` on it; commands, which that function passes
over, are left out of the log. A message has text, files alone, or neither (`says`): a bare
"@agenta" is '' once the mention is stripped, and `collectUserTurn` skips it. `given` counts
the prompts a message was in. A turn has a phase, since the log is read some awaits after the turn began.

**Delivery** follows copies of events: `SlackSends`, `BotAcks`, `Forward`, then the
tenant's `LoadStarts`, `LoadEnds`, `Check`, `Saved`, `Record`. A crash loses the cache
and the calls in progress. The TTL of 30 minutes becomes: an entry may be pruned once
Slack has given the event up, since Slack does so after about ten minutes (the comment
in `dedupe-store.ts`).

**SessionRecord** has the lock once more, with the read and the write of a job as two
steps, and every writer: `kickoffTurn`, the status flips, the bootstrap's `setGit`, `rm` from
outside the lock, and the docker provider, whose `ensure` saves the handle or clears it when
the container cannot be used or reattached, whose `getEndpoint` (`Lookup`) clears it when
the container is gone, and whose removal clears it for good. The container itself is not
there, only what a call finds of it; the provider's token is. `dead` says that an ensure has
dropped the token of a dead container and keeps its handle, `crossed` that a lookup
and an ensure of one container disagreed. In `FrozenRecord` a field changes
only to what somebody has `asked` for; sandbox and creator are the two that may be asked to
be taken back (`Clearable`).

**Asks** has one thread, calls of several turns, both registries, the user's clicks on a
wire that reorders, text replies, timers and the abort signal.

**Sandbox** has one thread and the provider the process has selected, which a restart may
change. `mem` is the provider's in-memory entry, `disk` the handle in `session.json`,
`boxes` and `vols` what really exists. `EnsureContainer` is the wrapper with its in-flight
map; from `LoadRecord` on, the awaits of the three `ensure`s have a step each, shared
where the providers do the same and separate where they do not: Docker finds container and
volume by name, Fly by id, with names that must not clash, ECS registers tasks and has no
volume. `Lookup` is `getEndpoint` without memory, `RemoveStep` the `remove` of `/delete`
next to the removal of the directory, `ReapStep` the boot sweep: list, compare with the
records, destroy. Boxes boot and die and volumes get lost when they like; commands, the
removal of a box or a volume and the writes of the record may fail, which the code logs
and passes over. What excuses a loss is noted in `strayed`; the members, with the step
that sets each, are listed above the properties, and a property names those it allows for:
`overlap` (a `/delete` ran beside an ensure or a lookup), `lookup` (a lookup adopted or
cleared a record that was not the one it had read, was in use, or beside an ensure),
`uncleared` and `unsaved` (a write of the record failed), `probe` (the probe of a Fly volume
gave up on one that was there), `unowned` (the sweep compared while the thread's record was
cleared), `sweep` (the sweep destroyed something beside an ensure or a lookup, or of what
was in use), `lost` (a volume vanished), `blind` (a removal found neither memory nor
record), `undeleted` (the removal of a box failed).

**GitTunnel** numbers servers and tunnels. `call[c].pc` follows `ensureRepoBootstrap`
through its fast path, the start of server and tunnel, clone, copy, configuration and the
saving of `session.git`, in both transports. The sandbox has one listener on port 6000 per
WebSocket, so `conns` may hold several of which one is bound; a generation tells the old
connection of a tunnel from its new one. `marred` notes `cut` (a bootstrap was cut short),
`overlap` (calls ran side by side), `deaf` (the port was still taken), `zombie` (a tunnel
whose first open failed lives on), `moved` (the sandbox was replaced) and `leak`
(`sandboxEndpoint` threw after the server had started).

**TunnelStream** looks into one tunnel: TCP connections in the sandbox and sockets to the
git server, numbered in the order they are made, with frames on `up` and `down`. Ids start
over after a reconnect, as in the code. `early` and `late` mark a socket that a frame
reached before 'connect', or that was opened again by data behind a CLOSE. A frame that the
server sends is on the wire: that Bun may drop one under backpressure, which `server.ts`
does not look at (line 333), is outside the model.

**Exec** has for every command the fetch of the client, the shell, the processes it leaves
behind, the pipes, the frames on the wire and the server's timer. The fetch (`Requests`) and
the spawn (`Spawns`) are two steps with the body on its way between them: the server adds
its abort listener only at the spawn, so an abort in between is not heard. A SIGTERM need not be
obeyed, a SIGKILL is, and children of a shell may keep its pipes open. **SdkTurn** puts a
turn around it: every call that runs a command first runs one of the bootstrap (`Boot`), which
has no signal and may start after a `/stop`, and then its own (`Own`), which has
the turn's; one command stands for all of a bootstrap's, and a session without a
home, which has no bootstrap, is left out. The SDK emits frames and calls tools side by side; the consumer works one
frame off call by call (`todo`), each call to Slack or to the disk being an await that may
fail. `rows` and `body` are what Slack shows, `active` the single `activeRowId`. `marred`
notes `overlap` (tools ran side by side), `lost` (Slack lost a call) and `quiet` (the
stream ended with neither a result nor an exception).

**Ingest** follows the handler of each message up to the record: backfill page by page,
downloads, the append, any of which may reject and take the handler with it (`Throws`);
the handlers of edits and deletions; the push of files to the
sandbox and the set that remembers it; the two halves of `/delete`. `marred` notes `raced`
(an event was on its way while a backfill listed), `wiped` (a `/delete` removed the directory
under a handler at work), `overlapped` (a push began while a `/delete` was removing the
sandbox) and `moved` (the sandbox was replaced). `stray` holds, message by message, the
files no deletion will find: written in part or never named, left by a handler that threw or
died before its record, asked for too early, or kept by an `unlink` that failed.

Definitions marked *Slip* are deliberate mistakes: each is a plausible bug in the
definition it is named after. No specification uses them; PROJECT.json pairs each with
the property it breaks.

## 3. Runs

Passing runs:

| Run | Instance | Properties |
|---|---|---|
| `SessionSafety` | 3 mentions and 2 `/stop`s; kickoffs and turns throw, the process dies; with fairness | `OneLoop`, `NoPhantomTurn`, `IdleAtRest`, `StopHolds`, `QueueDrains`, `ImplementsOwnership` |
| `Reactions` | 2 mentions and a `/stop`; kickoffs and turns throw, writes fail or reject; Slack reorders and refuses; with fairness | `ReactionsAccounted`, `MentionsReturn`, `ReactionsGo` |
| `Conversation` | 2 mentions and a plain message, all with text or one bare and one with files alone (`SomeContents`), a `/stop` and a `/delete`; kickoffs and turns throw; with fairness | `PromptNotEmpty`, `MentionAnswered` |
| `Delivery` | 2 events sent twice, every fault, a restart | `OncePerLife`, `AckedIsRecorded` |
| `Record` | 2 first mentions with different homes, a `/delete`, a lookup, failing `users.info` | `HomeBeforeTurn`, `SandboxAgreed`, `ImplementsRecord` |
| `Asks` | 2 overlapping calls and one of the next turn, 2 clicks, a reply | `RegistryAgrees`, `ReplyKept`, `OwnAnswer`, `EveryAskReturns` |
| `Sandbox` | 2 ensures, a lookup at any time, every provider, 2 mishaps of any kind: commands, removals and writes that fail, a slow probe, dead boxes, lost volumes, a crash, a `/delete` | `TokenMatches`, `InUseIsRecorded`, `WorkspaceKept`, `RemoveFrees` |
| `GitTunnel` | 2 bootstraps, 3 tunnels, a mishap of any kind, both transports; with fairness | `ServersAccounted`, `ReadyOnReturn`, `BootstrapReturns`, `TunnelHeals` |
| `TunnelStream` | 2 connections, 3 sockets, 2 chunks up and 1 down each, a broken WebSocket; with fairness | `StreamsKept`, `HangupCrosses` |
| `SdkTurn` | 2 tool calls, one of them a command behind a bootstrap's, a fault of any kind, a `/stop`; with fairness | `OutputWhole`, `MessageSettled`, `ReplyIsRecorded`, `StopReachesCommands`, `StopEndsTurn`, `CommandsEnd` |
| `Ingest` | a root and two replies of which one or two mention the bot, a file, a deletion, and a mishap of any kind that may meet it | `RecordedOnce`, `FilesFollowRecords`, `MirrorTrue`, `BackfillWhole` |

What a property must allow for, it names: `QueueDrains` a `/stop` that discards the queue,
a turn that throws and the death of the process; `MentionAnswered` a mention
without content, a later message that overtakes the mention, files alone with something
recorded behind them, a `/stop`, a `/delete` and a throw; `AckedIsRecorded` an error and
the death of the process that was handling a copy; `ReactionsAccounted` and `ReactionsGo`
a remove that Slack applied before the add or refused, and a session that a rejected write has left
running; `SandboxAgreed`, `HomeBeforeTurn` and `ImplementsRecord` a `/delete`, the first also a lookup
and an ensure that disagreed (`crossed`) and a handle kept for its volume (`dead`);
`CommandsEnd` a process that a shell left behind, and so does `StopReachesCommands` for a
call that waits for a command of its bootstrap; `MessageSettled` speaks of turns whose
stream has begun, one that throws before (`sdk-turn.ts:215-228`) being Session's
`TurnThrows`. In the modules with a `strayed`,
`marred` or `stray` the excuses are its members, listed above: each is set by the step that causes it,
never by its effect, and the comment on a property says which ones it allows for. In each
of these runs the excuses happen in some behaviours and not in others, and the property is
checked in both.

Some properties join facts about one matter (`StreamsKept`, `HangupCrosses`,
`MessageSettled`, `FilesFollowRecords`, `ServersAccounted`,
`SandboxAgreed`, `ReactionsAccounted`, `StopHolds`); the parts are definitions of their
own, with their own comments.

One run finds a disagreement between the code and a document (quoted in `PROJECT.json`,
findings): in `IngestHistory` a mention is recorded without the root of its thread. A
reply before the mention has made the directory, which is all `backfillIfNew` asks for,
while SPEC.md promises the history of the thread.

Other statements of documents or comments that the code does not satisfy are definitions
in the modules, next to the properties; given to TLC as INVARIANT or PROPERTY of a cfg of their
module, they are violated:

| Statement | What happens |
|---|---|
| `Session!StoppedMeansStopped` | `/stop` while `running` is being persisted (`session.ts:97-110`) answers "stopped"; the turn runs (SPEC.md:114) |
| `Reactions!ReactionsRemoved` | Slack applies a removal before its add, or refuses it, and nobody asks again (`post.ts:45`, SPEC.md:130) |
| `Conversation!EveryMentionGiven` | two queued mentions, both with content, and a reply of the running turn between them: the older is in no prompt (`session.ts:33`, `sdk-turn.ts:93`) |
| `Delivery!NoDuplicateRecords` | a redelivery during the first read of `dedupe.json` after a restart is recorded again (`dedupe-store.ts:51`, SPEC.md:107) |
| `SessionRecord!FrozenHome` | of two first mentions the second overwrites the home of the first (`handler.ts:177-181`, `:223`) |
| `SessionRecord!DeleteIsFinal` | `session.json` is back after a `/delete` of a thread at rest (`handler.ts:141`, `docker.ts:376`) |
| `Sandbox!ReapSparesRecorded` | the boot reaper destroys a sandbox made after it listed the records (`sandbox/index.ts:96`, SPEC.md:236) |
| `GitTunnel!OpenTunnelListens` | a reconnect that arrives before the sandbox has noticed the broken connection stays without the port (`server.ts:346`, SPEC.md:214) |
| `SdkTurn!ExecHardCap` | a process that a shell left behind keeps the pipes, so the hard cap does not end the request (`server.ts:42`, `:127`) |

The models contain more behaviour that differs from what is written; the notes in
`PROJECT.json`, hazards, give the lines: a `/stop` discards mentions queued before it, and
throws if the turn ends while it writes; a failing `mkdir` leaves the session running for
ever; the persisted status says `idle` under the next turn and goes from `stopping` to
`running`; a turn survives `/delete`; the bootstrap may
erase a creator; saves of `dedupe.json` may finish out of order; a `/stop` during the post
of an ask is missed; an event for a tenant that is down is lost; the row of one of two
overlapping tools stays at work; a bootstrap that was cut short counts as finished; a
message posted during a backfill is recorded twice.

**Bounds, and why they are enough.** The scheduler's races need an owner, a mention that
queues or comes between two loops, and a `/stop`; three mentions let a loop end, a second
start and a third join it, and two `/stop`s (in `SessionSafety`) let one find the status
that the other has set. Beyond that handlers are interchangeable. `MaxReplies` is the number of
events a turn records: one separates "before" from "after" a mention. `MaxSends` = 2
gives a copy and its redelivery; `MaxCrashes` = 1 gives two lives. Two writers of each
kind suffice to lose an update. Two clicks give a selection and its submit, or a stale
click. In `Sandbox` two ensures overlap or follow each other; `MaxMade` = 4 lets each of
them make a volume and a box, and the second mishap hits what the first left behind
(a crash and then a dead box, a failed command and then a `/delete`). In `GitTunnel` a
mishap meets two calls at different awaits; three tunnels give each call its own and one
more after a teardown. In `TunnelStream` two connections share a tunnel, the third socket
is the one that data behind a CLOSE opens, and two chunks are the least that can be out of
order. In `SdkTurn` two tools overlap, and there is a behaviour for a fault at each call of
the consumer; the bootstrap's command has no output there, its own command's chunk being
enough to lose. In `Ingest` pages of two make a backfill of three messages go round twice;
the message with the file is the one users may delete (`Removable`), and since that is not
among the mishaps, its deletion meets a crash, a `/delete`, a failing `unlink`, a throw or a
file written in part.
The proofs below remove the bounds for the invariants they cover.

**Fairness.** Weak fairness is assumed for a handler's own continuations (an await of a
file or an HTTP call returns; a turn ends), for Slack answering a call, for timers (asks, the tunnel's reconnect,
SIGTERM and SIGKILL), for frames of an open WebSocket, for the sandbox noticing a closed
one, for an aborted SDK letting go of its consumer, and for the supervisor restarting the
tenant. It is never assumed for users: nobody has to write, click, stop or delete, and
Slack need not redeliver; nor for models, commands and git, which need not end, read or
close.

That a turn ends is an assumption of `Session`: the SDK stops at `MAX_TURNS` and tools have
timeouts, but the one of a command is not absolute (`ExecHardCap` below the runs). A turn
behind such a command ends at a `/stop` (`StopEndsTurn`), so `QueueDrains` and what is like
it say what happens when no left-behind process holds a turn up; `BootstrapReturns` in the
same way rests on the commands of the bootstrap returning.

`CHECK_DEADLOCK FALSE` appears where every handler may have returned and no user does
anything more: the system then stops rightly.

## 4. Proofs

All for every value of the constants: any number of mentions, `/stop`s, events, copies,
calls, clicks, messages, pages, tool calls, boxes, mishaps and restarts. The excuses of a
property are those of the run that checks it; no theorem adds a hypothesis to them except
where the bullet says so.

- `ThreadProofs`, `Session`. `TypeCorrect` (`TypeOK`) needs no assumption beyond `SessionAssumption`.
  `LoopMutualExclusion` (`OneLoop`) rests on `LoopInv`: at most one handler is in the
  loop, *and* the status is not idle while one is; the second part makes it inductive,
  since only an idle status lets a handler in. It holds under all faults. `NoPhantom`
  adds the converse (`OwnedInv`: non-idle means somebody is in the loop), which needs
  `"mkdir" \notin Faults`: when the first status write rejects, nothing resets the status
  (`StatusWriteRejected`). `SettlesIdle`
  (`IdleAtRest`) uses `RestInv`: if nothing is queued on the lock the disk is idle or
  somebody is in the loop or about to write, and the *last* write of a non-empty queue
  is `idle` unless somebody still will write it. It needs the disk to work.
  `SchedulerImplementsOwnership` maps every step to one of `TurnOwnership` or a stutter:
  `StartLoop` claims, `QueueMention` folds, `NextTurn` and `StopAccepted` drain,
  `FinishLoop` releases, `TurnThrows` and `Crash` fail. Besides the above it needs `QueueInv`:
  nothing is queued while the status is idle, and `OwnerAssumption`: "nobody" is not a mention. The liveness half of the refinement stays
  with the run `SessionSafety`. `SteadyIsSafe`: what this run
  checks, `SteadySpec`, is among the behaviours the theorems are about.
  `StopsHold` (`StopHolds`) rests on the order of the chain: `ChainInv` says that the
  handlers waiting for a status write are exactly those in the chain, each once, so that
  `Ahead` (whose write comes first) only changes by joining at the end and leaving at the
  front. `StopInv`: a loop that a waiting `/stop` did not see is still at its first write,
  behind the `/stop`'s, and by `AbortInv` has no controller there; and a `/stop` accepted
  between two turns finds the controller of the second. It holds although writes may fail,
  but needs `"mkdir" \notin Faults`: a `/stop` whose own write rejects never aborts.
- `ThreadProofs`, `Reactions`. `ReactionsAreAccounted` (`ReactionsAccounted`), for every
  failure but the death of the process, which the module leaves out, and whatever Slack
  reorders or refuses. A step of the
  composition is a step of Session or leaves it alone (`SessionSteps`), so the lemmas carry over.
  What is needed besides is `ThinkingInv`: while the session is idle the list holds only
  mentions on their way to `startOrQueue`, since whoever resets the status empties it.
- `ThreadProofs`, `Conversation`. `PromptIsNeverEmpty` (`PromptNotEmpty`): once somebody has
  written text, no turn has the placeholder for a prompt until a `/delete`, a turn for a bare
  mention neither. A text that has arrived stays in the log (`LoggedInv`), and
  `collectUserTurn` finds something in every log with a text in it (`CollectFinds`, where the
  fallback counts; that there is a last one is taken from the library's theorem on
  well-founded relations).
- `RecordProofs`. `TypeCorrect`; `RecordImplementsFrozen`: until a `/delete`, every step of
  the lock, the writers and the tenant is a step of `FrozenRecord` or a stutter (`ViewInv`:
  what a job has read is what is on the disk, because nobody else can write in between);
  `HomeIsFrozenFirst` adds `HomeInv` (a kickoff past its write has left a home on record,
  its own or another's), `SandboxAgreement` `KnownInv` (a sandbox that is up has saved its
  handle, unless `crossed`) and `HeldInv` (whoever drops the token has the handle cleared
  behind every save, `HandleGone`, unless it is `dead` and keeps it), over every path of
  `ensure` and `getEndpoint` that clears.
- `DeliveryProofs`. `RecordedOncePerLife` (`OncePerLife`). The invariant counts: an event
  is either still within its budget of one record per life, or the current life has
  claimed it, that is, it has a single copy past the check and its key is in `seen`, or
  it is recorded and the key stays until no copy can come (`Stale`).
- `AsksProofs`. `OnePendingAsk`, `ClicksAnswerTheirAsk`, `RepliesAreKept`. `AnswerInv`
  (a call that has not returned has no answer) makes `ReplyKept` inductive: no second
  settlement can overwrite the answer a reply became.
- `SdkTurnProofs` assumes `SdkTurnAssumption` (a call in `Run`, which is among the tool
  calls, has two commands, the bootstrap's and its own; "no row" is no call).
  `OutputIsWhole` (`OutputWhole`): `Sound` balances for each command what was written
  against what is in the pipe, on the wire and at the client, puts the exit frame last, and
  has nothing written for a command whose shell is still due.
  `ReplyRecorded` (`ReplyIsRecorded`): a reply that the consumer has yet to show is behind
  its record in `todo`. `MessageIsSettled` (`MessageSettled`) is the long one: `SettledInv`
  says which calls are left in `todo` for every place where the turn may be, in which order
  (`Behind`: no call that forgets the row or closes the message before the one that settles
  the row), and, where nothing excuses the turn, that a row at work is the active one.
- `IngestProofs` (`IngestAssumption`: pages are not empty). `HandlerInv` ties what each
  handler holds to its place. `MessagesRecordedOnce` (`RecordedOnce`) follows from
  `OnceInv`: so long as nothing raced there is one backfill at a time, nobody else is at
  work while it lists, and the message of a handler at work is neither recorded nor in a
  list. `BackfillIsWhole` (`BackfillWhole`) follows from `FillInv`: what was there at the
  beginning is listed or still to be listed, then recorded or still in the list.
  `FilesMatchRecords` (`FilesFollowRecords`) and `MirrorIsTrue` (`MirrorTrue`) have
  invariants (`FilesInv`, `GoneInv`, `MirrorInv`) about the download, the deletion, the
  push and the halves of a `/delete` that are under way; `GoneInv` says that a file is
  recorded, in the hands of a handler at work, or in `stray`.
- `SandboxProofs` (`SandboxAssumption`: "none" is neither an ensure nor a handle). One
  invariant, `SandboxInv`, for four theorems: ids are never used twice (`IdInv`), records
  and operations tell of boxes and volumes that existed (`RecordsTell`), one volume per
  workspace (`OneVolume`); while nothing has overlapped, at most one of the ensures, the lookup
  and the removal is at work on a record (`AloneInv`); and while nothing that a property
  names excuses a loss, what each `await` of an ensure, a
  lookup, a removal and the reaper holds fits memory, record and reality (`FlowInv`,
  `TokenInv`, `VolumeInv`, `WorkInv`, `RemoveInv`). `TokenAlwaysMatches` (`TokenMatches`),
  `InUseStaysRecorded` (`InUseIsRecorded`), `WorkspaceIsKept` (`WorkspaceKept`) and
  `DeleteFrees` (`RemoveFrees`) are its consequences. The bounds `MaxMade` and `MaxMishaps`
  are any numbers.
- `TunnelProofs`, `GitTunnel` (`GitTunnelAssumption`: calls are finitely many, "no handle"
  is no handle). `GitTunnelIsTyped`; the numbers given to servers and tunnels never run out,
  which takes counting the calls on their way to one (`NumbersInv`). `ServersAreAccounted`
  (`ServersAccounted`): a call that brings a server up has no handle beside it and its
  tunnel leads to that server (`HandleInv`); a server that is not the handle's belongs to a
  call that can still stop it (`LeakInv`). `BootstrapDelivers` (`ReadyOnReturn`): between
  two bootstraps the workspace is empty or complete, and how complete it is in the middle of
  one follows from its place (`HomeInv`).
- `TunnelProofs`, `TunnelStream` (`TunnelStreamAssumption`: the bounds are numbers).
  `StreamsAreKept` (`StreamsKept`). Ids start over when the WebSocket breaks, so the
  invariant is relative to `base`, the number of connections of earlier listeners: the
  connection with id `i` is `base + i`, on both sides (`ConnInv`, `SockInv`), and there
  *is* such a base (`StreamInv`). For each connection, what the bot has taken, then what is
  in `up`, is an unbroken run of its chunks (`Upwards`); what the client was handed, then
  what is in `down` ahead of a CLOSE, is an unbroken run of one socket's, all others on that
  id having been opened again behind data (`AnsweredBy`). A CLOSE at the head of `down`
  then has an empty run behind the client: it has been handed everything. The lemmas about
  `Run` say what one frame more at the end, or one less at the head, does to a run.

Each of these invariants was checked with TLC on the run's instance before it was proved.

Only model-checked: all liveness, fairness being outside the prover's reach (`QueueDrains`,
`MentionsReturn`, `ReactionsGo`, `MentionAnswered`, `AckedIsRecorded`, `EveryAskReturns`,
`BootstrapReturns`, `TunnelHeals`, `HangupCrosses`, `StopReachesCommands`, `StopEndsTurn`, `CommandsEnd`, the fair
half of `ImplementsOwnership`). The runs check no safety property that is not also proved.

## 5. Not modelled, and the plan

- *Lock file*: its state is a file between two processes of the operating system. The
  window between the creation of the file and the writing of the pid, and the steal by
  unlink and retry, are listed as a hazard.
- *Routing, home refresh*: routing is a pure match of one event against tables and keeps
  nothing; the refresh runs git against the mirror, and when it fails, logs that and lets
  the prompt be built from what is on the disk.
- *Slack formatting, event normalization, the system prompt, the GitHub and web tools,
  build and installation*: nothing in them is a matter of state over time.
- *Within modelled components*: the file endpoints of the exec server (one request, one
  answer), frames that Bun drops from a full WebSocket (`server.ts:333`), git's http-backend
  as a process, the pre-receive hook (a rule on one ref, run
  by git), `killAll` (used by tests), the building of the Docker image as several steps,
  plan titles and note cards of the stream, and the fields `model` and `sdk_session_id` of
  `session.json`, which use the setter of `home`.

Every safety property that a run checks is proved. What is left of the plan:

1. Abstract specifications of what `Asks` (a question is settled once) and `Exec` (output is
   appended, then the exit code) promise, with the proofs that they are implemented.
2. The steps that the liveness properties rest on, as action properties: what is on its way
   to be settled is settled or stays on its way.

Later modules, if wanted: `Lockfile`, `HomeRefresh`, `Routes` (matching as an operator
against a reference definition).
