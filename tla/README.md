# A TLA+ verification of Norite

Norite is a self-hosted chat system: a Go backend on PostgreSQL with a real-time gateway and a voice
SFU, a daemon on each user's machine that holds the credential and the gateway connection, and a
command line and TUI that talk to the daemon. This directory models the parts whose correctness
depends on what happens at the same time or on what fails in between, checks them with TLC on small
instances, and proves the invariants that matter most with TLAPS for every value of the constants.

`PROJECT.json` lists the components, runs, mutants, findings, hazards and theorems, and maps each
definition to the lines it models. Comments in the modules name the functions.

## Inventory

| Part | State | Operations | What is hard | What makes it correct |
|---|---|---|---|---|
| Gateway registry (`backend/internal/gateway`) | session map, counter per account, index, fields and timer of each session, sockets, slots per address | upgrade, IDENTIFY, RESUME, disconnect, expiry, revocation, Shutdown | three locks; every ending of a session is two critical sections | map, index and counter agree; one socket per stream; a signed-out stream ends; a slot is given back once; Shutdown tells everybody |
| Event stream (`gateway/session.go`, `conn.go`, `daemon/internal/gatewayclient`) | sequence number, resume buffer, outgoing queue, client position | dispatch, replay, close, reconnect | cuts, slow readers, trims, restarts | in order, no event twice, no gap unless the client starts over |
| Fan-out (`gateway/fanout.go`, `index.go`, `platform/events`, `platform/database`) | hooks, bus, lanes, index, guild sets, pending events | commit, publish, pick, check, deliver, READY | events against READY, memory against the database, drops | only members are told; nothing missed between READY's data and READY |
| Sign-ins (`backend/internal/auth`) | session rows, links, password | login, refresh, reuse, logout, sign-outs, reset, sweep | READ COMMITTED: snapshots, row locks, phantoms | a token is spent once; what was ended stays ended |
| Ways into an account (rest of `auth`) | device codes, OAuth states and codes, identities, second factors, API tokens, invites, mailed links | issue, approve, link, prove, redeem, revoke | statements outside a transaction, a row read before it is locked, tokens nobody stores | spent once; a flow serves whoever began it; a refusal sticks |
| Request path (`auth/middleware.go`, `ratelimit`, `router.go`) | windows, hash slots, access tokens | limit, authenticate, ask for liveness and scope | a token outlives its row | a guarded route asks about the very sign-in |
| Guilds (`guilds`, `roles`, `guildauth`) | guilds, members, roles, overwrites, channels, invites, audit log | create, join, leave, kick, hand over, delete, grant, reorder, edit | check then write; counts before inserts; lock order | nobody gains what nobody conferred; ceilings hold; rows that describe each other agree |
| Messages, tags, reports | rows, histories, newest pointer | send, edit, delete, tag, report, page | minted and committed in different orders; two statements to read one thing | no text lost; a reader of pages misses nothing |
| Voice SFU, TURN (`backend/internal/voice`) | rooms, connections, cutoffs, slots, sources; allocations and streams | provision, evict, exclude, assign, forward; reserve, release | late provisions, lock-free forwarding, 16-bit numbers | the evicted stay out, the excluded are not heard, no number twice, no relay counted twice |
| Snowflakes | clock, sequence | mint | clock steps back | unique and increasing |
| Daemon session source, credential store | token in memory, token stored, generation | renew, write back, settle, hand back, reload | a login or logout while renewing; a failed write; a crash | a sign-in is neither lost nor brought back |
| Daemon attach server, state cache, relay | clients, queues, cached guilds and messages, byte totals, requests in flight | attach, READY, dispatch, resync, evict, forward, retry | two sources of truth for "who is signed in" | nothing of another account; totals exact |
| Daemon updater, process and control | record, staged and kept programs, trial; lock, socket, processes, services | stage, install, confirm, roll back; start, stop, restart | a power cut between two renames; a stop beside a start | one daemon, in a whole installation |
| Daemon port for scripts (`automation`, `daemonproc/automation.go`) | port, its file, its record; connections, deadlines, bucket | enable, disable, start, stop; present the secret, ask | a failed write or bind beside another request; waking against deadlines being set | file, record and port agree; a token goes to one instance; nobody sleeps on |
| Voice worker, settings files, command-line login | call and process; one or two files; ports, browser, store | join, leave, reap; set, split, join; listen, exchange | process death; a file moved between choosing and locking it; two runs on one machine | nothing left over; what is written is read; one's own sign-in |

How they interact. A mutation runs in `RunInTx`; hooks registered with `AfterCommit` publish events and
revocations on the bus after the commit. The gateway subscribes: an event goes to a lane by its guild,
picks candidates from the index, asks the database who may see it, and is numbered in each session's
stream. A revocation makes the registry drop sessions. The daemon's client reads the stream, resumes
after a cut, and hands events to the attach server, which caches and forwards them. The daemon's session
source holds the refresh token that `auth` rotates, follows sign-outs, and lends an access token to the
relay and to voice. The command line signs in, writes the store, and starts or stops the daemon.

## Modules and the code

The backend's core, each with its own runs:

| Module | Models | State and actions |
|---|---|---|
| `GatewaySessions` | registry, one account on one process | A step is one critical section of one goroutine: the serve loop of each socket, each expiry timer, the revocation subscriber, Shutdown. `sessions`, `perUser`, `idx` are `Server.sessions`, `Server.perUser`, `sessionIndex.byUser`; `dropSession` is `DropFromMap` then `Stop`. Sign-ins are numbered as their snowflakes order them. |
| `GatewayStream` | one client's stream end to end | `Number`, `Enqueue`, `Trimmed` are `dispatchLocked` and `enqueueFrame`; `HandleResume` is `session.resume`; the client's actions are `converse` and `Run`. Trimming by bytes is a choice of how many of the newest frames stay. The network is external. |
| `ReliableStream` | the promise of the stream | What a client may see: the next event, or a new beginning it is told of. `GatewayStream` implements it (`IsReliable`, through `INSTANCE`). |
| `GatewayFanout` | from a commit to the streams | `Join`, `RemoveMember`, `DeleteGuild`, `Post` commit and queue hooks; `Publish`, `OnEvent`, `Pick`, `Check`, `Deliver` are the bus and the lanes; `Register`, `ReadGuilds`, `BecomeReady`, `Stop` are IDENTIFY's half. Who may see a channel is reduced to membership. |
| `AuthSessions` | one account's sessions in the database | A request reads, then its transaction runs statement by statement: `Snapshot` is the moment an UPDATE's snapshot is taken, `RevokeRows` and `Rotate` the moment its rows are free and are asked again, `Commit...` the commit with its hooks, `RollBack` any failure. An inserted and uncommitted row is only a field of its request. |

Ways into an account (run `accounts`):

| Module | Models |
|---|---|
| `DeviceGrant` | device codes from start to redemption; polls of several processes; the page's tokens; `revokeEverything` as the two statements that matter |
| `OAuthSignIn` | states, the callback, resolution by identity or by address, linking, the username step, exchange codes; every statement a step, because neither callback nor exchange is a transaction |
| `TwoFactor` | the `user_totp` row and recovery codes; every request reads the row first and writes later |
| `Registration` | `Register`, `Bootstrap`, reserved names, instance invites |
| `AccountLinks` | reset and verification links, API tokens |
| `RequestPath` | limiter, readiness, credential, liveness, scope, hash slots, handler, in the router's order |
| `Accounts` | what they share: accounts, and NULL |

Guilds (run `guilds`):

| Module | Models |
|---|---|
| `GuildAuthority` | permission resolution; roles, grants, overwrites, reordering, hand-over, kicks; each request is its checks, then the locked rows read again, then the write |
| `GuildLifecycle` | create, redeem an invite, hand over, delete, under advisory and row locks, with the deadlock the locks allow resolved by the database's abort |
| `GuildChannels` | channels under categories, their limit, the overwrites a new channel copies |
| `GuildSettings` | edits of guild, channel, member and role rows with the audit entry each writes |
| `ChannelMessages` | ids minted before the commit, edits with history, recording, the newest-message pointer |
| `Moderation` | tags, their application and counted deletion; reports |
| `KeysetPages` | every list that pages by the last id, read while it changes; histories read in two statements |

What reaches a connected client (run `realtime`, with `GatewayFanout`):

| Module | Models |
|---|---|
| `VoiceRooms` | provisions, connections, evictions, cutoffs and the sweep that forgets them |
| `VoiceSlots` | loudness, pins, exclusions, `choose` and `place`, the lock-free forwarder, the slot map's versions |
| `SlotStream` | `slot.assign` and `slot.write`: one stream of wrapped numbers out of several senders' |
| `TurnRelay` | quota, reservation, binding, close from any end, the server's `Close` |
| `GatewayAdmission` | sockets of one address from the upgrade to the end of their handler: slots, tracking, the watchdog, Shutdown. `untrack` is three steps; what a session does is `GatewaySessions`' |
| `Snowflake` | `Generate` on several nodes, with the widths of the fields as parameters |

The client side (run `client`):

| Module | Models |
|---|---|
| `DaemonSession` | the session source and the store it shares with `norite login` and `logout`; a store operation holds the lock file and is one step |
| `AttachServer` | clients, READY and dispatch, resync, the queue's limit; every method holds the server's lock |
| `DaemonCache` | the message cache: buffers, recency, the byte total kept by hand |
| `RelayRequests` | requests in flight; one retry with a renewed token |
| `Updater` | the record, the kept and staged programs, the trial; a power cut at any step |
| `DaemonLifecycle` | processes, lock, socket, service managers, `norite daemon` |
| `VoiceCalls` | one call at a time and its worker |
| `CliLogin` | password, browser and code sign-ins of two runs on one machine |
| `ConfigFiles` | writers, the toggle, an editor, the watch |
| `Automation` | the port for scripts. Its control: turned on, off and onto another number; its file and its record in the state file; failed binds and writes. What is done under `automationControl.mu` is one step. One open port: connections before and after the secret, deadlines, the instance of each request, the bucket, the end |

Composition. The parts of a group share no variable; each is driven by the others only through choices its
module leaves open. `MCAccounts`, `MCGuilds`, `MCRealtime` and `MCClient` therefore check them side by side: `part` is
chosen at the start, the behaviour takes the steps of that module's own next-state relation, and the other
parts stay at an initial state. Every behaviour of every part is covered, and the state space is the sum of the
parts' and not their product. The seams between parts are modelled on one side in detail and on the other as a
choice: GatewaySessions leaves a resume's outcome open and GatewayStream decides it; GatewayStream takes dropping a
session as one step and GatewaySessions takes it apart; GatewaySessions has sign-ins appear and end and
AuthSessions says when; DaemonSession has an instance that rotates, refuses or loses an answer, as
AuthSessions' refresh may; the gateway client behind AttachServer begins and ends as GatewayStream's client does;
ids in VoiceRooms have the shape Snowflake mints.

## Runs

Passing runs, with the distinct states TLC finds. A property of the composed runs is a conjunction; its parts
are named after the idea and live in the module they are about.

| Run | Shows | Bounds and why |
|---|---|---|
| `registry` (1.2 million) | `RegistryAgrees`: map and index agree and the counter is not above the map. `NoStraySession`: one socket per stream, and no session without an end in sight. `SignOutHasNoGap`: no session of a signed-out device is missed | 2 sockets, 2 sessions, 1 slot, 2 sign-ins on one device, 1 lost revocation, Shutdown: every pair of paths that end a session meets, and a socket is replaced while it still acts |
| `registry_live` (155 thousand) | dead sign-ins are closed, left sessions end | fairness below; 1 lost revocation |
| `stream` (397 thousand) | `BufferIsNewest`; `LossIsAccountedFor`: bounded queue, order, and a gap only after the queue was full | buffer 1, queue 2, 2 sockets, 2 events: the buffer trims and the queue fills |
| `stream_reliable` (448 thousand) | implements `ReliableStream`; a client that stays connected catches up | queue 4: never full, the condition of the promise; fairness below |
| `auth` (1.5 million) | `TokensAreSingleUse`: a family is a chain and replay stays evident; `EndedStaysEnded`; a sign-out's cutoff covers what it ended | 2 devices, 2 requests, 3 ids (a row, its successor and a cutoff, or two rivals), 1 reset |
| `accounts` (1.5 million) | `SpentOnce` (`OneSessionPerCode`, `CodeAcceptedOnce`, `LinkWorksOnce`, `InviteCountsAccounts`, `OneBootstrapAdmin`); `WaysInAreSound` (`SessionIsTheFlowsOwn`, `ConfirmedIsProved`, `DenialSticks`, `DemandedFactorHasCodes`); `LivenessIsTheSignIns` | two of each actor at once; 2 secrets and 3 time steps, so that a code is presented in two steps and an enrolment replaced; an invite with one use |
| `guilds` (2.1 million) | `NothingUnconferred`; `CountsHold` (`CeilingsHold`, `InviteAdmitsItsUses`); `TablesAgree` (`RolePositionsDistinct`, `OwnerIsMember`, `ParentIsCategory`, `LastMessageIsNewest`, `NoTextLost`, `AuditIsAChain`, `RecordingFlippedByOwner`, `TagRemovalsCounted`); `PagesAreWhole` (`PagedOnce`, `HistoryIsWhole`) | two transactions at once on every table; owner, manager and member; ceilings of one and two, so that they are met; 4 rows in pages of 1 and 2 |
| `realtime` (1.1 million) | fan-out: `IndexIsExact`, `ToldOfOwnOnly` (`OnlyToMembers`, `OnlyOwnGuilds`), `NothingMissed` (`NoMissedEvent`, `CurrentWhenInOrder`, `GuildOrder`); voice: `EvictedStayOut`, `HeardAsTold` (`ExcludedIsNotForwarded`, `MapIsKnown`), `SelectionSettles`, `AllAccountedFor` (`NoNumberReused`, `RelaysCounted`, `SlotsGivenBack`, `ShutdownReachesAll`); ids: `IdsIncrease` | 2 guilds on 2 lanes, 2 transactions, bus of 2, so that it overflows; 3 instants with 2 ids each and a timeout of 1, so that a provision meets a cutoff at the instant it is forgotten; 2 talkers for 1 slot; numbers modulo 16; relay limits of 1, 2 and 3 with 3 requests; 3 sockets for 2 slots |
| `client` (2.1 million) | `SessionKept` (`NoSessionAbandoned`, `StoreIsTheLastSignIns`); `OneAccountEach` (`OneAccountPerClient`, `OneAccountPerRequest`, `OwnSignIn`, `TokenStaysHome`); `NothingLeftOver` (`TotalsExact`, `NoCallUnended`, `PlacesKeptApart`, `NobodySleepsOn`); `ClientsSeeWhatIs` (`WatcherInStep`, `ToldIsStatus`, `StaleIsTold`, `SetIsRead`, `FileNamesThePort`, `PortAsRecorded`); `OneWholeDaemon` (`OneDaemon`, `InstalledWhole`); `AgreedIsNotKilled` | 3 sign-ins of 2 rotations; 3 channels, 2 messages each, sizes on both sides of the budget; 3 releases, one without a worker; 3 processes on each platform; one writer, one editor and the toggle; 2 requests about the port on 2 numbers for 2 instances, 3 ports opened; 3 scripts for 1 place of each kind |

`CHECK_DEADLOCK FALSE` is set where the bounds let a behaviour run out of sockets, ids, requests or transactions,
and where what was shut down really stops. Every bound is a CONSTANT named in the module; counters that grow in
the code stop at it.

The instances were varied while the modules were written: 3 sockets on 1 session and two devices for the
registry, 3 events and a queue of 8 for the stream, 4 transactions on 1 guild for fan-out, 4 ids on 1
device for the sign-ins, and larger values than the ones above for each part of the composed runs alone.

Violation runs. Each states what a comment of the repository says and shows that the code does otherwise; the
findings in `PROJECT.json` quote the line.

| Run | What happens |
|---|---|
| `stream_slow` | a client closed as slow is sent later frames while the queue drains, and resumes past the one it lost |
| `sign_out_slips` | a sign-out that meets a refresh misses the successor: the old row is found and has been rotated, the new one is not in the snapshot. `EndedStaysEnded` says what is true in its place; `ended` and `slipped` record, at the commit, which case it was |
| `rollback_torn` | a roll-back cut short leaves the new daemon over older programs, and the next start takes it for the new version on trial |

## Other divergences

These definitions state what a line of the repository says and TLC refutes them on the instance given; they have
no run of their own. Checking one takes its name as the invariant or property of a configuration of its module.

| Definition | Says | Where the model departs |
|---|---|---|
| `GatewaySessions!SlotsBounded` | at most `maxConnectionsPerAccount` sessions | `newSession` lowers the counter for a session another path is already dropping |
| `GatewaySessions!DeadSignInIsCovered` | a resume moves the stream to the newer sign-in | a RESUME that checked its token early moves it back |
| `GatewayFanout!KeptCurrent` | the guild set is kept current | hooks of two transactions publish swapped |
| `AuthSessions!OldPasswordReachesNothing` | a reset revokes all the old password could reach | a login that verified the old password writes its session after the reset |
| `AccountLinks!NewestLinkOnly` | the newest link is the only one that works (passwordreset.go:100) | two requests each retire what they see and insert one |
| `TwoFactor!LiveFactorOnlyDisabled` | a live factor goes only by the disable path (twofactor.go:296) | an enrolment that read the row before the confirmation replaces the confirmed one |
| `GuildAuthority!OverwriteTargetsExist` | an overwrite's role or member exists | the target is checked before the insert (overwrite.go:125) and goes in between |
| `DaemonCache!OverBudgetAlone` | only one over-sized channel exceeds the budget (state.go:341) | an edit grows a message of the quietest channel: that channel is trimmed to its last message and the loop ends with the others kept; `Sizes = {1, 2, 4}` |
| `VoiceCalls!OneWorker` | one worker at a time, reaped before the next (docs/security-ledger.md:1898) | `leave` clears the current call before its worker is reaped (call.go:368) |
| `Automation!PutBackAsTheFileSays` | after a failed write the port is put back as the file says (daemonproc/automation.go:303) | the state file's lock is let go before the port is put back as `before`: a disable in between is undone, with the port open and the file saying off. `PortAsRecorded` is what holds otherwise, and `crossed` records that case |
| `DaemonLifecycle!ToldToStopStops` | a daemon told to stop stops (daemon.go:354) | the stop takes effect a grace period after it was answered (daemonproc/config.go:156); a run that ends for an update in between starts again |

Behaviours in the models that no line of the repository denies: a RESUME between `expireSession`'s look at the
session's connection and its drop is dropped with the session; two logins on one device at once leave two live
families (service.go:601), and if they commit in the other order than their ids were minted, the cutoff one
publishes is below the session it superseded; a `Logout` that read its row before a refresh rotated it leaves the
successor (service.go:781); `invite.go:367` and `:384` take guild and account locks in the other order than
`ownership.go:94` and `:126`, which the database resolves by aborting one; messages listed `after` an id without
`before` are the newest page above it and not the next one.

## Fairness

`GatewaySessions!FairSpec` has weak fairness for steps a running goroutine will take: the rest of a
handler it has begun, a close that was started, a timer that is armed, the subscriber, and the liveness
heartbeat, which a ticker drives. Nothing is assumed of clients: they need not connect, resume or
disconnect. `GatewayStream!FairSpec` has weak fairness for each socket's server goroutines and for the
client's loop, which retries for ever with a bounded backoff; cuts, restarts and the watchdog have none,
and `CatchesUp` speaks of behaviours in which the connection stays up in the end. The other modules state no
fairness and claim no liveness.

## Proofs

All theorems hold for every value of the constants satisfying the module's ASSUME.

| Theorem | Argument |
|---|---|
| `TypeCorrect`, `RegistryIsConsistent`, `RegistryAlwaysAgrees` (`GatewaySessionsProofs`) | `IndInv` adds to `RegisteredIsIndexed` that goroutines hold only sessions that were registered at some time, and that a session is out of the map before anyone stops it. Without the second, `stop` could take a registered session out of the index. |
| `NoSlotIsLeaked` | From the same invariant with finite cardinalities: each path lowers the counter at least as often as it removes a session. The converse is false (`SlotsBounded`). |
| `SignOutNeverHasGap` | `GapInv`: coverage has to hold for every sign-in of the device, not only the one a session was made with, because RESUME moves a session between sign-ins; a session, its sign-in and the token it was opened with are of one device, and none is a sign-in still to come. Each action is shown to leave a sign-out's lookup behind it (`Calm`, `Kept`) or to be the one that sees the session. |
| `NoSessionStrays` | `HoldInv`: goroutines hold a session only while they work on it, nobody resumes a session that is not READY, a session and its connection name each other, a socket being served has its session, a timer works on the session it was set for. Together they leave no step after which a session is nobody's. |
| `StreamTypeCorrect`, `ReplayHasNoGap` (`GatewayStreamProofs`) | The buffer ends at the newest number without a gap: kept by appending the next frame (`AppendExtends`), by any trim (`TrimKeepsNewest`), and a replay is a suffix (`FramesAfterIsSuffix`). |
| `LossAccountedForEver`, `ReliableWhileNotSlow` | `LossInv`, below: the first is `LossIsAccountedFor`; the second that `GatewayStream` implements `ReliableStream` as long as no frame finds a queue full (`slow = {}`), the condition under which `session.go` promises it. |
| `AuthTypeCorrect`, `RotationIsSingleUse`, `SingleUseIsEvident`, `RevokedStaysRevoked`, `ReplayEvidenceIsKept`, `CutoffIsAboveRevoked` (`AuthSessionsProofs`) | `IndInv` adds that a minted, uncommitted id is mentioned nowhere (`Fresh`), that open transactions hold live rows and each row once (`Holds`), that links run from older to newer rows and expire first (`Links`), and that a live row is its family's only head even once it has expired (`Heads`). A refresh that read its row in time and rotates it late breaks the plain invariants without the last. TLC checked `IndInv` before it was proved. |

Why `LossInv` quantifies a history. That the client is handed every event relates what it has read, the frames on
the wire and in the queue, and the numbers the server gave, and after a trim no variable holds the older frames any
more. `LossInv` says that some E fits, where `E[s][n]` is the number of events the first n frames of session s told
of: every buffer and counter fits E (`Recorded`), the frames still to come continue E from the client's number to
the end of the stream (`Flowing`, as far as the client is attached and no socket was slow), and the last event
handed on is the one at the client's number (`Placed`). Each action then either keeps E or extends it by the frames
it numbers, which is first-order and needs no induction over streams. `Standing` is what makes the rest inductive:
a request not yet handled names the client's present session and number and nothing of a stream is under way
beside it (`Asking`), a refusal travels alone (`Refused`), a client without a session is told READY first
(`Begins`, `Named`), and only its own session is attached to its socket (`BelongsTo`). TLC checked `Standing`
on a small instance before it was proved. `ReliableWhileNotSlow` is the step simulation from the same invariant.

`AccountsProofs`, over the specification the run `accounts` checks. `AccountsInvariant` is the conjunction of one
invariant per part, each inductive for its own part; a step of one part leaves the others' variables alone.
`AccountsTypeOK`, `UsedOnce` (`SpentOnce`), `WaysInSound` (`WaysInAreSound`) and `LivenessOfSignIns` follow from it.

| Part | What its invariant adds to the properties, and why |
|---|---|
| `LinkInv` | a link that can still be spent has had no effect: else spending it would be the second one |
| `RegistrationInv` | the bootstrap that counted no administrator holds the advisory lock, so the count is still true at its insert; an account is made in the transaction that counts its invite |
| `DeviceInv` | a session and its code's row agree: consumed, not denied, of the same account; `revokeEverything` ends sessions that are there |
| `FactorInv` | the row's secret is the newest or none, and an accepted code is of a replaced secret or of a step the row has used |
| `OAuthInv` | what each flow, sign-up token and exchange code knows was proved by the flow it came from, and stays proved |
| `PathInv` | a late request's sign-in is over and stays so; what a guarded route handles has passed the check |

`RealtimeProofs`, over the specification the run `realtime` checks. `RealtimeInvariant` is again a conjunction by
parts. From it: `RealtimeWellTyped`, `IndexAlwaysExact`, `ToldOwnAlways`, `NothingIsMissed`,
`EvictedStayOutAlways`, `HeardAsToldAlways`, `EverythingAccountedFor`, and the action property `IdsAlwaysIncrease`.

| Part | What its invariant adds to the properties, and why |
|---|---|
| `IndInv` | the functions' domains; the step that needs an argument is applying events, which moves a session's guild set and its entries in the index together (`AppliedStays`) |
| `FanInv` | every event, wherever it waits (hooks, bus, lanes, a lane at work, a session's pending list), is of a committed transaction and names only accounts that were members; one already checked for a session is due to it, and stays so, because `until` only grows. Applying a list of events keeps that by induction over the list (`AppliedIsFine`) |
| `FlowInv` | what `NothingMissed` says of a quiet system, said while events are on their way. An event of a guild is nowhere behind a later one: not in a queue, and not between the hooks, the bus, its lane, the lane's work and a session's stream (`PathOrder`, `ViewOrder`). Of the events that tell a session whether its account is in a guild, the last still on its way is right; with none on its way the session's view is (`NewsTrue`, `ViewTrue`). While the account has stayed since READY's data was read, no such event is later than that data and every later event of the guild has come or is coming (`AllTold`): that is why a session is never passed over by the index for an event it needs. A session's view is its guild set and stream with its pending events applied (`View`), so `becomeReady` changes nothing in it and delivering an event is the same step before READY and after (`AppliedMore`); before READY's data is read it is a function of what READY may list |
| `RoomsInv` | no id is from the future and every eviction made is still enforced by a cutoff, a closed room, or the age at which a provision is refused anyway: what the sweep forgets no longer matters |
| `SlotsInv` | whoever is in a slot is allowed by the exclusions in force when slots were last chosen |
| `RelayInv`, `AdmissionInv` | the counters are the cardinalities of sets of relays, streams, slots and running handlers, each of which a step changes by one element (`OneMore`, `OneLess`) |
| `FlakeInv` | every id is the packing of some node's time and sequence, and none is beyond what its node has reached; that packing is injective and ordered is proved from the digits (`DigitOrder`, `DigitsUnique`) |
| `NumberInv` | every number remembered is some age behind the newest, no two the same age, and the ages of a window span less than the wrap: the newest grows by at most `Gap` with each packet, because the network holds none longer than `Lateness` and the sender in the slot loses none. Of that sender, the packets still to come have places, and so numbers, that nothing remembered has; past the guard none from before its first can still come. The wrap is dealt with once, by congruence (`CongNear`, `SinceIs`) |

`GuildsProofs`, over the specification the run `guilds` checks. `GuildsInvariant` is the conjunction by parts. From
it: `GuildsTypeOK`, `NothingUnconferredEver`, `CountsHoldEver`, `TablesAgreeEver`, `PagesWholeEver`.

| Part | What its invariant adds to the properties, and why |
|---|---|
| `AuthorityInv` | a request under way carries a decision that was within what owners and admins had conferred, and what it is about to write passed that decision; conferring only grows, so a stale decision brings in nothing new. One request reorders at a time, and its plan still leaves no two roles in one place, the roles made or deleted meanwhile included |
| `LifeInv` | no two transactions hold one account's advisory lock, and a count made under it still stands: every step that adds to what an account owns or has joined is by whoever holds its lock (`GrowthIsCounted`), every other one adds nothing (`NothingGrows`) |
| `MessagesInv` | the history is the texts before the present one in order, an edit under way holds the row it read, and no message is beyond the pointer |
| `ModerationInv` | a tag being deleted is on no more of other people's messages than were counted, a private tag on none |
| `TreeInv` | a creation that was checked hangs no category under another |
| `SettingsInv` | the row a request has locked is as it read it, and so is the owner; the log is a chain that leads to the row, which one entry continues (`ChainGrows`), and the guild's two entries in turn; each request under way has room for two entries |
| `PagesInv` | what was read is in order and ends at the cursor, and a row that was there all along is past the cursor or was read; the history's snapshot is the texts before the one the envelope shows. The ORDER BY has every row of a finite set once, because ranks are distinct and as many as the rows (`OrderedIs`), and a page is the first rows past the cursor (`PageIs`) |

`ClientProofs`, over the specification the run `client` checks. `ClientInvariant` is the conjunction by parts. From
it: `ClientTypeCorrect`, `SignInsKept`, `EachItsOwnAccount`, `NothingStays`, `ClientsAreTold`, `OneDaemonWhole`, and
the action property `RenewalNotKilled`.

| Part | What its invariant adds to the properties, and why |
|---|---|
| `SessInv` | sign-ins are numbered as they come, a later one supersedes those before it, and nobody holds a token of one that is not saved yet; what `Run` holds where it stands; a refused token's sign-in is over; what was read from the store is what is there or out of date; the store falls behind the instance only while a running daemon holds what is to be written there. The last is why a stop or another login leaves the newest token somewhere |
| `CacheInv` | the order of use names each buffered channel once and no buffer is over its limit. Each helper of `state.go` keeps this between its calls too (`Exact`), and the eviction loop by induction over its turns |
| `AttachInv` | the account named is the newest sign-in or none, and what is cached is of the gateway's sign-in. Of a client that watches: its queue is all of one account, and its view with the queue read to the end is what the server has. That is said where the client's account, the one named and the one served are the same: between two sign-ins a client still reads the frames of the one before |
| `RelayInv` | a request was sent as nobody before it had a credential, and is sent again only with one of the same sign-in |
| `UpdInv` | one of three: nothing pending and the installation whole; swapping, with every program old or new, the daemon last, and the old ones kept until all are old again; on trial, with all of them new but for a rollback's first programs. `torn` marks a rollback cut short, after which `rollback_torn` shows that none of them is so |
| `VoiceInv` | one join has its turn, and until it begins its call there is none; a call that is not the current one was cancelled, and its worker asked to leave if only the worker can end it |
| `LoginInv` | how far a run is tells what it holds: its port, its tries, and a session of its own flow |
| `LifeInv` | whoever has components running holds the lock; on Windows a process that named itself to a command has agreed to stop, and a command past its wait finds it down with no renewal under way |
| `ConfigInv` | a command past its lock holds the lock of the file its client reads, and what it read of the clients' sections is still there; a toggle holds the locks of what it read, and what it has copied or merged so far is what its readers will find |
| `ControlInv` | the state file's lock is held by the one request under way, which knows the file; until one overtakes a put-back (`crossed`), the open port is as the file says or as the request in progress wants |
| `PortInv` | nobody is woken before the port's end, and a request about to be sent names the port's instance |

Assumptions. Beyond numbers being naturals and sets that are counted finite: `AuthSessions`, `Registration` and
`TwoFactor` assume that names of different kinds differ (an invite is not the mark for none); `VoiceSlots` that
talkers and listeners are peers; `SlotStream` that what the guard and the lateness of packets span is less than
half the number space, and that the window the model remembers, with the gaps lateness may leave in it, is at most the
number space, which 2^16 makes true of the code for a window of hundreds of packets; `VoiceRooms` that a clock tick has room for an id; the
guild modules that the mark for no one is no account, guild or channel, that accounts are not role numbers, that
masks are sets of permissions, that the guild's first two roles have numbers, and that the default page is one
row at least and no longer than the largest; `DaemonCache`, `ConfigFiles`, `DaemonLifecycle` and `Updater` that limits
the code has above zero are above zero; `ConfigFiles`, `CliLogin`, `DaemonLifecycle` and `Automation` that the marks
for nothing are not of the sets they stand beside, and `Automation` that the port was enabled for one of the instances;
`Updater` that every release brings all its programs, where what was first installed may lack the worker. TLC evaluates each on the run of its module.

Induction. The library's induction theorems take a predicate as an operator and no installed prover can
instantiate one. `SetInduction` states the principle for a set (one that holds 0 and, with each number, the
next, holds every natural number), which is first-order: it follows from the library's
theorem that a well-founded relation has a minimal element (`WFMin`), and is what the inductions over lists of
events use (`AppliedRun`, `AppliedMore`), and the cache's over the turns of its loop. `GatewayFanout!Applied` is a recursive function for that
reason. `LeastNat` and `GreatestNat` in `GuildsProofs` and `ClientProofs` come from the same theorem. Where a sum or
the end of a queue would need an induction of its own, the model says it without one: `DaemonCache!SumOf` counts as
many things as the sum is, so that a message more or less is a set more or less, and `AttachServer!InTheEnd` asks the
last event about a guild.

Model-checked only: liveness (`registry_live`, `stream_reliable`, `SelectionSettles`), which is out of TLAPS's reach
under fairness; and that the queue of the run `stream_reliable` is long
enough never to be full, with which TLC checks `IsReliable` unconditionally. No module with theorems declares a
RECURSIVE operator.

## What is left out of the modelled parts

Frame contents, formats, logging and metrics. Other accounts where nothing is shared between accounts but maps
and tables keyed by account (GatewaySessions, AuthSessions, TwoFactor, AccountLinks, RequestPath). Clock values:
a deadline is an event that may happen. In AuthSessions a family is named by the id of its sign-in, where the
table has `first_seen`, the transaction's time: two sign-ins of one device in the same microsecond would share
it. Snowflakes are minted in order by one process in AuthSessions and VoiceRooms. A batch of ten recovery codes
is one code; one OAuth provider; one voice track per connection, audio only. In Updater removing a
directory is one step: the code reads nothing from one that is half gone.

## Not modelled

- Lengths of deadlines, heartbeats and backoff: a deadline is an event that may happen.
- The Redis bus (the same at-most-once promise as the in-process one), start-up of the server.
- Request decoding, validation and encoding, pages, mail: I/O over the services modelled.
- Token formats, hashing, signatures, TOTP arithmetic: pure functions; the models keep who holds which.
- Video, offers and the media and TURN libraries; limits on refusals; panic containment.
- Packaged installs and the identity of replaced files; download and verification beyond success or failure.
- TUI, remaining commands, IPC frames, log files, configuration of the server, generated types.

## Plan

All parts of the inventory above are modelled, and every invariant and action property a passing run checks is
proved; liveness stays with TLC.
