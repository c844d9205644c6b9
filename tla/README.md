# A verification project for kuluu

kuluu is a client for Final Fantasy XI private servers (LandSandBoat): a
headless session library (`kuluu-session`), a renderer and desktop application
(`kuluu-render`, `kuluu`), an MCP server for agents (`kuluu-mcp`), and readers
for the game's data. The behaviour that is hard to test lives in
`kuluu-session`: one tokio task per map session, driven by a command channel, a
400 ms tick and a UDP socket, under a reactor and a supervisor that restart it.
This directory models that behaviour in TLA+, model-checks it with TLC and
proves part of it with TLAPS.

## The system

| Part | State | Operations | Interacts with |
|---|---|---|---|
| supervisor (`supervisor.rs`) | last goal, failures in a row, backoff, whether the operator disconnected | take a command, forward it, join the reactor, retry, sleep, return | operator's channel, reactor, goal store |
| goal store (`goal_store.rs`) | one JSON file | load, save (write and rename), clear | supervisor |
| reactor (`reactor.rs`) | goal (idle, follow, engage, path, bank, fishing, override), folded scene | handle_command, observe_event, tick | supervisor's channel, session's command channel, event broadcast |
| session (`session/mod.rs` `run`) | login, lobby and map keys, address of the map server | login, run_map_session, reconnect on a zone change | auth and lobby clients, map client |
| keepalive loop (`keepalive_loop`) | `dialog_session`, `pending_event_end`, `auto_event_end`, `CutsceneScope`, walk-away watch, local menu, cast bar, treasure pool, sequence numbers | one branch for commands, one for the tick, one for packets | map client, event broadcast |
| event dialog (`event_dialog.rs`, `ffxi-event`) | the VM's park, held tag, liveness observation | begin, advance, cancel, tick, ack_server | keepalive loop |
| map client (`map_client.rs`) | blowfish key, sync numbers | send_encrypted, recv_decrypted | UDP socket |
| state folder (`state.rs`) | `SessionState` | fold one `AgentEvent` | event broadcast, UI |
| zone-in (`run_map_session`) | the bootstrap's locals, `zone_ready`, ResRdy and MAPRECT flags | flood drains, GAMEOK, group list, CLISTATUS, then the loop's zone duties | map client, keepalive loop |
| delivery box (`delivery_box.rs`) | open box, eight slots, a take under way, `reopening`; the loop's recipient | one method per reply and request | keepalive loop, panel |
| auction house (`auction.rs`) | the pending sell, whether it is quoted | request, confirm, one packet handler | keepalive loop, panel |
| fishing (`fishing.rs`) | one phase with its deadlines | start, on_phase, tick, input | reactor |
| cast bar (`keepalive_loop`) | action lock, started bar, recast clocks | command arms, tick, BATTLE2 about the player | keepalive loop |
| treasure, local menus | one small table each | one method per packet or answer | keepalive loop |
| MCP server, application | none of their own that matters here | turn tool calls and keys into `AgentCommand`s | session's channels |

What is hard, and for each part what makes it correct:

* **Server events.** A tick, a command and a packet interleave freely and all
  change the same four pieces of state. Correct is: a script's event stays open
  on the server until the script ends; every event is given back once; the
  player is pinned exactly while something will unpin him; the box on screen is
  that of the script that waits; nothing waits for ever.
* **Supervisor and goal.** Commands, endings, sleeps and kills of the process
  interleave. Correct is: a cancelled order never comes back, the standing order
  is the last one given, the file follows it, a disconnect is final, backoff and
  attempts respect their limits.
* **Map link.** 16-bit sequence numbers, acks and a server that discards what
  acknowledges the wrong bundle. Correct is: no request of an accepted datagram
  is skipped, every bundle is applied once and in order, the exchange goes on.
* **Zone-in.** An ordered handshake whose every step must carry the ack of the
  last answer, while the server pushes bundles of its own. Correct is: the
  handshake is served whole, no position precedes it, nobody stays in limbo.
* **Engage and fishing.** The server's battle or cast and the reactor's goal
  drift apart under accepts, refusals, timeouts, deaths and new orders. Correct
  is: they agree again, a cancel leaves nothing swinging, a cast comes to its
  end in turn.
* **Cast bar.** The player's clock, his steps and the server's anonymous answers
  end one lock and one bar. Correct is: the bar is that of the spell in flight,
  agrees with the server once all is read, and goes away.
* **Delivery box, auction.** Request and reply protocols in which a reply may
  belong to what was closed, switched or superseded. Correct is: what the panel
  shows is what the server has and what it will do.

`PROJECT.json` lists every component with its status, and every hazard with
its line and the properties that cover it.

## Modules

| Module | Models |
|---|---|
| `EventLifecycle` | server events in the keepalive loop, with the player, the server and the network |
| `EventProofs` | the theorems about `EventLifecycle` |
| `StandingOrder` | abstract: what the supervisor promises of the operator's goal |
| `Supervisor` | supervisor, goal store, reactor goals and session endings |
| `SupervisorProofs` | the theorems about `Supervisor` |
| `Lockstep` | abstract: what the map link promises above an unreliable network |
| `MapLink` | sequence numbers, acks and freshness, against the server's window and guard |
| `MapLinkProofs` | the theorems about `MapLink` |
| `ZoneIn` | one zone-in, from the bootstrap to the end of the stay |
| `ZoneInProofs` | the theorems about `ZoneIn` |
| `Reactor` | engage, travel, cancel and fishing, against the server's battle and cast |
| `ReactorProofs` | the theorems about `Reactor` |
| `DeliveryBox` | driver, recipient and panel of the delivery box, against the server's boxes |
| `DeliveryBoxProofs` | the theorems about `DeliveryBox` |
| `Auction` | the two-phase sell: panel, driver, server |
| `AuctionProofs` | the theorems about `Auction` |
| `CastBar` | the action lock and the cast bar, against the server's cast |
| `CastBarProofs` | the theorems about `CastBar` |
| `MCEventLifecycle`, ... | one for each: the model values and symmetry of its runs |

The modules are views of one session. `MapLink` is the ground under the others:
they assume what it shows, that datagrams are taken and bundles applied once and
in order, and add only the losses that reach above it. `ZoneIn` is the time
before and around the loop whose events `EventLifecycle` models; `Supervisor`
sees both as a session that ends in some way, and `Reactor` refines what
`Supervisor` keeps as "the reactor's goal".

### EventLifecycle

`s` is the keepalive loop's local state: `dlg` is `DialogSession` (which event,
what it is parked on, what a held tag still needs, whether the scene controls
the player's position, how long the liveness check has seen nothing move),
`pending` and `auto` are `pending_event_end` and `auto_event_end` as bags,
`open` is `CutsceneScope::open` and what the renderer holds with it, `box` is
the dialog on screen as the folder and UI have it, `menu` is
`local_menu.active()`, `watch` is `pending_event_end_since` with its anchor,
`pos` the player's place, `dead` that the loop has returned an error. `out`,
`live` and `strolled` are bookkeeping: datagrams of the running handler, events
the client was given and has not given back, whether the player walked since an
event came. `link`, `cmds`, `toServer`, `toClient` and `srv` are the network,
the command channel and the server's `currentEvent`.

Each action is one whole branch of the loop's `select!`: `EndMenu`,
`EndScript`, `EndPinned` (EndEvent); `ChooseInMenu`, `ChooseInScript`,
`ChooseRaw` (EndEventChoice); `TickQuiet`, `TickScript` (drive, then watch,
auto ends, flush and the one datagram that carries them); `ReceiveEvent`,
`ReceiveCancel`, `ReceiveStray`, `ReceiveHalf`, `ReceiveAnswer` (packets);
`OpenMenu`, `Stroll`, `ChangeZone`. The server's actions are modelled from how
the code and its comments use it.

Abstractions. The bytecode is data: `Run` is every outcome `DialogRunner::run`
can report. Motion and move holds are the park `wait`. Two places stand for all
positions; they are more than `EVENT_WALKAWAY_YALMS` apart. A datagram is the
set of its EVENT_END subpackets, and one that carries none matters to no
property and is left out. Server datagrams arrive in order and once:
`is_fresh_bundle` and the retransmissions are in `MapLink`. The
event the mog house starts at zone-in is begun inside the tick by the same
`begin_server_event`; here it is a `ReceiveEvent`. A link that is down makes
`send_to` fail; a datagram the network loses is `Lose`.

### Supervisor

`sup` holds the locals of `supervisor::run` and the point it is at: inside an
attempt, sending a command on (`send`, the command in `hold`), waiting for the
reactor to end (`join`), asleep, or returned. `outer` and `inner` are the
operator's and the reactor's channels, `reactor` the task with its goal and
session, `disk` the goal file. `Crash` kills the process and starts it again:
only `disk` is left. `save` writes a temporary file and renames it, so it is
one step that happens or not. Time is not counted: whether an attempt lasted
`min_run_for_reset` is a choice, bounded by `MaxLong`.

`StandingOrder` has two variables, the standing order and whether one is being
carried out. `Supervisor` implements it with `want <- last_goal` and
`doing <- ` "the reactor runs, and its goal, or an order still under way to it
with no cancel behind, is an order".

### MapLink

`c` holds the loop's `sub_seq`, `server_last_seq` and `server_seq_applied`,
`srv` the server's `client_packet_id` and `server_packet_id`; `up` and `down`
are sets of datagrams in the air, so they overtake each other, and `keep` in an
action leaves a copy behind. `Send` is a keepalive, command or tick datagram of
up to `MaxSubs` subpackets; `SendTag` is `send_pending_tag`; `Receive` is the
packet branch up to `is_fresh_bundle`. `ServerTake` and `ServerEat` are the
external server: it accepts a datagram that acknowledges its last bundle and
dispatches the subpackets in its window, comparing plain numbers, and answers
any other with the last bundle again. Each datagram carries three fields no
code reads (how old its ack is, how many subpackets follow it, whether it is a
tag's), and `acct` what became of the last one accepted.

`Lockstep` is the abstract specification: the server takes one datagram, the
client applies the one bundle that answers it. `MapLink` implements it with
`made <- srv.spid` and `got <-` the bundles the client applied.

### ZoneIn

`c` has the locals of `run_map_session` and of the loop that matter to the zone
change: where it is (`boot`, the three drains, `loop`, or an end), the last ack,
the ack that the request before the drain carried (`sent`), the number the loop
applied last, whether the position seed and ENTERZONE were seen, what is owed to
an event, whether ResRdy went out, the pending MAPRECT and the line the session
ends with. `DrainReceive`, `DrainIdle`, `DrainCap` are
`drain_zone_flood`; `Again` repeats the LOGIN; `Tick` is the tick with every
subpacket it puts into its one datagram; `Receive` the packet branch, which
takes the ack from any bundle and applies a fresh one (`is_fresh_bundle`; the
drains apply whatever they read); `Ask` a RequestZoneChange; `Silence` the
timeout. The server serves what acknowledges its last bundle, answering under
the next number, and answers the rest with that bundle again. What it pushes
waits for its next answer, so no number carries two bundles; the drains are
necessary as every request must acknowledge the answer to the one before. An
event of the server drops the group list, ResRdy and the MAPRECT.

### Reactor

`r` holds the goal and its target, whether its attack was sent, the override,
the entity table (each mob alive, dead or out of sight) and the fishing phase;
`srv` the animation byte, the battle target and the mobs alive. `Engage`,
`Cancel`, `Travel`, `Move`, `Fish`, `Input` are the arms of `handle_command`;
`Tick` is `tick` with `tick_goal` or the fishing machine's `tick`, each a choice
of whether its clocks have run out; `Observe` is `observe_event` with
`on_phase`. `Accept`, `Refuse`, `Disengage`, `Cast`, `Check`, `Resolve`,
`Release` answer requests; `Status`, `MobDies`, `Despawn`, `Interrupt`, `Die`,
`Zone`, `ForcedMove` are the world. `Lose` is a datagram lost or an event a
slow receiver missed.

### DeliveryBox

`c` is `DeliveryBoxSession` (open box, slots, the take under way, `reopening`),
the loop's `pending_recipient` and recipient, and the panel's: the name typed,
its status, and the menu that waits beneath. Commands keep the guards of the
panel; `MenuOpen` and `Open`, which the agent gives as well, have none. `Observe`
is one reply with all it leads to: `on_result` or `on_error`, the requests it
chains, the recipient's lock, the folder's copy of the slots and the menu's
return. The server has two boxes of slots and a queue of parcels behind the
inbox.

### Auction

`p` is the panel's screen with the sell it shows, `d` is `AuctionFlow`, `srv`
the inventory and the lots. A lot request keeps beside the sell the driver
places (`sell`) the sell on the panel when the player confirmed (`shown`), which
no code sends: `ListedAsShown` compares them.

### CastBar

`fly` is `cast_in_flight`: the action, whether its bar has started, and whether
`lock_until` has passed (`due`, for a clock that may pass it at any time).
`recast` is `spell_recast_until` with its clocks likewise, `bar` is
`self_casting`, set in the same step as the event that sets it. `Use` and `Move`
are arms of the command select, `Tick` is what the tick does to the cast and to
the position, `Observe` is `apply_self_battle2_to_cast`, `Zone` the next zone's
loop. A failed send changes nothing here and is no step; a recast clock starts
whether the server casts or not. The server takes requests in order, casts one
spell at a time, breaks it off for a position that arrives, and its answers are
read in order; they name no spell, as the code reads none from them.

## Runs

Bounds are named constants with a comment in the module: they cap what the
environment does (events started, cancels, losses, outages, kills, panics, disk
faults, queue lengths), never what the code does.

| Run | Asks | Bounds, and why they are enough |
|---|---|---|
| `EventsCore` | types; a running script owes its END and holds its pin | two events, so one can chain into or replace the other; one cancel, one lost datagram, one outage; local menus |
| `EventsLinked` | a pin has an owner, a frame is on screen, no event is orphaned | two messages in flight each way: a chained trigger overtakes an ack. The link does not fail and menus stay shut: the table below shows what happens otherwise |
| `EventsAgent` | no drain under a live script, no second END, agent-driven | all kinds of tags (ack, reply, both) and a re-emission. No commands and no server cancels: the table below shows those |
| `EventsLive` | a held tag resolves, an event nobody plays is released | one event, one each of cancel, loss, outage, re-emission |
| `SupervisorCore` | cancelled orders stay cancelled, the file follows, refinement | two orders, so that one replaces another; a kill at any point; a panic; two attempts |
| `SupervisorRetry` | the pace of retries; a disconnect ends the supervisor | four failures pass the cap of 3 after doubling 1, 2; one long attempt; every phase of the session. No panics: the table below shows why |
| `MapLink` | no subpacket skipped, one bundle after the other, the exchange goes on | numbers modulo 10, so that a run wraps; two subpackets to a datagram, two datagrams in the air and two sends past an unread bundle, so that one overtakes another; one loss and one copy |
| `ZoneIn` | order of the handshake, all of it served, requests kept out of events, the line of the next zone, no limbo | one loss, one late answer, one event, one warp, two zone-line requests: each alone and any two together |
| `Reactor` | battle and goal agree, a cancel disengages, an engage settles, a cast ends | two mobs, so that one is re-aimed at; three orders, so that one is cancelled and given again; one fault, death or zone change, one stray status; the agent's profile, which plays a cast by itself |
| `DeliveryBox` | panel and server agree, takes in order, recipient checked, queue drained, menu back | two slots and two parcels: a box full, empty or mixed at the start; three orders, so that a box is switched or reopened under a request; one loss or error |
| `Auction` | what is listed is what was confirmed | two items at two prices, three quotes asked for, so that one is superseded and one refused; one command or request lost or one item gone |
| `CastBar` | the bar is the spell's in flight, mirrors the server's cast, and ends | two spells, an instant one and an ability; three actions, so that one is replaced and the next follows; two walks, so that a cast is walked away from and another broken off |

The types of `ZoneIn`, `Reactor`, `Auction` and `CastBar` are proved
(`TypeCorrect`) and in no run.

With `MaxParcels = 3` (5 million states, not in the run list for its time)
`DeliveryBox` passes as well: a full inbox with a queue behind it.

No run expects a violation. What the code and the repository's own words
disagree on, TLC shows when a configuration is changed as stated and the
property named is added (without symmetry where it is temporal); each property
is defined in its module. These also explain why the runs are bounded as they
are:

| Change | Property violated | What happens |
|---|---|---|
| `EventsAgent` with `CmdCap = 1` | `NoStrayEnd` | `ChooseRaw` sends an END for the command's event, whether or not it is pinned (`mod.rs:3133`; `take_pending_event_end`: "taking the entry is the authorization to send one") |
| `EventsAgent` with `MaxCancels = 1` | `NoStrayEnd` | a CancelEvent between an event's trigger and the next tick does not clear `auto_event_end`, and the tick sends an END for the dropped event (`mod.rs:7158`; its doc: "so no 0x05B goes back") |
| `EventsAgent` with `UserDriven = TRUE` and ack tags | `TagAnsweredByOwn` | the ack of the previous END answers a chained event's tag (`event_transport.rs:74`) |
| `EventsLinked` with `Menus = TRUE` | `FrameIsShown` | an open local menu takes a server event's answers, and closing it takes its frame away (`mod.rs:2884`) |
| `EventsLinked` with `MaxOutages = 1` | `PinHasOwner`, `FrameIsShown` | the send of a driven step fails, its outcome is dropped, and the script waits with no pin and no frame (`mod.rs:4833`) |
| `EventsLinked` with `MaxOutages = 1`, `MaxCancels = 0` | `EventHasOwner` | an END drained into a datagram whose send fails is forgotten (`mod.rs:4740`; `begin_server_event`: "auto-release it otherwise so the char never sticks") |
| `EventsCore` with `Menus = FALSE`, `MaxCancels = MaxLost = MaxOutages = 0`, `NetCap = 2` | `WalkAwayIsWalked` | `pending_event_end_since` and its anchor survive into the next event, which is given up although the player did not move since it came (`mod.rs:4481`) |
| `EventsCore` with `Menus = FALSE`, `MaxLost = 0`, `NetCap = 2` | `OverIsReleased` | `?` on a driven step ends a session whose link is down for a moment, and leaves the loop past the release of the cutscene scope (`mod.rs:4370`; comment at 5217: "anything still held has to be released here or it would never be") |
| `SupervisorCore` with `Orders <- MCOneOrder`, `MaxPanics = MaxCrashes = 0` | `SilenceIsRetried` | the silence timeout returns `Ok`, which the supervisor takes for a clean exit (`mod.rs:5209`; OPERATING.md:162: "The supervisor must reconnect and resume the persisted goal") |
| the same | `ReplayReachesZone` | the goal is replayed before the session is in its zone, and LOGIN's ZoneChanged resets it (`reactor.rs:531`) |
| the same | `DisconnectIsFinal` | a disconnect sent during the backoff starts one more session (`supervisor.rs:177`; playbook: "Supervisor will not reconnect") |
| the same | `LiveGoalIsResumed` | BankWhenFull is pursued, another goal would be resumed (`reactor.rs:713`) |
| the same with `MaxDiskFaults = 1` | `CancelClearsDisk` | a failed `clear` is ignored and the cancelled goal stays on disk (`supervisor.rs:109`) |
| `SupervisorRetry` with `MaxPanics = 1` | `DisconnectEnds` | a reactor that panics after the disconnect is retried, one that returns an error is not (`supervisor.rs:153`) |
| `MapLink` with `Spec` | `TagRuns` | `send_pending_tag` takes the datagram's header id before it advances `sub_seq`, so the header names the sync before the tag's, the server's window ends just short of it, and the server takes the datagram and dispatches nothing (`mod.rs:2438`; doc of `send_encrypted`: "`last_sub_sync` must be the sync of the LAST subpacket in") |
| `MapLink` with `MaxStale = 1` | `InLockstep` | `server_seq_applied` starts as `None`: a late copy of a bundle of the zone flood is taken for fresh and applied again (`mod.rs:2726`) |
| `ZoneIn` with `Spec`, `MaxLost = MaxLate = MaxWarps = 0`, `MaxOld = MaxAsks = 1` | `DrainWaitsForSeed` | one datagram that does not decrypt, as the last zone's, ends the first drain; GAMEOK goes out with ack 0, is eaten, and ENTERZONE never comes (`mod.rs:854`; doc at 733: "otherwise only after the self position seed (CHAR_PC) has") |
| the same with `MaxOld = 0` | `GroupListServed` | the event began while the request was under way, or before the client was told of it, and the server drops the request InEvent (`mod.rs:618`: "by then the event's dialog packets already sit in pending_event_end") |
| `ZoneIn`, the lateness clause of `Clean` removed | `ViaIsAsked` | the watchdog clears the pending line while the server's LOGOUT is under way (`mod.rs:4456`), and the next zone is entered without its line |
| `Reactor` | `CancelReaches` | a Cancel after a Travel that replaced an engagement sends no AttackOff (`reactor.rs:688`, comment: "a goal-only cancel would leave the server auto-swinging on the abandoned target") |
| `Reactor` | `PromotedWhenSent` | Engage m1, Engage m2 before m1's accept: the accept makes the goal Engaged with m1, and the newer order is dropped |
| `Reactor`, `~hist.rash` or `~hist.denied` removed | `EngagedTogether` | a stale accept promotes the next engage; a refused re-aim leaves the goal on the mob the server does not fight (test `refusal_after_the_accept_leaves_the_engage_standing`) |
| `Reactor`, the fault clause or `hist.rash` removed | `FishingEnds` | a lost release answer strands the hook check; a stale release ends the next cast's machine |
| `DeliveryBox`, `~hist.names` removed | `RecipientChecked` | a second query overwrites `pending_recipient`, and the answer to the first locks the name of the second (`mod.rs:4062`: "Verify the name server-side (0x04D Query) before locking it") |
| `DeliveryBox`, `hist.again` or the error clause removed | `MenuReturns` | an open that fails, or meets an open box, leaves `reopening` set, and a later close does not bring the menu back (`delivery_box.rs:38`) |
| `DeliveryBox` with `MaxParcels = 3`, and a freed slot not counted as news | `Drained` | Reject and Get make room but no Check follows, so the queue waits for the next opening |
| `Auction` (with `MaxAsks = 2`, `MaxTrouble = 0` too) | `ConfirmIsQuoted` | the quote of a superseded sell marks the sell that replaced it as quoted, and it is placed before its own quote (`auction.rs:57`, `:77`: "once the AskCommit quote has landed; `None` before that") |
| `Auction`, `~hist.spun` or `~hist.unasked` removed | `ListedAsShown` | a price turned while its quote is awaited is shown but not listed; when an AhSell is dropped by the full channel, a stale fee promotes and the confirm lists the sell before |
| `CastBar` with `Spec` | `IdleShowsNone` | an action accepted when the lock has run out and the tick has not come replaces the cast without `SelfCastEnded`, and the old bar stays on screen when nothing is in flight any more (`mod.rs:3388`; doc of `SelfCasting`: "`None` when idle") |
| `CastBar`, `~hist.overlap` removed | `BarMirrors` | a finish, interrupt or start that belongs to an earlier cast, or to an instant spell sent during one, ends or starts the bar of the spell in flight (`mod.rs:2617`) |

`CHECK_DEADLOCK FALSE` everywhere: a session whose bounds are spent, and a
supervisor that has returned, really stop.

### Fairness

`EventLifecycle!FairSpec` assumes the tick branch runs (a tokio interval in a
`select!` without `biased`), that a received packet is handled, and that the
server handles a datagram it has received; it does not assume that the player
acts, that the link comes back, or that a script ends. `TagResolves` is stated
so that a script which keeps asking the server does not count against it.
`Supervisor!FairSpec` assumes the supervisor and the reactor are polled when
they can proceed, that logging in ends one way or the other (its steps have
timeouts), and that a session told to leave does; a session in its zone may go
on for ever. `MapLink!FairSpec` assumes that the tick sends, that what arrived
is read, and that a datagram the network neither loses nor holds arrives; losses
and copies are bounded, so retries in the end get through. `ZoneIn!FairSpec`
assumes that timeouts run out, ticks come, packets are read and the server
answers and gives a silent session up. `Reactor!FairSpec` assumes that the
reactor ticks until its clocks run out, reads its events, that the server
answers requests, and that statuses come now and then, which `on_phase`'s own
comment states of them ("sent for many unrelated reasons").
`DeliveryBox!FairSpec` assumes the server's answers and their handling.
`CastBar!FairSpec` assumes that the tick comes and the lock's time passes, and
no answer of the server. None assumes that an operator, a player or a mob does
anything. `Auction` states no liveness: a quote that is lost is never asked for
again, and the player goes back.

## Proofs

`SupervisorProofs` holds for any set of orders, any capacities and any bounds,
from the assumptions named in `Supervisor` (the values are distinct, the
numbers natural, at least one attempt and one place in the channel).

* `InvInductive`: `TypeOK` alone is not inductive. That failures stay within
  `max_attempts` needs that an attempt, a join or a sleep is only reached with
  fewer; that the queue to the reactor stays a queue of commands needs that the
  held command is one exactly in phase `send`. `Inv` adds both. One step per
  action; `TakesKeepInv` treats the four that take a command alike.
* `TypeCorrect`: from it.
* `Refinement`: the supervisor implements `StandingOrder`. The lemmas
  `InForceAppend`, `InForceTail` and `InForceWithout` say how appending to and
  taking from the queue changes whether an order is in force; `HandleStarts`,
  `DropStarts`, `ReactStops` and `SuperviseOrders` map groups of actions to
  `Stop`, `Give`, `Cancel`, `Resume` or a stutter.
* `CancelSafe`: `CancelStops` is an invariant of `StandingOrder` and carries
  over.
* `GoalDurable`: with `MaxDiskFaults = 0`, `disk = last_goal` always. The
  assumption is needed: a failed `clear` is the counterexample without it.
* `BackoffHolds` (`BackoffKeepsPace`): failures are counted when an attempt ends
  and the backoff doubles when the sleep is over, so the two agree only up to one
  doubling in a sleep (`Paced`). The prover knows nothing of exponents: that
  `2^(n+1)` is twice `2^n` comes from the library's count of the subsets of a set
  (`PowerDoubles`).

`EventProofs` holds for any set of events, any kinds of tags, any graces and
any bounds, with or without local menus, at a UI or driven by an agent, from
the assumptions named in `EventLifecycle` (the values are distinct, the numbers
natural, a tag waits for something).

* `InvInductive`: `ScriptStands` is not inductive by itself, as a script
  that moves on must stay the script of the same event for its entry to be the
  one that `prepare` takes. `Inv` is `TypeOK` with `Held`: a script is a script
  of some event, parked on something, and that event is owed and pinned. The
  bytecode lemmas (`RunTyped`, `StepTyped`, `MovesTyped`) say that every step
  reports the end or a script of the same event; one lemma for each piece of the
  handlers (`PrepareGood`, `ShowGood`, `DriveGood`, `FlushGood`, `ReleaseGood`,
  `BeginGood`, `CommitGood`) says that it keeps `Held`; the steps are
  compositions of the pieces. The proof for `FlushGood` is where the interlock
  of the drain shows: it may fire under a script only by the walk-away test,
  which ends the script with its event.
* `TypesHold`, `ScriptsStand`: from it.
* `PinsHaveOwners`: with `MaxOutages = 0`, `PinHasOwner`. The strengthening is
  that an open scope always has an entry in `pending_event_end`: a running
  script has one by `Held`, so only the steps after which no script runs need
  an argument, and each of them ends in `cutscene.end` or leaves both alone.
  The assumption is needed: an answer whose step cannot be sent takes the entry
  and leaves the scope open.
* `FramesAreShown`: with `Menus = FALSE` and `MaxOutages = 0`, `FrameIsShown`.
  Every outcome that parks a script on a frame shows its box, and nothing hides
  a box without moving the script. Both assumptions are needed: a local menu
  takes the box over, and an answer whose send fails runs the script on to a
  frame it does not show.
* `EventsHaveOwners`: with `MaxLost = 0` and `MaxOutages = 0`, `EventHasOwner`. A
  cancel in flight would take from the client what the server waits for, so the
  strengthening is that the trigger of that event follows every cancel in flight
  (`Fenced`). `Hands` is what each piece of the handlers is shown to do: what it
  stops to owe it puts on the wire. A lost trigger is nobody's, and the END of a
  failed send is gone.
* `TokensStand`: with `CmdCap = 0` and `MaxCancels = 0`, the event the server
  waits for is in one place: its trigger in flight, pending, automatic, or its
  END in flight. `NoStrayEnds` (`NoStrayEnd`) and `LiveScriptsKeep`
  (`LiveScriptKeepsEvent`) follow, with losses, outages and either kind of
  driver, which the run `EventsAgent` leaves out. A raw choice ends an event
  that is not its own, and an automatic end outlives a cancel: both are outside.

`MapLinkProofs` holds for any modulus above twice the lifetime of a datagram and
any bounds.

* `InvInductive`: `NothingSkipped` speaks of the datagram just accepted, so the
  invariant must say of every datagram in the air what will become of it. `Inv`
  adds `Numbers`: the client's next number lies `gap + 1` beyond the server's
  window, and a datagram whose ack is current begins beyond it and ends exactly
  `behind` before the client's next. The lemma `WindowExact` is the heart: such
  a datagram runs whole, or across the wrap not at all.
* `TypeCorrect`, `RunsWhole` (`NothingSkipped`): from it.
* `Refinement`: with `MaxStale = 0`, `MapLink` implements `Lockstep`. The
  strengthening says that the bundles applied are all that were made or all but
  the last, and that in the latter case nobody has acknowledged the last yet, so
  the server cannot go on (`Behind`); `FreshExact` that `is_fresh_bundle` takes
  exactly that one for new. With an older bundle in the air the run in the table
  above is the counterexample.

`ZoneInProofs` holds for any lines and bounds.

* `InvInductive`: `PosAwaitsZone` is about what the server has got; a position
  in flight, an ENTERZONE in a bundle, in the server's cache or in the client's
  flag are the ways to it. `Inv` says that none of them is there before the
  server took GAMEOK, and that what waits for the next answer is never an
  ENTERZONE.
* `TypeCorrect`, `PositionsWait` (`PosAwaitsZone`): from it, with losses, late
  answers and datagrams of the last zone.
* `InStepInductive`: the second layer, for the time `Clean` in which nothing is
  lost or late and no datagram of the last zone comes. Whether a request is
  served hangs on the guard, which compares its ack with the server's last
  bundle, so `InStep` says where the numbers are: those of the bundles under way
  grow from beyond what the client has read up to the server's own (`Numbered`),
  so that `is_fresh_bundle` takes them all; after the bootstrap one datagram at
  most is under way, in either direction, and one to the server acknowledges
  that last bundle (`OneUnderWay`), as a drain ends with the first bundle it
  reads (`AwaitsAnswer`). Then what was sent to a live session is served or under
  way, in order (`SentIsHeard`), and a zone line asked for, granted or answered
  is the one pending (`LineKept`). An event of the server waits to be told, is
  being told, owes its END or has it under way (`EventTold`).
* `TransitionHolds` (`TransitionInOrder`), `ViaHolds` (`ViaIsAsked`), `AsksHold`
  (`AsksOutsideEvents`): from it.
  `NothingEaten` is the step property behind `HandshakeServed`: while `Clean`, the
  guard eats nothing. That everything is served in the end needs fairness.

`ReactorProofs` holds for any mobs, either profile and any bounds.

* `InvInductive` (a lemma: one step keeps `Inv`): `CancelDisengages` speaks of
  the time when nothing is under way, so `CancelStands` says of the time before
  that no attack follows the last disengage on its way, and that without one on
  its way the server does not fight. Accepts and stale statuses still to be read
  cannot bring the battle back, as the goal is no engagement any more.
* `TypeCorrect`, `CancelWorks` (`CancelDisengages`): from it.
* `EngagedTogetherHolds` (`EngagedTogether`): the property speaks of a quiet line,
  `BattleJoined` of any. While nothing is lost, rash or denied, an engagement has
  no disengage under way and only attacks on its own mob; a mob or an attack
  stance still to be told is the battle's, or an end of it is told behind
  (`TargetsTold`, `StancesTold`); and a battle that is not the goal's has an
  attack on its way to the server or an end on its way to the reactor. Each of
  the three ways to lose the pairing (a stale report, a refusal, a death) is a
  clause of it. `JoinedKept` covers the steps that start nothing.
* `FishingInTurnHolds` (`FishingInTurn`): `Stage` lists, for each stage of the
  machine, which request of its own is under way (`Asks`: one or none), the
  server's animation byte, and which reports may still come and in which order.
  A status byte may come again at any stage; that it is never taken for the end
  of the next cast needs the order (`Before`): stances of rest come before the
  start of the cast, and after a release nothing of the fight comes behind the
  rest that ends it.

`DeliveryBoxProofs` holds for any slots, names and bounds.

* `InvInductive`: `MirrorAgrees` speaks of the time when everything is read.
  `Latest` says what a queue of answers will have made of a value at one of its
  places: the last answer that hits it decides, or it is what it was. `Faithful`
  uses it for the box (`OpenFollows`), for each cell of it (`CellsFollow`) and
  for the claim that a cell is filled only while a box is open (`FillsOpen`,
  without which a closed panel would keep slots). Cells may be wrong as long as a
  listing is due: the request is under way, or the open that will ask for it is
  (`WorkDue`). The rows of a listing then hit every cell. A lost request ends the
  claim about cells and not the one about the box.
* `TypeCorrect`, `MirrorHolds` (`MirrorAgrees`): from it.
* `NamesInductive`, `RecipientHolds` (`RecipientChecked`): the answer to a query
  carries no name, so the property hangs on which query is the only one under
  way. While names are asked for one at a time, the name asked for is that of
  the one query or of its one answer, and no change of box precedes it
  (`Asking`); a name locked is the one on the panel, unless the panel is about
  to forget it (`Renaming`).
* `TakesInductive`, `GetHolds` (`GetAfterAccept`): a Get is sent when the answer
  to an Accept is read, by which time another box may be open. While nothing is
  lost or refused (`Sure`), every Get under way, and the take the driver holds
  when the next such answer comes, has its Accept before it with no open between
  (`Covered`). With takes one at a time (`Single`) the same holds through losses
  and refusals (`Fresh`), as a request to open drops the take.
* `DrainInductive`, `DrainedHolds` (`Drained`): the sequence Open, Work, Check,
  Recv, Check has no state of its own, so the invariant says where it is: a box
  open and not drained has a request or an answer under way that leads on
  (`Draining`). A listing ends with its last row for the box that is open
  (`RowsEnd`), and a slot the client holds filled is filled at the server
  (`Held`), so that the slot a Recv names is free there too.

`AuctionProofs` holds for any items, prices and bounds.

* `InvInductive`: `ListedAsShown` is about a lot request on its way; the confirm
  before it may still be in the command channel behind other sells, or on
  screen. `Asked` says which sell the driver will hold when a place of the queue
  comes: the last sell before it, or, where there is none, the one it holds now.
  `Inv` adds that every confirm, and the panel from the moment a quote is
  awaited, is for that sell. `AskedTail` and `AskedPrefix` say how taking from
  and adding to the queue change it.
* `TypeCorrect`, `ListsAsShown` (`ListedAsShown`): from it.

`CastBarProofs` holds for any spells and bounds.

* `InvInductive`: `BarMirrors` speaks of the time when everything is read. `Alone`
  says of a spell in flight that overlapped no other that it is the only one
  asked for or cast, and that the last answer under way is a start exactly when
  the server is casting; with no answer under way the bar takes its place.
  `Owned` ties the bar to the flight and is what `BarOwned` needs.
* `TypeCorrect`, `BarIsOwned` (`BarOwned`), `MirrorHolds` (`BarMirrors`): from it.

Every invariant and action property that a run checks is a theorem; most
restrictions in their hypotheses are those of the run, and where a theorem asks
for less than its run (`NoStrayEnds`, `LiveScriptsKeep`) the text says so.

Only model-checked are the liveness properties, as fairness is beyond the
prover: `DisconnectEnds`, `TagResolves`, `PinnedIsReleased`, `FlowResumes`,
`HandshakeServed`, `LimboEnds`, `EngageSettles`, `FishingEnds`, `MenuReturns`,
`BarEnds`.

## Not modelled

Codecs, data readers, geometry, rendering, installers and scripts have no
concurrent state: most of the repository's lines. The lobby and auth clients
appear as the ways they fail. Of the modelled parts:

* keepalive loop: speech to chat, treasure;
* cast bar: cast times and elapsed time as numbers (`SelfCastProgress`), the
  refusal of an action in an event;
* map link: `net_health`'s counters, compression, the cipher;
* zone-in: what the folded packets contain. The mog house's zone-in event may
  send a tag in its first step (`mod.rs:4520`), a second datagram with the same
  ack. A LOGOUT that arrives in a drain is ignored by the code (it is handled
  only at `mod.rs:4764`), and the session ends by silence; the model has that.
  `ViaIsAsked` is checked without warps: one that comes while a MAPRECT pends is
  entered through its line;
* reactor: steering along paths, banking's walk and its RequestZoneChange, the
  zone-line trigger, the mode 5 warning, facing moves, `/assist`, mobs that come
  back into sight;
* fishing: stamina, arrows and bite parameters as numbers;
* delivery box: gil amounts, item details, and the agent's commands where the
  panel would not send them: all but `MenuOpen` and `Open` keep the panel's
  guards. `GetAfterAccept` leaves two takes at once out only when something was
  lost or refused: the driver does not compare the slot of an Accept's answer
  with the take it holds (`delivery_box.rs:158`), so a refused second Accept and
  a late first one can then pair up wrongly. The first of two parcels accepted
  at once is never fetched. A lost request is not repeated by anyone and strands
  its chain;
* auction: an item stands for its inventory slot, which is all that AhSell and
  LotIn carry (`mod.rs:3820`, `:3857`), so a slot refilled with something else
  while the player confirms is outside `ListedAsShown`; sales slots and their
  cancel, bids, the search spinner, the listing echoed to chat, an agent that
  drives AhSell without a panel. The fee shown may be another sell's, as the
  snapshot keeps the last quote.

## Plan

1. `ZoneIn`: the step properties behind `LimboEnds`, as `NothingEaten` is that
   behind `HandshakeServed`.
2. `Auction`: sales slots, cancel and bids beside the sell.
3. `Folder`: the broadcast channel and what a lagging receiver shows.
4. `ZoneIn` above `MapLink`: the handshake under copies and overtaking.
