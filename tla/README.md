# TOFV in TLA+

TLA+ models of TOFV: the desktop application's connection controller, the session it
runs, the root helper that becomes `openfortivpn`, the reader of `openfortivpn`'s
output, the profile that several programs change, the life of these programs beside
each other, and what a connect needs to reach a tunnel. TLC checks them on small
instances; TLAPS proves every safety property that they check, for any number of
threads, processes, lines and clients, and for texts of every length.

Paths in this file are relative to the repository.

## The system

| Part | Source | State it keeps | Operations | Hard because of |
|---|---|---|---|---|
| Connection controller | `src-tauri/src/main.rs` | `AppState`: status, last error, fingerprint to trust, pending code, `cert_probe`, the running session | `begin_connect`, `connect`, `disconnect_cmd`, `trust_cert`, `save_profile`, `start_session`, `apply_outcome`, the poller, launch, Quit | four kinds of thread that take seven separate mutexes one at a time |
| Session runner | `crates/tofv-core/src/runner.rs` | child, two reader threads, `ParseState`, the session's files | spawn, snapshot, try_wait, terminate, drop, disconnect | joins under a lock, a child that belongs to root |
| Session files | `session.rs` | `default.conf` with the one-time code | create, unlink on drop | every session uses the same path |
| Pinentry socket | `pinentry_socket.rs`, `crates/pinentry-tofv` | `pinentry.sock`, one thread | bind, serve, shut down | the thread leaves when *the path* is gone, not when *its* socket is |
| Output parser | `parse.rs` | none | recognise lines | facts spread over lines, two pipes |
| Privileged helper | `crates/tofv-helper` | `/run/tofv/<uid>/vpn.pid`, `session.conf` | start, stop | processes without a lock, check-then-act |
| Tunnel search | `crates/tofv-scan`, `live.rs` | none | `find_session` | zombies, stale pid file |
| Code form | `ui/src/otp.ts`, `ui/src/main.ts` | hidden, open or busy | send, cancel, follow `tofv://status` | decides when a second code can be sent |
| Single instance | `src-tauri/src/singleton.rs` | `app.sock` | claim, serve | check-then-act between two launches, a dead socket after a crash |
| Profile store | `profile.rs`, `paths.rs` | `profiles/default.toml` and its temporary file | load, validate, change, save | read-modify-write without a lock, shared with `tofv` |
| Command line tool | `bin/tofv.rs` | a session of its own | connect, Ctrl-C, disconnect, profile, trust | the app's files, and no lock between them |
| Keyring | `secret.rs` | the password | get, set, delete | changes while a connect is on its way |
| Gate and planning | `doctor.rs`, `paths.rs`, `command.rs` | none | look for programs, refuse | three programs look in different places |
| Config and its validation | `openfortivpn_conf.rs`, `validate.rs` | none | render, accept | two grammars written apart |
| Redaction, log tails, packaging | `redact.rs`, `log.ts`, `packaging/` | what is shown | | |

How they interact: a Tauri command runs on the main thread. `connect` resets the notes
of the last attempt and starts a thread that runs `start_session`, which writes the
config, binds the pinentry socket, spawns `pkexec tofv-helper start` and puts the
`RunningConnect` into `AppState.running`. The helper validates the config, refuses if
it finds a tunnel, copies the config and execs `openfortivpn`, which asks the pinentry
socket for the password. The poller looks into the slot every 200 ms, reports that the
tunnel is up, and when the child has ended takes the session out and applies its
outcome; a rejected certificate pin makes it start one more session without the pin.
`disconnect_cmd` takes the session out and starts a thread that stops it through
`tofv-helper stop`.

What makes the parts correct:

* controller: each session is opened, run and closed once; the poller takes out only
  sessions that are over; a rejected pin does not make the app reconnect for ever; a
  request to the user is not overwritten; Connecting and Disconnecting end; a lost
  tunnel is noticed; what was cancelled stays cancelled; the lock is given back;
* session: it keeps its socket and config while its child lives, the config with the
  code is unlinked, the pinentry thread leaves;
* helper: one tunnel; a stop ends it and removes its files; the copy of the code goes;
* parser: the outcome is what the output says, and nothing printed is missed;
* profile: it stays one whole profile, a change alters what it was asked to, and what
  is reported is stored;
* programs: one app that can be reached, which adopts a tunnel it did not start,
  notices its loss and stops it at Quit; no program signals a pid that is not its
  session's, and no config stays behind, whoever removes whose files;
* a connect: what passes the gate starts, what the profile's checks accept the helper
  accepts, config and password arrive as they are.

## Modules

| Module | What it is |
|---|---|
| `SessionController` | the controller, the session's life and the pinentry thread |
| `SessionLife` | what the controller promises of a session, abstractly |
| `SessionController_proofs` | its invariance proofs, and that it implements `SessionLife` |
| `MCSessionController` | its small instances (`MCOverlap`, `MCOneCode`, `MCFreeze`, `MCClosed`) |
| `VpnHelper` | concurrent `tofv-helper start` and `stop`, and `find_session` |
| `VpnHelper_proofs` | its invariance proofs |
| `MCVpnHelper` | its small instances (`MCHelper`, `MCHelperTwo`, `MCHelperCode`) |
| `LogParser` | pipes, readers, `ParseState`, `classify` (`MCLogParser`, `MCLogRace`) |
| `LogParser_proofs` | its invariance proofs |
| `AppLifecycle` | launches of the app, runs of `tofv`, and the tunnels that outlive them |
| `AppLifecycle_proofs` | its invariance proofs |
| `MCAppLifecycle` | its small instance |
| `ProfileStore` | the profile file and everything that changes it |
| `ProfileStore_proofs` | its invariance proofs and those of its action properties |
| `MCProfileStore` | its small instance |
| `SessionLaunch` | one connect, from the gate to the password that openfortivpn gets |
| `SessionLaunch_proofs` | its invariance proofs, and what the percent codings do |
| `ConfigGrammar` | operators: profile checks, rendered config, the helper's validation |
| `ConfigGrammar_proofs` | lemmas about texts, and what the helper accepts of what is rendered |
| `Prerequisites` | operators: the doctor, the start and the helper looking for programs |
| `MCSessionLaunch` | the machines, profiles, passwords and clients of its run |

`SessionLaunch` composes `ConfigGrammar` and `Prerequisites` (which have no state).
`SessionController`, `VpnHelper`, `AppLifecycle` and `SessionLaunch` look at the same
session from four sides: the threads of the app, the processes of root, the programs
of the user, and the way of one connect. Each has the others' parts as single steps.

### SessionController

State: `status`, `lastError`, `needCert`, `pendingOtp`, `certProbe` and `slot` are the
fields of `AppState`. `lock` says who keeps `AppState.running` locked *across* steps;
a step that locks and unlocks within itself only requires that nobody does. `mainPc`,
`startPc`, `discPc`, `pollPc` are the places of the threads. An element of `Attempt` is
both a thread that runs `start_session` and the session it makes; an element of
`Disconnect` is a thread of `disconnect_cmd`. `hold` is the `RunningConnect` a thread
took and has not dropped. `proc`, `up`, `server`, `sock` and `conf` are the child, the
fact that it printed the "up" line, the pinentry thread, and the two shared paths.
Threads that have not been started are alike, so the next one to start is always the same
(`IsNext`); what would be symmetric behaviours is one.

A handler is cut where it gives up a lock or reads something it later acts on:

| Code | Actions |
|---|---|
| `begin_connect_inner` | `BeginConnect` (status), `BeginProbe` (`/proc`, prerequisites), `AdoptLive` |
| `connect` | `Connect` (slot is empty), `ConnectProbe`, `ConnectAccept` (Connecting), `ConnectReset`, `ConnectCommit` (pending code, thread) |
| `disconnect_cmd` | `DisconnectTake`, `DisconnectEmit`; its thread `DiscTerminate`, `DiscDrop`, `DiscJoin`, `DiscKill`, `DiscIdle` |
| `trust_cert`, `save_profile` | `TrustCert`, `SaveProfile` |
| `start_session`, `spawn_connect` | `StartRefused`, `CreateFiles`, `BindSocket`, `SpawnChild`, `SpawnUnwind`, `StartFailed`, `StoreSession`, `StoreJoin` |
| poller, `apply_outcome` | `PollLock`, `PollEmitUp`, `PollTryWait`, `PollTake`, `PollJoin`, `ApplyOutcome`, `RetryUnpinned`, `RetryWithoutCode`, `OutcomeEmit`, `OutcomeError`, `PollStatus`, `PollProbe`, `PollReport` |
| pinentry thread | `ServerExit` |
| the elevated child | `HelperStart`, `HelperRefuses`, `HelperExec`, `VpnAuth`, `VpnUp`, `VpnExit` |

Dropping a `RunningConnect` is two steps: `DropBegin` removes the socket path, and
`DropEnd` waits for the pinentry thread and then unlinks the config. The drop runs
under the slot lock in the poller (`PollTake`, `PollJoin`) and in `start_session` when
it overwrites an older session (`StoreSession`, `StoreJoin`), and without it in the
thread of `disconnect_cmd`.

Abstractions. Which code, password, host or fingerprint it is does not matter to these
properties; there is one or none. `StartFailed` writes the error and emits Error in
one step. A status event reaches the form at once. The helper appears as what the app
can see of it. `try_wait` never fails. Commands that only read are left out. The user
who hides the form without sending does nothing but restrict what can follow, and is
left out.

`SessionLife` is the view of someone who only cares where a session is: not begun,
opening, running, closing or closed, and whether its password is served. `LifeOf` is
the refinement mapping: a session is opening until `start_session` stored it, running
while it is in the slot, closing while a thread that took it out drops it, closed
after that. The promise is that a session goes through these once and in order, that
one runs at a time, and that nobody serves the password of a closed one.

Two codes make sessions overlap, and then they take each other's files and slot (`freeze`
shows one consequence). Three properties are therefore about one code and its retries
(`OneCode`), which the user may cancel at any time. `OneSession`: no start is under way
while a child is. `PollTakesEnded`: the poller unlocks the slot between `try_wait` and
`take`, a cancel may empty it in between, and the start of a retry may fill it; what it
takes out is a session that is over all the same, because the retry is started only after
the take. With a second code in that window it does take out a live session, which nothing
in the code or its docs excludes. `FilesStay` also excludes a cancel (`NoCancel`): as
long as its child lives, a session has its own socket and config at the common paths, so
whatever was dropped before a retry was dropped completely.

### VpnHelper

An element of `Start` is one invocation of `tofv-helper start` and, since exec keeps
it, the pid. `proc` is what `/proc` says of it; `dropped` says that the app let the
session go without reaping this child, so that a zombie stays. `find_session` is one
step. `write_root_file` is two, remove and create, since another start may come in
between. A stop interrupts what it found, looks for at most two seconds whether
`/proc/<pid>` is gone, then kills, then wipes the files. Two ghost variables record
what a start saw when it looked (`checked`) and whose config a tunnel has read
(`confOf`). A pid that another program gets after reaping is not modelled.

### LogParser

A line is what `parse.rs` recognises in it: the tunnel is up, a rejected code, a
failed validation, a trusted digest, a fingerprint, nothing, or not UTF-8. The child
prints anything to either pipe as long as the pipe has room. A reader takes a line,
feeds `ParseState` and goes on; a line it cannot decode ends it and closes the pipe.
`TryWait` joins both readers and classifies. `seen`, `printed` and `firstFact` are
ghost variables.

### AppLifecycle

A program is a launch of the app or a run of `tofv connect` or `tofv disconnect`; each
makes at most one session, so that the session, its child and the pid have its name.
`prog` says where a program is, `slot` how far its session, `vpn` what its child is, down
to the zombie that an unreaped child leaves and the pid that is free. `sock`, `conf`,
`pidFile` and `rootPid` are `app.sock`, `default.conf`, `session.pid` and the helper's
`vpn.pid`, each as whose it is. `reaped` has the apps whose poller is between `try_wait`
and `take`. `work` is where each tear-down is (the thread of Disconnect, the main thread
at Quit, a command line), `target` the pid that it has read from `session.pid`. The status
"waits" stands for all those that the poller leaves alone. Ghosts: `overlapped` are the
launches that claimed the socket while another one did, `raced` the children that were
between the helper's look and its exec while another one was, `was` the tunnels that ran
when Quit was chosen and still do, `refused` the launches whose last request to stop
polkit refused.

| Code | Actions |
|---|---|
| `singleton::claim` | `Claim` (ask whoever is there), `RemoveSocket`, `Bind` (with `setup` and `adopt_live_tunnel`) |
| `connect`, `start_session`, `spawn_connect` | `Connect`, `WriteConfig`, `SpawnChild`, `WritePid`, `StoreSession`; `SpawnFails` |
| the poller | `PollTryWait` (the child is up, or reaped; the lock is given up), `PollTake` (the drop), `PollProbe` (no session) |
| `disconnect_cmd`, Quit, `ExitRequested` | `Disconnect`, `Quit`, `ExitRequested`, then the tear-down, at last `EndQuit` |
| `terminate`, drop, `disconnect` of `runner.rs` | `AskHelper`, `Signal`, `Wait`, `DropTaken`; `AskHelper`, `ReadPid`, `AskHelper`, `Signal`, `Unlink` |
| `tofv connect`, `tofv disconnect` | `WriteConfig` and on, `CliTryWait`, `CliDrop`, `CtrlC`; `TofvDisconnect` |
| helper and child | `HelperLook`, `HelperExec`, `StartFails`, `VpnEnds` |
| SIGKILL | `Crash` |

Every look at a file or process that is acted on later is a step of its own: two
launches race for the socket, two starts race in the helper, a program writes or removes
`default.conf` between another's write and spawn, and a pid may be freed between the read
of `session.pid` and the signal. The properties do not assume these away; they say what
holds all the same. `OneReachableApp` speaks of each launch that claimed alone, whatever
the others did. `QuitStops` leaves out tunnels of starts that raced, of which a stop ends
one, and a refused stop; a session at its prompt is no tunnel. `PidFileTrue` names the two
windows in which `session.pid` names a freed pid: between the reaping and the end of the
drop, and after a program that died or quit without dropping its session. `CodeNotLeft` says that whoever's
`default.conf` it is, that session has not ended. `LossNoticed` names two cases in which
an app goes on showing a tunnel that is over: a child of its own is on its way, at which
the poller stops looking; and `vpn.pid` names a zombie (`ZombieNamed`).

Abstractions. A helper stop is one step, which polkit may refuse (what races within it is
`VpnHelper`'s). The pinentry socket is `SessionController`'s. `sudo` in place of `pkexec`
is left out: the app never uses it unless `config.toml` says so.

### ProfileStore

A `Writer` is one change: a submission of the form, an answer to the certificate
dialogue, or a run of `tofv profile set` or `tofv trust`. The commands of the app
exclude each other on the main thread; nothing else does. A change loads
(`SubmitForm`, `TrustCert`, `SetFields`), is refused (`Refuse`), or opens and truncates
the temporary file, writes and renames (`OpenTmp`, `WriteBody`, `RenameTmp`), any of
which may fail or be killed. An open file follows a rename (`handle`), so that a
change may write to what is the profile by then. `behind` and `shared` are ghosts: who
knows an older profile than the stored one, and whether two changes ever had the
temporary file open together. The three properties say what holds as long as they did
not: the file is whole, fields that were not given keep their value, and what is
reported is what is stored. With `shared` each of them can fail, which the code accepts
by having no lock.

### SessionLaunch

`BeginConnect` is the gate before the user is asked for a code: doctor, profile,
password. `SavePassword` and `ClearPassword` come in between. `StartSession` is the
start with the refusals of `plan` in their order, `HelperStart` the helper's checks.
`Accept`, `AcceptNobody`, `Handle` and `Look` are the loop of the pinentry thread,
`GetPin`, `Answer` and `GiveUp` are `pinentry-tofv`; other clients connect, say GET,
something else or nothing, and a peer with a foreign uid is refused. `DropBegin` and
`DropEnd` are the drop of the session around the join.

Strings are sequences of kinds of characters (`Text`; "SP" is any blank within a line,
"byte" any byte that is not ASCII), and the conversions between keyring,
socket, `pinentry-tofv` and `openfortivpn` are functions on them. `HelperWillTake`
describes, in terms of the profile, which profiles the helper takes: narrower than what
`validate_ready` admits, so that a username with a blank or a host with another letter
passes the gate and is refused by root after the prompt. `PasswordArrives` says what the
code does with blanks at the end of a password: they are lost.

## Runs

Deadlock is not checked: in every model the user sends finitely many codes, threads
and processes end, and the system may then rest.

| Run | Instance | Result |
|---|---|---|
| `overlap` | 2 start threads, 1 disconnect, 2 codes, window form | type, every serving pinentry thread owned, requests not overwritten, inductive invariant, `SessionLife` implemented (750 000 states) |
| `one_code` | 3 start threads, 1 disconnect, 1 code, panel modal, fairness (42 000 states) | retries are bounded by accepted codes, one session at a time, which keeps its files, the poller takes out only ended sessions, Connecting and Disconnecting end, loss is noticed, config unlinked |
| `freeze` | 2 start threads, 1 disconnect, 2 codes, fairness | **violated**: the slot lock may never be given back |
| `closed` | 2 start threads, 1 disconnect, 1 code | **violated**: a cancelled start goes on |
| `helper` | 3 starts, 2 stops | a tunnel that was seen is safe, a stop is effective and cleans up |
| `helper_two` | 3 starts, 1 stop | **violated**: two tunnels |
| `helper_code` | 1 start, 1 stop, fairness | **violated**: `session.conf` stays after openfortivpn exits by itself |
| `log` | window 2, pipes of 2 lines, 4 lines | outcome right, rotation found, nothing unread, outcome comes |
| `profile` | one form, one dialogue, one command line; 2 fields, 3 values (180 000 states) | the file is whole, other fields are kept, reports are true |
| `app` | 2 launches, 1 command line, 2 sessions, 1 tear-down at a time, fairness (380 000 states) | a launch that claims alone is reachable, Quit stops, `session.pid` and `default.conf` name no ended session but in the named windows, tunnels are adopted and their loss is noticed |
| `launch` | 1100 machines, 1600 profiles, 400 passwords, or other clients; fairness (350 000 states) | the gate is sound, the helper agrees, config and password arrive, the pinentry thread ends |
| `log_race` | window 2, 2 lines | **violated**: a tunnel that came up is not `ExitedAfterUp` |

Bounds. The races of the controller are between one session that is going away and
one that is being made, which two start threads and a disconnect give. In `one_code`
the three threads are the code, its retry, and the second retry that `RetriesBounded`
forbids; the disconnect cancels any of them at any step. `Pins = {TRUE}` takes the
profile with a pin, which has the longer behaviours. `FallbackModal` chooses between
the two forms for the code. The window, in which a second code can be sent when the first
one was cancelled or had its outcome, is used where sessions overlap; the modal, which
stays open after sending and lets the user send again at once, has three times the states
there and is left to the proofs, which are for both. For the helper, three starts give one that runs, one that has
looked, and one between removing and creating a file; two stops can find the same
tunnel. In the parser a window of two lines is the smallest in which a line can leave
the window between two that belong together, four lines are enough to fill a pipe or
to go past the window with a fact before, in and after it. The order of
the lines is free. In `LogParser` a "trusted" line may be evicted while the fingerprint stays;
`OutcomeRight` therefore speaks of "exactly if" only when no line says trusted.

In `profile` each kind of change occurs once: two of them give every race, the third
one comes after it. `ValueSymmetry` is sound since values are only compared. In `app`
`Casts <- Pairs` runs an app beside a `tofv` command, each with a session, or two
launches, of which one makes a session that the other may adopt: each pair of kinds of
program, and every race is between two. `MaxStops = 1` is one tear-down under way at a
time; those of one program come one after the other, and each interleaves with the
poller, the starts, the children and the crashes of both. In `launch` one thing varies at
a time: texts up to three characters of eight kinds (a blank or an end of line before,
within and after), passwords up to three of seven kinds (`%` followed by digits that
look like a code), every set of directories for one group of programs, or two clients
of the user and a foreign one with `MaxServes = 2` in place of 8.

Fairness. Every thread and process is scheduled (weak fairness of its steps).
`StoreSession` waits for the slot lock, which the poller takes and gives back every
200 ms; it is free for nearly all that time, which is strong fairness of the waiter.
The elevated child makes progress until the tunnel is up (polkit answers or gives up,
`openfortivpn` connects or gives up), which `Settles` needs; nothing makes it end
after that. Nothing is assumed of the user. In `AppLifecycle` the main thread of a launch starts
the app, its poller and the loop of `run_live` never stop, and a start that has spawned
its child writes the pid and stores the session; nobody has to answer polkit, and no
session has to be begun or ended. In `SessionLaunch` the
pinentry thread runs, and its reads end after five seconds (`pinentry_socket.rs:182`).
In `LogParser` nothing makes the child
print or exit; in `VpnHelper` nothing makes a tunnel end.

### What the violated runs show

* `freeze`: `RunningConnect::drop` must never wait ("a blocking wait freezes the GUI",
  `runner.rs:307`), and does: it joins the pinentry thread, which looks whether *a*
  socket is at the shared path. The trace: a connect whose start is slow (a locked
  keyring), a cancel, a second connect that is accepted because the slot is still
  empty; the first session is stored, its child is refused, the poller drops it under
  the lock, and the second start binds the path before the first thread looks again.
* `closed`: the cancel in that trace reports "session closed" although the start it
  meant is still on its way, and that start asks for elevation afterwards.
* `helper_two`: both starts look before either runs `openfortivpn`. This is the only way:
  `OneTunnelUnlessRace`.
* `helper_code`: only `stop` removes the helper's copy of the config.
* `log_race`: the "up" line is on one pipe, a later "permission denied" on the other,
  and the second reader is faster. With one pipe it cannot be: `UpThenExitedUnlessRace`.

## Proofs

`SessionController_proofs` proves, for any finite set of start and disconnect threads,
any number of codes and both forms, `Spec => []IInv`, and from it `TypeOK`,
`ServerHasOwner`, `RetriesBounded`, `RequestsStay` and `FilesStay`.
The assumption is `ThreadAssumption`: the threads are distinct, finitely many (the
retries are counted), and the bounds are of their type.

That every serving thread has an owner rests on a session being in one place, with a
thread or in the slot (`OneOwner`), which Rust's moves guarantee, and which the invariant
has to say. It needs to know that a thread holds a session
exactly in the steps between taking and dropping it, and that the lock is kept across
steps exactly by the poller in its slot and by whoever waits for a pinentry thread
under it (`LocksAndHolds`); that a session that is not bound has no server
(`ServersStartBound`). `RetriesBounded` needs `RetryLeft`: as long as `cert_probe` is
clear and a code was accepted, one retry is left, since each `connect` adds one before
clearing the flag and each retry sets it. The step lemma of each part has one case for
every action that touches its variables; the rest are covered by a frame lemma.

`OneSession` and `PollTakesEnded` do not hold of the controller as such: a second code
makes sessions overlap (`freeze`). They are proved under `OneCode`: at most one code was
sent up to now, with any number of retries and cancels. The run `one_code` has this in its
constants, the theorems have it as a hypothesis on the states: `OneSessionAtATime` is
`Spec => [](OneCode => OneSession)`, `OnlyEndedTaken` is `Spec /\ []OneCode =>
PollTakesEnded`. Codes and cancels are only ever added, so that a state with `OneCode` has
only such states before it. The inductive part is `OneBusy`: all that is under way of
sessions is of one of them, where a retry begins only after the session before it was
taken out, by the poller or by a cancel, with its child ended; and a child is of a start
that got as far as the spawn (`ChildAfterStart`).

`JoinsEndUnlessOverlap` says, for one code that nobody cancels (`OneCode /\ NoCancel`),
what keeps the lock from being lost as in `freeze`, as far as safety goes (`WaitsEnd`): a
pinentry thread that the poller or a failed spawn waits for has ended or finds its socket
gone, and no session is stored over another. It rests on `OneBusy`, by which nobody is
about to bind the path again while one waits, and on `SessionsServed`: whoever has a
session has a pinentry thread of it. That the wait does end is then fairness, which is
model-checked (`Settles`). `FilesStayHeld` proves `FilesStay` from the same parts and
`FilesHeld`: a start has its config before it binds, both paths from then on until it
drops them, and no drop of another session is left that could remove them.

`ImplementsSessionLife` proves that the controller implements `SessionLife`
(`SessionsFollowLife`): with the invariant, every step that changes where a session is
is one step of it, and all others stutter. The step that matters is the end of a drop,
which may only close a session whose pinentry thread has ended.

`VpnHelper_proofs` proves `Spec => []HelperInv`, and from it `TypeOK`, `SeenTunnelIsSafe`,
`StoppedIsDown` and `StopCleansUp`, for any number of starts and stops. What makes it
inductive: the place of a start tells what runs under its pid, so that a stop's target
stays past exec (`StagesAgree`); and a start has written nothing before it gets there,
nothing at all if it saw a tunnel (`Unwritten`). `StopCleansUp` holds for good because
a start writes its files before it becomes a tunnel that a stop can find.
`OneTunnelUnlessRace` is `Spec /\ []OneLooks => []OneTunnel`, where `OneLooks` says that no
two starts are between their look and their `openfortivpn` at once: the search is good
enough, also with a stale `vpn.pid`, and only what comes between the look and the exec is
not. Its invariant is that whoever has looked is alone with the tunnels (`TunnelAlone`).

`LogParser_proofs` proves, for any window, pipes and number of lines,
`Spec => []ParserInv`, and from it `TypeOK`, `OutcomeRight`, `RotationFound` and
`NothingUnread`. The properties speak of everything that was read, the code keeps a
window and four flags; `ParserInv` says what these know. Each flag is what the connect
phase said (`FlagsKnow`); until the tunnel is up the window is the end of what was read,
as long as it can be (`WindowRemembers`); so the line that completes an error and a
fingerprint within a window finds both there (`RotationKnown`). A line printed was read
or is in a pipe, and a reader that reached the end left none (`NothingLost`); there is
no reader left once there is an outcome, so that the flags it was made of do not change
(`OutcomeStays`). The lemmas under "Logs" say what one more line does to a log and to
its prefixes; no step needs an induction over it, since `ConnectPhase` and the window
are described by their indices. `UpThenExitedUnlessRace` proves `UpThenExited` as long as the
child prints to one pipe only: what was printed before the "up" line is read before it,
or the line is still in the pipe with nothing of interest before it (`UpIsFirst`).

`ProfileStore_proofs` proves, for any changes, fields and values, `Spec => []StoreInv`,
and from it `FileWhole`, `OmittedKept` and `StoredAsReported`. `StoreInv` adds to the
types and `FileWhole`: as long as nobody shared the temporary file, it belongs to the
one change that is writing and holds nothing or what that change wants (`TmpIsMine`);
and whoever is not behind agrees with the stored profile in all fields it does not
change (`NotBehind`). The assumptions are that the kinds of change are disjoint, that
`Cert` is a field, and that a torn, an empty and a missing file are not profiles.

`AppLifecycle_proofs` proves, for any launches, command lines, casts and number of
tear-downs, `Spec => []AppInv`, and from it `TypeOK`, `OneReachableApp`, `QuitStops`,
`PidFileTrue` and `CodeNotLeft`, assuming that launches, command lines and their threads
are different things. No theorem assumes that programs do not race. What makes the
properties inductive: a launch that claimed alone is alone until its listener is bound,
and what runs besides it was not (`OneClaims`); a session and its child are made once, and
a file names a session that has not been dropped (`Made`); whoever ends a session is alone
with it (`OneEnds`), and a pid is freed only by whoever does (`GoneEnds`), which is why
`PidFileTrue` has to name no other window; a tunnel that nobody raced in the helper is
the only one, and `vpn.pid` does not hide it behind a zombie, so that a stop that is not
refused stops it (`Alone`); and a tear-down that has had its first answer from the helper
without a refusal has stopped what ran when Quit was chosen (`QuitKnows`).

`ConfigGrammar_proofs` proves what the two grammars of the config have to do with each
other, for texts of every length: what `Render` writes of a profile that passed
`validate_ready` is a text whose pairs are the profile's fields (`PairsOfRender`), and
the helper accepts it exactly if the host, the names and the pin are as it wants them
(`AcceptsIs`). The lemmas before these say what `Trim` leaves of a text, how the lines of
two texts that are written one after the other are the lines of both, and which pairs a
line is. Lines, first and last positions are described by indices; a least index is had
from `LeastOf`, so that no lemma needs an induction theorem of the library.

`SessionLaunch_proofs` proves, for any cases, any clients and any cap, `Spec => []Known`
(`IInv`, and that the case is one of `Cases`), and from it `TypeOK`, `GateSound`,
`HelperAgrees`, `FieldsArrive` and `PasswordArrives`. The parts of `IInv` are at the end
of `SessionLaunch`; TLC finds no state of the instance of `launch` that violates one of
them. What passed the gate stays so but for a removed password (`GateHeld`); each stage
of a session has its files, its thread and its password (`Staged`); the helper has seen
this config (`HelperLooked`); the clients in the queue wait and none is there twice
(`QueueWaits`); the thread has counted no more requests than are over (`Counted`), so that
`pinentry-tofv` is refused only after `MaxServes` others; and what it can read is what
became of its request (`ReplyFits`). `PasswordArrives` then rests on `FetchedReply`: of
the line that `handle_client` writes, `pinentry-tofv` and `openfortivpn` get the password
without the blanks at its end. `Encode` and `Decode` are recursive functions over the
length of a text. What they are of a text that is one character longer comes from
`RecursionOn`, which proves once, for a set of rules, that a function defined from below
exists and satisfies its equation; `TextInduction` is induction over texts for a set of
texts in place of a predicate.

`LaunchAssumption` is what these proofs assume: profiles and passwords are texts; a
password that the user saves does not end in an end of line, since `read_secret_stdin`
(`bin/tofv.rs:305`) takes it off and the panel's field is one line, whereas one that is
in the keyring already may; the clients are finitely many, and of one kind each.

Only model-checked: everything with fairness (`Settles`, `LossNoticed`,
`CodeUnlinked`, `OutcomeComes`, `Adopted`, `PinentryEnds`), which the prover does not
reach. That `Trim`, `Lookup`, `TrimEnd` and the codings are what the code's functions do
is by reading; the proofs are about the model's.

## Plan

Done: everything above. What remains, in order:

1. `TunnelSession`: what the user is told of a session (asked, connecting, up, over)
   against what its child does, as an abstract specification that `SessionController`
   without overlaps implements.
2. Which code a retry uses: `pending_otp` carries one code or none in the model, so
   that a code left by an earlier attempt (`main.rs:474`) cannot be told from the last.

## Not modelled

Redaction and the log tails, which affect only what is shown; the tray's icons and the
windows; packaging. `RunningConnect::wait`, which only tests call. The owner, size and
mode of the config the helper reads (`read_config_checked`), which the app always
writes as the helper wants them. Pids that are used again by other programs, and
`openfortivpn` processes that were not started through the helper. The `sudo` way of
starting in `AppLifecycle`.
