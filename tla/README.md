# TLA+ models of rpc-go

`rpc-go` (Remote Provisioning Client) runs on a PC with Intel AMT. It talks to
the management engine of that PC, either directly over HECI/PTHI, through the
Local Manageability Service (LMS, a TCP port on localhost) or, when LMS is not
installed, through its own LME transport (APF over HECI), and it activates,
configures and deactivates AMT, on its own or as the relay of a Remote
Provisioning Server (RPS) it reaches over a WebSocket.

This directory holds TLA+ modules that model the program, the TLC
configurations that check them on small instances and the theorems TLAPS proves
for all instances.

## Inventory

| Component | State | Operations | What is hard | What makes it correct |
|---|---|---|---|---|
| RPS session (`internal/rps/executor.go`, `rps.go`) | the WebSocket, its reader's channel, the interrupt channel, the channels `data` and `errors` shared with the transport | `NewExecutor`, `MakeItSo`, `HandleDataFromRPS`, `HandleDataFromLM`, `HandleInterrupt` | three goroutines, channels closed by one side and sent on by the other, a field shared without a lock, a lost link, interrupts | answers go to the request they belong to, at most once; no goroutine is left over; the session ends |
| LMS connection (`internal/lm/service.go`) | `Connection` | `Connect`, `Send`, `Close`, `Listen` | one listener goroutine per request, deadlines, a close racing a read | the listener never outlives its request and never meets a nil connection or a closed channel |
| LME connection (`internal/lm/engine.go`) | the APF session, its timer, the wait group, the retry counter | `Initialize`, `Connect`, `Send`, `execute`, `Listen`, `Close` | the wait group across retries, the timer that hands the data over, readers that outlive their request | a payload goes out on the channel opened for it, one hand-over per request, the counter of the wait group matches the confirmations |
| Local WSMAN transport (`internal/local/amt/localTransport.go`) | one LME connection | `RoundTrip` | the same connection under a synchronous caller | `RoundTrip` returns AMT's answer to its own request |
| Profile orchestrator (`internal/orchestrator`) | the profile, the current password, the cached control mode | `ExecuteProfile` and one step per section of the profile | stopping at the first error, password fallback, a cached mode | success means everything asked for is in effect; nothing after the first error; bounded prompting; no rotation on a device that is not activated |
| Activation (`internal/commands/activate`) | the control mode of the device, the local system account | CCM, ACM (legacy, TLS), remote | several device calls that must all succeed, roll back when one fails | what is reported as done is done; a failure leaves the mode as it was |
| Deactivation (`internal/commands/deactivate.go`) | the same | local, remote | which path a mode and a password lead to | success means the device is no longer activated |
| Configure commands (`internal/commands/configure`) | objects on the device: TLS settings, certificates, keys, Wi-Fi and wired profiles, CIRA, proxies, features, passwords, clock, host name | one command each | order of deletions and additions, leftovers after a failed step, calls that are skipped by what was read before | no certificate in use is deleted; TLS is not enabled without a credential; a failed step leaves nothing half done; success means that the device holds what was asked for |
| Command base (`internal/commands/base.go`), command line (`internal/cli`, `cmd/rpc`) | control mode, whether TLS is enforced, password, WSMAN client | `rpcExec`, `Parse`, `AfterApply`, `ExecuteWithAMT`, `EnsureAMTPassword`, `EnsureWSMAN` | bounded retries, errors that are dropped, a mode that is read long before it is used | the mode a command acts on is the device's; every call returns |
| AMT commands, PTHI, HECI (`pkg/amt`, `pkg/pthi`, `pkg/heci`) | the driver handle, replies that nobody has read | one request and one reply per call; a version is asked for again, hashes one after the other | a reply carries nothing that is looked at; failed reads and late writes leave a reply on the handle | a reply answers the request it is taken for; the handle is closed on every path |
| Information (`internal/commands/amtinfo.go`) | the results so far | one section after the other, `SyncDeviceInfo` | sections that need earlier ones, failures that are left out | it ends, and changes nothing |
| Profile fetcher (`internal/profile`) | a token | `FetchProfile`, `LoadProfile` | two login endpoints, replies that are no profile | a failure ends the command before the device is touched |
| Certificates, utilities | none that outlives a call | | | |

Everything that is left out is listed in `PROJECT.json` with the reason.

How they interact: `cmd/rpc` parses a command line and runs one command. Remote
commands build an `Executor`, whose main loop passes messages between the
WebSocket and one of the two transports through the channels `e.data` and
`e.errors`. Local commands call the device through PTHI (`pkg/amt`) and through
the WSMAN client, whose HTTP transport is LMS or `LocalTransport` over LME. The
orchestrator runs the other commands as child processes, one after the other.
All of them share only the device.

## Modules

| Module | Models | Extends or instantiates |
|---|---|---|
| `RpsLink` | the WebSocket and the goroutine that reads it (`rps.go`) | |
| `RpsSession` | the main goroutine of a session (`executor.go`), without a transport | `RpsLink` |
| `RelayLms` | a session over LMS (`executor.go`, `service.go`) | `RpsSession`, `Relay` |
| `LmeChannel` | the APF channel and the goroutines of `engine.go` | |
| `RelayLme` | a session over LME | `RpsSession`, `LmeChannel`, `Relay` |
| `LocalTransport` | `RoundTrip` over LME (`localTransport.go`) | `LmeChannel` |
| `Relay` | abstract: what a session promises to RPS | |
| `Orchestrator` | getting a profile and `ExecuteProfile` | |
| `Activation` | local activation and deactivation | |
| `CertStore` | certificates, keys, profiles and the TLS context on the device (`internal/certs`) | |
| `ConfigureProcess` | what the configure commands share: the process, `PruneCerts`, `ConfigureIEEE8021xCertificates` | `CertStore` |
| `ConfigureNetwork` | `configure wireless` and `wired` | `ConfigureProcess` |
| `ConfigureTls`, `ConfigureCira` | `configure tls`, `configure cira` | `ConfigureProcess` |
| `Configure` | one configure command after the other | the three above |
| `HeciDriver` | one request over the HECI driver, on Linux and Windows (`pkg/pthi`, `pkg/heci`) | |
| `AmtHost` | the operations of `amt.AMTCommand` (`pkg/amt`) | `HeciDriver` |
| `HostProcess` | what every local command does before its own `Run`, and its WSMAN calls | `AmtHost` |
| `AmtInfo` | `amtinfo` | `HostProcess` |
| `ConfigureObjects` | the configure commands that change one object, and `deactivate --local` | `HostProcess` |
| `HostCommand` | one call of `rpc`, from entry to return | the two above |
| `MCHostCommand` | the platforms and devices of its run | `HostCommand` |
| `RelayLmsProofs`, `OrchestratorProofs`, `ActivationProofs`, `ConfigureProofs` | theorems | the module each is named after, `TLAPS` |
| `RelayLmeProofs`, `LocalTransportProofs` | theorems about `LmeChannel` under its two callers | the module each is named after, `TLAPS` |
| `HostProofs`, `HostPromiseProofs` | theorems about `HostCommand` | `HostCommand`, `TLAPS`; the second extends the first |

`RpsLink`: RPS may send any kind of message at any time, and the link may break
and lose what was in flight. The unbuffered channel between the reader and the
main loop is the value `"sending"` of `reader`: the goroutine stays there until
the main loop takes the message (a rendezvous is one action).

`RpsSession`: `main` is the place of the main goroutine in
`PrepareInitialMessage`, `NewExecutor`, `MakeItSo` and `HandleDataFromRPS`;
signals wait in the one-slot channel `interrupt`; `panic` is the Go panic that
killed the process.

`RelayLms`: each statement that another goroutine can interleave with is an
action of its own: `ConnectLms`, `SendLms`, `ReceiveFromLms`, `Forward`,
`HangUp` in the main goroutine; `ListenStart` (`SetDeadline`), `ListenCall` (the
evaluation of `lms.Connection.Read`), `ListenRead`, `ListenBreak`,
`ListenSendFails` in the listener. `conn` is the field `lms.Connection`; a
listener that finds it nil panics, as the code does. A payload is the number of
the message it came from, an answer the sequence of its parts.

`LmeChannel`: `wg` is the counter of the wait group, `sender` and `temp` are
`SenderChannel` and `Tempdata` of the APF session, `tref` says whose timer
`Session.Timer` is. The two goroutines of `Listen` are `reader` and `timer`; a
message of AMT is read by whichever reader reads the driver first, as in the
code, where a reader may outlive its request. `held` is what a reader has read
and not processed, `snap` the copy of `Tempdata` a timer goroutine hands over.
`Tempdata` has no lock: an append is a load (`LoadTempdata`, into `loaded`) and a
store (`ProcessData`), and a clear or another append in between is undone; the
history variable `raced` says that this happened. A driver read that fails or
gives nothing ends the reader, on an open handle too (fault `"read"`,
`ReaderEnds`), and when all have ended nobody reads any more (`Deaf`). The send of
the close message may fail, which leaves the channel open (`TimerCloses`).

`Relay`: one request at a time, in order, each answered at most once and with
its own answer. `RelayLms` and, in time and with reads that succeed, `RelayLme`
are checked and proved to implement it under the mapping each defines
(`KeepsPromise`, `KeepsPromiseInTime`).

`Orchestrator`: the profile is read from a file or fetched, after a login or not
(`LoadProfile`, `Authenticate`, `FetchProfile`). `step` counts the children of a
profile in the order `ExecuteProfile` starts them; a child succeeds, fails
because of its password, or fails otherwise, perhaps with a part of its effect.
The code tells the two failures apart by the words of the error text;
`Misleading` says whether the text of another failure may contain "auth". The
password fallback is `Rotate` (the change without a user) and `Prompt` (three
attempts). The children do not look at the return values in the device's
replies, so one may also succeed although the device did nothing: `refused`
holds the steps of which this is so (0 stands for the activation), `refusals`
counts the changes of the password. A purge and every wireless step delete the
profiles the device holds, and `Effect` takes the wireless steps whose profile
is gone out of `applied` (`StillHeld`). The cached mode is what `GetControlMode`
gave, which is 0 when the status of its reply was bad.

`Activation`: one process after the other, each the sequence of device calls of
`runCCM`, `runACM` with and without TLS, `handleStopConfiguration` or
`executeLocalDeactivate`, after the steps all commands share (`AfterApply`,
`EnsureAMTPassword`). A call does its work or not and its reply arrives or not,
or the device refuses with an answer that reads as success (`"refused"`): the
status of a PTHI reply and the `ReturnValue` of a WS-Man reply are looked at by
nobody. The control mode of `AfterApply`, and the one read after an admin setup
that failed, may be the 0 of a bad status. A process may be killed between any
two calls and the next one finds what it left. `mishaps` names what the code
cannot see: `"lost"`, `"refused"`, `"misread"` (the mode of `AfterApply`),
`"unread"` (the mode after a failed setup) and `"rollback"`.

`Configure` and what it extends: again one process after the other on an
activated device, any of the four commands with any credential, each call of
which succeeds, does nothing and fails, or does its work and loses its reply
(`Call`), and where the code drops the `ReturnValue` may also do nothing and
succeed (`Invoke`, `Unseen`); a process may be killed between any two. `pc`
names the next call, and `AfterPrune` where the one `PruneCerts` of three
commands goes back to. A certificate is named by its content, a key by the
client certificate it belongs to. The device is assumed to refuse the same
content twice, to let TLS settings take effect when they are committed and a
change of the credential context at once, and to drop an applied policy with its
rule. A port in `enforced` cannot be without TLS. The key, the client
certificate and the CA of an 802.1x credential are given in any combination, as
neither `Validate` asks for all, and `Configure8021x` takes each "if provided"
(`Skips`). `got` are the certificates the process has a handle of; an upload the
device refuses without an error leaves the handle empty, and `tls` then skips
the credential context and enables TLS all the same. Two variables are history:
`faults`, what went wrong in the current process (`"call"`, `"prune"`,
`"unseen"`), and `lacking`, the certificates that were put without their key or
not put at all without anybody noticing, so that the properties can ask what
that excuses.

`HostCommand` and what it extends: here the calls below `Activation` and
`Configure` are taken apart. An operation of `amt.AMTCommand` is a small machine
of its own: `at` says where it is (`Open`, `Send`, `Receive`, then back), `ask`
and `part` what it asks for, `wire` which replies lie on the handle unread. A
driver call ends in one of the outcomes its code has: a Windows write that is
given up after two seconds may still go out (`"late"`), a read that fails leaves
the reply where it is (`"interrupted"`). A reply carries its value and whether its
status was good; nobody looks at the latter, and a bad one reads as 0. `AmtHost`
says which requests an operation makes on one handle, and that `Return` closes
it. `HostProcess` is the process: `main` is its place, `Query` begins an
operation and `Answered` takes its result; `Get`, `Put` and `Invoke` are a WSMAN
read, one whose failure is noticed, and one whose `ReturnValue` is dropped.
`ConfigureObjects` and `AmtInfo` are the commands, and `want` their arguments,
drawn when the command is dispatched. `mishaps` is a history variable: whether
the firmware said no unnoticed (`"unseen"`) and whether somebody else changed
the control mode (`"changed"`), once, at any moment. Every command that was read
to decide by the mode decides by `seen`, the mode of `AfterApply`.

## Runs

| Run | Question | Instance |
|---|---|---|
| `relay_faults` | With every fault of LMS, a broken link and an interrupt at any moment: is the only listener that of the request at hand, and there while it is waited for (`OneListener`), has every message taken been answered in its turn, with its own answer (`AnsweredInTurn`), is `Relay` implemented, does the session end, does every handler return? | 3 messages of 5 kinds, answers of 2 parts |
| `relay_late` | Does no goroutine panic, and is every request answered, when LMS accepts everything but may be late or short, over TLS? | same, `{"short"}` |
| `relay_success` | (violated) does `ExecuteCommand` returning nil mean that RPS said success? | same |
| `lme_slow` | When goroutines are faster than the device: does every handler return unless no reader is left for its confirmation (`HandlerReturnsIfHeard`), is `Relay` implemented by an AMT in time whose reads succeed, also when writes fail (`KeepsPromiseInTime`), and are late answers sent once and in order, unless an unlocked append was undone (`ForwardedInOrder`)? | 2 messages, 2 parts, one fault set after the other: failing writes, failing reads and writes, a late AMT |
| `lme_race` | All orders of goroutines, device and timers, all faults: exactly one hand-over per request, and one still to come while it is waited for (`OneHandOver`), the payload on its own channel, no negative wait group and, without retries, a confirmation on its way while one is waited for (`ConfirmationsAwaited`), and, while writes succeed, no panic but on a first timer that is not made yet (`NoPanicFromDelays`) | 2 messages, 1 part, with and without a device that is gone, with and without failing writes |
| `lme_retry` | (violated) does a session go on after a retry of `Connect`? | 1 message |
| `local_transport` | Does each request go out on its own channel, does `RoundTrip` return the whole answer to its own request, and nothing before (`OwnResponse`, in time and until a request fails), and does it return at all but in the named cases? | 3 requests, 2 parts, one fault set after the other: no device, opening and writing fail; reads fail; AMT is late |
| `orchestrator` | Does success mean configured, but for what was refused unnoticed or cleared by a later wireless step; does the first error stop it, is the user asked at most three times (and three times more for each change of the password refused unnoticed), does it end? | 2 passwords, 2 Wi-Fi profiles, no proxy, one refused step and one refused change of the password |
| `orchestrator_wireless` | (violated) does the device hold all Wi-Fi profiles on success? | same, 1 proxy, nothing refused |
| `activation` | Does success mean the mode asked for, does a failure leave the device as it was, whatever calls fail, replies are lost and processes are killed, but for what the code cannot see? | 2 passwords, 2 certificates, 3 processes |
| `host` | Is a reply the answer to the request it is taken for, does success mean that the device holds what was asked for, is nothing written in a mode it does not belong to, and does every call return? | every command, 2 platforms, 4 devices, 2 passwords, 2 proxy ports, 2 hashes, one change of the mode |
| `configure` | Is every certificate and key in use on the device, but for those that never were; does success mean in effect, but for what was refused unnoticed; does a failed `tls` clean up, has a panic one of its two causes, and does no leftover make a later command fail? | 2 credentials in any combination of parts, 2 processes |

Why these bounds are enough. Three messages are a request whose socket could not
be closed, the next that finds the stale socket, and one more after it; two
parts let an answer be cut in the middle. Over LME two messages are a request
and one that meets its left-over goroutines, and in `LocalTransport` a third
follows a failure. The sets of faults of a run are its cases: the promises to
check differ from one to the next, and all faults at once take more states than
a run can have (`{"late", "read"}` was checked by hand for both, without an
error). Two Wi-Fi profiles are one that another may delete; two passwords are
the right one and a wrong one, of the device, the profile or the user; one
refusal of a step and one of a password change show what each excuses, and that
nothing more follows from it. Three processes are an activation that is killed,
one that finds what it left, and one more; two certificates are a chain that can
be cut in the middle. For `configure` two processes are one that leaves
something behind and one that builds on it or prunes it (three with one
credential were checked by hand, without an error); two credentials are one that
is pruned and one that another profile uses, or the key of one with the
certificate of the other. For `host` the two platforms differ in everything a
command or a driver decides by, and the four devices are one out of the box and
one in each mode that holds the opposite of the defaults, so that each write
shows; two hashes are one that may leave its reply to the next, one tick one
retry of a version. The theorems hold for every value of these bounds.

`CHECK_DEADLOCK FALSE` is in the runs where the code really may stop: after a
retry the handler waits for a second confirmation that never comes (`lme_race`,
`lme_retry`), after reads that failed nobody reads the one that comes
(`lme_slow`, `lme_race`), and `RoundTrip` has no timeout (`local_transport`).

Fairness: each goroutine is weakly fair, as the Go scheduler runs every
goroutine that can run, `SetDeadline` makes a pending `Read` return and a
`time.Timer` fires. AMT confirms the channels it is asked for and answers what
it was sent over LME, since `Wait` has no timeout. In `Orchestrator` the one
sequential process is weakly fair: its children end, the user answers, and an
HTTP request has a timeout of 30 seconds. In `HostCommand` the process and the
firmware are weakly fair: a read of the driver has no timeout, and the firmware
answers every request it has got; whoever changes the mode need not.
Nothing is assumed of RPS or of the moment the process exits: a process that
stays (the shared library of `cmd/rpc/lib.go`) keeps its goroutines.

### What holds only within limits

- `EveryRequestAnswered` needs an LMS that takes what it is sent (`relay_late`);
  an answer that is late is empty and dropped without a word to RPS
  (`HandleDataFromLM` skips empty data), which is why `Relay` allows `Drop`.
- `NoPanic` over LMS needs `Connect`, `Send` and `Close` to succeed: when
  `Connect` fails the listener, which is already started, dereferences a nil
  connection, and when `Send` fails it sends on the channel `MakeItSo` closed.
  Over LME it needs writes that succeed: a `Connect` or `Send` that fails ends
  the session while its timer is still to send on the channel `MakeItSo` closes.
  No delay of AMT, no read that fails and no order of the goroutines breaks it
  but one: an answer that comes before the goroutine that makes the first timer
  has run (`NoPanicFromDelays`), which a goroutine as fast as `Slow` says
  prevents.
- `KeepsPromise` over LME needs an AMT that answers within two seconds and reads
  of the driver that succeed (`KeepsPromiseInTime`): a read that fails between
  two parts ends the reader, and the timer hands over a cut answer as if it were
  whole. A late answer goes out with a later response, and only
  `ForwardedInOrder` is left, for goroutines faster than the timer. That in turn
  excepts an append that was undone, or undid a clear (`raced`; the code has no
  lock at `engine.go:155` and `:174`): parts are then lost or sent twice. And
  when the close message of a channel was lost, two channels are open, and only
  the parts of the same answer are in order.
- `HandlerReturns` over LME needs a reader (`HandlerReturnsIfHeard`): when reads
  fail on an open handle until none is left, the confirmation is read by nobody
  and `Wait` at `executor.go:156` never returns.
- `OwnResponse` needs an AMT in time and reads that succeed, and says nothing of
  what follows a failed request, whose goroutines and timer live on.
- `RoundTripReturns` excepts what follows a failed request or a retry, and two
  ways in which `RoundTrip` waits forever although nothing was reported as
  failed: the readers have ended before the confirmation came (`Unheard`), and
  the timer handed over an empty buffer, because AMT was late or a read failed,
  after which no other comes (`Starved`).
- `SuccessMeansConfigured` and `StopsAtFirstError` except the steps the device
  refused without an error (`refused`), and the wireless profiles a later step
  cleared (`Cleared`, see `orchestrator_wireless`).
- `AskedThreeTimes` and `Ends` need errors to be what their text says. An error
  that only mentions "auth" may be answered by a rotation and a retry that fails
  the same way, without end. Both also count the changes of the password that
  were refused without an error: each is answered by a retry that fails again
  and three more prompts (`orchestrator.go:172`, `:180`, `:218`), so that a
  device that always refuses so keeps the recursion going for ever, although the
  comment at `orchestrator.go:166` says "once".
- `SuccessMeansInMode` excepts a request refused without an error, and for the
  password of an ACM activation a mode that was misread as 0: the failed setup
  then finds the ACM of an older activation and counts it as its own
  (`local.go:633`).
- `FailureLeavesNothing` cannot hold when the reply to a call that changes the
  device is lost and the code does not look again (it does after the ACM setup,
  and rolls back after the commit of CCM), when the roll back itself fails, or
  when a request was refused without an error, or when the mode cannot be read
  or is misread after the ACM setup.
- `CredentialsPresent` excepts the keys and certificates in `lacking`: a client
  certificate whose key was not given with it, and what the device refused
  without an error. What no command may do is take away one that was there.
- `NoPanic` of `configure` names two panics that are real: pruning with a
  profile whose key is in `lacking` (`utils.go:151`), and the policies by
  position after the device refused a rule by its `ReturnValue` (`cira.go:136`).
  Nothing that fails, is lost, killed or pruned leads to either.
- `SuccessMeansInEffect` needs a device that refuses nothing without an error
  (`"unseen"`): the `ReturnValue` of `AddMPS`, `AddRemoteAccessPolicyRule`,
  `RequestStateChangeCIRA`, `AddWiFiSettings` and `SetCertificates` is dropped.
  It asks of `tls` only that TLS is on with some context: a context that exists
  while TLS is off is kept, with its old certificate (`tls.go:614`). Deletions
  that fail are only logged by `wireless` and `wired`, and excuse what they
  left.
- `SuccessMeansSet` excepts what `rpc` does not look at: the status of a PTHI
  reply (`pthi/commands.go:300`; an `Unprovision` that is refused reads as
  done), the `ReturnValue` of the redirection, KVM, password, MEBx and Wi-Fi
  calls and of `AddProxyAccessPoint`, and a control mode that changes after it
  was read. It says nothing of the user consent outside ACM, which `features`
  leaves alone without an error, and of `proxy --delete` with the default port,
  which stands for any.
- `OnlyInItsMode` needs a mode that nobody else changes while the process runs.
- A call of `rpc` may end in a panic (`out = "panic"`): the prompt accepts a
  password of white space, for which there is no client and no error.
- `FailedTlsCleansUp` needs the cleanup itself to succeed.
- `RetryRecovers` makes two exceptions. `tls` with mode `None` fails on a port
  that cannot be without TLS. And a private key that is on the device is never
  recognised, because `utils.go:242` compares it with the public keys of the
  device; the device refuses to add it again, and 802.1x with that key fails
  until something prunes the key.

## Proofs

TLAPS checks, for every value of the constants that satisfies their assumptions:

| Module | Theorem | States |
|---|---|---|
| `RelayLmsProofs` | `TypeCorrect`, `ListenerIsOne`, `NoneIsPassedOver` (with `AnswersAreOwn`) | the invariants of `relay_faults` |
| | `WholeWhenDelivered` | the answers are whole when LMS delivers them before the deadline (`"short" \notin Faults`), whatever else fails |
| | `Implements` | the refinement of `relay_faults` |
| | `LateIsHarmless` | `NoPanic`, for every set of faults within `{"short"}` |
| `RelayLmeProofs` | `TypeCorrect`, `HandOverIsOne`, `ChannelIsOwn`, `CounterSuffices` | the invariants of `lme_race` |
| | `ImplementsInTime` | the refinement of `lme_slow` (`KeepsPromiseInTime`: in time, reads succeed), assuming `Slow` |
| | `LateAnswersInOrder` | `ForwardedInOrder` of `lme_slow`, however late AMT is, assuming `Slow` and that reads and writes succeed (`Sound`) |
| | `DelaysAreHarmless` | `NoPanicFromDelays` of `lme_race`, for both values of `Slow` |
| `LocalTransportProofs` | `TypeCorrect`, `ChannelIsOwn`, `ResponseIsOwn` | the invariants of `local_transport` |
| | `WaitIsServed` | `RoundTrip` never waits for what cannot come, with an AMT in time, reads that succeed and the device there, until a request fails |
| `OrchestratorProofs` | `TypeCorrect`, `SuccessIsConfigured`, `FirstErrorStops`, `NeverRotatesUnprovisioned`, `AsksThreeTimes` | the invariants of `orchestrator` |
| | `RunIsBounded` | every step brings the run nearer to its end, assuming errors are what their text says (`~Misleading`); a refused change of the password uses up one of `MaxRefusals` |
| `ActivationProofs` | `TypeCorrect`, `SuccessIsInMode`, `FailureIsClean` | the invariants of `activation` |
| `ConfigureProofs` | `TypeCorrect`, `CredentialsStay`, `NeverPanics`, `SuccessIsInEffect`, `FailureIsCleanedUp`, `RetriesRecover` | the invariants of `configure` |
| `HostProofs` | `TypeCorrect`, `RepliesAreOwn` | the invariants `TypeOK` and `OwnReply` of `host` |
| | `CallIsBounded` | every step brings the call nearer to its end |
| `HostPromiseProofs` | `SuccessIsReal`, `WritesOnlyInItsMode` | `SuccessMeansSet` and the action property `OnlyInItsMode` of `host` |

None of these invariants is inductive as it stands, and each module has one that
is, `IInv` (`Inv` in `ConfigureProofs`, `HostInv` and `PromiseInv` in the
host's), with `Init => IInv`, `IInv /\ [Next]_vars => IInv'` and the theorems as
consequences. The assumptions on the constants are those the modules state:
bounds are naturals, sets of parts or of faults are what their names say, `None`
is no credential.

`RelayLmsProofs` adds where everything else must be while the main goroutine is
at a given place: the reader is exactly one message ahead (`ReaderInv`), nothing
exists yet for messages not taken (`FreshInv`), the only open socket is that of
the current message, and only in its handler (`SocketInv`), a listener lives
only in the handler of its own message (`ListenerInv`), its buffer is what was
read from that message's socket (`BufferInv`), and the response to the current
message is not sent before `Forward` (`SentInv`). Lemmas named `...Moves` say
which actions may disturb which part; the proof of a part looks only at those.
Three smaller invariants stand on this one. `WaitInv`: while the handler waits, its
listener lives and reads the socket the payload went to. `TurnInv`: the place of
the main goroutine fits the kind of its message, and what was handled is among
the messages sent. `WholeInv`, which needs an LMS that delivers before the
deadline: the listener hands over, and the handler forwards, all the parts.

`RelayLmeProofs` holds, but for `ImplementsInTime` and `LateAnswersInOrder`, for
every order of goroutines, timers and AMT. It adds that AMT owes, has sent, or a
reader holds at most one confirmation, and that the handler that waits for it
has not let go of the wait group (`ConfirmationInv`), which is why `Done` finds
a counter above 0; that a confirmed channel is the one of the message at hand
(`ChannelInv`); and how often `Connect` can have been tried (`RetriesInv`).
`CountInv` adds that without retries the counter is 0 outside the wait and that
the one `Add` of the wait has a confirmation owed or on its way (`Underway`).
The refinement needs that the goroutines are faster than the device and the
timers, and a second invariant, `LineInv`: one message is on its way at a time
(`OneMessage`), a goroutine reads the handle AMT answers on (`HeardInv`), and,
while AMT is in time, reads succeed and the session is not ending (`InTimeInv`),
the only timer running is that of the request at hand, the buffer is the part of
the answer received so far, no append is overtaken between its load and its
store (`LoadedInv`), and what is handed over is the whole answer, or nothing
when a write failed. `DelaysAreHarmless` rests on a third, `HarmlessInv`, for
sessions whose writes succeed: every channel that is asked for has a timer
goroutine, and once one has run the field refers to a timer (`TimerSet`), every
message is of such a channel (`TimedInv`), and a timer that has still to send
finds `e.data` open, because the handler waits for it. What is left is the
answer that overtakes the first timer goroutine (`Overtaken`).
`LateAnswersInOrder` lets AMT be as late as it likes, so that a part may arrive
when its request is over. `OrderInv` follows the parts along their way, from the
wire over `Tempdata`, the copy a timer hands over and `e.data` to RPS: as long
as no append was undone, each station holds parts in order, and all of them are
later than those of the next station (`FlowInv`); what a timer hands over is
what `Tempdata` begins with (`SnapInv`); and one channel is open at a time, no
longer than until its timer closed it (`OpenInv`), so that no two channels'
answers can overtake each other. The last needs
writes that succeed; and with reads that succeed one message is under way at a
time (`OneMessage`).

`LocalTransportProofs` adds to these that one message is on its way at a time
(`OneMessage`), that a goroutine reads the handle AMT answers on (`HeardInv`),
and, until a request fails, with an AMT in time and reads that succeed
(`Smooth`): the only timer still running is that of the request at hand, and the
field refers to it (`TimersInv`); nothing is owed any more when it runs out
(`QuietInv`); no append is overtaken (`LoadedInv`); and the one buffer holds
exactly what AMT has sent for that request (`CollectInv`). That goroutines are
faster than the device is built into the module; `lme_race` has the other
orders. `WaitIsServed` is the safety part of `RoundTripReturns`, from the same
invariant: while `RoundTrip` waits for the wait group, the counter is 1 and its
one confirmation is under way (`CountInv`); while it waits in the `select`, AMT
has the request and its timer runs, or the timer is about to hand over the whole
answer, so that `RoundTrip` returns with the first buffer it gets (`WaitInv`).
Both need the device to be there: a `Connect` that is tried again adds to the
wait group twice.

`OrchestratorProofs` adds what the cached mode says of the device (`ModeInv`),
where the process is in the profile (`StepInv`), that each step before the
current one is in effect, was refused without an error or was cleared by a later
one, and none after it is in effect (`AppliedInv`), and what the device's
password is once the user was asked more often than refused changes account for
(`PasswordInv`), which is why no further fallback can follow. `RunIsBounded` is
what can be proved of `Ends`: the steps of the profile still to be done, the
refusals of a password change still possible and what remains of the fallback
within a step (the prompts, the retry) make a natural number, `Remaining`, that
every step makes smaller. With no other way to stop than the end (TLC checks
that there is no deadlock) the run ends.

`ActivationProofs` adds which command is where (`PlaceInv`), that until a setup
takes effect the device is in the mode the process found, and knows unless it read
a 0 (`ModeInv`), and that a setup waiting for its commit is the one found or this
process's own, or one whose replacement was refused (`PendingInv`).

`ConfigureProofs` adds which command is at which call (`Places`); that what a
profile or the context is about to use is on the device already when the call
that makes it used is next, with its key or as one that lacks it (`Uploaded`), which is
what `CredentialsPresent` needs to survive a step; that a handle is of a
certificate the command was given (`Handles`); that TLS is staged only with a
context, or after a refusal nobody saw (`Credential`);
that without one the two policies of `cira` exist when they are applied by position
(`Policies`); and that an error has a cause (`Causes`). What each
command has done to the device by each of its places (`Done`) makes the success
of its last call the success of the command (`SuccessMeansInEffect`). Lemmas named
`...Changes` say which variables an action can change, and each lemma `...Step`
looks only at the actions that change what its conjunct is about.

`HostProofs` adds what may lie on the wire: nothing between operations, exactly
the one reply while it is waited for, unless a version is asked for again, when
all of them are for that same request (`WireInv`); and which values replies can
have (`ReplyInv`), which the number of hashes still to be asked for and the type
of the mode rest on. `CallStep` sums up every WSMAN call of every command in one
table (`Wsman`): where it goes on and what it does to the device; the invariants
look only at the table. `CallIsBounded` is what can be proved of `Ends`, for any
number of certificate hashes and of ticks: each place of the process leads to
places further down, the attempts of `AfterApply` and the sections of `amtinfo`
counted (`Left`); within a place the operation of the driver has fewer requests
to make, or is further with the one that is out (`CallLeft`); and what else can
happen is the one change of the mode (`Chance`). Each step makes the first of
these natural numbers that it changes smaller (`Nearer`), so that there is no
endless call. `HostPromiseProofs` adds that a mode that was read, is on the wire
or was returned is the device's or the 0 of an error status (`ModeReplies`,
`ModeSeen`), and exactly the device's without a mishap (`SureReplies`,
`SureSeen`); and what `features` and `wifi` have done by each of their places
(`Stage`), which is why the last call's success is the command's.

Only model-checked: liveness, which needs fairness and so is out of the prover's
reach (`SessionEnds`, `HandlerReturns`, `HandlerReturnsIfHeard`,
`EveryRequestAnswered`, `RoundTripReturns`, `Ends`); of `RoundTripReturns` and
`Ends` what does not need fairness is proved, see above; and `ForwardedInOrder`
where reads or writes fail. Every other invariant and every action property of
the runs that are expected to pass is stated by a theorem as it is.

## What is not modelled

- Text formatting, JSON and X.509 encoding, certificate checks, flags, logging.
- LMS, AMT, the network and the libraries (`apf`, `go-wsman-messages`): each is
  modelled by what this code expects of it, and marked external in the map.
- Of the unlocked `Tempdata` only undone appends are modelled, not bytes of two
  appends that mix or a torn slice header; and a timer goroutine always waits for the
  timer it made, although it reads `Session.Timer` again (`engine.go:151`).
- `Initialize` of the LME connection is one step that succeeds or fails; what
  the APF library makes of a refused channel cannot be seen from this code.
- `Activation` runs one process at a time and does not track the operational state
  `EnableAMT` sets; the four attempts of `AfterApply` are one step there, and four
  in `HostCommand`. Which activation the flags of `ActivateCmd` ask for is drawn.
- `HostCommand` leaves out the results that are only shown, the conversions of
  `pkg/amt` and the output, so that `amtinfo` is its reads and what they depend on;
  the standard streams `rpcExec` replaces (`lib.go`); the waits between attempts;
  what the firmware makes of `EnabledState` when the redirection service is put;
  and proxies with equal address and port. The operations only an activation
  uses (`EnableAMT`, `GetLocalSystemAccount`, `StartConfigurationHBased`,
  `StopConfiguration`) are calls of `Activation`.
- The verification of AMT's certificates (`certs/lmsTls.go`) and the layout of PTHI,
  UPID and SMB data are functions of their bytes and keep no state.
- `Configure` leaves out the values of the settings (addresses, SSIDs, key
  lengths), the requests to the Enterprise Assistant except that they may fail,
  the check of the control mode, and whether `AddMPS` uses the root it adds.
- The components `PROJECT.json` marks `not_modelled`, with the reason there.

## Plan

Done: the session over both transports, `LocalTransport`, the orchestrator,
local activation and deactivation, all configure commands, `amtinfo`, and the
path from the entry point to the HECI driver below them; theorems about all of
them. What is left, in this order:

1. What no command does to objects that are another's, as action properties with
   proofs; bounds like those of `RunIsBounded` for `Activation` and `Configure`.
2. The operations of an activation over `AmtHost`, and two processes at once.
3. The standard streams of the shared library, the choices of
   `ActivateCmd.Validate`.
