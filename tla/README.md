# A TLA+ model of cm-client

cm-client is the on-device client of Cisco Secure Client Cloud Management for
macOS and Linux. A service (`csccloudmanagement`, "the client" below) watches a
configuration file, runs the identity component (CMID) and keeps a second
process, the package manager agent (`cmpackagemanager`), alive. The agent asks
the cloud what should be installed and runs the platform's package tools to get
there.

This directory holds TLA+ modules that model the parts of that program whose
behaviour depends on the order of events, TLC configurations that model-check
them on small instances, and TLAPS proofs of the results that matter most. Every
definition is translated from the source; `PROJECT.json` ("map") names the
lines each one stands for. Paths below are relative to `src/`.

To run things: `tlc -config X.cfg M` for a row of the table of runs,
`tlapm M.tla` for a module of proofs.

## 1. The system

### Components

| Component | State it keeps | Operations |
|---|---|---|
| Agent controller (`OSPackageManager/controlplugin/PmAgentController.cpp`) | `pid_`, `bIsProcessStartedByPlugin_`, `threadMonitor_`, `mutex_` | `start`, `stop`, destructor, `monitorProcess` on its own thread |
| Process wrapper (`ProcessWrapperLinux.cpp`, `ProcessWrapperMac.cpp`) | none; acts on the process table | list processes, `startProcess` (fork, execv), `killProcess`, `waitForProcess` |
| Control plugin (`ModuleControlPlugin.cpp`) | a static `PmControlPlugin` with `bIsProcessStarted_` and `mtxAgentCtrl_` | `CreatePMModuleInstance`, `ReleasePMModuleInstance`, `fpStart`, `fpStop`, `fpSetOption` |
| Client daemon and loaders (`client/Daemon.cpp`, `client/main.cpp`, `client/ComponentLoader/`) | the `Config`, the `FileWatcher`, the loaders | constructor, `start`, `configCallback`, load and start of CMID and agent |
| Agent daemon (`OSPackageManager/Daemon.cpp`, `agent/PackageManagerAgent.cpp`) | paths, `Config`, the main thread | `start`, `stop`, `mainTask` |
| Config (`ConfigShared/Config.cpp`) | `logLevel_`, `crashpadConfig_` | `reload`, `parse`, `onConfigChanged` |
| ConfigWatchdog (`ConfigShared/ConfigWatchdog.cpp`) | a static list of subscribers | `addSubscriber`, `removeAllSubscribers`, `detectedConfigChanges` |
| File watcher (`common/macOS/FileWatcher.mm`) | an FSEvents stream and a serial queue | `add`, `remove`, the callback |
| Proxy watcher (`common/*/ProxyWatcher.cpp`) | a thread and a flag | constructor, destructor, `start`, `stop` |
| Crashpad tuner (`client/crashpad/CrashpadTuner.cpp`) | crashpad's database and settings, the proxy in use | setters, `setProxySettings`, `updateProxyList`, `startProxyDiscoveryAsync` |
| Loggers (`client/Logger/CMLogger.cpp`, `OSPackageManager/common/PmLogger.cpp`) | the level, the log file or the name of the registered logger | `SetLogLevel`, `setLogConfig`, `initFileLogging`, `writeLog` |
| Certificates (`OSPackageManager/common/PmCertManager.cpp`, `*/PmCertRetrieverImpl.cpp`) | the loaded certificates | `LoadSystemSslCertificates`, `FreeSystemSslCertificates`, `GetSslCertificates`, `ReleaseSslCertificates` |
| Platform configuration (`OSPackageManager/*/PmPlatformConfiguration.cpp`) | the map of proxy callbacks | identity, certificates, proxy discovery |
| Command execution (`OSPackageManager/common/CommandExec.cpp`) | none between calls | `ExecuteCommand`, `ExecuteCommandCaptureOutput`, `ParseOutput` |
| Package utilities and component manager (`linux/PackageUtil*.cpp`, `*/PmPlatformComponentManager.cpp`, `macOS/PmPkgUtilWrapper.cpp`) | none; acts on the package database | install, update, uninstall, permissions; query, verify |
| Discovery (`*/PmPlatformDiscovery.cpp`, `*/FileUtilities.*`) | the last inventory | find installed packages and their files |
| GPG verification (`Gpg/src/`) | a context of gpgme, its temporary home, the imported keys | `get_pubkey_fingerprint`; `validate_signature` and `GpgKeychain`, which the program does not call |

Also in the repository and without state worth a model: code signature
verification (calls into the macOS security framework in sequence), string, path
and GUID utilities, the object that hands out the platform dependencies, the
installers, service files and build scripts, and the sample web server. Not in
it: the package manager library, CMID, the proxy discovery library.

### How they interact

The client's `main()` builds the loggers and the crashpad tuner and then a
`Daemon`. The daemon reads the configuration, loads CMID and the control plugin
through function tables, and watches the file. The plugin forks the agent and
watches it on a thread of the controller, which shares `pid_`, the flag and
`mutex_` with the callers of `fpStart` and `fpStop`. A change of the file is
told on a serial dispatch queue, which walks the subscribers of
`ConfigWatchdog`: the first re-reads the file, the second (client only) applies
what has been read to the logger and to the crashpad tuner. The agent has the
same parts, put together in another order. The package utilities call
`CommandExec` for everything they ask of rpm, dpkg, gpg and installer.

### What is hard

- Threads: the monitor reads `pid_` without a lock, keeps `mutex_` during the
  restart delay and is joined by `stop()`; two flags under two mutexes say
  whether the agent is started; the dispatch queue runs while `start()` goes on.
- Processes: the agent may end at any moment, before, during and after a
  `stop()`; a pid is reused; a forked child inherits a locked mutex and runs the
  host's exit handlers; a child that writes while nobody reads blocks.
- Failure: fork, execv, kill, waitpid, pipe and posix_spawn fail; the
  configuration file is missing, cut off or wrong; the service is killed
  and started again while the agent lives on; events are dropped; a command acts
  and its result is lost.
- Others: packages and files come and go between two questions of a discovery.

`PROJECT.json` ("hazards") lists each at its line, with the properties that cover
it or the plan for it.

### What makes each component correct

- Controller: at most one agent serves, it is the one in `pid_`, it is replaced
  when it ends, none serves after `stop()`, `stop()` returns, `std::terminate`
  is not reached.
- Plugin: calls are serialised, the flags agree, answers are true, a stopped
  plugin can be started again.
- Configuration: once things have settled, what is in use is what was read last;
  settings do not go back to an older file; a reported change is used.
- Command execution: success means a command that ran to its end, with all of its
  output and nothing left open; the call returns.
- Loggers: no line is written with a logger that is not there, none of the agent's
  work is logged anywhere but in the file. Crashpad proxy: never half of one
  proxy and half of another.
- Platform configuration: each certificate object has one owner, who frees it once,
  and what callers were given survives reloads; an identity is one CMID had;
  the callback of each proxy request is called, once.
- Verification: a package that passes is signed by the signer asked for, whose key
  the system knows; one that is so signed passes wherever the key is among the others.
- Installation: nothing is run that was not verified, and the answer says what
  was done. Discovery: no package that was never there, none missing that stayed,
  each once, with at most `max_instances` files of each configurable.

## 2. The modules

| Module | What it is |
|---|---|
| `ProcessTable` | The operating system as the process wrapper sees it: a table from pids to processes, fork, execv, kill and waitpid on it, and what processes do by themselves |
| `PmAgentController` | The controller: an owner, the monitor thread, the processes. Extends `ProcessTable` |
| `AgentService` | What the controller promises, without threads, locks or pids. `PmAgentController` implements it (`ImplementsService`) |
| `ModuleControlPlugin` | The plugin over the controller: several callers, the static instance. Extends `PmAgentController`, whose specification it implements (`ImplementsController`) |
| `PmAgentControllerProofs` | Theorems about the controller: its protocol, then the supervision of the child; and about the plugin, over those |
| `ConfigReload` | Config, ConfigWatchdog and FileWatcher as both daemons put them together, on two threads |
| `ConfigReloadProofs` | Theorems about it |
| `CommandExec` | A caller of `CommandExec`, the child and the pipe |
| `CommandExecProofs` | Theorems about it |
| `CrashpadTuner` | The client's crash report settings: `CrashpadTuner`, `ProxyWatcher`, the database and the library that searches for proxies |
| `CrashpadTunerProofs` | Theorems about it |
| `PmPlatformDiscovery` | What is installed: the discovery of Linux and macOS, the queries of rpm, dpkg and pkgutil, the search for files |
| `PmPlatformComponentManager` | All calls the package manager library makes of the platform: the discovery, installing, permissions. Extends `PmPlatformDiscovery` |
| `PmPlatformComponentManagerProofs` | Theorems about it |
| `PackageVerification` | `verifyPackage()` of Linux, which `PmPlatformComponentManager` has as one step: the commands it runs, the search through rpm's public keys, gpg and its temporary homes |
| `PackageVerificationProofs` | Theorems about it |
| `PmCertManager` | The certificates: two retrievers, the X509 objects on the heap, the callers' arrays |
| `PmPlatformConfiguration` | What the library learns from the platform: identity, certificates, proxies. Extends `PmCertManager` |
| `ProxyRequests` | What a proxy request is promised, without the map of callbacks and the engine. `PmPlatformConfiguration` implements it (`ImplementsRequests`) |
| `PmPlatformConfigurationProofs` | Theorems about `PmPlatformConfiguration` and `PmCertManager` |
| `PmLogger` | The package manager's log over spdlog's registry, with `main()` and the start of its `Daemon` |
| `CMLogger` | The client's log and `setLogConfig()` |
| `Loggers` | The two programs, each with the log it has |
| `LoggersProofs` | Theorems about both logs |
| `MC*` | The instances TLC runs |

An operator whose comment begins with "Mutant" is not part of a specification:
it is a plausible mistake in the definition it stands before, kept so that each
property can be shown to notice one.

### Agent controller and plugin

The variables are the members: `pid` (`pid_`), `started`
(`bIsProcessStartedByPlugin_`), `mutex` (the holder of `mutex_`), `mon` (the
monitor thread: where it is, and the locals `pid` and the result of the wait),
`op` (the call in progress, where it is, `bWaitForThread`, the result) and
`host`, the client process. Each action runs from one point where another thread
or process can get in between to the next: the look through the process list,
the kill of a previous agent, fork, the assignment of the thread, taking
`mutex_`, the critical section of `stop()`, the join; and on the other side the
unlocked read of `pid_`, waitpid, taking `mutex_`, and the fork after the
restart delay (for the length of which the monitor has `mutex_`). `std::thread`
may throw (fault "thread"): then the flag is up and the thread is not there.

Three decisions deserve a word.
- `waitForProcess` returns for a process that has ended, that is no child, or that
  does not exist, and, if the constant `WaitFaults` allows it, early: the code
  treats an interrupted wait like the end of the child.
- A child is forked as a copy of the host. If its execv fails it calls `exit()`,
  which destroys its copy of the static plugin, and this calls `stop()`: a child
  forked by the monitor then waits for a mutex that nobody in that process will
  ever release. `ProcessTable` calls that child "stuck".
- `client/main.cpp` installs no signal handler (a TODO there says so), so SIGTERM
  by launchd or systemd ends the service without a destructor. That is
  `HostCrash`: children pass to init and live on, and `HostRestart` starts the
  service anew. (On Linux systemd also ends what is left in the control group;
  the model allows that, as the agent may crash, and does not rely on it.)

The plugin adds for each calling thread whether it waits for `mtxAgentCtrl_` or
is inside, `inService` (`bIsProcessStarted_`) and whether the static instance
has been made. `fpStart` and `fpStop` are the only ways into the controller
other than the destructor at exit.

### Configuration

A thread is the list of steps it has still to take. The constructor and
`start()` of each daemon are such lists, in the order of their code
(`ClientStarts`, `AgentStarts`), and so are the two subscribers. A step is an
access to state that the threads share: read the file, parse it into `Config`,
read the level, set the level, apply the crashpad settings, add a subscriber,
start the event stream. A setting is the version of the file it came from; a
file is a version and a shape: absent, not JSON, JSON without the expected
object, or an object in which some settings are valid. `file`, its
events and `Drop` (events the system reports as dropped, which the callback passes
over) are the environment.

### Command execution

The caller's variables are the call's place and result, the descriptors and file
actions it holds, and the caller's string, which is passed to one call after the
other. The child has a state, an exit status and the bytes it will write. A
byte is plain, a line feed or a NUL. `Wait` comes before the first `Read`, as
in the code. `StatusMayBeLost` stands for a service started with SIGCHLD
ignored, where waitpid answers ECHILD once the child is gone.

### Crash report settings

`member` and `proxy` are the tuner's members, `stored` and `fields` are what the
database of crashpad holds of the settings and, field by field, of the proxy: this
is what the handler, a process of its own, works with. A setting is 0 (its
default) or a later value; a proxy has a type, a host, a port and whether it needs
authentication. Four places go on by themselves: the
client's main thread, the thread of `ProxyWatcher` (on macOS a callback on a
global dispatch queue, after a first call on main), the library's thread, which
runs `updateProxyList()`, and the serial dispatch queue, from which the settings
come. A setter assigns its member (`AssignSetting`) and then compares with the
database and writes it (`SaveSetting`), without a lock; `applying` is the setting
between the two. `getUploadUrl()` copies the member (`CopyUrl`) and then reads
the database (`Ask`) on the watcher's thread. `setProxySettings()` is one
step per field, any of which may fail; the reads of `getProxy()` are one step,
since a single failing read spoils them all. `Crash` ends the service between any two
steps and leaves the database as it is, and it stands as well for the unguarded
copy of `uploadUrl_` that another thread assigns meanwhile. Linux never calls
`init()`, so there the tuner has only its members. `unsaved`, `faults` and
`accepted` are for the properties: they remember which writes have failed.

### Packages

The component manager is called by one thread of the package manager library, one
call after the other; `op` is the call, `at` where it is and `answer` what it has
returned. The three platforms share the module, as they share the sequence of
steps: `platform` says where they differ. A step is a question
to a command, to the package database or to the file system: between two of them
`ChangePackage` and `ChangeFile` stand for everybody else. `rule`, `id` and `conf`
are the indices of the nested loops of `DiscoverInstalledPackages()`, and
`DiscoverPackageConfigurables()` looks up one path per step; glob and
the `PathIsValid` of what it found are one look.

- A package in the database has a version, and with dpkg a state as well,
  which `getPackageInfo()` does not look at: one that was removed but for its
  configuration, or unpacked only, counts as installed.
- A path is a sequence of segments. A known folder's id, if there is one, is the first, as in
  the catalogs; `home` is the folder it stands for and does not change during a call.
- A command is one step. It may fail to run, fail, act by halves (dpkg) or act
  and lose its result, which is what `CommandExec` says of it. The list of choices
  made for the macOS installer may fail to be removed. `failed` remembers that a
  query, a chmod or this removal failed or that a result was lost.
- On Linux packages are verified only with `ENABLE_CODESIGN_VERIFICATION`, which
  the build sets; a build without it is not modelled.

`seen`, `moved` and `failed` are history variables of the properties.

### Verification

`PmPlatformComponentManager` has `verifyPackage()` as one step that finds the
signature trusted, not trusted, or fails or throws; `PackageVerification` opens that step.
`at` is the place in the nested calls of `PackageUtilRPM` (or `PackageUtilDEB`) and
`GpgUtil`, `keyId`, `pubkeys` and `trusted_keyid` are their locals. rpm's
list of public keys is a sequence in any order, and each key is asked for by a
command of its own, so it may be gone by then. `TemporaryDirectory` tries names at
random; `others` are the directories of other programs and `left` those the
destructor could not remove. Its `std::runtime_error` is no `GpgError` and leaves
`verifyPackage()` and `InstallComponent()`, which do not catch it: answer "throws" in both
modules. Key ids are the keys, except that a fingerprint that
is too short (`ShortKeys`) has none. `everKnown`, `atStart`, `removed` and
`failed` are history variables of the properties. One public key
removed during the search has the whole package refused, even if it is
another's: `TrustedIsVerified` excludes it.

### Platform configuration

The library makes one call after the other, and each call is of one of three
kinds that share nothing, so a behaviour has the calls of one set in `Uses`.
- Identity: CMID is asked for a length and then, with a buffer of that length,
  for the text; `cmid` may change between the two. A text is the identity it
  was taken from and the NULs that follow it when the buffer was longer.
- Certificates: `heap` says what is in each place an X509 object can be in,
  `certificates` are the retriever's, `held` the callers' arrays, each with the
  certificates it was promised. On Linux a load adds to what is there, on macOS it
  replaces it; a reload is a step that frees and one that loads.
- Proxies: the library's thread waits for the engine, puts the callback into
  the map and asks the engine; the engine's thread takes it out and calls it.
  A request's number stands for its GUID, its callback and its context.
  `ProxyRequests` has only the requests made and what each callback was called
  with: the next one without an answer is given one of the lists the platform
  makes of what can be found.

The map of callbacks has no lock. That is safe because one thread of the library
makes all requests and waits for the engine each time: the model assumes that one
thread, and `CallbackMapIsSafe` shows that the wait is then enough.

### Logs

`PmLogger` has spdlog's registry as the set of registered names, and each of the
two or three look-ups of a line as a step that uses what it finds without looking.
The threads are `main()`, the file watcher (which only macOS has; `watching` may
stay FALSE) and the task. `main` is the place in `main()`, `Daemon::start()` and
`initFileLogging()`. `loggerName_` is a `std::string` that `main()`
assigns while the watcher's thread may read it, which is undefined: between
`BeginNaming` and `EndNaming` a look-up on another thread finds any logger or none.
`CMLogger` has the one logger of the client as a size and a number of files, and
`setLogConfig()` as the steps between which the other threads write, since these do
not take its mutex; the number of files is a `uint32_t`, so 0 files become
2^32 - 1. (`MaxUint` is 2^30 in the instance, as TLC's integers have 32
bits; what matters is that it is above spdlog's limit.) `setLogConfig()` is called by
tests only; the model lets any thread call it. Each program has a process
of its own, so a behaviour is of one of them (`process`).

## 3. The runs

| Run | Instance | Distinct states | What it shows |
|---|---|---|---|
| `agent_supervision` | 3 pids, failing forks, crashes of agent and host, `FairSpec` | 83 296 | One agent, the one in `pid_`, none when stopped; replaced when it ends; `stop()` returns; the controller implements `AgentService`, liveness included |
| `plugin_faults` | 2 pids, 2 callers, every fault, pids taken by other programs, SIGCHLD ignored, symmetric in pids and callers | 999 868 | True answers, no `std::terminate` but from the destructor; the plugin uses the controller as `PmAgentController` assumes, which needs the calls serialised and the two flags to agree |
| `config_reload` | both services, 7 shapes of file, 3 versions, `FairSpec` | 34 503 | Settled settings agree, no going back in the client, reported changes are used |
| `command_exec` | all outputs of up to 4 of 3 kinds of byte, a pipe of 3, reads of 2, every fault, `FairSpec` | 32 108 | Truth of success, complete output and lines, no leaks, a small output never blocks |
| `crashpad_proxy` | both platforms, 4 lists of proxies, one setting with 2 values, failing opens, reads and writes, the service ended and restarted at any time, `FairSpec` | 279 976 | No half-written proxy is accepted; the database agrees with the tuner but for the setting being written; a search is for the URL the tuner holds, or for the stored one between the two steps of the setter; a change of the network is followed |
| `component_manager` | 3 platforms, 2 packages in 2 versions, 3 catalogs, 3 files, 4 known folders, 6 components, every fault; one call, one change by others | 1 438 452 | An inventory has what was there and misses nothing that stayed; its files are the right ones, each once; only what was verified is run; answers are true |
| `package_verification` | rpm and deb, 2 keys (one short), 3 public keys (one broken), 2 directory names, 2 attempts, every fault; 2 calls, 2 events | 2 522 840 | What passes is signed by a signer the system knew; what is so signed passes; each key is imported into a home of its own, which no call keeps |
| `platform_configuration` | both platforms, 2 certificates, 6 places, 8 states of the system's trust, 2 arrays, 2 identities of different length, 3 requests, 3 lists of proxies, `FairSpec` | 121 872 | One owner per object; callers' copies survive reloads; identities are true; the map of callbacks is used by one thread at a time; requests are answered once each and in order: `ProxyRequests`, liveness included |
| `loggers` | 2 severities, both faults, 2 threads of the client, sizes 0 and 70, 0, 1 and 3 files | 6 326 | A logger that is not there is used only after the failures and the race that section 6 names; the task's lines reach the file, the client's are lost only while the logger is replaced |

Three more runs each have one property, which TLC refutes: they state what a test
or a header says and the code does not do (section 6).

### Why the bounds are enough

- Three pids let a previous host's agent, a child that was told to stop and has
  not ended yet and the child in `pid_` exist together; a fourth process would
  only be another of the second kind. `plugin_faults` has two, so that pids are
  reused soon, and two callers, since `mtxAgentCtrl_` lets one in and what
  matters is one that waits meanwhile. The safety properties of the controller are also proved for
  every set of pids.
- Three versions of the file are the one that was read first, one that is
  being handled and one that arrives meanwhile; later versions are told apart from these by
  being newer only. The seven shapes are one for each branch of `reload`,
  `parse` and the two `parse...` functions: a key missing in the middle and a
  valid key with a refused value are among them.
- An output of four bytes does not fit into the pipe, three fill it, and a read takes
  two, so that there are full, partial and repeated reads and NULs and line feeds on either
  side of a boundary. The theorems hold for any sizes.
- The four lists of proxies are one for each way through `convertProxies()` and
  `isProxyValid()`: one valid, two valid (so that a failed write has a next
  proxy to go on with), one unsupported and one invalid, and one unsupported and one
  whose port does not fit, which leaves nothing, as the empty list does. `uploadUrl` is the one setting that is read back; the proofs have all three.
- `agent_supervision` leaves interrupted waits out on purpose (with them
  `ServingIsSupervised` is false, which the comment there says), and so a
  `std::thread` that throws (with it the agent runs unwatched, and `KeptAlive` is
  false); `plugin_faults` has them and checks what holds all the same.
- Every call of the component manager begins by setting what a call works with,
  and what one leaves for the next is the database and the files, of which `Init`
  has each possibility but a package that dpkg has left by halves or removed; these
  come about during the call. One change by others is
  enough for a package or a file to go, to come or to be replaced between any two steps.
  The catalogs have each kind of identifier, several for one product, and
  configurables that find the same file, with limits of 0, 1 and 2; the known
  folders are none, one, one in whose own path a file's path occurs, and one with
  a wildcard in its path.
- Two calls to `verifyPackage()` let the second meet a directory the first could not
  remove, and two events let a key go and come back or a directory come between
  two attempts. Of the three public keys one is the signer's, one another's and
  one cannot be imported, so the search has keys to pass over before and after.
- Six places hold what the retriever has and two callers' copies of it, so a
  reload can happen while both hold theirs. Two lengths of
  identity are one that fits into the buffer and one that does not, in either direction.
  Three requests make one that waits, one that is searched for and one that has been answered.
- Sizes and numbers of files are those of the unit test and the ones at the boundary: 0
  for the size, and 0 for the files, which wraps around.

Deadlock is looked for in every run but `config_reload`, where there is nothing
left to do when the file has been written for the last time, `component_manager` and
`package_verification`, where `MaxCalls` ends the calls, and `loggers`, where the
programs end.

### Fairness

- `PmAgentController`. A call in progress and the monitor thread go on (weak
  fairness of each step that only the scheduler can delay). `StopLock` and
  `MonLock` get strong fairness: `mutex_` is free again and again and the
  threads take it in turns of seconds, so neither is overtaken for ever. A fork or
  an execv that is tried again and again succeeds in the end (strong fairness
  of the restart that succeeds and of `Exec`): without that nothing could keep the agent alive.
  `FairSpec` adds that SIGTERM ends an agent, which `LiveSpec` does not say. No
  fairness makes an owner call, an agent crash or a service be killed.
- `ConfigReload`. Each thread goes on. The file need not be written again and no
  event need be dropped.
- `CrashpadTuner`. Main, the watcher and the library's thread go on: the library
  answers a search. Nothing makes the network change, a setting come or be written or
  the service end or restart.
- `PmPlatformConfiguration`. A request that has begun goes on, and so does the engine:
  a search finds something, if only an empty list. Nothing makes the library call.
- `CommandExec`. The caller goes on, and so does the child: rpm, dpkg and gpg end
  by themselves once what they write is taken. A signal need not come.

## 4. The proofs

All are checked by TLAPS for every value of the constants that the `ASSUME`s
of the modules allow (`Invalid` is no pid; faults are among those named; sizes
are positive; outputs are sequences of bytes). Every safety property of every
passing run is a theorem, `ServingIsSupervised` under an assumption that is
named below. `FolderAssumption`, that a literal is a string, is
there because the provers take a literal for an unknown value; TLC evaluates it.

**Protocol of the controller** (`PmAgentControllerProofs`). The members' types
are not inductive by themselves, and neither is `LaunchIsSafe`: that `start()` does not
assign to a joinable thread depends on what a failed `stop()` left behind. The
inductive invariant is `ProtocolInv`: `TypeOK`; who holds `mutex_` where
(`MutexInv`); what each place of the owner's call can count on (`CallInv`); that
a started controller has a thread or, if that could not be made, `pid_` set, and
that a thread left unjoined by a stopped one leaves `pid_` set: either way the next
`start()` fails in `startProcess()` before it comes to the assignment (`ThreadInv`); and that nothing survives the host
(`HostInv`). `ProtocolCorrect` is `Spec => []ProtocolInv`, with a lemma for each
of start, stop, monitor and environment. From it follow `TypeCorrect`, `LaunchNeverTerminates`
and `TerminatesOnlyAfterFailedKill`, whatever fails.

**Supervision** (`PmAgentControllerProofs`, second part). "The child that serves is in
`pid_`" is not kept by the monitor's reset of `pid_` unless the wait it has just
come back from was for that very child. `WatchInv` adds this: while started, the
monitor waits for `pid_`, and after the wait `pid_` names no child that serves.
Small lemmas say what fork, kill, waitpid and each step of a process do to the
set of serving children; the proof of a step cites those.
- `AlwaysSupervised`: assuming `SteadyWait`, a serving child is the one in `pid_`.
- `ForksOnlyWhenAsked`: a child appears only in `start()` or while started. No assumption.
- `ServesOnlyWhenAsked`: assuming also `KillWorks`, none serves a stopped controller.
- `SafelyImplementsService`: under both, initial states and steps are those
  of `AgentService`.

`SteadyWait` says that waitpid is not interrupted (nor fails for an unknown reason) and `KillWorks`
that kill does not fail for a process that exists. Both are needed: the code drops a
living child in the one case, and leaves it running in the other.

**Plugin** (`PmAgentControllerProofs`, last part). The controller's theorems are about a
`Spec` whose owner makes one call at a time and never starts a controller that is
started and watched; that this is how the plugin uses it is `PluginImplements`. `bIsProcessStarted_` and
the controller's flag differ during every call and after some failures, so the
invariant says in which direction they may: `FlagInv`, that between calls a controller
that is started and has its thread is one the plugin knows of. (Without the thread it
need not be: section 6.) It is kept only because the caller inside is the one whose
call the controller is in (`SerialInv`) and because PM_OK and PM_FAIL tell at each end
whether it is started and watched (`OpInv`). `StepPlugin` has both results for every step: the invariant is
kept and the controller does something `Spec` allows. `SafeBeneathPlugin` carries the controller's
theorems over; `SuccessesAreTrue` needs the invariant itself.

**Configuration** (`ConfigReloadProofs`). What the two threads still have to do are lists, so
the invariant tells a place by how much of its list is left. `PlaceInv` says
which places go together: until main has read, parsed and set the first file
nothing is watched and the queue is idle, and what the queue runs is the round that `turn` stands for.
`AgeInv` orders the versions: the file's, the one a thread is about to parse,
Config's, and in the client the one in use. `LevelInv` and `TunerInv` say that
a setting in use is Config's or that a step to come makes it so, with the one
exception of the agent: a level that main had fetched before the queue
replaced it (`Overwritten`). `ReloadStep` has two results for every step, the
invariant and that no setting of the client gets older; `SettledSettingsAgree` and
`ClientGoesForward` follow, for both services, any shapes of the file and any number of changes.

**Command execution** (`CommandExecProofs`). `CallCorrect` proves `CallTypeOK`
and `PlaceInv`: at each place of a call what it holds, where its child is and
what its status says. `LeaksNothing` and `SuccessMeansExit` follow.
`CapturesEverything` adds `ContentInv`: what has been read followed by what is
in the pipe is what the child wrote, from which a read that finds the pipe empty
has everything. The lemmas are about sequences: a read splits the pipe in two, and
appending a part without a NUL appends all of it. `ParseOutput()` is proved for
every output (`ParseOutputCorrect`): if the lines and the piece in hand, joined
by line feeds, are the bytes read so far, they still are when one more byte is
read (`ParseByte`), and that this then holds for any number of bytes is argued
from the least number for which it would not. `LinesAreTheOutput` applies it to
what a call has captured.

**Crash report settings** (`CrashpadTunerProofs`). That the proxy in use is the accepted
one says nothing about the fields in the middle of a write. `ProxyInv` adds to
`TypeOK` what holds where main() is, that `getUploadUrl()` is called between two
searches, and that with a database `proxy_` is never anything but none (`PhaseInv`); that the fields already written are those of
the proxy whose turn it is and `left` are exactly the others (`WritingInv`); that the
turn is that of the first proxy unless a write failed (`TurnInv`); and that an
accepted proxy is in use (`AcceptedInv`). The lemmas about proxies are what makes "the fields agree" into "the
proxy is the same": a found proxy has exactly four fields, and one whose
type is none is `NoProxy`. `AcceptedProxyIsInUse`, `SettingsAgree` and
`UploadUrlIsAsked` follow, the last as an action property, for every list
of proxies, every set of settings and whatever fails, as does `TypeCorrect`.

**Installation and permissions** (`PmPlatformComponentManagerProofs`). That only what was
verified is run is not kept by the step that runs it unless that place is reached
only with a right to. `CallInv` adds which call is at which place (`PlaceInv`);
that at `choices` and `run` the package is one of those that may be run, that
nothing was done and no list of choices made before, and that only a package with
choices has such a list (`AllowedInv`); and that the
second call to chmod finds the others without access unless the first failed
(`ModeInv`). The assumption that the name of no key is "none" is what makes
a trusted signature one of a signer. `OnlyVerifiedPackagesAreRun` and
`EveryAnswerIsTrue` follow, for every catalog, component and set of keys.

**Discovery** (the same module). The indices of the nested loops stay within the
catalog because a discovery that has come to a configuration path has a current
configurable, and one that makes its list has not begun with the rules (`StageInv`);
`Types` adds this to the types, and `ComponentManagerTypeOK` follows. That a product
in the inventory was there is not kept by the step that adds it, and that a missing one was
not is not kept by the step that passes an identifier over: `DiscoveryInv` says what
of the database is remembered (`SeenInv`, on macOS also that what is not in
`listPackages()` was absent then), that the package about to be added is as justified
as those that are in the inventory and its product is new (`InventoryInv`), and
that each identifier passed need not be found or its product is (`PassedInv`).
`EveryPackageReportedWasThere` and `NoPackageIsOverlooked` follow.

For the files, `FilesInv` says that, as long as none came or went, those collected are exactly
the ones the configurables passed should be reported with, and that the configuration
path is searched only when the deploy path has nothing; `ReportsInv` that each is
there once and reported by a path that leads back to it. `EveryFileIsReported` follows. The
rest is about sequences and paths: what `Among`, which filters a sequence,
keeps and that it keeps distinct elements distinct (`AmongProps`); that a limit of 0 and one
of 1 leave the same file; and that a path split after its folder and put together
with the folder's id resolves to itself (`AfterFolder` and those after it). It is this last
one that failed at first: a folder whose own path has a wildcard is expanded by
glob(), and what was found under it is then not found again (section 6).

**Verification** (`PackageVerificationProofs`). `VerifyInv` says when gpg has a home
and that it is nobody else's (`HomeInv`); that the key that signed is one of
the signatures', and that a key passes for trusted only if rpm or gpg has known
it (`TrustInv`); and, as long as nothing goes wrong, that the public keys of
the signer are still among those to be looked at (`SearchInv`), which is what
makes the search independent of the order of keys. `VerifiedPackagesAreTrusted`,
`TrustedPackagesAreVerified` and `HomesAreOwn` follow, for any keys, public keys,
bounds and failures.

**Platform configuration** (`PmPlatformConfigurationProofs`). For the callbacks,
`ProxyInv` says whose callback is in the map at each place of a request and of
the search, and that the engine is idle from the end of the wait to the request. `MapIsSafe`
follows, and `NoneIsCalledTwice`. `SafelyImplementsRequests` is that each step
is one of `ProxyRequests` or none: beyond `ProxyInv` it needs that every request but the one
under way has had its answer and that what the engine passes on was found
(`OrderInv`), so that a call of a callback is an answer, to the next request; and
that the lists a platform makes never change, as no step changes the platform
(`ListsStay`). For the certificates `CertificatesStayValid` is nearly inductive: a load on Linux adds to
what is there, and would have the retriever hold a certificate twice, unless it begins with nothing
(`LoadsIntoNothing`). `CertificatesAreOwned` follows, for any heap. For the identity,
`IdentityInv` says of the URL or text in hand what the property says of the answer: what
CMID has had since the call began (`ItemInv`), and that the buffer is as long as
something CMID had meanwhile (`TextInv`). `IdentitiesAreTrue` follows, for any identities.
`ConfigurationTypeOK` puts the types
together from all three invariants.

**Logs** (`LoggersProofs`). `PmInv` says which logger is named and registered at
each place of `main()`, `CmInv` that the client is without a logger only between the
two ends of its replacement or after that has failed. `LoggersAreFound` and
`LinesAreLogged` follow. `LoggersTypeOK` is inductive by itself.

Only model-checked: liveness (`StopReturns`, `KeptAlive`, `ReportedChangeIsUsed`,
`ChangeIsFollowed`, `SmallOutputReturns`, and the fairness halves of `ImplementsService`
and `ImplementsRequests`), which is beyond the prover. Induction over data is so as far as
the library's induction theorems go, which take an operator as their parameter. Where
it is needed here, for `Among` and `ParseOutput`, it is replaced by the
theorem that every non-empty set of numbers has a least one: the set is that of the
numbers for which the claim fails.

## 5. What is not modelled

- Whatever section 1 lists as stateless, and the libraries that are not in the repository.
- Code signatures on macOS. `codesign_pkg.mm` asks the security framework one
  question after the other and keeps nothing; its answer is one step of
  `PmPlatformComponentManager`. `ExecutableVerify` (`codesign_bin.cpp`) is called by tests only.
- Linux has no `FileWatcher`: there the configuration is read once, which
  `ConfigReload` covers by its first steps.
- In `ConfigReload`: a list node torn by the unlocked append, a negative
  `pruneDbSize`, and `FileWatcher::remove()` and `removeAllSubscribers()`, which no running service calls.
- In `CrashpadTuner`: a dynamic store of macOS that cannot be created; user names and
  passwords, which nothing sets; the handler reading the database while it
  is being written, which sees what `fields` has at that point and of which nothing is
  claimed; `ProxyWatcher`'s destructor, which runs at exit.
- In the packages: `uninstallPackage()`, `listPackageFiles()` and the `listPackages()`
  of Linux, which nothing calls; `DeployConfiguration()` and
  `NotifySystemRestart()`, which do nothing; the log of an installation; the names of temporary
  files, which two calls in one second share; a known folder's id
  elsewhere than at the beginning of a path; several versions of a package
  installed at once.
- In the verification: `get_signature_fingerprint()`, `validate_signature()` and
  `GpgKeychain`, which the program does not call; rpm, dpkg-sig and gpg themselves.
- In the platform configuration: the destructor; an `X509_dup()` that fails; several
  threads of the library at once; the getters of constants; CMID and the engine themselves.
- In the logs: the text of a line. `CMLogger`'s `ConfigLogger::Log` passes a `va_list` on as
  if it were the arguments, which spoils the text and nothing else the model has.
- `util/ThreadTimer.hpp`, which nothing uses.
- In `PmCertManager` and `PmPlatformConfiguration`: an `X509_STORE_new()` that fails, the
  leak in `GetSslCertificates(nullptr, ..)`, and `LOCAL_WEBSERVER_OVERRIDE`, which
  only a debug build has.
- A downloaded file that is replaced between its verification and its installation
  (`linux/PmPlatformComponentManager.cpp:53` and `:60`): a component of the model does not
  change during a call, so `OnlyVerifiedIsRun` is about the order of the two steps.
- In the controller: the helpers its unit tests use to wait for the monitor.
- Which process a reused pid belongs to when it is signalled: `plugin_faults`
  reaches such states and checks the controller's own properties in them.

## 6. Where the code and what is said of it differ

| Run | Said | Done |
|---|---|---|
| `stopped_means_gone` | `PmAgentControllerTest.cpp:76-78`: no agent runs after `stop()` returned `PM_OK` | If `stop()` resets `pid_` before the new thread has read it (`PmAgentController.cpp:112`), the thread waits for nothing and is joined while the child still runs |
| `start_after_stop` | `ModuleControlPluginTest.cpp:42-43`: start works after stop | A stop that meets an agent just reaped leaves `pid_` set; the next stop succeeds and every later start fails (`PmAgentController.cpp:88`) |
| `capture_returns` | `ICommandExec.hpp:21`: executes a command and captures the output | waitpid before the first read: an output larger than the pipe blocks both (`CommandExec.cpp:140`) |

Other differences came up while modelling; the modules allow them, no run is
spent on them:
- `PmAgentController.hpp:43-44` says "Terminates if unresponsive"; `stop()` sends one SIGTERM
  and joins without a timeout (`PmAgentController.cpp:98`). `FairSpec` therefore has to assume that
  SIGTERM ends an agent.
- `start()` raises the flag before it makes the thread (`PmAgentController.cpp:72`, `:76`). If
  `std::thread` throws, `startPmAgent()` answers GENERAL_ERROR with `bIsProcessStarted_`
  down (`ModuleControlPlugin.cpp:83-86`) while the agent runs and nobody watches it: `fpStop`
  says it is not started, and the next `fpStart` runs `start()` on a started controller, which ends
  the agent (`killIfRunning()`) and then fails because `pid_` is set. Only the
  service's end gets out of this. `plugin_faults` and the theorems have this case, and the
  owner of `Spec` may therefore start a controller that is started but not watched.
- A child whose execv fails after a restart runs the host's exit handlers with a copy of a locked
  mutex and hangs, and the monitor waits for it for ever (`PmAgentController.cpp:246`);
  `KeptAlive` is checked without failing execv.
- A change between the client's first read and `add()` is missed (`client/Daemon.cpp:82`);
  `ReportedChangeIsUsed` is about changes the stream reports.
- `linux/PmPlatformComponentManager.hpp:40` and `:52` promise that an installation or an update
  that fails is rolled back. No code does this: dpkg may leave a package by halves, and a package
  whose result was lost stays (`linux/PmPlatformComponentManager.cpp:60`). These are exceptions in
  `AnswersAreTrue`. The same header says the answer is then -1; an exception of
  `TemporaryDirectory` (`Gpg/src/TemporaryDirectory.cpp:44-48`) gives none.
- A list of choices that cannot be removed stays on disk and nobody learns of it
  (`macOS/PmPkgUtilWrapper.cpp:216-219`).
- `setUploadUrl()` assigns `uploadUrl_` and then writes the database, without a lock
  (`CrashpadTuner.cpp:277`, `:294`). A search begun in between on the watcher's queue
  is for the URL before (`getUploadUrl()` prefers the database), and no other search follows because of the
  new one. This is an exception in `AsksForUploadUrl`, and `StoredAgrees` leaves the setting
  out while it is being applied.
- `ReloadSslCertificates()` answers a failed load with `return false`, which is 0, as a
  success is (`linux/PmPlatformConfiguration.cpp:146`).
- Without a directory for logs `initFileLogging()` makes a logger that is registered nowhere
  (`PmLogger.cpp:132-135`), and the next line uses what the look-up has not found
  (`PmLogger.cpp:320`). While `loggerName_` is assigned the watcher's thread may read it. And once
  `setLogConfig()` has failed to make a logger, the next call uses the one that is gone.
  These are the exceptions in `LoggerIsFound`.

The agent's daemon also has a window, in `SettingsAgree` as its stated exception:
line 70 of `OSPackageManager/Daemon.cpp` reads the level and then sets it, and
a reload in between is overwritten by the older level.

Some answers of the package layer say more than was done, and the properties state them as
exceptions: a query that fails leaves its package out of an inventory
that is answered with 0; `UninstallComponent()` of Linux answers 0 and does nothing
(`linux/PmPlatformComponentManager.cpp:77`); `RestrictPathPermissionsToAdmins()` answers 0 when
chmod has failed (`linux/FileUtilities.cpp:114`); a script that uninstalls on
macOS has succeeded whatever its exit status (`macOS/PmPkgUtilWrapper.cpp:263`).

A path in an inventory has the id of the known folder in place of as many characters as the
folder's path has (`linux/PmPlatformDiscovery.cpp:112-113`). When that path has a
wildcard, glob() has expanded it (`linux/FileUtilities.cpp:158`), and when what follows the
id occurs in the folder's own path, too little is taken for the folder: in both cases the path reported
need not lead to the file. These are the exceptions in `LeadsBack`.

## 7. Plan

Done, in this order: `ProcessTable` and `PmAgentController` (the heart of the
client: if supervision is wrong nothing else runs), `AgentService`,
`ModuleControlPlugin`, the controller's proofs, `ConfigReload`, `CommandExec`
and its proofs, `CrashpadTuner` and its proofs, `PmPlatformDiscovery`,
`PmPlatformComponentManager` and the proofs of installation,
`PackageVerification`, `PmPlatformConfiguration` over `PmCertManager`, the logs,
the proofs of these three, those of the plugin and those of the configuration,
the proofs of discovery and its files, of `ParseOutput()` and of the remaining
types, and `ProxyRequests`.

What remains worth doing: `CommandExec`'s contract as an abstract specification, which
`CommandExec` is shown to implement and of which the commands of
`PmPlatformComponentManager` are instances; and `PackageVerification` shown to implement its one step.
