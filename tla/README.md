# Verification of xkvm

xkvm injects tweaks into iOS apps on a computer and drives devices: it unpacks an
app, places dylibs and frameworks, edits load commands, signs and repacks
(`xkvm -i app.ipa -f tweak.deb -o out.ipa`); it resolves tweaks and their
dependencies from APT repositories, converts packages between jailbreak layouts,
finds what an app is missing and puts it in, downloads apps from the App Store;
it installs, launches, mirrors logs and restores over USB, starting a go-ios
tunnel where iOS 17 needs one. This directory holds TLA+ models of the parts of
that where order, failure and concurrency decide whether the program is right,
the TLC runs that check them on small instances, and TLAPS proofs of what holds
for every instance.

Paths below are under `src/internal/` unless they start with `src/`.

## Inventory

| Part | State | Operations | What is hard | Correct when |
|---|---|---|---|---|
| Tunnel manager (`device/tunnel.go`) | mutex, registry UDID -> process, spawned processes | `ensure`, `info`, `forget`, `stopLocked`, `Close` | concurrent callers on one device, process exits, deadlines, close during a start | every call is answered, the registry names the processes it thinks it does, nothing outlives `Close` |
| Device operations (`device/goios.go`) | per operation: device entry, goroutine, error | attempt, gate check, tunnel, retry | timeouts that abandon goroutines, a retry after an unknown outcome | at most one effect, no early success, every operation returns unless a lookup hangs |
| Omega restore (`device/restore.go`, `omega.go`, `mbdb.go`) | message stream, file batch | `restoreViaLink`, `serveOmegaFiles` | the device leads; messages in any order, the connection ends anywhere | every frame is the expected one, success means restored |
| Device selection and versions (`device/device.go`, `versions.go`) | the list of attached devices, the version table | `Resolve`, `entry`, `OmegaVerdict` | devices come and go between choosing, judging, asking and acting | what is acted on is what was chosen and judged |
| Device screens (`tui/device.go`) | line channel, done channel, stop flag | `dvSyslog` and its three goroutines | a channel that fills, three events ready together, a blocked read | order kept and no gap, a stop loses next to nothing, Enter ends the screen, no goroutine is stuck on the channel |
| Menu (`tui/*.go`) | the question asked, terminal mode, readers of the input | choose, ask, run | end of input, defaults, leftover readers | the menu can always be left, nothing is started unasked |
| Resolver (`fetch/*`) | cache directory, indexes, recursion stack | `Resolve`: locate, download, walk; prune, clear | cycles, alternatives, failing requests, crashes in a write, stale files | a closed set of the right files, and an end |
| Injection (`inject/inject.go`) | staging directory, mode, needed set, bundle | `Inject` and its placement helpers | the mode may switch, items depend on each other, random map order | what is loaded is shipped, one hooking runtime |
| Run (`app/run.go`, `options.go`) | scratch directory, the user's files | merge, validate, prepare, edit, sign, write | options from several sources; a failure or crash at any step; output and input may be one file | what was asked for last is in the output, the input survives, success means a whole output |
| Configurations (`cyanfile`) | archive | generate, validate, parse | written by other programs too, checked twice by different code | what is accepted is applied, what is refused changes nothing |
| App bundle (`appbundle/*`) | Info.plist in memory and on disk, extensions, executables | name, id, icon, extensions, fakesign, thin, reference check | edits that only partly succeed, two copies of the plist | the file says what was asked, references reported exactly when missing |
| Mach-O editing (`macho/*`) | one binary | dependencies, rpaths, sign, strip, thin | load commands that no longer fit, fat files | an edit is atomic and changes what it names |
| Archives (`ipa`, `deb`, `artifact`, `fsutil`) | files | extract, repack, build, collect | torn archives, hostile names | what is packed is what was there |
| Extraction (`artifact/manifest.go`, `app/package_cmds.go`) | artifacts, manifest | `extract`, `undeb`, manifest lookup | files moved after the manifest was written, equal base names | what was taken out goes back where it was |
| Patches (`patch/*`) | the bundle | Liquid Glass, full screen | signature discipline | the executable stays signed |
| Check and fix (`app/checkfix.go`) | scratch bundle, search roots | search, place, re-sign, re-check | partial fixes, artifacts with references of their own | the input is untouched, a zero exit means nothing is missing |
| Decryption (`decrypt/*`) | session cookies, saved credentials, downloads | login, purchase, download, rewrite | redirects, two-factor, expiry, a kill between two steps | a session is stored only after a success, a finished download is whole |
| Conversion (`rootless/*`, `app/package_cmds.go`) | unpacked package | rootless, roothide, rootful, Xina, debify | rewriting order, chains of conversions | a converted package finds its own files, and comes back as it was |
| Command line (`cli`, `src/cmd/xkvm`) | flags | one call each | - | - |

**Interaction.** The command line and the menu call `app.Run`, the package and
decryption commands and the device operations. `app.Run` merges the recipes into
the options, calls the resolver, then the injection on the scratch bundle, then
the bundle edits, patches and signing, and writes the output. A gated device
operation calls the tunnel manager between its two attempts; manager state is
shared between concurrent operations. The syslog screen runs a device operation
in a goroutine and talks to it through channels; its reader shares standard input
with the menu. The resolver's cache directory is shared by all runs, the saved
App Store session by all decryption commands, an extraction's manifest by
`extract` and every later run.

## Modules

| Module | Models | Notes |
|---|---|---|
| `TunnelService` | what callers of the tunnel manager are promised | abstract: a call is answered "ready" only while the device is published, or refused |
| `Tunnel` | `device/tunnel.go` | one action per step of `ensure` between lock operations, polls and selects; the agent and the `go run` wrapper are separate |
| `DeviceOps` | the shared path of gated operations in `device/goios.go` | instances `TunnelService` for the tunnel manager |
| `OmegaRestore` | `device/restore.go` | host loop, device and two message queues |
| `OmegaCommand` | `device omega` in `cli/devcmd.go`, `dvOmega`, `Resolve`, `entry`, the version table | extends `OmegaRestore`: choosing, judging and asking, and then the restore; devices are plugged and unplugged at any time before it |
| `SyslogScreen` | `dvSyslog` and `chanWriter` in `tui/device.go`, the syslog loop of `goios.go` | handler, screen and reader processes |
| `Menu` | `tui/tui.go`, `select.go`, the questions of `tui/device.go` | extends `SyslogScreen`: the menu, the screen and the reader it leaves behind take turns on one input |
| `Fetch` | `fetch/*` | small-step recursion of `walk`, with the stack as a variable; what is first in an index or a list of alternatives is the least of a set of positions |
| `Inject` | `inject/inject.go`, deb expansion | one action per step of `Inject`, one per kind of item |
| `Pipeline` | `app/run.go` and the signing passes it calls | extends `Inject`: the injection's actions are part of its next-state relation |
| `AppRun` | the bundle edits of `appbundle/appbundle.go` and `patch/` inside a run | extends `Pipeline`, and is shown to implement it |
| `Options` | `app/options.go`, the merge and manifest lookup of `app/run.go`, `cyanfile/`, `exportArtifacts` | extends `AppRun`: from a command line to the job `AppRun` carries out |
| `PackagePaths` | how the converters of `rootless/` rewrite one path | operators only |
| `Convert` | the steps of the converters and `debify` on a package | extends `PackagePaths`; the output of one conversion is the input of the next |
| `SessionStore` | what the saved App Store login promises | abstract: nothing, or a whole session the store granted |
| `Decrypt` | `decrypt/*`, `app/decrypt.go` and the decrypt screen | shown to implement `SessionStore`, kills included |
| `CheckFix` | `app/checkfix.go`, `appbundle/check.go` | the search for one reference at a time, then the output |
| `RunProofs` | theorems about `Pipeline`, `AppRun` and `Options` | |
| `TunnelProofs`, `DeviceOpsProofs`, `OmegaCommandProofs`, `MenuProofs`, `FetchProofs`, `DecryptProofs` | theorems about the module each is named for | |
| `PackageProofs` | theorems about `CheckFix` and `Convert` | |
| `MC*` | constants, inputs and symmetry for TLC | |

How state and actions correspond to the code is listed definition by definition
in `PROJECT.json` under `map`. In short: a variable is a Go variable, channel,
map or file of the same name where there is one; a program counter stands for
the position in the function; an action is the code between two points where
another goroutine, the device, a failure or a crash can intervene. A callee that
changes state is part of its caller's action. Bytes, log texts and formats are
left out; a name stands for one content, and a path is kept only where a rewrite
or a lookup depends on it.

`Inject` and `Pipeline`. A *reference* `[at, name]` is the target of a load
command, and the same pair is a place in the bundle: `rpath` is `Frameworks/`,
`exec` the app root. `shipped` maps places to what lies there: its references, the
ones whose rewrite did not fit (`stuck`, a warning in the code) and whether the
app, a tweak or the embedded extras supplied it. A failing step sends the run to
`failed`; what it left half done is in the scratch directory and cannot be seen,
so one action stands for all failures. `run.place` says how the path of the output lies
to that of the input: apart, the same, the same in another spelling (a link, another
case), a directory around it, or inside an `.app` input. The guard of `run.go` 52 sees
the second only. An item is a path of the staging directory, and a later deb may unpack
another file over it; `StagingAssumption` has two debs of one run that ship an artifact
of one name ship the same one, so that the item is the same before and after.

`AppRun`. A plist is a function from keys to values, and there are two of them:
`plist`, which a `Bundle` keeps in memory, and `plistFile`, which an edit saves and
the patches read and write. An identifier is the sequence of the pieces it is
written with, so that `ReplaceAll` has something to replace in.

`Options`. Everything between the command line and the run is a function of what
was typed and what lies on the disk, so it is written as operators on a `line`:
`MergeCyans`, `Validate`, `Dedupe`, `RootDylibsFromManifests`, `JobOf`. A recipe is
written by `cgen` or by another program, which may set any option. A tweak that was
taken out of an app is a file below the extraction's directory.

`Convert` and `PackagePaths`. A path is a marker (absolute, `@rpath`,
`@loader_path/.jbroot`, shebang) and its components; that one name begins with another
is a constant (`Begins`), so that prefix tests behave as they do on strings. A
package maps places to files with load commands, strings, entitlements and a
signature. A job is a list of steps in the order of the Go function.

`Menu`. A tool is a graph of questions and runs. What a line says is chosen when it
is read: `good` is an answer the question takes, `bad` one it does not, `cancel` a
word of `isCancel`. What the runs do is in the other modules. Two readers that are
blocked on standard input at once race for the next line (they share a
`bufio.Reader` without a lock); either may get it. On a terminal an end of the input is
an empty line; keys a leftover reader takes in raw mode are not seen by anyone and
change nothing, and raw-mode hang-ups are left out. One syslog is watched per session.
The list of devices a screen begins with (`deviceOrHint`) is taken to answer within
its step.

`Decrypt`. One command at a time: the sign-in with its redirects, pods and
approval, the purchase, the download and the rewritten archive, with a store that
answers as it likes and a kill between any two steps. An archive is the sequence of
its entries.

`CheckFix`. A bundle is a set of items, what one contains is given by its name, and
a reference is its prefix and the first component after it, which is all the check
looks at.

## Runs

| Run | Question | Bounds, and why they are enough |
|---|---|---|
| `tunnel_safety` | do racing callers corrupt the registry or lose a process? | 2 callers, 2 processes, 1 device, 1 poll; two processes are what it takes to forget the wrong one |
| `tunnel_service` | does the manager implement its contract, is every call answered, does `Close` end what it started? | 2 callers, 1 process |
| `device_ops` | can an operation act twice, late, or never return? | 2 operations, so that abandoned goroutines of one meet the next; an operation has three lookups, two attempts and a version query |
| `omega` | is the right device restored, and is the host's half of the protocol right? | 2 devices over 2 transports, on iOS 26.1 and 27.0; the menu and three command lines; 6 versions to answer with, one of each row of the table, one Apple never released and one beyond it; a file of three chunk halves, one name the backup lacks, 2 requests |
| `menu` | are lines kept in order, can every screen and the menu be left, is anything started unasked? | a channel of 2, 4 lines, 1 line typed ahead: the channel fills with lines still to come, and the reader and the menu want the same line; every answer at every question |
| `fetch` | is the result closed, right and reached? | 3 packages in a cycle, 4 repositories, 2 runs with changes and crashes between; after the change one package's file is named by Canister only, and another's by nothing |
| `pipeline` | does a finished run do what was asked, and an unfinished one leave the user's files alone? | four groups of command lines: 8 tweak lists of up to 3 items under every combination of the options the injection's properties mention; 6 ways to edit a bundle with 4 extensions, with and without one of the user's; every pair of 6 recipes, whole, torn or wrong, of two generators, around three lists of files with and without fetched and bundled ones; tweaks injected again from four places around an extraction. The ways the output can lie to the input are tried without tweaks, where nothing else changes, but for `same`, which meets every tweak list |
| `convert` | does a converted package work and come back? | 4 packages (rootful, a rootful one with the odd cases, rootless with system files, a single dylib) through 18 chains of up to two jobs |
| `convert_var` | is every rootful package converted? *violated* | the rootful package, and one with a file under `/var` |
| `decrypt` | is the saved login the granted one, is a download whole, does every command end? | 2 accounts, 8 commands, 6 archives, 2 commands in a row, 2 granted sessions |
| `checkfix` | is what is placed found again, is success true, is the output signed? | 3 apps under every combination of the options; two debs with one name in common, a loose file, a repository |
| `checkfix_input` | is the input untouched? *violated* | the same |

What the properties say, by run:

- `tunnel_safety`: the registry names processes of its own device (`RegistryHonest`), a
  caller forgets or stops the process it waited on (`WaitsOnRegistered`), a live
  process is registered (`Tracked`).
- `tunnel_service`: `ImplementsService` is the refinement with its liveness,
  `CloseEndsWrappers` that nothing the session started goes on as a `go` tool.
- `device_ops`: one effect at most, and one if success is reported
  (`AppliedAsReported`); nothing after a final answer (`NoLateEffect`); an operation
  returns, or is for ever in a lookup of the device (`OperationsReturn`).
- `omega`: a restore reaches the device that was named and judged, and no blocked one
  unless the user gave its version (`RestoresWhatWasJudged`); the device never gets a
  frame it does not wait for and a refusal is never a success (`DeviceSatisfied`); while the connection lasts it is answered.
- `menu`: what is printed is the stream from its first line on without a gap; while the
  screen is open no other line is missing than the one given up after the stop; when it
  has returned a stop has lost one line at most, the end of a stream a channel full at
  most (`LinesInOrder`, that is `InOrder` and `DropsBounded`); `StopEndsScreen`, `NotStuckOnChannel`;
  a run that cannot be taken back was asked for by an answer (`NothingUnasked`); a
  session whose input has ended ends, or is for ever in one of its runs (`SessionEnds`).
- `fetch`: `Closed`, `HashedIsRight` (no torn, stale or foreign file passes for a
  package whose hash is known), `RunEnds`.
- `pipeline`: what is loaded is shipped (`RefsShipped`), one hooking runtime
  (`OneRuntime`), entitlements kept (`SignatureSurvives`), the input untouched until the
  bundle is built, and after it unless the output is its path and may overwrite it, or
  leads to or around it in another spelling (`InputSurvives`); the saved plist is what was asked for (`SavedIsAsked`), extensions
  follow the identifier (`ExtensionsFollow`) and the user's own stay
  (`OwnExtensionsStay`); of what several sources name the last wins and nothing is
  lost or added (`LastNamedWins`); what was extracted goes back to where it was
  (`LandsWhereItWas`).
- `convert`: binaries still name the files of the package (`RefsFollow`), entitlements
  are carried through every strip (`EntitlementsKept`), no file is lost or doubled
  (`PayloadKept`), there and back is the identity where it can be (`RoundTrip`).
- `decrypt`: the refinement `ImplementsStore`; purchases carry a granted session
  (`BuysAsSignedIn`); a request for approval reaches the user (`ApprovalReported`);
  `OutputRight`; `CommandEnds`.
- `checkfix`: `FixLandsWhereChecked`, `SuccessMeansResolved`, `OutputSigned`.

Every property of a passing run has a mutant, a change to one definition a
plausible bug would make, under which TLC finds the property violated. The
mutated forms stand before the definitions they change, marked as mutants or as
deliberately wrong variants. `CHECK_DEADLOCK FALSE` is set where the modelled
system may really stop: a user who asks for nothing, a device that sends nothing,
a last command that is done.

**Fairness.** Only the program's own goroutines and its timers are assumed to
go on. `Tunnel`: callers inside `ensure`, `Close`, the context that kills
processes; the mutex is fair to a caller that keeps asking (SF), as Go's is.
`DeviceOps`: what an operation does between its waits, the timers of `run()` included, and
the manager's answer; not the goroutines inside go-ios, since nothing there promises
that they end, and not the lookups of the device entry (`Lookups`), which list the devices
and shake hands with a tunnel on the operation's own goroutine, with no context, timeout
or `run()` around the calls. `OmegaRestore`: the host's loop and
the delivery of what it sent; nothing makes the device ask or finish; `OmegaCommand`
assumes the same once the restore runs, and nothing of the user before. `Menu`: the
menu's own steps, the handler where it does not wait for the device, the screen, its
two-second timer and the return of a reader that has a line or the end of the input;
nothing makes the handler's connection open, the device log, a run come back or the user
type. `Fetch`: a started run, since every request has a client timeout.
`Decrypt`: a started command; its requests have timeouts of 60, 30 and 15 seconds
or minutes (`decrypt/client.go`, `download.go`, `resolve.go`). The other modules claim no
liveness.

**Refinements.** `Tunnel` implements `TunnelService` (checked with liveness, safety
proved), `Decrypt` implements `SessionStore` (checked and proved), `AppRun` implements
`Pipeline` and `Options` implements `AppRun` (proved).

## What the violated runs show

- `convert_var`: `var/jb` is created before the children of `var/` are listed, so it is
  one of them, and moving it into itself fails: no rootful package with files under
  `/var` can be converted, against the comment at `rootless/rootless.go` 345.
- `checkfix_input`: the only guard compares two spellings of a path; with an existing
  directory around an `.app` as the output the input is removed, with another
  spelling it is written over, against "the original input is never touched"
  (`app/checkfix.go` 37, 54, 166).

Seven more promises are stated in the modules and not carried by a run, because the
code does not keep them:

- `NoneSwallowed` (`SyslogScreen`): after a stop the screen finds the channel empty and
  waits; the handler writes its last line and exits, and the second select takes the
  exit. The line stays in the channel, against "printing the line first guarantees no log
  line is swallowed by the "stopped" banner" (`tui/device.go` 281, 297; also 234-236).
- `OverwriteAsked` (`Pipeline`): the output may be the input by another name, through a
  link or in another case, or for an `.app` a directory around it. The guard compares
  two spellings, so the input is written over or removed without `--overwrite`,
  against "refusing to overwrite the input; pass --overwrite or -o with a new path" and
  "aliases ... are caught too" (`app/run.go` 48-53, 280). It is the guard of
  `checkfix_input`.
- `CloseTearsDown` (`Tunnel`): `kill` reaches the `go run` wrapper only; the agent
  survives `Close` (`device/tunnel.go` 56, 99, 291).
- `OkMeansRestored` (`OmegaRestore`): an end of the connection at any point of the
  loop is reported as a successful restore (`device/restore.go` 92-95).
- `SweepFindsListed` (`Fetch`): a default repository whose index was loaded for one
  package is skipped for the next one (`fetch/fetch.go` 183).
- `LoadOnce` (`Pipeline`): with two debs, the artifacts of the first are collected again
  and get a second load command (`inject/inject.go` 149, `app/options.go` 114).
- `RuntimeClosed` (`Pipeline`): CepheiPrefs is materialised without Cephei, which it
  loads; under ElleKit, Orion without CydiaSubstrate (`inject/inject.go` 256).

## Divergences met while modelling

The modules follow the code at each of these.

Devices:

- `tui/device.go` 297: a line buffered between the drain and the second select
  can be left unprinted, although the comment at 281 excludes it (`NoneSwallowed`).
  313: when the stream ends by itself the select may take its end while up to 128 lines
  lie in the channel; they are not printed. `DropsBounded` says how many are lost.
- `device/goios.go` 63, `tunnel.go` 326: every operation lists the devices and shakes hands
  with the tunnel outside `run()`, which is there to bound such calls (738): usbmuxd or a
  tunnel that does not answer hangs the operation, and so does the device lookup of
  the version query (171). `OperationsReturn` shows that nothing else does.
- `device/goios.go` 280: with `XKVM_NO_AUTO_TUNNEL=1` an operation ends with its
  own hint and not with the manual tunnel command of `cli/devcmd.go` 72.
- `device/goios.go` 744: an operation that times out twice leaves two goroutines.
- `cli/devcmd.go` 381, 412: "--ios X.Y overrides", but a command that is given it never
  resolves a device, also beside `--udid`; the restore then looks for the UDID "" and
  ends with "no device with UDID". In the model no behaviour with `--ios` reaches
  the step "restore".
- `tui/device.go` 327, `cli/devcmd.go` 383: ">=27 hard-blocked" beside "28+ untested";
  the table blocks 27 and leaves 28 and later untested. The model follows the table.
- `device/tunnel.go` 156: two overlapping calls on one device can leave two live
  tunnels; `Tracked` holds for devices without such an overlap.

Menu:

- `tui/tui.go` 304: "flow helpers use EOF as cancel" is true of some; `pathPrompt`,
  `askYesNo`, `chooseLineMulti` and `compressPick` take their defaults, so an end of
  the input midway runs the injection with overwriting on.
- `tui/tui.go` 48: `eof` is set and read nowhere, though "the menu loop checks it". The
  session ends all the same, by way of the empty answer.
- `isCancel` promises a way out of any question: a path question takes `q` for a
  file name, a later one of a list ignores it, a yes/no question takes the default.
- `tui/select.go`: `chooseRaw` ignores an error of `navigate`, and reads `os.Stdin` past
  what the line reader has buffered.
- `tui/device.go` 266: a reader left by a stream that ended competes for what is typed
  next. The menu makes a device session and nothing closes it.

Resolver and injection:

- `fetch/fetch.go` 202: a pinned version is replaced by the version of the
  repository's first entry, against the comment at 31.
- `inject/inject.go` 51: a tweak built against `ElleKit.framework` itself matches
  no key of the table: it neither switches the run nor brings the framework, and
  beside a substrate tweak the app refers to two runtimes, against the comment at
  21. `OneRuntime` and `RefsShipped` exempt references the run knows nothing of.
- `inject/inject.go` 195: when all dylibs go to the app root no rpath is added,
  and a hooking framework they need is loaded through `@rpath` all the same.
- `app/run.go` 48: "aliases ... are caught too" holds of spellings that are equal once
  absolute, not of links or case (`OverwriteAsked`).
- `app/run.go` 582: `copyDir` says it materialises symlinks and re-creates them.

Options, recipes, extraction:

- `app/run.go` 450: "every remaining scalar key OVERRIDES": a recipe's `false`, a
  compression of 0 and an empty name do not (506-527).
- `app/run.go` 119, 132: fetched and bundled files join after the last look at base
  names, so one called like a `-f` file is injected beside it. `LastNamedWins` says so.
- `app/run.go` 419: the manifest is not looked for when a dylib is named from inside the
  extraction's directory, against 399-405; a corrupt one ends the walk; the walk from
  a recipe's payload passes through the scratch directory's parents. A framework
  extracted from the app root and a dylib nested elsewhere do not go back.
- `--root-dylib` marks a name that some file of `-f` must have; alone it does nothing.
- `cyanfile.go` 323-368: `cgen` cannot pack a folder, which the menu offers, and leaves a
  torn archive under the final name, over an older one too. Placements known from an
  extraction are not written.
- `cyanfile.go` 74, 411: of two `config.json` entries the check reads the last and the
  parser the first. `k`, `l`, `x` count as given when they are `false`. A root dylib
  that is none, a compression out of range and both glass patches pass the check and
  are refused later.

Bundle:

- `appbundle/appbundle.go` 189: plists that both hold an array or a dictionary under one
  key are compared with `==`, which panics; the model reaches `crashed`.
- 155: an app without an identifier gets the new one inserted everywhere. A merged
  identifier renames no extension, a merged executable's name is not followed, and
  extensions below another directory keep theirs.
- 72: a name that is already the app's returns before the localized names.

Check and fix:

- `appbundle/check.go` 131: the executable directory of an extension is taken to be its
  parent's; references that climb end at a directory that always exists; `LC_RPATH` is not
  looked at, and of a reference only the first component is checked.
- `app/checkfix.go` 174: what a failed copy left of an artifact is used by the next deb.
- Frameworks without a plist and binaries in a `.bundle` are not signed; the second
  tier matches names in other spellings than the search finds.

Conversion:

- `rootless/rootless.go` 223: the special cases come before the veto on `/var/jb`, so paths
  that are rootless already get a second prefix; short Xina forms too. Script tokens
  are replaced inside longer words. A rootless conversion rewrites no `LC_RPATH`.
- `xina.go` 70: the byte replacement reaches the load commands of system libraries that
  the list for the way back lacks. 143 and `rootful.go` 101: "rebuilt unchanged" writes
  no output.
- `rootful.go` 341: `/var/sh` is a prefix of `/var/share`; 15: an `@rpath` reference to a
  framework is never resolved; equal base names resolve to the first; paths below
  `/var/jb/Library` in scripts stay; a package with files under `var/jb/var` cannot be
  converted.
- `roothide.go` 156: "no rename can collide" is false: a directory of the payload that
  meets a loose one fails the conversion, a file takes the place of a loose file and
  moves under `rootfs/` in its stead. The move to TweakInject writes over
  files of the same name. A Xina package passes the gate and keeps its short forms.
- `app/package_cmds.go` 277: extracting twice into one directory writes an empty manifest.
  `debify` marks a rootful layout with the rootless architecture.

Decryption:

- `decrypt/download.go` 175: the archive is rewritten in place, against `util.go` 10. 102: a
  watch app that comes first is taken for the app.
- `decrypt/client.go`: after five redirects the body read is closed already; 288 and
  `Download` disagree on what an empty version means.
- A login that cannot be saved leaves the session of the account before; a failed
  logout in the menu asks for credentials all the same; on a terminal the command
  asks for credentials though a session is saved; `AskModeReuse` is never written.

## Proofs

Every theorem holds for all values of the constants: any number of callers, devices,
packages, files and lines, sequences of any length. What is assumed of the constants
stands in a named ASSUME beside them, which TLC evaluates in the runs; a theorem
assumes nothing else. In every proof the property is not inductive by itself. The
module first states the invariant that is, made of named parts, then has a lemma per
action (or per group of actions that touch the same things) which shows that a step
keeps it, and each theorem follows from the invariant. Every invariant was checked by
TLC on the run's instance before it was proved.

`TunnelProofs`, for any callers, devices, processes and budget:

- `TrackedAlways`, `WaitsOnRegisteredAlways`, `RegistryHonestAlways`: the safety
  properties of `tunnel_safety`. A caller that waits must be known to wait on what
  the registry names, a process that is alive must have an owner, and the lock must
  exclude the callers between lock and unlock.
- `ImplementsServiceSafety`: every step of the manager is a step of `TunnelService` or
  leaves its state unchanged, the safety half of `ImplementsService`.

`DeviceOpsProofs`, for any number of operations in a session, with the goroutines a
timeout abandons going on beside later operations:

- `AppliedAsReportedAlways`, `NoLateEffectAlways`. The count of effects says nothing about
  the attempt that is still under way, so `EffectInv` ties it to the last attempt's
  goroutine: the gate is the only way from the first attempt to the second, and it
  is reached before anything happens on the device. `ReplyInv` says which replies
  leave a goroutine behind, `ProgressInv` that operations not yet begun have none.

`OmegaCommandProofs`, for any devices, versions, commands, backups and file sizes:

- `RestoresWhatWasJudgedAlways`. The property speaks of the last step only; `JudgedInv`
  follows the chosen device from the first: nothing but a listed device is chosen,
  the lookup of an operation returns the device it is asked for or none, and with
  no device chosen it returns none.
- `DeviceSatisfiedAlways`: the host speaks the protocol for any order of requests. The
  device reads behind the host, by any number of frames, so their states cannot be
  compared directly. `InStep` says that reading all that is under way takes the device
  from where it is (`Path`) to where the host takes it to be (`Agree`). A frame sent
  makes the path longer, a frame read makes it shorter, and a frame read is the first
  step of the path, hence expected. `Verdict` keeps a refusal from being overtaken.

`MenuProofs`, for any capacity of the channel, any stream and any typed lines, beside
the menu:

- `LinesInOrderAlways`, from `InOrderAlways` and `DropsBoundedAlways`. While the screen is open, what is printed, what is in the channel
  and the line in the handler's hands, put one behind the other, are the device's stream
  so far (`StreamInv`); a line is given up only when the context is cancelled, and the
  context is looked at before the next line (`LossInv`), so the lost one is the last. What
  was printed stays the beginning of the stream when the screen returns.
  How many lines a screen that has returned leaves is settled in the
  moment it returns and by what the handler may still read after it. `EndInv` says so of
  each way to return: a stop has emptied the channel after it cancelled the stream, so at
  most the handler's last line is behind it; an end of the stream leaves what the channel
  holds, and no handler that could add to it.
- `NothingUnaskedAlways`: no question of any screen leads from an empty line, an
  unknown word or the end of the input to what cannot be taken back.

`FetchProofs`, for any packages, repositories, dependencies and failures:

- `ClosedAlways`. While a run goes on its result is not closed, and in a cycle it
  cannot be closed frame by frame. `ClosedInv` says of every dependency of every
  resolved package that an alternative has been begun, or a frame of the walk still
  has to look at the group. `WalkInv` says that at most one package is begun and not
  resolved, the innermost frame's; when the walk has returned nothing waits, and what
  was begun is what was resolved.
- `HashedIsRightAlways`. A download truncates a file that may serve for another version
  of the same package, so the invariant needs that a package is resolved once in a
  run (`WalkInv`) and that file names of different packages differ. `FileInv` says
  that the file under the name being written is the one its hash is of.

That the first arm64 stanza, the best record and the first alternative exist (each is
a CHOOSE) is proved by well-founded induction on finite sets (`Minimal`).

`RunProofs`, for any command lines, recipes, tweak lists, entitlements and items:

- `UserFilesAlways`: in every reachable state the input is untouched, or the whole
  bundle is built and its output is the input's path in a run that may overwrite it, or
  leads to or around it in a way the comparison at the start cannot see
  (`InputSurvives`); and success means a complete output (`OutputHonest`). The comparison
  has to be carried through every phase to the write (`FilesInv`).
- `OneRuntimeAlways`: a run materialises one hooking runtime and rewrites
  references to that one only (`OneRuntime`). The property relates references
  rewritten at different times to the current mode; it becomes inductive with two
  facts, that no tweak is in the bundle before the pre-scan and that no item left
  after it can switch the mode (`RuntimeInv`). The switch inside `fixCommonDeps`
  is shown to be the no-op its comment says it is (`ModeForSettled`).
- `SignatureAlways`: a finished executable carries the entitlements asked for or
  its own (`SignatureSurvives`); the invariant says where they are in every
  phase (`SignInv`). `InjectAssumption`: an unsigned app carries no entitlements;
  tweaks and what a tweak holds are lists.
- `RefsShippedAlways`: a finished bundle has every file the injector made something
  load (`RefsShipped`), and `LinesShipWhatTheyLoad` the same from any command line. A
  reference is rewritten when its dylib is placed and what it then names may come much
  later: `RefsInv` says that each is in the bundle, or names an item still to place, or
  the framework of a key still needed; that the items up to `placed` are where `InjectedAt`
  sends their references (`PlacedInv`); and that the executable loads only what is there.
  What is placed is a list of items, whatever the debs leave in the staging directory
  (`ListsInv`). The theorem has a condition on the input, `Ordinary`: no dylib gives as the
  name of a library that of an injected extension or resource. The code would point such a
  reference at `Frameworks/` or the app root by the name alone, wherever the file went
  (`inject.go` 481-507). `Ordinary` holds in every state of the `pipeline` run in which
  items are placed.
- `RunImplementsPipeline`: each action of the run with its bundle edits is an action
  of `Pipeline` or leaves its variables alone, so the theorems above hold of
  the whole run (`RunKeepsPromises`).
- `OwnExtensionsAlways`: an extension the user brings is in every finished bundle. The
  invariant (`OwnInv`) follows it through the run: before the injection nothing of the
  user's is in `PlugIns`; afterwards an extension leaves `PlugIns` only for another of
  its name.
- `OptionsImplementRun`: the command line only chooses the job, so a run started from
  any of them is a run of `AppRun`, and `LinesKeepPromises` carries the theorems above
  to it.
- `SavedIsAskedAlways`: the saved Info.plist is what the edits and patches ask for. Part
  of the edits come before the new entitlements and part after; `OrderInv` says that what
  is left to make is the rest of one list, `KeyInv` that each key has, in memory and in
  the file, what the edits made so far leave it with, the patches being in the file only.
- `ExtensionsFollowAlways`: an extension below the app's identifier is below its last one.
  `FollowInv` says so of every step of a run. It rests on `ReplaceBelow`: a replacement of
  every occurrence in an identifier that begins with the old one begins with the new one
  and has something behind it. That the recursive `ReplaceAll` is the function its
  definition says is shown from its end to its beginning, by well-founded induction on
  sets of positions. `Identified` says what an identifier may be; of every command line it
  is an assumption (`IdentifiersAssumption`), which TLC evaluates.
- `LinesSaveWhatTheyAsk`: both of them from any command line.
- `LastNamedAlways`: of the files of one base name the last named is injected, nothing is
  injected that was not named, fetched or bundled, the last value given for a key is in
  the Info.plist, and no patch or switch is lost. Three folds decide it: the recipes
  merged one after another (`AllMerged`), the files deduplicated by base name, which
  keeps the last of each (`DedupeKeepsEnds`), and the patches collected by key. Each fold
  is unrolled into the sequence of its intermediate values and followed by an induction on
  a set of positions (`Upward`). `WinnersAreLast` and `PatchesAgree` compare the results
  with what the property says directly of the list of sources; `ExpandInv` relates the
  items placed to the tweaks they come from. `LinesAssumption` (which fields options have,
  that a generated cyan sets no single value but the name, that patches named on the
  command line are known ones) is evaluated by TLC.
- `LandsAlways`: what was extracted from an app is put back where it was. Three chains
  meet: an item goes once to where its kind and the app-root list send it and nothing takes
  it away (`HomeInv`); the file that is injected is the one that lies below the extraction
  (`KeptTo`, by the induction over the recipes) and finds its manifest, not another's
  (`ManifestFound`, `ManifestSays`); and its name is on the app-root list exactly when it
  was at the root or was asked to be (`RootWhenAsked`): no root of a recipe, no other
  manifest and no fetched tweak puts it there. That a plain file's base name is its item's
  name and kind is part of `LinesAssumption`.
- `RefusedAppliesNothing`: a line that is refused has changed neither the user's files
  nor anything of the app ("nothing was applied", `app/run.go` 479). Its invariant keeps
  such a run at its first step or in its end.

`DecryptProofs`, for any accounts, archives and commands, with a kill between any two
steps:

- `StoreImplemented`: every step changes the saved login as a step of `SessionStore`
  does, or not at all. `ClientInv` says of each position in a command whose session
  the client holds, `GrantInv` that what is saved, live or latest has been granted.
- `BuysAsSignedInAlways`, `ApprovalReportedAlways`: from the same invariant.
- `OutputRightAlways`: `ArchiveInv` says what the rewritten archive has been made of
  whenever there is one, `FolderInv` which folder the command settled on and which are
  remembered, and that a command that ends well has the file in place. What
  `writeRewrittenZip` delivers is a lemma on the archive alone (`ArchiveRight`): the copied
  entries, the metadata and the DRM files do not overwrite one another. It rests on
  `ArchiveOk` (an archive, and a list in a manifest, names nothing twice), which TLC
  evaluates.

`PackageProofs`, for any app, load commands and debs:

- `FixLandsAlways`: the place a fix is put is one the check resolves the reference to,
  for every kind of reference and inside extensions. `AppInv` carries it over the
  artifacts placed later, which never remove one.
- `SuccessMeansResolvedAlways`, `OutputSignedAlways`: `OutputInv` says in which steps
  everything in the bundle is signed, and that an output appears only at the end.
  `BundleOk` (a framework that a path goes through is an item itself) is what the
  lookup of a nested place rests on; that a path of any length has a first framework
  is proved by well-founded induction on finite sets.

and for any packages and any chain of conversions:

- `EntitlementsKeptAlways`: a signed executable of the first package is signed in every
  output with all it came with, and no library has become a platform binary. The property
  speaks of finished outputs only; `KeptInv` says it of every file of every tree at every
  step, the mirror's copies and the files on their way to the next conversion included. Two things
  carry it: each converter's edit of a binary reads the entitlements before the strip
  that loses them (`RootlessCarries`, `XinaCarries`, `RootfulCarries`,
  `RoothideCarries`), and a step that moves, copies or adds files puts nothing in a tree
  that was not a file of it (`MovedFiles`). Which file is which is known by `who`, which
  `PackageOk` says is unique in a package and `ChainOk` is not that of an added file; both
  are assumptions on the constants, and TLC evaluates them.

Only model-checked: of `Convert` `RefsFollow`, `PayloadKept` and `RoundTrip`. They are about
what the rewriting of paths computes for paths of any depth, and for every package they
would need assumptions on its layout (no package folder inside another, no path that two
old ones are rewritten to) that the converters do not check. Liveness, and with it the
fairness half of the refinements, is out of the prover's reach.

## Plan

1. Done: every component of the inventory that keeps state, and a theorem for all
   safety properties of the devices, the menu, the resolver, decryption and check.
2. Left: proofs of what the path rewriting of `Convert` computes on packages whose layout
   it does not confuse.

## Not modelled, and why

- Byte formats (Mach-O layout, DER, CgBI and icon variants, mbdb, tar, ar, zip): inputs
  beyond a finite model's reach, with no order or concurrency.
- Preflight: a probe of the usbmuxd endpoint for a report; nothing is done with it.
- Thinning, the encryption check of the main binary and `validate`'s look at paths
  (URL decoding, suffixes, existence): they stop a run before it begins or change
  nothing a property speaks of.
- Drawing, key decoding, colours, logs and plist encoding; embedded binaries and
  installers; flag declarations.
- Two xkvm processes on one cache directory: a real hazard (`fetch/repos.go` 192) that the
  resolver's model, one process at a time, does not cover.
