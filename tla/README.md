# A verification of NootExtract

NootExtract acquires evidence from Android devices through `adb`, keeps it in a *case
directory* together with hashes and manifests, and derives segmented images and working
copies from it.  This directory holds TLA+ models of the parts whose correctness depends on
order, failure and concurrency, the TLC configurations that check them on small instances,
and TLAPS proofs of the main results for every value of the constants.

Contents: 1 the system, 2 the modules and the code, 3 what is checked, 4 what is proved,
5 disagreements between code and documents, 6 behaviour worth knowing, 7 what is not
modelled, 8 plan.

## 1. The system

| component | code | state | operations |
|---|---|---|---|
| evidence store | `evidence/store.rs` | files under `original/`, `derived/`, `working/`; the `.partial` file of each writer | create, write a chunk, publish, keep as incomplete, list, adopt, check the case, write manifest and hash list |
| manifest | `evidence/manifest.rs` | one JSON document per operation | build, write atomically, load |
| hashing | `hashing.rs` | running digests | hash a stream while it is written, hash a file again |
| acquire | `commands/acquire.rs`, `acquisition/*` | the operation under way, its verdict | pre-flight, stream to artifact, re-read, adopt what is left, record |
| process runner | `adb/runner.rs` | child, two pipes, a stderr thread, a watchdog thread, a mutex | `run` (bounded capture, time limit), `stream` (relay, cancel, kill, reap) |
| device questions | `adb/client.rs`, `commands/device.rs`, `commands/doctor.rs` | none; each answer is of its moment | list, identify, check the environment; id, readlink, du, blockdev, properties |
| derivation | `commands/derive.rs`, `imaging/segmented.rs` | derived files, two digests of the source | convert to segments, copy |
| EWF conversion | `imaging/ewf.rs`, `commands/derive.rs` | segments under their final names | refuse taken names, run `ewfacquire`, list and hash, run `ewfverify`, record |
| extraction | `imaging/archive.rs`, `commands/derive.rs` | the files and directories of `working/<base>/`, two limits, what was skipped | take the next entry, write it, stop at a limit, record |
| verification, reports | `evidence/verify.rs`, `commands/evidence.rs`, `commands/report.rs` | none | load manifests, stat, hash, scan the directories, give a verdict |
| interactive shell | `interactive.rs` | a cancellation token for all commands | read a line, ask for what is missing, run a command, guide an acquisition |
| everything else | parsers, quoting, paths, rendering, logging, CLI | none | pure functions and printing |

How they interact.  `acquire` starts `adb` through the runner and hands the runner a sink,
the store's writer; the writer hashes what it writes.  Commands, several at a time or one
after the other, meet only in the case directory: there is no lock and no daemon, so the
file system calls `create_new` and `rename` are the only synchronisation.  Commands that read
a case do so while others write it.  A signal handler sets a token that loops look at between
blocks; the shell shares one token among all its commands.  The device is asked one `adb`
call at a time and may change between any two.

What is hard: two commands in one directory; a crash or a power loss between any two file
system calls; an I/O error, an interrupt or a failed re-read at each point of an acquisition
and what is recorded afterwards; four threads and processes around two pipes and a mutex; a
child that hangs, loses its device, stops short with exit code 0 or is killed; a source file
that changes while it is converted; an archive whose names collide, whose entries are refused,
and which ends where it should not; a verification beside an acquisition; a converter killed
half way and tried again; a device that is unplugged between the question and the transfer.
`PROJECT.json` lists these hazards by line with the properties that cover them.

What makes each component correct, in a sentence: the store never changes or tears a published
file; acquire records what is on the disk and exits accordingly; the runner never loses output,
never reports a killed command as an answer and never hangs where it says it does not; a
transfer is complete only if all the child wrote is in the artifact; a derived set is its
source; an extraction records all it wrote and accounts for every entry; a verdict is true of
every file that was left alone; a container is recorded whole or not at all; a short capture is
stated; evidence is read only from a device that was asked afresh.

## 2. The modules and the code

| module | models | extended by |
|---|---|---|
| `Custody` | what a case directory promises, abstractly | |
| `EvidenceStore` | `store.rs`, `acquire.rs`, the end of `adb.rs`, manifests, crashes | `MCEvidenceStore`, `EvidenceStore_proofs`, `Custody_proofs` |
| `CommandRunner` | `SystemRunner::run`, `Watchdog`, `read_capped` | `MCCommandRunner`, `CommandRunner_proofs` |
| `Delivery` | what a transfer promises its caller, abstractly | |
| `StreamTransfer` | `SystemRunner::stream` and the status `adb.rs` gives it | `MCStreamTransfer`, `StreamTransfer_proofs` |
| `Derivation` | `convert --format raw-segmented` and `copy` | `MCDerivation`, `Derivation_proofs` |
| `Extraction` | `extract`: `extract_tar` and the manifest it ends with | `MCExtraction`, `Extraction_proofs` |
| `CaseDirectory` | files and numbered manifests of a case, for the next three | |
| `Verification` | `verify.rs`, `commands/evidence.rs`, `commands/report.rs` | |
| `EwfConversion` | `convert --format ewf`: `ewf.rs` and its part of `derive.rs` | |
| `CaseAudit` | the two beside an acquisition, one that fails and adopts, and somebody who meddles | `MCCaseAudit`, `CaseAudit_proofs` |
| `Acquisition` | `acquire` seen from the device: both backends, `AdbClient` | |
| `Inquiry` | `devices`, `info`, `doctor` | |
| `Session` | `interactive.rs`, the token, the device; the two before within it | `MCSession`, `Session_proofs` |

`acquire` appears three times, each time from another side: in `EvidenceStore` with all the
file system does to it, in `Acquisition` with all the device does to it, and in `CaseAudit` as
the few steps another command can see, of one that stores and of one that fails.

**EvidenceStore.**  `Ops` are executions of `acquire`.  Each has a program counter that
follows the file system calls: `CheckFinal` and `Reserve` are the two halves of
`create_artifact`, `WriteChunk` is one chunk of the stream, `EndStream` the status the stream
ends with, `FlushComplete`/`FlushIncomplete` the flush and sync, `Recheck` and `Rename` the
two halves of `finish_complete`, `Verified`/`NotVerified` the re-read, `LoadRecorded`,
`ListResidue`, `AdoptOne`, `Adopted` the steps of `adopt_residue`, `WriteManifest` the rename
of `write_to`, `WriteHashList` the list after it.  Whatever may fail has an action for
failing.  A file is who wrote it, how long it is, whether it is synced and whether the medium
kept it; a digest is who wrote what was hashed and how much of it.  `SizeOf` is how much the
remote command of each writes: a stream that ends as completed took all of it, which is what
`StreamTransfer` is shown to promise (`Delivery`); whether the command wrote all the device
holds is a question for `Acquisition`.  Exits are those of `error.rs`: `acquire::run` may leave
with an error before there is a manifest (`GiveUp`), and if the token ended the adoption of the
residue (`AdoptCancelled`) the code is 130, as for a transfer that was cancelled and recorded.
`listed` is what `adopt_residue` found in
the directory, and a record carries, beside the fields of the code, where its digest came
from (`origin`): the writer's hasher, or a file read afterwards that was settled on the
medium, not synced, or still being written.  `Crash` ends one command
anywhere, `PowerLoss` ends all and cuts what was not synced.  What a running digest saw
(`hashed`) and what the file holds (`len`) are apart, because a torn write makes them differ.

**Custody.**  A name is sealed at most once, by its operation; a ledger entry is made at most
once, is never changed, names only files that are sealed, each as the work of the operation
that sealed it, and says "complete" only of an operation whose own file is among them.
`EvidenceStore` implements it with `sealed` read off `original/` and `ledger` off
`manifests/`: `Rename` is `Seal`, `WriteManifest` is `Enter`, all else, faults included,
stutters.

**CommandRunner.**  Main thread, stderr reader, watchdog, child and a descendant of the
child that inherited its pipes.  One action per lock, read, wait, flag and kill, and one for
each that may fail (`SpawnFails`, `ReadOutFails`, `ReadErrFails`, `WaitFails`): an error of a
read is kept until the child was waited for, and a child that writes to a pipe nobody reads any
more dies of it (`BrokenPipe`).

**StreamTransfer.**  The start of the child (`Spawn`, `SpawnFails`), the relay loop with the
token looked at before each read, the sink that may fail, the kill, the two waits, the stderr
thread, whose errors are forgotten (`ReadErrFails`); the child, which may hang, or end at any
time with any exit code, and leave a descendant that holds its pipes (`Fork`, `HeirExits`); the
operator, whose Ctrl-C sets the token and, on a terminal, also reaches the child.  Exit code 0
says nothing of the source: `logical.rs:245-252` and `physical.rs:221` expect it of a device that
was lost.

**Delivery.**  What the command above a stream may rely on: the remote command gives data
(`Give`), the artifact takes it and never more than was given, one verdict is told, once, and it
is true ("completed" and "completed with errors": all that was given was taken, and in the
second case it is not nothing; "cancelled": somebody cancelled).  It is what `EndStream` of
`EvidenceStore` takes for granted; it does not say that everything was given, which
`TransferEnds` of `Acquisition` leaves open.  `StreamTransfer` implements it with the blocks
written to stdout, the token, `relayed` and `status`: `Write` to stdout is `Give`, `Relay` is
`Take`, `SetToken` is `Cancel`, `Join` and `SpawnFails` are `Tell`, all else stutters.

**Derivation.**  The source is read twice, a block at a time and with short reads; the files
written so far, the rest of the current block and the counters of the loop are the state.
`Touch` is another program that overwrites, appends to or truncates the source at any time.
`NoCase` and `IdentifierRefused` are the ways in which no case record comes about, after the
files were published.

**Extraction.**  The loop of `extract_tar` over the entries of an archive, one action per way
an entry can go: `Refuse`, `MakeDirectory`, `NotCreated`, `OpenFile` with `ReadBlock` and
`EndOfEntry` or `CutShort`; `EntryLimit` and `ByteLimit` stop it, `EndOfArchive` and
`Malformed` end it, `Cancelled` and `Fails` may at any point.  `disk` is the tree under
`working/<base>/`, which further extractions into the same base find as it was left, and a
path knows the directories above it, so that a file can stand where a directory is needed.
`WriteManifest` names the first `MaxListed` skipped entries (500 in the code) and gives the
number of all; directories are only counted.
`NotResolved` is a command on a case with a manifest that `Manifest::validate` refuses.

**CaseDirectory, Verification.**  A path holds a content, a symbolic link or nothing; manifests
are numbered in the order `load_manifests` returns them.  `Verification` follows a reading
command call by call: the loading (`StartVerify`, `StartReport`, `Reload`, `LoadFails`), the
loop of `verify_with_manifests` (`SkipRecorded`, `NotThere`, `Stat`, `HashFile`, `Vanished`),
`scan_evidence_files` (`ReadDir`, `Inspect`, `EntryGone`), `is_success` (`Judge`) and the token
where it is looked at (`Cancelled`).  `ReaderFault` are the calls that fail by themselves: most
end the command (`IoFails`), but a failing `is_file` or `is_dir` is a plain "no", which makes it
load fewer manifests (the `blind` forms of the loading actions) or not look into a directory
(`DirUnseen`).  Anything may happen to the case between two actions.

**EwfConversion.**  `StartConversion` is everything up to the start of `ewfacquire`, which is
external: `OpenSegment` and `CloseSegment` are its doings, `AcquireFails` is its failure or the
time limit that kills it, at any point, with what it wrote left under final names.  Then
`ListProduced`, `Adopt` for each segment, `VerifyContainer` or `ContainerRejected`,
`RecordContainer`.  A conversion may be tried again.

**CaseAudit.**  Composes the two with an acquisition reduced to `Receive`, `Grow`,
`PublishImage`, `RecordImage`, `RecordPartial` and `Die`; with a second one that fails, of an
evidence id the first one's begins with, of which `adopt_residue` is left: `RivalLists`,
`RivalAdopts`, `RivalRecords`, `RivalFails`; and with `Meddle`, by which somebody else changes,
removes or adds a file.  `steady` and `meddled` remember to which paths something was done,
`unsettled` what the failing acquisition recorded while it was written, `faulted` that a call
failed under the reading command.

**Acquisition.**  One action per `adb` call of `acquire::run` in the order of the code:
`RequireDevice`, then `RequireRoot`, `RequireTarget`, `AskBlockSize` for an image or
`ResolveScope`, `RequireScope`, `EstimateScope` for an archive, then `AskMetadata`,
`CheckSpace` (`ensure_space` with its headroom, the dry run), `TransferStarts`, `TransferEnds`,
`TransferCancelled`, `Publish`.  `DeviceChanges` is the device: its state, its root shell and
what it holds may change between any two.  `Doubts` are the checks after a transfer that ended
with status 0.

**Inquiry.**  `AskVersion`, `ListDevices`, `ReadMetadata`, `CheckDestination`: the questions of
the three commands and what each failure leads to.

**Session.**  The loop of `interactive.rs`: lines typed, a missing argument asked for, the
guided acquisition (`TypeGuided`, `Preview`, `PreviewEnds`, `Accept` or `Decline`), which runs
`acquire::run` twice, and `CtrlC`, which sets the token for good.  A line that cannot be read
closes the shell (`LineUnread`), an answer that cannot leads back to the prompt
(`AnswerUnread`).  `held` collects what was
true of the device since the command under way began.

Module data is kept to what properties tell apart: contents are sequences of two kinds of
units in `Derivation`, lengths in `EvidenceStore`, `StreamTransfer`, `Extraction` and `Acquisition`, and model
values in `CaseDirectory`.

## 3. What is checked

Bounds are the constants of each `.cfg`; none of the runs uses a state constraint.
Deadlock is not checked, because every model ends: commands finish, and then nothing is left
to do.  That they do finish is a property (`TimeoutBoundsRun`, `NoPipeDeadlock`,
`StoppedMeansEnded`, `NoStreamDeadlock`) or a theorem (`CommandsAreFinite`).

| run | instance | properties |
|---|---|---|
| `store_concurrent` | two operations for one name, overlapping, every fault, one chunk | `TypeOK`, `FinalIsWhole`, `WriterRecordsTrue`, `AllRecordsTrue`, `ExitMatchesEvidence`, `NoClobber`, `NothingDeleted`, `RefinesCustody` |
| `store_serial` | three operations one after the other in any order: two evidence ids of which one is a prefix of the other, and another case, one of them with an empty source; every fault | `OneCase`, `ResidueSwept` |
| `command_runner` | a pipe of 2, a limit of 3, output of up to 4 per stream | `TypeOK`, `OutputFaithful`, `KilledNeverReturned`, `TimeoutBoundsRun`, `NoPipeDeadlock` |
| `stream_transfer` | a pipe of 1, up to 3 blocks of data and 2 of stderr | `TypeOK`, `CompletedHoldsAllSent`, `CancelWithinOneBuffer`, `StoppedMeansEnded`, `NoStreamDeadlock`, `RefinesDelivery` |
| `derivation` | segments of 2, blocks of up to 3, at most 2 segments, a source of up to 5 units changed once | `TypeOK`, `Faithful`, `AsPlanned`, `ShortIsPartial` |
| `extraction` | two extractions of up to three entries each, eleven sequences of entries that may break off, one skipped entry listed by name, limits of 2 and 3 entries and of 1, 2 and 9 units, blocks of up to 2 | `TypeOK`, `Manifested`, `WholeIfComplete`, `Accounted` |
| `case_audit` | an image recorded, damaged, missing, linked or under an unreadable manifest; a second manifest of it; an acquisition of another, and one that fails beside it; a conversion into at most 2 segments, tried at most twice; one meddling; every reading command and every failing call of it | `TypeOK`, `VerdictIsTrue`, `EveryFindingHasACause`, `ReportCovers`, `ContainerSealed` |
| `session` | two lines, a device that changes twice, a scope of 0, 4 or 40 units or a link of 1, 41, 42 or an unknown number of units free | `TypeOK`, `ShortCaptureIsSaid`, `FreshlyAsked`, `CtrlCIsForGood`, `NeverClosedByAFailure`, `AnswersWereTrue` |
| `manifest_on_every_path`, `watchdog_blocked`, `interrupted_complete`, `unreadable_case` | the smallest instance that shows it | one property each, violated; see section 5 |

Why the bounds are enough.  *Store*: commands meet through one name (two suffice for a race
to publish, three for a record left by one to be met by the next two); a transfer of one
chunk already has an empty, a torn and a whole file, and two chunks were run once without
any new behaviour.  *Runner*: the limit is one more than a pipe and the output one more than
the limit, so that the child blocks on a full pipe, fills the capture exactly and overflows
it.  *Transfer*: both streams carry more than a pipe holds.  *Derivation*: a block is longer
than a segment and shorter than two, so it straddles one boundary or two; the source may be
empty, a multiple of the segment, or grow past the last segment number.  *Extraction*: the
sequences have each collision of names (equal, one the `.partial` of the other in either
order, a file above a directory and the reverse, a name the host rejects, a refused one); the
limits fall before, inside and after an entry; the second extraction finds the first one's
files, those it left unfinished among them.  *Audit*: one reading command suffices, as readers
do not meet; two segments give a container that is begun, torn between segments, or whole, two
attempts a leftover and a retry; a meddling before, between and after the steps of each is one
change, and it happens only in cases without an acquisition; with `Apart`, a case that sees a
conversion sees no failing acquisition and no failing call, so that not five actors meet in one
behaviour (the theorems hold with and without it).  One skipped entry that is listed, of up to
three, has a manifest that names all and one that does not.  A behaviour ends with the reading
command.  *Session*: two lines
are a command and one that follows it, two changes take an answer back and give it again; 4
units are less than an eighth of 40 and 40 units with the headroom are 42, so that space of 41
fits without the headroom only.

What the safety properties say.

- `NoClobber`, `NothingDeleted`: the existence checks in the store are check-then-act; what
  makes them sound is that the `.partial` file is created with `create_new` and held.  A file
  becomes shorter only in a step in which the machine loses power, and only by what was not
  synced.
- `FinalIsWhole`: everything under a final name was hashed, of a complete stream, is all the
  remote command wrote if the stream had no errors and never empty if it had some, and is on
  stable storage, through crashes and power loss.
- `WriterRecordsTrue`, `AllRecordsTrue`: manifests describe the disk.  The second says of every
  record, the adopted ones too, as much as can be said whatever overlaps and fails: a
  published file is recorded as it is, by whoever records it; a settled one for good; an
  unsynced one up to what a power loss takes; one that another command was still writing is
  there, under this name or the final one.
- `ExitMatchesEvidence`: exit codes 0, 4 and 130 against manifest and disk.  0 and 4 come with
  the manifest that says so; 130 with a cancelled transfer on record or, after a failure, with
  no manifest that calls it complete; and whatever the code, evidence that was received is there.
- `ResidueSwept`, `OneCase`: a failing command leaves nothing it listed unrecorded and, if no
  other ran meanwhile, nothing of its evidence id; a directory has one case.
- `OutputFaithful`, `KilledNeverReturned`: what `run` returns is what the child wrote or a
  flagged prefix of it; a killed child is always a timeout.
- `CompletedHoldsAllSent`, `CancelWithinOneBuffer`: a complete status means that the child has
  ended and nothing it wrote was lost; an interrupt lets one more block through at most.
- `Faithful`, `AsPlanned`, `ShortIsPartial`: a manifest of a derivation lists files that are
  the verified source end to end, in the planned number; nothing but a full segment is
  published before the last step.
- `Manifested`: the files an extraction left are those its manifest records, with the content
  it records, and later extractions do not touch them.  `WholeIfComplete`: a broken archive
  makes `finish_complete` publish a short file, and only the failure at the next entry keeps
  it out of a manifest.  `Accounted`: no entry vanishes or counts twice, also where the list of
  skipped entries is cut.
- `VerdictIsTrue`: of every path whose file and records stayed as they were while the command
  ran, a verification says MATCH, MISMATCH, MISSING, EXTRA or nothing, whichever is true,
  although it loads, compares and scans at different times, unless a stat failed under it.
  `EveryFindingHasACause`: a false alarm over the work of the tool itself has one origin, the
  adoption of a `.partial` that is being written, and never comes with exit 0; an I/O error
  means that a call failed or a file moved.  `ReportCovers`: a report that loads the manifests
  twice lists nothing that was not compared, unless a stat failed.
- `ContainerSealed`: what a killed `ewfacquire` left under final names gets into no manifest,
  and the one manifest there may be of a container names all of it.
- `ShortCaptureIsSaid`: `tar` or `dd` that ends with status 0 after the cable was pulled, or an
  archive of nothing but a link, is complete only with a note that says so.
- `FreshlyAsked`: a transfer begins with answers of this very run and, if guided, a plan that
  was accepted with these arguments; what the preview learnt is not enough.
- `CtrlCIsForGood`, `NeverClosedByAFailure`: what one token for all commands of a shell means; a
  failed command or an answer that cannot be read does not close it.
- `AnswersWereTrue`: what `devices`, `info` and `doctor` say was so at some time while they
  asked.  More cannot be had without a lock on the device, and the code claims no more.

Fairness.  In `CommandRunner` and `StreamTransfer` the threads of the tool are weakly fair
(the operating system schedules them; the watchdog polls a clock) and a signal that was sent
is delivered.  The failures of calls have no fairness: nothing need fail.  Nor have the child, its
heirs and the operator: a device may hang for ever and nobody need press Ctrl-C.
`NoPipeDeadlock` and `NoStreamDeadlock` assume, as their hypothesis, a child that keeps running
its program and heirs that end; `StoppedMeansEnded` assumes only that heirs end, because nobody
kills them and the stderr thread is joined (`runner.rs:380`).  `TimeoutBoundsRun` assumes a child
that keeps stdout open while it runs, a stdout that can be read, and no heir holding it; without
the first two the property is false (section 5), without the third the call lasts as long as the
heir.  All other
modules have safety properties only: a device, an operator or `ewfacquire` may stop for ever.

Every property of a passing run has a mutant: a plausible bug of one operation, written next
to it in the module, for which TLC finds the property violated.

## 4. What is proved

TLAPS checks these for every value of the constants, under the assumptions of the modules,
which TLC evaluates in every run: `OpsAssumption`, `BoundAssumption`, `NoneAssumption`,
`NoManifestAssumption` (store); `PipeAssumption` (runner); `StreamAssumption` (transfer);
`SizeAssumption` (derivation); `NameAssumption`, `ArchiveAssumption`, `LimitAssumption`,
`PlaceAssumption` (extraction); `DirectoryAssumption`, `ManifestAssumption`,
`ConversionAssumption`, `AuditAssumption`, `NamesAssumption`, `StartAssumption` (audit);
`AcquisitionAssumption`, `ReportAssumption`, `SessionAssumption` (session).  They say that sizes
are natural numbers, tables have their domains, `None` is no value, names that the code builds
differently are different (a name is neither its own `.partial` nor above itself, segments of
a container are not its source), and that a case begins with no manifest of a command that is
still to come.  Hypotheses beyond these stand in the theorem and in this table.

| theorem | statement |
|---|---|
| `TypeCorrect`, `PublishedIsWhole`, `NeverOverwritten`, `NeverDeleted` | `TypeOK`, `FinalIsWhole`, `NoClobber`, `NothingDeleted` of `EvidenceStore`: any number of commands, all faults |
| `RecordsDescribeTheDisk` | `WriterRecordsTrue`, all faults |
| `ExitCodesAreHonest` | `ExitMatchesEvidence`, if no two operations share a manifest name |
| `OneCaseOnly` | `OneCase`, if commands do not overlap |
| `EveryRecordTrue` | `AllRecordsTrue`, any overlap, all faults |
| `NothingLeftUnrecorded` | `ResidueSwept`, if no two operations share a manifest name |
| `ImplementsCustody` | `EvidenceStore` implements `Custody`, if no two operations share a manifest name |
| `CaptureBounded`, `KilledIsTimeout`, `ReturnsWhatWasWritten` | `TypeOK`, `KilledNeverReturned`, `OutputFaithful` of `CommandRunner` |
| `ImplementsDelivery` | `StreamTransfer` implements `Delivery` |
| `TransferTypes`, `CompleteStreams`, `PromptCancel` | `TypeOK`, `CompletedHoldsAllSent`, `CancelWithinOneBuffer` of `StreamTransfer` |
| `DerivedTypes`, `FaithfulConversion`, `SegmentsAsPlanned`, `NothingShortPublished` | `TypeOK`, `Faithful`, `AsPlanned`, `ShortIsPartial` of `Derivation` |
| `LimitsRespected`, `EveryFileManifested`, `CompleteIsWhole`, `EveryEntryAccounted` | `TypeOK`, `Manifested`, `WholeIfComplete`, `Accounted` of `Extraction`, any archive, any number of extractions |
| `TypeCorrect`, `VerdictsAreTrue`, `NoFalseAlarm`, `ReportsCompareAllTheyList`, `ContainersAreSealed` | `TypeOK`, `VerdictIsTrue`, `EveryFindingHasACause`, `ReportCovers`, `ContainerSealed` of `CaseAudit`, any files, manifests, segments, tries, meddling and failing calls, with `Apart` or without |
| `TypeCorrect`, `ShortfallStated`, `PreflightIsOfThisRun`, `NothingAfterCtrlC`, `ShellStaysOpen`, `AnswersTrueOnce` | `TypeOK`, `ShortCaptureIsSaid`, `FreshlyAsked`, `CtrlCIsForGood`, `NeverClosedByAFailure`, `AnswersWereTrue` of `Session`, sessions of any length, devices that change any number of times, any sizes |

Others say of the code what no run has as a property: the part of the liveness properties that
can be proved, and how far a finding of section 5 reaches.

| theorem | statement |
|---|---|
| `NeverAllBlocked` (`CommandRunner`) | until `run` returns, the calling thread, the stderr thread, the child or an heir of it can move; the watchdog is not needed |
| `LimitNeedsNoChild` | with a time limit, no heir, and a child that keeps stdout open and readable while it runs, one of the tool's own three threads can move until `run` returns |
| `CallsAreFinite` | a call of `run` takes at most 17 + 6 `MaxOutput` steps, all parties together, but for the writing of an heir |
| `NeverAllBlocked` (`StreamTransfer`) | until the stream is over, the relay loop, the stderr thread or the child can move, or an heir holds its pipes |
| `StopNeedsNoChild` | a stream that was cancelled or whose relay failed ends without the child doing anything but dying, unless an heir holds its stderr |
| `StreamsAreFinite` | a stream takes at most 13 + 4 (`MaxBlocks` + `MaxNoise`) steps, all parties together |
| `CommandsAreFinite` | every step of a command of the store advances it, and no step of another sets it back |
| `OnlyResidueEndsWithoutManifest` | without an I/O error a command that ends without a manifest had a fatal error and either a signal or another command beside it |
| `ManifestWhenAlone` | `ManifestOnEveryPath`, if no I/O call fails, no signal comes and commands do not overlap; crashes and power losses allowed |
| `InterruptedOnATerminalOnly` | `InterruptedNeverComplete`, unless the child shares the terminal and read errors are allowed |
| `ReadableIfNamesHaveNoDots` | `PathsWithoutDots`, if no accepted name has two dots in a row, with or without `.partial` after it |

The arguments.

*Store.*  `NoClobber` is not inductive: that the name is free at the second check says
nothing about the moment of the rename.  `Owned` is the reason it stays free: from
`create_new` until the rename the `.partial` file under the name belongs to one command, so
no two commands are ever both past their reservation.  From it follow `NameFree` at the
rename, `Measured` (a file is no longer than what was hashed while the stream runs, which is
what a torn write breaks and only a failed stream has), `ReadyToPublish`, and `Published`.

*Records and exits.*  `RecordsInv` follows what a command knows of its own transfer to where it
is written down: `Reported` (from the rename or the flush on, its report holds its record),
`ReportKept` and `ManifestKept` (the record is true of a file that rests, and files that rest
stay), `Exited` (which exit goes with which verdict), `FatalAfterError` and `NotFatalYet` (an
error leads to the sweep of the residue and nothing else does).  `OnRecord`, that a manifest
that exists is the one its command wrote, needs distinct manifest names.

*Residue.*  `WholeSource` is what the verdict of a stream says of the chunks that were hashed,
for `FinalIsWhole`.  `AllHold` is `AllRecordsTrue` for the manifests and for the reports still in
memory.  One record holds (`Holds`) through every step because a file never goes but to its
final name (`StillThere`, `NeverGone`), because a power loss leaves a file that rests as it was,
or cuts it if it was not synced (`RestingCut`), and because only its owner touches a `.partial` file;
that `adopt_artifact` gives a record that holds is a lemma of its own (`AdoptedHolds`).  `Swept`
follows what was listed to the manifest.

*One after the other.*  `Begun` is that what does not run has no file half-written, `Serial` that at
most one command runs, `Belongs` that the case of the directory is its case, which with
`Written` gives `OneCase`; `AllListed` is that nothing appears behind the list of a command that
is alone.

*Custody.*  The refinement needs of the invariants above that a manifest that exists belongs to a
command that is past writing it (`Written`), that a complete verdict has its record in the report
(`RecordsInv`) and that a record of a published file names who published it (`AllHold`); `EnterStep`
puts the three together.  That an entry is not entered twice needs distinct manifest names, the
one hypothesis; section 6 shows what happens without.

*Runner.*  `Flagged` (the flag is set before the kill), `Waited`, `Wrote` (a closed stream of
a child that was not killed is complete) and `Capture` (what was captured is a function of
what left the pipe) give both properties.

*Transfer.*  `Conserved` (relayed plus in the pipe is what was sent), `Honest` (a child that is
writing has something left to write), `Ended` (the loop was left at the end of the pipe or says
why not), and `Late`.  The refinement adds `SawToken`, the loop's own flag is set only with the
token; the interesting step is `TellStep`, where they together make the status true.

*Derivation.*  While the command runs, the files and the rest of the block are together what
was read, cut every `SegmentSize` units (`Counted`, `Pending`, `Pieces`); a segment is opened
only for data that is there (`Needed`), which is why the count is the rounded-up quotient and
not one more (`PlannedIsReached`); nothing before the last file is short (`Names`).  The
arithmetic that the prover does not find, division of `q * S + r` and the place of a piece
before the current segment, is in lemmas of its own.

*Extraction.*  `Manifested` speaks of manifests that are written; `Own` says the same of the
extraction under way, where the open file is the one exception, and `Reading` where that file
is.  `Past` keeps rounds apart: nothing on disk is of a later round and a step touches only
what is of its own (`OthersUntouched`), which is why an old manifest stays true.
`ShortAtTheBreak` says that a short published file is the last of a broken archive, from
where no manifest is reached.  `Indices` is the account so far: `Counted` (files, skips and
directories are the entries done), `Named` (each that is no directory is in a list) and `Apart`
(no entry is in two).

*Audit.*  `Writers` is about the commands that write: a manifest still to come is not there
(`FreshSlots`), a record is true of its file unless somebody meddled with it or it was hashed
while it was written (`Recorded`), what the failing acquisition has in its hands is such a file
or one that is `Settled` (`Swept`), and where the segments are at each phase (`Segmented`,
`Adopted`) gives `Sealed`.  `Reader` is about the command that reads.  `Sound(p)` says of a
path that was left alone that what was already said of it is true and that what is not said yet
is still ahead: its entries are among those to be checked, or its directory among those to be
read, as long as no stat failed.  `Standing` and `Covered` tie the loop to the loaded
manifests, `Causes` gives the absence of other false alarms.

*Session.*  `Asked` says which answers a run has at each phase; `held` only grows while it runs
(`HeldGrows`).  `Measured` ties estimate, truth and note together, from which a capture of less
than an eighth raises a doubt (`DoubtsSayShort`).  `Stopped` is what the token has made
impossible.  `Asking` is the invariant of the questions: what was listed was true when it was.

*Termination.*  That something ends is three things: somebody whose turn comes can move, every
move uses up one of finitely many, and the scheduler gives everybody a turn.  The first two are
proved.  `ENABLED` is beyond the prover, so the guards are written out (`MainCanMove`,
`ReaderCanMove`, `DogCanMove`, `ChildCanMove`, `SignalPending`); TLC found each equal to
`ENABLED` of its action in every state of the instances of the runs.  `Parties` says who is
there and who waits for whom: the mutex is held by the calling thread only while it waits, the
watchdog goes only when the call is finished or the child has ended, a pipe loses its last
writer with the child, and the stderr thread of a stream stays until then.  In
`LimitNeedsNoChild` the hypothesis on stdout is the one without which `watchdog_blocked` is what
happens.  `Left` counts what each thread, each pipe and the child have still to do.  In the store
a command has its place in the code (`Place`), the chunks it has not read and the files it
listed and has not adopted (`FileAdopted`); that another command does not add to them is what
makes its end its own.

*How far the findings reach.*  `DocumentedOf` says of each place of a command why it will still
write its manifest.  With `NoSignal` its re-reading cannot be cancelled, with `StillListed` the
residue it listed is still there.  Neither hypothesis of `ManifestWhenAlone` can go: TLC refutes
`ManifestOnEveryPath` with a signal alone and with overlap alone.  `Signalled` says who can have
ended the child by a signal, and `OfAcceptedNames` that nothing but names that
`validate_entry_path` let pass is in a manifest.

What is left to TLC: that the scheduling does what fairness says, which with the above gives
`TimeoutBoundsRun`, `NoPipeDeadlock`, `StoppedMeansEnded` and `NoStreamDeadlock` (liveness
under fairness is out of the prover's reach); and the runs that end in a counterexample, which a
proof cannot show.

## 5. Disagreements between code and documents

Each is a run that TLC ends with a counterexample.

- **watchdog_blocked.**  `runner.rs:48-50`: the timeout covers the whole command "rather than
  only the final `wait`".  `run` waits for the child through `with_child` (286), which holds
  the mutex, and the watchdog needs the mutex to kill (82).  A child that closes stdout and
  keeps running is never killed; nor is one whose stdout cannot be read.  It takes one or the
  other: `LimitNeedsNoChild`.
- **manifest_on_every_path.**  `acquire.rs:14` and `EXIT_CODES.md:29`: a manifest is always
  written.  Ctrl-C while the published file is read again fails that read, and then the hashing
  of the residue, with the same token; the `?` at 185 leaves `run` before the manifest is
  built: exit 130, a published file, no manifest.  Another command that renames a `.partial`
  file this one has listed does the same without a signal.  Short of an I/O error there is no
  third way (`OnlyResidueEndsWithoutManifest`).
- **interrupted_complete.**  `RESUMABILITY.md:57`: an interrupted transfer "exits 4 (failed)
  or 130 (interrupted). Never 0".  On a terminal the signal also ends `adb`; if the relay
  loop sees the end of the stream first, and read errors are allowed, the image is published
  as completed with errors.  Both are needed, the terminal and the option
  (`InterruptedOnATerminalOnly`).
- **unreadable_case** (*PathsWithoutDots*).  `MANIFEST_SCHEMA.md:126`: the path of an artifact
  never contains `..`.  `Manifest::validate` (`manifest.rs:424`) refuses a path with two dots
  anywhere in it, `validate_entry_path` (`archive.rs:151`) only a component that is `..`.  An
  entry `notes..txt` is extracted and recorded, and then no command that loads the manifests
  of the case succeeds.  A name with a dot at its end does the same if the entry is cut short
  and keeps its `.partial`.  In an extraction the names are the only cause:
  `ReadableIfNamesHaveNoDots`.  The `--name` of a derivation with two dots in it goes the same
  way.

## 6. Behaviour worth knowing

Seen while modelling; in the model, or outside it where it says so, without a property.

Store and acquisition:

- The name of a manifest holds a millisecond time stamp and `write_to` renames over what is
  there (`manifest.rs:524`): of two operations of one millisecond the second replaces the
  manifest of the first, although `README.md:225` calls manifests append-only.  The `create_new`
  that would notice is that of the hash list (`store.rs:420`), one step later.  The theorems on
  exits and on `Custody` have distinct names as their hypothesis.
- A failing command adopts every file whose name begins with its evidence id (`acquire.rs:307`;
  `EV-1` also matches `EV-10`), the `.partial` file another running command is writing among
  them, and records a content the file will not keep, while `acquire.rs:288-292` wants every
  byte accounted for and verifiable.  Of such a record `AllRecordsTrue` says only that the
  file is there (`origin` "moving"), and a later `verify` says MISMATCH or MISSING of it though
  nobody touched anything: the one exception in `EveryFindingHasACause`.
- An error that leaves `acquire::run` by a `?` keeps its exit code and has no manifest: 130 if the
  token ended the adoption of the residue.  Exit 4 always has one.
- `ensure_case_consistency` reads the manifests long before its command writes one: two commands
  of different cases that overlap both pass.  So `OneCase` is for commands that do not.
- A file whose re-read gave another digest keeps its final name and is adopted with
  `complete: true`; the status of the operation tells.
- Adopted `.partial` files and renamed directory entries are not synced: a power loss after the
  manifest may cut what it records (`origin` "unsynced").
- A cancelled bulk transfer whose child hangs is not cancelled until the read returns: only
  the relay loop looks at the token, and it is blocked.  `ARCHITECTURE.md:128-130` says that the
  worker thread observes the flag "within one buffer", which is so as long as buffers come, and
  `runner.rs:42-43` that cancellation covers the transfer that has no time limit; neither says
  what happens when none comes.
- A descendant of `adb` that keeps stderr open holds up a stream that has ended or was stopped:
  the stderr thread is joined (`runner.rs:380`) and nobody kills the descendant.
- A deadline that passes between a successful wait and `disarm` turns an answer into a timeout.
- A link that could not be resolved is archived as a link.  If the scope was measured at less
  than eight times the empty archive nothing is noted.

Derivation and extraction:

- A derivation that fails or is interrupted leaves published files that no manifest names.  A
  later `verify` calls them EXTRA.
- The record of a derived file says `complete` also when its source is recorded as incomplete;
  there is only a warning.
- `convert`, `copy` and `extract` with `--case-id` write a manifest of another case into the
  directory without the check of `ensure_case_consistency` (`store.rs:279-283`), after which
  `acquire` refuses the directory.
- An extraction that a limit stopped is recorded with status `completed`; its parameters and
  a warning tell.  Repeating it with higher limits into the same base, as the warning advises
  (`derive.rs:728`), skips every file that is already there, and the one that was cut as
  well, because its `.partial` name is taken.
- The manifest warns that each skipped entry "is listed in this manifest with its reason"
  (`derive.rs:707-709`); it lists 500 and counts the rest (`derive.rs:717-725`), which a
  further warning says.
- Of two entries with one name the first is kept and the second is skipped.
- An archive that breaks off inside an entry leaves that entry published, short and in no
  manifest.
- `ewfacquire` runs under the 60 seconds meant for questions.  Killed, it leaves segments under
  final names, and another attempt refuses the base name until they are removed.
- The comment in `ewf.rs` that the target stem is reserved means that it is listed; nothing is
  created.  The source is compared with its record before the conversion, not after it.
- `ewfverify` that runs out of time is reported as one that is not available
  (`IMAGE_FORMATS.md:94` names only its absence), and the manifest is written.
- `MANIFEST_SCHEMA.md:49` lists `ewfacquire` among the external tools a manifest names;
  outside the model.

Verification and reports:

- A failing stat is taken for "not there" in two places: `manifest_paths` passes over a manifest
  whose `is_file` fails (`store.rs:378`), and the scan over a class directory whose `is_dir` does
  (`verify.rs:293`).  `verify` may then exit 0 over a case with a file that was damaged or that no
  manifest names.  `VerdictIsTrue` and `ReportCovers` exclude these runs (`faulted`).
- Only the first record of a path is compared.  A `.partial` file that was adopted, moved away
  and made again has two records, and the second one's file is a MISMATCH.
- `verify` of a single manifest calls the files of all others EXTRA, and a running
  acquisition's `.partial` is EXTRA to everybody.
- `report --verify` of a case without manifests says that nothing was acquired and gives no
  verdict in the document (`report.rs:128`), though it exits with 5 if there are files
  (`report.rs:83`).

Shell and questions:

- A line that cannot be read, as one that is not UTF-8, closes the shell with an error
  (`interactive.rs:74`); within the guided questions the same leads back to the prompt.
- A failed command does not close the shell (`interactive.rs:81`), but after Ctrl-C at the
  prompt or in a command that never looks at the token, the next one that does is interrupted
  as it starts and closes it; an acquisition then leaves an empty `.partial` file and a
  manifest that says cancelled.
- The plan that is confirmed and the plan that is carried out come of two separate preflights.
- `doctor` calls itself strictly read-only (`doctor.rs:8-10`); with `--output` it creates the
  case directories.  It is ready if any device is authorised, and does not ask which is meant.
- The shown command line "can be pasted back", but `quote` (`interactive.rs:564`) escapes a
  quotation mark in a way `split_line` does not read, and leaves `$`, backtick and backslash;
  outside the model.

Hazards of `PROJECT.json` without a property are six of these: the directory that is not synced
after a rename, the case check of overlapping commands, two manifests of one millisecond, the
cancelled child that hangs, the heir that holds a pipe, and the derivation into another case.  In
each the model has what the code does (or leaves it out, for the first), and a property that
states what the code happens to do would say nothing.

## 7. What is not modelled

Pure text: the parsers of `adb` output, shell quoting, sanitising, the rendering of reports and
tables, the command line, the JSON form of manifests, progress and logging.  The format probe
(`imaging/format.rs`) is a function of the first bytes and the name, and decides only whether a
command is refused.  `hash`, which reads one file.  Checks for symbolic links in the path of a
case; names the host forbids, except in extractions; sizes as text (`util/bytes.rs`).  The
test double `bin/fake_adb.rs`.  `methods`, which prints a list.  More than one device.

What is idealised: the file system keeps names across a power loss, and a rename is atomic; a
manifest is read in one step, as is the content of a file that is verified; SHA collisions do
not happen.  The tar format, `ewfacquire`, `ewfverify` and the device are external.

## 8. Plan

What is left, in order:

1. Pure operators against reference definitions over bounded inputs: `parse_size` and
   `format_bytes`, `DigestSet::matches`, path validation, `quote` against `split_line`, the
   format probe.
2. A file system that forgets names at a power loss, and the sync of the directory that the
   code would need.
3. An abstract call (it returns what was written, or a timeout, or not at all) that
   `CommandRunner` implements, as `Delivery` is for `StreamTransfer`.
