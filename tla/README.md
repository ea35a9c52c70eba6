# Verification of AirGap QR

AirGap QR moves folders between devices that share no internet connection: over
a direct WebRTC channel on a local network, or as animated QR codes from screen
to camera. It is a browser application in TypeScript (`src/src`) with a small
Node server (`src/scripts`). This directory holds TLA+ models of the parts whose
correctness depends on ordering, failure and concurrency, the TLC
configurations that check them and TLAPS proofs for the parts where small
instances are not enough.

Paths of the form `lib/x.ts` stand for `src/src/lib/x.ts`. `PROJECT.json` maps
every definition to the lines it models.

## 1. The system

### Components

| Component | Code | State it keeps | Operations | Interacts with |
|---|---|---|---|---|
| Durable receive store | `lib/block-store.ts`, `lib/block-store.worker.ts` | OPFS directory: payload file, receipt journal, two checkpoint slots; per session: bitset, generation, journal offset, pending batch, Web Lock | open (load checkpoint, replay journal), writeBlocks, read, compact, close, delete, discard | its worker by messages; other tabs by the lock and the files |
| Receive queue | `lib/webrtc-receive-queue.ts` | pending blocks, active commit, retained count, timer, flags | enqueue, schedule, drain, finish, stop | message handler before it, store behind it |
| Offline sender | `lib/webrtc-transfer.ts` (source half), `components/WebRtcSender.tsx` | cursor, receipts, in-flight set, pause flag, silence timer | run loop, resume pages, acknowledge, pause, stop | ordered data channel |
| Offline receiver | `lib/webrtc-transfer.ts` (destination half), `components/WebRtcReceiver.tsx` | phase, connection generation, store handle | manifest, resume report, data, completion, verify, close, reset | data channel, queue, store |
| Rendezvous | `scripts/rendezvous.mjs`, `scripts/lan-signaling.mjs`, `lib/webrtc-rendezvous.ts` | rooms (code, claim, answer, expiry), joins, UDP sockets | create, discover, fetch offer, publish answer, wait, cancel, cleanup | other devices by UDP and HTTP, the two browser pages by HTTP |
| Pairing and authorization | `lib/webrtc-authorization.ts`, `lib/webrtc-signaling.ts`, both components | confirmations, source preparation, generations | prepare, confirm, authorize, pick or discard the source | rendezvous, transfer |
| Destination writer | `lib/large-destination.ts`, save in `components/WebRtcReceiver.tsx` and `LargeReceiver.tsx` | user-picked folder, marker journal with completion bits, origin-wide lock | claim, scan, check, write batches, record, verify, unmark, reclaim | the store as byte source, other tabs, other programs |
| Optical QRF3 receiver | `lib/large-receiver.ts`, `lib/large-receiver-resume.ts`, `components/LargeReceiver.tsx` | receiver object with manifest and store, queue of frames, IndexedDB connection record | start, accept frame, pause, discard, verify, save, resume | camera, receive store, destination writer |
| Optical QRF3 sender | `lib/large-connection.ts`, `lib/optical-schedule.ts`, `lib/large-sender-playback.ts`, `lib/large-transfer.ts`, `components/LargeSender.tsx` | prepared source, probe, draw loop with its frame iterator, resume record | collect, prepare, show probe, validate receipt, show Files, pause, discard, restore | screen, IndexedDB, other tabs |
| Sender resume records | `lib/large-sender-resume.ts`, `lib/sender-resume.ts`, `lib/webrtc-sender-resume.ts` | IndexedDB record with a revision | save, load, compare and delete, restore | other tabs |
| Classic QRF2 | `lib/protocol.ts`, `lib/resume.ts`, `lib/connection.ts`, `components/Sender.tsx`, `Receiver.tsx` | frame accumulator, checkpoint of frames, connection proof, sender session | connection test, show frames, accept frames, checkpoint, reconstruct, resume | screen, camera, IndexedDB |
| Archives | `lib/archive.ts` | while saving: folder, two-phase journal, lock | collect, build, extract, compare, save and verify | classic sender and receiver, the user's folder |
| Stream formats | `lib/stream-protocol.ts`, `lib/protocol.ts`, `lib/large-transfer.ts` | none between calls | plan, encode, parse, write a block, parse a tree | all transfers |
| Server, launcher, views, release tooling | the rest of `scripts`, `components`, `lib` | none with protocol content | | |

A folder that is sent over the network goes through the first seven rows in
this order: pairing code → rendezvous → device code confirmed by both users →
data channel → receive queue → receive store → verification of the whole stream
→ destination folder → temporary copy reclaimed. Connections may fail at any
point and the receive continues on a later one from the receipts on disk.

### What is hard, and what makes each part correct

*Receive store.* Payload, journal and checkpoints are separate files without a
common transaction; the worker and the page both write; a tab, its worker or
the power can go between any two steps; several tabs want the same store.
Correct means: a receipt implies flushed payload, what a caller was told is
never lost or refused, one session at a time, the journal stays readable.

*Receive queue and transfer.* Commits are asynchronous; messages, timer,
completion, stop and errors fall between the await points. Correct means:
acknowledge only what is durable, never lose, forget or repeat a block, keep
the window's account exact, never accuse an honest peer, never wait for ever.

*Rendezvous.* UDP repeats, delays and crosses requests of several devices; HTTP
responses get lost; rooms and joins expire, processes restart. Correct means:
single-use rooms, unique codes, each sender paired with the join that holds its
offer.

*Destination.* The folder belongs to the user: it may contain anything, other
programs and other tabs may use it, small files are written concurrently, any
step may fail or die. Correct means: nothing of the user's is overwritten,
success means the exact tree, the temporary copy is never reclaimed too early,
and a save that stopped can be resumed.

*Optical pages.* A camera may show any frame at any time, from any sender, and
nothing comes back but a code that a human types. Each page runs several
asynchronous functions that outlive the state they started from; records in
IndexedDB are shared by all tabs. Correct means: file bytes are shown only after
the receipt of exactly this source, only the bound stream is ever accepted, what a
page says is saved is saved, what was discarded stays gone, no busy phase is for
ever.

*Archives and trees.* Any folder of the user's goes in; whatever comes out on the
other side must be it, on a file system with other rules for names, or be refused.
An archive is saved into a folder under a two-phase journal (claimed, created),
with the same demands as the destination above.

`PROJECT.json` lists each hazard at its line with the properties that cover it.

## 2. Modules

| Module | Models | Extends / uses |
|---|---|---|
| `BlockStore` | the OPFS store, its worker, lock and recovery, several tabs | |
| `DurableReceipts` | abstract specification: a set of receipts that grows, is told, is lost only by removal | |
| `BlockStoreRefinement` | what the files would be recovered to at any instant: the refinement mapping | `BlockStore`, `DurableReceipts` |
| `CommitQueue` | the receive queue as a value and the effect of each of its methods (no variables) | |
| `ReceiveQueue` | the queue between an arbitrary caller and a store that may fail | `CommitQueue` |
| `OfflineTransfer` | sender, channel, receiver, queue, store over many connections | `CommitQueue` |
| `PairingGate` | from the choice of files to the manifest: attempts, confirmations, preparation, saved sources | |
| `Rendezvous` | room registries, joins, discovery, offers and answers | |
| `Destination` | saving received trees into one user folder | |
| `ClassicReceiver`, `ClassicSender` | the two pages of a classic transfer | |
| `OpticalReceiver`, `OpticalSender` | the two pages of a large optical transfer | |
| `ArchiveDestination` | saving an extracted archive into a user's folder | |
| `OpticalSchedule` | the order of frames in a pass (functions only) | |
| `LargeTree` | collecting a folder, its virtual stream, its metadata, restoring it (functions only) | |
| `Qrf3Stream`, `Qrf2Stream` | manifests, frames and the receiving side of both formats (functions only) | |
| `ZipArchive` | collecting, building, extracting and comparing archives (functions only) | |
| `ConnectionTest` | both connection tests, their receipts and how typed codes are compared (functions only) | |
| `ConnectionProofs` | TLAPS proofs about how two devices find and authorize each other | `Rendezvous`, `PairingGate`, `TLAPS` |
| `ReceivedArchiveProofs` | TLAPS proofs about the classic receiver's page and the folder its archive is saved into | `ClassicReceiver`, `ArchiveDestination`, `TLAPS` |
| the other `*Proofs` | TLAPS proofs about the module they name | that module, `TLAPS` |
| `MC*` | values of constants and symmetry for TLC | the module they name |

### BlockStore

`written`/`stable` are the payload blocks a reader sees and those a power loss
cannot take; `slot` the two checkpoint files (absent, blank, or whole with
generation and bits); `journal` a sequence of records, the last of which may be
torn; `owner` the Web Lock; `pc`, `bits`, `gen`, `pos`, `pend` the state of each
tab's handle. `told` is a history variable: what callers were told is received.
One phase of `pc` is one await in the code at which something else may happen:
`open` (loading → creating/initial or replaying → opening), `writeBlocks` (batching,
store, flush, append, return), `compactJournal` (compact, truncate), and the
states after an error. The actions' outcome sets (`JournalOutcomes`,
`PayloadOutcomes`, `SlotOutcomes`) say what the worker or the page may have left
on disk when a step fails or the tab dies: nothing, part, or all of the write.
`PowerLoss` drops payload that was not flushed. `replaceFile` uses
`createWritable`, which commits on close, so a slot is old or new, except for
the file that `getFileHandle({create: true})` itself leaves empty.

Abstractions: a block is present or not (checksums make torn data detectable);
a journal record has length one and the bounded prefix that recovery reads
(`MaxPrefix`) is scaled with it; all tabs ask for the same configuration. A power
loss costs unflushed payload only: when the worker dies between the write and the flush of a
record (`lib/block-store.worker.ts:79-81`), a record that it left whole is taken to
stay. Were it lost later, a session that had replayed it in between would have
told of receipts that are gone, without having flushed the journal itself; the documents
leave abrupt power loss to tests on devices.

`SpecLate` adds one behaviour to the store that is not removed: the worker dies
while the page is inside `createWritable`, its fatal callback frees the lock at
once, and the page's write still lands. It is separate because two promises of
the store fail with it (section 4).

### CommitQueue, ReceiveQueue

`CommitQueue` translates `DurableReceiveQueue` method by method into functions of
a queue record: `Enqueued`, `Schedule`, `TimerFired`, `Finishing`, `Finished`,
`StopQueue`, `Settled`, `Broken`. The commit task is active exactly while `batch`
is not empty: `schedule` starts it and it splices its first batch in the same
turn of the event loop. `ReceiveQueue` puts one queue between a caller that
enqueues, finishes and stops at any time and a store whose commit lands
(`BatchCommits`) and returns (`BatchReturns`) in separate steps or throws.

### OfflineTransfer

`s` is the sender as a record; its `pc` names the await at which `run` stands
(reading the source, waiting for the window, waiting for the last
acknowledgements, done). `toR` and `toS` are the channel, FIFO in each direction;
closing a connection cuts each sequence at an arbitrary point and appends
`closed`. `rPc` is the phase of the receiver's connection, `report` the received
blocks it has yet to report, which go out lowest range first (`FirstRange`), `q` and
`stored` the queue and its active commit,
`disk` the receipts of the store and those whose payload has rotted, `handle` the
store handle. Code between two awaits runs to completion, so an action takes a
party from one await to the next, and handling a message includes all it calls
(`Advance` carries `run` through as many blocks as need no await).
`ConnectionLost`, `SenderStops`, `ReceiverStops`, `ReceiverDies`, `SilentTimeout`,
`CommitThrows`, `Rot` count against `MaxFailures`.

The store is used here through its promise (a commit is atomic and survives a
crash), which is what `BlockStoreRefinement` and `BlockStoreProofs` establish.
The limits on `bufferedAmount` are left out: 96 blocks of 60 KiB and 44 bytes are
below 8 MiB, so the block window binds first. Protocol errors are recorded in
`fault` with the check that raised them. `WindowAssumption` says that the receive
queue has room for a whole window (192 blocks for 96 in the code); without it an
honest sender could overrun the queue, and `NoFaultEver` could not be proved. The last
section of the module states the inductive invariant `TransferInv`.

### PairingGate

`snd` and `rcv` are the two pages as records; `snd.owner` is the task the current
value of `lifecycleRef` stands for (an attempt, a pick, a restore, nobody), so a
task compares itself with it where the code compares generations. `task` and
`join` say at which await each `prepare()` and each `connect()` stands, also long
after their generation ended; `room` holds the room each attempt made. `toR` and
`toS` carry confirmations and the manifest; both ends hear each other only while
their descriptions belong together (`Linked`), and closing drops what is unread
and cuts what is under way. `MaybeAuthorize` is the gate; every caller in the code
calls it. `job` is the background preparation of each selection, `db` the saved
sources. `consents`, `known` and `fault` are history.

Abstractions: a transcript is the pair of attempts; a step that fails, a lost
network and a rejected code are `SenderLost` and `ReceiverLost`; the end of
`setRemoteDescription` takes the room away, which nothing reads any more; the
receiver's reset is one step, its storage is the receive store's matter; the page
stops at the manifest, where `OfflineTransfer` begins.

### Rendezvous

`room` holds each room of each device's registry (state, code, claim, answer),
`sender`/`peer` what the page that waits on it knows, `join` each join,
`asked`/`advert` the UDP messages on their way. UDP messages are a set: they may
be delivered any number of times, late, in any order, or never. An HTTP exchange
is one action with the outcomes refused, done, and done with the response lost.
Codes are chosen nondeterministically from those not in use, as
`RoomRegistry.create` does by drawing again. Expiry may come at any time.

### Destination

`disk` maps every file of the tree to what it contains (absent, partial, the
user's bytes, or transfer x's exact bytes), `stranger` stands for any path that is
not in the tree, `marker` is the recovery journal (owner, completion bits; blank
between creation and the close of its first write), `lock` the origin-wide Web
Lock, `tab` each save in progress, `copy` whether the tab still has its temporary
copy. `writers` are the concurrent safe writes of one batch; a batch is what
`smallFileBatchEnd` groups. `Edit` is any program outside the browser and may
come at any time; `touched` remembers which files it changed.

All tabs save under the same root name and with the same path set; an absent root
and an empty one are the same. Subdirectories add paths but no behaviour: a
missing or additional one is `stranger`.

### ClassicReceiver

`records` holds the checkpoint and proof of every binding in IndexedDB, `recency` the
order in which they were touched, `acc` the `TransferAccumulator`, `ui` what the page
shows, `persist` the queue of checkpoint writes (`queueCheckpointWrite` chains each
to the one before), `task` the frame under way, `camera` the scanner and its start. `Scan` is one
decoded frame with all `ingest` and `handleAccumulatorResult` do up to the next await.
`resetting`, `restoring`, `discarding` and `saving` are `resetReceiver`,
`restoreSavedCheckpoint`, `discardSavedCheckpoint` and `saveAndVerify` behind their awaits,
with what they took along; each storage call has a failing outcome. The buttons stay enabled
meanwhile, so the user may do at any moment what the page's phase offers. `overtaken` is
history: "now" from the moment an act begins while one of the four is pending, "before"
after the reload that ends it. A stream is named by the binding the sender prepared; a "bad"
payload is one whose CRC is right and whose bytes are not the sender's.

What can be claimed depends on `overtaken`. That whatever is offered has its SHA-256 is claimed
always. That it is the archive the verified dummy committed to, and that "saved" is what a
reload finds, is claimed unless it is "now": a reset puts the page into its first
state whatever was begun since, and it does not stop that. An offer without a
connection is finding 2. A restore that is clicked after a reset began and read the frames
before the reset deleted them shows "saved" over a checkpoint that is gone. That
nothing is left on disk unseen is claimed only if no act overtook anything since the first load.

Abstractions: an archive with the right SHA-256 can be unpacked; after completion
a trailing frame counts as a repetition unread, so it may be what a failed write is
retried with; when the deletion of a checkpoint fails after a failed
verification, the useless frames stay on disk although the status can be "saved"
again, and `SavedCoversMemory` says so. Pausing stops the camera in one step, the checkpoints
are listed in one step when the page loads, and at most one call of each of the four functions
is pending. After a reset that was overtaken the code starts a second chain of writes
and counts from zero (`components/Receiver.tsx:1019-1022`); the model keeps one queue. The deletion
of a frame that a conflict of an accumulator of the wrong purpose asks for (`Torn`) finds no
frame and is left out. A save begun during a reset that then fails returns to "archive-ready" without an
archive; that the view cannot show this phase without one is not modelled.

Observed: a camera that becomes ready after the archive was verified overwrites the
phase (`components/Receiver.tsx:903`).

### ClassicSender, OpticalSender

Several tabs over one IndexedDB. `page` is each page as a record with the queue of
mutations that `enqueueMutation` chains, `db` the records with their revisions,
`newest` their order, `held` which tabs had the last revision of a key (history),
`issued` the receipts some receiver has shown. Preparing, restoring, comparing a
receipt, discarding and saving each stand at a named await; a generation that a page
left never returns, so a promise only remembers whether it is fresh. In
`OpticalSender` the draw loop is part of the page: `loop.plan` is the plan its effect
started for, `loop.using` that of the iterator in `streamRef`.

What the model of the optical sender also showed, none of it against a documented
promise: a discard followed by a verification while the deletion is still queued
unlocks the discarded source again, and of two discards that wait for the same record
the second clears the page again, although the user may have chosen and begun to
prepare the next source in between, whose preparation goes on below the empty page
(`overtaken`; the latter came up while proving that a loop draws its own plan); a
discard that fails has already
bumped the generation, so the draw loop ends silently and an aborted preparation
stays "preparing"; discarding a fresh selection also deletes the hidden candidate
of another transfer; a restore that starts while scanning and fails leaves
"scanning"; "changed in another tab" is also shown when this tab changed it; a
resume clicked while the discard of the same record is queued restores a source
whose record is gone.

### OpticalReceiver

`stores` are the block stores on disk by stream, `record` the connection record,
`receiver` the object in `receiverRef` with its handle, `task` the frame it takes,
`queue` those behind it; `start`, `pause`, `reset` and `save` are the runs of the four
functions, at most one of each. The store is used through its promise, as in
`OfflineTransfer`. A rejected frame only shows an error and is left out; a save that
is taken back includes a dismissed folder picker; start is not clicked while the page
loads or resets, which the buttons do not prevent for a few milliseconds. A failure that is
an `AbortError` ends the frame's task without an error (`components/LargeReceiver.tsx:327`);
the page aborts only where it begins a new generation, and storage calls are taken not
to fail with one, so this return is that of an overtaken task.

Observed: the generation check of `start` behind `listCameras` closes the receiver of
a transfer that completed meanwhile, which ends in an error about cleanup or in a
page that offers a save that cannot read; when closing the store fails,
"Discard stored data" keeps failing until a reload; the message that the store was
discarded is also shown when there was none.

### ArchiveDestination

The state is that of `Destination`, with a journal of claimed and created paths in
the place of completion bits, and one file written at a time. A file goes absent →
claimed → blank → read back (`Inspect`, or `Look` for one that lies there) → created
(`Record`) → written; each arrow is a step at which the tab
may die, a call may fail, or the folder be edited. An edit between the read-back and the
record counts as an edit of a recorded file (`touched`): nothing looks at the file
again before it is written (finding 7). `OpenFolder` and `Survey` follow
`assertMatchingCheckpoint` and `assertPartialTreeBelongsToTransfer`;
`hasOnlyRecoverableCheckpointMarker` (`OnlyUnfilledMarker`) lets an attempt repair a
cut first marker; `Verified`, `Disproved` and the phases `restore` and `refill` are what
happens around the removal of the marker. Left out: the swap files of one browser, edits of the marker's own bytes,
subdirectories, limits, browsers without Web Locks.

### Algorithms

These modules have no state. Each operation is a function from its inputs to what it
returns (`Accept`) or to a refusal (`Refuse`). `MCOpticalSender`,
`MCOpticalReceiver` and `MCClassicReceiver` check them with named assumptions that
TLC evaluates over every small input before it explores the page beside them.

* **OpticalSchedule** translates the arithmetic of a pass with numbers that are exact up
  to `MaxSafe` and lose their low bit above. The mixing of seeds is abstracted to arbitrary
  keys. With `MaxSafe` = 13, `PassesArePermutations` covers every total up to the
  largest allowed, where the sums in `addModulo` would overflow if they were formed:
  each pass shows every chunk once, can be restarted at any position and starts
  elsewhere than the pass before. `ManifestsAreNear` checks `passFrames`.
* **LargeTree**: paths are numbers in the order of `comparePaths` with a constant parent,
  alias and portability, bytes are tagged. Six paths that differ in case, nest or are not
  portable; at most three entries of at most two bytes; trailer and
  metadata read in pieces of three. A selection is refused exactly if a destination
  could not keep it apart; each read range is that of the stream; the tree comes back and
  no stream that lost a byte is taken; a source resumes exactly if it is unchanged; an
  edit between walk and hash is noticed. A parsed tree whose parents are not listed as
  directories does not have those parents compared for case collisions;
  collected trees always list them. Sharing the stream's hasher with leading empty
  files is right (`RangesAreOfTheStream`).
* **Qrf3Stream**: frames and manifests are records, commitment and CRC one injective
  digest. `FramesMakeTheStream`: with any noise, the blocks that are written are the
  stream.
* **ZipArchive**: paths are sequences of names, CRC and SHA-256 injective, a deflated
  member one opaque unit, offsets positions of members. Names `a`, `A`, `b`,
  `con`, depth two, three entries of at most two bytes. Archives come back up to the
  receiver's limit, any single damage leaves the tree or is refused, the report of
  a comparison is exact, both pickers agree. The checks of local and of central headers
  overlap: dropping one of them changes no verdict.
* **Qrf2Stream**: up to four chunks of up to three bytes, archives of up to five. After
  any noise and one forged chunk anywhere, three passes give the archive.
  `dropChunksWithInvalidLength` is left out: only a repeated equal manifest reaches it.
* **ConnectionTest**: codes have two symbols instead of ten and are injective; comparison
  in constant time is not modelled. The classic receipt is taken exactly if it is this
  probe's, however it is spaced or cased. The large one is also taken with other
  marks in it and anything typed behind it (`LargeReceiptsArePrefixes`): the code
  slices ten characters.

## 3. Runs

| Run | Instance | States | Question |
|---|---|---|---|
| `store` | 2 tabs (symmetric), 4 blocks, 2 per commit, compaction at 2 records | 47 thousand | receipts backed, told receipts survive, sessions exclude each other, the journal stays usable and refusal loses nothing, the recovered view implements `DurableReceipts` |
| `store_late_loss` | 2 tabs, 4 blocks, 1 per commit | until found | finding: told receipts are lost by the late write |
| `transfer` | 5 blocks, window 3, batches of 2, 4 retained, 3 failures; the queue alone with 5 messages | 74 thousand | the receive queue alone, safety and liveness; the whole session: safety, that users who reconnect end with a verified receive, that an unpaused wait ends |
| `rendezvous` | 2 devices, 3 rooms, 2 joins, 2 codes | 279 thousand | single use, pairing, unique codes |
| `pairing` | 2 attempts, 2 joins, 2 selections, 6 tries | 2.9 million | both consents before anything is announced, the last prerequisite starts it, nobody accuses, a discarded selection leaves nothing behind |
| `save` | 2 tabs, 2 transfers, 3 files, 2 concurrent writers, 2 faults, 1 outside edit | 94 thousand | safety of saving, and that every save ends |
| `archive_save` | 2 tabs, 2 transfers, 2 files, 2 faults, 1 outside edit | 436 thousand | the two-phase journal: only what is ours is written, nothing of ours is refused |
| `classic_receive` | 2 bindings, 2 data frames, 5 acts, one of which may be a bad frame, 1 failure, 2 queued writes; archives, QRF2 frames and connection tests | 266 thousand | what the page offers and what it says of its checkpoints, acts at any moment; a scan of the sender's loop ends; the algorithms |
| `classic_reset` | 1 binding, 1 data frame, 4 acts, no failures | until found | finding: Files offered without a connection after an overtaken reset |
| `classic_send` | 2 tabs (symmetric), 2 streams, 4 acts, 1 failure | 1.4 million | the receipt gates the file bytes, records and pages match |
| `optical_receive` | 2 connections, 2 blocks, 1 queued frame, 1 bad frame, 1 act, 1 failure; trees and QRF3 frames | 341 thousand | exact Files only, the page tells the truth, busy phases end; the algorithms |
| `optical_send` | 2 tabs (symmetric), 2 streams, 2 acts, one of which may be a failure; the schedule with exact numbers to 13 | 1.1 million | the screen shows what it is entitled to, records survive; the schedule |

### Why the bounds are enough

*Store.* Two checkpoint slots are addressed by parity, so the interesting
histories have three generations; four blocks in commits of at most two give up to
four commits, more than enough to fill both slots, fold twice and leave records
behind a checkpoint. Two tabs are the smallest number that can contend; the proofs
lift this to any number.

*Queue and transfer.* Five messages with batches of two give a full batch in
commit, a full batch waiting and a remainder that only the timer or the
completion flushes. A window of three with batches of two has a full window with
blocks on the wire, in the queue and on their way back. Three failures are
enough for a failure during the recovery from a failure during a recovery.

The receive queue alone and the session are two instances in one run. They share no state and
`MCOfflineTransfer` lets one of them move only while the other is at its start, so a
behaviour is of the one or of the other; the fairness of the one at rest is vacuous, because
none of its fair actions is enabled there. A queue that has handled its messages may stop;
the session may not, and is checked for deadlock.

*Rendezvous.* Two rooms on one device and one on another with two codes contain
same-device collisions and the same code on two devices; two joins contend for
one room or cross.

*Pairing.* Two attempts of each side contain every mix of an old and a new
connection, two selections, of the same or another content, every mix of a
stale preparation with a new transfer. `MaxTries` counts a second selection like two
attempts, so that a run has both pages retry one selection, or a second selection
with fewer retries.

*Destinations.* In `save`, files 1 and 2 are small (written concurrently), file 3 is
large (a batch of its own); in `archive_save` two files give every mix of one
written and one claimed, created or absent. Two transfers contend for one folder. A
fault between any two steps, followed by one in the recovery, is the depth of two. One
outside edit at every point tells the edits that must be noticed from those that cannot
be.

*Optical pages.* Two streams tell a frame or a record of this transfer from another's; two
data frames tell a conflict in one slot from a complete archive. The bound on
acts counts selections, discards, reloads and the like; steps of what is under way, frames
and pauses are free. Two acts overlap two functions of a page on top of whatever still
runs; the classic pages get more: five acts of the receiver are a test, a scan, a reload, and a
restore that overtakes a reset, or one that goes on scanning. One failure may be any
storage call.

*Algorithms.* The inputs that decide a case are: a name that differs in case, nests or is not
portable; an empty, a one-byte and a longer file; a range inside, across and behind a
file; a last chunk that is whole or not; a limit met exactly and exceeded by one.

`CHECK_DEADLOCK FALSE` is set where the system may rightly stop:
rooms and joins used up (`rendezvous`), trees saved and copies
reclaimed (`save`, `archive_save`), acts used up on an idle page (the runs of
the classic and the optical pages).

### Fairness

`ReceiveQueue`: timers fire, a commit that started ends, a promise that is
resolved is continued; nothing makes the caller act. `OfflineTransfer`: `LiveSpec`
lets the sender's browser run (source reads, delivery of messages); what else a
liveness property needs it states as its premise. `WaitEnds` needs the sender's timer
only, so the receiver may hang at any point. `Delivered` needs the receiver's browser
(commits, timers, delivery) and users who reconnect, start over after a failure and
end a pause; it does not use the silence timer. Neither assumes anything about
failures except that they are finitely many. `Destination` and `ArchiveDestination`:
the user saves again, work in progress goes on, and the lock is strongly fair,
because Web Locks are granted in the order of the requests. `OpticalReceiver`: what is
under way goes on; the user and the camera need not act. `ClassicReceiver`: what is
under way goes on, and each frame of the stream on the sender's screen is scanned again
and again while the page scans; this is strong fairness, justified by
`PassesArePermutations` (each pass shows every chunk once) and by a camera that misses no frame
for ever. The store, the rendezvous, the pairing gate and the senders have no
liveness property: their waits are bounded by an expiry or end with the user.

`WaitEnds` also accepts that the bound on failures is used up, since the timeout
counts as one: this is an artifact of the bound, the code's timer has none.

## 4. Findings

The first two have a run of their own each. The others were met with the property named,
which the modules state as documentation; the checked properties beside them are the part
that holds.

1. `store_late_loss`: `TRANSFER_PROCESS.md:211-212` says one exclusive lock prevents
   two tabs from corrupting a store. The fatal callback of the worker frees the lock
   while the page may be writing a checkpoint. A second tab can open, commit and
   fold; the late write then replaces its newer checkpoint of the same parity.
2. `classic_reset`, `FilesNeedTest`: "Files remain blocked until the complete dummy and its
   embedded binding pass verification" (`components/Receiver.tsx:1386`). `resetReceiver` awaits the camera,
   the queued writes and the deletion with the page's buttons enabled and then clears the
   connection (1002-1024). When "Receive verified files" was clicked in between, its scan goes on
   in the Files mode without a connection, and a dummy whose embedded binding nobody
   checked is offered as the received archive.
3. `BlockStore`, `OtherSnapshotKept`: `lib/block-store.ts:8-10` promises that folding
   leaves the other snapshot as a recovery point. The slot is chosen by
   `generation % 2` (line 1315), so two folds an even number of commits apart replace the
   newest snapshot, which may be the only one. What protects the store is the atomic
   replacement of a single file; `ToldSurvives` and `StaysUsable` hold because of it.
4. `Destination`, `NeverRefusesItself`: `TRANSFER_PROCESS.md:62-63` says to retry a failed
   save in the same folder. A tab that dies inside the first journal write
   (`lib/large-destination.ts:684`), or a write and a removal that both fail, leaves an
   empty marker, which every later save reads as invalid. The archive destination
   repairs this case (`lib/archive.ts:1211`).
5. `Destination`, `NoStrangerAtSuccess`: `TRANSFER_PROCESS.md:266-271` requires a final
   enumeration after the marker is removed; `lib/large-destination.ts:246` performs none,
   so a path added after the enumeration at the start of the verification is not noticed.
6. `OpticalReceiver`, `SourceRemains`: "The verified source remains available to retry"
   (`components/LargeReceiver.tsx:571`) is also shown when a discard in flight has
   already removed it.
7. `ArchiveDestination`, `AppearedIsRefused`: "Refusing to overwrite a non-empty file that appeared
   while creating" (`lib/archive.ts:895`). The file is read back and found empty (882-885)
   and recorded by another await (899-902); what another program puts into it in between is
   recorded as ours and replaced by the write that follows (911). The same lies between
   824-829 and 830-833. Right after the claim of a path, the code does look again (859-863).
   TLC shows the trace when `AppearedIsRefused` takes the place of the properties in
   `MCArchiveDestination.cfg`; `OnlyRecordedWritten` says what still holds.
8. `ArchiveDestination`, `NeverStranded`: "failures after marker deletion must not strand a
   non-empty tree that the next attempt is forbidden to resume" (`lib/archive.ts:942-943`).
   When the restoration of the marker fails as well, it does; `NeverRefusesItself` names
   exactly this exception (`HalfRestored`).
9. `LargeReceiptsArePrefixes`: a QRF3 receipt is accepted with additional characters
   behind it (`lib/large-connection.ts:144`); the classic one is not.

## 5. Proofs

Each theorem holds for every value of the constants that meets the assumptions named
in the modules: any number of tabs, blocks, messages, files, devices, rooms, attempts,
selections, transfers, faults and edits. The assumptions are typings of the constants
(`BlockStoreAssumption`, `CommitQueueAssumption`, `ReceiveQueueAssumption`,
`TransferAssumption`, `PairingAssumption`, `RendezvousAssumption`,
`DestinationAssumption`, `ArchiveDestinationAssumption`, `SenderAssumption`,
`OpticalSenderAssumption`, `OpticalReceiverAssumption`, `ReceiverAssumption`) and `WindowAssumption`
(section 2). TLC evaluates them on every run, and checked every inductive invariant
on the instance of the module's run before it was proved. Each proof has one lemma per
action, cut along the conjuncts that the action can disturb.

**BlockStoreProofs.** `TypeCorrect`, `ReceiptsAreBacked`, `OneSessionAtATime`,
`JournalInPosition`, `SessionsExcludeEachOther`, from `AlwaysBacked`:
`Spec => []BackedInv`. That receipts are backed is
not inductive, because `open` believes the disk: one must know that everything on
disk was once true of one growing set of receipts. `BackedInv` says so: a
checkpoint lies in the slot of its parity (`SlotParity`), a younger snapshot or
record holds every receipt of an older checkpoint and journal generations
increase (`Chain`), what the disk claims is flushed unless the payload file has
been removed (`DiskBacked`), and a session knows what its disk knows as far as it
has replayed it (`SessionInv`).

`ToldReceiptsSurvive` and `StoreStaysUsable` follow from `AlwaysLossless`. `BackedInv`
says that what a replay reads is true, not that it reads everything: a gap in the
generations, or a torn record before the last, would end the replay early and lose
receipts silently. `LosslessInv` adds that the journal continues the newest checkpoint
record by record (`JournalLinear`), that a replay of the files as they lie would find
all that was told (`ToldHeld`), and for each session how its own cursor and generation
relate to that replay (`HistoryInv`). The hard steps are a failed append, after
which the tail may or may not be there, and a compaction that stops between
writing the checkpoint and truncating the journal, where both hold the same receipts.

**OfflineTransferProofs, the queue.** The first part is what each method of the queue
does to the line of waiting and committing messages and to the counter, as lemmas over
an arbitrary set of blocks; both models that contain the queue use them. The
rest proves `QueueIsAccounted` and `StoppedAcknowledgesNothing`, from `AlwaysAccounted`.
That `finish()` tells the truth needs that no message is lost from sight
(`NoneLost`), that a commit is only acknowledged after it reached the disk
(`AckedIsDurable`), and that a queue that completes has put all it held into a
commit (`CompletingCommits`).

**OfflineTransferProofs, the session.** `SenderKnowsOnlyWhatIsDurable`, `WindowIsAccounted`, `NoFaultEver`
and `ClosedStoreIsQuiet`, from `AlwaysInStep`: `Spec => []TransferInv`. None of the four is
inductive, because the next message may refute any of them: the invariant says which
messages each end may still find on the channel, depending on the phases of both
(`ChannelInv`: no block on its way that the receiver has, no acknowledgement of what
the disk does not hold, report before its end, each message once); that `run` has dealt with
every block before its cursor (`SenderInv`); that the queue is open exactly while the
receiver is and its line has no block twice (`QueueInv`); that what is still to be
reported comes after what was reported (`ReportInv`); and that the two ends agree on how
far they are, with every durable block known to the sender, in flight, or still in the
report (`AgreeInv`). The last is what makes a resumed connection send nothing twice.
A lost connection weakens the demands on the dead side only, so what the
surviving end still has to read stays legal.

**ConnectionProofs, pairing.** `NothingWithoutConsents`, `HonestPairsStart` and `SelectionIsKept`, from
`AlwaysPaired`: `Spec => []PairingInv`. Rooms, attempts and joins refer to each other once
(`RoomInv`); what a page was told comes from the other page of this very attempt, and
nothing is under way to it that it must not receive (`SenderInv`, `ReceiverInv`); linked
pages agree on the confirmations and on the source (`LinkInv`); and a selection is new
when it is picked and prepared at most once (`SourceInv`). Late tasks of earlier attempts
are harmless because the room they answer is theirs alone. Connection and selection
are proved apart (`Split`): most actions move only one of them.

**ConnectionProofs, rendezvous.** `ServiceTypeCorrect`, `CodesAreUnique`, `RoomsAreSingleUse`,
`PublishedAnswersAreHeld`, `SendersPairWithHolders`, and from them `RoomsServeOneJoin`
and `BothPeersAgree`. The invariant joins three views: of a room (its claim and answer
agree, its sender's peer is the answer), of a join (its room is claimed for it),
and of the network (each advertisement in flight belongs to a claim that is still
recorded). The last is needed because an advertisement may arrive long after the
room has gone: claims are never taken back, so late messages stay true.

**DestinationProofs.** `TypeCorrect`, `CompletionBitsAreFiles`, `CopiesAreNeverLost`,
`WritesFallUnderClaims`, `UsersFilesAreKept`, `SavedTreesAreExact`, and from them
`MarkersAreTrue` and `OnlyOwnWrites`. The invariant says of
each tab what it relies on in its phase (`TabInv`): that the marker is its own while
it writes, which files it has already seen whole, which bits it has cleared. The
three action properties follow from it and from lemmas that say which steps write
a file at all.

**ReceivedArchiveProofs, the folder.** `RecordsAreTrue`, `OnlyRecordsAreWritten`,
`SavedFoldersAreExact` and `OwnWorkIsResumed`. The first three follow from `AlwaysJournaled`: `Spec => []SaveInv`. That a record is true is
not inductive, because a save whose last comparison fails puts back, from memory, a
marker that it had removed: what the holder of the lock remembers as created has
to be its own work as well (`RunInv`). A save that works on a file has a marker equal
to its journal, which makes each write fall under a record; between the read-back of a
file and its record the file is still empty or was edited (both `TurnInv`), which is all
that a record can say and all that the first two theorems claim (finding 7). And a
comparison under way saw the files before its cursor as they are, unless an edit came
after the listing (`CompareInv`). All steps of a save go through one lemma (`StepKeeps`),
which uses the lock to leave the other tabs out.

`OwnWorkIsResumed` says that a save is not refused what earlier saves of its transfer left,
whatever failed or died, and needs a second invariant (`AlwaysOwn`) about everything those
saves may leave in a folder that nobody edits: an empty file is claimed, and a tree
without a marker is complete, not begun, or the user's (`TreeInv`). Along the way a
marker is put in place only where there are no files, and taken away only where all
are right (`PathInv`). The excepted case, a restored marker that never got its content, is
the one state in which the tree is not empty and the marker not whole.

**ReceivedArchiveProofs, the page.** `ArchiveIsTheBoundOne` and `CheckpointsStayTrue`, from
`PageAlways`: `ReceiverSpec => []FullInv`, for acts at any moment. `FullInv` has two parts. What is
typed and what was hashed holds always: only a verified accumulator counts as complete, and what is
offered was taken from one (`AlwaysInv`). The rest (`PageInv`) holds while nothing pending
was overtaken: only an act breaks it, no step but a reload ends that state
(`NowStays`), and a reload establishes `PageInv` again from what the disk holds. What
"saved" covers depends on a queue of writes of any length, in which a frame may be written, dropped by a conflict and
written again, and any of them may fail. `CoverInv` says for each position what the last
queued write that touches it leaves there, or what lies on disk if none does: it is what the
memory wants, or the write is remembered as failed, or memory holds nothing there and a
storage call has failed.
Commits, failures and retries keep this
because a write only leaves at the front of the queue and only joins it at the end; when the status
becomes "saved", queue and failures are empty (`SavedInv`) and disk and memory agree. Writes belong to
the connection, or are the one of the proof before there is one (`QueueInv`), and a reset has every
write it waits for behind it, stale (`ResetInv`). `HiddenInv` carries `NoHiddenCheckpoint`: without
failures there is at most one checkpoint, and a reset knows its key. That an offered
archive is the bound one needs that an accumulator for Files wants the connection's binding
(`ModeInv`) and that what a completion hashed has not changed when it returns (`TaskInv`).

**ClassicSenderProofs.** `FilesAlwaysGated` and `RecordsAlwaysAccounted`, from
`InvariantHolds`: `Spec => []SenderInv`. That a page is verified only with its receipt
depends on comparisons and storage calls that return to a page that has moved on: every
call in a page's queue knows what the page will be when it returns (`OpOk`), and no two
that are still fresh serve the same purpose (`Apart`). That a revision
which no other tab ever read is where its page expects it (`Backed`) is not inductive,
because another tab may save or delete under the same key: the revision that a call is
about to write is known nowhere else (`Cross`, `DbOk`), and whoever knows the revision
in the database is counted in `held` (`Holders`), so a deletion that another tab is
granted finds a revision that it had read. `Owned` is the invariant behind `NoOrphans`: every
stored record is some page's, or an operation that will make it so or remove it is in
a queue.

**OpticalSenderProofs.** `ScreensAlwaysEntitled` and `ReloadsAlwaysSafe`, from an
invariant with the same records (`Backed`, `Cross`, `Holders`) and two more parts. `PageIssued` says that every plan a
page can reach, those in the iterator and in a loop that is ending included, is a probe
or has its receipt. `Drawing` and `Steady` say why a fresh loop and its iterator agree:
what a page shows is of one source until it is left, a
preparation or a restore only runs while no loop does, and whoever installs a new plan
takes the iterator away before the next effect. This holds until a storage call
returns to a page that is about something else already; `overtaken` marks these pages, and
the proof shows that only a late verification and a late discard do it. Each act
is proved as a change of one page that keeps it fine (`Fine`); only transactions and
fresh revisions touch what tabs share, and `PageStepKeeps` and `StoreKeeps` carry that
once for all acts.

**OpticalReceiverProofs.** `FilesAlwaysExact` and `DiskAlwaysAsShown`, from `OpticalAlways`:
`Spec => []OpticalInv`. That the verified stream is exact at the moment it is shown says
little, because everything else that is under way could still write, delete or start
over: the invariant says of each run what it has left behind. A completion that was not
overtaken has overtaken every start and pause, emptied the queue and stopped the camera
(`LateInv`), so nothing writes behind a stream that was verified (`ReaderInv`), and nothing
replaces a connection whose receipt is shown (`ReceiptInv`). What was hashed is what is stored as long as
the handle is open (`TaskInv`). A save has its stream until a discard takes it away, which then
waits for the save (`SaveInv`), and a discard waits for the frame under way and is alone from
its second step on (`ResetInv`), which is why nothing comes back behind it (`CleanInv`).
`ProbedInv` carries over reloads that no connection is remembered but a verified one.

### Model-checked only

* All liveness properties (`QueueSettles`, `Delivered`, `WaitEnds`, `ScanEnds`, `Settles`,
  `SavedOrRefused`): liveness and ENABLED are beyond the prover.
* That `BlockStore` implements `DurableReceipts`: the mapping recovers the receipts by a
  recursive function over the journal, and what a recursive definition computes for
  every journal is induction over data. What the refinement promises to a caller,
  that no receipt is taken back, is proved without it (`ToldReceiptsSurvive`).
* The algorithms (`OpticalSchedule`, `LargeTree`, `Qrf3Stream`, `Qrf2Stream`, `ZipArchive`,
  `ConnectionTest`), evaluated over small inputs.

Every other property of the passing runs, each safety invariant and each action property, is a
theorem.

The late worker death (`SpecLate`) is a finding, not a promise: `ToldReceiptsSurvive` is about
`Spec`, the store without it (section 4).

## 6. Not modelled

* Byte layout of frames, manifests, records and ZIP headers, SDP and HTTP bodies: the
  models have the fields and the checks, not their encoding. Deflate, CRC-32 and SHA-256 are
  external: injective, or a frame is rejected.
* QR encoding, the camera and its decoder: a nondeterministic choice of frames.
* Fallback stores (memory, browser download), reads of the payload, the download of
  a whole tree.
* Edits of a destination marker's own bytes by other programs. Markers carry no
  checksum: what no longer parses or names another transfer is refused, but a
  well-formed marker with other completion bits or paths would be believed.
* HTTP policy, request rate limits, broadcast address computation, server start-up.
* Views, rates, wake locks, diagnostics, benchmarks and release tooling.

## 7. Plan

Done: the store with its abstract specification and proofs, queue and transfer, rendezvous
with proofs, destination with proofs, pairing, the classic and the large optical pages, the
archive destination, and the algorithms under them.

Proved since: the receipts a caller was told of, the receive queue, the offline transfer, the
pairing gate, the archive destination, and both pages of the classic and of the optical
transfer. What is left, in order:

1. `BlockStore`: how much of the journal is flushed, so that a power loss can take a record
   that a dying worker left whole.
2. `BlockStore`: the step simulation of `DurableReceipts`, as far as it goes without
   unfolding the recovery function.
3. `OpticalSchedule`: `addModulo` never forms an inexact sum; a pass with a coprime stride is
   a permutation.

## 8. How to run

    tlc -workers 2 -config MCBlockStore.cfg MCBlockStore
    tlapm BlockStoreProofs.tla
