# TLA+ models of the C programs in this repository

The repository is a collection of C programs for a router. This project models
the ones that carry logic of their own:

* `C/xunlei_test`, a test program with up to a dozen threads and no lock: it
  detects disks that are plugged in and out, keeps track of their partitions,
  and runs read, write, led and network tests from interactive menus;
* `C/dosfstools-2.11`: `dosfsck`, which repairs FAT file systems, and
  `mkdosfs`, which makes them;
* `C/qrencode-3.4.4`: the library that turns a text into QR or Micro QR symbols;
* `C/cjson`: the JSON library the router programs use.

The rest are single-shot utilities, exercises, early versions of each other and
copies of other projects' tools.

## 1. Inventory

| Component | State | Operations | Interacts with |
|---|---|---|---|
| Hot-plug detection, `xl_usb_device.c` | device list `g_psUSBDevHead`, id table `g_DevID`, `tid` of the probe thread, state machine `eSTATE`, `eAction_pre` | receive a uevent; create, cancel, join the probe thread; probe device nodes; insert and remove device nodes | kernel uevents, `/dev`; sends ADD and RM messages |
| Message queue, `xl_mnt_msg_process.c` | a System V queue | `mnt_usb_msg_send`, `mnt_usb_msg_rcv` | between detector and partition manager |
| Partition manager, `xl_usb_mng.c` | `s_UsbThread[id]` (`nRunState`, `detect_stat`, thread), the statics `nPresize`, `nNowsize` | receive ADD, RM; poll `/proc/mounts`; collect partitions | reads the device list, writes the partition list |
| Partition list, `xl_usb_mng.c` | linked list `s_psPartHead` | insert or overwrite, delete by disk id, count then copy | query threads, receiver thread, menus |
| Read/write tests, `xl_mnt_mng.c`, `flash.c` | `pDestData`, `pSDDestData`, `tid_w`, `tid_r`, `sdtid_*`, `_break` flags | open menu, `allwrite`, `allread`, quit; worker threads; `usb_stop_run`, `sdcard_stop_run` | read the partition list |
| Main menu, allstart, led and ping tests, `test.c`, `led_test.c`, `ping.c` | `all_tid`, `all_module_flag`, `led_tid`, `ping_tid`, the disable flags | dispatch to the menus, start and stop the threads | stops led, usb, sdcard, ping tests |
| dosfsck, clusters and directories: `check.c`, `fat.c`, `file.c`, `dosfsck.c` | both FATs, cluster owners, the list of files of a directory, FSINFO free count | read and check a directory, check a chain, truncate, drop, rename, undelete, salvage, free lost clusters, second pass | `io.c`, `lfn.c`, the user |
| dosfsck, long names: `lfn.c` | slot number, checksum, offsets, name buffer, all static | add a slot, get the name, check for orphans | called by `check.c` |
| dosfsck, device access: `io.c` | list of changes, `did_change` | read, write, flush or drop at the end | the device |
| mkdosfs and `boot.c` | the boot sector, FSINFO, backup, layout | parse options, choose the layout, mark bad blocks, write; read back, repair the reserved sectors | the device |
| qrencode, input: `qrinput.c`, `split.c`, `bitstream.c` | list of chunks, version, level, bit stream | split, deal out, estimate, encode, pad | the caller |
| qrencode, symbol: `qrencode.c`, `qrspec.c`, `mqrspec.c`, `mask.c`, `mmask.c`, `rscode.c` | frame, filler, blocks, best mask | error correction, frame, placement, masks | qrinput |
| cJSON, `cJSON.c` | a heap of items and strings | create, add, reference, detach, replace, duplicate, delete, parse, print, minify | the caller, malloc |
| Flash burning, `C/upgrade_*`, `C/erase_nand` | flash partitions | check, erase, write | flash devices |
| Private flash area, `C/flash/xl_private_area.c` | records in a flash block | read, write a record | flash device |
| Downloaders, socket servers, plugin server, thread exercises, prototypes, `mkimage`, utilities | | see section 6 | |

What is hard there, and so what the properties are about:

* In `xunlei_test` three threads share the device list without a lock; only
  create, cancel and join on one variable `tid` keep them apart, and the probe
  thread zeroes that variable itself. A thread can be canceled between changing
  a list and sending the message about it; another one spins where nothing can
  cancel it. Disk ids are reused while messages and threads of their last use
  are under way. Count and copy of the partition list are separate walks of a
  list that others change. Every menu has its own copy of the start/stop code,
  the copies differ, and the allstart thread runs the same code late. Uevents
  and messages get lost; malloc, pthread_create and msgsnd fail.
* In `dosfsck` every repair changes what the next test sees: a cluster freed,
  an owner changed or an entry renamed in the middle of a scan, faults that
  combine, a second pass over what the first has left.
* `lfn.c` keeps static buffers from one directory entry to the next; `io.c`
  patches reads with writes that overlap them in any way; `mkdosfs` and
  `dosfsck` compute one layout twice, at the limits of 12, 16 and 32 bit FATs.
* In qrencode sizes are estimated in one place and spent in another, at the
  limits of versions, modes and structured symbols.
* In cJSON any malloc may fail half-way through building a tree, and references
  share what others own.

`PROJECT.json` lists each of these as a hazard at its line.

## 2. Modules

| Module | Models | EXTENDS / INSTANCE |
|---|---|---|
| `UsbDevice` | detector, probe thread, start-up probe, kernel, queue | INSTANCE `DiskQueue` |
| `DiskQueue` | what the detector promises to the receiver (abstract) | |
| `UsbMng` | receiver thread and query threads, above `DiskQueue` | EXTENDS `DiskQueue` |
| `PartList` | the partition list, pointer by pointer | |
| `RwTest` | the usb, sdcard and flash menus, workers, the allstart thread | |
| `AllStart` | main menu, led menu, led, ping and allstart threads | |
| `Dosfsck` | whole runs of dosfsck on damaged file systems | |
| `Lfn` | long names in a directory | |
| `FsIo` | dosfsck's changes and the device | |
| `Mkdosfs` | mkdosfs, and dosfsck's reading of the boot sector | |
| `QrInput` | from a call of libqrencode to the padded bit stream | |
| `QrSymbol` | from the bit stream to the masked symbol | EXTENDS `QrInput` |
| `QrReader` | a reader of symbols, independent of the encoder (reference definition), and the properties | EXTENDS `QrSymbol` |
| `CjsonItems`, `CjsonText` | cJSON's functions as operators on a heap: items; parsing and printing | `CjsonText` EXTENDS `CjsonItems` |
| `Cjson` | a program that calls them in any order | EXTENDS `CjsonText` |
| `ListLemmas` | facts on `Min` and `RemoveAt`, induction and loops, as the proofs need them | |
| `UsbDeviceProofs`, `UsbMngProofs`, `RwTestProofs`, `PartListProofs`, `MkdosfsProofs` | theorems | EXTENDS the module and `TLAPS` |
| `FsckProofs` | theorems about `Lfn` and `FsIo` | EXTENDS both, `ListLemmas` and `TLAPS` |
| `QrProofs` | theorems about `QrInput` within `QrSymbol!QrSpec` | EXTENDS `QrSymbol`, `ListLemmas` and `TLAPS` |
| `MCUsbDevice`, `MCUsbMng`, `MCPartList` | entry points for TLC; the `.cfg` files give the constants | EXTENDS the module |
| `MCRwTest` | `RwTest` and `AllStart` in one run, one of them chosen at the start | EXTENDS both |
| `MCDosfsck` | `Dosfsck`, `Lfn`, `FsIo`, likewise; `Progs` says which of them a run is about | EXTENDS all three |
| `MCParts` | `Mkdosfs`, `QrReader`, `Cjson`, likewise | EXTENDS all three |

The hot-plug part is composed by contract: `UsbDevice` implements `DiskQueue`
(`ImplementsDiskQueue`, checked and proved), and `UsbMng` uses nothing of the
detector but `DiskQueue`. `UsbMng` treats the partition list as a set of
records; `PartList` shows when that is right (`InsertExact`, `DeleteExact`,
`ReadExact`). `RwTest` leaves open whether a medium is found. In the same way
`Dosfsck` takes a read to see every write before it, which is what `FsIo`
shows (`ReadsSeeWrites`); and it starts after `read_boot`, which is in
`Mkdosfs`. `AllStart` leaves the usb and sdcard part of allstart to `RwTest`.

Definitions named `X_Something`, or `Something_` with a word behind it, next to
a definition `Something` are mutants: the same operation with a plausible
mistake in it. Each property has one that breaks it.

### UsbDevice

Variables have the names of the code. `dev` is the set of disks with a node
under `/dev`; a disk is its position in the probe order. `g_psUSBDevHead` is a
sequence of `[nDiskId, disk]`, `g_DevID` the set of ids taken, `tid` 0 or 1.
`probe_pc` is the program counter of `mnt_usb_device_probe`, which the main
thread runs once at start-up (`main = "probing"`) and the probe thread after
that; `detect_pc` is the one of the detect thread.

A step of the model ends where another thread can see or disturb something:

* `ProbeFound` is one step: `mnt_usb_create_disk_id` and
  `mnt_usb_insert_dev_node` touch state that only the walk could see, and
  `ListExclusive` shows that the walk is elsewhere. `ProbeSend` is a step of
  its own because `msgsnd` blocks and is a cancellation point.
* `DetectCancel`, `DetectJoin`: the test of `tid`, `pthread_cancel(tid)` and
  `pthread_join(tid)` read `tid` three times. A call on 0 fails or kills the
  process (`detect_pc = "crashed"`), as the C library pleases.
* The cancellation points of the probe thread are printf, usleep and msgsnd
  (`ProbeCanceled`). `XL_DEBUG` is none: it is compiled out.
  `mnt_usb_device_probe` has none as long as it finds no disk.
* `WalkDelete` reads `m_pNext` of a node it has just freed: the old link or,
  with `"reuse"`, the end of the list.

`announced`, `lost` and `leaked` are history: the ids whose last message was
an ADD, whether a msgsnd has failed, whether a malloc has.

### UsbMng

`Plug`, `Pull`, `Unplug` and `Mount` are the environment, the first and third
being `Announce` and `Retract` of `DiskQueue`. `RcvAdd` and `RcvRm` are the two
branches of `mnt_usb_probe_partition_thread`. The actions `Query...` cut
`mnt_usb_query_mount_log_thread` at its cancellation points (usleep, system)
and at every access to `nPresize`, `nNowsize` and `nRunState`. The size of the
mount log is its number of lines: what matters is whether two logs have the
same size. `Collected` keeps the uninitialised rest of the malloc'ed array when
a device vanishes half-way.

### PartList

Blocks of memory with `next` and `key`; `alloc` is the set in use. A new node
is linked before it is filled in, so that it carries what its block held
before. `Chain`, the nodes of the list, is the least set that holds what the
head points to and is closed under `next`; no order or length is assumed, so it
is defined for lists that a race has knotted too. A NULL pointer that is
followed kills the process (`"dead"`). A block
that was freed keeps its contents until it is handed out again. `serial` is
history: no call has overlapped another one or met a fault so far.

### RwTest

Two threads run `mnt_usb_term_data`, `mnt_sdcard_term_data` and
`mnt_flash_term_data`: `"main"` when the user quits a menu, and `"all"`, the
allstart thread, when it notices that its menu was left. The steps `TermFree`,
`TermTest`, `TermCancel`, `TermJoin`, `TermWait` are the same for all media;
where the code of the media differs the model does too: `ResetSlot` (the sdcard
version zeroes the variables of the usb test), `OpenMenu` (only the sdcard
version resets the break flags), `WorkerStart` (the usb writer waits for a
record). `Stale` tids make pthread_cancel and pthread_join fail or crash.

### AllStart

The threads with where they are; `user` is the menu the main thread is in.
`flag` holds `all_module_flag`, `led_thread_disable` and `ping_thread_disable`,
which nothing takes back; `tids` the thread variables, which nothing resets. The
led thread looks at its flag once for five colours (`"colours"`), the ping
thread once for a `system()`. What the LEDs show is left out, so the commands of
the led menu are too.

### Dosfsck

`disk` is the device (`fat`, `fat2`, the media entries `ok`, directory slots,
the FSINFO count `free`, unreadable clusters), `m` the file system as the run
sees it, with the owner table of `fat.c`. A fault (`Corrupt`) changes one FAT
entry in both copies or in one, a media entry, one field of one directory slot,
the free count, or makes a cluster unreadable. A run goes through the code's
phases: `ReadRoot`, `AddFile` (scan_dir), `CheckDir` (dot entries, bad names,
duplicates), `CheckFile` (check_file, cluster by cluster), `NextDir`,
`Reclaim` (fix and reclaim or salvage, free count, close). A question to the
user is a choice over its keys; without -r the code's default is taken. What a
sound file system is (`Sound`) is defined without following the code: by the
sets of clusters that can be reached.

### Lfn, FsIo, Mkdosfs

`Lfn`: a directory of any entries (free, short, slot) is read once; `lfn` holds
the static variables. The pieces of a name are the places of the slots they
were copied from, so `names` tells which slots a long name was put together
from; a 0 in it is memory that was never written. `AddSlot` has the five
situations of `lfn_add_slot`: a name starts (`FirstSlot`), starts within an old
one (`StartWithin`), a fragment outside a name (`Fragment`), an unexpected
number (`WrongNumber`), the slot that comes next (`NextSlot`); the last two and
an automatic run's fragment go on to the checksum (`Checksum`), and all that do
not give up store the piece (`Store`). `st = "wild"` stands for a piece that
would be copied in front of its buffer. `FsIo`: a byte is its last writer; a write may fall short at every
byte. `Mkdosfs`: the actions are the stages of `mkdosfs` (options, device
parameters, cluster sizes one try at a time, tables, bad blocks, writing), then
damage to a reserved sector, then `read_boot`, `check_backup_boot` and
`read_fsinfo`, twice. Sizes are the code's, with unsigned wrap-around. `mk` has
a field for each global variable of `mkdosfs.c` that matters, 0 until it is
set. `Geometry` is what the device says of its sectors per track and heads,
taken as it is, zero included: `read_boot` refuses such a boot sector (`BootDies`).
The loops that double or halve a number (`Search` of `count_blocks`,
`Gemdos`) run `SEARCH_ROUNDS` rounds and stand still once they have ended; 64
rounds are enough below 1 GByte.

### QrInput, QrSymbol, QrReader

One call of the library, stage by stage: `SplitString` takes one chunk per
step (`Split_eat...`), `CutStep` one entry of `QRinput_splitQRinputToStruct`,
`ConvertData` one round of the search for a version, `FillCode` one code word,
`MakeMask` and `JudgeMask` one mask. A symbol is a function from places to
modules. A loop that looks for the end of a run is the least place where it
stops (`DigitsEnd`); a loop that carries a value from round to round is a
recursive function (`Split_eat8`, `SumOf`, `QRinput_estimateVersion`) or a fold.
`Misjudged` names the chunks whose estimate
counts a header too many (section 5). `QrReader` parses bit streams, reads modules in their zigzag order,
undoes masks and checks code words by their syndromes; it uses the tables of
the standard but none of the encoder's loops.

### CjsonItems, CjsonText, Cjson

A function that allocates takes a heap and returns one. `m.fail` says which
malloc to come fails, `m.bad` is set by a double free or a write past a buffer,
`m.null` by following NULL. A text is a sequence of character codes with the
code's own buffer sizes next to it. A number is the decimal a double stands for,
up to 15 digits and the place of its point; `print_number` chooses between `%d`,
`%.0f`, `%e` and `%f` by the code's tests (`DBL_EPSILON` and the limits of int
included) and rounds as the format does. `Cjson` is a caller that may call anything
on what it holds; it adds an item only once and nothing to a reference, and
replaces only what is there.

## 3. Runs

| Run | Bounds | Distinct states |
|---|---|---|
| `usb_device_safety` | 2 disks, 3 ids, queue of 2, 3 changes, 2 uevents each, 1 stray, all faults | 1,085,074 |
| `usb_device_live` | 2 disks, 3 ids, queue of 2, 4 changes of 2 uevents each, no faults | 43,757 |
| `usb_mng_safety` | 2 disks, 1 partition each, 2 ADDs, 1 mount, both faults | about 935,000 |
| `usb_mng_live` | 2 disks, 1 partition each, queue of 1, 2 ADDs, 2 mounts, no faults | about 1,490,000 |
| `part_list` | 2 disks of 2 partitions, 4 blocks, 2 writers; 4 calls, 3 when they overlap; both faults | 2,268,753 |
| `rw_test` | 3 media, 5 commands, allstart, failing pthread_create; or the threads of allstart, unbounded | 500,622 |
| `dosfsck` | 6 clusters of 2 units, 3 slots per cluster; no, one or two faults with 2, 3, 1 runs; 4 entries, slots 1 to 2, 2 checksums; 4 bytes, 3 writes | 2,274,947 |
| `parts` | about 1,300 command lines; texts of up to 272 characters, some of up to 3283, drawn versions up to 13; 3 cJSON calls, one of the first 15 mallocs of each failing | 102,521 |

What they show:

* `usb_device_safety`: `ListExclusive` (the walk of the device list and a probe
  never overlap, although nothing locks the list), `UniqueIds` (an id that was
  handed out is on one node), `IdsOwned` (the id table is exact until a malloc
  fails), `AddFresh` (an id is not announced twice without a removal, until a
  message is lost), `AnnouncedListed` (what was announced can be retracted).
* `usb_device_live`: `PlugAnnounced` and `UnplugUnlisted` under fairness, and
  `ImplementsDiskQueue`. Two disks share one state machine that drops events, so
  the two properties say from which states a disk cannot be overlooked any more:
  the queued uevents still begin a round of the right action (`RoundDue`), or a
  probe pass (`ProbeDue`) or the walk of a removal (`WalkDue`) is still to come to
  it. Excepted are a removal that cancels the probe, the two ways the detect
  thread is lost (`DetectLost`) and nodes that share the id -1.
* `usb_mng_safety`: `OneLiveThread` and `RunStateAgrees`, whatever the order of
  messages, polls and ends of canceled threads.
* `usb_mng_live`: `MountedListed`. The threads of both disks compare the mount
  log with one pair of sizes. Once these are forgotten (`SizeForgotten`) and no
  thread of a removed disk is left (`NoStragglers`), one of the announced disks
  gets listed as long as all of them stay in and mounted. It need not be each of
  them (section 5); with one disk it is that disk.
* `part_list`: calls that do not overlap are exact operations on a set, leave
  no garbage and no duplicates.
* `rw_test`: until allstart is entered, `WorkersStopped`, `OneWorker`,
  `RecordLive` and `AskedRuns`; with it, `FlashIsolated` and `QuitReturns`.
  `AllStopped`: leaving allstart ends the led and ping threads for good.
* `dosfsck`: `CleanIffSound` (an automatic run changes something exactly when
  something is wrong, for all pairs of faults), `IntactFilesKept` (a sound file
  that shares nothing comes through a repair untouched), `ThirdRunSound` (after
  one fault three automatic runs leave a sound file system; one is not enough,
  see below); `LongNamesKept` (a proper long name is read and kept whatever
  surrounds it), `ReadsSeeWrites` (the list of changes is invisible to readers
  and complete on the device).
* `parts`, mkdosfs: `FormatAccepted` (dosfsck finds the layout mkdosfs has made
  and nothing to repair, for the file systems `Supported` names),
  `BootFixedOnce` (a repaired boot sector stays repaired).
* `parts`, libraries: `TextKept` (nothing of a text is lost or moved by splitting,
  encoding and dealing out), `VersionLeast` (the version is the smallest one that
  has room, except where the estimate is `Misjudged`), `PartsOneVersion` (symbols
  of a set keep the version asked for, with the same exception, and no chunk is
  too large for an empty symbol), `SymbolReadable` (an independent reader gets the
  bit stream back); `MemoryOwned` (no leak, double free, overflow or crossed
  link, whichever malloc of a call fails), `PrintParses` (what is printed is
  parsed back to the same value, numbers rounded as `Shown` says, and minified
  output is plain output).

Four more runs find a disagreement between the code and what its comments or
its manual say; each is a finding in `PROJECT.json`:

* `usb_mng_removed` (`RemovedUnlisted`): a canceled query thread past its last
  cancellation point inserts the partitions again after they were deleted.
* `dosfsck_verify` (`VerifyClean`): the manual says that the second pass of -V
  never reports fixable errors. `test_file` resets the start of a directory
  whose cluster points to itself without giving up the owner of the cluster;
  the second pass finds the cluster lost and frees it.
* `mkdosfs_badblocks` (`BadBlocksMarked`): `mark_FAT_sector` counts clusters
  from before the root directory and from 0, so that a bad block is marked on
  another cluster than its own.
* `qr_minimum_version` (`MinimumVersion`): `qrencode.h` says that the library
  chooses the minimum version for the input. The estimate that starts the search
  may count a header too many, and the search never goes back: 3283 digits at
  level L get version 27 though 26 has room. `VersionLeast` says what is left of
  the promise, and is proved.

### Why the bounds are enough

Every hazard needs few actors. Two disks give one node before or after another
in the list, one message before or after another in the queue and two query
threads; three ids are enough to reuse one while two are taken, and to run out
of them when a disk is announced repeatedly; a queue of two blocks. One try per
loop (`ProbeTries`, `RemoveTries`) reaches the counter at its limit and below.
Three changes are plug, unplug, plug; the liveness run has four, so that both
disks can come and go. In `part_list` two disks of two partitions in four blocks make deletions at the head, in the
middle and at the end, and force blocks to be used again. In `rw_test` five
commands open a menu, start both workers, and open it or another one again.
The proofs below do not depend on any of these values.

`Dosfsck` starts from a FAT16-like and a FAT32-like file system with a file of
two clusters, a directory and a file in it; with six clusters every fault can
make a chain short, long, looping, shared, lost, or run into
the directory itself. Two faults combine in every way; three runs are what one
fault can need. Options are varied for one fault, where the interactive choices
are all taken. `Lfn` with four entries has a proper name of one or two slots
before and after a damaged one. `FsIo` with four bytes has every way two ranges
can overlap. The sizes of devices in `MCParts` lie on both sides of the limits of
the FAT kinds, and the geometries of drives include zero. Texts to encode are two or three runs of digits, letters, kanji
and other bytes with lengths around the break-even points of `split.c`; lengths
around 98, 230 and 272 cross versions, and 230 the step from version 9 to 10
where length fields grow. Three texts lie where the estimate goes wrong or just
does not (section 5). Three cJSON calls build a tree, change it, and delete
or share part of it; parsing, copying or printing the nested text takes 14
mallocs at most, and each of them fails in turn. A few kinds of text go through all of
this; numbers at the limits of int,
`DBL_EPSILON`, 1.0e-6, 1.0e9, 1.0e60 and double and strings with every kind of
escape are parsed on their own (`LoneTexts`), with one call after that.

Deadlock is not checked: the user, the kernel and the counters that bound them
may stop, programs end, and then everybody waits for input, as the program
does.

### Fairness

Weak fairness for each thread, because the scheduler runs every thread that can
run; none for the kernel and the user, which owe nothing. A thread that waits
(msgsnd on a full queue, pthread_join, recv) is simply not enabled. In
`UsbDevice` the whole probe thread and the whole detect thread are the fair
units, so a probe thread that spins satisfies its fairness forever. In
`AllStart` fairness also says that sleeps and the commands of `system()` end
(`ping -c 3` does).

### Assumptions

* A1, quiet boot: no disk changes and no uevent arrives until the start-up
  probe of `mnt_usb_init` has returned. The detect thread exists already then,
  so the code does not guarantee it.
* The queue is empty when the program starts. A System V queue outlives its
  process, so the code does not guarantee it either.
* In `UsbMng` an id is a member of `DiskId`, so fewer than 128 disks; insertion
  of the device node and the message are one step there, which `UsbDevice`
  refines.
* Lines of a mount log have the same length.
* Freed memory holds its old contents or zeros; wild pointers are not followed.
* `MkAssumption`: the devices given to mkdosfs are below 1 GByte, so that sizes
  in bytes do not wrap, and hold at least their reserved sectors and their root
  directory; the options are numbers, legal or not.
* Malloc does not fail in dosfstools (the code exits) and in qrencode.
* `TextsAssumption`: no text given to cJSON has a `\u` escape with less than four
  characters before the closing quote (`ShortEscape`); `parse_string` counts such
  a string too short and writes past its buffer. Numbers have at most 15 digits;
  the digits a double has behind the 15th are taken to be zeros when printed.

## 4. Proofs

`tlapm` proves, for every value of the constants that the named ASSUMEs allow:

| Theorem | States |
|---|---|
| `UsbDeviceProofs!TypeCorrect` | `Spec => []TypeOK` |
| `UsbDeviceProofs!Exclusion` | `Spec => []ListExclusive` |
| `UsbDeviceProofs!IdSafety` | `Spec => []UniqueIds` |
| `UsbDeviceProofs!TableMatchesList` | `Spec => []IdsOwned` |
| `UsbDeviceProofs!FreshlyAnnounced` | `Spec => []AddFresh` |
| `UsbDeviceProofs!Retractable` | `Spec => []AnnouncedListed` |
| `UsbDeviceProofs!Refinement` | `Spec => ImplementsDiskQueue` if msgsnd does not fail |
| `UsbMngProofs!TypeCorrect` | `Spec => []TypeOK` |
| `UsbMngProofs!SingleQuery` | `Spec => []OneLiveThread` |
| `UsbMngProofs!Agreement` | `Spec => []RunStateAgrees` |
| `RwTestProofs!TypeCorrect` | `Spec => []TypeOK` |
| `RwTestProofs!NoWorkerLeft` | `Spec => []WorkersStopped` |
| `RwTestProofs!SingleWorker` | `Spec => []OneWorker` |
| `RwTestProofs!RecordsLive` | `Spec => []RecordLive` |
| `RwTestProofs!AskedTestsRun` | `Spec => []AskedRuns` |
| `RwTestProofs!FlashAlone` | `Spec => []FlashIsolated` |
| `PartListProofs!TypeCorrect` | `Spec => []TypeOK` |
| `PartListProofs!Unduplicated` | `Spec => []NoDuplicates` |
| `PartListProofs!Unleaked` | `Spec => []NoLeak` |
| `PartListProofs!InsertsExactly` | `Spec => InsertExact` |
| `PartListProofs!DeletesExactly` | `Spec => DeleteExact` |
| `PartListProofs!ReadsExactly` | `Spec => ReadExact` |
| `FsckProofs!WritesSeen` | `FsIoSpec => []ReadsSeeWrites` |
| `FsckProofs!SoundNamesKept` | `LfnSpec => []LongNamesKept` |
| `MkdosfsProofs!LayoutsAgree` | `MkSpec => []IInv` |
| `MkdosfsProofs!FormatsAccepted` | `MkSpec => []FormatAccepted` |
| `MkdosfsProofs!RepairedOnce` | `MkSpec => []BootFixedOnce` |
| `QrProofs!LeastVersion` | `QrSpec => []VersionLeast` |
| `QrProofs!OneVersion` | `QrSpec => []PartsOneVersion` |

The arguments:

* `UsbDevice!IInv`. `ListExclusive` is not inductive: a walk starts when `tid`
  is 0, and that says nothing of the probe thread. `TidProtocol` adds that a
  probe runs only while `tid` is set or main is probing, that no uevent is
  there while main is probing, and that `tid` is 0 during a walk. For the ids,
  `IdsOwned` (listed ids are taken) makes a fresh id differ from all listed
  ones, and `IdsInFlight` (the id about to be announced is taken, announced ids
  are taken until a message gets lost) carries `AddFresh` from one send to the
  next. Deleting by id deletes the node of the walk because of `UniqueIds`.
* `Refinement`: `ProbeSend` is `Announce` because of `AddFresh`, `WalkDelete`
  is `Retract`, `MsgRcv` is `Deliver`; everything else stutters.
* `UsbMng!IInv`. What a queue promises is a statement about all its positions:
  two ADDs of an id have a removal between them (`AddsSeparated`), an id not
  announced has a removal after its last ADD (`RetractedEnds`), an announced
  one an ADD after its last removal (`AnnouncedEnds`), each with `nRunState` in
  the place of the messages received already. The four lemmas `AppendAdd`,
  `AppendRm`, `TailAdd`, `TailRm` say that sending and receiving keep these.
  `QueryOwned` says that a thread that was not canceled is the one
  `s_UsbThread` names; together with `AddsSeparated` an ADD is received only
  when no such thread exists.
* `RwTest!IInv`. `WorkersOwned`: a worker that was not joined belongs to the
  open menu, its tid names it, and `mnt_*_term_data` has yet to come to it. It
  survives `ResetSlot`, which zeroes variables of another medium, because that
  medium has no workers then. It is claimed until allstart is entered
  (`Alone`); `Placed` is what type correctness needs without that condition.
* `RwTest!MediaInv` adds to `IInv` what `RecordLive`, `AskedRuns` and
  `FlashIsolated` need. `Isolated(k)` says of one medium that its workers are
  named by its tids, that its tids are 0 outside its menu, that a join waits
  for the thread whose tid it will zero, and that in the menu a tid names a
  worker nobody stops. It is claimed of the flash test always and of the usb
  test until allstart is entered; the sdcard test does not have it, because it
  zeroes the variables of the usb test instead of its own. `TidsNamed` and
  `AllElsewhere` (the allstart thread has no business with flash) carry it
  through allstart's steps. `RecordKept` is where the record of each medium is
  live, and so that a free comes once.
* `PartListProofs!IInv`: `TypeOK`, and as long as no call has overlapped
  another one `Serial`. The list is a least closed set, so one induction
  principle (`ChainLeast`) says everything about it; `Linear` (no two nodes have
  the same successor, none has the head) makes a walk split the list into what
  it has passed and what is ahead. A node is linked before its own link is set;
  `Links` are the links as they will be once it is filled in, and `Filled` the
  nodes without it. What a call still owes is stated of the nodes it has passed:
  insertion has not met its item there (`Unseen`), deletion has left none of its
  disk there (`Deleting`), and the reader's count plus what is `Ahead` is
  the number wanted (`Reading`).
* `FsckProofs!IoInv`. `Replayed`: the byte a reader should see is the one of the
  last change that covers it, or the device's if none does (`Seen`). A new
  change at the end, a flushed one at the head and a patched read all keep this
  (`SeenMore`, `SeenFlush`, `PatchByte`), and only one byte satisfies it
  (`SeenUnique`). `fs_read`'s loop over the changes is a recursive function;
  `LoopExists` shows that it exists, and `SetInduction` what it computes.
* `FsckProofs!LfnInv`. While the directory is read (`Scanned`): entries not yet
  read are as they were (`Unread`), the slots collected stand in one run of
  slots that ends here (`OneRun`), and in the middle of a proper name lfn.c
  holds exactly its pieces (`Tracked`). `OneRun` is what keeps a repair of a
  damaged name away from a proper one: clearing or renumbering slots changes
  only entries of that run, and a proper name ends a run. The one way a user's
  answer reaches into a proper name without its slots being dropped is clearing
  its start bit (`Touched`).
* `MkdosfsProofs!IInv`. `Sized`: once mkdosfs has more than 0 clusters, the FATs
  it sized leave room for them and have an entry for each (`Fits`), and their
  number decides for the kind of FAT that was chosen (`KindFits`). For 12 and
  16 bits the last test of each computation says so (`TestFits`); a 32 bit FAT on
  an Atari is left out. The test for
  32 bits compares with all entries of the FAT and forgets the two reserved
  ones; it is enough because the FAT was sized for at least as many clusters as
  remain (`ThirtyTwoFits`), and a difference that wrapped around would need a
  FAT that the size of the data rules out (`ThirtyTwoWraps`, for sectors of at
  most 32768 bytes). `boot.c` divides bytes where `mkdosfs.c` divides sectors
  and rounds the root directory up in its own way; `LayoutFound` shows that the
  results are the same, `Accepted` that no check of `read_boot` fails, the one for
  a geometry of zero included. Both theorems are about any set of command lines;
  that dosfsck accepts the result is claimed of those that are `Supported`: one
  or two FATs, a root directory that fills its sectors, not two reserved sectors
  on FAT32, no 32 bit FAT on an Atari, and no geometry of zero from the drive. For the
  repairs, `Area` is the shape of the reserved sectors, and `Repaired` says how
  far an automatic run has come: after `check_backup_boot` there is a backup,
  after `read_fsinfo` the FSINFO sector is either absent or valid. The other
  kinds of FAT have none of this to repair, and `Found` covers them.
* `QrProofs!IInv`. It holds for texts and inputs of any length, all levels and
  all 40 versions, for calls with no ECI header that are not for Micro QR
  (`Plain`). Up to dealing out it says that chunks are what `QRinput_check`
  accepts (`Request`) and that the bits counted for the symbol being filled are
  the bits it will have and leave 20 for its header (`Dealing`). From then on, of
  the symbol in hand (`InHand`): no version from the requested one on that has
  room was passed over (`Passed`); while the search is on, either the length
  fields of the version are wide enough for every chunk or no version with wider
  ones has room (`Growing`); and in a set the symbol has room in the version asked
  for (`Kept`). `Growing` is what `VersionLeast` lacks to be inductive: a round
  of `QRinput_convertData` encodes for one version and compares the bits with
  another.
  The argument is about lengths. A chunk takes a header, a length field whose
  width depends on the class of the version (1 to 9, 10 to 26, 27 to 40), and its
  payload (`Taken`); the estimate counts a header more for every time the chunk
  is as long as the field can count. With the fields of a lower class a list is
  estimated at most one part in 138 too long (`EstimateAgainst`), and
  neighbouring versions in the table of `qrspec.c` differ by more (`CapGrows`), so
  that a round of the loop never overtakes a version with room but where
  `Misjudged` says so (`EstimateLeast`). The one assumption on constants
  (`CallsAssumption`) gives the types of a call's fields and says that calls for a
  set of symbols are not for Micro QR and have no ECI.

TLC checked each of these invariants before it was proved: `MediaInv` with the
bounds of `rw_test` and, without allstart, with 7 commands (1,822,682 states);
`PartListProofs!IInv` with two calls, five when they do not overlap (1,300,041);
`FsckProofs!IoInv` with 3 writes to 4 bytes (14,106); `FsckProofs!LfnInv` with slots
1 to 3 (3,374,020); `MkdosfsProofs!IInv` with the options of `parts`
(30,967); `QrProofs!IInv` with 391 of the calls of `parts`, the longest texts
included (4,343).

The prover has no induction theorem it can use on an operator, and takes no
RECURSIVE operator. Induction on a set is within its reach, though:
`ListLemmas!SetInduction` (from the least member of a set of naturals) and
`LoopExists` (a loop of any number of rounds is a recursive function that
exists), so what a loop over a list computes is proved where the loop is
written as a recursive function.

Only model-checked: everything temporal under fairness (`PlugAnnounced`,
`UnplugUnlisted`, `MountedListed`, `QuitReturns`, `AllStopped`), which the
prover cannot handle; the properties of `Dosfsck` (`CleanIffSound`,
`IntactFilesKept`, `ThirdRunSound`) and of `Cjson` (`MemoryOwned`,
`PrintParses`), whose modules follow chains, directories and trees while they
change them, with RECURSIVE operators that hand a disk or a heap from call to
call; and `TextKept` and `SymbolReadable` of `QrReader`, which compare the
encoder with a reader that is itself recursive over bits, and need facts about
the field of the Reed-Solomon code that the prover has no arithmetic for.

## 5. Observations

Seen with the same models, and not stated as properties because no document of
the repository says otherwise, or because the properties except the case by
name:

* `xl_usb_device.c:222`: the detect thread joins a probe thread that has run out
  of tries and spins without a cancellation point; then no removal is ever
  sent. `:183`: a new round starts only when the action changes, so the second
  of two disks plugged one after the other can stay unnoticed, and the second of
  two pulled out can stay listed. A removal cancels the probe thread wherever it
  is (`:219`), so a disk that was plugged in just before may never be announced,
  or be listed without an announcement; `DiskQueue` allows the removal message
  that comes for it later, and the manager ignores it.
* With two disks not each mounted one gets listed (`nPresize` of one makes the
  other look unchanged), and a canceled thread that still runs can take the change
  away from a new one; with a failing malloc nothing retries.
  `xl_usb_mng.c:333` writes the record that does not fit before it tests
  whether it fits. `xl_mnt.h:48` gives ids as `0~127` while
  `mnt_usb_create_disk_id` returns 1 to 128, or -1 when all are taken.
* `xl_mnt_mng.c:509`: the sdcard menu resets the variables of the usb test, so
  after the first quit it never starts its tests again. Once allstart was
  entered `RecordLive` does not hold: its thread frees the record of an open
  menu, or a second time. `test.c:103`: `all_tid` and the flags are never
  reset, so the second allstart starts nothing.
* dosfsck: with two faults on FAT32 the internal error "attempt to change file
  owner" can be reached (`check.c:95`). `test_file` remembers the previous
  cluster only with -t, so that a loop costs the whole file (`check.c:693`), and
  it follows a cluster before it looks whether it is bad (`:679`).
  `truncate_file` frees clusters of other files because the size is tested
  before the owner (`:452`). A file dropped for its bad name stays in the list
  (`:588`); a directory without clusters is only deleted in the next pass
  (`:426`). `alloc_rootdir_entry` does not end when `prev` is 2 and no cluster
  is free (`:95`). `set_fat` writes a second FAT even if there is one only. -u
  on a file that is not deleted truncates it, and -d and -u never match in a
  FAT32 root directory (`:833`).
* mkdosfs: with `-F 32 -R 2` the backup boot sector overwrites FSINFO
  (`mkdosfs.c:1139`); sectors per track and heads are taken from the drive
  unchecked (`:760`), and dosfsck refuses a file system with zero of them
  (`boot.c:363`), as it does three or four FATs; the option string gives -b no argument (`:1442`); on Atari
  the kind of the FAT is a guess on both sides.
* qrencode: the library does not always choose the smallest version (run
  `qr_minimum_version`). A chunk of kanji is estimated by its bytes instead of
  its characters (`qrinput.c:944`), so one that needs one header is held to need
  two: 528 kanji at level L get version 21 though 20 has room, and 300 kanji in a
  set asked for in version 9 get symbols of version 10. The first
  round of the estimate counts with the short length fields of version 1 and so
  too many headers for a long chunk: 3283 digits get version 27 though 26 has
  room. `Misjudged` names the lists this can happen to, and by `LeastVersion` it
  happens to no other. FNC1 in the first position is always refused, because
  `QRinput_check` rejects a size of 0; the marker of a three-byte ECI number is
  one digit short; the estimate for ECI counts the indicator several times;
  Micro QR accepts kanji in M2 and does not refuse ECI.
* cJSON: `cJSON_CreateIntArray` and its kin link a NULL when malloc fails
  (`cJSON.c:548`); `cJSON_ReplaceItemInObject` leaks a name the new item has
  (`:535`); items added to a reference leak; a string whose malloc failed is
  printed as nothing (`:219`); an unterminated string is accepted (`:208`). A
  short `\u` escape makes `parse_string` write past its buffer (`:160`, `:180`).
  Numbers lose digits when printed: those within `DBL_EPSILON` of zero print as 0
  (`:122`), others keep six places or seven digits, and an infinite one prints as
  `inf` (`:133`), which cJSON does not parse.
* Private flash area: reads stop after the first chunk of 1024 bytes, writes
  open with `"wb"` and so truncate, and `BLOCK_SIZE` is used for
  `ERASE_BLOCK_SIZE`. `ping()`, which nobody calls, computes its loss with an
  integer division and does not end when a reply is lost.

## 6. Not modelled

* In `xunlei_test`: what the LEDs show; the one-shot dd tests, which only use the partition record;
  labels, capacities and the map index of a partition, which no property tells
  apart; `mnt_usb_term` and `ping()`, which are never called; `pUsbInfo`, a
  copy that nobody reads; code that `#if 0` or comments disable; the length
  prefix of messages and messages left over from an earlier process.
* In dosfstools: volume labels and times; the branch that drops a directory
  with a large number of bad entries (`check.c:555`); the packing of 12 bit FAT
  entries; mkdosfs's boot message and media byte, the creation of an image file; the wording of what is printed.
* In qrencode: `qrenc.c` (a command line that writes image files), the
  library's tests, the copy under `use/`; drawn symbols above version 13, whose
  tables are longer and no different; the caches of frames and Reed-Solomon
  tables, which are used after their lock is released while
  `QRcode_clearCache` frees them.
* In cJSON: digits of a double behind the 15th; truncated `\u` escapes and
  unterminated comments in `cJSON_Minify`, which run past the end of the text.
* Flash burning and `erase_nand`: straight-line erase and write calls that keep
  nothing to recover from. The private flash area: its loops do not do what
  their parameters say on any call (section 5). `mkimage`: four copies of
  U-Boot's tool, sequential file copying. Downloaders: one request and a read
  loop. Socket servers, plugin server, thread exercises: no state across
  messages, or textbook use of one lock. Early prototypes: superseded by what
  is modelled. Utilities: straight-line programs.

## 7. Plan

Done, in this order: the hot-plug chain (`UsbDevice`, `DiskQueue`, `UsbMng`,
`PartList`), the menus (`RwTest`, `AllStart`), the file system tools
(`Dosfsck`, `Lfn`, `FsIo`, `Mkdosfs`), the libraries (`QrInput`, `QrSymbol`,
`QrReader`, `CjsonItems`, `CjsonText`, `Cjson`).

Proved, in this order: the hot-plug chain, the menus, the partition list,
`FsIo`, `Lfn`, `Mkdosfs` and the versions of QR symbols (section 4).

Left: `MemoryOwned` of cJSON for calls on single items, which needs the heap
operators rewritten as recursive functions; the safety half of `AllStopped`.
