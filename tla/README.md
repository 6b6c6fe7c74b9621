# VI53xx driver and library: TLA+ models, checks and proofs

The repository holds a Linux PCI driver for the VI53xx I/O boards (`src/driver`) and
the user library that configures them (`src/lib`). This directory models the parts of
both that keep state and can go wrong in more than one step, checks them with TLC and
proves the central ones with TLAPS.

## The system

| Part | State | Operations | Talks to |
| --- | --- | --- | --- |
| Module (`vi53xx_xdma_drv.c`, `board_info.c`, `vi53xx_cndev_core.c`, `vi53xx_proc.c`) | board list, class, regions, /proc tree | load, unload | driver core |
| PCI binding (`vi53xx_xdma_drv.c`) | `xdma_pci_dev`, `xdma_dev`, `pcie_device_list`, drvdata | probe with an error ladder, remove | PCI core, character device, descriptors |
| Character device (`vi53xx_cndev_core.c`) | `xdma_cdev`, the shared `es_cdev`, open files | create, destroy, open, ioctl, mmap | PCI binding, control, board info |
| Board info (`board_info.c`) | instance counters, `device_info`, LED timer | number a board, LED on/off, timer callback | character device, /proc |
| /proc (`vi53xx_proc.c`) | entries per board, `boards`, `mapping` | listings, commands | list of boards; read by the library |
| Transfers (`libxdma.c`) | descriptor memory, engine registers | build a chain, program it, start, stop | hardware |
| Control (`vi53xx_xdma_ctrl.c`) | global `xdma_setting` | ioctls, mmap | library, transfers |
| Library registry (`lib/vi53xx_xdma.c`) | board list, handle table, index table, counters, parameter matrix | check boards, open, close, indices | /proc, device nodes, DI and DO |
| DI/DO configuration (`es5341_di_cfg.c`, `es5341_do_cfg.c`) | threshold tables, registers | init, exit, configure | registry, registers |
| Oscilloscope (`lib/vi53xx_xdma.c`) | registers | select, start, clear | registers, transfers |

What is hard about it: a probe has eight steps that can fail, and each failure enters the
ladder elsewhere; a load looks at one result of four and an unload at none; a board is
usable by other processes before its probe ends and until somewhere in its remove; the
remove stops no DMA engine; the timer callback re-arms itself against an unlocked "off";
a mapping request travels through a driver global between two system calls; several
boards share one name buffer and unlocked counters; the library's init and exit share
tables and counters between boards and threads; a configuration is a sequence of register
accesses that nothing keeps together. `PROJECT.json` lists these places ("hazards") with
the properties that watch them.

Correctness of each part, in a sentence: binding gives back all but what no code gives
back, releases nothing twice and publishes only what is complete; loads and unloads oops
for known causes only; numbering keeps live boards apart; an LED flag tells whether the LED
blinks; a chain is whole and no prefetch leaves it; an engine uses its channel's memory
only and a started transfer ends; a mapping is the one asked for, and uncached if that was
possible; a client of the library has an open handle on its board until it exits; the
parameter matrix goes wrong for known causes only; thresholds, outputs and scope settings
are those asked for last.

## Modules

- **PciProbe**: `xdma_probe()` and `xdma_remove()` statement by statement. `pc[d]` is the
  label device `d` is at, `drv[d]` what the driver recorded in its structures, `kern[d]`
  the kernel's ledger, `left[d]` what no code of the driver gives back (see below). One
  action per acquisition, release or publication, and per label of the ladder. `count++` is
  a load (`create_cdev`) and a store (`count_store`). A failed `device_create()` is an
  ERR_PTR that the code takes for success, and failed DMA allocations are ignored: both are
  in the model. `SerialProbe` says whether the driver core probes one device at a time
  (module load with boards in place) or not (hot plug).
- **BoardLife**: the abstract lifecycle (absent, setup, live, teardown) that PciProbe
  implements under `LifeState`.
- **ModLife**: composes PciProbe with `xdma_mod_init()` and `xdma_mod_exit()`. `mod` is
  the statement the load or unload is at, `glob` the global pointers, `regions` what the
  kernel keeps of the character device regions, `names` what exists by name (the /proc tree
  and the class), which a load that was aborted leaves to the next one. Every part of a
  load may fail as its code lets it. "oops" is where the kernel dies and `fault` what of: a
  pointer that is not there, `kfree()` of a list that came from `vmalloc()`, `list_del()`
  on a freed node (which may also go well), a use of the /proc entry or file of a board
  that is gone, or of a /proc tree without its module. `hist` remembers what may be the
  cause.
- **LedBlink**: writers to the board's /proc file, the timer and its callback, and the
  removal of the board, each statement an action. `oops` and `uaf` stand for a timer
  added while armed and for a use of the freed `device_info`; `overlap`, `late`, `quiet`
  and `off_ran` are history variables the properties are conditioned on.
- **XdmaDesc**: `xdma_create_transfer()`: the loop that links descriptors with their
  adjacency counts, byte counts and card addresses, the separate last descriptor, the
  programmed registers. `DESC_NUM` is a compile-time choice (1 in this commit); the model
  takes every length the tables allow. `data_len` is as `vi53xx_info_init()` sets it: the
  first descriptor's only.
- **XdmaEngine**: composes XdmaDesc with the rest of a board's transfers. The probe builds
  the chains channel after channel with the steps of XdmaDesc; one client per channel
  starts, stops and polls, also while the probe is at work, as the device is live by then;
  the remove frees buffers and descriptors. `hw[c]` is a small model of the engine, taken
  from how the driver uses it: a rising run bit makes it fetch from the address it was
  given, a falling one lets it end the descriptor in hand, credits limit it when there are
  several descriptors. `StartCfg` is the element of `dma_cfg` that START really copies.
- **XdmaMmap**: SETTING ioctl, `get_xdma_cfg()`, the unlocked `fmap` flag,
  `set_memory_uc()`, mapping and unmapping by several callers, the part of a probe in which
  the device is live but not complete, and the remove with `set_memory_wb()`. Callers ask
  for the channels in `Asked`, with or without a buffer: the library lets 0 to 4 through
  and goes on when it did not, and the driver's index reaches the other direction's
  elements (`dma_cfg` is the memory they lie in) or beyond (`xdma_mmap_garbage`). Any
  buffer's allocation and any `set_memory_uc()` may fail (`no_mem`, `uc_failed`), which the
  code does not look at.
- **BoardMapping**: the text of `/proc/vi53xx/mapping` as digits, printed by the driver
  and scanned by the library, and `_check_boards_info()`, as operators; it has no state.
- **BoardRegistry**: `check_boards_info()`, `free_board_info()`, `vi53xx_device_open()`,
  `vi53xx_device_close()`, `get_idx()` and `release_idx()` as used by
  the DI and DO init and exit of several threads, over boards that BoardMapping lists.
  `machine` is what the driver had when the list was read, so that a handle can be compared
  with the board it is open on. `ProcName` and `LibName` are the file names used by the two
  sides. The granularity is the library function, except that `vi53xx_device_open()` is cut
  between the search of the table and its compare-and-swap, and `get_idx()` between the
  search, the test of a bit in `get_unique_id()`, and the setting of it with the entry in
  the table. Overlaps for which the library is not made are recorded in `breach`: "raced"
  for loads, releases and closes against an init, "overtaken" for `get_idx()` against
  another one or against any of these, "twin" for two opens of one board.
- **ParMatrix**: the parameter matrix of the library: `set_parvar_mat_path()` with the
  reads of the file, `release_parvar_mat()`, which every close and failed init calls, and
  the clients that hold a pointer into it; every assignment of a pointer, every free and
  every access through one is an action. It shares no state with the tables, hence its own
  module. `heap` is what is allocated, `fault` how the process went wrong, and `cause`
  records overlapping calls, a path set twice, a failed read, and data kept over a release.
- **BoardRegs**: the threshold, output and oscilloscope calls as sequences of register
  accesses, each access an action, with the encodings of the code and the converters that
  take a code at the strobe.
- **MCPciProbe**, **MCModLife**, **MCBoardRegistry**, **MCBoardRegs**: constants,
  constraint and symmetry for TLC.
- **PciProbeProofs**, **PciNumberProofs**, **ModLifeProofs**, **LedBlinkProofs**,
  **XdmaEngineProofs**, **XdmaMmapProofs**, **BoardRegistryProofs**, **BoardRegsProofs**:
  theorems.

Definitions whose comment begins with "Mutant" are variants of the definition below them
with a plausible mistake; no specification uses them. Replacing the definition by its
variant must make TLC report the property named in `PROJECT.json`.

## Runs

| Run | Bounds | Shows |
| --- | --- | --- |
| probe_concurrent | 2 devices, 3 BARs (one of length 0), 2 channels, 1 probe each, probes interleaved | no leak but the kobject name and the /proc entry, no double release, live devices usable, dangling list node only inside remove, BoardLife implemented |
| module_life | 2 devices, 2 BARs, 1 channel, 2 loads, 2 probes one at a time, regions of 1 minor, 3 majors for 2 per load | numbers and names of live boards differ, which board has a number in a region, what the kernel can die of and why |
| open_file_reference | 1 device | **violated**: a file outlives the structure it points into |
| led_blink | 2 writers | flag, darkness, timer use, safe removal, blinking |
| transfer | 3 channels, chains of 1 to 4, 1 adjacent, 2 starts | chains right on every channel, engines stay in their memory, START leaves other clients' engines alone, transfers end |
| registry | 2 threads, 2 boards, 2 clients per board, 3 descriptors, tables of 2 | handles, descriptors, board list, duplicate and refused ids, indices |
| parameter_matrix | 2 threads, 2 settings of the path, any number of releases and uses | why the process can go wrong, what is never freed |
| mapping_instance | 2 boards, instances 9 and 10 | **violated**: instance 10, the eleventh board of a type, is read as 16 |
| registry_no_device | file names of this commit | **violated**: a missing file is reported as success |
| mmap_concurrent | 2 callers, 2 boards (one stays bound, one comes and goes), 2 calls, channels 0, 1, 2, 3 and 5 | a cached view only if `set_memory_uc()` failed, the buffer asked for unless requests overlap, what an oops takes |
| mmap_race | 2 callers, 1 board, channels 1 and 2 | **violated**: one gets the buffer the other asked for |
| board_regs | 2 threads, 2 calls, all 16 inputs and an unknown one, outputs 1, 2, 16 and 17, two thresholds below 2.5 V and one at it, register values 0 and 1, two selections of scope channels | settings as asked, races never set a wrong threshold |

The run *registry* gives both sides the same file name, since with those of this commit
("mapping" in `board_info.h`, "maping" in the library) no board is ever found and nothing
after the check would be exercised; *registry_no_device* uses the names as they are.

Why the bounds are enough. Two devices exhibit every interleaving of pairs, and no shared
variable of the driver (counter, name buffer, list) relates more than two; three BARs give
a present one before and after the point of failure and an absent one. Two loads let a
counter, a /proc entry or a region of the first meet the second, and with one minor per
region and three majors the second board and the second load are beyond the limits that
really are at 128 boards and at the kernel's majors. Two writers and one timer are all the
LED has. A chain of four with one adjacent descriptor has first, middle and last bursts;
for every other length, and for the real limits of 64 and 15, the chain properties are
proved. Channels 0 and 3 reach an element of the other direction or none, depending on the
direction, and 5 is one the library refuses. Two starts let a transfer follow another or
run beside one. In the registry a table of two with two boards is both full and partly
free. Two settings of the path let a matrix that was freed meet one that is being read, in
the hands of each thread. Two register calls are enough for any interleaving of a pair, and
for every kind of setting, thresholds too, to be overwritten by a later one.

*registry* is run under the CONSTRAINT `Undisturbed`: behaviours are followed up to their
first race, or overtaken `get_idx()`, between library functions that are not made for
threads. `TypeOK`, and after an overtaken `get_idx()` everything but `IdxUnique`, is claimed
beyond that point too: the run shows it up to there, and the proofs, which know no
constraint, in every behaviour. The constraint cannot hide a violation before the race.
SYMMETRY is over threads and over devices, which no specification tells apart, in runs that
check invariants and the refinement, and no liveness.

CHECK_DEADLOCK FALSE appears where the system may stop: no more probes, starts or calls, a
kernel oops, or an algorithm that has finished.

## What the properties assume, and what happens outside

The properties are conditioned on what the code relies on, by history variables; the
models contain the steps that break the condition.

- `MinorUnique` and `NodeNamedAfterBoard`: serial probes, as nothing locks the counter or
  the name buffer.
- `ResourcesReturned` names what is never given back: the kobject name, which
  `cdev_init()` wipes right after `kobject_set_name()` allocated it, the /proc entry of a
  board until the unload, and the enable of a probe that found its regions in use.
- `OopsHasCause` claims nothing of a load that half failed, of a /proc entry or file used
  after its board's removal, or of a file kept across an unload (the owner of the cdev is
  wiped by `cdev_init()`): there the kernel may die. `list_del()` on the node just freed may
  do so in every remove.
- `LiveHasNumber`: the majors are not used up by the regions that every unload leaves
  (255 minors given back where 128 were taken), and no more boards were probed in this
  load than a region has minors.
- LED: no overlapping writes and no "off" whose `del_timer()` missed a running callback.
- `DmaStaysHome`: clients waited for the probe and saw their channel idle before the close
  or the remove. The remove itself stops nothing.
- `ChainComplete`: the chain is whole for every length, but only its first descriptor has
  a length. A build with `DESC_NUM` above 1 would link descriptors that move nothing; the
  property says so instead of assuming the one descriptor of this commit.
- `OwnEngineOnly` holds for chains of every length: with more descriptors a start of C2H
  CH2 gives its credits to H2C CH2, which is no client's. For the same reason `TransferEnds`
  is for one descriptor per channel, as in this commit, or for C2H CH1, whose wrong element
  of `dma_cfg` happens to have the right contents.
- `HandleForClient`, `NoFdLeak`: no race, and no exit while another client has the board
  open: two clients share one entry, which the first exit closes.
- `DistinctIdsAccepted` excuses id 0: `_check_boards_info()` compares with the zeroed entry
  past the last board (`j < count+1`), so with two or more boards one with id 0 counts as a
  duplicate, although "> 0" is to mean "err_boards num", and every init fails.
- `IdxUnique`: no index is released that was never taken, as that releases index 0, and no
  `get_idx()` overlaps another one, a load, a release or a close, as the bit is tested and
  set without a lock.
- `CrashHasCause`, `OnlyTmpLost`: two closes at a time free the matrix twice, a failed
  `Mat_VarRead()` is followed, and data kept over anybody's close is freed memory. Of a
  matrix set and released in turn only the variable of `Mat_VarReadNext()` is lost, which
  no code frees.
- `MappedIsUncached` excuses a buffer for which `set_memory_uc()` failed: the code maps it
  cached and never tries again. `MappedIsAllocated` excuses a buffer whose allocation
  failed (pData is NULL and mapped all the same), a board removed under its mapping, and
  requests for channels that have no buffer. `set_memory_wb()` at the remove tests `fmap`
  at an index one too low (`WrittenBack`), so that the first channel's pages always go back
  uncached; no property is stated about that.
- `LevelsAsAsked`, `OutputsAsAsked`, `ScopeAsAsked`: calls did not overlap and the handle
  did not go during one. `LevelsFromCalls` needs neither. Both threshold properties are for
  less than 2.5 V: from there on the code runs into the control bits.

## Fairness

- LedBlink: armed timers expire, callbacks and system calls that started run on.
- XdmaEngine: an engine that has work goes on, being hardware; neither clients nor probe
  nor remove are fair.

The other modules have no liveness properties: what they model are calls that end by
themselves and that nobody has to make.

## Proofs

All theorems hold for every value of the constants that satisfies the named assumptions.

- **PciProbeProofs** (`PciAssumption`): `TypeOK`, `ResourcesReturned`, `FlagsAgree`,
  `LiveCdevUsable`, `ListDanglesOnlyInRemove`, and the refinement `LifeSpec`. The
  properties look at few labels each and none is inductive: whether "unbound" leaks depends
  on what the ladder was entered with. The invariant `Inv` is type correctness and
  `Shape(d)` for each device: for every label what is held, what the flags say and where
  the device is linked. A step of one device leaves the others' components alone (`Same`,
  `Frame`), so each action is treated once, in its `Step_` lemma: its effect on the record
  of `d`, types, shape, frame. For the refinement, `Shape` gives the phase of the board's
  life at each label (`LifePhase`); each action is then a step of that life for its device
  or leaves the phase as it is.
- **PciNumberProofs** (also `SerialProbe`): `MinorUnique`, `NodeNamedAfterBoard`. On top of
  `Inv`, `NumInv` says that one probe is under way (`OneProbe`), that numbers given out are
  below the counter and differ (`CountInv`), and that the buffer holds the name of the
  probe about to use it (`NameInv`). Most actions touch none of it and are dealt with
  together (`Quiet`). The theorems are about one load; ModLifeProofs has them across loads.
- **ModLifeProofs** (`PciAssumption`, `ModAssumption`): `OopsHasCause`, `LiveHasNumber`,
  and with `SerialProbe` `MinorUnique` and `NodeNamedAfterBoard` across reloads, where the
  counters start from zero again. A step of the composition is a step of PciProbe, the
  reset by `init_board_info()` or the removal of the /proc tree by `board_info_exit()`
  (`PciPart`), so `Inv` and `NumInv` carry over. `LoadInv` adds that all boards are unbound
  before the driver is registered and after it is unregistered (`Idle`), which globals
  exist at each statement of a load that is whole (`Globals`), and what regions there are
  (`Regions`). `OopsHasCause` needs to know before the fault who refers to a board: `Refs`
  says that as long as none was removed in this load every /proc entry and every file is
  that of the present probe, which is past its last failure, and that a load starts
  without entries of the one before. `LiveHasNumber` is not inductive either: a board's
  number is taken long after its probe was counted, so `Numbers` bounds the counter plus
  the probes that have yet to count (`Counting`) by the probes there were.
- **LedBlinkProofs** (no assumption on `Writers`): `TypeOK`, `FlagMeansArmed`,
  `OffMeansDark`, `NoTimerMisuse`, `QuietRemoveSafe`. The invariant says which label a
  single writer may be at for each combination of flag, timer and callback while there
  was no overlap and no race, and that a board freed quietly has no timer.
- **XdmaEngineProofs** (`DescAssumption`, `EngineAssumption`): `EngineTypeOK`,
  `DmaStaysHome`, `OwnEngineOnly`, and the three properties of chains for all channels of a
  board. The invariant `EngineInv` has a part for the chain being built, which ties `adj` to
  what is left of it (`adj = SG_num - 1 - i`) and describes every descriptor written so far;
  the types, which include that a stored chain is the whole chain or none, and `Ordered`:
  up to where the probe is, buffers and chains are there and registers hold their first
  descriptor (`Setup`), and in an orderly history an engine works only between its client's
  START and the poll that saw it idle (`InStep`), hence never once the remove frees memory.
- **XdmaMmapProofs** (`MmapAssumption`, `NoBufAssumption`): `MappedIsUncached`,
  `RequestKept`, `MappedIsAllocated`, for any number of callers, boards, mappings and
  channel numbers. The invariant follows a call through its labels, with a part for each
  property (`UncachedInv`: a flag and a label past the call mean that `set_memory_uc()` was
  tried; `KeptInv`: without a race the global is that of the one call about to read it;
  `BackedInv` and `OrderlyInv`: requests for channels with a buffer yield elements with
  one, on boards that are bound), and two they share: only boards whose probe ended are
  known to `fmap`, to calls and to mappings (`FreshInv`), so that what a probe allocates is
  new to all of them, and each buffer of a listed or bound board was allocated or failed to
  be (`AllocInv`).
- **BoardRegistryProofs** (`RegistryAssumption`: finitely many threads and a table that is
  not empty, 128 in `vi53xx_api.h`; `NullAssumption`: NULL is not a value it is compared
  with): `TypeOK` in every behaviour; `OpenHasInfo`, `IdxUnique`,
  `DuplicatesRefused`, `DistinctIdsAccepted`, `HandleForClient` and `NoFdLeak` under their
  conditions, for any
  number of threads and boards and tables of every length. The argument turns on the online
  counter: `vi53xx_device_open()` sets it to one more than the boards there are, so closes
  that match their inits never bring it to 0 and the list is not taken from under a client.
  `ListInv` says that without a race an init that fails is alone and that everyone else has
  the list of the machine; `IdxInv` that the bits set are the
  indices of the entries, and that the index a `get_idx()` found free is still the lowest
  that is when its bit is set;
  `OpenInv` that table, clients and opens under way agree, from which a free slot is there
  for every open by counting (pigeonhole); `FdInv` that descriptors are those of entries
  and opens. `HandleTheorem` and `FdTheorem` have the hypothesis `Told`: no
  board's instance, printed in decimal and scanned in hex, is that of another board.
  *mapping_instance* shows that instance 10 is read as 16; `TenBoardsTold` proves that
  boards with different instances from 0 to 9, up to ten of them, meet the hypothesis.

- **BoardRegsProofs** (`RegsAssumption`): `OutputsAsAsked`, `ScopeAsAsked`,
  `LevelsAsAsked` and `LevelsFromCalls`, for any number of threads and calls and every set
  of thresholds, outputs, values and selections that the assumption allows. A call is the
  list of accesses it has left, so the properties, which speak of threads at rest, say
  nothing in the middle of one. `RegsInv` fills that in: while calls do not overlap one
  thread at most has accesses left (`Solo`), and what a register will hold when they are
  done (`Comes`: the last write left to it, or what it holds now) is what was asked for
  last (`OutputsInv`, `ScopeInv`). `clear_a_buff()`, which writes back what it read, is
  followed through its read, set and clear (`Clearing`); the packed selections are shown to
  unpack byte by byte. For thresholds a table inverts `di_hl`, so that each code of each
  converter belongs to one level of one channel (`OneLevel`), and a register value below
  2.5 V decodes to the control and code it was made of (`ValueFacts`, `Decodes`).
  `LevelsInv` then says that at rest a strobe would change nothing, and that in a call the
  strobe sets the level asked for and no other. `FromInv` knows no condition: what the
  registers, the accesses left and the converters hold was asked for by some call.

Model-checked only: liveness (`KeepsBlinking`, `TransferEnds`), as the prover has no rules
for fairness, and ParMatrix. Every other property a passing run checks is proved too.

## Not modelled

- Logging, dumps and the listings printed for people: output only.
- The INIT, PRINT and DUMP commands, which copy between a DMA buffer and the caller, and
  the reads of scope samples and buffer status: data passed on unchanged.
- The contents of the parameter matrix.
- Boards that come or go after the library has read its list (`machine` is the machine as
  it was read), and listings of more than 128 boards, for which `extractValue()` has no
  bound: `RegistryAssumption` keeps machines within the tables.
- The statements between `iounmap()` and `kfree()` of a removal in LedBlink, which are one
  step there; PciProbe has them apart.
- Errors of `copy_from_user()`: the command is then not carried out, as if not given.
- What a caller does with MAP_FAILED, which the library hands on as an address.
- Build files and the start script.
