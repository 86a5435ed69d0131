# Verification of the scop21 oscilloscope

scop21 is the firmware of a two-channel oscilloscope on an STM32F4 Discovery
board with a touch LCD: two ADCs sample two pins, two DMA streams fill two
circular buffers, interrupt handlers turn a buffer into a curve, and `main()`
draws curves, buttons and cursors, and saves screenshots on an SD card.  The
program has no operating system.  What makes it hard is the interleaving of one
background loop with nested interrupt handlers and with hardware that works by
itself, over handles and registers nobody protects but the HAL's own locks; and
a file system on a card that may fail, fill up, be taken out or lose its power in
the middle of a picture.

This directory holds TLA+ modules translated from the code, TLC configurations
that check them, and proofs that TLAPS checks.  Line numbers are those of the
sources; `PROJECT.json` gives, for each definition, the lines it stands for.

## 1. Inventory

Paths: `appli/` and `lib/` are under `src/`.

### Acquisition (`appli/mylibs/dmaadc.c`, handlers in `appli/main.c`, `lib/hal/src/stm32f4xx_hal_adc.c`)

* State: `g_AdcHandle`, `g_AdcHandle2` (Lock, and the registers CR1, CR2 and SR
  of ADC1 and ADC2), `g_DmaHandle`, `g_DmaHandle2` (Lock, State, and the
  registers of DMA2 streams 4 and 2), `ADC_Buff_channel1/2`, `enable_copy`,
  `enable_copy2`.
* Operations: `DmaAdcStart()` (two calls of `HAL_ADC_Start_DMA`),
  `DMA2_Stream4_IRQHandler`, `DMA2_Stream2_IRQHandler` (stop the ADC, capture if
  asked, `HAL_DMA_IRQHandler`), `ADC_IRQHandler` (overruns).
* Interactions: `main()` restarts both channels on *every* edge of the touch,
  whether they run or not, and ignores every return value; a handler may run
  between any two accesses `main()` makes.
* Hard: the read-modify-writes of CR2 that a handler's stop can fall into;
  `HAL_DMA_Start_IT` that keeps its lock until an interrupt gives it back; flags
  that are toggled by `main()` and cleared by handlers; FIFO errors, transfer
  errors and overruns at any moment.
* Correct when: no lock is lost, a running sweep is never disturbed, an armed
  channel always has an acquisition that will serve it, the loop always comes
  back to the panel.

### DMA streams (`lib/hal/src/stm32f4xx_hal_dma.c`)

* State: Lock, State, EN, the enabled interrupts and the flags of one stream.
* Operations: `HAL_DMA_Init`, `_DeInit`, `_Start_IT`, `_Abort`, `_IRQHandler`.
* Used by the acquisition and by the SD transfers; the callbacks call back into
  both.

### Curves and menu actions (`appli/main.c`)

* State: `data_scope`, `data_scope2` (written by handlers), their memories, the
  math curve, `copyChannel1/2`, `copyChannelMath`.
* Operations: START, CH1, CH2, MATH; the copies; the math curve; the drawing.
* Hard: the loops over arrays that a handler writes; two requests toggled
  together and cleared apart.
* Correct when: a copy is of one capture; a press on START ends in two curves
  converted after it; the channels stay in step.

### Values on the screen (`appli/main.c`, `appli/mylibs/scope.c`)

* Conversion of a raw sample, the math curve in an `int8_t`, the row of a value,
  `pixelToVolt`.
* Hard: truncation, wrap and limits.  Correct when: a curve is on the screen,
  in order, and a cursor on it reads its voltage.

### Touch, buttons and cursors (`appli/main.c`, `appli/mylibs/viewcontroller.c`, `appli/demo_touchscreen.c`)

* State: `changed`, `touchX`, `touchY` (not initialised), `cursorA`, `cursorB`
  and their texts.
* Operations: the poll, the two edges, `virtual3DButton`, the choice and the
  move of a cursor.
* Hard: a release repeats the work of a press with old coordinates; closed
  intervals on both sides.

### SD transfers and card initialisation (`lib/bsp/stm32f4_sd.c`, `lib/hal/src/stm32f4xx_hal_sd.c`)

* State: `SdTransferCplt`, `DmaTransferCplt`, `SdTransferErr`, the SDIO
  peripheral, two DMA streams, the state of the card, and what `uSdHandle` knows
  of it (`CardType`, the width of the bus).
* Operations: read and write of one or more blocks with DMA, the two waiting
  functions, the handlers of SDIO and of both streams with the callbacks that spin
  inside a handler; `BSP_SD_Init` with the commands of `HAL_SD_Init` and of the
  wide bus; `HAL_SD_GetStatus`.
* Hard: two completions in either order, a handler that waits for another one,
  flags that outlive a failed transfer, partial failures that leave a stream
  locked; a card changed for one of another kind; a command that is heard and
  whose answer is lost; a status that still tells the error of the command before.
* Correct when: SD_OK means the data was moved, a completion is the current
  transfer's, both streams are free between transfers, `BSP_SD_Init` accepts a
  card only when both sides agree on it, a card is addressed in its own unit.

### Screenshot state machine (`appli/mylibs/sdcard.c`)

* State: `status`, the FatFs work area `SDFatFs`, the file.
* Operation: `SDCardMachine()`, one step per turn of the loop: IDLE, INIT, MOUNT,
  PREPARE_WRITE, WRITE_TEST_FILE, END_WITH_ERROR.  The BMP button sets INIT
  whatever the state; WRITE_TEST_FILE opens and writes the whole file in one turn.
* As built, no file is ever opened: the name is `"scope_screen.bmp"`, with 12 letters
  before the dot, and FatFs is configured without long names (`_USE_LFN 0`,
  ffconf.h:107), which takes 8.  `f_open` returns FR_INVALID_NAME (ff.c:1971), every
  screenshot that gets as far ends with "FAIL to open Testfile", and nothing is written
  on the card.
* Hard: a machine that is restarted anywhere, over volumes that earlier screenshots
  mounted; a name the library refuses; and, with one it accepts, the results of
  `f_write` and `f_close` that are not read.
* Correct when: the volume of the file is mounted when the file is to be opened, and
  each screenshot ends; and, once the name fits, the count announced tells the file
  on the card and a screenshot recovers from those before it.

### FatFs volumes and disk drivers (`ff_gen_drv.c`, `diskio.c`, `sd_diskio.c`, `ff.c`)

* State: the table of drivers with its count `disk.nbr`, the `is_initialized`
  flags, the volumes registered with `f_mount`, `fs_type`.
* Hard: a driver is linked at each screenshot and never unlinked; a drive is
  remembered as initialised even when its initialisation failed.
* Correct when: the count of drivers stays in its table, and the volume of the
  file is mounted when it is to be opened.

### FatFs file system (`lib/middleware/FatFs/src/ff.c`)

* State: the work area `FATFS` with one window on the card (`win[]`, `winsect`,
  `wflag`), the hint and the count of free clusters with their flag; the file
  object `FIL` with its own buffer; and, on the card, the boot sector, FSINFO, the
  FAT, the directory and the data.
* Operations the program uses: `f_mount`, `f_getfree` (which mounts the volume),
  `f_open` with `FA_CREATE_ALWAYS`, `f_write` for each pixel, `f_close`.  With the
  program's own name it never gets past the beginning of `f_open`; the rest runs
  with a name of 8 letters or fewer.  The only other caller in the build is
  `Capture_Image_To_BMP` (lcd_display_form_and_text.c:475), which makes the same
  calls and whose example, `"0:img.bmp"`, fits, but nobody calls it.
* Interactions: `SDCardMachine()` calls them in one turn of the loop and reads
  some of their results; they reach the card through the SD transfers.
* Hard: one window for everything, which a failed read may leave with another
  sector's number, already in `f_getfree`; an FSINFO that is stale.  With a name that
  fits, the order of the writes is that of the window's moves, with a power cut or a
  failing access between any two of them, and the card may fill up in the middle of a
  pixel.
* Correct when: every file stays readable, the other files are not touched, no
  cluster leaks, a picture whose calls succeeded is on the card.

### Not part of the oscilloscope's logic

The pixels of a screenshot (`bmpfile.c`, `colors.c`: constants and a pure
conversion), the calibration of the touch panel (not
called), the timers (their handlers only acknowledge), the UART (traces), the
LCD and its drawing (output), the other board support (registers), the rest of
the HAL, USB and the web server (no code of the application calls them).

## 2. Modules

| module | models | extends |
|---|---|---|
| `HalDma` | one DMA stream, as operators from stream to stream | |
| `ScopeAcquisition` | `main()`, the handlers and the hardware of both channels | `HalDma` |
| `Oscilloscope` | what the user is promised of the curves: an abstract specification | |
| `ScopeCurves` | the acquisition with its data, composed action by action | `ScopeAcquisition` |
| `SdCard` | the card and the driver's handle, as `BSP_SD_Init`'s commands see them | |
| `SdTransfer` | the SD transfers over two streams, and `BSP_SD_Init` | `HalDma`, `SdCard` |
| `SdScreenshot` | the BMP button, the machine, the volumes and the file | |
| `SavedFile` | what the user is promised of the file: an abstract specification | |
| `FatVolume` | FatFs on the card, between any two accesses of it | |
| `ScopeScale` | the conversions, as operators | |
| `ScopeSamples` | the values of one column of the screen | `ScopeScale` |
| `ScopeView` | panel, buttons and cursors | `ScopeScale` |
| `ScopeScreen` | the two together: handlers between turns of the loop | `ScopeSamples`, `ScopeView` |
| `MCAcquisition`, `MCCurves`, `MCSd`, `MCScreenshot`, `MCFat`, `MCScreen` | constants for TLC | the module they are named after |
| `ScopeAcquisition_proofs`, `SdTransfer_proofs`, `SdScreenshot_proofs`, `FatVolume_proofs`, `ScopeScreen_proofs` | theorems | the module they are named after, `TLAPS` |
| `ScopeCurves_proofs` | theorems | `ScopeCurves`, `ScopeAcquisition_proofs` |
| `FatChains_proofs` | lemmas about the chains of a FAT, whoever writes it | `FatVolume`, `TLAPS` |
| `FatFiles_proofs` | theorems about the files on the card | `FatVolume_proofs`, `FatChains_proofs` |

Operators whose name has an underscore and whose comment starts with `Bug:` are
not part of a model.  Each is a variant of the definition that follows it with a
plausible mistake; put in its place it breaks a property, which shows that the
property depends on the code.

### `HalDma`

A stream is a record of the fields the HAL tests: `lock`, `state`, `en`, `ie`,
`flags`.  `Claim`, `Program` and `Enable` are the three parts of
`HAL_DMA_Start_IT` between which an interrupt matters; `Abort`, `IRQHandler`
(`HandleErrors`, then `HandleHalf`, then `HandleComplete`, in the code's order),
`DeInit` and `HalInit` are the other calls.  `Disable` raises TC when it stops a
stream that runs: the hardware does, and a handler that aborts its stream before
`HAL_DMA_IRQHandler` depends on it.  `HandleComplete` clears every flag that is
enabled, so no interrupt is left pending by a handler.  Only a stream that is not
circular masks HT and TC.

### `ScopeAcquisition`

`pc` and `ch` say where `main()` is and on which channel; `old` and `cr2` are the
values a read-modify-write holds in a register between its load and its store.
`HAL_ADC_Start_DMA` is one action per access to shared state (`AdcLock` to
`SwStartStore`), with its early return on a locked handle.  A handler is one
action: it preempts `main()` between any two of its steps (`MainAt` forbids a
step of `main()` while an interrupt is pending) and the two stream handlers touch
disjoint state, so their nesting adds nothing.

The buffer is `BUFFER_SIZE*2 = 200` samples and the handlers convert its first
100: two halves.  `fill` counts how much of the first half the sweep wrote (0:
nothing yet, 1: some samples, 2: all of it), which is all the code can tell.
`ovr` stops the conversions until the flag is cleared *and* `SWSTART` is stored
again.

Constants choose what the environment does:

* `Faults`: FIFO errors and transfer errors may occur.
* `Overruns`: an ADC may overrun while its stream runs.  An ADC nobody reads
  always may.
* `EdgeInFlight`: an edge may be handled while an acquisition runs.  When FALSE
  an edge waits for both to be over.  That is how the board behaves: after
  `DmaAdcStart()` the loop calls `SDCardMachine()` and draws a line of text, which
  takes milliseconds, and a half buffer takes about 26 µs (100 conversions of 11
  cycles at 42 MHz).  Nothing in the code enforces it, so the runs about locks and
  registers use TRUE.

`toggle` (main.c:31) is tested with every poll but nothing sets it; it is left
out.  Nothing reads `hadc->State` and `hadc->ErrorCode`; they are left out too.

### `ScopeCurves` and `Oscilloscope`

The value of a sample is abstracted to the number of presses on START that came
before its conversion, and an array to the set of those numbers.  A loop over an
array is two steps, one per half, so that a handler can run in the middle.  Every
action extends an action of `ScopeAcquisition` by conjunction, so that the
composition has exactly its interleavings.

`Oscilloscope` has no interrupts and no buffers: a press, a channel asked for a
capture, a capture that replaces a curve at once by samples of the last press, a
memory that is a copy of the curve, a math curve of one moment.  `Implements`
states that `ScopeCurves` implements it under `asked <- enable`,
`curve <- scope`, `memory <-` the second half of each copy (a copy takes effect
when its loop ends) and `combined <-` that of the math curve.

### `SdTransfer` and `SdCard`

`main()` goes through the transfer functions (`Begin` to `Response`, `DataConfig`
for a write), then `HAL_SD_CheckReadOperation` or `CheckWriteOperation`
(`WaitEnd` to `Clear`) and, for a write, the wait for the card (`Programming`).
SDIO preempts everything; a stream's handler is split in two by the loop of its
callback: `DmaIRQ` up to the loop, `SpinEnds` from its end.  Data is abstracted to
`moved`: are all the blocks of this transfer where they should be?  `ended` and
`target` are history.

`BspInit` starts with the streams and the registers of SDIO, then a step per
command: `CMD0`, `CMD8`, `ACMD41` until the card is ready, `CMD2`, `CMD3`, `CMD9`,
`CMD7`, `CMD16`, `ACMD51` with the loop that reads the register SCR from the FIFO
(`ScrEnds`), and `ACMD6`.  A card obeys a command only in the mode of the SD
specification that has it (`Obeyed` in `SdCard`); it may obey one whose answer is
lost.  `Swap` changes the card between two calls and ends `ready`: FatFs asks for
transfers of a card only after `BSP_SD_Init` accepted it (`disk_status`).

Modelling choices:

* an answer from the card clears the static flags even when it reports an error;
  no answer, or a bad one, leaves them (`ClearFlags \/ UNCHANGED sdio`);
* after an error the last words of a read may still be in the FIFO, and the
  stream may then complete normally;
* the software timeouts (`WaitEnd`, `WaitIdle` giving up) may strike only with a
  faulty card, since they are far longer than a transfer that works;
* the peripheral's flow controller bit (`DMA_PFCTRL`) makes a stream end with the
  transfer of SDIO: `StreamDone`;
* a card of version 2 or of high capacity answers `CMD8`, one of version 1 does
  not, for which the command is illegal: it may say so in its answer to the CMD55
  that follows, which `SD_CmdResp1Error` takes for a failure (hal_sd.c:2548), so that
  `Acmd41` may refuse such a card; the count of trials of `ACMD41` and its outcome for a card that is never
  ready are one failure; CARD_LOCKED, RCA, CID and CSD are left out.

The constant `Conditions` is a set of records: `faulty` (commands fail, data is
bad or late, streams fail, the card fails while it programs), `lag` (the card's
DATAEND may come before the stream has emptied the FIFO) and `kinds` (the cards
that may be in the slot).  A behaviour keeps the record it started with.

### `SdScreenshot`

`turn` alternates the poll of the panel and one step of the machine, as the loop
does.  `pos` cuts MOUNT and WRITE_TEST_FILE where the card is asked for something,
since it may be taken out there (`CardGone`); the panel is not polled in between.
A picture is `Chunks` chunks, the header first; a chunk stands for writes that are
all kept or all lost.  `buf` is what the `FIL` has accepted, `entry` the file as
the directory on the card has it: `f_open` empties it, only a good `f_close`
fills it.  An error of the disk marks the file (`fp->err`), a card that did not
answer the status request before a write does not, and a full card refuses every
later chunk.

`body` is the number of letters before the dot in the name of the file, any of
`Bodies`: 12 in the program.  `NameFits` is what `create_name` asks of it.  `f_open`
makes the name after it has found the volume and before it looks at the directory: a
name that does not fit leaves the entry alone and ends the screenshot (`OpenFails`),
without a fault of the card.  `MachineWrite` and `MachineClose` can run only with a
name that fits.

`find_volume` is split in its two outcomes, `Found` and `NotFound`.
`disk_initialize` calls `BSP_SD_Init` only the first time it sees a drive, and
records it as initialised whatever comes out of that.  `ready` is whether the last
`BSP_SD_Init` succeeded with the card that is there.

`FATFS_LinkDriver` accepts a third driver in a table of two.  The store to
`disk.drv[2]` falls on `disk.nbr`, which follows the array (`ff_gen_drv.h:67`), and
the build is not optimised (`-O0` in `Debug/appli/subdir.mk`), so that `nbr` is
read again after it: the path gets the low byte of the address of `SD_Driver`.
`DriverByte` is that byte, 4 in `Debug/output.map:37725`.  The assumption that it is
at least 4 covers every address the linker may choose but one that ends in zero.

`SdScreenshot` sees FatFs from above: its chunks, the results of the calls and the
entry a reader finds.  Its reads that fail leave the window as it was, the
assumption that `FatVolume` names (below).

### `FatVolume` and `SavedFile`

A step is what FatFs does between two accesses of the card, so that a cut of the
power (`PowerCut`) falls between any two of them and a sector is the old one or
the new one.  FatFs sees the FAT, the directory and FSINFO through one window:
`move_window` is `Sync`, which writes a dirty window back, and `Load`; `Need` is
the sector the next step looks at, and every step waits for it.  `Fail` is how
each call ends when its access fails: `f_write` marks the file and the program,
which does not look, goes on with the next pixel; the others give the picture up.

What is small is kept small: a cluster is one sector, a sector two *pieces*, the
header one piece and every later write two.  So the second piece of a write
crosses into the next sector, as a pixel of 3 bytes does in a sector of 512, and a
card may fill up between the two.  The root directory is one sector with an entry
to spare.  The FAT has two sectors, cut at `Split`, so that a chain and the search
for a free cluster leave the one in the window.

`f_getfree` mounts (`Mount`: the type of the volume, FSINFO if it is FAT32) and
counts (`Count`).  `f_open` finds the entry, empties it and removes the old chain
link by link (`Find`, `Remove`, `Reopen`).  `f_write` stretches the chain
(`Stretch`, `Search`, `SearchOn`, `CardFull`, `Link`), flushes its buffer
(`Flush`) and copies (`Copy`); `f_close` flushes (`FlushLast`), writes the entry
(`Entry`) and FSINFO (`SyncFs`).

Constants: the size of the FAT, the length of a picture, the cards there may be,
bounds on pictures and cuts, and `TornReads`: may a read that fails leave part of
its data in `win[]`?  `Bodies` are the lengths of the names that `f_open` may be
given: it ends in `Refuse` for one of more than 8 letters (`Fitting`), and goes on to
`Find` for another.  With the program's own, 12, every state after `Open` is out of
reach (`LongNamesWriteNothing`); what follows is the library, for a caller whose name
it accepts.  `lost` is history: did a call of this screenshot fail?  Of the
cards, `CardAssumption` says that the other files keep their clusters to themselves,
and `FilesAssumption` that both files of the directory can be read: each has a chain
(`c.chain`) that ends, crosses no other and is long enough.  Clusters may be in use
without a file, as a cut leaves them; only on `TidyCards`, which `NothingLeaks` and
`FreeTells` are about, there are none and FSINFO tells the truth.

`SavedFile` has no clusters: a file that is emptied, then holds pieces of one
picture in their order; before the first picture it is whatever the user left
there.  `Implements` states that `FatVolume` implements it under
`file <- FileOf("ours")`, what a reader finds on the card at any moment.

### `ScopeScale`, `ScopeSamples`, `ScopeView`, `ScopeScreen`

`Sample(raw)` is `(signed int)(raw / 1.28 - 100)` in exact integers
(`(25 raw - 3200) / 32` towards zero), stored in an `int8_t`, then limited.
`Reading(row)` is `pixelToVolt` rounded to the two decimals its text shows.
`ScopeSamples` keeps one column; `raw1` and `raw2` remember the samples behind
the values.  `ScopeView` is one turn of the loop per step, with the geometry of
the buttons; a finger may slide between its landing and its release.
`ScopeScreen` composes them: the handlers convert samples between any two turns,
and an edge moves the cursors, then computes the math curve of the mode that the
buttons have left.  Its constant `Scenes` says which samples, points and
uninitialised ordinates there may be.

## 3. Runs

| run | module / cfg | shows |
|---|---|---|
| `acquisition_race` | `MCAcquisition` / `AcquisitionRace` | safety of locks, streams and requests, edges and errors at any moment |
| `acquisition_live` | `MCAcquisition` / `AcquisitionLive` | captures are served, the loop comes back |
| `curves_paced` | `MCCurves` / `CurvesPaced` | refinement of `Oscilloscope`, a press is shown |
| `sd_transfers` | `MCSd` / `SdTransfers` | SD_OK means moved, `BSP_SD_Init` tells the truth, both return; completions belong to their transfer, whatever fails |
| `sd_init` | `MCSd` / `SdInit` | violation: a stream stays locked after `BSP_SD_Init` |
| `sd_read_returns` | `MCSd` / `SdReadReturns` | violation: a callback spins for ever |
| `screen` | `MCScreen` / `ScreenTouches` | curves on the screen, read to 40 mV; one effect a press, none for a release in place |
| `samples_math` | `MCScreen` / `SamplesMath` | violation: the math curve wraps |
| `screenshot` | `MCScreenshot` / `Screenshot` | whatever fails: the volume of the file is mounted, screenshots end and recover, counts tell files; with the program's name nothing is saved |
| `screenshot_links` | `MCScreenshot` / `ScreenshotLinks` | violation: the third screenshot breaks the table of drivers |
| `fat_volume` | `MCFat` / `FatVolume` | names that fit and that do not: refinement of `SavedFile`; files stay readable and apart, whatever fails and wherever the power is cut |
| `fat_window` | `MCFat` / `FatWindow` | violation, with the program's name: a read that fails leaves the wrong number on the window |

### The acquisition

`LockOwnership`: a stream is locked exactly while it runs, while a transfer error
waits for its handler, or while `main()` is between lock and enable.  It would
fail if the handler could run in the window between lock and enable, or if a stop
could leave the lock behind; then `HAL_DMA_Start_IT` would answer `HAL_BUSY` for
ever and nobody looks.  `RunningUntouched`: the restart on every edge leaves a
stream that runs alone.  `ArmedHasAcquisition` relates the request to the state
of ADC and stream after all the read-modify-writes a handler can fall into: the
CR2 bits that a stale store may bring back, an `ADON` test that a handler
outdates.  With overruns the channel may be stalled with its stream still
enabled; that it is *served* is `ArmedIsServed` of `acquisition_live`, where no
served ADC overruns.

Known and not kept as a run: main.c:244 and :274 say that the handlers run when the
buffer is full, but they do not ask which flag brought them, so that a FIFO error
shows a curve of which only a part is new.

Bounds: none.  Two channels are the system's own number and every variable is
finite.

### The curves

`CopiesAreWhole` and `ChannelsTogether` are about what a handler can do between
two steps of the loop.  `PressIsShown` is the promise of the instrument.  Two
presses (`MaxPresses = 2`) give a curve before the first capture, one capture and
a second one over old samples in the buffer; a third meets only a state like the
second's.  The properties need `EdgeInFlight = FALSE`: when an edge falls inside
an acquisition, START may arm a channel in the middle of a sweep begun before it.

### The SD card

`GoodOrNot` has two records: a card that works, of any kind and changed at will
for any other (none included); and one that fails and lags in every way the model
has, of version 1 or of high capacity, changed for the other.

`OkMeansMoved`, `StreamsAreFree`, `TransferReturns` and the second half of
`InitTells` are about the first; `DmaEndsAfterCard`, `CompletionIsMine`, the rest of
`AddressFits` and the first half of `InitTells` hold for both.  `InitTells` would
fail if a lost answer to `ACMD6` left the two sides with different buses over the
next power-up (first half, whatever fails), or if a card of version 2 were refused
where nothing fails: for the kind of the card before it, or for what a transfer
that went well had left (second half).  `Good` is of the whole behaviour, so the
second half says nothing of a card that works after something has failed: such a
card can be refused, as the last counterexample below shows.  Nor does it speak of
cards of version 1, which may always be refused for CMD8.  `InitFreesStreams` and `ReadReturns` are the two violations:
`HAL_DMA_DeInit` refuses a BUSY stream, so `BSP_SD_Init` leaves its lock; and a
callback that waits for `SdTransferCplt` waits for ever after a data error.

Known counterexamples, not kept as runs:

* with `lag` a read returns at the first flag (hal_sd.c:1143) with the last words
  still in the FIFO;
* with a faulty card the store of `errorstate` (hal_sd.c:989) overwrites an error a
  handler has just recorded, and the loop's own exhaustion is forgotten
  (hal_sd.c:1151);
* a card of version 1 put in after one of high capacity keeps its `CardType`
  (hal_sd.c:2611) and is addressed by blocks, which is why `AddressFits` is about
  the cards `SD_PowerON` tells apart;
* a transfer whose command failed leaves the interrupts of SDIO enabled: if SCR
  does not come, the handler takes DTIMEOUT before the loop of `SD_FindSCR`
  (hal_sd.c:3244) tests it, and the loop never ends;
* such a transfer may leave its stream enabled too; `SDIO_DataConfig` keeps DMAEN
  (hal_sd.c:3224), and the stream takes SCR in place of the loop, which refuses a
  card that works.

Bounds: none; transfers, initialisations and swaps repeat without limit, in both
directions, with one block or several.  `CHECK_DEADLOCK FALSE`: a callback that
spins, a loop for SCR or a card that reports an error while it programs really
stops the system.

### The screenshot

`screenshot` has two names: the program's, with 12 letters, and one of 8.  A behaviour
keeps the one it starts with.

**With the program's own name no screenshot is ever saved.**  sdcard.c:81 says that the
captures are kept in `scope_screen.bmp`; `f_open` refuses that name (ff.c:1971), so
that every screenshot that gets as far ends in IDLE with "FAIL to open Testfile", on
a card that never fails too.  `GoodShotSaves` states it, and `LongNameSavesNothing` (section 4) proves
that nothing else happens.  A name of 8 letters or fewer, or `_USE_LFN`, would let the
machine on; what the rest of the code then does is the other half of the run.

`CountTellsFile` (a name that fits): whatever fails, the file on the card has as many
chunks as the screen announces, or none, and if they are all there they are the picture, in
order.  It would fail if a lost write were counted, which would hide a hole in the
picture.  `GoodShotSaves`: without a fault since the press that started it, a
screenshot whose name fits ends with the whole picture, and one whose name is refused
with nothing on the card and a text that says so, whatever happened to the earlier
ones, while the table of drivers is sound.

`FileHasItsVolume` (any name): each screenshot mounts another volume number over the
same work area, yet `f_getfree("")` and `f_open` use volume 0; it is mounted whenever
the file is to be opened.  `ShotEnds`: each press ends
in IDLE or END_WITH_ERROR, once the user stops pressing: one who presses every two
turns keeps the machine before PREPARE_WRITE, which is what the code does.
`LinkCounts` is what `ff_gen_drv.c:40` says of `FATFS_LinkDriver`; the third
screenshot violates it, f_mount refuses the path `4:/`, and every later screenshot
is "NOT mounted" until the reset.

The number shown may exceed the file by up to two bytes when an access fails on a
pixel that straddles two sectors, since `f_write` returns without the count of
what it had copied; at the grain of chunks `CountTellsFile` holds.

Bounds: four presses, one more than it takes to break the table; three chunks, so
that a hole may be in the middle; room for 0 to 3 chunks.

### The file system

`fat_volume` gives `f_open` names that fit and names that do not.  A name that does not,
as the program's, ends `f_open` before anything is looked up (`Refuse`), with nothing
but reads of the card behind it.  The rest of this part is about FatFs with a name
that it accepts: no behaviour of this program until the name is shortened, but what
its calls would meet from that day on.

`FilesReadable` is the heart: at every moment, a cut of the power included, the
chain of each file is long enough for its size, ends with a mark and crosses no
other.  It depends on the order in which the window moves: the entry is emptied
before its chain is removed, a cluster is marked as used before a chain leads to
it, the entry is filled last.  `NothingLeaks` and `FreeTells` are about cards that
neither fail nor lose their power: after a cut, allocated clusters without a file
remain, FSINFO is stale and the code believes it.  `FullIsFull`: a picture is kept
short only when no cluster is free, wherever the hint makes the search begin.
`GoodCallsSave`: if no call failed the picture is there, whole, and a cut after
that takes nothing away.  `OtherIntact` and `WindowTells` would fail if a sector
were written under another's number.  `SaveEnds` is about the loops over chains
and the search.

`fat_window` shows what the others assume away: `move_window` passes `win[]` to
`disk_read` and sets `winsect` only when that succeeds (ff.c:805).  The SD driver
copies data as it arrives, so that a read that fails may have overwritten the
window, and the next call finds the old sector "in the window".  The run has the
program's own name: the reads of `f_getfree` are enough.

Known and not kept as a run: `f_getfree` stores the clusters it has counted when a
read fails half-way (ff.c:3382); the program gives the picture up and mounts
again, so that nothing is written from it.

Bounds: clusters 2 to 6 with a FAT cut after 4, so that every chain of three and
every search crosses the cut; a picture of 5 pieces, which takes three clusters
and ends in the middle of one; two pictures, so that the second replaces the
first, whatever it left; one cut anywhere.  The four cards are: one with
another file only, FAT32, whose hint is the last cluster, so that the search wraps;
a full one but for an old picture, FAT16 without a hint; one too full for a
picture; a full one of FAT32 whose FSINFO does not know its free clusters.
`CHECK_DEADLOCK FALSE`: after the last picture nothing more is asked.

### Values and touches

`screen` has three scenes.  In `Samples` the first channel takes all 256 samples
and the second five, at the ends and on both sides of the middle.  In `Modes` the
user changes the mode of the math curve and moves cursors while six samples of
each channel come in.  In `Touches` they touch points on each boundary of the
buttons and of the virtual screen, on the first rows of both cursors, beside
them, and at equal distance of both, with ordinates above, on and far below the
screen in `touchY` before.  The theorems (section 4) say the same for every sample
and every point, so the scenes only have to reach every action.

Known and not kept as runs: the first turn of the loop is an edge (`changed = 1`)
with an uninitialised `touchY` and moves a cursor when the stack happens to hold a
row (main.c:87, :182); and a finger that slides before it leaves moves the
nearest cursor to the point it left from.  `ReleaseIsIdle` says what is true: the
release repeats nothing when the finger did not slide.

### Fairness

Weak fairness of the steps of `main()` other than the polls: the processor runs.
Weak fairness of each handler: the NVIC serves a pending interrupt.  Weak
fairness of the sampling: a served ADC converts by itself, in continuous mode.
None for the errors, the overruns of a served ADC, the touches of the user, the
errors of the card and its removal, nor for another transfer being asked.  `main()` never runs
while an interrupt is pending, so that handlers that kept raising interrupts
would be found (`MainComesBack`).  In `SdTransfer` the hardware is fair as long as
the card does its part.  In `FatVolume` the steps of FatFs are: a screenshot runs to
its end in one turn of the loop.  None for the cuts of the power.

## 4. Proofs

A theorem holds for every value of the constants its module declares, from the
assumptions named there and, where the statement says so, from a condition on a
constant.  Every invariant, action property and refinement that a passing run checks is
stated by one of them; liveness is left to TLC.

**`ScopeAcquisition_proofs`** (any `Faults`, `Overruns`, `EdgeInFlight`):
`TypeCorrect`, `InvariantHolds`, `LocksAreOwned`, `AdcIsNeverBusy`,
`StreamsRunUntouched`, `ArmedIsAcquiring`.

`LockOwnership` is not inductive: that a locked stream is running or about to run
is kept by a handler only if the handler leaves no flag behind, which holds only
if every interrupt of a running stream is enabled, and by `main()` only if no
handler can run on a stream it has just locked, which holds only if such a stream
has no flag.  `StreamInv` says so for each stream, `AdcInv` says that a locked ADC
handle is `main()`'s, and `AcquisitionInv` is their conjunction with `TypeOK`.
Lemmas about the operators of `HalDma` on any stream (`AbortFacts`, `StartFacts`,
`HandlerFacts`) come first, then one lemma for the steps of `main()`, one for
handlers and hardware, one for the handles.  `RunningUntouched` follows because a
step of `main()` that changes a stream is between its lock and its enable, where
`StreamInv` says the stream does not run.  `ArmedHasAcquisition` needs `ArmInv`: a
handler that undoes an acquisition has cleared the request with it, and until
`main()` is back at the poll every bit of CR2 the handler may have cleared will be
set again, the value that a store of `main()` is about to write included.

**`ScopeCurves_proofs`** (any number of presses): `CurvesAreTyped`;
`PacedInvariant` and `CopiesWhole` with `EdgeInFlight = FALSE`;
`CaptureInvariant`, `ChannelsAgree` and `PromiseKept` with `Faults = FALSE` too.

Each step of `ScopeCurves` is a step of `ScopeAcquisition` or leaves its variables
alone (`StepsBelow`), so the invariants proved there hold here (`Below`).
`PacedInv` says that between the handling of an edge and the restart of a channel
that channel can raise no interrupt (`AllStill`), which is why a loop over a curve
meets no handler, and where each copy is half made (`HalfMade`).  `CaptureInv`
relates the sweep in the buffer, the request and the curve shown of each channel
to the number of presses.  `PromiseKept` is the refinement: the initial states of
`ScopeCurves` are those of `Oscilloscope`, and `StepMaps` maps each action to a
press, a capture, a copy, a math curve or a stutter.

**`SdTransfer_proofs`** (any set of `Conditions`): `SdTypesHold`,
`CompletionsAreMine`, `StreamEndsLast`, `CardIsAddressed`, `OkIsMoved`,
`StreamsEndFree`, `InitTellsTruth`.

The first group holds whatever fails.  `PathInv` follows the flags of SDIO through
the places where `main()` clears them: a flag or an active data path before the
command of a transfer is never one that the handler will serve as that transfer's.
`SpinInv` is the loop of the callback, `AddressInv` the type the handle has when
each command is sent, and the first half of `InitTellsTruth` is of this group.  The
second group is about behaviours in which nothing ever fails (`Good`).  Its
`MoveInv` has to tell every stage of a transfer apart (`Clean`, `Running`,
`Finished` for a stream; `Rest`, `Started`, `Moving`, `Moved` for the transfer),
because that SD_OK means moved is kept by each step only if the stream, the data
path and the flags are known to be at the same stage.  `IdentInv` says in which mode
the card is before each command of `BSP_SD_Init`.

**`SdScreenshot_proofs`** (any number of chunks and presses, any room):
`ShotInvariant`, `ShotIsTyped`, `CountIsTrue`, `FileOnVolume`, `GoodShotIsSaved` for
names of any length, and `LongNameSavesNothing` for one of more than 8 letters, which
is the program's: no screenshot opens its file or puts anything in its entry.

`ShotInv` adds four parts to the type: `TurnOK`, what a turn has done where the
machine is cut; `LinksOK`, which drivers and volumes there are after so many
presses; `FileOK`, what the `FIL` has accepted against the entry and the count;
`GoodOK`, how far a screenshot without a fault since its press has come.  They
depend on each other: that the file is on its volume needs the links, and that a
good screenshot saves needs both, and that nothing is written with a name that is
refused.

**`FatVolume_proofs`** (any size of the FAT, any files, pictures and cuts, with
`TornReads = FALSE`): `Apartness`, `OthersKept`, `WindowTrue`; for any `TornReads` but
with no name that fits, which is the program, `LongNamesWriteNothing`; and, on the same
assumption, **`FatFiles_proofs`**: `FilesHold`, `FilesCanBeRead`, `FileIsSaved`,
`GoodCallsHaveSaved`, `LinksAreExpected`, `FullIsFullHolds`, `VolumeTyped`, and on
`TidyCards` `NothingHasLeaked` and `FreeIsTold`.

`Inv` is `MediaOK` (on the card no cluster of ours leads to one of the others, nor
does our entry), `WindowOK` (the same of the sector in the window, for the sector
its number says; equal to the card's if it is clean) and `ProgramOK` (the clusters
FatFs holds in its variables, between two accesses, are free or ours).  The
assumption is needed exactly in `LoadInv`, and `fat_window` shows why.

What a reader meets on a card is a recursive function, `ChainFrom`; proofs cannot
follow it step by step.  `Chained(fat, head, s)` says without recursion that the
sequence `s` is the chain of `head`, and `FatChains_proofs` connects the two once and
for all: `ChainFound` (if there is a chain, `ChainFrom` is it), `ChainShort` (it has
fewer clusters than the FAT), and how it changes: `ChainStays`, `ChainGrows`,
`ChainShrinks`.  The few inductions there are by a least counterexample
(`Least`, from the well-foundedness of the naturals), which needs no induction
theorem with an operator parameter.

`FilesReadable` says nothing of the states between two accesses of the card, so it is
far from inductive.  `FilesInv` is.  Its parts:

* `Paced`: the write under way, its pieces left and the pointer of the file agree;
* `Phased`: while a chain is removed or made, the entry is empty on the card, or
  waits in a dirty window for the next move; this is the order of the writes that
  keeps files readable;
* `OursReadable`, `OtherReadable`: each entry on the card has a chain in the FAT of
  the card that is long enough for it, apart from the clusters of other files;
* `Removing`: what is left of the old chain, as FatFs sees the FAT (`Seen`: the
  window, and the card behind it), is a chain;
* `Writing`: there are a chain `s` and an increasing map `g` to pieces of the picture
  such that `Linked(s)` (the chain in `Seen` is that of FIL, and the cluster to be
  linked is outside it and ends), `Sized(s)` (its length goes with the pointer, per
  step, and the buffer is that of the sector the pointer is in) and `Filled(s, g)`
  (sectors and buffer hold the pieces `g`, all of them unless a call has failed);
* `Publishing`: the same of the entry in the window, on its way to the card.

That a file is readable when its entry arrives needs all of it: by then the FAT of
the card is what FatFs saw, because the window cannot be on the directory before the
last sector of the FAT has left it.  `FileIsSaved` maps each step to SavedFile's: a
window with an empty entry that is written truncates, one that `Publishing` is about
publishes, `Press` is a press, and no other step changes what a reader finds.

`LinksAreExpected` follows too: a cut in the middle of the removal of a chain leaves
nothing that a later `remove_chain` would meet half-removed, and a chain that is to be
stretched ends where FIL says, which is why `Stretch` needs no other case.

`NothingHasLeaked` adds `Tidied`: without a fault or a cut the clusters in use are
those of the other files and `Holding`, the clusters of the file at each step
(of the entry on the card, of the chain being removed, of FIL and the cluster not
yet linked, of the entry in the window).  `FreeIsTold` adds `Counted`: what FSINFO
or the volume tells is the number of free clusters at each step, with one more while
a cluster is marked and not linked, and FSINFO differs from the volume only where it
will be written.  `FullIsFullHolds` needs `Searched`: the clusters the search has
passed, from where it began and around the end of the FAT, are all in use.

**`ScopeScreen_proofs`** (any scene): `ScreenInvariant`, `StaysOnScreen`,
`SampleIsRead`, `TextsAreTrue`, `ReleaseRepeatsNothing`, `OneEffectOnly`.

`SampleIsRead` rests on `ReadBack`, linear arithmetic over the 256 samples, and on
the curves being conversions of the samples behind them (`CurvesFromSamples`).
`ReleaseIsIdle` needs two facts about the past: the cursors are never on one row
(`CursorsApart`), and the one nearest to the last landing is on it
(`CursorAtLanding`), so that the release chooses it again.

Only model-checked:

* liveness (`ArmedIsServed`, `MainComesBack`, `PressIsShown`, `TransferReturns`,
  `ShotEnds`, `SaveEnds`): fairness is out of the prover's reach;
* what the runs that expect a violation show, which are counterexamples;
* `TornReads = TRUE`, where the theorems of `FatVolume` do not hold.

## 5. What is not modelled, and the plan

Not modelled:

* of FatFs: FAT12, the second copy of the FAT, clusters of several sectors, a
  sector that is half written when the power goes, a directory that grows, and what
  nobody calls (reading, seeking, directories, renaming).  Its calls run on one
  thread, and nothing reads the card meanwhile.
* of the SD driver: the polling transfers, erase, high speed and the SD status, which
  are not called; RCA, CID and CSD, used as they were received; locked cards; cards
  of more than 4 GiB, whose byte address wraps on 32 bits (sd_diskio.c:115).
* of the HAL: `HAL_DMA_Start`, `HAL_DMA_PollForTransfer`, the double buffer and the
  drivers of peripherals the application does not use (two thirds of the
  repository's lines are these, USB and the web server, which no code of the
  application calls).
* the touch calibration (`TS_Calibration` is not called), the timers, whose
  handlers only acknowledge, the UART's traces, the drawing, the header and the
  colours of a picture.

The order of the development was: the acquisition; the curves over it; the SD
transfers; the screenshot machine; the screen; the file system; the initialisation
of the card; and proofs about each.  What is left, in this order:

1. The composition of `SdScreenshot` with `FatVolume`, for a name that fits, so that its
   chunks become writes of clusters and `CountTellsFile` is about bytes; then with the results of
   `SdTransfer`, whose SD_OK without data (hal_sd.c:1143, :989) is a sector of
   garbage that FatFs believes.
2. The fault of `fat_window` followed to the end, with a name that fits: which files a
   torn read may take.
3. `TouchCalibration`, last, since the application does not call it.

Each hazard that no run covers yet is in `PROJECT.json` with the reason.
