# nrf70-bm: a verification project in TLA+

This directory models the bare-metal Wi-Fi stack for the nRF70 series: the
Zephyr shim that drives the chip (`src/nrf70_zephyr_shim`), the library that
applications call (`src/nrf70_bm_lib`), the shell and the OTP programming of the
radio-test sample (`src/samples/radio_test_bm`) and the scan parameters of the
scan samples. The modules are translated from the C source; where a document or
comment says something else, the difference is a finding.

File names below are relative to `src/`. Z is `nrf70_zephyr_shim/source`, L is
`nrf70_bm_lib/source`, R is `samples/radio_test_bm/src`, S is
`samples/scan_bm/src`.

## 1. Inventory

The application's thread (a sample's `main`, or the shell) calls the library;
the library calls FMAC and HAL (external, not in the repository), which call
back through the OS-abstraction table of `Z/os/shim.c` into the work queues, the
platform layer and the bus driver. The chip raises an interrupt line; its GPIO
callback schedules work on the interrupt work queue (priority -15), which runs
the HAL; events for the library run on the bottom-half work queue (priority 0).
So three threads use the bus driver and the work items, and two use the state of
the library.

| Component | State | Operations | What is hard | What makes it correct |
|---|---|---|---|---|
| QSPI bus driver `Z/bus/qspi_if.c` | semaphores `trans`, `sem`, `sync`, `count`; `qspi_initialized`; the nrfx driver; the shared configuration | `qspi_init`, `read`, `write`, `hl_read`, register read/write, `RDSR1/2`, wake-up, sleep, encryption | several threads; DMA completion interrupt; reference counting; every call of nrfx may fail | one user of the peripheral; a completion consumed by its own transfer; on for every session, off after the last; failures reported; the semaphore always given back |
| System-mode library `L/system` | `fmac_priv`, `rpu_ctx`, the one interface `vifs[0]` with the fields of the scan | `init`, `deinit`, `set_reg`, `get_reg`, `scan_start`; handlers of scan and regulatory events | failure at each of ten bring-up steps; scan state written by the application's thread and read by the work queue; results in several events | nothing left behind by a failed call; no request without a device; the right results, to the right callback, then one NULL |
| Radio-test library `L/radio_test` | `fmac_priv`, `rpu_ctx` | `init`, `deinit`, `set_reg`, `get_reg`, statistics | the same bring-up; one error path without clean-up | the same |
| SPI bus driver `Z/bus/spi_if.c` | the configuration | the same vtable over SPI | the lock covers block transfers, not register access; polling while the chip wakes, on a write that may be lost | after a successful wake-up the chip is awake; the poll ends |
| Bus selection `Z/bus/device.c` | the vtable and the configuration | `qspi_dev`, `qspi_defconfig`, `qspi_get_config` | the configuration, with its lock and the host latency, is cleared on each `qspi_defconfig` | the latency fits the block that is read |
| RPU platform `Z/platform/rpu_hw_if.c` | the GPIOs of supplies and interrupt, sleep state | `rpu_init`, `_enable`, `_disable`, read, write, sleep, wake-up, `rpu_irq_config/remove` | power-up in steps that may fail; chip asleep when it is addressed | supplies off after a failed bring-up; the host latency of the block that is read |
| OS shim `Z/os/shim.c`, `timer.c` | `intr_priv`, lists, locks, timers | device add/remove, interrupt registration, timers | interrupt and work after unregistration; lengths rounded to words | no callback on freed context; no event lost; no copy past its buffer |
| Work queues `Z/os/work.c` | static work items with `in_use`, two queues | alloc, init, schedule, kill, free | scheduling of an item that is queued or runs; cancellation that does not wait; the pool runs out | an item runs for its owner and is given back |
| Radio-test shell `R/nrf_wifi_radio_test_shell.c` | `conf_params`, `rf_test_run`, `rf_test` | about forty commands | one flag for several tests; long sequences of legal commands | what the flag says is what the chip runs |
| OTP and FICR `R/nrf_wifi_ficr_prog.c`, `nrf_wifi_radio_ficr_shell.c` | mode and supply voltage of the OTP, protection words | write, read, status | one of several steps fails; writes cannot be undone; a write leaves its mode and voltage behind | each access in its mode and voltage; a flag after its field; a locked region stays |
| Scan parsing `S/utils.c` | none kept; the array of the caller | bands, channel ranges, lists | bounds at the array's end; a range rule per band | what a list denotes is what is stored |

Not modelled: FMAC, HAL, firmware, kernel and nrfx (only as the environment),
TX-power tables, statistics output, documentation (section 7).

`PROJECT.json` lists the same components with their status, and the hazards of
each with the line where they bite.

## 2. What is modelled

### QspiBus (`Z/bus/qspi_if.c`)

One process per thread; `pc[t]` is the place in the operation `op[t]`. Every
operation is a path through the same steps of the driver, so the steps are
actions with the operation's name in their guards:

* `Start`, `TakeCfgLock`: the entry of an operation, `qspi_cfg->lock` of the
  block operations; `NoMemory` and `Refuse` are the early returns before a
  session: no buffer in `qspi_hl_readw`, and arguments that `qspi_nor_read` and
  `qspi_nor_write` do not take;
* `OpInit` / `EncInit`: `qspi_device_init` (the count, the flag
  `qspi_initialized` and `nrfx_qspi_init`, which may fail);
* `TransLock`, `Lock`, `StartTransfer`, `TransferDone` (the interrupt),
  `WaitForCompletion`, `Unlock`, `TransUnlock`: a block transfer;
* `SendBegin`, `SendEnd`: a command, with the driver's semaphore;
* `OpUninit` / `EncUninit`, `UninitLast`: `qspi_device_uninit`; the last session
  polls the peripheral while it holds the semaphore;
* `DmaEncrypt`, `EncryptEnd`: `qspi_enable_encryption`, which contains a session
  in a session;
* `Return...`: the end of each kind of operation, with the retries of the RDSR
  polls;
* `QspiInit`: `qspi_init`, which resets the configuration.

A transfer's contents are left out; what remains of a block operation is how
many transfers it makes (`Steps`) and the statuses. The clock frequency is left
out too (see the end of section 4). `LowPower` is
`CONFIG_NRF70_QSPI_LOW_POWER`. No Kconfig file of the repository defines that
symbol, so both values are checked: with it off the driver is never switched
off, with it on the reference counting is in force.

History variables: `failed` (a step of the operation failed) and `leaked` (an
operation returned without its `qspi_device_uninit`).

External behaviour assumed: a failed `nrfx_qspi_init` leaves the driver off and
one of a driver that is on fails; a command fails while the driver is off, so
that `qspi_init`, which ignores the status of `nrfx_qspi_init`, fails after all; `nrfx_qspi_uninit` of a driver that is off
does nothing; `mem_busy_check` in the last `qspi_device_uninit` succeeds
sometime; a transfer the peripheral accepted ends with an interrupt.
`qspi_init` is called while no operation runs: it is called from device
addition only, before the chip has been powered.

### BmLib (`L/system`, `L/radio_test`)

`pc` is the place of the application's thread in a call, `mode` whether the call
is of the system or of the radio-test library (whose code is the same up to the
interface and one error path). One action per step that can fail: `FmacInit`,
`DevAdd`, `Boot` (firmware load to `dev_init`; nothing in the library changes
between them), `AddVif`, `SetMac`, `ChgVif`, `ErrDelVif`, `GetReg`, `SetReg`,
`GetRegAgain`. `DeinitCall`, `DelVif`, `DevRem`, `FmacFree` are shutdown, and
the clean-up of a failed init goes through the last two, as in the code.
`ScanCall`, `ScanParams`, `ScanCommand` are `nrf70_bm_sys_scan_start` in the
order of its assignments: callback, limit, result count, command.

The firmware is external: it accepts a scan or not, later reports it done, and
once asked for results sends them in one or more events. `EvTake`,
`EvScanDone`, `EvResult`, `EvEnd` are the handlers on the bottom-half work
queue, interleaved with the application's thread; the handler reads the limit
once and the callback anew for each result, as the code does.

History variables: `told` (what the last init returned), `kept` (see
`Settled`), `scans` (what each caller has seen) and `overlapped` (the
application started a scan or shut down before the previous scan had ended).
Assumed of the application: it initialises a mode when none is up, as all
samples do. After a first overlap no further scan is started, which only bounds
the runs.

### RadioTest (`R/nrf_wifi_radio_test_shell.c`)

One shell thread runs the commands, each to its end, so a command is one action;
a request to the chip inside it may fail. `set` holds the settings of
`conf_params`: one field per setting that a guard reads, `other` for the rest of
those that `check_test_in_prog` protects, and one each for those that a command
writes although a test runs (`Unguarded`): `he` (`he_ltf` and `he_gi`), `country`
(`reg_domain` stores the code at 1645 and checks at 1648, so that a refused
command has changed it), `switch` (the antenna switches, 1092 and 1612) and `xo`
(`set_xo_val` stores at 1383 and only measures under the check); `tx`, `rx`, `run`, `test` are the flags; `ceil` is the state of the TX
power ceilings in the RF parameters. The chip is external: `air` is the set of
tests it runs and `onAir` the settings the last one was started with. A failed
request leaves the chip as it was.

`Set...` and `RegDomain` are the settings with their checks, `TxStart` to `SetXo` the tests and
measurements, `RadioTestInit(c, done)` the command `init` that gets through
`done` of its five stages (stop RX, stop TX, stop the tone, defaults, program),
`DeviceInit` and `DeviceDeinit` the commands `nrf70_init` and `nrf70_deinit`.
A measurement starts and ends within its command, so all that it leaves is a
cleared flag, whether it ran or was refused.

`masked` is a history variable: `rf_test_run` was cleared while a tone went on.
Assumed of the operator: a command that addresses the device is typed while it
is up, `nrf70_init` while it is down.

### BusService and BusRefinement (what the bus promises)

`BusService` is the bus as its callers see it: threads that call, work in a
session, use the peripheral alone while it is on, and get an answer, which is not
"ok" after a failure. It has no semaphores, no count and no flag. `BusRefinement`
maps `QspiBus` onto it: a thread uses the peripheral while it holds `sem` between
the start of a transfer or command and its release; the wait of the last
`qspi_device_uninit`, which also holds `sem`, is not a use but the way to
`SwitchOff`. Two groups of operations promise less, and the instance names them:
the RDSR polls do not rely on a session (`Polling`), and they and
`qspi_hl_read` may answer "ok" after a failure (`Lossy`).

### RpuPower, WorkPool, Device (`Z/platform/rpu_hw_if.c`, `Z/os/shim.c`, `Z/os/work.c`)

`RpuPower` gives each function of the platform layer as the set of its outcomes:
the state of the three GPIOs, the call that failed, and whether all calls that
undo an earlier one succeeded. Every call of the GPIO driver may fail.
`OnSuccess`, `OnFailure` and `Always` are the three ways the C code goes on after
a call. `GpioConfig`, `GpioRemove`, `PwrOn`, `PwrOff`, `RpuInit`, `RpuEnable`,
`RpuDisable` are the functions.

`WorkPool` is the static array of items and the bottom-half queue with the thread
that runs it: `WorkAlloc` (with `work_init`), `WorkSchedule`, `WorkKill`,
`WorkFree`, `RunBegin`, `RunEnd`. All items are of the bottom-half type: the
IRQ, TX-done and RX types of `work_schedule` go to queues of their own, and no
caller of them is in the repository.

`Device` composes them: the application's thread goes up through `HalAdd`
(tasklet), `DevAdd` (`zep_shim_bus_qspi_dev_add`), `IntrReg`, and down through
`IrqRemove`, `IrqCanceled` (two halves of `intr_unreg`, split at the wait for the
work in progress), `TaskletKill`, `TaskletFree`, `DevRem`, `HalFree`. Meanwhile
`ChipEvent` raises the interrupt line, and the GPIO callback, when the line rises,
submits the interrupt work; `IrqWorkBegin`, `IrqWorkFetch`, `IrqWorkEnd` are the
thread of the interrupt queue, `Tasklet...` the one of the bottom-half queue. The
interrupt context `intr_priv` is named after its HAL context, so that a handler
that reaches a stale one is seen.

The HAL is not in the repository. Assumed of it: it calls the shim in that order,
undoes what it did, kills and frees its tasklet before it removes the device, and
its interrupt handler fetches the events and then schedules the tasklet, which
handles the list until it is empty. History variables: `removalFailed`
(`rpu_irq_remove` has failed), `raced` (the tasklet was killed or freed while it
ran, or scheduled after that), `residue` (why pins may have been left behind).

### OtpProg (`R/nrf_wifi_ficr_prog.c`, `R/nrf_wifi_radio_ficr_shell.c`)

`otp` is the one-time memory: mode, whether the ready bit was seen in it,
voltage, the values in the protection words, the words and flags programmed.
Again a function is the set of its outcomes; `AndThen` returns an error at once,
`Anyway` drops it. Each bus write may be lost without anyone learning of it, each
poll may time out, each read may leave its word uninitialised (any value). The
commands are `ReadCommand`, `ReadRetrim` and `Write(f, v)`. The loops over the
words of a field are up to four turns (`Turn`, `WriteWords`; no field has more
than `QSPI_KEY`); the four words of `REGION_PROTECT`, whose statuses nobody
reads, are one step with every subset of them kept or written (`WriteProtects`).

### ChipMemory (`rpu_hw_if.c`, `shim.c`, host-latency reads of the bus)

`latency` is the one field `qspi_slave_latency`, which the platform layer sets
from the memory map at each of its accesses and the HAL takes as it finds it.
`RpuRead`, `RpuWord`, `RpuWrite` are the platform layer, `HalRead`, `HalWord` the
shim, one word per step, so that the two interleave; `BusInit` is `qspi_defconfig`
and `qspi_init`. A read keeps its address and length; each word, or each plain
transfer of all words, is compared with what the blocks it touches need
(`Needed`, the map of `rpu_hw_if.c` taken for the truth about the chip). `Alloc`
and `Copied` are the roundings of the shim. `Fitting` says for which reads of the
HAL the shim's choice by the first address alone is right: not in `ExtSysBus`
(two dummy words), not in the memories above `PKTRAM` (one, read with none), and
not from below `PKTRAM` into it.

### ReadAlign (`read_non_aligned` of `Z/bus/qspi_if.c`)

The lengths of the prefix, middle and suffix of a read as functions of address,
destination and size. `ask` is the read; every ask is reached. `Short` is a read
that ends before the next word of the flash: `OffWord` says that it goes wrong.

### ScanParse (`S/utils.c`, the same file in `scan_rt_bm`)

One step per turn of the parser's loops: a band name, or a channel string with
the character after it. `band_chan` is the array, with what is written past its
end; `denoted` is the reference, what the list read so far means; `odd` says that
the list has one of the things the parser reads as something else.

### RpuWake (`rpu_hw_if.c`, `Z/bus/spi_if.c`, power save of `shim.c`)

`access` is the next register access of a wake-up or status call, `tries` the
reads made in its poll. The chip follows the wake-up bit in its own time
(`ChipFollows`), also after `Sleep`, so that the awake bit may be a remnant, and a
write that was reported as sent may not have arrived. The two buses differ in the
number of tries only. `promised` is a history variable: the last `rpu_wakeup`
returned 0 and nobody has put the chip to sleep or taken its supplies since.

## 3. What the runs check

| Run | Bounds | Result |
|---|---|---|
| `bus_lowpower` | 2 threads, all operations, all faults, `Tries` 2, `MaxCount` 3 | `ReadyWhenUsed`, `OffWhenIdle`, `InitCanSucceed` hold; `BusAsPromised`: the driver implements `BusService` |
| `bus_default` | the same without low power | `BusExclusive`, `CompletionIsOwn`, `HonestStatus`, `SemReleased` hold |
| `bus_UninitAtLastCall` | 1 thread, init may fail | violated: finding 1 |
| `bmlib` | 2 bring-ups, 2 scans of up to 2 networks in events of 1, limits none and 1, 2 callbacks | `LiveRequests`, `Settled`, `ExactResults`, `OwnCallback`, `FinalNull` hold |
| `bmlib_NoSecondScan` | 1 bring-up, 2 scans | violated: finding 2 |
| `bmlib_DefaultLimit` | 1 bring-up, 2 scans, also without parameters | violated: finding 3 |
| `radio` | one to three values of each setting, accepted and refused, the channels 1 (default) and 36, at most 2 settings off the defaults | `RunningIsKnown`, `OneTest`, `StableTransmission`, `InitRecovers` hold |
| `radio_OneTestAtATime` | the same, 1 setting off the defaults | violated: finding 4 |
| `radio_CeilingFromParams` | the same | violated: finding 5 |
| `device` | 2 HAL contexts, a pool of 1 item, 2 events, coexistence switch configured, every GPIO call failing | `ContextReachable`, `InterruptOnLiveDevice`, `TaskletOnLiveDevice`, `SuppliesOff`, `PinsReleased`, `NothingLeaks`, `InterruptServed`, `EventsHandled` hold |
| `sequential` | five parts that share no state, each alone: OTP fields `REGION_PROTECT`, `REGION_DEFAULTS` and `MAC0_ADDR`; addresses in blocks of every latency, before two of them, in a ROM and in a gap, lengths of 0 to 8 bytes; reads of 1 to 12 bytes at 8 addresses and 4 destinations; lists of 4 channel strings into an array of 3; 10 tries of RDSR1 and 2 of RDSR2 | `AccessInMode`, `FlagAfterField`, `LockedStays`; `PlatformReadsRight`, `HalReadsRight`, `CopyFits`; `WordTransfers`; `StoredAsDenoted`, `AcceptedFits`; `WokenStaysAwake` hold |
| `scan_InsideArray` | the same | violated: finding 6 |

Why the bounds are enough. In the bus, the interesting cases need one thread in
a session and another that ends one, or one waiting for a completion and one
about to start: two threads. `Tries` counts the attempts of an RDSR poll (10 in
the code): one retry and one exhaustion occur with 2. `MaxCount` stops new
operations after two or three leaks; by then the count no longer returns to 0,
and a further leak changes nothing that the properties read. The proofs of
section 5 cover any number of threads and any bounds. In the library, two
bring-ups reach the states in which the second mode follows a failed first one;
two scans reach every hand-over of callback, count and limit; two networks, one
per event, give a limit that is reached in the first event, and an event after
the limit. In the shell, no guard relates more than two settings (mode and one
other, tone and index), so two that differ from the defaults or from zero
(`MaxChanged`) reach what a guard tells apart; the sequences of tests are not
bounded. The modes entered are legacy (the default) and VHT: the guards that
single out another mode are not reached, and no property depends on the setting
they accept, since the theorems of section 5 hold for every set of entries.

In `device`, one item that every bring-up must get shows any leak at once and
makes the next device reuse the item of the last, also while its callback still
runs; two HAL contexts are enough to meet a stale one, and the bring-ups are not
bounded in number (a context whose interrupt context was never freed does not
come again). Two events give one that is fetched together with another, one that
arrives while the work is queued, while it runs and after it has fetched. The
coexistence switch adds failures and takes none away. The proofs cover any
number of contexts, items and events and both settings of the switch.

In `sequential`, the protection words, the flags and one field with a flag and
several words stand for all of `FieldWords`: the rest takes the same branches,
or that of `MAC0_ADDR` without the flag. The addresses lie in blocks of each
latency; from two of them a read goes over into `PKTRAM` and into `ExtSysBus`, so
that each exception of `HalReadsRight` is met. Twelve bytes are a prefix, a middle of one or two words and
a suffix at every alignment. Four strings give two ranges, a range that fills the
array and a channel after it; the numbers hit and miss the channels of each band,
0 and one above 255. Two tries show one retry and one exhaustion. That the parts
share no state is why one run checks them: TLC explores each from its own initial
states.

### Fairness

`bus_default` assumes weak fairness of each thread inside an operation and of
the transfer interrupt: the kernel schedules a runnable thread, and
semaphore waits have no time-out. No thread has to call. `SemReleased` needs no
more, because the semaphore's holder never waits for another thread but only for
its own interrupt. `bmlib` assumes weak fairness of a call in progress, of the
work queue, and of the firmware: an accepted scan is reported done and a request
for results is answered. The application is not obliged to call. `device`
assumes weak fairness of each step of the two queue threads (the kernel runs a
queue with work in it, and a handler returns) and of `Removal`, a shutdown in
progress. Neither the chip nor the application is obliged to act, and there is no
fairness of `RemoveCall`: events must be served on a device that stays up.

## 4. Findings

1. `Z/bus/qspi_if.c:510-513` says the peripheral is uninitialised at the last
   call (count = 0). `qspi_read_reg`, `qspi_write_reg` and
   `qspi_enable_encryption` return without `qspi_device_uninit` after an error;
   one failure of `nrfx_qspi_init` leaves the count at 1 for good.
   `OffWhenIdle` shows that there is no other way to lose a count.
2. `nrf70_bm_lib.h:250` promises -EBUSY when a scan is in progress; nothing sets
   `scan_in_progress`.
3. `nrf70_bm_lib.c:231` logs that default values are used when no parameters are
   given; `max_bss_cnt` is that of the previous scan.
4. `R/nrf_wifi_radio_test_shell.c:37` refuses a command while a test runs
   ("Disable RF Test"). The measurements clear `rf_test_run` on every way out,
   also after that very refusal (1184, 1303): under a TX tone one refused
   `rx_cap` makes a following `rx 1` pass, and the chip runs both. `OneTest`
   shows that this is the only way to two tests.
5. `R/nrf_wifi_radio_test_shell.c:1022-1023` says that at the system power the
   TX power is read from the RF parameters. A TX start at a lower power has
   overwritten their ceilings (1030), and only `set_defaults` or `init` restores
   them.
6. `S/utils.h:108` calls `max_channels` the maximum number of channels to store.
   `wifi_utils_parse_scan_chan` expands a range into the caller's array (366) and
   only then compares the count with it (375): a range with more channels than
   there is room for is stored past the end before the list is refused.
   `AcceptedFits` shows what the late check does secure.

Seen while modelling, without a run of its own: the models do what the code does,
and where a property has to except one of these, its comment names it. The first
contradicts a comment, but one look at the code shows it.

* Wake-up: `qspi_if.c:1179` says waking works reliably only at 8 MHz. The
  frequency is stored (1180) but applied only by `nrfx_qspi_init`, which without
  low power is not called on this path.

* Power: `dev_add` leaves the supplies on when the bus cannot be initialised
  (`Z/os/shim.c:663`); `rpu_init` skips `rpu_gpio_remove` when the coexistence
  switch fails (`rpu_hw_if.c:472`); `rpu_enable` leaves the GPIOs configured.
* Interrupt: a failed `rpu_irq_remove` keeps the context; a later registration
  that fails then clears `intr_priv` under a callback still listed. `work_kill`
  does not wait for a tasklet that runs.
* Power save: `ps_wake` drops the status of `rpu_wakeup` (`shim.c:721`). SPI also
  speaks of 8 MHz at `spi_if.c:236` and writes at the configured frequency.
* Memory: after a platform access to a block of latency 2 or 0 the HAL reads with
  that latency until the next platform access. `qspi_hl_readw` reads the latency
  before it takes the lock. The shim reads `ExtSysBus` with one dummy word instead
  of two, and the memories above `PKTRAM` with none. A read that ends before the
  next word of the flash is taken from between two words.
* Radio test: a `reg_domain` that is refused because a test runs has stored its
  country code; the antenna switches and the XO value change under a test.
* OTP: the writes to `REGION_PROTECT` drop their statuses; a failed write followed
  by a good clean-up returns 0; a successful one stays in the write mode at 2.5 V;
  a location that could not be read is not reported and its word is judged
  uninitialised.
* Scan list: a 5 GHz range of one channel writes up to the end of the table
  without moving on; 6 GHz ranges that do not begin at 1 hold channels that do not
  exist; numbers above 255 are cut to eight bits; a string of four digits is not
  terminated.

## 5. What is proved

`QspiBusProofs` proves for every finite set of threads, any operations, any
faults and both configurations (`BusAssumption`):

* `TypeCorrect`: the type invariant. Its three parts (`ThreadTypes`,
  `BusTypes`, `FlagTypes`) are inductive and each has its step lemma.
* `MutualExclusion` (`BusExclusive`). The invariant itself is not inductive:
  nothing in it says that `sem = 1` means no holder. `SemInv` adds that.
* `CompletionTheorem` (`CompletionIsOwn`), inductive with `SemInv`: the thread
  that starts a transfer is the only one that may wait.
* `SessionsArePowered` (`ReadyWhenUsed`), `NeverStuckOn` (`InitCanSucceed`) and
  `OffAtRest` (`OffWhenIdle`). The argument counts: `Sessions` is the number of
  threads in a session plus those in the inner session of the encryption, and
  `CountInv` says the semaphore `count` is at least that, and equal to it unless
  `leaked`. `PowerInv` ties `count`, the flag and the driver together, with the
  thread that is polling in `UninitLast` (`Busy`), while which the count is 0
  and the semaphore taken.
* `StatusTheorem` (`HonestStatus`) from `StatusInv`, which also says that no
  step has failed before the operation's first transfer or command.

`RadioTestProofs` proves for any settings and channels entered
(`RadioAssumption`) `TypeCorrect`, `FlagsKnow` (`RunningIsKnown`), `OneAtATime`
(`OneTest`), `SettingsAreThoseOnAir` (`StableTransmission`) and
`InitAlwaysRecovers` (`InitRecovers`). `OneTest` and `StableTransmission` are
not inductive: both are silent while a tone is unknown, and hold again when it
stops, with another test perhaps still on air. `AirInv` says what stays true
meanwhile: TX and RX never go on together, and keep their settings, also over an
unknown tone; a known tone goes on alone. `StableTransmission` speaks of the
settings that `check_test_in_prog` protects (`Guarded`) and of the power ceilings;
the others (`Unguarded`) do change under a running test.

`BusRefinementProofs` proves `DriverImplementsService` (`BusAsPromised`): the
initial state maps to one of the service, and each action of `QspiBus` to a step
of `BusService` or to a stutter. It rests on the invariants of `QspiBusProofs`
(a user holds `sem`, a session is powered, a failure is remembered) and on
`OpInv`, that a thread out of `idle` works on one of the operations.

`BmLibProofs` proves for any callbacks, scan parameters and bounds:

* `TypeCorrect`, `CallsSettle` (`Settled`) and `RequestsReachDevice`
  (`LiveRequests`). `DevInv` says who owns which device (`Owned`), that one mode
  at most has one (`OneMode`), and for each place of the thread what has been set
  up so far (`Steady`, `Rising`): that is what an error path must undo.
* `CallbackIsOwn` (`OwnCallback`) from `Pipe`: without an overlap, at most one
  scan is under way and the callback of the interface is its own (`Awaited`);
  what is on its way belongs to it (`InFlight`), first its end, then its results,
  the last batch last (`InOrder`); and no network went to another callback
  (`Own`).
* `ResultsAreExact` (`ExactResults`) from `Tally`, on top of `Pipe`. `ExactResults`
  says nothing of the networks that are still to come, so it is not inductive.
  `Tally` adds the books of the scan under way: what it has delivered, what the
  handler holds and what is in the queue and the firmware make up what was found,
  unless its limit is reached; the two fields of the interface (`max_bss_count`,
  `scan_res_cnt`) are those of that scan; and before its end is handled it has
  delivered nothing. The sum over the queue is a function on its positions
  (`Behind`), which each step gives anew, so that no induction is needed.

`DeviceProofs` proves for any HAL contexts, items and events and both settings
of `SrCoex`:

* `SuppliesGoOff` (`SuppliesOff`) and `PinsAreReleased` (`PinsReleased`). First a
  lemma per function of `RpuPower` on what all its outcomes have in common; then
  `PinInv`: without the device, what is wrong with the pins has its reason in
  `residue`.
* `ContextsStayReachable` (`ContextReachable`) and `InterruptsFindDevice`
  (`InterruptOnLiveDevice`) from `IrqInv`: as long as no removal has failed, the
  state of the registration alone says who may hold the context. Without it the
  properties are not inductive: nothing in them says that a context that is
  freed is not listed.
* `EverythingGivenBack` (`NothingLeaks`) from `PoolInv`: the only item in use is
  that of the device there is.
* `DeviceTypes` (`TypeOK`) from `TypeInv`. The bounds of the two event counters are
  not inductive one by one: a fetch moves all events of the chip to the list, so
  the invariant bounds their sum.
* `TaskletFindsDevice` (`TaskletOnLiveDevice`) from `TaskletInv`: unless `raced`, the
  queue and its thread hold nothing but the tasklet of the HAL context there is,
  and only between the registration of the interrupt and the kill. It needs
  `NewToIrq`: until a HAL context registers its interrupt, no interrupt in
  progress is for it, so a late interrupt of the last device cannot schedule the
  tasklet of the next.

`OtpProgProofs` proves for any set of the fields `OtpTypes`,
`AccessesAreInMode` (`AccessInMode`), `FlagsFollowFields` (`FlagAfterField`) and `LockedRegionStays` (`LockedStays`). Each function of the
module has one lemma on all its outcomes: where it leaves mode and voltage, what
it may have changed, and that its success without a lost write means it was done.
`AndThen` and `Anyway` chain these as the C code chains the calls; the lemmas
meet in `Command`, what any command may do to the chip, from which the two action
properties follow at once.

`ChipMemoryProofs` proves for any addresses and for any lengths that the `int` of
the bus can hold (the platform layer's being whole words) `PlatformLatency`
(`PlatformReadsRight`), `HalLatency` (`HalReadsRight`), `CopiesFit` (`CopyFits`)
and `MemoryTypes`; `MemInv` says that the latency is that of the last block
(`LatencySet`), that a read of the platform layer stays in that block
(`PlatPlaced`), and that what is left of a read is part of it (`Insides`). `HalLatency` is about every read, and names those
that go wrong: `Fitting` excludes the blocks that the shim's choice does not suit.

`SequentialProofs` holds the proofs of the rest:

* `EveryReadCut`: how a read is cut, for every address, destination and size, with
  `TransfersOfWords` (`WordTransfers`) as its instance. A read that ends before the
  next word of the flash is one transfer from between two words, which is wrong;
  every other one is made of whole words at word addresses.
* `WakeupIsReliable` (`WokenStaysAwake`) for any number of tries: the invariant is
  that once RDSR2 has confirmed the write it has arrived (`Confirmed`); without
  that the awake bit would prove nothing.
* `ListsAreStored` (`StoredAsDenoted`) and `AcceptedListsFit` (`AcceptedFits`) for
  lists of any length and an array of up to 110 entries, the range of
  `NRF70_SCAN_CHAN_MAX_MANUAL` in `nrf70_bm_lib/Kconfig`, from `ScanInv`. The
  first speaks of lists that were read to their end; in between, as long as
  nothing odd was read, array, index and start of a range are those of the
  reference (`InStep`), and the index has not passed the limit (`WithinLimit`).
  `OverrunRefused` adds that a list that has written past the array, which only a
  range does, is refused then: the limit is checked after the write of a range.
* `SequentialTypes` (`SeqTypeOK`): the types of all five parts, which share no
  state, so that each keeps its own.

All rest on the named assumptions on the constants, which TLC evaluates in the
runs, and on nothing else.

Only model-checked: the liveness properties `SemReleased`, `FinalNull`,
`InterruptServed`, `EventsHandled` (liveness under fairness is out of the
prover's reach), the absence of deadlock (which is about `ENABLED`), and the
findings, which are counterexamples. Every invariant and every action property
of the passing runs is stated by a theorem.

Three definitions have the form they have because of the prover: `WorkKill` takes
the item out of the queue at the position where it stands instead of filtering
the queue, `WriteWords` is four turns instead of a fold, and `Ascending` of `ScanParse` names the sorted sequence by what it is
instead of building it. Neither changes what is reached.

## 6. Plan

Done: the bus with its proofs, the abstract bus and the refinement; the library
in both modes, the radio-test shell, platform layer, shim and work queues composed
(`Device`), OTP programming, memory access, unaligned reads, the scan list and
the wake-up, with the proofs of all their safety properties.

Left, in this order:

1. Theorems: the steps the liveness properties rest on, as action properties
   (what can take a thread off its way to the release of `sem`, what can take the
   NULL of a scan out of the queue).
2. `Device` with a second tasklet (interrupt and bottom half both from the pool)
   once a caller of it is in the repository, and the timers of `Z/os/timer.c`
   likewise.
3. The regulatory event handlers of `L/system/nrf70_bm_core.c`, if the wait loops
   of FMAC become available.

## 7. Not modelled, and why

* The regulatory event handlers: they set two flags of the external FMAC, which
  also clears them and waits for them; the repository does not say in which
  order, so any property would be one of an invented FMAC.
* The nonce of the QSPI encryption: the rule by which the device advances it is
  not in the repository.
* Timers, network buffers, spinlocks and memory wrappers of the shim: thin calls
  of the kernel whose users are outside the repository. `rpu_get_sleep_stats`
  has no caller.
* A block transfer over SPI: one call of the kernel under a lock, no state.
* The bitmap of bands and the list of SSIDs: two tokenisers without state.
* The clock frequency of the QSPI: set by a wake-up, read by `nrfx_qspi_init` only.
* Work items of the IRQ, TX-done and RX types: the same code with another queue,
  without a caller in the repository.
* Formatting, printing, statistics; the contents of scan results; what the chip
  does with a regulatory request of the shell.
* The sample applications and the bus test: callers, taken as the environment of
  `BmLib`.
* External layers beyond what the code requires of them.
