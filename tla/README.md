# Specifications of DSDCourseWork

The repository is a system on an FPGA: a Nios II processor with an SDRAM and
three pieces of hardware of the project's own, which the C program
`software/software/hello_world.c` uses through custom instructions, memory
mapped registers and interrupts, on the HAL of a generated board support
package (`software/software_bsp/`). This directory holds TLA+ specifications of
that hardware, of the program and of the HAL, the TLC configurations that check
them, and TLAPS proofs.

Paths below are relative to the repository; those of the HAL are file names in
`software/software_bsp/`.

## Inventory

| Part | Code | State | Operations | Interacts with |
|---|---|---|---|---|
| Notch engine | `ip/notch.v`, `ip/mul_32.v` | stage of the run, bus registers, three FIFOs, calculation stage, counters, coefficients, `irq`, `forceReset` | custom instruction (start, status), status registers, coefficients, request / receive / calculate / write in every cycle, acknowledge, reset | SDRAM (Avalon master), CPU (custom instruction, Avalon slave, interrupt) |
| FIFO | `ip/fifo_32.v` (scfifo) | up to 32 words | read and write request, clear | notch engine |
| Determinant engine | `ip/fp_det_nios.v`, `ip/ram_det.vhd` | stage, loop indices, memory of 1024 words, row addresses, a counter, operands of the cores | the same kinds: start, load the matrix, factor, multiply the diagonal, acknowledge, reset | SDRAM, CPU, floating point cores clocked with the CPU's `clk_en` |
| Floating point instruction | `ip/fp_alu_improved.v`, `ip/fp_alu.vhd`, `ip/fp_alu_counter.vhd` | `done`, `result`, a 4-bit counter | start, wait, take the result | CPU, the cores |
| Program | `software/software/hello_world.c` | flags and results the interrupt routines set, the loop of `main()` | `hw_notch`, `fp_det*`, diagnostics, two interrupt routines, software determinant, times | both engines, the HAL |
| Interrupts | `alt_iic*.c`, `alt_irq*.c/.h`, `altera_nios2_qsys_irq.c` | table of handlers, `IENABLE`, `PIE`, `alt_irq_active` | register, enable, disable, sections with interrupts off, dispatch | program, every handler |
| Exceptions | `alt_exception_entry.S`, `alt_exception_muldiv.S`, `alt_irq_entry.S`, `alt_instruction_exception_*` | frames on the stack, the handler of the program | entry, emulation of `mul`/`div`, handler, return | interrupts, the program's instructions |
| JTAG UART | `altera_avalon_jtag_uart_*.c` | two rings, `irq_enable`, `host_inactive`; FIFOs of the core | `read`, `write`, `close`, `ioctl`, service routine, alarm; the polled driver instead of them | host, interrupts, alarms |
| Alarms, system clock | `alt_alarm_start.c`, `alt_tick.c`, `altera_avalon_timer_sc.c`; generated timer | list of alarms, tick counter, timer registers | start, stop, tick, callbacks | timer interrupt, everybody with a timeout |
| Time | `alt_gettod.c`, `alt_settod.c`, `alt_times.c`, `alt_busy_sleep.c`, `altera_avalon_timer_ts.c` | reset time, tick rate, the timer's snapshot | set and get the time of day, `times()`, delays, timestamps | tick counter, timer |
| Files | `alt_open.c`, `alt_close.c`, `alt_dup.c`, `alt_fcntl.c`, `alt_fd_lock.c`, `alt_dev.c`, `alt_io_redirect.c`, ... | lists of devices and file systems, 32 descriptors, `alt_max_fd` | the calls of POSIX | drivers |
| Heap and stack | `alt_sbrk.c`, the stack checks of the exception entry | `heap_end`, the limit register | `sbrk()`, stack growth, overflow | malloc, profiler |
| Caches | `alt_*cache*.c`, `alt_uncached_*.c`, `alt_remap_*.c`, `alt_load.c` | lines of two caches | flush, remap, load code | everything |
| Profiler | `alt_mcount.S`, `alt_gmon.c` | lists of functions and arcs, samples | `mcount()`, sampler | heap, alarms |
| Log, formatted output | `alt_log_printf.c`, `alt_printf.c` | levels, flags, the UART's FIFO | print, echo, heartbeat | UART, handlers |
| Startup and exit | `alt_main.c`, `alt_exit.c`, `alt_do_ctors.c`, `alt_sys_init.c`, `crt0.S`, ... | objects, streams, interrupt masks | from `alt_main()` to the loop of `_exit()` | all of the above |
| Not of the running system | `ip/fp_det.vhd`, `ip/Flash_Controller.v`, `hdl/`, `notch_files/*.m`, `wav2bin.cpp`; stubs of the HAL that set `errno` | | | |
| Vendor, generated | `ip/fp_add.vhd`, `fp_mult.vhd`, `fp_div.vhd`, `first_nios2_system/` | | | |

What is hard about it:

* *Concurrency inside a cycle.* Each engine is one `always` block in which
  several activities run side by side and see one another a cycle late.
* *Queues at their limit.* The notch engine stops requesting when a FIFO is
  almost full, with answers still on their way; the UART driver's rings and
  FIFOs, the pool of descriptors and the heap are full one step later than
  somebody has looked.
* *Two runs.* The reset after an acknowledged interrupt abandons everything; an
  answer of the SDRAM that came later would belong to the wrong run.
* *CPU and hardware.* A poll, a diagnostic load or an interrupt may come in
  any cycle of a run, and any load acknowledges the interrupt.
* *Latencies.* Cycles are counted to know when a core has finished, while the
  core's own clock is enabled by someone else.
* *Handlers between two instructions.* The HAL shares lists, rings, masks and
  counters between the program and interrupt handlers, some under a lock, some
  in an order that is meant to make a lock unnecessary.
* *Wrapping counters.* Ticks, times and delays are compared modulo the width of
  a word.

What makes each part correct: the notch engine neither loses, repeats nor
reorders a sample, keeps the rules of its buses, answers the CPU and finishes;
the program learns of the end and reads settled results; the determinant engine
loads exactly the matrix, factors it, returns its determinant and finishes; a
floating point instruction returns its own result; the UART driver is a line
that keeps characters and wakes up whoever waits; an alarm is called on its
tick; a descriptor has one user and is given back; interrupts and exceptions
leave the program as it was; blocks of the heap do not overlap. PROJECT.json
lists the hazards at their lines with the properties that watch them.

## Modules

| Module | Models | Remarks |
|---|---|---|
| `Fifo` | `fifo_32.v` | operators on sequences for one clock edge of an scfifo |
| `Notch` | `notch.v` and the two ports around it | one action per kind of clock cycle |
| `SampleStream`, `NotchStream` | what the engine promises; refinement mapping | abstract specification of a run |
| `NotchHost` | `main()`'s wait for the engine, `_notch_isr`, with the engine | every step is a clock cycle of the engine with what the CPU does in it |
| `DirectForm`, `Filter` | `test.cpp`'s loop; the engine's pipeline with its widths | `Filter` is compared with `DirectForm` |
| `Numbers` | floating point data | integers modulo a prime: exact sums, products and quotients, and `Undefined` |
| `FpDet` | `fp_det_nios.v`, `ram_det.vhd` | one action per kind of clock cycle |
| `DetService`, `FpDetService` | what the engine promises; refinement mapping | abstract specification of the instruction and the interrupt |
| `DetHost` | `fp_det`, `fp_det_interrupt`, `_fp_det_isr` | on top of `DetService`, not of the engine |
| `FpAlu` | `fp_alu_improved.v`, `fp_alu.vhd` | one action per kind of clock cycle of the CPU |
| `SoftDet` | `determinant()` and its helpers | one step per turn of a loop |
| `MainLoop`, `SystemTime` | `main()`'s loop over both engines; its measurements with `times()` | |
| `ByteChannel`, `JtagUart`, `JtagLine`, `JtagSmall` | a line; the interrupt-driven driver; its refinement of two lines; the polled driver | the committed BSP compiles the polled one |
| `Interrupts` | registration, masks, dispatch | one step per access to shared state |
| `Exceptions`, `MulDiv` | entry and return; the emulation of instructions | |
| `Startup` | `alt_main()` to `_exit()` | |
| `Alarms` | `alt_alarm_start.c`, `alt_tick.c` | the list with its links |
| `Timer`, `SystemClock`, `Timestamp` | the generated timer; its two drivers | `Timer` is a clock cycle, the drivers extend it; a handler may take timestamps between any two accesses of the program's |
| `TimeOfDay` | time of day; calibrated delays | they share nothing; `ticks` never wraps, `wall_nticks` is what the HAL has of it |
| `Clocks` | all that measures time: `TimeOfDay` and a timer with one of its drivers | whose timer it is says `timer_of`, as `ALTERA_AVALON_TIMER_INIT` does |
| `Files` | descriptors | |
| `Heap`, `Caches`, `Gmon` | `sbrk()` and stack checks; caches; profiler | |
| `Log`, `Printf` | the log; formatted output | |
| `MCProgram`, `MCKernel`, `MCDevices` | | instances for TLC, see Runs |
| `NotchProofs`, `NotchHostProofs`, `FpDetServiceProofs`, `ProgramProofs`, `JtagProofs`, `DeviceProofs`, `KernelProofs` | | theorems; `ProgramProofs` holds those of `FpAlu`, `DetHost`, `SystemTime` and `Exceptions`, `DeviceProofs` those of `Files`, `JtagSmall`, `Alarms`, `Clocks` and `Log`, `KernelProofs` those of `Heap`, `Interrupts`, `Startup`, `Caches` and `Gmon` |

**How a cycle is written.** The registers are the VARIABLES, under the names of
the code. A clock edge is one step: `Clock` conjoins the parts that act in
every cycle (the CPU port, the SDRAM, the FIFOs or the memory) with one
alternative of the `always` block; in stage 1 of `Notch` that alternative is
itself a conjunction of the bus port, the receiver and the calculation, each a
choice of the branches of its `if`. The inputs of the cycle (start, read,
waitrequest, readdatavalid, operands) are quantified in `Next`.

**How software is written.** A step of the program is what it does between two
accesses to state that a handler may change or see: one load and the branch on
it, or one store. Where the code has interrupts off, or where nothing else runs
(`Files`, `TimeOfDay`), a call is one step. A handler runs between any two steps
of the program, which stands still meanwhile. Calls nest where the code lets
them (`Heap`, `Exceptions`, `Gmon`, `Timestamp`).

**The environment.** `Port` lets the CPU use an engine as the Avalon and
custom instruction ports allow it: a multi-cycle instruction holds the CPU
until `done`; a load keeps the strobe up for two cycles (one read wait state)
and is answered in the third. `Sdram` holds up requests for as long as it likes
and answers reads in order, at least a cycle later, with `MaxPending` of them
outstanding. The UART's FIFOs and the host behind them, drivers behind the file
calls, devices that raise and withdraw interrupts, the caches and the C library
are modelled from how the code uses them. These definitions are marked
external.

**Data.** In `Notch` a sample is the story of its request (`nth`, the number
of the request by its address, and `from`, the address that was on the bus);
the arithmetic does not move samples and is in `Filter`. In `FpDet` and
`SoftDet` numbers live in a field, so that a product, difference or quotient of
the wrong operands, or taken too early, shows up in the result, and rounding
does not. Memory and operands left from an earlier run are `Undefined`, so that
a use of them shows, too. Characters of the UART are numbers that count modulo
`TxNumbers` and `RxNumbers`: a step that loses, repeats or exchanges any of them
shows unless it shifts the count by a multiple of that, and no step of the code
moves as many. In `Caches` a byte has a place where its newest value is instead
of a value; in `Heap` a block is an interval. Names are sequences of path
components, flags sets of bits.

**Left as they are.** `notch.v:449` has a `]` too many (`sdreaddata[7:0]];`), so
the file of this commit does not parse; the model reads the line as
`sdreaddata[7:0]`. The comment at `hello_world.c:375` says the first status
should be NOTCH_ACCEPTED where the code, and the model, say READY. In
`fp_det_nios.v` the header's code for ready is 0, the answer is -1.

## Runs

| Run | Configuration | Question | Result |
|---|---|---|---|
| `notch_flow` | NotchFlow | Is a sample ever lost, repeated, reordered, carried into another run; are the buses' rules kept; is every start answered; does a run come to its end? | holds, 272 138 states |
| `host_program` | NotchHost | Do `main()` and `_notch_isr`, interleaved at any cycle, use the engine correctly, and does `main()` learn of the end unless its own diagnostics disturb it? | holds, 7 652 states |
| `det` | FpDetService | Is the matrix loaded, factored, multiplied and announced, run after run; is the engine the service that the program relies on? | holds, 338 502 states |
| `jtag` | Jtag | Does the interrupt-driven driver lose a character or a wake-up, in any order? | holds, 238 354 states |
| `program` | MCProgram | Do the parts of `hello_world.c` calculate what they should, and end; do exceptions and emulated instructions leave the program as it was? | holds, 288 491 states |
| `kernel` | MCKernel | Do interrupts, startup, heap, caches and profiler keep what the program relies on? | holds, 283 505 states |
| `devices` | MCDevices | Do files, alarms, clocks, delays, timestamps, log and the polled UART keep their promises? | holds, 522 008 states |
| `notch_in_situ` | NotchInSitu | Is each word read from the address its result is written to? | **violated** |
| `host_done` | NotchHostDone | Does `main()` learn of the end when it prints diagnostics? | **violated** |
| `det_rows` | FpDetRows | Is the determinant right with more rows than `rowAddress` has entries? | **violated** |
| `system_time_reset` | SystemTimeReset | Is the code at the reset vector there whenever the processor is reset? | **violated** |
| `files_lock` | FilesLock | Is a lock granted only to the sole user of a device? | **violated** |

**The three large runs.** The parts of the program, of the HAL's kernel and of
its device layer that do not share state are checked side by side: `MCProgram`,
`MCKernel` and `MCDevices` extend the modules of some parts (`FpAlu`,
`DetHost`, `SystemTime` and `Exceptions`; `Heap`, `Interrupts`, `Startup`, `Caches` and
`Gmon`; `Files`, `JtagSmall`, `Alarms`, `Clocks` and `Log`), `MCProgram` and
`MCKernel` instantiate those of the others with their variables under a prefix, and
the variable `part` says which of them a behaviour is of; the others stay as they
begin. So a run has the sum of the
parts' states and not the product, and a temporal property of a part is asked of
its own behaviours. A part that appears twice (`Again`,
`OwnStack`) is the same module with other options: devices that withdraw
requests, an exception stack. The
options that `Exceptions` and `Startup` are built with are a variable that no step
changes, so that one instance has both a processor with the extra exception
registers and one without them whose handlers enable interrupts, and both the
interrupt-driven UART with two constructors and the polled one with none. In the same
way `handler_arcs` of `Gmon` says what the handlers call (a function of the program or
one of their own), and `timer_of` of `Clocks` whose timer it is.
A property of such a run names the properties of the components' modules, where
they are explained.

### Properties worth a word

* `FifosLossless`, `PipelineInOrder`, `QuietOutsideRuns` (`notch_flow`): the
  FIFO margin, the order of samples from the bus back to the bus, and that
  nothing is left over when the interrupt is up. `BusStable` is the Avalon rule
  that a held request does not change. `StartsAnswered`: `done` is up exactly
  while the CPU waits, also around `forceReset`, whose cycle ignores `start`.
  `ImplementsLiveStream` includes that every run ends.
* `RunHandedOver`, `HandshakeKept`, `DoneUnlessDisturbed` (`host_program`): the
  load that acknowledges also resets what it reads; the flag is set before the
  load; the status poll is the instruction that could also start a run. `main()`
  sees the end unless `irq` is up while `notch_diagnostic()` reads, which is just
  what `host_done` shows.
* `LoadedExactly` (`det`): three counters and an address comparison end
  together. `FactorsAndResult`: at the end of stage 2 the memory's lower and
  upper factors multiply to the matrix in SDRAM, and the result is compared with
  the expansion along rows; asked of matrices whose leading minors are nonzero.
  `PortsKeepPace`: no result is taken from a core that is not finished, although
  the core may lose `MaxStalls` cycles of `clk_en`, no bus request is pending
  outside loading, and `done` is up exactly when the CPU waits.
* `TxWakeup`, `RxWakeup` (`jtag`): characters in the transmit ring, and room in
  the receive ring, never meet a disabled interrupt that nobody is about to
  enable. `TxDelivered`, `RxDelivered`: each direction is a `ByteChannel`.
  `CallsReturn`: no call waits for ever while the host is there, nor once it has
  left and the timeout passed; a reader that waits sees what the host sends, and
  what `write()` has accepted arrives at a host that stays.
* `OwnDeterminants` (`program`): `fp_det()` returns the determinant of its own
  matrix, and a called function gets that of its own call. `AsCalculated`: the
  determinant in software and the emulated instructions against their references. The
  filter's pipeline has the outputs of the loop of `test.cpp` with its sums rounded
  down instead of towards 0: where `test.cpp` divides a negative sum with a
  remainder, the engine's output is one less for the same past
  (`Filter!MatchesRoundedDown`), and as outputs feed back the two may then go apart.
  It is not the repository's simulation bit for bit, see Disagreements. A directive of the
  printfs without a precision prints what C's does (`FieldRight`); a precision is read over
  and changes nothing (`PrecisionReadOver`), which is not what C does.
  `MeasuredTime`: what `main()` prints as the engine's time is the time from its call of
  `times()` to the end of the run, to a tick and two latencies. Between that call and the
  start lie the status poll, `gcvt` and four blocking `alt_putstr`
  (`hello_world.c:373-378`), in which the model lets any time pass; so the run itself
  did not take longer than what is printed, but it may have been shorter by all of it
  (`RunTime`). `CallsEnd` includes that `main()` leaves its loop, although its
  flags are not volatile, since it calls functions the compiler does not know,
  and that a program ends whatever faults in it. `ExceptionsUnseen`: instructions
  take effect once, in order, with faults, emulation and nested handlers in
  between.
* `MaskAndHandlers` (`kernel`): the handler that runs is the one that the order
  of the calls has left enabled, with its own context; mask and copy agree.
  `StartupRight`, `ServedAndEnded`:
  requests left by the program before do no harm, objects live from before
  `main()` until `exit()`, all that was printed reaches the host, handlers are
  served. `BlocksApart`, `StackRight`: blocks of the heap are disjoint, whoever
  interrupts `sbrk()`; the stack meets them only when this is reported.
  `ArcsKnown`: the profiler's lists stay searchable while a handler extends
  them. `CachesRight`: nothing newer is discarded, and code that is run is what
  was stored.
* `NothingLeaks`, `OneHolder`, `LockKept` (`devices`): the pool holds what the
  program holds, whatever fails. `AlarmsRight`, `CalledOnTime`: alarms across
  the wrap of the tick counter, with callbacks that start and stop alarms.
  `TimeRight` has a part for each clock. `WithinSecond`: until the count of ticks wraps,
  `gettimeofday()` is the time that was set plus what has elapsed, exactly when it
  was set before the product of ticks and microseconds exceeds a word, and less than a
  second off when later, as `alt_settod.c:84` multiplies in 32 bits and
  `alt_gettod.c` in 64. `DelayBounds`: a delay is never shorter than asked, and longer by
  at most a microsecond for each loop, but for the loops that begin with 0 and go
  through a whole word. `CurrentCount`: a timestamp is a count between call and return;
  when a handler's snapshot has come between the two halves, it is late by less
  than a lower half. `RollOverIsZero`: 0 after the period, as lines 54 and 55 of the
  driver say (lines 92 to 94 say -1). And the system clock counts every period.
  `LogRight`: log messages of handlers stand in one piece, and no more characters are
  lost than times that a handler's message came between the program's look at the
  FIFO and its store (`LossExplained`); that characters are lost at all is in the table
  under Disagreements. `PolledLine`, `AllReturn`: the polled UART is a line, and calls end;
  of `alt_tick()` this is said for callbacks that stop no alarm but their own.

### Bounds

* *Notch FIFOs*: depth 4, almost full at 2, instead of 32 and 30. What matters is
  the margin of two between them, and that a run is longer than the FIFOs, so
  that reading yields, is resumed and yields again: seven samples, three with
  the program. The proofs are for every depth with such a margin.
* *SDRAM*: two or three outstanding reads: enough for an answer to overtake
  the flag of the FIFO it goes to.
* *Address space*: just larger than the buffers. A buffer that ends at the top of
  the address space is excluded (`BuffersFit`): there the comparison with the end
  is made with 32 bits and the address has 24, and the run does not end. The
  same holds for a matrix at the top of the SDRAM (`fp_det_nios.v:261`), and the
  dimension 64, which `fp_det_nios.v:215` cuts to 0.
* *Matrices*: dimensions 2 and 3 with entries 1 and 2 in the field of five
  elements. Dimension 3 is the first with more than one step of the inner loop
  and a second elimination; the entries give regular and singular matrices, and
  dimensions alternate from run to run. `SoftDet` has dimensions 1 to 3 with
  entries 0 and 1.
* *Stalls*: at most one cycle without `clk_en` during one operation. The counters
  of the state machine leave exactly one cycle to spare; with two, a result is
  taken too early. The code says nothing of `clk_en`; this is the condition under
  which the engine works.
* *Floating point instruction*: all pairs of 0, 1, 2, 3, NaN and infinity;
  counter and latencies have their real size.
* *Filter*: samples of 2 bits, coefficients of 3, a shift of 1 instead of 8, 32
  and 30, with products and sums of the widths that follow: sums overflow,
  results are negative and rounded, a coefficient changes between two samples.
* *UART*: rings of 3 (so two characters fit) and FIFOs of 2 instead of 2048 and
  64, with calls of three characters: every call meets a full or an empty ring, and the
  interrupt routine meets both. Characters count modulo 4 and 3: on the transmit
  path a step (`write()`'s return value) accounts for up to three at once, on the
  receive path for no more than two.
* *Interrupts*: two lines, two handlers, two raises; *exceptions*: two lines,
  three raises, a program of five instructions with every kind of fault and
  handlers with one that is emulated; handlers nest as deep as they can, those
  that enable interrupts themselves do so up to depth 2 (`MaxDepth`);
  both are the first sizes in which a handler interrupts a handler and another
  request waits.
* *Alarms*: three of them, tick counter of 5 values: it wraps several times
  during a behaviour, in all orders of three alarms.
* *Words*: `TimeOfDay`, `Printf`, `MulDiv`, `Timer` have words of
  few values. In the code the product of ticks and microseconds wraps after
  4294968 ticks, the ticks after 2^32, the timer after 2^32 cycles, and a big loop is
  of 134217727 µs. In `devices` a word has 32 values, the product wraps at 11 ticks and the
  ticks at 32; 36 are watched (`MaxTicks`), with the time set and read at any of them.
  A big loop is of 3 µs (`LoopsPerUs` = 4), and the delays are all that a word holds,
  multiples of it among them, with the load of INT_MAX inside the loop and before
  it. The halves of the timer have 5 values each, and it runs through its whole period.
* *Alarms' callbacks*: delays short of the longest, callbacks that stop only their own
  alarm (`StopsOthers = FALSE`). The two cases left out are violations, see
  Disagreements.
* *Files*: five descriptors, of which three are the standard streams, as in this
  system all on the UART; a device without callbacks, one with four, a file
  system with all, and one whose name is missing.
* *Heap*: words of 2 units and a limit of 12, calls nested to depth 3, so that the
  heap meets both ends. *Profiler*: six calls, slabs of two records, one bucket
  of the hash table. *Caches*: both caches have two lines, lines have two bytes, memory
  has six; ranges of up to six bytes cover lines in part, whole, and wrap around the
  cache.

Deadlock is checked where the code never stops: in the runs of the two engines
and of `main()` with one (there is always another clock cycle). `jtag`,
`program`, `kernel`, `devices` and `files_lock` have CHECK_DEADLOCK FALSE: a
write waits for good for an absent host when no timeout is set, a calculation
ends, `_exit()` loops without doing anything, a device falls silent.

### Fairness

*Hardware.* The clock never stops: weak fairness of a cycle. The SDRAM serves
every request in the end: weak fairness of a cycle in which it accepts (`Grant`)
and of one in which it answers (`Answer`, `Deliver`). In `FpAlu` only the cycles
of an instruction under way are fair; the CPU need not issue any.

*The program* gets on (weak fairness of a step that advances it). An interrupt
that can be taken again and again is taken: strong fairness of `EnterIsr` in
`NotchHost` and of `Interrupt` in `Interrupts`, because between two
instructions, or between two sections with interrupts off, the CPU is free only
now and then. A section with interrupts off is left in the end (`LeaveSection`).
Handlers run to their end; the timer's alarm comes.

*Others.* A host that is there takes characters and polls, but it may leave at
any time and need not send. Nobody has to call anything: no call, open, alarm or
raise is ever fair.

Each module states its fairness, and the runs take it over part by part.

### Disagreements

Five runs show where the code does not do what the repository says of it:

* `notch_in_situ`: the report says the buffer is processed in situ. After
  reading has yielded, `notch.v:427` raises `sdread` with the address of the last
  access on the bus, so one word is read again, or a written one is read back.
* `host_done`: any load in stage 2 acknowledges (`notch.v:566`). If one of the
  diagnostic loads of `main()` is on the bus when the interrupt is raised, the
  interrupt is gone before the CPU can take it and `main()` waits for ever.
* `det_rows`: `rowAddress` has five entries for up to 32 rows.
* `system_time_reset`: `times(NULL)` stores to address 0, where the reset vector
  is, so that a reset does not start the program again.
* `files_lock`: the search in `alt_fd_lock()` leaves out the highest descriptor,
  so that a lock is granted to a device with two users. `OneHolder` holds all
  the same: there are never two who hold it.

Others were met, too. Their properties stand in the modules; with the constants
below TLC finds each of them violated. They have no run of their own because
they lie outside what this system does (options it does not use, arguments it
does not pass) or add nothing to a reader of the line:

| Property | With | Line | What happens |
|---|---|---|---|
| `FpDet!StatusAnswered` | as in `det` | `fp_det_nios.v:658` | a poll in `diagonalStage` 2 is answered with the bits of an intermediate product |
| `FpDet!RowsSwapped` | entries 0 and 1 | `fp_det_nios.v:371` | the row swap for a zero on the diagonal is a TODO |
| `FpAlu!OwnResultTaken` | as in `program` | `fp_alu_improved.v:89` | `done` keeps its value in the cycle of start: the old result is taken |
| `DetHost!DetCallsEnd` | dimension 1 | `hello_world.c:208` | the engine takes it for a status poll; the answer is not looked at |
| `Filter!MatchesSimulation` | as in `program` | `notch.v:531` | the engine rounds down, the division of `test.cpp` (line 98) towards zero |
| `SystemTime!RunTime` | as in `program` | `hello_world.c:374` | the clock is read before four messages are printed and the engine is started: what is printed as its time (0.376 seconds in `report.lyx`) includes them |
| `Printf!CPrecision` | as in `program` | `alt_log_printf.c:191` | a precision is read and never used |
| `JtagUart!CloseEnds` | `HoistLoads = TRUE` | `altera_avalon_jtag_uart_init.c:247` | `host_inactive` and `timeout` are not volatile: their loads may leave the loop |
| `JtagUart!EioMeansNotConnected` | `Counts` with 0 | `altera_avalon_jtag_uart_write.c:201` | a blocking write of nothing returns the error of a missing host |
| `Alarms!CalledOnTime` | the longest delay | `alt_alarm_start.c:89` | the time wraps onto the current tick: the alarm is called at once |
| `Alarms!StoppedStaysQuiet` | `StopsOthers = TRUE` | `alt_tick.c:102` | a callback stops the alarm that the walk has fetched already: it is called all the same |
| `Alarms!TickReturns` | `StopsOthers = TRUE` | `alt_tick.c:102` | the same: the entry that the walk stands on has been removed and points at itself, and `alt_tick()` does not return |
| `Interrupts!SearchFinds` | `Withdraws` not empty | `alt_irq_handler.c:141` | the first list of requests is not tested: with an empty one the search does not end |
| `Interrupts!InitAllows` | `InitAgain = TRUE` | `hello_world.c:335` | the second `alt_irq_init()` clears the mask and not its copy |
| `Files!CloseReleases` | standard error on a device of its own | `alt_release_fd.c:46` | a standard stream keeps its lock after `close()` |
| `Files!IoctlLikePosix` | as in `devices` | `alt_ioctl.c:167` | a failed call returns the negative error number, not -1 |
| `TimeOfDay!ElapsedSinceSet` | as in `devices` | `alt_settod.c:84` | the elapsed time is multiplied in 32 bits when the clock is set, in 64 when it is read |
| `TimeOfDay!NeverBack` | a rate that does not divide | `alt_gettod.c:93` | rounded microseconds lag behind the seconds, and time goes back |
| `TimeOfDay!Calibrated` | as in `devices`, multiples of the big loop | `alt_busy_sleep.c:107` | nothing is left for the last loop, which counts down from 0 |
| `TimeOfDay!Calibrated` | as in `devices`, `hoisted` | `alt_busy_sleep.c:94` | the assembler's operand is an input only: the second loop may start from 0 |
| `Caches!RegionOnly` | unaligned regions | `alt_dcache_flush_no_writeback.c:82` | the line after the region is discarded |
| `Caches!UncachedIsNewest` | `WholeLines = FALSE` | `alt_uncached_malloc.c:52` | a neighbour in the same line brings old bytes back |
| `Heap!StackApart` | odd sizes | `alt_sbrk.c:107` | the limit is set before the end is rounded up, and not followed any more |
| `Heap!OverflowIsReal` | `ExceptionStack = TRUE` | `alt_sbrk.c:124` | the limit of the other stack is compared, not its pointer |
| `Heap!NeverRefused` | as in `kernel` | `alt_sbrk.c:88` | the bounds check that a comment says is not there |
| `Gmon!CallsCounted` | arcs that a handler shares | `alt_mcount.S:120` | an increment is lost |
| `Gmon!StartedOnce` | as in `kernel` | `alt_gmon.c:167` | a handler starts the sampler while `mcount()` does |
| `Gmon!OwnMemory` | a text that is no multiple of the bins, or little memory | `alt_gmon.c:226`, `:229` | the last bin is behind the histogram; the error of `sbrk()` is taken for an address |
| `Gmon!CopiesAreNew` | as in `kernel` | `alt_gmon.c:204` | the first of two copies of an arc has counted more than one call |
| `Log!NothingLost` | as in `devices` | `alt_log_printf.c:101` | a handler fills the FIFO between the poll and the store |
| `Log!HeartbeatOnTime` | as in `devices` | `alt_log_printf.c:471` | the beat comes every interval and one tick |
| `Log!EchoWhole` | as in `devices` | `alt_log_printf.c:449` | the line end replaces the last character |
| `Exceptions!HigherOnly` | `"Enables" \in options` | `alt_legacy_irq.h:94` | the mask is written without the priority mask |
| `Exceptions!ZeroSkips` | as in `program` | `alt_exception_entry.S:227` | an answer of 0 repeats the instruction, against the comment |
| `MulDiv!MatchesInstruction` | `sp` as a source | `alt_exception_muldiv.S:154` | the stack pointer is the one after the exception's own frame |
| `Timestamp!RollOverIsMinusOne` | as in `devices` | `altera_avalon_timer_ts.c:92` | 0 after the end of the period, as lines 54 and 55 say, and not -1, as lines 92 to 94 do |
| `Timestamp!Untorn` | as in `devices` | `altera_avalon_timer_ts.c:125` | a handler's snapshot comes between the two halves |

Also met, and outside of the models: register 0 counts bytes (`notch.v:237`),
which `main()` (`hello_world.c:420`) and the report (`report.lyx:2591-2595`) call
samples; `usedw` has five bits for 32 words (`notch.v:107`), so that a full FIFO
reports none, on a register nobody decides by; the bins of the profiler have 16
bits (`alt_gmon.c:266`); a closed descriptor is not refused by every call
(`alt_close.c:84`); a polled write does not know of handlers that write
(`altera_avalon_jtag_uart_write.c:71`); an interrupt number of -1 shifts by a
negative number (`alt_iic_isr_register.c:82`).

## Theorems

| Theorem | Statement | Assumes |
|---|---|---|
| `NotchProofs!TypeCorrect` | `Spec => []TypeOK` | |
| `NotchProofs!EngineCorrect` | `Spec => []EngineInv` | `BuffersFit` |
| `NotchProofs!NothingLost` | `Spec => []FifosLossless` | `BuffersFit` |
| `NotchProofs!QuietAfterRuns` | `Spec => []QuietOutsideRuns` | `BuffersFit` |
| `NotchProofs!EveryStartAnswered` | `Spec => []StartsAnswered` | |
| `NotchProofs!BusRules` | `Spec => BusStable` | `BuffersFit` |
| `NotchProofs!OrderCorrect` | `Spec => []OrderInv` | `BuffersFit` |
| `NotchProofs!SamplesInOrder` | `Spec => []PipelineInOrder` | `BuffersFit` |
| `NotchProofs!StreamImplemented` | `Spec => ImplementsStream` | `BuffersFit` |
| `NotchHostProofs!BufferHandedOver` | `HostSpec => []RunHandedOver` | `BuffersFit` |
| `NotchHostProofs!HandshakeAlwaysKept` | `HostSpec => HandshakeKept` | `BuffersFit` |
| `FpDetServiceProofs!DetTypeCorrect` | `Spec => []DetTypeOK` | |
| `FpDetServiceProofs!EngineServes` | `Spec => ImplementsService` | |
| `FpDetServiceProofs!MatrixLoaded` | `Spec => []LoadedExactly` | `MatricesFit` |
| `FpDetServiceProofs!PortsInStep` | `Spec => []PortsKeepPace` | `MatricesFit`, `OneStall` |
| `ProgramProofs!AluCorrect` | `Spec => []ResultTaken` | |
| `ProgramProofs!AluTyped` | `Spec => []AluTypeOK` | |
| `ProgramProofs!DeterminantsOwned` | `DetHostSpec => []OwnDeterminants` | `ChainsApart` |
| `ProgramProofs!TimeMeasured` | `SystemTimeSpec => []MeasuredTime` | |
| `ProgramProofs!ExceptionsStayUnseen` | `ExcSpec => []ExceptionsUnseen` | |
| `JtagProofs!JtagTypes` | `JtagSpec => []JtagTypeOK` | |
| `JtagProofs!JtagCorrect` | `JtagSpec => []JtagInv` | |
| `JtagProofs!NoSleepingTransmitter` | `JtagSpec => []TxWakeup` | |
| `JtagProofs!NoSleepingReceiver` | `JtagSpec => []RxWakeup` | |
| `JtagProofs!WritesDelivered` | `JtagSpec => TxDelivered` | |
| `JtagProofs!ReadsDelivered` | `JtagSpec => RxDelivered` | |
| `DeviceProofs!PoolIsRight` | `FilesSpec => [](FilesTypeOK /\ NothingLeaks)` | |
| `DeviceProofs!OneHolderAlways` | `FilesSpec => []OneHolder` | |
| `DeviceProofs!LockLasts` | `FilesSpec => LockKept` | |
| `DeviceProofs!PolledDelivers` | `SmallSpec => PolledLine` | |
| `DeviceProofs!AlarmsAlwaysRight` | `AlarmsSpec => []AlarmsRight` | `OwnAlarmsInTime` |
| `DeviceProofs!AlarmsCalledOnTime` | `AlarmsSpec => CalledOnTime` | `OwnAlarmsInTime` |
| `DeviceProofs!TimeAlwaysRight` | `ClocksSpec => []TimeRight` | |
| `DeviceProofs!LogAlwaysRight` | `LogSpec => []LogRight` | |
| `KernelProofs!BlocksNeverOverlap` | `HeapSpec => []BlocksApart` | |
| `KernelProofs!StackAlwaysRight` | `HeapSpec => []StackRight` | `WholeWords` |
| `KernelProofs!MaskAndHandlersRight` | `IrqSpec => []MaskAndHandlers` | |
| `KernelProofs!StartupAlwaysRight` | `StartSpec => []StartupRight` | |
| `KernelProofs!CachesAlwaysRight` | `CachesSpec => CachesRight` | `WholeLines` |
| `KernelProofs!CachesFlushed` | `CachesSpec => []CachesTypeOK /\ RegionFlushed /\ CodeCurrent` | |
| `KernelProofs!ArcsAlwaysKnown` | `GmonSpec => []ArcsKnown` | |

All of them assume what the modules ASSUME of their constants, which TLC
evaluates in the runs. `PrimeAssumption` says of a prime what the proofs use:
division by a number other than zero. `ClocksAssumption` says, beside the ranges of the
constants, that the rate divides a second, as the 1000 ticks of `system.h` do
(`alt_gettod.c:93` above is what happens otherwise), and that the system clock has a period.
It says nothing of how long the system runs, of the delays, of where the compiler loads
INT_MAX, or of whether handlers take timestamps. The hypotheses in the last column are
weaker than the constants of the runs and stand for what the code or its user
guarantees:

* `BuffersFit`: a buffer ends before the end of the address space, as the engine
  has to compare 24 bits with 32 (see Bounds).
* `MatricesFit`: `rowAddress` has an entry for each row, the memory a word for each
  element, and the matrix ends before the SDRAM does. `det_rows` is what happens
  otherwise.
* `OneStall`: the cores lose at most one cycle of `clk_en` during an operation.
* `ChainsApart`: a function given to `fp_det_interrupt()` asks for another
  determinant only in a program that does not call `fp_det()` as well. `main()`
  has the two in different builds.
* `OwnAlarmsInTime`: a callback stops no alarm but its own, and no delay is the
  longest one: the lines `alt_tick.c:102` and `alt_alarm_start.c:89` above are
  what happens otherwise. With a callback that stops the alarm fetched for the next visit,
  `alt_tick()` need not return.
* `WholeWords`: `sbrk()` is asked for multiples of a word, as `malloc()` does.
* `WholeLines`: blocks that are discarded or used through uncached pointers begin
  and end at lines: `alt_dcache_flush_no_writeback.c:82` and
  `alt_uncached_malloc.c:52` above are what happens otherwise.

*The notch engine.* `FifosLossless` is not inductive: that a FIFO has room
follows from how many samples are elsewhere. `EngineInv` says where every
sample is: the calculation stage determines which of its registers holds one
(`CalculationHolds`), the write stage the same (`WriteHolds`), the request FIFO
counts what is between the bus and the calculation and never exceeds almost
full by more than two (`RequestsHold`), the addresses and counters differ by
just the numbers of samples between them (`CountersHold`), and the stage of the
run bounds the addresses (`StagesHold`). The proof goes cycle kind by cycle
kind, with lemmas for what one edge does to the sizes of the FIFOs.
`QuietOutsideRuns` follows from it in one state and `BusStable` in one step.
`StartsAnswered` is about the instruction port alone: its invariant `AnswerInv`
adds that the reset, which takes no notice of `start`, comes only during a load,
when the processor cannot issue an instruction.

`EngineInv` counts samples, `OrderInv` says which they are: each register and
FIFO holds samples that ascend by one (`Ascends`) from a first one that the
addresses, the counters and the sizes of the parts behind it determine. An edge
shifts the front of one part to the end of the next; because `EngineInv` gives
the sizes, the number it has there is the number it had. `PipelineInOrder`
is the concatenation of the parts, and follows in one state by the lemmas about
concatenated sequences that ascend. For `ImplementsStream` the mapping of
`NotchStream` counts what has been requested and what written; a cycle is a
`Request`, a `Write`, both, the start or the end of a run, or a stutter, by the
stage and by which of the two strobes is accepted.

*The program with the notch engine.* A step of `NotchHost` is a cycle of the
engine, so `EngineInv` and `StartsAnswered` hold of it. `HostInv` ties the two
sides together: where the program is in a custom instruction or a load, the port
is in the same (`CallsHold`, `LoadsHold`), and from the store of the flag on the
result is the whole buffer and the engine is at rest (`DoneHolds`).

*The instruction.* `ResultTaken` needs `OnTheWay`: until `done` the cycles the
core has worked and the counter add up to its latency. With it the counter
passes zero in the cycle in which the result is there. The simple cases need
arithmetic modulo `Prime` and that division has a result.

*The determinant engine.* Every cycle is a step of `DetService` or leaves it
alone. `ControlInv` is what the mapping needs: the interrupt is up exactly in
the last stage, a reset is due only in the first, an answer is one of the codes.
The proof goes through the kinds of cycles with the arithmetic left folded,
since the service says nothing about the value of a result. The types
(`TypeInv`) need the loop indices: an operand register is a number only after
its row has been read, and the left factor only from the diagonal on
(`LeftOfDiagonal`).
*Loading*: `BusInv` says that the words requested and the words answered differ
by those the SDRAM owes, and that none is owed outside stage 1; `LoadInv` that
the memory holds just the words that have come, apart from the one at its
write port, and that `rowAddress` has the multiples of the dimension up to the
row under way. At the step into stage 2 both count to the square of the dimension.
*Pace*: `CoreInv` says of every state of the two calculating stages how many
cycles the core has worked at least, given that the counter of the state machine
has gone on without it `MaxStalls` times; `AnswerInv` is that of the notch
engine.

*The program with the determinant engine.* `OwnDeterminants` needs `HostInv` of
`ProgramProofs`: which program can be where (`StepsInv`), that the engine listens
when it is asked, and that the service routine, not the program, is the one to
ask between interrupt and return (`ReadyInv`), that the flag `fp_det()` waits
for is up only when the result is that of its call (`FlagInv`), and that the
registered function is the one of the call under way, and has not been called
(`CallbackInv`). Each step of either context moves only its own program counter, but
the service routine moves the engine beneath the program, hence the
conditions on pairs of places.

*The measurements.* `TimeInv`: the clock has counted all periods that are over
but, perhaps, the last, whose interrupt does not wait longer than a latency
(`ClockCounts`; the quotient that a division would give is the witness). So a
reading is late by less than a period and a latency, never early (`ReadNow`). `Read1` is
that of the first one, for the time at which `main()` asked for it: it stays true however
long the messages take that follow, and the run begins after it. `Read2` is that of the one
in the service routine, at most a latency after the engine's end (`RunKnown`), though
a tick may be waiting that is only counted when the routine has returned.

*The exceptions.* `ExceptionsUnseen` speaks of the place the processor is at;
what it needs is on the stack. `ExcInv` of `ProgramProofs` says of each frame
whose it is and whether interrupts were allowed when it was made (`FramesInv`):
only the lowest is the program's, and in all but the highest they were. It
says where the lowest one goes back to (`PositionInv`): to the instruction after the
last in the ledger, or to the one behind that while an instruction is being
skipped. This is why an interrupt between a fault and its test does no harm: the
frame still goes back to the instruction, which faults once more. When the test
finds none, the registers still tell of the instruction below `ea` (`ModeInv`,
`FaultKnown`), as nothing has run since. If handlers do not enable interrupts
themselves, the mask is that of the frame the processor is in, and each
frame that opened it keeps the mask of the one below it (`MaskInv`); so whoever
interrupts has a higher priority than all below (`OrderInv`). `Pushed`, `Popped` and
`Backed` are the three ways the stack changes: a frame more, a frame less, another
return address in the highest.

*The UART driver.* `JtagInv` is the types, both wake-ups, which need the types of
the indices, and `CopyReady`: what `read()` saw of the ring before it copies is
still there, as only the thread moves `rx_out`. Each `Wakeup` is a disjunction of
the places at which someone is about to enable the interrupt; the thread, the
service routine, the alarm and the host have a lemma each.

That each direction is a `ByteChannel` is a refinement: the line is the ring and
the FIFO, one behind the other. `SeenInv` says that what was looked at is still
true when it is used, as the other side only ever makes it better: the room
`write()` copies into (`RoomStays`), the characters `read()` copies
(`CharactersStay`), the space the service routine fills (`SpaceStays`). The rest is
arithmetic of rings: characters stored behind the inner index are appended to
what lies between the indices as long as one slot stays free (`Pushed`), and
moving the outer one drops the oldest (`Popped`). So `WriteCopy` is a `Put` of n
characters, `ReadCopy` a `Take`, the host's steps are those of one character, and
the service routine, which moves a character from FIFO to ring or back, stutters.

*The files.* `FilesInv` adds to the types and to `NothingLeaks` that `alt_max_fd`
is above every descriptor in use (`PoolOK`) and that descriptors which share a
locked device come after the one that has the lock (`LocksOK`): only the
highest one can have been overlooked by the search in `alt_fd_lock()`. So no
second lock is granted for the device, which is `OneHolder`. `LockKept` is a
step: `open()` refuses a locked device, a redirection happens before there are
locks, and all other calls leave device and mark of a descriptor alone
(`LocksStay`).

*The polled UART.* `SmallInv` counts: the characters in a FIFO are those between
the one the sender comes to next and the one the receiver expects, modulo their
number (`CharsWrap`), and a call has no more left than its buffer. So each store to
the data register is a `Put` of one character, each load that finds one a `Take`,
and what is done with the caller's buffer stutters.

*The alarms.* `AlarmsInv` has an order of the registered alarms of which the
links are the successors and predecessors (`Linked`), and a place in that order
at which `alt_tick()` is (`Walk`). An insertion goes in at the head and moves
the place up by one, the removal of the own alarm moves it down
(`InsertLinks`, `RemoveLinks`), so the pointer fetched before a callback is still
that of the next alarm after it; a removed alarm points at itself, so that stopping
it again does nothing (`StopUnlinked`). Before the place alarms are `InTime`, from
there on they are still `ToVisit`: their flag is also up when the counter has
just wrapped and the visit has not taken it down yet. The arithmetic is that
of one addition modulo the counter (`Remainder`): a tick makes `InTime` `ToVisit`
(`TickNearer`), a visit finds out which alarms are due (`DueIsKnown`) and makes the
others `InTime` again, as does the time a callback returns (`SetInTime`).

*The clocks.* `settimeofday()` stores the time that was set less the seconds and
microseconds of the ticks until then, each for itself (`WallInv`). As the microseconds
of a tick are whole and those of a second of ticks are a second (`TickInSecond`),
the sum of the two parts loses nothing when ticks are divided into them; what was noted
of the microseconds is less than a second whether the product has wrapped or not, and
exact when it has not (`NotedIs`); the borrow or the carry that normalises leaves
the sum alone (`NowIs`). Of a delay
`BusyInv` says what the register was loaded with for the next big loop (`Loaded`), which
is 0 for all but the first when the load was hoisted, how many turns those that are
done took (`Turned`, `OneMore`), and that the
microseconds left are those of the loops to come and of the remainder (`Leftover`);
INT_MAX turns are those of a big loop's microseconds and at most one more
(`BusyConstants`), a whole word is more than that (`LongEnough`, `WordsMore`).
`CountDown` says how far the timer has come since the timestamp
was started, and `Snapshot`, of the program and of the handler, that the snapshot is the count of
a time since the call (`Latched`), and the lower half that was read of it the same or,
when a handler has come, an earlier one (`LatchedTwice`); what the two halves make is then
`HalvesOfTwo`. For the system clock `RunsRound`
has the timer going round, and `Waited` that an interrupt that is up has waited
for as long as the counter is away from its end: so it is down when the next
period ends, or has waited for all of one.

*The log.* A handler that has seen room in the FIFO finds it when it writes, since
nobody interrupts it (`OneHandler`); the program may not. So the log and what the
handler has yet to print together (`Expected`) do not change while it prints,
they grow by whole messages when it begins (`WholeTogether`), and a character of the
program gets in between, or is lost, only when no handler prints (`WriteCharStep`).
`LossInv` is what `LossExplained` needs: a program that has seen room for its character still
has it, or a handler's message has come since and is counted, while the characters
lost so far are fewer than those counts; as only the program's store forgets that a handler
has come, each loss has one of its own.

*The heap and the stack.* `HeapInv`: a call of `sbrk()` has disabled interrupts,
so that it is the only one (`Alone`), and its copy of `heap_end` is `heap_end`;
all blocks lie below the end (`Below`); rounding never moves it down. For the
stack `HeapEnds` keeps the heap and its blocks on the borders of words, so that
the limit is not below the end of the heap between the two stores to
them, and `StackInv` says that the limit in force, or the one an exception with a
stack of its own has put away, is that mark, and the stack above it until a
report. During such an exception the code compares the other stack's limit with
this one's pointer; `StackRight` says nothing of reports there.

*The interrupts.* `MaskAndHandlers` needs `IrqInv`: who has interrupts off where
(`QuietInv`), that the copy of the mask is the set of registered interrupts and
the register follows it by one store (`MaskInv`), that a registered interrupt has
a handler except while `alt_irq_register()` takes it away, and contexts and
handlers go together (`HandlerInv`), and that the dispatcher only serves what is
registered (`ServeInv`). The second `alt_irq_init()` is the exception: after it
nothing is said of the register, as it is cleared behind its copy.

*Startup and exit.* `StartInv` says that what is enabled has a handler from the
step on at which the mask is cleared, and that the processor takes no interrupts
before it (`HandledInv`); that while the constructors run, the number to come next
tells which have run (`ConstructedInv`); and what `exit()` still has to call
(`DestructedInv`): the destructors are last, behind a function of the program, and
are taken off before they run. `InFront` is the one about sequences.

*The caches.* `CachesInv` says how far a loop has come (`PassedInv`). One that
flushes by address has taken the lines of the region before its variable out of
the cache. One that flushes by index has been at as many lines of the cache, and
what is there now is not of the region, whatever a handler has brought in. After
as many lines as the cache has, that is all of it (`AllIndices`, a fact about
remainders), which is why the code may stop there; of a region that begins within a
line, the last line is the one that the instruction after the loop is for
(`AllPassed`). `WorkInv` has the loops still to do, so that `alt_load()` goes
through the data cache before the instruction cache, and `UncachedInv` says that what
is used through uncached pointers are whole lines and none of them is in the cache.

*The profiler.* `mcount()` searches the lists without a lock and changes them
under one. `NestInv` has whose call it is on each level: only the lowest is the
program's, calls of handlers are under way with interrupts off, and so is a change
of the lists; the sampler is started by one call at a time, which calls `mcount()`
again (`SamplerInv`). Because the lists only grow, and only at their ends, what a call has
found stays where it is while handlers extend the list (`CellInv`, `FoundIn`),
and a function without arcs is one whose first arc is just being added, with
interrupts off. A count that was loaded is never more than the one in the list, and the
same if the handlers have arcs of their own (`LoadedInv`). So the counts of an
arc, over all its copies, are as many as its calls that have returned or are about to
(`CountInv`), or fewer when a handler's increment is overwritten, but then not zero. The
numbers are cardinalities of sets of pairs, to which a step adds one (`CountsOneMore`)
or none (`CountsSame`).

### Only model-checked

* Liveness, under the fairness above, and ENABLED are out of the prover's reach:
  `LiveStream`, `DoneUnlessDisturbed`, the ends of calls, arrival of characters.
* Induction over data: that the product of the factors is the matrix, and the
  result its determinant (`FactorsAndResult`); the determinant in software, the
  filter, the emulated instructions and the printfs against their references
  (`AsCalculated`). Each is a sum, a product or a text of as many terms as the
  dimension, the latency or the width of a number has, defined by recursion.
* All other safety properties of the runs are theorems.

## Not modelled

* `writeToResult` of the notch engine, a bit that selects whether results or the
  samples themselves are stored; the rounding of floating point numbers. Filling
  and printing of buffers in `main()`, and setting of the coefficients there, are
  loops of loads and stores.
* The trap handler, a break for a debugger; `malloc()` and the rest of the C
  library, which is not in the repository; the content of the profiler's bins.
* Stubs of the HAL that set `errno` to ENOSYS, empty locks, DMA and flash
  wrappers without a driver in this system, the legacy `alt_irq_register()`,
  which this build does not compile, the comparison of two system identifiers:
  they change no state.
* The caches' functions work on caches this processor has only in part: it has
  no data cache. `Caches` models them for one, since a change of the processor in
  the system generator makes them matter. Likewise stack checks are off, the log
  and the instruction exceptions' interface are not enabled, no timer is named
  for timestamps, and the polled UART driver is the one compiled; the code for
  all of them is in the package, and modelled with its options as constants.
* Vendor and generated code: only as the environment. `fp_det.vhd`, the flash
  controllers and the tools on the PC: not part of the running system, or
  sequential input and output.

## What is left

* Composition of the interrupt dispatcher with the UART driver, and of alarms
  with the timer, which are now checked apart.
