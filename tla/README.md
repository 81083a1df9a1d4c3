# A verification of the spike simulator

The program is `riscv-isa-sim`, the RISC-V ISA simulator spike, extended with
a model of an NPU (`smart/`). Modelled here are its debug path from socket to
hart, its interrupts and traps, memory protection and translation, the
host-target interface, the start and barrier of NPU cores and the main loop.
One thread runs everything: harts, devices, the
debug module and its socket take turns, in slices. Concurrency comes from the
places where a turn ends: a debugger's access falls between any two
instructions of a hart, a device's tick between any two accesses of its
driver, a client's bytes between any two system calls of the server.

Source paths below are relative to `src/riscv-isa-sim/`.

## Inventory

State, operations and hard behaviours of each part; "→" names the parts it
acts on.

**Debug module** (`riscv/debug_module.cc`, `debug_rom/debug_rom.S`).
State: `dmcontrol` and the selection of harts, per hart `halted`, `resumeack`,
`havereset`, `haltgroup` and the flags GO and RESUME, the abstract command
with `busy`, `cmderr`, `abstract_command_completed` and the delay
`rti_remaining`. Operations: `dmi_read`, `dmi_write`, `run_test_idle` from the
debugger, `load` and `store` from the harts, which execute the debug ROM →
harts (`halt_request`), system bus.
Hard: the module learns what a hart does only from four store addresses, and
the debugger acts between any two of them; commands end in a poll of the hart
and again in a poll of the debugger; reset, activation and unavailability come
at any moment.
Correct if: its picture of a hart is true; a request is neither lost nor
answered early; one command runs at a time, once, on the hart it was given to;
`busy` falls last; halt groups spread.

**System bus access** (same file). State: `sbcs`, `sbaddress`, `sbdata`,
`sb_read_wait`, `sb_write_wait`. Operations: the SB registers, `run_test_idle`
→ memory. Hard: the operands of an access that is under way live in the
registers the debugger can touch; errors stop new accesses, whichever of three
triggers starts them; addresses of several words.
Correct if: the access carried out is the one requested; none is under way with
another or under an error; each one ends.

**JTAG debug transport** (`riscv/jtag_dtm.cc`). State: TAP state, `ir`, `dr`,
`dmi`, `rti_remaining`, `busy_stuck`. Operations: `set_pins`, `reset` → debug
module. Hard: an access takes effect at Update-DR, its status was reported at
the Capture-DR before; a retry after "busy" must repeat neither too early nor
twice; a call of `set_pins` is not an edge.
Correct if: what was reported busy was not performed, and the rest was, once.

**Remote bitbang server** (`riscv/remote_bitbang.cc`). State: socket, receive
buffer with `recv_start`/`recv_end`, `send_buf`. Operations: `accept`, `tick`
→ TAP. Hard: a tick stops in the middle of a batch; partial writes; a client
that floods, quits or hangs up; ticks must end.
Correct if: commands are executed once and in order, each read is answered
once, a tick ends.

**PLIC** (`riscv/plic.cc`). State: priorities, levels, and per context
threshold, enables, pending, claimed and a copy of the priority. Operations:
register `load`/`store`, `set_interrupt_level` from devices → `mip` of harts.
Hard: one fact in several copies (level and pending, priority and pending
priority, context and `mip`), each updated by different operations.
Correct if: the hart's interrupt bit tells the state of the context, and
nothing stays in service that nobody serves.

**UART** (`riscv/ns16550.cc`). State: receive queue, LSR, IER, IIR, FCR, LCR,
MCR, `backoff_counter`. Operations: register `load`/`store`, `tick` → PLIC.
Hard: a byte arrives while the handler of the last one runs; a full queue;
loopback. Correct if: ready bit and interrupt follow the queue, and a byte
brings the handler.

**Main loop** (`riscv/sim.cc`). State: loop counters, `sm_sched_suspend` of
each hart. Operations: `idle`, `step` → everything. Correct if: every slice
ends and serves devices and debugger.

**CLINT** (`riscv/clint.cc`). State: `mtime`, `mtimecmp`, `msip` of each
hart. Operations: stores, `tick` → `mip`. Hard: three places tell one fact;
time wraps. Correct if: the timer bit is what time and deadline say, and an
inter-processor interrupt reaches its handler.

**Traps, interrupts and privilege** (`riscv/processor.cc`, `mret.h`, `sret.h`,
`wfi.h`). State: `prv`, `v`, status registers of M, HS and VS, `mip`,
`in_wfi`. Operations: `take_interrupt`, `take_trap`, `mret`, `sret`, `wfi` →
MMU (flush). Hard: two separate computations decide whether an interrupt is
taken and where it goes; the previous state is spread over three registers and
one level deep. Correct if: each trap arrives where it belongs, and its return
continues what it interrupted.

**PMP** (`riscv/csrs.cc`, `riscv/mmu.cc`) and **MMU and TLB**
(`riscv/mmu.{h,cc}`). State: `pmpaddr`, `pmpcfg`, `mseccfg`; tags, data,
decoded instructions, reservation. Operations: CSR writes; loads, stores and
fetches on a fast and a slow path; flushes. Hard: the answer of a walk is kept
and must be dropped by whatever would change it; one data entry stands behind
three tags; a protected range ends within a page; the lock of an entry covers
a register of its neighbour. Correct if: a hit is what a walk would find now,
triggers see the accesses they watch, locks hold.

**HTIF** (`fesvr/htif.cc`, `device.cc`). State: `tohost` and `fromhost`, a
queue of answers, open console reads, exit code. Operations: the loop of
`htif_t::run`, device commands; harts that make calls → main loop (`idle`).
Hard: answers of several devices overlap with new commands in one mailbox each
way. Correct if: every command is handled once and answered, characters keep
their order, and an exit ends the run.

**NPU dispatch and barrier** (`smart/sm_dispatch.cc`, `sm_barrier.cc`). State:
busy bits, exit codes, `sm_sched_suspend`; waiting cores and the count of
arrivals. Operations: stores to START and ECODE, loads of STATUS, the barrier
instruction → main loop. Hard: cores arrive in any order, and a core that waits
executes its instruction again. Correct if: a barrier releases those who wait
when the last has arrived.

**NPU scheduler and devices** (`sm_schedule.{h,cc}`, `sm_npu.cc`,
`sm_fence.cc`): queues of instructions, waits for room and for emptiness.

**Triggers** (`riscv/triggers.cc`): match addresses and instructions → MMU
(`check_triggers_*`).

The remaining parts are under "Not modelled".

## What is modelled

| Module | Models | State and actions |
|---|---|---|
| `DebugModule` | debug module, debug ROM, debugger | the fields of `debug_module_t` under their names; one action per debugger access; a hart is `pc[h]`, its place in `debug_rom.S`, and moves by one load or store of the ROM at a time |
| `AbstractCommand` | the promise about abstract commands | `phase`, `owner`, `runners` |
| `SystemBusAccess` | SBCS, SBADDRESS, SBDATA and the accesses | word registers of `WordBytes` bytes; `run_test_idle` counts down and completes |
| `SystemBus` | the promise: a request is carried out as it was made | `pending`, `address`, `data`, `failed`, `memory` |
| `JtagDtm` | TAP and DMI | one `set_pins` per call, split in `Rise` and `NotRise` as in the code; observers record what the driver saw |
| `RemoteBitbang` | server, client, socket | one step per system call of a tick; commands carry tags |
| `Plic` | every register of the PLIC | bit words are sets of ids |
| `Ns16550` | every register of the UART, `tick` | the queue by its length |
| `UartInterrupts` | UART, PLIC, a second device, a handler and other software | `Ns16550` and `Plic` composed: each access of the UART drives its line |
| `Pmp` | PMP registers and the check of an access | memory counted in sectors of four bytes; an access is a set of sectors |
| `Mmu` | TLB, decoded instructions, walk, flushes | `Pmp` extended by the three tag arrays, `tlb_data` and the leaf entry of each page; one action per access path and per operation that flushes |
| `HartTraps` | interrupts, traps and returns of a hart | the status registers by field; `frames` records the handlers that are open, for the properties |
| `Clint` | CLINT and the hart it interrupts | `HartTraps` extended by time and deadline |
| `Htif` | host loop, console, system call entry, harts of `syscalls.c` | mailbox words are records of device, command and payload |
| `Npu` | dispatcher, barrier, suspension, the program of `riscv_test/barrier` | a core is its place in the program |
| `SimLoop` | `idle` and `step` | the two loop counters and suspended harts |

Composition. `UartInterrupts` joins two components in one next-state relation:
the step of the UART fixes the line, the step of the PLIC takes it, and both
are proved to behave within it as their own specifications say. `Clint` joins
timer and hart in `mip`, `Mmu` joins translation and PMP, `Htif` joins host
loop and harts in the two mailboxes, `Npu` joins dispatcher, barrier and the
part of `step` that suspends cores. The debug module, its transport and its
server are joined by assumptions: `DebugModule` takes any sequence of DMI
accesses, which includes every sequence the transport makes; the transport
takes any sequence of pins, which includes every one the server makes. All
components are modelled as if `step` returned and stepped every hart; that it
does not is the finding of `sim_loop`.

What a debugger, a driver or a client sends comes from small sets given in the
configurations. These environments are narrower than "anything":

* *Disciplined debugger* (`DisciplinedSpec` of `DebugModule`): while a command
  is busy it does not change `hartsel`, reset harts or deactivate the module,
  as the debug specification asks. The one of `SystemBusAccess` leaves SBCS and
  DMCONTROL alone during an access (`riscv/debug_defines.h:2687`).
* *Clocked driver* (`ClockedSpec` of `JtagDtm`): begins with a reset and
  toggles TCK with every call. This is an assumption: it is how a client
  should drive the pins, and nothing under `src/` sees to it.
* *Disciplined software* (`DriverSpec` of `Plic`): enables an id in one
  context and changes its priority only while it is disabled.
* *Fencing software* (`Mmu`): a store to a page table comes with its
  `sfence.vma`. All other changes come at any moment.
* *Handlers* (`HartTraps`): one that allows traps to its own mode saves the
  status before and restores it before it returns; handlers do not wait.
* *Programs* (`Htif`): calls under the lock of
  `riscv_test/common/syscalls.c`; users of the console leave `tohost` alone
  until it is zero, as the host does not queue commands. `tohost_exit` takes
  no lock, as in the code.

## Runs

| Run | Shows |
|---|---|
| `dm_any_debugger` | for a debugger that does anything at any time, with authentication, activation, resets, halt groups, hart masks and unavailable harts: the module's picture of each hart and its acknowledges agree with what the hart does, a group halt reaches every available member, a halt request is not lost |
| `dm_commands` | for a disciplined debugger: one command at a time, started only without an error, never orphaned, `busy` falls last; the module implements `AbstractCommand` |
| `sba_requests` | accesses implement `SystemBus`, exclude each other, stop at an error and complete |
| `dtm_clocked` | five ones reset the TAP; a scan that reports no failed access is taken exactly if not reported busy, once, and no sooner than `required_rti_cycles` after the last |
| `bitbang_paced` | a client with bounded open reads: commands in order, answers match, a tick ends, commands run |
| `bitbang_partial` | **violation**: after a partial write the server sends bytes that answer nothing |
| `uart_interrupts` | interrupt bit, context and levels agree through any use of UART and PLIC, and a received byte brings the handler although another device interrupts as well |
| `mmu` | a TLB hit and a decoded instruction are what a walk and a PMP check would give now; no access and no decoded instruction escapes a trigger; locked PMP entries stay |
| `hart_traps` | the timer bit is current; interrupts arrive where they belong; returns resume what was interrupted; inter-processor interrupts are served and waits end |
| `htif` | no call, read or answer is lost or repeated, characters keep their order, calls return, exits end the run |
| `npu_barrier` | **violation**: the core that waits at the barrier of `riscv_test/barrier` never passes it |
| `sim_loop` | **violation**: the inner loop of `step` never ends |

Bounds, and why they are enough:

* Debug module: two harts (`NProcs = 2`): the interactions are between a
  selected hart and another, or a hart that halts and a member of its group;
  `hartsel` is also written one beyond the last hart. `AbstractRti = 1`
  separates a completed command from one that is reported. Two hart masks, one
  halt group beside "none". The two runs share out the features, since
  together they exceed what can be explored: groups, masks, availability and
  the reset of all harts with `Any`; commands that fail in each way, autoexec
  and the reset of one hart with `Commands`; authentication and activation
  with both.
* System bus: words of one byte and four addresses per word, so that carry,
  an access of two words, a misaligned one, one without memory behind it and an
  unsupported size all occur; `SbDelay = 2` leaves a moment in the middle of
  an access.
* DTM: `RequiredRti = 2` separates "none", "too few" and "enough" idle cycles.
* Bitbang: two commands per read, two bytes per socket direction: a
  batch stops with something left, writes are partial or refused. Tags count
  modulo one more than what can be under way, so no two coincide.
* UART and PLIC: one context, two ids, priorities 0 and 1 and one value too
  large; a queue of two (empty, one byte, full), back-off of 2. Several
  contexts, ids in different ones and more priorities are covered by the proofs.
* MMU: two virtual pages that compete for the one TLB entry, pages of two
  sectors so that a range can end within one, two PMP entries so that one
  bounds the other; two pages of RAM, one of page tables, one device. Status
  values with and without MPRV and SUM, triggers on loads and fetches or none, leaves with
  and without D, so that walks store.
* Traps: three delegations (none, to a hypervisor that keeps its guest's
  exceptions, all); one nested handler (`MaxNest = 1`), so two frames open in
  three modes; time of two values wraps; one exception cause.
* HTIF: two harts, two open reads (the queue of answers and a full mailbox),
  exit codes of success and failure. `CharWrap = 3` is more than can be on its
  way.
* NPU: the four cores of the hardware and the barrier of the test program.
* `SimLoop`: counters of three bits and `step(2)`.

Deadlock is checked everywhere but in the two bitbang runs, where the client
may hang up or the simulator may abort, and in `npu_barrier`, where the cores
come to a stop.

Fairness. Only what the single thread justifies. The server's tick runs on
(`WF(Server)`), the loop runs on (`WF(Next)` of `SimLoop`). Harts are stepped in
turn, so the handler of a hart runs on (`WF(Handler)`), a hart takes its
interrupts, wakes up and returns (`WF(TakeInterrupt \/ WakeUp \/ Return)` in
`Clint`), NPU cores and their control core go on (`WF(CoreStep(c))`,
`WF(Start \/ Poll)`), and the host loop does (`WF(Host)` in `Htif`). Two are
assumptions about programs: a handler that others interrupt again and again
comes to its end (`SF(Restore)`; handlers have no other loop here), and each
hart in a call gets its turns in the `idle` of the host, though the host
disables it between them (`SF(Syscalls(h))`). The debugger that waits for an
access lets TCK run (`WF(run_test_idle)`, part of its discipline). Nothing is
assumed of clients, terminals, other devices, time or other harts.

## Proofs

TLAPS proves these for every value of the constants that satisfies the named
assumptions (`ConfigAssumption`, `SbaAssumption`, `DtmAssumption`,
`PlicAssumption`, `UartAssumption`, `WiringAssumption`, `PmpAssumption`,
`MmuAssumption`, `HartAssumption`, `BitbangAssumption`, `HtifAssumption`); TLC
found each one true first.

* `DebugModule_proofs`. For any debugger: `Typing`; `HaltedAgrees`
  (`HaltedTracksHart` is inductive given types: `halted` is written only in the
  HALTED and RESUMING stores and by resets, which also move the hart);
  `AckIsHonest`; the action properties `GroupsHalt`, `RequestsStay` and
  `StartsAreClean`, by the actions that can disturb them, with types as the
  only invariant. For the disciplined debugger: `CommandInv`, the conjunction of
  `FlagsCoverRom`, `OneCommandAtATime` and `BusyIsServed`, is inductive, and
  none of its parts is alone: that only the selected hart has a command needs
  that a flag covers a hart on its way in, and that somebody serves the
  command needs that nobody else does. `CommandsAreExclusive`,
  `BusyHasServer` and `BusyFallsLast` follow from it, and so does
  `CommandsRefine`: each action of the debug module maps to the step of
  `AbstractCommand` of its kind or to a stutter.
* `SystemBusAccess_proofs`. For any debugger: `Typing`, `AccessesAreExclusive`
  and `ErrorStopsAccesses`, from the invariant `Exclusive` (at most one wait is
  running, and none under an error): each of the three triggers checks `sb_busy`
  and the error before it starts one, and the one that restarts an access
  restarts the same kind. For the disciplined debugger: `RequestsCarriedOut`,
  the refinement of `SystemBus`. A request is made by the operation that sets
  `sb_busy`; while it is set the only register a debugger can change is
  `sbbusyerror`, so the request stands until the wait is over; then the access
  fails exactly if the bus has no answer for it, and the address and data
  left behind are those that `SystemBus` leaves.
* `JtagDtm_proofs`. For any pins and power-on values: `Typing`; `FindsTap`,
  where the TAP is never further from TEST_LOGIC_RESET (table `Distance`) than
  the ones that are missing; `ScansAreHonest`, from `ScanInv`: between
  Capture-DR and Update-DR reported status and `busy_stuck` agree and nothing
  is accepted; in Update-DR with TCK low `update_dr` has run. The theorem also
  covers drivers that repeat calls, and exempts scans that report `failed`. `RequestsArePaced`, from `PaceInv`: since
  the last request, cycles counted and cycles left add up to `RequiredRti`, and
  a scan that was captured free found none left. `ScansAccessOnce`, for the
  clocked driver only: a scan has made no access before the falling edge of
  Update-DR, and the next edge leaves it.
* `UartInterrupts_proofs` has the theorems of both parts and of their
  composition.
  The PLIC, for any software: `PlicTyping`, `ServiceStaysCurrent`,
  `LineIsCurrent` (`mip` is set exactly if `context_best_pending` finds an id;
  `FindsBest` shows that the best of a nonempty set exists, by the least of a
  set of numbers). For disciplined software: `DriverSeesLevels`, from
  `DriverInv`: one owner per id, pending is enabled and high, copies of
  priorities are current.
  The UART, for any software and queue size: `UartTyping`, `ReadyIsExact`,
  `LineIsExact`; every operation ends in `update_interrupt` with the ready bit
  exact (`UpdateEstablishes`).
  Together: `UartWithinWiring` and `PlicWithinWiring`, the
  composition implies `UartSpec` and `DriverSpec`, so the theorems about the
  parts hold in it. `BytesInterrupt` follows from them and `Wired`: the level
  the PLIC has is the line of the UART. A tick that leaves the queue alone
  drives no line; that it need not is where `LineOfBits` is used.
* `RemoteBitbang_proofs`. For any client: `Typing` and `CommandsKeepOrder`.
  The invariant is `TypeOK`, `Queues` (the
  bytes between client and server are the commands sent and not yet executed,
  in order) and `Places` (the answers on their way, then the open reads in what
  the server still has, are the reads the client waits for). Tags are
  unambiguous because fewer commands are on their way than there are tags.
  With `MaxOutstanding <= OutSize`: `AnswersAreRight` and `AbortsOnHangUp`. The
  bound is needed: without it a batch of answers is written in part, and what
  is left is repeated, as `bitbang_partial` shows. With it a write is whole or
  the server aborts (`SentWhole`).
* `Mmu_proofs`. For any memory map, sizes and software: `LocksHold`;
  `TriggersSee`. The latter and `Typing` come from one invariant, `TlbInv`:
  an entry that can be hit leads to RAM, and is marked if a trigger watches its
  kind of access. That decoded instructions were looked at (`CodeWatched`)
  follows step by step from it. Types alone are not inductive, as a fetch takes a page number
  from an entry into the decoded instructions.
  `HitsAreCurrent` and `CodeIsCurrent` follow from `WalkInv`, which adds the two
  properties themselves. Two facts carry them. What permits an access stays
  while the registers do, as a walk only adds A and D to a leaf
  (`PermittedStays`). And PMP gives one answer to all accesses to a page that
  `pmp_homogeneous` accepts (`HomogeneousAgrees`), for every range it can hold: a
  NAPOT region and a page divide one another as both sizes are powers of two
  (`PowersDivide`), hence the assumption on `PageSectors`, which `subset_match`
  makes too (it aborts on any other length). Induction over sizes is by the
  least number that fails.
* `Clint_proofs`. For any delegation, exceptions, depth of nesting and wrap of
  time: `TimerIsCurrent`, `Typing`, `TrapsNeverGoDown`, `DelegationObeyed` (the
  two computations of the code, compared by cases of mode and delegation) and
  `ReturnsResume`. The invariant of the last, `Nested`, says where the state
  that each open handler interrupted is kept: in the registers of its mode,
  or in what it has saved; handlers only go up; and two frames share a mode
  only if the lower one has saved.

* `Htif_proofs`. For any number of harts, exit codes and open reads: `Typing`,
  `NoneIsLost` and `TypedIsReceived`. Neither property is inductive: that a
  call is in one place needs that only one is under way, and that characters
  stay in order needs to know where among them an answer may stand. The
  invariant `Inv` says so. The line to the target (`fromhost`, then the queue)
  holds at most one answer, at place `c`, and all else in it are consecutive
  characters (`Line`); the holder of the lock is the only hart in a call
  (`Locks`), and its request is in `tohost` or its answer in the line
  (`Called`); reads in `tohost`, with the console and in the line are at most
  the open ones, and all of them until a program ends, which may overwrite one
  (`Reads`). An iteration of the host keeps these numbers (`HostDone`).

Only model-checked: the liveness properties, since fairness and ENABLED are out
of the prover's reach, and the two small models `SimLoop` and `Npu`.

## Differences between code and documentation

Met while modelling. The three that the runs show are findings in
`PROJECT.json`. The others are stated here; the models do what the code does.

* Activation resets the module but not the hart flags: a GO or RESUME posted
  before it is still obeyed after it (`riscv/debug_module.cc:89`;
  `debug_defines.h:2288`), and a system bus access under way is completed
  (`debug_module.cc:108`).
* A resume request to a running hart is posted and resumes its next halt
  (`debug_module.cc:886`; `debug_defines.h:2128`: "if they are halted when the
  write occurs").
* An unsupported access size is reported as 3, not 4 (`debug_module.cc:334`;
  `debug_defines.h:2728`).
* Accesses to the program buffer while busy set no `cmderr`
  (`debug_module.cc:844`; `debug_defines.h:2429`).
* A failed DMI operation is not sticky, and the scan that reports it is
  performed, although "the data scanned into dmi in this access will be
  ignored": `update_dr` looks at `busy_stuck` and `rti_remaining` only
  (`riscv/jtag_dtm.cc:176`; `debug_defines.h:194`). `HonestScan` exempts such
  scans: it speaks of those that report `busy` or success.
* The request that a halt group makes of a member is withdrawn by a write of
  DMCONTROL with that member selected and `haltreq` 0, before the member halts
  (`debug_module.cc:880`; the TODO at `:212` asks what happens then).
  `HaltRequestKept` exempts that write.
* A second call of `set_pins` with TCK low in UPDATE_DR makes the DMI access
  again, since any call that is no rising edge counts as a falling one
  (`jtag_dtm.cc:97`, `:113`).
* The constructor of the DTM leaves `ir`, `dr`, `rti_remaining` and
  `busy_stuck` uninitialized (`jtag_dtm.cc:42`), so a scan before the first
  reset may be reported busy without a cause (`debug_defines.h:208`).
* `Q` does not disconnect the client: the loop breaks before the test of
  `quit` that would (`riscv/remote_bitbang.cc:156`, `:175`).
* A priority write does not reach the copy of a pending interrupt, which then
  is not masked as the comment at `riscv/plic.cc:118` says (`plic.cc:168`).
* Receive and transmit FIFO clears are looked up in LCR instead of FCR
  (`riscv/ns16550.cc:96`; `:33`), and two interrupt sources are ORed to the
  code of a third, 0x06 (`ns16550.cc:117`; `:27`).
* `sb_autoincrement` loses the carry into the second word of the address
  (`debug_module.cc:286`; `debug_defines.h:2732`).
* An id that is enabled in two contexts stays pending in the second after its
  line fell, since only the first is told (`plic.cc:325`; the comment at
  `:307`).
* Setting `mnstatus.NMIE` makes MPRV effective again but does not flush the TLB
  (`riscv/csrs.cc:585`); Smrnmi is left out of `Mmu`.
* After a page-table store without a fence the three tags of a TLB entry may
  disagree about its one data entry (`mmu.cc:344`): a refill for one kind of
  access moves the page for the others. The architecture allows either
  translation until the fence.
* `sim_t::step` gives up the reservation of a hart whenever its turn ends, and
  with the loop as it is written that is after every instruction
  (`sim.cc:329`): `sc` never succeeds.
* The reset of a hart clears MSIP and MTIP, which the CLINT keeps nowhere else
  than in `mip`, until the next store or tick (timer) or for good (software
  interrupt).
* `tohost_exit` takes no lock, so the call of another hart may overwrite the
  end of the program before the host looks (`syscalls.c:29`, `:67`).
* Nothing calls the `finish` of a task that would clear its busy bit
  (`sm_dispatch.cc:29`), and a store to ECODE by a busy core has no effect,
  since the exception that should follow stands behind a `return` in the branch
  for idle cores (`:117`): STATUS never falls, and `barrier.c:106` polls it for
  ever.
* The scheduler of the NPU is not ticked (`sim.cc:344`, commented out), and
  nothing catches the exception of a full queue (`sm_schedule.cc`).

## Not modelled

What remains would be unfaithful to model, or has no control to speak of.

* *NPU scheduler and devices*: the call that drives them is commented out, and
  the headers of the scoreboard and of the memory model are not in the
  repository, so what a queue holds, and for how long, cannot be read from it.
  *NPU computation*: tensors, layouts, file I/O.
* *Instruction execution, floating point, vectors, custom extensions*: some 900
  functions from registers to registers; a reference for them would be a
  second simulator. *CSR legalization*: masks of single registers, but for
  those of PMP, traps and translation.
* *Triggers*: comparisons within one instruction; what they do to other parts
  is in `Mmu`.
* *System calls*: marshalling and host file I/O behind the entry that `Htif`
  models. *Program loading, device tree, disassembler, command line,
  interactive mode*: parsing and printing of text, once or on demand.
  *Cache simulator*: statistics. *Tethered transport*: drives an external RTL
  simulation; nothing here uses it.
* Within modelled parts: the instructions the debug module writes for an
  abstract command; reads without an effect; interrupts above 11, Smrnmi and
  the double-trap extensions; the levels of a walk and its second stage; pointer
  masking; misaligned accesses, of which `pmp_ok` looks at every fourth byte
  from the first on (`mmu.cc:357`) and so may miss the last sector;
  the disk and frame buffer of HTIF; more than one NPU barrier at a time.
* Four hazards have no property because the code is known to lose: a RESUME
  flag that outlives a run, a GO flag that survives activation, the carry of
  `sb_autoincrement`, and the busy bits of NPU cores that nothing clears. The
  models contain these behaviours, and every property holds in spite of them.
