# Verification of the always-on firmware

TLA+ models of the firmware that runs on the always-on E902 core of the Light
SoC (`src/csi-rtos/solutions/fm_aon_low_power` with the chip code in
`csi/chips/thead/light_aon` and the drivers it uses).  The firmware serves
requests of the application processor (AP): watchdog, regulators and power
domains, CPU hotplug, suspend to RAM, register dumps.  It has no operating
system: `main()` initialises the services and then serves a queue for ever;
everything else happens in interrupt handlers.

## Execution model

`drivers/core/e902/vectors.S` enables interrupts again inside a handler, but
all CLIC interrupts have the same level (`system.c`), so handlers never nest.
In the models therefore

- an interrupt handler is one step with respect to the main loop and the other
  handlers;
- the main loop and `main()` are split where a handler between two of their
  accesses can make a difference;
- another core (the AP, the PMIC) runs concurrently with both, so the mailbox
  handler, which shares registers with the other core, is split again in `Mbox`.

## Parts of the system

| Part | State | Operations | Module |
|---|---|---|---|
| RPC queue, `aon_rpc.c` | `items`, `front`, `rear` | `enqueue` (interrupt), `dequeue` (main) | `RpcQueue`, abstract: `RpcFifo` |
| RPC dispatch, `aon_rpc.c`, `main.c` | `g_rpc_process`, queue, `tx_msg` | dispatch, register, loop | `AonRpc` |
| Mailbox driver, `mbox.c` | INFO0-7, STA on both sides | interrupt handler, `csi_mbox_send`, `csi_mbox_receive` | `Mbox` |
| Watchdog service, `aon_wdt.c` | `monitor_state`, `hw_wdt_en`, `hw_wdt.type`, timer | WDG requests, monitor | `AonWdt` |
| PMIC watchdog, `pmic.c`, `da9063.c` | chip counter, device flag, `wdt_len`, AUTO_BOOT | start, stop, feed, set length, repower | `AonWdt` |
| Suspend and resume, `power.c`, `aon_lpm.c` | lp mode, magic numbers, interrupt masks, parts asleep, rails | `chip_lpm_suspend`, `_resume`, `_finish` | `ChipPower` with `PowerSeq`; the masks and the lp mode again in `AonWdt` |
| Power domains, CPU hotplug, `power.c` | reset, clock, isolation, switch and IOPMP of each island | `*_powerup`, `*_powerdown` | `ChipPower` with `PowerSeq`, abstract: `PowerIsland` |
| Regulators, `pmic.c`, `da9063.c` | voltages, enable bits, parent GPIOs, record | set voltage, switch, soft power sequences | `Pmic` |
| PM service, `aon_pmic.c` | call in work, who made it | PM requests, start, power off | `AonPmic` |
| Register dump, `aon_misc.c` | dump map | REGDUMP_CFG | the change of the reset type, in `AonWdt` |
| SYS service, `aon_sys.c` | reboot reason, reserved memory | RESERVE_MEM | not modelled |

How they interact: the mailbox interrupt receives a request and calls
`aon_rpc_dispatch()`, which calls the service directly (high priority) or
queues it (only `LPM/CPUHP`); the reply goes out through `csi_mbox_send()` from
the interrupt or from the main loop.  The timer interrupt runs the watchdog
monitor.  `aon_misc.c` changes the reset type of the watchdog, `power.c` masks
and restarts its timer.  Domain requests run to their end in the mailbox interrupt,
while the main loop may be in the middle of a CPU hotplug.
Behaviours that are hard to test: requests during boot
and during the work on another request, slots and registers released before
they are used, two doorbells that fall together, timers that count through
suspend and reset, I2C transfers that fail half way, supplies that follow their
switch too late, unsigned differences that wrap.

## Modules

**RpcFifo** is what the queue promises: at most `Capacity` requests wait, in
their order, and the main loop acknowledges the one it took.

**RpcQueue** is the ring of `aon_rpc.c`.  `dequeue()` is two actions, because it
stores `front` twice when it wraps, and the main loop uses the slot in two
further actions (`serve`, `reply`) after it has been released.  A full ring drops
the request: `aon_rpc_dispatch()` ignores the result of `enqueue()`.  The
refinement mapping to `RpcFifo` takes the waiting requests from the ring, with
`front` wrapped, and the request in work from the slot the main loop points to.

**AonRpc** is the layer around the queue.  It uses the actions of `RpcFifo`
for the queue, so the two modules compose through the refinement.  `boot` walks
through the registrations of `aon_submodule_init()` in their order, one store at
a time; an initialisation between two of them may fail (`initFails`).  `apHangs`
stands for an AP that stops to do its part, for which the firmware waits without a
limit.  Service routines are represented by the size of the acknowledge they leave.  `svc` of the
reply is a set of bits, because `RPC_SET_SVC_ID` only sets bits and the main
loop never clears its `tx_msg`.

**Mbox** is the mailbox driver on both ends of channel 0, the one of the AP.  One action is one
register access.  Each core has an interrupt and a main context.  The messages
have two words: INFO0, which tells whether there is a message, and one for
INFO1-6.  The E902 replies to a request from the interrupt or from the main
loop; the peer has one request out at a time.  Channel CPU3, for which
`csi_mbox_receive()` sets no TX_ACK, is left out: a reply always goes out on channel 0,
so that the two ends of CPU3 do not make an exchange of their own.  The driver of the
AP is not in the repository; the peer is modelled with the one that is here, which
also has the register table of the 906.

**AonWdt** is the watchdog service with the PMIC watchdog.  A service request
and a run of the monitor are one step each; `aon_wdt_start()` called by `main()` is
three (`mainCheck`, `mainTimer`, `mainState`), because a request can come between
them, and `aon_lpm_init` ends the start.  An operation on the PMIC is the set
of its outcomes, including those where an I2C transfer fails after some
registers have been written.  Time is in seconds: `Second` counts the timer and
the PMIC down, and a due timer interrupt is taken first.  `Restart` boots again
after a reset of the SoC (the PMIC and the lp mode register keep their state) or
after a power cycle.
`Requests` says what the AP does in a run; two of its members are not requests
but relax the order: `EARLY` (requests before `main()` has started the monitor)
and `STR_ARMED` (suspend with the hardware watchdog on).

**PowerIsland** is what the sequences of `power.c` promise of a power island (a C910
core, a domain, the AP): the supply changes only while it is isolated, in reset and
without a clock, and it is opened only when powered.  `late` holds the islands whose
supply did not follow in time; the firmware notices that and goes on.

**PowerSeq** has one program per function of `power.c`, a sequence of register steps
in the order of the code.  `Down` and `Up` are the order that most domains share.

**ChipPower** executes the programs: `isr` is what the mailbox handler still has to
do, `main` what the main loop has, and the main loop moves only while `isr` is
empty.  `Do` says what each step does.  `apsys_power_ctrl()` stops at the first
regulator that fails; `lpm_process()` calls `chip_lpm_suspend()` without its argument
`pmic`, which is one more reason for no rail to be switched.  The cores, OpenSBI, the
SPL and the power switches are external actions.  A core that is released
from reset starts only if it has its supply; Linux gives up on one that does not come
(`GivesUp`) and may ask for it again.  `used`, chosen in `Init`, says which
domains and cores the AP switches, which interrupts are enabled and which supplies are
slow.  What is abstracted: a SET or CLR register changes only its bits; delays are left
out; the C906 counts as active from its start; the supply of an island that
is not slow follows before `subsys_pd_verify()` gives up; the waits for the PLL, the L2
cache and the DDR controller end; a CPU number that does not exist is not sent; the AP
may suspend again without RESUME_STR; the read-modify-write of the AP reset register
(`sysrst.c:18`), which the main loop and the interrupt share when they switch two
different secondary cores, is one step, and the runs have one such core.  `WDT_RESET_EN` and `board_resume()` are left
out.

**Pmic** is the regulator driver.  A call is followed rail by rail, one exchange
with the chip per step; an exchange that fails may have changed the register or not.
Voltages are in units of 10 mV and unsigned arithmetic wraps at `W`, which stands for
2^32 uV; the conversions between signed and unsigned are those of the C expressions.
`current_uv` is not a variable: the code reads it back after each write.  `from`, a
history field, keeps the voltages at the call.  `hw_seq` and
`Bubble` are the list and the sort of the soft power sequences.  Delays and slew rates
are left out; the rails of a regulator are numbered without holes; the chip is the
da9063.  The other drivers have no `gpio_output`: a rail with a parent on one of them
(`parent = "other"`) ends `csi_pmic_regulator_ctrl()` early, with no error.

**AonPmic** adds the requests of the AP, the start of the driver and the power off.  A
start that fails leaves no PM service (`dead`).  The PMIC may be in any state at the
start, since it keeps its outputs when only the SoC is reset; the record comes from a
table.  `dirty`, a variable of the model only, holds the regulators whose record no
switching confirms: all of them at the start, later those whose last switching did not
get to its end.

The modules ending in **Proofs**, and **PmicRails** with what they share, hold the
theorems.  `MC*` modules give constants their values.  Operators marked *Mutant* or
*broken* are wrong variants of the definition after them; each property fails with
one of them (`mutants` in `PROJECT.json`).

## Runs

| Run | Result | What it shows |
|---|---|---|
| `rpc_queue` | holds | the ring refines the FIFO; early release of the slot is harmless because one slot always stays free; accepted requests are served |
| `rpc` | holds | the table is consistent at every point where a request can come; replies match their requests; no request is answered twice; CPUHP is never NOTFOUND; queued requests are answered while the AP does not hang |
| `mbox` | holds | no message is taken twice, out of order or lost, although TX_ACK and TX_DATA ring the same doorbell |
| `mbox_ack` | violated | the handler takes a half-written request on a TX_ACK interrupt |
| `wdt` | holds | flag, chip and `hw_wdt_en` agree; the PMIC is fed in time; the monitor hears its timer; a hang ends in a restart |
| `wdt_fail` | holds | the last two with failing I2C transfers |
| `wdt_early` | violated | WDG_STOP inside `aon_wdt_start()` of `main()` leaves a deaf monitor |
| `wdt_dump` | violated | REGDUMP_CFG with an armed PMIC ends in a power cut |
| `power` | holds | the sequences of `power.c` implement `PowerIsland`, also when one starts in the middle of another; a core that executes has everything it needs; the memory survives; rails stay in order although regulators fail; interrupts come back; suspend and hotplug end |
| `power_rc` | violated | a resume that finds RC_READY not set loops for ever |
| `pmic` | holds | coupled rails keep their spreads (but for the case of `pmic_spread`), never overshoot and reach their targets; the soft sequences keep their order; the record is right once a switching has got through, whatever the chip held at the start |
| `pmic_spread` | violated | a rail at the end of its range that is to go down leaves the spread in one write |

Each violated run stands for one finding in `PROJECT.json`, with the comment in
the code that it contradicts.

**Bounds.**  `rpc_queue`: the five slots of the build and two contents, enough for a
slot to differ from what would overwrite it; nothing else is bounded.  `rpc`: a
queue of three (two can wait), and four requests (`MaxReq`), so that one can be in
work, two wait and one be dropped, or one come at each stage of boot; seven kinds
cover the branches of the dispatcher.  `mbox`: three
requests (`mbox_ack`: four): the first waits for a real acknowledge, the later ones
meet a stale one, and the acknowledge of each reply can meet the next request.
`wdt`: the real lengths (32 s and 4 s); the AP asks for 1, 4, 8 or 32 s, so that
the PMIC is shorter than, as long as and longer than the timer period.  Nothing is
bounded in time: the counters are finite.
`power`: core 0 and one secondary core, which differ in who switches them; two
hotplug requests waiting (`MaxHp`), so that a core can be asked for again before it was
served; every domain occurs in some system, with a fast or a slow supply; three rails, so
that a sequence can stop before, between and after them; systems with more and fewer
interrupts.  Suspends follow each other without a bound.
`pmic`: nine boards.  Two coupled rails with the 1:3 asymmetry of
`SOC_APCPU_DVDD_DVDDM` from any voltage to any target, with and without failing
transfers; rails with different steps; three rails in a chain; a single rail; a
sequence of four regulators with and without failing transfers, from any enable bits
and GPIOs; a regulator with a parent that cannot be driven; and a regulator whose
rails are not neighbours in the sequence, which the driver refuses.

**Deadlock** is checked in the runs of `RpcQueue`, `AonRpc` and `AonWdt`.  The others may
really stop: in `Mbox` everything rests once the peer has sent its `MaxReq` requests (that
all were answered is `Delivered`); `ChipPower` has waits without a limit, for a C906 that
was switched off or for a rail that did not come back; `AonPmic` ends `dead` when the
start fails.  What does not stop is stated by the liveness properties.

**Fairness.**  The main loop is the only thread, but its work on a request waits for
the AP: `c910_powerdown()` until the core is inactive (`power.c:659`), `csi_mbox_send()`
until the reply is acknowledged (`mbox.c:151`), both without a limit.  In `RpcQueue` the
fairness of `dequeue()` (`LoopRuns`) is therefore apart from that of the work on a request
(`ApAnswers`), which is the assumption that the AP answers.  In `AonRpc` the loop is fair
only while the AP does not hang (`apHangs`, which may happen at any time), and
`QueuedIsAnswered` says so; `initFails` is never forced.  In `Mbox` both cores keep running: weak fairness of
each, which again assumes an AP that does its part.  In `AonWdt` `main()` gets to its loop, time passes and a pending, enabled timer
interrupt is taken (weak fairness); a repower that is tried again every four seconds gets
through the I2C bus at some time (strong fairness), which is an assumption about the
bus: it is not always broken.  In `ChipPower` the handler runs on, except that
nothing has to wake it from `wfi`; the main loop has strong fairness, because interrupts
may come for ever but always return to it; the switches that are not slow follow; a core
does what it has begun (a core that asked to be switched off becomes inactive), and the
C906 stops once Linux has.  In `AonPmic` a call runs on
(weak fairness of the driver).  The AP is never assumed to make a request.

## Proofs

All proofs are checked by TLAPS, for every value of the constants that satisfies the
named assumptions.

*RpcQueueProofs* (assumptions: `QUEUE_SIZE` is a positive number, `None` is not a
request).  `TypeCorrect` and `FullSafe` are inductive with the type invariant, which
says that `front` is out of the ring only between the two stores of `dequeue()`.
`InFlightSafe` needs more: the slot the main loop points to is the one just before
`front`, and a ring that is not full has it outside of the part in use; with
this, `enqueue()` never writes it.  `RingImplementsFifo` uses the same invariant: an
enqueue is `Accept` or a stutter, the first store of `dequeue()` is `Take`, `reply` is
`Finish`, the other steps are stutters.

*AonRpcProofs* (assumptions: sizes are natural numbers, `None` is neither a service nor a
request), for any number of requests of any kinds.  Three invariants build on each other.
`TableInv` says what the table looks like between the stores of a registration: the slots
with a routine are those of the services registered so far, one each (`TableHolds`).
`PlaceInv` says where a request is: it waits, is in work or has its answer, and never two
of these (`TypeCorrect`, `AnsweredOnce`).  `BufferInv` says that the loop serves only
CPUHP, so that the bits it leaves in `tx_msg` are those it sets again, and that its service
is registered when the loop runs (`RepliesMatch`, `CpuhpFound`).  An AP that hangs, and an
initialisation that fails, are allowed.

*AonWdtProofs* (assumption: the PMIC length is between 8 and 128 s).
`TypeCorrect` needs no further condition.  `MonitorStaysAlive` assumes
that `EARLY` is excluded; its invariant `MonitorInv` adds where `main()` is and that a
suspended system has the lp mode set: the timer is off only in IDLE and masked only in
a suspend.  I2C failures are allowed.  `ArmedSafe` and `FedSafe` assume
`Quiet` (no `EARLY`, no `STR_ARMED`, working I2C); their invariant
`PmicInv` (`MonitorInv` with `ArmingInv`) follows the flag, the chip and `hw_wdt_en` through boot, resets and suspend.
A reset of the SoC leaves the PMIC armed while `hw_wdt_en` is cleared; what saves
`ArmedConsistent` is that the first boot has cleared AUTO_BOOT, so that
`aon_wdt_init()` does not choose the PMIC again until a power cycle has stopped it.  The
two counters are compared at each step: while the PMIC is armed and longer than the
timer period, it has more left than the timer.
The runs `wdt_early` and `wdt_dump` show why the assumptions and the
restriction to the type USE_PMIC are there.

*PowerIslandProofs* (no assumption).  `UsableHolds`: what `PowerIsland` allows is enough for
an island out of reset to have its clock and no isolation, and for one that is not
isolated to be powered or known to be late.  `Usable` is inductive as it stands.  With
`IslandsSafe`, which the run `power` checks, it holds of the code's sequences.

*PmicRails*, *PmicCouplingProofs*, *AonPmicProofs* (assumption: `BoardAssumption`, any
number of regulators with one to three rails, limits below half a word, spreads below
a quarter).  `VoltInv` says that each register holds a voltage of its rail and that
a call that has begun to set rails has targets within the limits, which
`csi_pmic_regulator_set_voltage()` checks first.  The lemmas of `PmicCouplingProofs` follow the
arithmetic: a difference of two voltages, taken as a word and read back as a signed
number, is itself; the margin that is chosen lies between 0 and the way to the target,
because a limit on the wrong side loses the comparison of unsigned words; a
quotient rounded to zero keeps both.  So no rail overshoots (`NoOvershootHolds`).  If
the rails are within their spreads, the range of a rail does not wrap, and a write that
does not start at its lower end stays in it (`SpreadKeptOffLimitHolds`).
`VoltagesHeld` is the invariant itself.

*AonPmicRecordProofs* (the same assumption).  `RecordedHolds` starts from any enable bits
and GPIOs, with every regulator `dirty`; `Recorded` speaks of the time between calls.
`RecInv` adds the time inside one: the rails the call in work has passed agree with their
record, and so do all rails of regulators that are not `dirty`.  A call that gets past
the last rail has written chip and record of every rail, and may therefore take its
regulator out of `dirty`; one that ends early, because of a failed transfer or of a parent
that cannot be driven, puts it in.

Only model-checked: the liveness properties (outside of TLAPS), everything about `Mbox`,
`ChipPower` with its refinement of `PowerIsland`, the type invariant of `AonPmic`,
`Reached`, and the order of the soft sequences, which rests on a sort over lists of any
length (induction over data).

## Known limits of the code the properties leave out

Cases that the properties exclude, or that lie in code that is not modelled:

- a set-voltage request with a target off the grid of its rail or outside of the
  spreads is accepted, and the loop in the interrupt does not end (`Feasible`);
- a lower bound of a coupled range below 0 wraps, so that the range is empty and the call
  is refused;
- off orders that mix the rails of two regulators break `SoftOrdered`: the check for
  neighbours is made only when switching on.  The table in `aon_pmic.c` has none;
- a switching that fails, or that meets a parent without `gpio_output` and returns OK
  with the rails behind it not switched, leaves the record stale until one gets through;
  so does a restart of the SoC alone, after which PWR_GET reports the table (`dirty`);
- with three rails in a chain, a rail that jumps out of the spread (`pmic_spread`) can
  leave the range of the one between empty: the request is refused half way (`Reached`);
- a core whose supply came too late is released from reset all the same and may not start
  (`Plugged`);
- between `vdec_powerup()` and `light_iopmp_config()` (`power.c:1604`), and likewise for
  the NPU and the other domains, the masters are out of reset before their IOPMP is
  written; `Guarded` speaks of the time after the request;
- `Fed` lets a core run while the bucks are still in their sleep mode: the result of
  switching them back to SYNC (`power.c:1390`) is ignored;
- an AP that stops while the firmware waits for it hangs the firmware (see Fairness);
- a PMIC that is armed when the SoC is reset keeps counting and bites, as nobody feeds
  it before the AP switches it on again; `da9063_init()` clears AUTO_BOOT, so that only
  the first boot chooses the PMIC;
- `csi_mbox_send()` returns at once on the acknowledge of an earlier message in INFO7;
- the monitor writes the reboot reason SW_HANG before it looks at `hw_wdt_en`, so the
  reason stays although nothing is reset (`aon_wdt.c:132`);
- `aon_sys.c:76` overwrites the error of `set_aon_reservemem_addr()` with the next result;
- the aptf110 takes its watchdog length in milliseconds (`aptf110.c:377`), `aon_wdt.c`
  passes seconds.

## Not modelled

The tree under `src/` is a whole SDK: some 900 files of drivers, kernels, protocol
stacks and chips of which this firmware links a small part.  The models cover the code
of the firmware that takes decisions: the services, the mailbox driver, the power
sequences and the regulator driver.  The map therefore covers a small share of the
lines of the SDK, and that is meant to be so.  Left out of the firmware's own code:

- DDR training (vendor register sequences without decisions), clock rates, cache
  maintenance of the E902;
- the SYS service: one word in reserved SRAM, written and read in single steps;
- the walk over the dump configuration and the formatting of a dump: sequential, and
  nothing else is shared while it runs;
- the PMIC interrupt, which reads and logs; the expression that chooses the PMIC
  (`pmic.c:1019`) compares before it masks, and what it chooses is only logged;
- the register tables of the other PMICs (da9121, slg51000, ricoh567, aptf110);
- the PVT sensor, but for its call of the power off; the debug monitor;
- two requests of the AP in flight at a time, so that a reply from the interrupt meets
  one of the main loop.
