# A TLA+ model of catbench

catbench measures what cache allocation (Intel CAT) does to co-running programs.
The repository is a toolbox: C programs that prepare a machine and start
benchmarks on chosen cores, benchmark clients with a known memory access
pattern, a DPDK request/response pair that measures latency while a contender
runs, a copy of DPDK's packet generator testpmd, and shell scripts that drive
experiments over ssh and collect results in JSON. This directory models the parts
whose correctness depends on order, concurrency or arithmetic.

## 1. The parts of the system

| Part | Source | What it does |
|---|---|---|
| Benchmark session | `bench_commands.c` | fork one child per program, pin, rendezvous over SIGUSR1, exec, wait |
| Process migration | `proc_manip.c`, `prep_system.c` | move every process of the machine to given cores, retry, undo |
| Drivers in C | `catbench.c`, `dist_a.c`, `slowbro.c`, `locksmith.c`, `perfexpl.c` | prep, set cache masks, run, wait, clean up |
| Signal helpers | `onmycommand.c`, `setpgrp.c` | start a command per SIGUSR1; new process group |
| Random traversal | `clients/rng.c` | full-cycle linear congruential generator |
| Cache walker | `clients/square_evictions.c` | walk a buffer in contracted/expanded cycles; log; asynchronous mode |
| Lock server/client | `clients/lockserver-ng.c`, `clients/lockclient.c`, `clients/dpdk_wrapper.c` | pointer-chasing server and latency client over raw Ethernet |
| Cache geometry | `clients/llc.c`, `clients/perf_poll.c` | read the LLC size from sysfs; performance counters |
| Latency experiments | `network_rtt`, `networked/*.sh` | trials with contenders, resctrl groups, retries, recording |
| Other scripts | `driver`, `lockserver-driver`, `batch`, `cacheperf`, `jaguar/*`, `jagoff` | run one experiment, run a list of them, profile, edit JSON results |
| Packet generator | `test-pmd/*` | a prompt that configures ports and starts and stops forwarding; forwarding engines that poll on other cores. Nine tenths of the code |
| Post-processing | `*.py`, `data_analysis/*`, `clients/summarize_*` | tables and plots |

## 2. Modules

The programs of the toolbox:

| Module | Models | State | Actions |
|---|---|---|---|
| `BenchCommands` | `run_benchmarks`, `wait_benchmarks`, called in the loop of `dist_a.c` | the parent's place and loop variable, recorded pids, one state per child, blocked and pending bit of SIGUSR1 per process | malloc, fork, await, kill, waitpid in the parent; set-up, report, wake-up, exec in a child; each with its failure |
| `StartBarrier` | abstract specification: programs get ready, a gate opens, programs run | | |
| `Relocation` | `prep_system`, `cleanup_system`, `rearrange_processes`, `proc_manip_rebalance_system` | processes with kind and mask, the output of `ps`, the locals of both loops | the calls, one step per `getline`, `sched_getaffinity` and `sched_setaffinity`; `ps`; forks and exits of others |
| `PtrChase` | `ptrchase_setup` with its assertions, and the chase of a request | the array and the cursors | one per loop step |
| `Lcg`, `Rng` | `clients/rng.c`, used as in `rng_test.c` | constructor arguments, the generator | draw, test, construct, step |
| `SquareEvictions` | `clients/square_evictions.c` from its checked options on | loop counters, generators, log buffer, signals | set-up, cycles, passes, single accesses, signal handlers |
| `LockProtocol` | `experiment` of `lockclient.c` and of `lockserver-ng.c` | frames on their way, client, server, alarm | each step of both loops, the three signal handlers, loss, foreign frames |
| `NetworkRtt` | main loop, `recordtrial`, `runtrial` and resource groups of `network_rtt` | the trial, groups, and the group of script, server and contenders | each phase of a trial, each line the client may send |
| `WaitForAlloc` | `waitforalloc` of `network_rtt` | free huge pages, the count kept | each poll; an allocation by the server |

testpmd:

| Module | Models | State | Actions |
|---|---|---|---|
| `FwdConfig` | the five functions of `config.c` that turn a configuration into streams and deal the streams out to cores | (operators) | |
| `TestPmd` | ports, forwarding configuration, start and stop of forwarding (`testpmd.c`, the commands of `cmdline.c` and `config.c` that change them) | `ports[]` with status, flags and what the device behind was configured with; the globals; `cur_fwd_config`, `fwd_lcores`, `fwd_streams`; what each core runs | one per command, executed to its end; the second halves of `stop`, `quit` and `start tx_first`, which wait for the cores; the loop of each core |
| `PortLife` | abstract specification: a port is opened, started, stopped, closed, removed, and left alone while packets are forwarded | | |
| `PmdBase` | checks shared by the commands | | |
| `TxOffload` | VLAN, QinQ, checksum, segmentation and tunnel commands | flags and tags of `ports[]`, offloads and VLAN table of the device | one per command |
| `FlowControl` | link and priority flow control, full and partial | parameters of the device; what was typed last (history) | one per command |
| `Filters` | all filter commands; flow director masks and tables | the request sent; tables of `ports[]`; what the device got at the start of the port | one per command; start and stop of the port |
| `PortSettings` | commands that hand a checked setting to the device: receive modes, virtual functions, mirrors, RSS, redirection table, hash, tunnels, bonding, bypass, globals | settings per port; redirection table; globals | one per command |
| `Registers` | reading and writing of registers, fields and bits with the shifts of the code | registers; bits written last (history) | one per write command |
| `PortTables` | multicast pool, queue statistics mappings, segments of generated packets | the tables and the copy of the device | one per command |
| `LaunchArgs` | `launch_args_parse`: the options in the order of the command line | the globals they set | one per option |
| `Engines` | the ten forwarding engines as far as they own packet buffers | the memory pool, arrays and locals of each engine, transmit queues, counters | receive, discard, copy, allocate, transmit (any part is taken), retry, free |
| `CsumOnly` | `csumonly.c`: dissection, checksums, offload lengths, under the commands of `TxOffload` | the burst, the offload record shared by its packets | one packet; the commands |
| `IcmpEcho` | `icmpecho.c`: ARP and ICMP answers with one's complement sums | a request and its answer | one packet |

`MC*` modules give the constants values for TLC; `*Proofs` modules hold the TLAPS
proofs. Operators whose comment begins with "Mutant" are deliberately wrong
variants of the definition that follows them. They are used by no specification;
putting one in the place of its definition has to break a property.

The system is a set of separate programs, and the modules follow that. They share
`Lcg` (`Rng` and `SquareEvictions`). `BenchCommands` contains the calling loop,
`Relocation` both calls of a session, `LockProtocol` both ends of the network.
`LockProtocol` treats the chase as one step, which `PtrChase` justifies: it ends
after one visit to each entry.

testpmd is one program with one prompt. `TestPmd` composes the prompt with the
forwarding cores and contains every command that another command or a core can
notice. The command modules hold commands that touch nothing of it but their own
table, and share no variable with each other, so `MCCommands` puts them side by
side, one family per behaviour. `CsumOnly` composes the checksum engine with the
offload commands typed while it runs. `Engines` abstracts a stream to the queue it
sends to; that no queue is served by two cores, which it relies on, is
`NoSharedQueue` of `TestPmd`.

## 3. Runs

| Run | Bounds | Checks |
|---|---|---|
| `bench` | 3 programs, 2 sessions, all faults | `wait_benchmarks` returns only when no child is left; sessions without failures complete; refinement of `StartBarrier` (no program starts early) |
| `relocation` | 4 pids, 3 attempts, any number of forks and exits | what a success covers; on a quiet machine success means what it should and cleanup restores; both calls return |
| `ptrchase` | arrays of 1 to 6 entries | a request reads every entry |
| `square` | 16 cache sets (12 and 8 in single cases), eleven command lines, two seeds, 3 SIGUSR1; and the generator alone: periods 5 to 20 except 6, repeated factors, given increments, period 64 with a wrapping product, three seeds | a pass touches all its lines; the log stays in its buffer; traversals end; SIGTERM ends `-i`; full cycle |
| `lock` | 3 trials, 1 of them warm-up, 2 retries, 1 foreign frame | how far an answer may lag; the server's assertion; the client returns after the first trial |
| `rtt` | 3 inputs, 2 timeouts, all combinations of options and hooks; and `waitforalloc` with up to 4 pages | server and contenders run in their partitions; every run starts without a group or a server of the one before; rows are fresh and complete; the wait ends when it began to count in time |
| `ports` | 3 port numbers, up to 3 cores, up to 3 queues, 2 values of a setting; seven kinds of sessions | cores poll ports and queues that are ready; no queue has two cores; forwarding can be stopped; a started port runs with the settings recorded; the waits for the cores end; refinement of `PortLife` |
| `commands` | 2 ports (one for commands with many arguments), 2 values, tables of 2 to 4 entries, registers of 4 bits; 2 to 5 commands in the large families and no limit in the others | what the tables and the device hold is what the commands asked for |
| `forward` | 2 streams, 4 buffers, bursts of 2, 2 segments, 1 retry, 3 flows; 5 steps of the checksum engine and its commands; 16-valued words in the echo engine | each buffer is in one place; counters add up; flows are consecutive; checksums are renewed where they should be; answers verify |
| `csum_stale`, `rtt_rejected`, `alloc_late` | as above, one case each | violations, section 5 |

Why the bounds are enough to be interesting. With three programs there is a child
before, at and after the one being started, and with two sessions something can be
left over. Four pids allow a fork behind the position of `ps` and the reuse of a
pid. With two retries and three trials an answer can be late by one trial and by
two. Three inputs give a first, a middle and a last round. In `square` each command
line exercises one option, and the buffer of the log is grown and refused. In
`ports` three numbers allow two ports and one attached, bonded or missing between;
a kind of session fixes which commands are typed while forwarding is stopped and
which while it runs, since all of them at once are out of reach. In `commands` a
table has an entry before and after each border (reallocation of the multicast pool
at 2, groups of the redirection table of 2, top bit of a register). In `forward` two
streams and a pool of four run dry while one stream is in the middle of a chain, and
a burst of two has a packet before the one looked at.

Deadlock is checked except in `bench` (a child that fails before it reports really
leaves the parent waiting), `lock` (client and server stop), and `commands` and
`forward` (bounded sequences).

Where properties exclude cases that the code does not cover:

* `LagBounded` is about runs without foreign frames: the client takes any frame as
  its answer, so no bound holds with them.
* `RowsFresh` excepts a lost connection, which the script does not notice
  (`network_rtt:493`).
* `CleanRunsComplete` is about sessions in which no child leaves by an error path and
  `run_benchmarks` returns true.
* `StartsClean` lets contenders outlive the signal of the run before, for which the script
  does not wait (`network_rtt:545`), but never in the partition that is measured.
* `PollsReadyQueues` leaves out odd pairings (the neighbour of the last of an odd number of
  ports is behind the list, `config.c:1099` and `1194`), ports that `set default` lists
  from 0 although one of them is gone (`testpmd.c:390`), ports that are behind (next item),
  a configuration without transmit queues, and more receive than transmit queues in
  icmpecho mode (`config.c:1351`). `NoSharedQueue` leaves out odd pairings, and in DCB mode
  the cores past the last traffic class, which run what they were dealt before
  (`config.c:1299`).
* `ConfigInForce` leaves out slaves and the ports that are behind, a history variable of
  `TestPmd`: ports that a DCB command passed over when it changed the global queue counts
  (`testpmd.c:1926`), ports whose settings `init_port_config` rewrote without flagging them
  (a port attached, a bonded device created, a slave added, removed or made primary,
  `testpmd.c:601`, `cmdline.c:4134`, `4190`, `4247`), and slaves flagged while they were
  started. A port leaves the set when it is configured again. `FlexMasksAsTyped` has the same
  exception for the tables of the flow director (`dropped`, `testpmd.c:1771`).
* `CanStop` leaves out slaves removed from a bonded device while packets are forwarded,
  after which `stop` refuses (`cmdline.c:4248`, `testpmd.c:1055`). `WaitEnds` asks that the
  forwarding configuration counts the cores that run: `set nbcore` followed by `show config
  fwd` makes it smaller, and `stop` tells fewer cores than it waits for (`config.c:1427`,
  `testpmd.c:1064`). The sessions of `ports` contain both.
* The sessions of `ports` leave out detaching together with bonding, by which a bonded
  device takes over the status of a detached port (`testpmd.c:1814`): TLC finds `LifeCycle`
  violated within a few hundred states when the session is added. `set nbport` together
  with detaching, by which a count of ports may wrap (`testpmd.c:1557`), is left out as
  well; no property is about it.
* `QmapInForce` is about the ports that take part in forwarding, the only ones mapped at a
  start (`testpmd.c:990`), and leaves out a queue named twice by the launch option.
  `LaunchCounts` leaves out `--nb-ports` or `--nb-cores` after a mask, and lets the number of
  ports be zero after a mask of ports past `RTE_MAX_ETHPORTS` alone, whose bits are dropped
  (`config.c:1546`).
* `ChecksumsRight` leaves out IP in IP behind a VXLAN packet of its burst, and SCTP packets
  whose length the code's test misjudges (section 5). `RepliesVerify` leaves out a request
  whose other words are all zero.
* `StatsAddUp` asks of flowgen only that it counts what it sent: it frees packets that the
  device refused without counting them (`flowgen.c:226`).
* icmpecho is modelled for bursts below 256 packets (`EnginesAssumption`). A burst may have
  up to 512 (`testpmd.h:60`), but the engine's index has 8 bits (`icmpecho.c:323`): from 256
  packets on its loop does not end, and packets are freed again.

Type invariants describe the state and are proved (section 4) or left to the reader;
they are not part of a run.

### Fairness

* `BenchCommands`: parent and children are scheduled, a started benchmark ends.
  Nothing is assumed of a child that failed and runs code of the caller.
* `Relocation`: the program and `ps` are scheduled; other processes owe nothing.
* `SquareEvictions`: the program is scheduled; nobody has to send a signal. `Rng` has
  its own fairness (an acceptable increment is drawn at some time), used only by
  `MCRngSix.cfg`.
* `LockProtocol`: the client is scheduled and its alarm goes off; nothing is
  assumed of network and server.
* `NetworkRtt`: the script runs, contenders with fixed work finish.
* `WaitForAlloc`: the script polls, the server allocates what it needs.
* `TestPmd`: the master thread continues when what it waits for has happened, and a
  core that polls looks at its flag again. Both are threads pinned to cores of their
  own. Nobody has to type a command.

## 4. Proofs

All for every value of the constants that satisfies the named assumptions. Each
invariance theorem has an inductive invariant of its own; the text says what it adds.

The toolbox:

* `BenchProofs`, about `BenchCommands` (`NumProgs` positive). The invariant says at each
  point of the parent which children exist and how far each has come: before the release
  all recorded children are parked with nothing pending. That is needed because parent and
  child use the same signal and a pending signal is one bit. It gives the type invariant,
  `StartTogether`, `NoSignalDeath`, `RecordedChildReported`, `NoIndeterminateWait`,
  `RoundEndsClean` and `NoSignalMerged`, and step by step the refinement of `StartBarrier`.
  About `PtrChase` (lengths positive): the history variable `path` gives each linked entry
  a position; positions are distinct, neighbours are linked, and a counting argument gives
  the free target and, at the end, that every entry has a position.
* `RelocationProofs` (`Retries` positive, the program itself alive at the start). As long
  as a pass has moved nothing and met no error, each process that was alive at its
  beginning is settled or still due; and while nothing has exited, an unsettled process
  implies an unsettled one among those (lineage). The second fact covers processes that
  `ps` never lists. `QuietDecided` and `SessionRestores`, for `Retries >= 2` (the code has
  3): on a machine that nobody else changes the first pass moves what can be moved up to the
  first foreign process, so the second one moves nothing and decides (`QuietInv`).
* `NetworkProofs`, about `LockProtocol` (`ITERATIONS + MaxRetries <= TIMING_BUFFER_LEN + 1`;
  with the constants of the code, 2000 and 5000, up to 3001 retries). The client's frames
  stay in order along the way to the server and back, so the frame that ends a trial was
  transmitted at least as late as the trials are many; and the server has counted no more
  requests than were transmitted. About `NetworkRtt` (any inputs, configurations and number
  of timeouts): `PartInv` says at each phase of a trial which groups exist and in which of
  them script, server and contenders are, and gives `PartitionInForce` and `StartsClean`;
  `FreshInv` follows the result files from the start of a run to the row and gives
  `RowsFresh`; `SeriesInv` counts the rows of each input against the position of the loop
  and gives `SeriesComplete`.
* `TableProofs`, about `SquareEvictions` (a log entry fits into the first buffer).
  `LogSafe`: the buffer holds at least one entry, so doubling it once, as the code does, is
  enough for the next one.

testpmd:

* `TestPmdProofs` (any number of ports, cores and queues). `Stoppable`: `CanStop`; every
  handler leaves the ports alone or asks `test_done` first, but for the one that removes
  slaves, whose effect `released` records. `SettingsInForce`: `ConfigInForce`. A device is
  behind the settings of its port only if the port is flagged for another configuration or
  is in `behind` (`ConfigInv`); what enters `behind` is what a handler rewrites without a
  flag. Both hold for all sessions. `PortsLive`: refinement of `PortLife` under
  `NoStatusReused`, which excludes the sessions that detach and bond (section 3); the
  invariant adds that in a session with bonding a number without a port has status stopped.
* `EngineProofs` (`EnginesAssumption`: at least one stream, positive burst size and number of
  flows, and bursts below 256 packets where icmpecho may be chosen: its index has 8 bits, and
  the proofs use that it visits each packet once, as the model has it).
  `CountersAddUp`: `BurstInv` relates the locals of each engine in the middle of a burst to
  the counters. `FlowsInOrder`: `FlowInv` relates the next flow to the packets of the burst.
  `MbufsConserved`: `MbufInv` says that the pool, the arrays of the engines, the chains under
  construction and the transmit queues are disjoint and together hold every buffer.
* `PacketProofs`. `SingleInsertion`: `OffInv` adds the type of the port record to
  `OneInsertion`. `ChecksumsOfOwnHeaders`: what the dissection finds in a packet depends on
  that packet alone, but for the outer protocol of IP in IP, which stays from an earlier one
  and does harm when it is UDP; and what is renewed is what the headers found ask for, but
  for SCTP of a length that is misjudged (`CsumInv`; section 5).
  `RepliesAccepted` (`EchoAssumption`: words of a multiple of 16 values): a one's complement
  sum is the sum modulo one less than the number of words, so adding what the handler changed
  keeps the checksum right.
* `CommandProofs`. `FlowTyped`: with the types of the device's parameters (`FcInv`),
  decoding a mode and encoding it again is the identity on the two switches. `RetaShown`:
  the index of an entry is group times `Group` plus its place, so that for a table whose
  size is a multiple of the group a command reaches the entry it names and no other.
  `FlexMasksTyped` (`FlowAssumption`): the table holds each flow type at most once, so there
  is room for the next one; a started device has the masks of the table unless the port is
  in `dropped`. `RegistersShown` (`RegAssumption`): a register is the part above
  the field, the field and the part below it, whatever the width; powers of two are counted
  as subsets, as the provers have no induction.
* `TableProofs`, about `PortTables` and `LaunchArgs`. `PoolMirrors` (`PoolAssumption`): the
  capacity of the pool is a multiple of its increment and the entries in use are the first
  ones. `MappingsInForce`: the mappings up to the count are those typed, each queue at most
  once. `LaunchedCounts` (`LaunchAssumption`, and at least one port, as `main` only warns
  when there is none): each option keeps counts within what is configured, unless
  `--nb-ports` or `--nb-cores` went past a mask (section 5), and only a mask past the largest
  number of ports configures none.

A machine of four cores checks `EngineProofs` in about 15 minutes and each other module in
two to ten. Leaves that name a prover give it a second, longer attempt,
which only a busy machine needs.

Only model-checked:

* all liveness (`CleanRunsComplete`, `Terminates`, `TraversalEnds`, `TermEnds`,
  `ClientReturns`, `ReturnsWhenSeen`, `WaitEnds`): fairness is out of the prover's reach;
* `FullCycle` of `Rng` and `PassTouchesAll`, which rests on it: the theorem on the period of
  a linear congruential generator is number theory by induction;
* in `TestPmd`, what depends on the dealing out of streams (`PollsReadyQueues`,
  `NoSharedQueue`);
* `WaitForAlloc`, whose one property is a liveness property.

Induction over data is not available to the provers. Where a proof needs it, it takes the
least counterexample of a set of naturals, or counts a finite set.

## 5. Where code and text disagree

Listed runs:

* `csum_stale`: `parse_encap_ip` sets the outer lengths but not `outer_l4_proto`
  (`csumonly.c:309`), so an IP-in-IP packet behind a VXLAN packet of the same burst is
  treated as if it had an outer UDP header; the comment at 92 speaks of "offload info for
  the current packet".
* `rtt_rejected`: a "rejected" trial is recorded, as `redo - 1` is 0
  (`network_rtt:629`).
* `alloc_late`: if the server has its pages before the first count, `waitforalloc`
  never returns unless the count is its argument (`network_rtt:362`).

Configurations kept beside them, each for TLC to find one violation:

* `MCRngWrap.cfg`: for the prime period 32771 the 32-bit product wraps and a value comes
  twice in a period (`rng.c:72`; the comment at 24 promises a full cycle, and
  `rng_test.c:50` fails on it).
* `MCRngSix.cfg`: for period 6, which `rng.h:8` allows, no increment is acceptable
  and `rng_lcfc_init` does not return.
* `MCLockAlarm.cfg`: the alarm of the previous trial is not cancelled and can go off
  between `timeout = false` and `alarm` (`lockclient.c:72`); the message at 94 then
  blames the wrong iteration.
* `MCTestPmdDcb.cfg`: `dcb_flag` is never cleared, so a port whose device was configured
  anew passes the check "In DCB mode, all forwarding ports must be configured in this
  mode." (`testpmd.c:971`).
* `MCLaunchCounts.cfg`: `--nb-ports` after `--portmask` is compared with the ports
  present, not with those of the mask (`parameters.c:632`); the comment on the globals
  says `nb_fwd_ports <= nb_cfg_ports <= nb_ports` (`testpmd.c:125`).

And by small changes to the configurations of the runs:

* `MCForward.cfg` with the invariant `SctpOffloadedAsCommented`: "sctp payload must be a
  multiple of 4 to be offloaded" (`csumonly.c:401`), but the test reads the length as it
  lies in memory, high byte first, on a little-endian host (`csumonly.c:404`): a packet of
  101 bytes is left to the device, and one of 356 bytes is not.
* `MCCommands.cfg` with the invariant `FlowModesAsCommented`: the comment above the table
  of link flow control says that Rx on stands for `RTE_FC_TX_PAUSE` and Tx on for
  `RTE_FC_RX_PAUSE` (`cmdline.c:4990`); the table has it the other way round, with each
  direction read back as it was typed. The table of priority flow control agrees with the
  comment.
* `MCRelocation.cfg` with `InitAlive = {1, 2}`, `InitKinds <- NormalKinds` and the
  invariant `SuccessRelocatedAllProcesses`: a success does not mean "all system processes"
  (`prep_system.c:43`) when a listed process forks and exits before it is moved.
* `MCSquareEvictions.cfg` with `Programs <- OnlySquare` and one of:
  `Options <- LimitBetween` and `AccessesLimited` (`-a` limits each cycle, not the subset
  that a traversal touches, `square_evictions.c:283`, usage at 499);
  `Options <- AboveCache` and `PassTouchesAll` (with `-c` above 100 the second generator's
  period is too short, 569); `Options <- OddFactors` and `NoAssertFails` (an even
  increment with odd factors makes `assert(randtv)` fail, 620).

## 6. Abstractions and what is not modelled

Abstractions:

* A contender that was signalled is gone at any later time; the script does not wait.
* A child that fails and returns into the caller's code does nothing more in the model.
* `ps` lists processes; their other threads are neither moved by the code nor modelled.
* `SquareEvictions` starts from parsed options; clocks, `-m` and output are left out.
* A command of testpmd that the code refuses changes nothing and has no step. Numbers
  typed at the prompt and their text are members of small sets; a match field of a
  filter or a key is one value.
* A network device is outside the repository. It stores a setting or refuses it, takes
  any part of a burst, and frees what it took at any later time. Where the code reads a
  setting back (flow control, redirection table, registers), the device returns what was
  stored last.
* In `CsumOnly` a checksum is where it is, whose it is and who computes it, not its
  value. A length is its two bytes, as the test of SCTP (`csumonly.c:404`) depends on their
  order; SCTP over IPv6, for which that test reads other bytes of the header, is not among
  the packets. In `IcmpEcho`, where the arithmetic matters, words have 16
  values and sums fold as in the code.
* `Engines` gives each core one stream. With several cores flowgen's static counter
  (`flowgen.c:150`) is a data race, and flows interleave in any way; `FlowsConsecutive` is
  checked for one core. `pkt_copy_split` copies into a first segment that is too small after
  reporting it (`csumonly.c:582`, `587`); what is written behind its end is outside the
  model, which follows the buffers.

Not modelled, and why:

* Of testpmd: the commands that only display (`show`, `dump`, `read rxd`, `help`; the one
  that changes state, `show config fwd`, is an action), the tables that declare the
  tokens of commands where a command is not modelled, `mempool_anon.c` (maps memory), the
  branch of `start_port` for a missing memory pool, the contents of generated headers
  (`txonly.c`, `flowgen.c`) and of copied segments (`csumonly.c`), PTP time stamps, the
  dump of `rxonly.c`. These are formatting or calls into the library. Bursts of
  256 packets and more in icmpecho (section 3) and descriptor counts cut to 16 bits
  (`parameters.c:880`) are beyond the models.
* The C drivers `catbench.c`, `dist_a.c`, `slowbro.c`, `locksmith.c`: they call
  `prep_system`, `run_benchmarks`, `wait_benchmarks` and `cleanup_system` one after the
  other, so a composition adds no interleaving to `Relocation` and `BenchCommands`. Two
  things about the order of the calls are plain to see and contradict no text: `catbench`
  cleans up without waiting and so moves the running benchmark (`catbench.c:37`); the other
  three call `prep_system(false, ...)` and `cleanup_system(true)`, which moves nothing back
  (`dist_a.c:131`, `prep_system.c:95`).
* Packet buffers of the lock client and server: who owns a buffer after a transmission is
  up to the DPDK driver. The server never gives foreign frames back
  (`lockserver-ng.c:138`), and the client sends a buffer again on a retry
  (`lockclient.c:64`).
* `perfexpl.c`, an unfinished earlier copy of the start-up protocol around a kernel buffer;
  `onmycommand.c`, a loop of `pause`, `fork` and `exec` in which a signal between two
  pauses is lost; `setpgrp.c`, `llc.c`, `perf_poll.c`, `dpdk_wrapper.c`, `movnt.s`: single
  calls without state.
* `lockserver-driver`, `driver`, `batch`, `cacheperf` and the plug-ins under `networked/`:
  foreground commands in a fixed order; the signals that `lockserver-driver` sends are
  actions of `SquareEvictions`. `batch` reads the arguments of a job some seconds before it
  marks the line (`batch:126`), so an editor in between is not noticed.
* `jaguar`, `jagoff`, all graphs, tables and wrappers: formatting of files, or calls of
  other programs.

About three fifths of the lines of the implementation are covered by a definition.
