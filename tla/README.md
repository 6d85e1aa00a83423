# A verification project for the vir_usimm memory-system simulator

The repository holds a fork of USIMM, a cycle-level simulator of a DRAM memory
system: cores replay traces, their accesses go through a TLB, a last-level
cache and a memory controller with a pluggable scheduler. This directory models
that program in TLA+, checks the models with TLC and proves theorems about most
of them with TLAPS. File names below are those of `src/src/`.

Contents: [system](#the-system), [modules](#modules-and-code),
[runs](#runs), [disagreements](#where-code-and-comments-disagree),
[time and fairness](#time-views-symmetry-and-fairness), [proofs](#proofs),
[limits](#what-is-not-modelled), [plan](#plan).

## The system

The simulator is one thread. `main` (main.c) repeats, once per processor cycle:
retire from the head of each core's reorder buffer (ROB); on every
`PROCESSOR_CLK_MULTIPLIER`-th cycle `update_memory` and then `schedule` for each
channel; fetch from the traces into the ROBs. All components share global
state and call each other directly, so what is hard is not threads but *order*:
which calls a scheduler makes between two updates, in which cycle a request is
inserted, served and removed, and which stale copy is used in between.

| Component | State | Operations | Talks to | Hard behaviour | Correct when |
|---|---|---|---|---|---|
| DRAM controller (memory_controller.c/.h, params.h) | per bank: state, open row, seven timers; per rank: refresh window, deadlines, forced-refresh mode; per channel: two queues, "command spent" flag | `update_memory`, `is_*_allowed`, `issue_*`, `insert_*`, `clean_queues` | scheduler calls it, it sets the ROB's completion times | power-down and refresh look at one bank for a whole rank; forced refreshes test nothing; flags computed once a cycle | bookkeeping of banks is consistent, refresh quotas are met, the command stream is legal for the devices |
| Schedulers (scheduler.c, scheduler-closed.c) | `drain_writes`, `recent_colacc` | `schedule` | use the controller's interface | first *ready* first served, watermark draining | every call accepted, no starvation, row hits in order |
| Address mapping, queue lookup (memory_controller.c) | queues of all channels | `calc_dram_addr`, lookups before inserts | main.c, os.c | mapping depends on a random draw with dedicated channels; addresses may be wider than the memory | one place per line of the memory, no duplicated reads |
| Address randomizer (main.c) | `rand_table` | `addr_rand_init`, `addr_randomize` | (not called by the loop) | in-place shuffle | addresses stay apart |
| Paging (os.c) | page table, inverted page table, clock hand, last translation per thread | `os_vpn_to_pfn`, `os_get_victim_from_ipt` | hash table; TLB | an entry is created before its victim is chosen; the search loops until it finds a frame | the two tables are inverse, the search ends |
| TLB (os.c) | rows with LRU positions, `last_vpn` | `os_v2p_lineaddr_tlb` | paging, cache, queues | copies of translations, uninitialized victim index | an LRU stack that agrees with the page table |
| Hash table, allocator (hash_lib.c, malloc_lib.c) | chains, free list, count | create, access, delete, clear | paging | relinking while blocks are recycled | a dictionary; no block lost or shared |
| Last-level cache (cache.c) | lines with LRU positions | `CacheIsWriteback`, `LookupAndFillCache` | main.c, os.c | the victim is asked for, then replaced, in two calls; uninitialized positions | no duplicate line, no store lost |
| Main loop, ROBs (main.c, processor.h) | ROB rings, trace position, `writeqfull` | retire, memory step, fetch | everything | a slot is completed by number cycles later; a translated access starts in the slot of its translation | every waiting slot has one read; the run ends |
| Statistics and power (memory_controller.c) | counters of accesses, activations, time per power state | updates in `issue_*`, `gather_stats`, `calculate_power` | reads the banks | two ways to activate; the mode of a rank is read off bank 0; bus time counted per rank by different counters | the counters tell what the banks did |
| Configuration (configfile.h, main.c) | the parameters, the word and the number read last | `tokenize`, `read_config_file`; prefixes of trace names | everything takes its sizes from it | prefix matching in a chain of tests; failing `fscanf`; timings scaled while read | each parameter has the value written last; reading ends |
| List macros, old main, scripts | | | | | not modelled, see below |

PROJECT.json lists the components with their files, and the hazards at their
lines.

## Modules and code

* **MemoryController** – one channel of memory_controller.c. `CYCLE_VAL`,
  `state`, `active_row`, `next` (the `next_*` timers of `bank_t`), the
  refresh variables and the flags keep their names. `requests` is both queues;
  a request has the fields the controller reads and writes. One action per
  interface function (`PowerDownFast`, `PowerUp`, `Refresh`, `Autoprecharge`,
  `Precharge`, `AllBankPrecharge`, `Activate`, `Insert`,
  `IssueRequestCommand`), guarded by the translated `is_*_allowed`;
  `UpdateMemory` is the whole of `update_memory`: refresh window, forced
  refresh, the flags of both queues, `clean_queues`, the reset of the
  per-cycle records. `Answer` is the reply to a translation that needs no DRAM
  access, which scheduler.c writes into the request itself. Between two updates any scheduler may act: that is the
  contract a scheduler of the framework is written against.
  `is_T_FAW_met` always returns 1 in this fork and is left out; so are the
  `cmd_*_issuable` arrays, which nothing reads.
* **DramDevice** – the abstract specification: what the devices require of a
  command stream, stated on past commands, not on timers. **ControllerTiming**
  adds to MemoryController a history read off its own steps and states that it
  implements DramDevice. In two places the device follows the code, which the
  disagreements below record: a wake-up takes `T_XP` from either power-down,
  and a refresh may close rows without `T_RP`. So `IssuesLegalCommands` does not
  find these two; `SlowExitTakesDll` and `ShortRefreshOnlyWhenPrecharged` do.
* **ControllerClaims** – four statements of comments about the controller that
  the code does not meet.
* **RefreshWindow** – the refresh bookkeeping of one rank once more, with
  `refresh_issue_deadline` an `int` of `2 * HALF_RANGE` values.
* **ControllerStatistics** – what the commands and `gather_stats` add to the
  counters, over MemoryController; the state of the controller never depends on
  them. `sum_of_gaps` is the running average times its weight, so that no
  division is needed.
* **Scheduler** – scheduler.c over MemoryController: `Schedule` is the whole of
  `schedule`, `Tick` is `update_memory` with the queue order, `Arrive` an
  insert by the cores. `dedicated` says whether the channel is a dedicated one
  (chosen at the start), `no_dram` which requests carry `CPU_request_no_dram`;
  `Serve` answers those and issues the others. `call` is what became of the
  call: `issue_request_command` prints a message and returns 0 (`REFUSED`), has
  a NOP and does nothing (`NOTHING`), meets an assertion that does not hold and
  ends the program (`ABORTED`, after which nothing happens), or issues the
  command; `CallPrecharge` gives `issue_precharge_command` its refusal. **ClosedPageScheduler** –
  scheduler-closed.c, the alternative build, which issues both kinds.
  **MCSchedulers** checks both builds in one state space.
* **PageTable** – `os_vpn_to_pfn`; a page is a thread and a number, `Key` packs
  them in `KEY_BITS` bits as the code does in 32. `NoEntry` is what the hash
  table has for a key it does not hold, `NoFrame` what the new entry has while a
  victim is searched for. The clock search is one step per turn of the
  loop, so that its end is something to check. **FrameMap** is its abstract
  specification. **Tlb** – `os_v2p_lineaddr_tlb` over PageTable, for all
  threads.
* **HashTable** – hash_lib.c over the free list of malloc_lib.c; **Dictionary**
  is its abstract specification. `Links` follows the links of a bucket; it stops
  after more links than there are blocks, which only a cycle can have.
  PageTable uses a function where the code uses
  this table, which `ImplementsDictionary` justifies.
* **LastLevelCache** – one set; `CoreAccess` is the sequence of calls main.c
  makes (ask for the victim, look up and fill, queue the victim), `PageWalk`
  that of os.c, which skips the first and the last. A store that misses is put in
  the write queue, or left out of it, as main.c:457 may do. `unsaved` and `used` are
  history.
* **MainLoop** – the loop of main.c with its ROBs. `Fellow` is the access that
  waits in the slot of its translation (main.c:411-470). TLB, cache and
  scheduler decide freely here; what the loop needs of them is `MemoryServes`.
* **AddressMapping** (`calc_dram_addr`), **ChannelQueues** (lookup and insert),
  **AddressRandomizer** (`addr_rand_init`, `addr_randomize`) and **AddressPath**,
  which puts them in the order of `main`. Addresses have `PHYSICAL_BITS`, which
  the frames of the page table decide (main.c:347), and not `ADDRESS_BITS`, which
  the memory has; `calc_dram_addr` drops what is above.
* **ConfigFile** – `tokenize` and `read_config_file`, called for the
  configuration and then for the chip file as main does, each of which holds any
  sequence of lines. `Keywords` is the chain of tests in its order; a word is cut
  into fragments where keywords part, so that "is the beginning of" is
  `IsPrefix`; a comment need only begin with its two slashes, as the lines of
  input/hmc.cfg do. `Current` and `AfterWord` say what the `fgetc` and the
  `fscanf` of a turn do, at the end of the file too. `WellFormed` says what the
  files of input/ look like; nothing is claimed of others but that reading them
  ends. **MCConfigFile** names the lines.
* **TracePrefixes** – how main gives the threads of a program a common prefix.
* **MC...** modules add a VIEW and symmetry for TLC. The **...Proofs** modules
  hold the theorems.

Definitions that begin with `\* Fault:` are mutated forms of the definition
after or before them; nothing refers to them. They are the bugs each property
was tried against.

## Runs

| Run | Question | Instance |
|---|---|---|
| controller | Do all orders of calls keep the bookkeeping consistent, the quotas met, the commands legal and the counters true? | 1 rank, 2 banks, 2 rows, 1 request, two refreshes per window of 14 cycles |
| device_ranks | Is the stream legal when ranks share the bus, and do both account for it alike? | 2 ranks, 1 bank |
| schedulers | Is every call of FCFS and of the closed-page scheduler accepted, do they starve nobody, keep row hits in order, on plain and dedicated channels? | 1 rank, 1 bank, 2 rows, 3 requests, watermarks 1/0; so that other ranks on the bus delay a read only is not shown |
| translation | Are page tables, clock and TLB consistent over evictions and threads? | 2 threads, 2 pages each, 3 frames, TLB of 3 rows, keys of 2 bits |
| cache | Is data lost or duplicated, from every uninitialized content? | 3 ways, 4 lines |
| main_loop | Do ROB slots and queued reads match, does the simulation end, is nothing left then? | 2 cores, ROB of 2, traces of 0 to 3 lines and 4 together, queue of 2 |
| hash_table | Is it a dictionary that recycles blocks safely? | 2 buckets, 4 keys (3 collide), 4 blocks |
| addresses | Do mapping and randomizer keep addresses apart? | 3 channels (one unused, since widths round down), 64 addresses on a memory of 32, tables of 4, 2 requests |
| configuration | Does every parameter get the value written for it, and does reading end whatever the files hold? | files of 1 or 2 lines out of 8 and 6, two starting values of the number read |
| claim_refresh_overflow, claim_fellow_write, claim_duplicate_read | Three comments the code contradicts | see below |

Why the bounds are enough. *Controller*: every rule relates a command to the
same bank, another bank of its rank, another rank, or the refresh window. Two
banks or two ranks show each kind. (Two ranks of two banks are out of reach.)
The timing values keep the inequalities of the DDR3 parameters and are small
and mostly different, so a swapped parameter is seen; a window of two
refreshes shows both an early refresh and a partly issued quota. One request
node is enough there, as the controller treats requests independently and
every interface call can interfere with one; it is free again two cycles after
its column access, so the distances between column accesses (`T_CCD`,
`T_DATA_TRANS` with `T_RTRS`) are longer than two cycles. The scheduler runs have three, so
that an old request, a row conflict and a younger row hit coexist with the
watermark; a new request takes the same free node always, as nodes have no
order. *Translation*: more pages than frames, so frames are taken and the
clock makes a second round; a TLB as large as the memory keeps entries of taken
frames; the keys are just wide enough for two threads, as the code's are for 16.
*Cache*: three ways are the fewest for which a position is neither
first nor last; the positions start in `0 .. assoc`, and larger ones behave
like `assoc`. *Main loop*: a trace longer than the ROB reuses slots, while the other core
has a line too; two lines each let both cores wait with full ROBs. One
address makes every lookup hit, which is what merges reads; claim_fellow_write
has two. *Hash table*: a chain of three has a first, middle and last entry. *Configuration*: two lines per file let a second
setting of a keyword, a setting after a comment, a line without a number before
another one, and a timing before or after the multiplier all happen; the lines
name two keywords of which one begins the other, a beginning of two keywords and
a word that is none. The lines of a file are chosen when it is opened, so that
each pair of files is one behaviour. Words have more than one character (the
loop glues the first character it reads to the next word) and numbers are
whole.

Every bound is a CONSTANT: `Nodes` (queue entries), `MAX_PENDING`,
`MAX_BLOCKS`, `TRACE_LENGTH`, `ALL_LINES` (of all traces), `MAX_LINES` (of a file), `Numbers` (what an
uninitialized number may hold), `LAST_CYCLE` (RefreshWindow).

What the properties say, with the mutated code they were seen to catch, is in
the comments and in PROJECT.json. The ones that would surprise a tester most:

* `RefreshQuotaMet`, `ForcedRefreshHoldsRank`, `ForcedRefreshFindsRankQuiet` –
  a deadline that is compared for *equality* and moves, refreshes that test
  nothing, and the look-ahead of every other command that makes both right.
* `FlagsAreCurrent` – why a scheduler may trust flags computed before other
  commands of the cycle: the channel has one command per cycle.
* `CallsAreAccepted` – no scheduler checks what `issue_request_command` returns,
  or the bank's state, before it calls; the flag is all it has. A flag
  that lagged behind its bank would be accepted and meet an assertion.
* `ReadsAreServed` assumes that drains end *for good*. A first version assumed
  only that every drain ends; TLC refuted it: short bursts of writes to another
  row can leave the read no more time than the row conflict takes.
* `ForcedRefreshFindsRankQuiet` is checked for one rank only: with two, the
  power-up check reads the deadline of rank 0 (see below) and it fails.
* `TimesAreTrue` – `gather_stats` looks at bank 0 and prints what is left of the
  total as precharge standby; both are right because the banks of a rank sleep
  together and a sleeping rank is never counted twice. Which of the two fast
  power-downs is charged does follow bank 0 alone (see below).
* `SettingsAreAsWritten` – at the end of a file the last word is handled twice,
  with a stale number; only because both calls fail together is it harmless.
* `CoreAccessLosesNoStore` – the line asked for before the fill is the line the
  fill replaces, even from uninitialized LRU positions. A page walk may lose a
  store, since os.c does not ask; no property forbids it.
* `ReadsAreAwaited`, `FellowFollowsTranslation` – slot numbers kept in queued
  reads never point to a reused slot.

## Where code and comments disagree

Met while modelling. The first three have a run in PROJECT.json; the others can be
reproduced with `tlc -config <cfg> <module>`, which ends with a counterexample.

| Code | Comment | Property, configuration |
|---|---|---|
| memory_controller.c:1582 compares a deadline kept in an `int` (memory_controller.h:116) with the 64-bit cycle; past 2^31 it has wrapped around, and no forced refresh is issued any more | "refresh_issue_deadline has been reached. Do the auto-refreshes" (1584-1585) | `DeadlineIsReached`, run claim_refresh_overflow |
| main.c:457 looks for a write to merge with by the address of the trace line read *last* and so may drop the write | "Function to merge writes to the same address" (memory_controller.c:373) | `WriteOrItsTwinIsQueued`, run claim_fellow_write |
| memory_controller.c:255 draws a dedicated channel anew per call, so a read may be queued twice | "avoids duplication" (335-337) | `ReadsAreNotDuplicated`, run claim_duplicate_read |
| memory_controller.c:1386 refreshes a rank in fast power-down without `T_RP` if *bank 0* is precharged, though another bank has a row open | "everything precharged" (1427) | `ShortRefreshOnlyWhenPrecharged`, MCClaimRefresh.cfg, ControllerClaims |
| memory_controller.c:1030 compares with the deadline of rank 0 | "check if issuing it will cause us to miss the refresh deadline" (1027) | `PowerUpMeetsRefreshDeadline`, MCClaimPowerUp.cfg, ControllerClaims |
| memory_controller.c:1189 overwrites the state it tests next, so a slow exit takes `T_XP` | "Power UP time slow" (params.h:103) | `SlowExitTakesDll`, MCClaimSlowExit.cfg, ControllerClaims |
| memory_controller.c:1472 classifies a rank by bank 0 | "...all Banks were Precharged" (1833) | `FastPowerDownMeansPrecharged`, MCClaimFastPowerDown.cfg, ControllerClaims |
| scheduler-closed.c:153 keeps a candidate whose row a forced refresh closed | "find a bank that recently serviced a column-rd/wr and close it" (9-10) | `PrechargeClosesARow`, MCClaimClosedPage.cfg, MCSchedulers |
| scheduler-closed.c:143 issues the commands of reads that need no DRAM access, which scheduler.c answers | issue_request_command complains of them (memory_controller.c:795-797) | `NoDramReadsAreAnswered`, MCClaimNoDram.cfg, MCSchedulers |
| os.c:56 puts the thread in bits 28 and up of a 32-bit key, so thread 16 shares the pages of thread 0 | "embed tid information in high bits" (56) | `ImplementsFrameMap`, MCClaimThreads.cfg, Tlb |
| main.c:249 looks at the argument before the trace file | "equals that of the last seen input trace file that starts with "MT0"" (241-242) | `ThreadsShareAPrefix`, MCClaimPrefix.cfg, TracePrefixes |
| os.c:221 keeps one `last_vpn` for all threads | "Do not send translate request if it is on the same page" (219) | `NothingSentOnlyOnSamePage`, MCClaimTlb.cfg, Tlb |
| cache.c:28 leaves the LRU positions uninitialized | "return lru way" (116) | `VictimIsLru`, MCClaimCache.cfg, LastLevelCache |
| main.c:646 tests the write queue for *equality* with its capacity, and an access may add two | "Keep fetching until ... WriteQ are fully consumed" (539) | `FetchStopsAtCapacity`, MCClaimCapacity.cfg, MainLoop |
| memory_controller.c:367 completes a merged read after one cycle | "serviced when the original request completes" (337-338) | `MergedReadWaits`, MCClaimMergedRead.cfg, MainLoop |
| memory_controller.c:210 drops the address bits above the row; with 2097152 frames of 4096 bytes (main.c:347, os.c:236-238) addresses have 33 bits, and input/1channel.cfg has an `ADDRESS_BITS` of 32, so frames f and f + 2^20 share every place | "This must match the addresses in the traces." (input/1channel.cfg:17) | `LinesHavePlacesOfTheirOwn`, MCClaimAddressBits.cfg, ChannelQueues |

Dedicated channels have a positive side: translations
keep to theirs (`TranslationsHaveTheirChannels`, proved in AddressPathProofs).

## Time, views, symmetry and fairness

Time is counted in DRAM cycles: the code multiplies every `T_*` by
`PROCESSOR_CLK_MULTIPLIER` as it reads it and updates the memory on multiples
of it only. `CYCLE_VAL` and the timers grow without bound, in the models too.
TLC runs with a VIEW that shows each time as its distance from `CYCLE_VAL`, 0
if it has passed (for the device history: the distance to the end of the
longest rule it takes part in). The code only ever compares times with
`CYCLE_VAL` plus constants, or takes the later of two, so states with the same
view have steps to states with the same view, and every property used depends
on the view only; hence no behaviour is lost, for liveness either.
`refresh_issue_deadline` is compared with `=`, and is shown one cycle longer.
Symmetry is used in safety runs only, over `Rows` and `Nodes`.

Fairness. The program is one loop that never blocks, so weak fairness is
assumed of its next step: `Tick`, `Schedule`, `MainLoopNext`, a turn of the
clock (`ClockTurn`, `Searching`), `Next` of ConfigFile. The cores need not send requests. In MainLoop
one in `PROCESSOR_CLK_MULTIPLIER` cycles is a DRAM cycle, which the model
abstracts to "again and again": strong fairness of `MemoryStep(DramCycle)`,
since it is enabled once per cycle and not in between. `MemoryServes` is what
MainLoop assumes of the memory: a known completion time passes, and reads and
writes are served as Scheduler's `ReadsAreServed` and `WritesAreServed` show.

## Proofs

Every theorem is for all values of the constants, from the ASSUMEs of its
module. Check one with `tlapm <Module>.tla`.

*MemoryControllerProofs*, from `SizeAssumption`, `TimingAssumption` (naturals)
and `RefreshAssumption` (the forced refreshes fit in their window):

* `Typing` – `Spec => []TypeOK`, one lemma per operator that changes state.
* `PowerStates`, `OpenRows`, `ForcedRefreshExclusive`, `FlagsCurrent`,
  `OneActivationPerCycle` – none is inductive alone: a power-up opens a bank's
  row by its state, which needs the rank-wide power state; a refresh needs the
  open rows; a request is issued on a flag, which must be current, and it is
  current because the bank was not disturbed. `StructureInv` is their
  conjunction with `CasIsThisCycles` (which an automatic precharge needs); one
  `...Keeps` lemma per action shows that it is preserved. `Answer` changes the
  request only.
* `RefreshQuota` – from the inductive `DeadlineAhead`: outside forced-refresh
  mode, either the quota is issued or the issue deadline is the one computed
  from the number of refreshes and lies at or ahead of `CYCLE_VAL`, so the
  equality test meets it. A refresh moves it by `T_RFC` and is allowed only
  early enough. (Times are unbounded there; RefreshWindow shows what the width
  of the variable does to it.)
* `ForcedRefreshQuiet` – for one rank (with more, the power-up check reads the
  deadline of another, and TLC refutes it), from `WindowAssumption`: a slow exit
  takes no less than a fast one, and a window is longer than its refreshes and
  the longest operation together. Every chip of input/*.vi meets it. The invariant `AllQuiet`
  says per bank that its precharge timer, while a row is open, and its power-up
  timer, while asleep, end by the issue deadline *and* within `Longest` of now:
  the first is what each command looks ahead for, the second is needed when a
  window ends and the deadline is a new one. An activation does not set the
  precharge timer but moves it back, so the timer of a closed bank must have
  passed; an open row's must pass before a refresh may be issued.
  `DeadlineNotLate` says that inside a window the deadline only moves away.

*ObserverProofs*: `CommandsAreLegal`, the refinement of DramDevice, from
`LongAgoAssumption` (the history begins before every distance) and
`DistanceAssumption` (how the distances of one chip relate; the files of input/
meet it). The device measures from the commands that were issued, the code from
timers it moves on; the invariant `DeviceInv` relates the two:

* `AllCovered` – each timer of a bank is at or behind the end of every distance
  it stands for: `next["act"]` behind the last activation of the bank plus
  `T_RC`, of another bank plus `T_RRD`, the last precharge plus `T_RP`, and so
  on. So a command that waits for its timer respects all rules. The reason each
  is needed is the step that would lose it: an activation *moves back* other
  banks' timers to the later of two times, so one that were not covered before
  would not be after.
* `AllEnd` – every operation still running ends by the refresh issue deadline,
  since each command looks ahead for it. Forced refreshes test no timer; by
  `AllEnd` there is nothing left for one to violate when the deadline is met.
* `RanksBusy` – an issued refresh ends by the completion deadline of its window;
  only the last one due may take longer, and then no more than `Longest` longer.
  Forced-refresh mode is on only when the issue deadline has come.

One lemma per command shows that it keeps the three parts and that the device
accepts it (`DeviceStep`); `ControlInv` brings in what MemoryControllerProofs
showed: flags are current, deadlines ahead. `TimingIsController` makes those
theorems available here.

and about the statistics, which observe the controller as the device does:
StatsSpec implements the controller's Spec, so its invariants may be used.

* `BusShares` – every column access adds `T_DATA_TRANS` to each rank's share.
* `Gaps` – `sum_of_gaps` telescopes to `last_activate`.
* `TimesTruly` – a step charges a rank by bank 0; `PowerStateIsRankWide` makes
  that the state of all banks, `OpenRowMatchesState` turns states into rows.

*SchedulerProofs*: each step of either scheduler is a step of the controller or
none (`SchedulerDrivesController`, `ClosedPageDrivesController`, lemmas that hold
by how the modules are built), so all theorems above hold under it;
`SchedulerMeetsRefreshQuota` is the instance for the quota.
`CallsAlwaysAccepted` – what does not hold by construction: `CallAccepted` says
that the call for a ready request is not refused, is not for a NOP and meets no
assertion, because the channel's command is free until `schedule` has been called
(`QueuesInv`), the flag is current (`FlagsAreCurrent`, of the controller's
invariant) and a current flag means the bank state the assertion asks for. The
other theorems use it: a request that is picked is served (`ReadyIsServed`).
`CandidatesAreOpen` uses the controller's invariant: a column access is issued on
a flag that is current, so it finds the row open, and since a rank sleeps as a
whole, no power-up touches a rank with a candidate. `OrderIsListed` and
`RowHitsStayInOrder`, for both builds, rest on `QueuesInv`: the order lists what
waits (`Listed`), requests for the same row have the same flags
(`FlagsAreComplete`) and the flags are those of the last update until a command
was issued. Serving the first request that can be served then serves the oldest
of a row. The order is kept by positions (`Kept`) rather than by `SelectSeq`,
whose recursive definition the provers cannot unfold; that it drops the served
requests and nothing else is a lemma about them.

*CacheProofs*, first about the page table:

* `Inverse` – the search for a victim runs between the creation of an entry and
  its installation, so the property says in addition that the only entry without
  a frame is the one of the page searched for. That is why the clock never
  deletes it: it deletes the entry of a valid frame, and this one has none.
* `PagingIsFrameMap` – every step is one of FrameMap or changes no mapping, under
  the hypothesis `KeysAreApart` (no two pages have the same key, which fails from
  the 17th thread on).

and about the TLB:

* `LruStack`, `LeastRecent` – the three ways positions move (`TouchedStack`,
  `GrownStack`, `TurnedStack`) keep a permutation one and keep the order of
  entries that are not used. No page gets a second entry, because the page of a
  search has none when the search begins and no hit happens until it ends.
* `CopiesCurrent` – until a frame is taken away from its page, a frame given out
  was free, so no other entry of the page table changes. After that the copies
  do go stale, as the code never invalidates one; and page 0 of thread 0 has an
  answer without an entry. The property leaves out both.

*HashTableProofs*, for every number of buckets, blocks and keys:
`BlocksHaveOneOwner`, `KeysAreInPlace` and `TableIsADictionary`, the refinement
of Dictionary.

* A chain is computed by following links, a recursive function. That it
  exists and what it computes needs an induction over the number of links, made
  here by the least counterexample (`Induction`, from the well-foundedness of
  `<` on the naturals): a set that holds 0, and n+1 with n, holds every number.
  `LinksOfWalk` then says once and for all that whatever sequence the links walk
  (`Walk`: from its first block each leads to the next, the last to NULL) *is*
  the chain, and no other lemma looks into the recursion. `FlattenSets` does the
  same for `FlattenSeq`, which `Clear` frees the chains with.
* The inductive invariant `HashInv` names the chains instead of computing them:
  there is a c with a sequence of blocks per bucket such that the links walk
  c[i] (`Chained`), every block taken is in one place (`Owned`) and the keys are
  in theirs (`Keyed`). The three need each other: relinking the last block of one
  chain leaves the others as they are because no block is on two; the deleted
  key's predecessor is unique because a chain has no repetition; and the walk is
  short enough to be followed to its end because it repeats no block and there
  are `MAX_BLOCKS` (`ChainIsShort`).
* `CreateKeeps`, `DeleteKeeps` and `ClearKeeps` say in terms of c what the
  operations do: append to a chain (`Grown`), leave out a position (`Shrunk`),
  empty all. The refinement only needs which blocks are in c and that their keys
  have not changed, so that the data of a key are its one block (`Holds`).

*CacheProofs*, about the last-level cache: `NoDuplicates`, `StoresAreKept` and
`PermutationStays`.
What a fill does to the lines is proved once for a miss (`FillMiss`) and once for
a hit (`FillHit`). A duplicate needs a fill after a lookup that missed a way;
a store is lost only if the line replaced is not the line asked for, and both
are `Victim` of the same state. `FrontIsPermutation` shows that position n of
the new stack comes from n-1 up to the old place of the way, from n behind it.

*MainLoopProofs*: `BufferIsRing`, `SlotsAwaitReads` and `FellowFollows`, from
the inductive `LoopInv`: types, `Ring` (a slot in the window holds an
instruction, any other holds nothing) and `ReadsAreAwaited`. They need each
other: a fetch may reuse the tail because that slot is outside of the window
and so awaits no read; a read may complete its slot by number because the slot
is in the window. `WindowGrows` and `WindowShrinks` are the modular arithmetic.

`EndLeavesNothing` – the loop ends when every trace, every reorder buffer and
the write queue are empty, and does not ask for reads. `EndInv` says that those
tests held when the phase became `end`; then no slot is in a window, so by
`ReadsAreAwaited` no read is queued. The length of the write queue is the
cardinality of a set of numbered writes, finite by `LineAssumption`
(`NoWritesWait`).

*AddressPathProofs*, for every size of the memory, both mappings, any number of
cores and requests and tables of any length, from `SizeAssumption` (sizes are
positive, a cache line is a power of two: 64 in every configuration),
`MappingAssumption` (what main.c:295 asserts; the width of the addresses is any) and `RandomizerAssumption` (the
table's length is a power of two, 1024, and there are that many address bits
above those kept: every configuration has 15 bits of rows alone).

* The provers know neither exponentiation nor recursion. Shifts are therefore by
  `Weight`, a recursive function; `Recursion` shows that a function defined by
  recursion on smaller numbers exists (`Least` and `Induction` are what it rests
  on), so `WeightSolved`, `LogSolved` and `RestSolved` may use the equations in
  the model, and `WeightSum` and `LogFacts` follow by induction.
* `PlacesHoldLines` – the fields of a place hold the low `ADDRESS_BITS` of an
  address, because the widths add up to them, and what is left above the row is
  dropped. From there a place gives back the line of the memory, field by field
  (`FieldBack`), so that a place holds one line (`SamePlace`); the line of the
  memory is the remainder by its size (`LineInMemory`). A part is below its size
  although widths are rounded down, because `Weight[log_base2[n]] <= n`
  (`PartsExist`). It has the hypothesis `~DEDICATED_CH`, since a draw gives one
  line two channels.
* `TranslationsAreAlone` – by `QueueInv`, every request is in a channel
  `Channels` may answer for it, and with dedicated channels a translation's and a
  core's never meet.
* `RandomizerKeepsAddressesApart` – a swap loses no entry (`SwappedKeeps`), so
  every table holds all (`TablesInv`), during the shuffle too. An address is a
  number in the mixed radix of the low bits, the table and the rest;
  `ReplacedFacts` says that replacing the middle digit stays in the memory and is
  undone by putting the old digit back, and `LowPart` that the low bits decide
  channel and column.

*ConfigFileProofs*, for files of any number of lines with any words, numbers and
comments on them, from `FilesAssumption` (lines are sequences of words and
numbers):

* `SettingsReadAsWritten` – the invariant `Reader` says that lines 1 to n of the
  file have been read but for a comment (`Place`), that the settings hold what
  those lines say (`Done`), and that the word read last, taken for one more,
  would change no setting (`Recent`). The last part is what the end of a file
  needs: if a line ends after the last item, the loop turns once more, both
  calls of `fscanf` fail, and a setting is stored again from the number before;
  as a timing is multiplied by the same factor, it keeps its value. The factor
  is why `WellFormed` wants no multiplier after a timing.
* `WrittenRemains` – what is left of a file after n lines, as a function of n; a
  turn skips to the first line that is not blank (`NextPlace`), takes its words
  off (`LineItem`), and a comment the rest of it (`LineEnd`).
* `KeywordsApart` – a keyword that begins another is asked for before it, so
  that the first keyword a word matches is the one written (`TokenIsKeyword`).
  `T_RC`, `T_RCD`, `T_XP` and `T_XP_DLL` are in that order in `tokenize`; with
  it reversed this lemma would be false.
* `ReadingShortens` – every turn of the loop takes something from the file,
  well-formed or not: the part of `ReaderEnds` that can be proved.

Every safety property of the runs that pass is proved, some under the hypotheses
named above. Only model-checked: liveness (`ReadsAreServed`, `WritesAreServed`, `SearchEnds`, `SimulationEnds`,
`ReaderEnds`), which rests on fairness and ENABLED and is out of this prover's
reach.

## What is not modelled

* utlist.h: third-party list macros, modelled by what they do to a queue.
  main_bk.c: an old main.c the Makefile does not build. Run scripts,
  spreadsheets and input data.
* Of the configuration: exits for missing files, the assertion on the address
  bits, `print_params`, floating-point numbers (a float is a number here), words
  of one character.
* A word on what well-formed excludes: `SettingsAreAsWritten` says nothing of files
  that lack the clock multiplier or set it after a timing (configfile.h:265).
* Of the statistics: average latencies, the formulas of `calculate_power` after
  the shares above, the formatting of numbers. They feed nothing back.
* Abstracted data: several channels are one in MainLoop, the sets of the cache
  are one, integers have no width except in RefreshWindow and in the keys of
  PageTable.
* MainLoop leaves the outcome of TLB and cache open instead of composing it with
  Tlb and LastLevelCache: the product of the state spaces is out of TLC's reach,
  and the loop relies on neither.

## Plan

Done, in this order: controller, device and timing, schedulers, paging and
TLB, hash table, cache, main loop, addresses; the controller's structure and
refresh quota proved; then answers without DRAM access and both builds of the
scheduler, statistics, key and deadline widths, configuration and prefixes;
proofs about statistics, paging, TLB, cache and main loop.

Then the refinement of the DRAM device, the order of the queues, the end of the
simulation, the hash table and the addresses were proved.

Last, that the settings read are those written. Nothing is left of the plan but
what the provers cannot reach: liveness.
