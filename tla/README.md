# TLA+ models of the IRMOS reservation modules

This directory holds TLA+ models of the AQuoSA/IRMOS reservation code in `src/`: the QoS
supervisor (QSUP), which decides how much of the processor each reservation may have; the
reservation layer (QRES) that turns what it approves into scheduler groups; the groups
themselves; the devices and the module they live in; and the user library with its programs.
It says what TLC checks about them and what TLAPS proves. Paths below are relative to the
repository (`src/src/qsup.c` is abbreviated to `qsup.c`, and so on).

## 1. The system

A process asks, through `/dev/qosres`, for a *server*: a budget of `Q` microseconds every
period `P`, of which `Q_min` is guaranteed. Tasks are attached to servers; each server is a
task group of the kernel's real-time scheduler, whose runtime is set to the budget the
supervisor approves. An administrator configures rules through `/dev/qossup`.

    programs -> qres_lib --ioctl--> qres_mod -> qres_gw_ks -> qres --> qsup (admission, compression)
    admin                --ioctl--> qsup_mod -> qsup_gw_ks ----------> qsup (rules)
                                                  qres --> sched_* (task groups, kernel patch)

| component | state | operations | what makes it correct |
|---|---|---|---|
| Arithmetic: `qos_types.h`, `qos_ul_i386.h`, `qos_ul_other.h` | none | `r2bw`, `r2bw_ceil`, `bw2Q`, `coeff_compute`, `coeff_apply` | rounding goes the right way, loses at most one unit, fits the word, never divides by zero |
| Supervisor: `qsup.c`, `qsup.h` | rules, list of servers, users, levels, running totals, spare | add rules, reserve spare, init/create server, set required bandwidth, get approved bandwidth, cleanup/destroy server | guarantees fit; totals do not drift; compression respects maxima and keeps guarantees; levels have priority |
| Supervisor gateway: `qsup_gw_ks.c` | none | dispatch of the ioctl, two questions | each operation does what it is named for |
| Server class: `qres.c` | list of servers with their parameters, group, owner | create, destroy, attach, detach, set/get parameters, update bandwidths | every listed server is admitted; its budget is what was approved; failures leave no trace |
| Server gateway: `qres_gw_ks.c` | none (its lock is commented out) | dispatch, lookup of server and task | operations are atomic as `qres.c:7` requires |
| Task groups: `linux-irmos-2.6.35.patch` | per group: the list of its tasks; per task: its group | create, attach, exit, destroy | list and pointer agree; no task runs in a destroyed group |
| Devices, lifecycle: `qres_mod.c`, `qsup_mod.c`, `qos_kernel_dep.c` | registrations, references, the message | insert, open, read, write, ioctl, release, remove | nothing is left behind, nothing is used after removal |
| Memory tracker: `qos_memory.c` | table of chunks | allocate, free, check | the table agrees with the kernel; nothing else is freed |
| User library: `qreslib/qres_lib.c` | file descriptor, cached parameters | wrappers of the ioctls | a call for one server uses that server's parameters; one descriptor is open |
| Queue: `qreslib/queue.h` | ring buffer | insert, extract, iterate | first in, first out; the iterator sees every element |
| Programs: `qreslib/*.c`, `test-qsup-*.c` | their own variables | sequences of calls | they end, and fail only when refused |

Hard to test: the running totals of `qsup.c` are changed by differences through any sequence of
calls; unsigned subtractions wrap and divisions fault when rules and requests combine badly;
two truncated coefficients are multiplied; the gateways run without the lock the code was
written for, so handlers interleave wherever they sleep; a task may exit on another processor
in the middle of an ioctl that walks the list it is on; several failure paths return late, not
at all, or with the result of an earlier success; threads share a descriptor and a cache of
parameters without a lock. The list, line by line, with the property that covers each, is
`hazards` in `PROJECT.json`.

## 2. Modules

| module | what it is |
|---|---|
| `Bandwidth` | the arithmetic, with the scales 2^24, 2^16 and the word 2^32 as parameters `MAX_BW`, `COEFF_ONE`, `WORD` |
| `Roundings` | one server's parameters through `qres_init_server`, `qres_set_params`, `qres_get_params` |
| `Sums` | sums over `1 .. n`, as recursive functions |
| `Admission` | abstract: admission control without counters, rules, users or levels |
| `Qsup` | the supervisor; implements `Admission` |
| `QsupGw` | the supervisor's device over `Qsup` |
| `QsupTests` | the supervisor's test programs over `Qsup` |
| `Qres` | servers, their scheduler groups and the threads that call the reservation layer, on top of `Qsup` |
| `SchedGroup` | the task groups: pointers, lists, fork and exit, step by step |
| `QosMemory` | the allocator with its table of blocks |
| `Lifecycle` | insertion and removal of the module, its devices, the memory of calls, composed with `QosMemory` |
| `QresGw` | the device of the reservation layer as a process sees it |
| `QresLib` | the library and the processes that use it, composed with `QresGw` |
| `TestPrograms` | the programs of `qreslib` as sequences of calls |
| `LibUse` | what the text of those programs keeps to, as conditions on any program |
| `Fifo` | abstract: a bounded first-in first-out queue |
| `Queue` | the ring buffer and its iterator; implements `Fifo` |
| `MCRoundings`, `MCQsup`, `MCQsupGw`, `MCQres`, `MCSchedGroup`, `MCLifecycle`, `MCClient`, `MCQueue` | values for TLC |
| `Roundings_proofs`, `Qsup_proofs`, `QsupGw_proofs`, `Qres_proofs`, `QresLib_proofs`, `SchedGroup_proofs`, `Lifecycle_proofs`, `Queue_proofs` | theorems and proofs |

A definition `X_Word` commented "Variant" is a plausible mistake in `X`, kept beside it: with
it in place of `X` the property it is meant for fails. No specification uses a variant.

### Bandwidth and Roundings

A shift by the number of bits of a scale is a multiplication or division by the scale.
`ul_shl_ceil` has two definitions because the code has two (`qos_ul_i386.h` increments the
quotient when a remainder is left, `qos_ul_other.h` adds `den - 1` first). `DivideFaults` says
when the `divl` of the i386 form faults.

The state of `Roundings` is what a client asked for last (`sent`), what is recorded
(`params`), what the supervisor admitted (`gua_bw`) and was asked for (`req_bw`). The server is
alone and under the default constraint.

### Qsup

| variable | code |
|---|---|
| `group_rules`, `user_rules` | the lists of rules; since a new rule is put at the head and the first match is taken, the newest rule per id is all that counts |
| `qsup_servers` | the linked list, as a set: no function depends on its order |
| `srv` | the `qsup_server_t` descriptors; pointers into users and levels are the server's `uid` and `level` |
| `qsup_users`, `qsup_levels`, `tot_gua_bw`, `tot_used_gua_bw`, `spare_bw` | the variables of those names |
| `faulted` | a `divl` has faulted in kernel mode |

Every function of `qsup.c` that changes state is one action; `qsup_init` and `qsup_cleanup`,
which run with the module, are in `Lifecycle`. `SetRequiredBw` is `qsup_set_required_bw` as a
whole: saturation, the three guarantee totals, the user's request and coefficient, the level's
request, and the loop that compresses both levels. `TakeOut` is `qsup_cleanup_server`, which
calls it with a request of zero first. Every value assigned is taken modulo `WORD`. A failed
allocation leaves the state unchanged and is a stuttering step. A divide fault stops
everything: the model records that it happened and takes no further step, so what the
interrupted function had already assigned is not looked at. `server_id`, `weight`,
`max_level_bw`, `max_sum` and the log are left out; no decision reads them. `user_gua` is kept,
and never assigned, exactly as in the code.

The rules of users and groups name level 0 or 1 (`QsupAssumption`), the two that `qsup_levels`
has; the code does not check it (section 5).

`Spec` lets rules change at any time. `SpecWell` is `Spec` restricted to steps that leave
`WellConfigured` true: the conditions on rules and guarantees under which compression can keep
what it promises. `qsup.c` checks none of them; section 5 lists what happens without.

### QsupGw and QsupTests

`QsupGw` adds no variable: a call of the device is an action of `Qsup`, guarded by
`qsup_authorize_op`. `AddGroupConstraints` of a group nobody is in changes nothing that
is modelled. `GwAddUserRule` is what `QSUP_OP_ADD_USER_RULE` does: it adds a group rule under
the user's number, and falls through to a lookup. The two questions of the device change nothing
here and are left out; the record of a user that `qsup_get_avail_gua_bw` may create is in
`Lifecycle`. `SpecGw` is root at the device, other kernel code that adds user rules, and servers
that come and go.

`QsupTests` adds the program that runs, where it stands and the row of its table. The four
programs are records (rule, guarantee to be refused, servers, table of requests); their second
table, of what they expect, is a formula (`bw_approved`) that every entry of theirs satisfies.
They take the rows in any order, so what one row leaves behind meets every other. With no
program running the specification is `SpecWell`, so that both uses are one run.

### Qres

`Qres` extends `Qsup`, whose actions are what its handlers call, and adds:

| variable | code |
|---|---|
| `server_list`, `server_id` | the list of `rres.h`, newest first, and where `new_server_id` starts |
| `qres` | the fields of `qres_server_t` that decide something: `id`, `params`, `period_us`, owner, `qsup.tg` |
| `groups` | the scheduler group made for each descriptor, and its runtime |
| `task_group` | the group each calling thread is in |
| `lock`, `thread` | who holds the ioctl lock without having slept since, and where each thread is in its handler |

`qres.c` asks for a global lock (`qres.c:7`); the gateway has it commented out
(`qres_gw_ks.c:78-80`). What is left is the lock the kernel holds around an ioctl, which it
gives up whenever the holder sleeps. A handler is therefore cut where it may sleep: at the
creation of a group and at each setting of a runtime. Everything between two such points is one
action, or a few under `lock`. `Create`, `Request`, `Zero`..., `CreateGroup`, `Zero`...,
`Apply`... is one `qres_create_server`; `SetParams`, one of `ReadmitNew`, `ReadmitOld` and
`ReadmitNone`, and `Set` is a `qres_set_params` that changes the guarantee. The budget of a
server is read at the end of the step before the one that sets it, because the thread may sleep
between (`qres.c:238`).

The two periods and runtimes of a group, always set alike one after the other, are one. The
four calls of `rres_set_budget` are one step. The kernel's own test, that all runtimes fit, is
`Fits`, with the sum it accepts as `SchedBw`. A call on a null group stops the kernel; on a
freed group it stops it or is lost. `find_task` finds only the calling task, so a thread
attaches itself. Calls that only read are not actions. Refused calls change nothing and are not
actions either, except where the code has changed something before it refuses.

### SchedGroup

Below the steps of `Qres`: a task's pointer to its group (`tg`), the links of the list of each
group (`next`, `prev`, with the group as the head of its list and `Poison` where `list_del`
leaves its poison), the state of each task and group, and the ioctl in progress (`op`).
`attach_begin`, `attach_point`, `attach_end` are `sched_attach_task`; `destroy_begin`,
`destroy_unlink`, `destroy_move`, `destroy_end` are the walk of `qres_destroy_server`;
`exit_begin`, `exit_point`, `reap` are the end of a task, on any processor at any time; `fork`
copies the pointer and links of its parent. `Sound(x)` says what may be followed; following
anything else sets `oops`, where the kernel stops. Three situations break what the code
expects; `met` records those that came up and the properties are stated apart from them
(section 5): a fork inside a group, an exit during a call, and the use of a destroyed group.

### QosMemory and Lifecycle

`QosMemory` is `qos_memory.c` in both builds (`checked`): the kernel's `heap`, the table
(`chunks`, `num_chunks`, `mem_failure`), and whether something that is no block was given to
`kfree` (`corrupted`). Addresses are numbers, so that a pointer into a block, such as the one
to the descriptor inside a server's block, is one that the table does not hold.

`Lifecycle` inserts the module (`InitParts`, the two registrations and the `/proc` entry, each
of which may fail and is only logged), lets two files be opened on either device, and removes
it: `refs` counts the references, two per open file, and `phase` is the step that insertion or
removal stands at. The loops of `qres_cleanup` and `qsup_cleanup` are one step per element.
`create_server` ... `create_group` are the allocations of one `qres_create_server` with every
failure; what the supervisor decides is a choice here. The message of `/dev/qosres` has a
buffer, a pointer, and readers between the test of a character and its use. A behaviour works
either on memory or on the message (`work`), which share no variable but the files.

### QresGw, QresLib, TestPrograms and LibUse

`QresGw` gives each request of `qres_gw_ks.c` as the set of its outcomes: what is returned, the
value copied back, the servers afterwards. What the supervisor decides is one of the `Faults`;
the steps inside a handler are those of `Qres`. `QresLib` runs programs over it: `lib` is a
process's descriptor and cached parameters (`qres_fd`, `server_params`), `th` its threads, each
in a call at `open`, `ioctl` or `ret`. A program is a sequence of calls with the structures of
parameters it uses (`TestPrograms`, one definition per program of `src/qreslib`, and three more
for the calls that no program makes); `qos_chk_ok_exit` is `checked`, and ends the process.
Time is whether the time a thread waits for is over (`elapsed`, `Tick`).

`LibUse` says how the programs use the library, as conditions on their text alone: a loop comes
after the device was opened and does not start, end, destroy or attach anything
(`LoopsOnlyUse`); `qres_init` and `qres_cleanup` alternate (`OpensInTurn`); a server is not used
after it was destroyed (`UsesLiveServers`); a checked call is made on a server that was created
(`ChecksWhatSucceeds`); a program starts at most one other thread or process, before it attaches
itself to a server, and two threads that share a descriptor either leave opening and closing to
the first or race from the beginning (`StartsOne`); all servers of a program have one period, guarantee and flags (`OnePeriod`).
`JobFits` is all of it, and `JobsAssumption` assumes it of whatever runs. TLC evaluates it for
every program of `TestPrograms` with every assignment of users.

What is started inside a group copies the pointer to it and joins no list, and the destruction of
the group does not find it (run `fork`, section 5). `QresLib` has no lists: in it a destruction
moves every task of the group out, which is right of tasks that attached themselves. `Start` in a
group therefore sets `oops`, and no program that keeps to `StartsOne` does it.

### Queue

`queue_t` field by field, with `walk` for an iterator and what it has returned. `ImplementsFifo`
maps the slots from `del_pos` on to the contents of `Fifo`. The header forbids an insertion
into a full queue and an extraction from an empty one, and the model does neither.

## 3. Runs

| run | specification | shows |
|---|---|---|
| `any` | `SpecGw` of `QsupGw` | whatever the rules are and whenever they change, through the device or not, even where divisions fault: `TypeOK`, `GuaranteesSchedulable`, `TotalsAreSums`, `LevelsWithinBound`; `ImplementsAdmission` |
| `well` | `SpecTests` of `QsupTests` | `NothingWraps`: no division faults and guarantees are covered by what the level is assigned; `RequestsCurrent`: the request of a level is the sum of its users' capped requests, a user's coefficient that of the present requests; `ApprovedSound`: each server gets between its used guarantee and its request, and user, level and system maxima hold for the sums approved; `TestsPass`: the checks of the four test programs succeed in every order of their rows; `PriorityIsolation`: level 1 does not disturb level 0 |
| `roundings` | `Spec` of `Roundings` | recorded budgets are rounded up and fit; at most one unit of bandwidth is lost; the two ceilings agree; a guarantee above the period is refused although nothing compares the two; resending changes nothing |
| `serial` | `SpecQres` of `Qres`, one thread | after every operation the budgets are those approved, failed group creations included; no budget is refused by the kernel on the way |
| `threads` | `SpecQres` of `Qres`, two threads and an administrator | `UniqueIds`: no identifier is given out twice; `SupervisorAgrees`: until a rule is added or refused parameters are recorded, the listed servers are those admitted and no guarantee is taken off twice; `RequestsInForce`: the request in the supervisor is that of the recorded parameters; every handler returns |
| `groups` | `Spec` of `SchedGroup`, without forks inside a group | `ListsAgree`: between calls the lists hold the tasks that point to the group; `OnlyThoseHarm`: only an exit during a call or the use of a destroyed group makes the kernel follow a bad entry or leave a task in a freed group; a destruction ends |
| `lifecycle` | `Spec` of `Lifecycle` | `MemorySound`: the table agrees with the kernel and protects it; `FilesServed`: an open file is served and its references are exact; `NothingLeft`: whatever failed, nothing stays registered, nothing is lost before a server was accepted, and no record is ever lost nor a listed server freed; `PointerInside`; `RemovalCompletes` |
| `client` | `Spec` of `QresLib` | the programs keep period and guarantee, use groups of servers of their own, fail only when something was refused, hold one descriptor (threads that race to open leave at most one file more), and end |
| `queue` | `Spec` of `Queue` | indices agree with the count; a walk sees every waiting element unless the queue was full; `ImplementsFifo` |
| `fork`, `user_rule`, `refused` | `SchedGroup`, `QsupGw`, `Qres` | counterexamples of section 5 |

Bounds. `any` uses `MAX_BW = 7`, `WORD = 16`: just enough for two full bandwidths to fit, so
that subtractions wrap and divisions fault; one user, whose group has the same number, so that
a user rule of the device takes effect; the two servers can be created before and after a rule
puts the user in level 1 with a smaller maximum. `well` uses `MAX_BW = 2000`, so that the
percentages of the programs are whole (5% is 100 units), and `COEFF_ONE = 8192`, at which two
truncated coefficients and the truncations of the table itself cost at most two units, the
`Tolerance`. (The programs allow 0.01%, 1677 units of 2^24, of which two coefficients of 2^16
may cost 512.) Three servers, so that
one user has two; the two users may be in the same level or in different ones; guarantees of
30% and maxima of 45%, 60% and 95% make requests of the whole processor compress users, levels
and both. `roundings` takes every budget of periods below, at and above `MAX_BW`, coprime to it
and not. The runs of `Qres` use `MAX_BW = 20`, `COEFF_ONE = 16`, coarse enough to truncate
visibly; three servers where requests must compete (any two of the requests of `serial`
exceed the bound), two where the threads are the point; of the guarantees of `threads` and
`refused` two small ones fit and a large one only alone, so that both a larger guarantee and,
once refused parameters are recorded, the old one may be refused. A descriptor is never reused
once its server is listed, so the number of servers bounds the number of creations. Root is the
user of one of the two threads, and adds rules in `threads`. Operations are chosen per run
(`Operations`) so that each property is checked over the operations that keep it:
`qres_set_params` breaks budgets and group pointers, so `serial` leaves it out and `threads`
leaves groups alone once they are made. `SupervisorAgrees` states its conditions itself
(`RulesUnchanged`, `GuaranteesRecorded`): a rule may forbid the guarantee a server had, and
refused parameters are what the next refusal falls back on.

`groups` has two groups and three tasks, two at the beginning and one that is forked outside of
the groups: lists of up to three, with a neighbour on both sides of the one that leaves, and
moves from group to group. `fork` has one parent in a group and one child.
`lifecycle` has a table of three entries for four blocks, so that it fills up (a server, the
record of its user, a rule); messages of a buffer of two characters and writes one longer.
`client` runs every program with each of the three faults at any of its calls: 250 thousand
states. `queue` has three positions, so that the indices go round out of step with each other.

Deadlock. `roundings`, `lifecycle` and `queue` check for it. `any` does not, because a divide
fault really stops the kernel; nor the runs of `Qres` and `SchedGroup`, where a null or poisoned
pointer does, descriptors run out and tasks die; nor `well` and `client`, whose programs end.

Fairness. The supervisor on its own assumes none. `Qres` assumes strong fairness of
`Continue(t)`, the steps of thread `t` inside a handler: a thread waits only for the ioctl lock
and the mutexes of the scheduler, each of which is held for a bounded time and handed on, but
others may take the lock in between, so a step is enabled again and again and not all the time.
No fairness is assumed of calls: a thread need not enter the layer. `SchedGroup` assumes weak
fairness of a destruction and of an attachment that have begun, which do not sleep, and none of
tasks; `Lifecycle` weak fairness of a removal that has begun, which one process carries through.
`QresLib` assumes that every thread is scheduled and that time passes.

## 4. Theorems

Every proof is checked by tlapm for all values of the constants, under the assumptions named in
the modules, which TLC evaluates in every run:

- `BandwidthAssumption`, `QsupAssumption`: all rules, requests and spares are bandwidths of at
  most `MAX_BW`, rules name level 0 or 1, `Q_min` does not exceed `P`, and a word holds the sum of one bandwidth per
  server and per user (255 of each with the code's 2^24 and 2^32);
- `RoundingsAssumption`: periods fit a word, and `MAX_BW` divides `WORD`, as 2^24 does 2^32;
- `QresAssumption`: parameters have a period, threads have credentials the supervisor knows, and
  there is a descriptor to create a server with;
- `GroupAssumption`: tasks, groups, the initial group and the poison of `list_del` are different;
- `MemoryAssumption`, `SizesFit`, `LifecycleAssumption`: the table has an entry, the largest block
  holds more than one cell and every record the module allocates, there are finitely many files,
  and the message has a character;
- `QueueAssumption`: the queue has a position;
- `QresGwAssumption`, `JobsAssumption`: a period is positive, a weight may be zero, and the
  programs keep to the conditions of `LibUse`. Those of `src/qreslib` do; any other program
  that does, with any users, structures, loops and weights, is covered as well.

| theorem | module | states |
|---|---|---|
| `TypeCorrect` | `Qsup_proofs` | `TypeOK` |
| `TotalsCorrect` | `Qsup_proofs` | `TotalsAreSums` |
| `GuaranteesCorrect` | `Qsup_proofs` | `GuaranteesSchedulable` |
| `LevelsCorrect` | `Qsup_proofs` | `LevelsWithinBound` |
| `AdmissionImplemented` | `Qsup_proofs` | `ImplementsAdmission`: every step of `Spec` is a step of `Admission` or leaves what it sees unchanged |
| `WrapsNever` | `Qsup_proofs` | `NothingWraps`, under `SpecWell` |
| `RequestsAlwaysCurrent` | `Qsup_proofs` | `RequestsCurrent`, under `SpecWell` |
| `ApprovalsSound` | `Qsup_proofs` | `ApprovedSound`, under `SpecWell` |
| `Level0Isolated` | `Qsup_proofs` | the action property `PriorityIsolation`, under `SpecWell` |
| `DeviceWithinSupervisor` | `QsupGw_proofs` | `SpecGw => Spec`: the theorems of `Qsup_proofs` hold behind the device |
| `GwGuaranteesCorrect` | `QsupGw_proofs` | `GuaranteesSchedulable` at the device |
| `LayerTypeCorrect` | `Qres_proofs` | `QresTypeOK` |
| `IdentifiersUnique` | `Qres_proofs` | `UniqueIds` |
| `RequestsStayInForce` | `Qres_proofs` | `RequestsInForce` |
| `SupervisorStandsFor` | `Qres_proofs` | `SupervisorAgrees` |
| `BudgetsInForce`, `BudgetsNeverRefused` | `Qres_proofs` | `BudgetsAsApproved` and `SettingFits`, for one thread that creates and destroys servers |
| `PeriodsAreKept` | `QresLib_proofs` | `PeriodKept` |
| `GroupsAreOwned` | `QresLib_proofs` | `GroupsOwned` |
| `ServersAreApart` | `QresLib_proofs` | two threads are never given the same server, unless a group was refused |
| `ServersStayAsMade` | `QresLib_proofs` | an action property: no server changes hands, and no freed group is live again or lost |
| `DescriptorIsOne` | `QresLib_proofs` | `OneDescriptor` |
| `FailuresAreExplained` | `QresLib_proofs` | `FailuresExplained`, with the type invariant |
| `ListsAlwaysAgree`, `HarmlessOtherwise` | `SchedGroup_proofs` | `ListsAgree`, `OnlyThoseHarm` |
| `MemoryAlwaysSound`, `FilesAlwaysServed`, `RemovalLeavesNothing`, `PointerStaysInside` | `Lifecycle_proofs` | `MemorySound`, `FilesServed`, `NothingLeft`, `PointerInside` |
| `RoundedUpCorrect`, `RoundingLossCorrect`, `CeilingsCorrect`, `AbovePeriodCorrect`, `ResendCorrect` | `Roundings_proofs` | `RoundedUp`, `RoundingLoss`, `CeilingsAgree`, `AbovePeriodRefused`, the action property `ResendIsIdle` |
| `IndicesAlwaysAgree`, `RingIsFifo`, `WalksAreComplete` | `Queue_proofs` | `IndicesAgree`, `ImplementsFifo`, `WalkComplete` |

`Qsup_proofs` begins with the facts they rest on: a sum of a function changed at one point, of a set
with one member more or less, grouped by user or level, added, scaled, and bounds on sums; each
by induction over `0 .. n` written as a proof about a set of indices, because an induction
theorem with an operator parameter is beyond the installed provers.

### The supervisor under any rules

`TotalsInv` is `TypeOK`, that the guarantee in use of every descriptor is
`min(req_bw, gua_bw)`, and `TotalsAreSums`. The second part is needed because removal skips the
update when the request is zero. The sums are bounded by the word, so wrapping a difference
gives the true difference. On top of it: the total that admission tests is the sum of the
guarantees, and each level is assigned at most what the one above left.

The lemmas are about any descriptor that belongs to a user (`InUse`), listed or not, because
the reservation layer takes a server out of the supervisor and works on its descriptor before
it is admitted again.

### The supervisor under well-configured rules

`WellInv` is `TotalsInv`, `WellConfigured`, `LevelsWithinBound`, and

- `LevelReqIsSum`: the request of a level is the sum of its users' capped requests. It is
  changed by differences of differences, and the step is only right when all servers of a user
  are in one level, which is what `WellConfigured` says;
- `UsersKept`: a user's coefficient is that of the user's totals, and a user without servers is
  not compressed: the first request of the next server starts from that coefficient;
- `LevelsKept`: a level is assigned no less than its used guarantees and no more than it
  requests, and its coefficient is that of what it was assigned. The level's maximum is not
  mentioned, since it may have changed after the level was last served;
- `NoFault`.

That no division faults follows from the others before the step: the room a level or a user
has does not exceed what is asked beyond the guarantees, so each quotient is at most
`COEFF_ONE`. `ApprovalsSound` adds the bounds on truncated products: what two coefficients leave
of a request is at most the exact share, so the sums over a user, a level and the system stay
within theirs. `Level0Isolated` follows because level 0 is served first, from totals that a
server of level 1 is no part of.

### The reservation layer

A handler holds the ioctl lock between two points at which it may sleep, so between two such
points no other thread has moved; what another thread may have in hand while one of them sleeps
is what `LayerInv` has to say:

- `LayerTyped`, `ListNumbered`: servers enter at the head of the list and none leaves, so they
  are numbered from the tail, and `new_server_id` finds one more than the length of the list.
  Identifiers are unique although `server_id` is left at the last one given out;
- `ThreadsInv`: where each thread is, what it has in hand there, and that two threads that
  create have different descriptors. A thread between removal and admission of a server holds
  the lock, so there is at most one;
- `DefaultsKept`: the layer configures no user rule, level or spare; so until a rule is added
  every server is under the default constraint, where `WellConfigured` is no more than that the
  guarantees fit the bound, and the theorems about `WellInv` apply: nothing faults;
- `RequestsMade`, `RequestsInForce`: from the moment it is made, the request of a server in
  creation is that of the parameters that will be recorded. This clause is needed since the
  thread sleeps between making it and listing the server;
- `RefusedInv`: `Away` are the listed servers that are out of the supervisor with no thread to
  admit them again. While there are none, `Agreed` holds: the totals are sums, nothing faulted,
  everything admitted is listed or in creation, and there is room for the old guarantee of a
  server that was just taken out. Once there are some, the totals may be wrong in any way, but
  one of them had other parameters recorded than those of its last guarantee. For a server is
  left out only when its old parameters are refused too, and by `Agreed` there is room for the
  guarantee it had; so what was recorded was not what had been granted. That server is out
  for good, since a later change either ends at its removal, which reports an error, or leaves its
  minimum and period alone; so the condition of `SupervisorAgrees` stays false.

`BudgetsInForce` and `BudgetsNeverRefused` are about one thread that creates and destroys
servers (`Serial`): two walks of `qres_update_bandwidths` may undo each other's work, and neither
a change of parameters nor a rule sets budgets. `Walked` says how far a walk has come, with sets of
servers in place of positions: in the first loop the servers it has passed have no runtime, in
the second those have their budget, those ahead have none, and the one at hand has been read. It
needs that the list has no repetition, and that no step of a walk changes what is approved.
There is room for the next runtime because each group's is a budget or zero, a budget converted
back is at most the bandwidth it was computed from (`BudgetWithin`), and the approved bandwidths
sum to at most `U_LUB` (`ApprovalsSound`, through `LayerInv`). `Serial` says for this that the
kernel accepts at least `U_LUB`.

TLC checked `LayerInv` as an invariant of the instance of `threads` before it was proved, and
with a third, intermediate guarantee as well (2.7 million states); and `BudgetInv` on the
instance of `serial`.

### The library and its programs

`LibInv` ties what a thread is doing to its place in the text of its program; each of the
conditions of `LibUse` is used where a part of it would fail without. Its parts:

- `StateTypes`, `PlaceInv`: a thread stands at a call of its program, and a request under way is
  that of the call; a second thread is there only after the call that started it and is over
  once it was waited for (`SecondInv`). What a place says, such as `OpenAt` or `DestroyedAt`, is
  related to the next place and to the place a loop goes back to by one lemma each
  (`OpenStep`, ..., `LoopPlace`);
- `FileInv`: unless threads race to open the library, the files a process has open are as many as
  its descriptors; while a second thread shares the descriptor it is open, and none is in
  `qres_init`;
- `DeviceInv`: while the device never failed to open, it is open where the text says so, even
  among threads that race;
- `RaceInv`, while threads race and the device has not failed: two files are open at most, one
  while a thread has yet to open its own, and none while both have; without a descriptor at most
  one is, and none while the second thread runs. It is proved on top of the other parts, and
  says what `FileInv` leaves open;
- `ParamsInv`, `RequestInv`: what the structures, the library's copy, the requests under way and
  the servers hold. The copy is either empty or `Fits`, and `Fits` once a server was created,
  although another thread may write it between a call and its return; a `set_bandwidth` that is
  made before anything was created has a period of zero and is refused;
- `OwnInv`: the servers a thread holds, the one it is being given included, are of its own
  process and user, not the other thread's, and live until destroyed. It is about the time
  before a group is refused, for then an identifier is whatever memory held (`qres.c:342`);
- `GroupInv`: `InOwnServer`, and that the first thread is in a group only after an attachment;
  without this a thread or process could be started inside a group;
- `FailInv`: a result that ends a process is explained. By the parts before, a call that is
  checked is one the device has no reason of its own to refuse (`AskedFits`), so a failure
  comes with a fault; and a wait for a child that failed is explained by the child's.

`Kinds` and `Asked` list what a step is to the invariant: eleven kinds of steps, and a
request answered with one of five outcomes (`Came`). Each action is shown to be one of them
once (`StepKinds`), and each part is then shown to be kept by them. A step of one thread that
leaves the other where it is (`Stays`) is told apart from one that ends it with the process
(`Ended`) and from its start.

TLC checked `LibInv` on the instance of `client`, and on several thousand generated programs
that satisfy `JobFits`, before it was proved; that is how the conditions of `LibUse` were found
to be enough.

### The task groups

`GroupInv` is `TypeOK`, what the record of an ioctl is made of (`OpTyped`), and, as long as none
of the three situations has come up, `ListInv`:

- `ListsInv`: the running tasks that point to a live group, but for the one an ioctl has in its
  hand, and the head of the group form a `Ring`: what follows a node is in it and points back,
  and the same the other way. This alone would allow tasks linked among themselves and apart
  from the head, whom a walk never meets; so a `Ring` has no set of tasks that is closed under
  going back. Said with sets it needs neither counting nor induction, and both `list_del` and
  `list_add` keep it (`Unlink`, `Link`);
- `OpInv`: where the ioctl stands. Since each task that was walked over is gone from the list, a
  walk is always at what follows the head, with what comes after it in hand;
- `TasksInv`: a running task is in the initial group or in a live one. When a walk is at the
  head, the head follows itself, and a ring like that has no tasks (`EmptyRing`): nobody is left
  in the group that is freed.

`WalkReaches` turns a `Ring` into what `ListsAgree` says of a walk from the head. TLC checked
`GroupInv` on the instance of `groups`.

### The module and its memory

`LifecycleInv` has one part for each thing that insertion, files, calls and removal share:

- `MemInv`: with the check, the used entries of the table are as many as it counts, no two name
  the same block, and each names one that is allocated; an entry that was freed keeps its size.
  `FindChunk` says that the search finds a pointer exactly if an entry has it, and
  `FreeEntryFound` that one is free while the count is below the size of the table. What an
  allocation and a release do to heap and table is said once (`MallocEffect`, `FreeEffect`);
- `FileInv`: references are counted from the open files. The kernel begins a removal only without
  references, and a call is made through an open file; so no call is in progress during one;
- `RegInv`: what removal has unregistered so far;
- `CallInv`, `RecordsInv`, `ListInv`: the blocks of record size that are allocated are those in
  the lists of users and rules, each in one list, once, and the table knows them; so each loop
  of the removal frees a block and loses one member. The descriptors in the supervisor's list
  are fields of a block and never the start of one (`AddressApart`), so freeing them releases
  nothing: that is why blocks of servers stay;
- `ServersInv`: the servers in the list are allocated, with the size of a server, now and after
  any step; the block in the hand of a call is not in the list, so what a call that failed frees
  is no listed server's;
- `AcceptInv`: until a server is accepted the supervisor's list is empty, nothing is freed that
  is no block, and `NothingLost` holds. Removal relies on it, and it on removal: blocks of
  an earlier insertion are unknown to the new table;
- `MessageInv`: without a full write the last character is zero, and the one reader that may be
  between its test and its step stands before it.

TLC checked `LifecycleInv` on the instance of `lifecycle`.

### Roundings

`RoundBudget` is at least its argument, at most the period, and idempotent, because the rounded
bandwidth is the least that covers the budget. Above the period, the ceiling could reach `WORD`
and wrap to zero only if the quotient were `WORD - 1` with a remainder; that `MAX_BW` divides
`WORD` and the budget is below half of a word exclude it.

### Queue

`IndicesAgree` is inductive: an insertion moves one index forward and adds one to the distance,
an extraction the other way round. With those indices an insertion appends to the contents and an
extraction takes their head; the positions of two waiting elements differ. A walk is strengthened
by where the iterator stands: as many positions after `del_pos` as it has returned elements,
counting that a full queue ends the walk before its first step and that it may be filled behind
the iterator.

### Only model-checked

`TestsPass`, which is about the tables of four programs and no other values, and within them is a
calculation. `HandlersReturn`, `DestructionEnds`, `RemovalCompletes` and `ProgramsEnd` are liveness
under fairness and stay with TLC.

## 5. Where the code does not do what its texts say

Shown by a run:

- `fork`: a task forked while its parent is in a group has the group's pointer and is on no
  list; destroying the reservation (`qres.c:462`) leaves it in the freed group, and
  `qres_lib.h:110-112` promises that all are detached.
- `user_rule`: `QSUP_OP_ADD_USER_RULE` (`qsup_gw_ks.c:79`) adds a rule for the group with the
  number of the user, and falls through to the next case.

- `refused`: when the new guarantee is refused `qres_set_params` admits the old one again
  (`qres.c:622`) and records the new one (`qres.c:631`), which `qres_get_params` then returns as
  what was granted (`qres_interface.h:116-121`), and which the next refusal falls back on.

Met while modelling, modelled as they are, and kept out of the passing runs by their bounds,
by `WellConfigured`, or by the condition a property states.

Of the supervisor:

- a guarantee admitted in level 1 is not set aside when level 0 is served (`qsup.c:525-535`),
  so the sum approved may exceed `U_LUB`, the "Maximum utilizable bandwidth"
  (`qos_types.h:86`);
- the per-user admission test reads `user_gua` (`qsup.c:356`), described as the sum of the
  user's guaranteed minimums (`qsup.c:78`) but never changed; two servers of one user may be
  guaranteed more than the user's maximum, and `qsup.c:488` then wraps;
- for the same reason the device answers `QSUP_OP_GET_AVAIL_GUA_BW` with the maximum of the rule
  (`qsup.c:296`), however much is guaranteed already, where `qsup.h:130` promises the guaranteed
  bandwidth that is available;
- the level of a rule indexes `qsup_levels` (`qsup.c:366`) and nothing checks it
  (`qsup_gw_ks.c:74-80`), as `qsup.c:130` does for level rules; other levels than 0 and 1 are
  outside of the model;
- `level_req`, the "Total requested per-level" (`qsup.c:86`), keeps requests nobody makes when
  a user's servers are in two levels (`qsup.c:502`);
- `qsup_cleanup_server` takes the guarantee off the total before it looks for the server in
  the list (`qsup.c:423`); a server that `qres_set_params` could not admit again, under a rule
  that came later, has it taken off twice, and the schedulability test of `qsup.c:342` lets
  through what does not fit.

Of the reservation layer:

- a budget read at `qres.c:238` is set after the thread has slept; another thread's request may
  have reduced it, and nothing sets it again. `qres.c:7` expects a global lock;
- `qres_destroy_server` frees the group and leaves the server in the list and in the supervisor;
  the call that took it out is commented out (`qres.c:482`). A later attachment, a second
  destruction, or the removal of the module, which destroys every server in the list, uses the
  freed group;
- a server that asks for exactly its guaranteed budget may be given one unit less, because
  `qres.c:305` and `qres.c:238` round down what `qres.c:281` rounded up (`RoundingLoss` bounds
  the loss);
- when `sched_create_group` fails, `qres_init_server` returns the `rv` of an earlier success
  (`qres.c:342`), and the caller is told of a server that is in no list, under an identifier
  that was never written; the block of the server is lost;
- `qsup_init_server` clears `tg` (`qsup.c:362`), and `qres_set_params` calls it on a server
  with a group (`qres.c:621`);
- `qres_set_params` sets no budget: the call that did is commented out (`qres.c:630`);
- the request to read a weight calls the function that sets it (`qres_gw_ks.c:352`), with what
  the caller's memory holds.

Of the groups and the module:

- an exit on another processor between two steps of an attachment or a walk makes the kernel
  follow a poisoned entry, or leaves it linked to a task that is gone: nothing locks the lists;
- `qsup_cleanup` gives `kfree` the descriptor inside a server's block (`qsup.c:194`), which is
  not the start of one, and the block itself is never freed;
- two overlapping reads, or a write that fills the buffer and leaves no end mark, take the
  pointer of the message past its end (`qres_mod.c:115`, `149`);
- a device that could not be registered is unregistered all the same, and `cdev_del` is called
  on a `cdev` that was never initialised (`qos_kernel_dep.c:82-86`);
- once a block was freed, `qos_mem_valid` finds pointers near NULL valid, because a free entry
  keeps its size (`qos_memory.c:111`).

Of the library and its programs:

- `qres_set_bandwidth` takes period and guarantee from the parameters last set for any server
  (`qres_lib.c:299`): with servers of two periods, or two guarantees, it changes the wrong one,
  and the re-admission loses the group. `PeriodKept` is over programs whose servers share them;
- threads that race to open the library may open two files and lose one (`qres_lib.c:49`);
  `OneDescriptor` allows them that one;
- the iterator of a full queue sees no element (`queue.h:144`); `WalkComplete` says so;
- `test-qres-base.c:71` detaches from the server with no identifier, which always fails;
- `fork_and_loop.c` has the branches of the parent and the child the wrong way round, so the
  child waits for a child it does not have.

## 6. Not modelled

See `components` in `PROJECT.json` for each part.

- `/proc` text, debug and log macros, profiling, and the conversions only they use.
- The timer thread (nothing in this tree starts it), extension data (the Makefile does not
  build it), the RRES scheduler the rest was written for (not in this tree).
- The kernel abstraction headers, which wrap kernel calls; the scheduler of the kernel and the
  accounting of time in a group.
- `qsup_get_max_gua_bw` and `qsup_get_avail_gua_bw`, which only read, but for the record of a
  user that the second may create (`Lifecycle`).
- `qsup_get_avail_bw`, `qsup_init_module`, `qsup_cleanup_module`, `qres_find_by_task` and the
  getters of single fields, which nothing calls or which only read. (`qsup_get_avail_bw`
  would wrap for a user who asks for more than the maximum, `qsup.c:311`.)
- Of the library, `qres_module_exists` and `qres_get_servers`, which read files of `/proc`;
  of the programs, `test-roundings.c` (it prints what `Roundings` computes), `test-get-time.c`
  (clock arithmetic) and `hello-1.c`.
- Copies to and from user space are taken to succeed, and the library passes its own records,
  so that the size checks of the gateways do too.
- Compile-time options that the shipped configuration leaves off (`QSUP_EXPAND`,
  `QSUP_DYNAMIC_RECLAIM`, `SHRUB`) are modelled as off. `QOS_MEMORY_CHECK` is modelled both ways.

## 7. Plan

The parts of the system that keep state are modelled, and what the supervisor, the reservation
layer, the task groups, the module and its memory, the library with its programs, the arithmetic
and the queue promise is proved, but for liveness. What is left: the theorems about `Qres` and
those about `SchedGroup` meet at the steps of `Qres` that attach and destroy, which are one step
there and several in `SchedGroup`; a refinement between the two is not stated. `PeriodKept` with
servers of two periods does not hold (section 5), so `OnePeriod` cannot be dropped.
