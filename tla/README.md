# A verification development for osy_prog

TLA+ models, TLC runs and TLAPS proofs for the concurrent programs of this
repository: a user-space thread library with its variants, producer/consumer
servers on POSIX semaphores and shared memory, and servers whose clients take
turns. Each definition of a model is tied to its lines of source in
`PROJECT.json` ("map").

Run a check with `tlc -config <run>.cfg <module>` (module and expected outcome
of each run: `PROJECT.json`, "runs") and the proofs with `tlapm` on
the modules whose names end in `Proofs`.

## 1. Inventory of the system

The repository is a collection of operating-systems course work. What keeps
state and has behaviour worth checking:

**A. Green threads** (`osy-gthreads-main`, `-learn`, `_test`). State: the table
`g_gttbl` (state, ticks, saved stack pointer of each slot), the current slot
`g_gtcur`, the polled result `g_gt_yield_status`, the interval timer and the
signal mask. Operations: `gt_init, gt_go, gt_stop, gt_start_scheduler, gt_yield,
gt_delay, gt_suspend, gt_resume, gt_manage_timers` and the SIGALRM handler.
*Hard*: the handler preempts any thread between any two statements, also inside
the library, and handlers nest. *Correct when*: one slot is running; a stopped
thread never runs on; a slot is given out once; a delay ends, and no sooner than
asked; every Ready thread gets the CPU; the scheduler returns when and only when
all tasks are gone.

**B. Producer/consumer programs** (`DU/DU04*`, `DU/DU05*`, and in `cv_skuska`
`cv2_consumer_sem.cpp` and `cv3_queue.cpp`). State: a ring of N strings with
head and tail, three semaphores, in `DU05_test` also counters of clients and a
semaphore as a gate; in the servers all in named objects that outlive the
processes. Operations: `producer()`, `consumer()`, admission and departure of a
client, pause and resume, start, quit, Ctrl-C, `-r`. *Hard*: processes at any
statement, timeouts, crashes that leave the kernel objects behind, children
killed by SIGPIPE. *Correct when*: the ring is a bounded FIFO; limits hold and
places are given back; nothing unread is overwritten; paused consumers take
nothing; consumers are answered or released.

**C. Turn-taking servers** (`cv_skuska/piskvorky`, `piskvorky2`,
`skuska_piskvorky`, `02_simultan`). State in shared memory: a count of seats, a
semaphore for each seat, a board. *Hard*: children start together, hang up,
outlive their server. *Correct when*: everyone has a seat of his own; one player
has the turn; turns rotate; moves stay on the board.

**D. Compile and file servers** (`animal*`, `uloha4`, `uloha6`, `skuska_04`,
`05_riadky`). State: one file "animal" that every compilation replaces, a named
semaphore around compiling and sending, and the process of each client. *Hard*:
children killed with the semaphore held; early exits between `sem_wait()` and
`sem_post()`; a name that is unlinked while others use what it meant; a restart.
*Correct when*: a client is sent its own program and all of it; each path gives
up the semaphore once; waiting ends.

**E. Condition-variable buffers** (`cv/cv_thread`). State: a ring or a single
slot, a mutex, two conditions. *Hard*: spurious wake-ups, a signal while nobody
waits, a main thread that does not join. *Correct when*: a FIFO; no wake-up is
lost; all is taken at the end.

**F. Life cycle of named objects** (`init_shm`, `init_queue`, `cleanup_ipc`, `-r`
of `DU05`, `DU05_prep`, `DU05_test`). State: what each name means in the kernel,
what each process has open, what is noted in each memory. *Hard*: a name is
unlinked and made anew while children of an earlier server go on; the steps of
two starts interleave; a start is cut short. *Correct when*: who shares a
memory shares its semaphores; no memory is cleared under its users.

**G. The rest**: HTTP and echo servers without shared state, socket clients,
pipe and file exercises, notes, a vendored FreeRTOS port.

The parts interact little: the programs of A link the library; the servers of B,
C, D and F each carry their own copy of the helpers and talk to clients over a
socket. A client is always modelled by the nondeterminism of its server's child.
`PROJECT.json` lists all parts ("components") and what can go wrong in them
("hazards").

## 2. Modules

| module | models | composed of |
|---|---|---|
| `Gthr` | the three variants of `gthr.c` | |
| `GthrNested` | the same with SIGALRM inside `gt_yield()`, and `gtswtch.S` | instance of `Gthr` |
| `GthrProofs` | theorems about `Gthr` | extends `Gthr` |
| `GthrNestedProofs` | theorems about `GthrNested` | extends `GthrNested` |
| `BoundedFifo` | abstract: what a queue promises its callers | |
| `SemRing` | `producer()`/`consumer()` on three semaphores | implements `BoundedFifo` |
| `SemRingProofs` | theorems about `SemRing`; lemmas on counting processes and on the indices of a ring | extends `SemRing` |
| `PcServer` | `DU/DU05_test/socket_srv.cpp`, SHM mode | instance of `SemRing` |
| `PcServerProofs` | theorems about `PcServer`, `DrainServer` and `SemPipe` | extends `PcServer`; instances of the other two and of `SemRingProofs` |
| `DrainServer` | `DU/DU04/socket_srv.cpp` | instance of `SemRing` |
| `SemPipe` | `DU/DU04/sem.cpp`, `quee.cpp`, `cv2_consumer_sem.cpp`, `cv3_queue.cpp` | instance of `SemRing` |
| `BatonGame` | the four turn-taking servers | |
| `BatonGameProofs` | theorems about `BatonGame` | extends `BatonGame` |
| `CvBuffer` | the three programs of `cv/cv_thread` | implements `BoundedFifo` |
| `CvTimed` | `circle_buffer.cpp` in time: is `sleep( 2 )` enough | extends `CvBuffer` |
| `CvBufferProofs` | theorems about `CvBuffer` | extends `CvBuffer` |
| `CompileServer` | `animal_done`, `animal2`, `animal3` | |
| `CompileServerProofs` | theorems about `CompileServer` | extends `CompileServer` |
| `IpcLifecycle` | names and objects of `DU05` and `DU05_test` | |
| `MCPcServer` | the symmetry set of `PcServer` for TLC | extends `PcServer` |

### Gthr

A thread is a slot. `state`, `delay`, `cur`, `status` are `thread_state`,
`delay_ticks`, `g_gtcur`, and the sign of `g_gt_yield_status`. `pc[t]` is the
point at which the thread's own code stands, `sig[t]` the number of handler
frames on its stack, both part of what the saved `rsp` stands for. `timer` and
`masked` are the kernel's part. Each API function is one action for each
statement that touches the table: `GoFind`, `GoFill`, `GoReset`, `GoFails` for
`gt_go`; `DelaySet`, `DelayBlock` and a `Yield` for `gt_delay`; `ResumeCheck`,
`ResumeSet` for `gt_resume`; and so on. `Tick` is the handler up to the switch,
`HandlerReturn` what follows when the thread gets the CPU back. Which `gt_yield`
is meant is the constant `Variant`: `learn` tests the condition of its scan
last, and in cooperative mode advances the timers; `test` replaces main by
the lowest Ready thread. `Preemptive` is `GT_PREEMPTIVE`. Tasks are arbitrary
code, except that only `Resumers` call `gt_resume` and only `Creators` call
`gt_go` after the scheduler has started, because the demo programs have at most
one of each and the hazards differ.

A tick does not fall inside `gt_yield()` or `gt_manage_timers()` here (the
period is 10 ms). `GthrNested` lifts this for `gt_yield()`, which is cut into its
scan (`YieldScan`, or `TickScan` in the handler), its three stores (`MarkOld`,
`MarkNew`, `SetCur`), the switch (`Swtch`) and its return. SIGALRM may fall
between any two of them. The frames on each stack become the calls of
`gt_yield()` on it (`calls`), each with the slot it has selected and where it
is; `on` is the stack the CPU uses, and `regs` the `rsp` saved in each slot,
written as whose stack and how deep. `Swtch` is `gt_pree_swtch()` of
`gtswtch.S`. `MaxInside` bounds how many calls SIGALRM may find before their
switch. The test of gthr.c:139 is one step with the store of line 140: a thread
that loses the CPU between them is Running again when it gets it back, as if
SIGALRM had come before the test. `gt_manage_timers()` and each scan are one step
in both modules.

The constant `InSwitch` says whether SIGALRM may also fall between
the store to `g_gtcur` and the switch, a window of a few instructions; the run
keeps it closed, section 4 opens it. With the window open a switch may return
into a thread whose own code goes on while `g_gtcur` is another's; what that code
would then do to the table is not modelled. So `InSwitch = TRUE` shows what goes
wrong up to that point, and nothing that holds beyond it.

### SemRing, BoundedFifo and the servers on them

`SemRing` has one action for each statement of `producer()` and `consumer()`.
The refinement mapping into `BoundedFifo` reads: the queue is the ring from
`head` on, as long as `Stored`; a put takes effect when `tail` advances, a get
when `head` does. Items are model values; truncation to the slot size and
`item_num` (a number in the answer) are left out.

`PcServer` puts the ring into the forking server. `pc` continues with the
statements of `handle_client()`; `clients` holds both counters; `pause` is
`pause_sem`; the server itself waits there on "-" (`PauseRead`, `PauseDone`).
`Interrupt` ends all processes where they are, `Restart` attaches to what is
left, `Clean` is a run with `-r`. `BrokenPipe` is the end of a child by SIGPIPE
at one of its three kinds of `write()`. The ghost `unread` is the set of slots
stored and not taken, kept whatever the semaphores say, so that what a crash
does to the ring can be stated. As committed, the MQ mode calls `mq_receive()`
with five arguments; it is not modelled. The empty `else` branch of `producer()`
changes nothing shared.

`DrainServer` cuts the end-of-work check of a consumer in its two reads
(`ReadCount`, then `Quiet`). `SemPipe` adds the input, the output and the
end to a ring with two threads, for four programs (`Programs`). `sem.cpp` and
`cv3_queue.cpp` read lines and put a last record (`InputEnds`); `quee.cpp` (the
same file in `DU04_1`, `DU05`, `DU05_prep` and `DU05_test`) and
`cv2_consumer_sem.cpp` count their items (`CountEnds`). The consumer prints
after `consumer()` (`Output`) or from the slot, with the mutex held
(`LoadAndPrint`). In `cv3_queue.cpp` it leaves at "quit" with the mutex and the
slot given back before `head` moves (`QuitUnlock`, then `Output`): no other
consumer runs, so nothing can read the old index.

### BatonGame

Constants choose among the four servers: `Players` (2 or 3), `Limited` (all but
`piskvorky` count their clients), `ResetsBoard` (`piskvorky2`). `Accept` forks at
once, so that children are seated together: the index is read by `TakeIndex`,
and the unlocked `count++` is two actions more (`LoadCount`, `StoreCount`).
Increments may be lost, and then the lobby waits for a count that never comes.
`Restart` is a second server on the same named memory, with (`EndsAll`) or
without the children of the first. Clients are taken to send rows of the board:
neither `parse_input()` nor `atoi()` refuses others (piskvorky/socket_srv.cpp:159,
skuska_piskvorky/socket_srv.cpp:191), and a write outside the board is not
modelled.

### CvBuffer

What a thread does under the mutex between two operations on the mutex or a
condition is one action. `Wait` releases the mutex and waits in one step, as
`pthread_cond_wait()` does; `Signal` moves the other thread, if it waits, to
where it locks the mutex again (`Relock`) and from there back to the test;
`WakeSpuriously` does the same without a signal. `Size` is `QSIZE` or 1 for
`has_value`, `Quota` 0 for the consumer without end and `Total` for the one that
is joined, `Marks` whether a store marks the slot as filled (it does not in
`cv_thread.cpp`). `Returns`, the end of `main()` after `sleep( 2 )`, happens
wherever the endless consumer is, and the process ends with it.

Whether the sleep is long enough is a matter of time, which `CvTimed` adds to half
of its behaviours (`timed`; the others are those of `CvBuffer`): `rest` is what is left of each `usleep()` and of the `sleep( 2 )`, in ticks of
100 ms. Each sleep may last up to `Late` ticks longer than asked for, in which
the statements up to the next sleep are included, and a tick comes only when all
sleep or wait.

### CompileServer

`program` is the server that is built. A semaphore is a number in the order of
creation: `value` its count, `name` the one the name means now, `handle[s]` what
a server has opened, `sem[c]` what its child has inherited. The file is
represented by whose compilation made it (`file`) and whether it is complete
(`whole`); a child that has opened it keeps what it opened (`fd`). `done` unlinks
nothing; each child of `two` and `three` unlinks the name when it ends
(`Unlink`). A child that is ended from outside, by `Interrupt` or `BrokenPipe`, is
"killed", or "dead" if it holds the semaphore. Two paths of the code itself end a
child with the semaphore held: the `_exit( 0 )` of `two` after a failed
compilation (`CompilerFails`), and the division by the number of pieces in
`send_data()`, which is zero for a small file in `three` and for an unfinished one
in `two` (`DividesByZero`). These children are "gone" like any other.
The compiler, which is not part of the repository, replaces its output
(`CompilerOpens`), completes it (`CompilerEnds`), or fails and leaves the old one.
That of a `Killable` client may be ended by a signal (`CompilerKilled`), which all
three servers take for success, because `WEXITSTATUS()` is then 0.

### IpcLifecycle

A process starts as a server (`OpenShm`, `CreateShm`, `Truncate`, `UnlinkStale`,
`Zero`, `OpenSem`, one action for each system call, `k` counting in the loops),
forks children that inherit what it has open, and ends by `Quit` (`cleanup_ipc()`
in `DU05_test`, plain `exit()` in `DU05`), by an interrupt with its children, or
runs `-r` (`Remove`). `shmName` and `semName` are what the names mean, objects are
numbered as they are made. `noted[m]` is the part of a memory in which children
have recorded their client: it stands for counters and contents alike. The
ghosts `messy` and `good` single out the processes whose start no other start,
cleanup or half-finished one has touched: the properties speak of them, and
section 4 of the others. `DU05` knows three semaphores, `DU05_test` four, and
`-r` of either may clean up after the other.

## 3. Runs

The bounds of each run are in its `.cfg`.

| run | shows | bounds, and why they are enough |
|---|---|---|
| GthrPreempt | the table under preemption, and who has the CPU, as long as `gt_yield()` is not interrupted; variant `main` | main and 3 tasks (a sleeper or creator, a resumer, one that comes and goes), delays of 1 and 2 ticks |
| GthrLive | no starvation, delays end, the scheduler returns; variant `test` | 3 slots, so that a thread can be overtaken by two others; 2 handler frames on a stack |
| GthrNested | what survives ticks between all the stores of `gt_yield()`: saved stacks, and no task that waits is left behind | 3 slots, 2 frames and a voluntary call on a stack, one interrupted call at a time: a selection can be stale by two switches |
| SemRing | refinement of the FIFO, no circle of waits, progress | 3 processes, one impatient, on 2 slots: each end contended, wrap-around, full and empty |
| PcServer | counters, gate, timeouts, commands | 3 clients, limits 2 and 1, so that clients of either role are refused; 1 slot, so that producers wait |
| PcCrash | what survives two crashes | 3 clients, 2 slots, so that each crash can lose a token at either end; any child may die of SIGPIPE |
| Drain | nothing is left behind; the check ends work | 3 clients, 2 slots: two producers and a consumer, or the reverse |
| SemPipe | the input is printed, no thread waits for one that has left, the program ends; all four programs | 5 lines or items through 2 slots: the ring wraps twice |
| Baton | turns and their order, no start before all are seated, progress | 4 clients on 3 seats that come together, a limit, a board that each child clears, one restart that ends the children |
| CvBuffer | FIFO refinement, no lost wake-up, the end, and that all is taken by then; module `CvTimed` | the sizes of `circle_buffer.cpp`: 5 slots, 15 values; any number of spurious wake-ups; threads in any order, or with the times of the code and each sleep up to 200 ms longer |
| CompileServer | own program, one token, service | 3 clients, 2 servers (both at once for `animal_done`), one Ctrl-C, one client that resets, one whose compiler is killed: a waiter, a holder and a late starter at each point |
| IpcLifecycle | shared locks, no memory wiped, no name left by a cleanup | 3 server runs, one `-r`, 1 child: an object, its successor and one more; 1 interrupt or overlap |

`MCPcServer` adds to `PcServer` the symmetry of clients, which `PcCrash` uses;
the runs that check liveness use none. `Baton` covers the servers that count
their clients and end by Ctrl-C. Outside it are the unlimited `piskvorky` and a
restart after `quit`, which leaves the children: section 4 shows what they do.

Deadlock is checked where the system must always be able to go on. It is
switched off where it really may stop: all consumers wait on an empty ring
(SemRing, Drain), a crash has lost a token (PcCrash), the program ends
(SemPipe), all clients have come and gone (Baton, CompileServer), all processes
have ended (IpcLifecycle). In CvBuffer it is checked; the program that has
returned stutters (`Terminated`).

Each module also states its types (`TypeOK`), and some state what other runs
check or what a listed property covers (`Exclusive` of `SemRing` and `PcServer`,
`NeverStuck` of `SemPipe`, which `Terminates` needs,
`RefusedOnlyWhenFull`). TLC has checked them with the constants of the run; a
run lists only what answers a question of its own.

## 4. Where the code departs from its documentation

All runs pass. Properties that say what a comment, a task or a name in the repository
promises, and that the code does not keep, are stated in the modules beside the others.
TLC finds each violated, with the specification and constants of the run named,
except for the change given, and that property in
place of the run's; the check of deadlock is switched off where the departure
also stops the program. Those that contradict a sentence of the repository most
plainly have a configuration of their own, which shows the case on the smallest
instance and fails on purpose:

| configuration | module | property violated |
|---|---|---|
| `NestedWaits.cfg` | `GthrNested` | `WaitsForAll`: `gt_start_scheduler()` returns before a task has ended |
| `NestedStop.cfg` | `GthrNested` | `StopNeverReturns`: `gt_stop()` goes on behind `gt_yield()` |
| `GthrTwoResume.cfg` | `Gthr` | `StopNeverReturns`, by two callers of `gt_resume()` |
| `DrainQuiet.cfg` | `DrainServer` | `LeavesWhenQuiet`: a consumer leaves while somebody produces |
| `BatonSeats.cfg` | `BatonGame` | `OwnSeat`: two clients of `piskvorky` with one index |
| `BatonThird.cfg` | `BatonGame` | `SeatExists`: a third client of `piskvorky` with no semaphore |
| `CompileKilled.cfg` | `CompileServer` | `GetsAll`: half a program is sent |

All departures:

| run | change, or configuration | property violated | what happens |
|---|---|---|---|
| GthrNested | `NestedWaits.cfg` | `WaitsForAll` | a tick between gthr.c:141 and 144 finds the old slot Ready and still in `g_gtcur`: the nested `gt_yield()` selects that slot itself and marks it Running, the interrupted one switches away. Two slots are Running; the old one is not selectable any more and not counted at line 128, so the scheduler returns without it, although gthr.h:54 says "wait for all tasks" |
| GthrNested | `NestedStop.cfg` | `StopNeverReturns` | the same to main: the last task stops, finds nobody Ready, and goes on behind `assert( !"reachable" )` (gthr.c:99). A selection made stale by a tick inside `gt_yield()` revives a stopped thread as well |
| GthrNested | `InSwitch = TRUE` | `SavedOwn`, `SavesCurrent` | a tick between `g_gtcur = p` and the switch (gthr.c:144) saves the old thread's stack in the slot of the new one; `gtswtch.S` says "%rdi contains the current context structure" |
| Drain | none | `ConsumersReleased` | a consumer past the check when the last producer leaves waits forever (DU04/socket_srv.cpp:232), although line 229 ends consumers when "nikto nevyrába a fronta prázdna" |
| Baton | none, or `BatonSeats.cfg` | `OwnSeat` | two children read the same `count` and take one seat (piskvorky/socket_srv.cpp:119, piskvorky2/socket_srv.cpp:192); piskvorky_task.txt:18 lets the server assign the index. If an increment is lost too, `count` stays below the number of seats and the lobby never ends |
| Baton | `BatonThird.cfg` | `SeatExists` | the third client of `piskvorky` gets an index beyond the array (308); piskvorky_task.txt:4 lets the server refuse it |
| CvBuffer | `Late = 3` | `AllTaken` | `sleep( 2 )` stands for a join (circle_buffer.cpp:74): with sleeps 300 ms too long the last value is not taken |
| CvBuffer | `Size = 1`, `Total = Quota = 5`, `Marks = FALSE` | `Ends` | the producer of cv_thread.cpp:51 stores `has_value = false`: the consumer waits forever |
| CompileServer | `Concurrent = {"done", "two", "three"}` | `GetsOwn` | a child of `animal2` or `animal3` unlinks the name while others wait; a second server makes a new semaphore and compiles into the same file |
| CompileServer | `CompileKilled.cfg` | `GetsAll` | a compiler ended by a signal has `WEXITSTATUS()` 0 (animal_done/socket_srv.cpp:163): its client is sent half a program, or that of an earlier client |
| IpcLifecycle | none | `LockTogetherAlways` | a second server attaches to a new memory before the first unlinks the stale semaphores (DU05_test:206, 235) |
| IpcLifecycle | none | `NoneForgottenAlways` | the `memset` of the first server (DU05_test:240) wipes what a second one's child has noted |
| IpcLifecycle | none | `OneBuffer` | `-r` or `quit` while a server or its children go on: the next server makes a second buffer |
| GthrLive | `Preemptive = FALSE`, `Variant = "main"` | `DelayEnds` | nothing advances the timers in the cooperative build (gthr.c:113); the `learn` variant does, and passes |
| GthrPreempt | `Resumers = {2, 3}`, or `GthrTwoResume.cfg` | `StopNeverReturns`, `NoEarlyWake` | the late store of `gt_resume` (gthr.c:253) revives a stopped thread or cuts a delay short |
| GthrPreempt | `Creators = {1}` | `BlockedHasDelay` | `gt_go` clears the ticks (gthr.c:176) of a thread that already sleeps |
| GthrPreempt | `Creators = {1, 2}` | `SlotStillFree` | two `gt_go` get one slot (gthr.c:168) |
| GthrNested | `MaxDelay = 2` | `NoEarlyWake` | a tick inside `gt_yield`: the selected thread has gone to sleep |
| PcServer | `MaxCrashes = 1`, or `Abrupt = Procs` | `RefusedOnlyWhenFull` | clients killed by Ctrl-C or SIGPIPE stay counted and keep live ones out (socket_srv.cpp:252, 503) |
| PcServer | `Careful = FALSE`, `MaxPause = 1` | `CommandsDone` | a second "-" blocks the server (734) |
| PcServer | `Careful = FALSE`, `MaxPause = 2` | `GateShut` | "+" entered first leaves a token too many (746) |
| PcServer | none | `PausedTakesNothing` | a consumer past the gate takes an item while "paused" (330) |
| Drain | `DrainQuiet.cfg` | `LeavesWhenQuiet` | the count of producers is stale when the ring is looked at (DU04/socket_srv.cpp:226) |
| SemPipe | `Lines = {a, End}`, `Programs = {"sem"}` or `{"cv3_queue"}` | `PrintsInput`, `NeverStuck`, `Terminates` | a line equal to the end marker (sem.cpp:88, cv3_queue.cpp:32): the consumer leaves and the producer fills the ring |
| Baton | none | `MovesStay` | each child of `piskvorky2` clears the board (202) |
| Baton | `EndsAll = FALSE` | `OneTurn` | a server started on the memory of children that still play (skuska_piskvorky/socket_srv.cpp:229) |

In `animal2` and `animal3` the semaphore is lost on ordinary paths: a failed
compilation ends a child of `animal2` before `sem_post()` (149-153), and
`animal3` divides by zero for every file of less than 80096 bytes (131). The next
client waits for good; the unlinking at the end of other children gives only a
new server a new semaphore. So `TokenKept` promises exactly one token, and
`Served` an answer, for `animal_done` alone, where a child must be killed between
`sem_wait()` and `sem_post()` to the same effect.

What `Gthr` shows of `OneRunning`, `WaitsForAll` and `StopNeverReturns` holds as
long as no tick falls inside `gt_yield()`. `GthrNested` has what is left of it
otherwise.

## 5. Fairness

* **Gthr.** `setitimer` repeats, so a tick comes as long as the timer is armed
  and the signal open (WF on `Tick`); a thread switched back into a handler
  leaves it; the idle loop polls. Tasks owe nothing in preemptive mode: they may
  compute forever. In cooperative mode nothing else takes the CPU from a task,
  and tasks are assumed to call `gt_yield` again and again, as `fg.c` does.
* **SemRing.** Weak fairness of each process inside a call. A semaphore is not
  fair to one of several waiters, and the abstract progress properties do not
  promise that it is: they speak of some caller.
* **PcServer, DrainServer.** Strong fairness of a child that does not wait for
  its client: its waits are for a mutex held over a few adjacent statements, and
  timeouts expire. Clients owe nothing.
* **SemPipe.** Threads run, and a producer that counts goes on to its last item;
  whether an input from the user ends is open.
* **CvBuffer.** Strong fairness of each thread: its steps are enabled unless the
  other holds the mutex, which it leaves again and again; weak fairness of
  `main()`, whose join and sleep end. Spurious wake-ups are never owed. The
  same holds in `CvTimed`, where time goes on because the threads do.
* **CompileServer.** Strong fairness of a child between its request and its end,
  as above; the compiler ends. Clients and operators owe nothing.
* **IpcLifecycle.** None: its properties are safety.
* **BatonGame.** Children run (weak), and a player who is asked again and again
  makes a legal move in the end (strong, of `Move`).

## 6. Proofs

`GthrProofs` proves, for every number of threads, delay and nesting bound, in
both modes and all three variants (assumption `GthrAssumption`, which only types
the constants):

* `TypeCorrect`: `Spec => []TypeOK`.
* `OneRunningAlways`, as far as `Gthr` goes, where `gt_yield()` is not interrupted
  (section 4 has the other case): from the inductive invariant `SchedInv`, which adds to
  `OneRunning` that main is never blocked and is where main can be (`MainInv`)
  and that a slot held across statements is neither the holder nor main
  (`ArgOther`). Without these a store through `arg` could unmark the running
  thread.
* `WaitsForAllAlways`, likewise: from `WaitInv`. The hard part is the polled status: 0 may
  be stored only when no task is left, and no later action may create one.
  `SetupInv` covers the time before the scheduler starts.
* `StopNeverReturnsAlways` and `SlotStillFreeAlways`: from `StopInv`, which says
  that a slot somebody is about to make Ready is still Suspended or Unused and
  that a thread past its stop has a free slot (`StaleFree`). They assume
  `OneCaller`: at most one resumer and at most one creator. With
  two of either both properties fail (section 4): the assumption is needed.
* `NoEarlyWakeAlways`: the action property, from `StopInv`.
* `BlockedHasDelayAlways`: from `SleepInv`, assuming that no thread creates
  others, without which it fails (section 4).

The argument is the same throughout: lemmas say what the timers
(`TimedFacts`), the scan (`SelectsReady`) and the switch (`SwitchedFacts`) do
to the table, one step lemma for each invariant goes through the actions, and
the theorem closes with PTL. TLC has checked the invariants on the small
instances first.

`CvBufferProofs` proves, for every ring size and number of values (assumption
`CvBufferAssumption`):

* `TypeCorrect`, and `NoLostWakeupAlways`: from the invariant of the monitor, in
  which whoever is between `Lock` and `Unlock` owns the mutex, and a thread that
  waits while its condition holds has a peer that is just about to signal.
* `Implements`: `Spec => IsFifo`, the refinement of `BoundedFifo`. The invariant
  relates `head`, `tail` and `count` modulo the size; a store appends to the
  abstract queue, a load takes its head, all other steps stutter. Without
  `Marks` the count does not describe the ring.

`CompileServerProofs` proves, for any number of servers, clients and crashes
(assumption `CompileAssumption`):

* `TokenKeptAlways`: from `TokenInv`: each semaphore is free, or with one of its
  `Takers`, children that hold it or were ended from outside while they did. In
  `animal2` and `animal3` it may also be with nobody, since paths of their own
  lose it. No assumption on what runs is needed, because it speaks of each
  semaphore by itself. Lemmas say what a step inside
  the critical section (`TokenStays`) and the end of a holder (`TokenLost`) do.
* `OneHolderAlways` and `GetsOwnAlways`, assuming `OnlyDone`: that of `animal2` and
  `animal3` one server runs at a time. Children that run together share a
  semaphore (`ServerInv`, `LiveInv`, hence `SameSem`), so at most one holds any
  (`HeldInv`, `OneHolder`), and the file is as its own compiler left it
  (`FileInv`), if nobody killed that compiler. Without the assumption `GetsOwn` fails (section 4).

`SemRingProofs` proves, for every number of callers and slots
(`SemRingAssumption`):

* `TypeCorrect` and `ExclusiveAlways`: from `TokenInv`. A unit of a semaphore is
  in its value or with a process between two statements, so the mutex is free or
  with one, and each slot is empty, stored or with one process.
* `Implements`: `Spec => IsFifo`. `RingInv` keeps `tail` as many slots after
  `head` as there are items, `SlotInv` says that what the process under the mutex
  has copied is still where it was. The two statements that advance an index
  append to and take from the abstract queue, entering and leaving a call are the
  abstract calls and returns, and all others stutter.
* `NeverJammedAlways`: from `TokenInv`. If everybody in a call waits, the mutex
  has no holder and is free, so nobody waits for it; no slot is on its way, so a
  semaphore that is 0 means a ring that is full or empty.

`PcServerProofs` proves, for every number of children, limits and slots
(`PcServerAssumption`), with any number of crashes, restarts and resets:

* `LimitsHoldAlways`: from `ClientInv`, in which a counter is never below the
  clients served, though it may be above: a crash loses clients, not counts.
  `CountsClientsAlways` (`CountInv`, exact) assumes `Abrupt = {}`; a killed
  child stays counted (section 4).
* `ExclusiveAlways`: from `MutexInv`. The mutex is held by one or lost with one.
* `KeepsUnreadAlways` and `TakesUnreadAlways`: from `UnitInv`. After a crash units
  of `empty` and `full` may be missing, so the sums of `TokenInv` become
  inequalities: the units of `empty` and those who have one stand for slots
  outside the unread segment, those of `full` for slots inside. None is ever
  made, which is why the ring may shrink but not be corrupted.
* `GateShutAlways`: from `GateInv`, assuming `Careful`, without which it fails.

The same module proves, for the two other programs on the ring, with theorems
that name an instance of their modules (`Drain!`, `Pipe!`):

* `LeavesNothingAlways`, for any number of clients and slots: the units of both
  semaphores and those inside the two functions add up to the size
  (`DrainTokens`), so that `empty = Size` leaves none anywhere. The property that
  also claims that nobody produces fails.
* `PrintsInputAlways`, for any number of lines and slots, in all four programs:
  from `PipeInv`. What has been put is printed, with the consumer, in the ring or
  with the producer, in this order, and `Flow` counts how much is where. From the
  statement on that hands the consumer the last record, the lines are done
  (`Over`), and it no longer matters that `cv3_queue.cpp` leaves `head` behind and
  the ring of `SemRing` is out of step. It rests on the invariant and the
  lemmas of `SemRingProofs`. It assumes that no line equals the last record,
  without which it fails (section 4).
* `NeverStuckAlways`, under the same assumption: from `PipeInv`, `NeverJammed` of
  the ring and `MoreInv`, by which a consumer that counts calls `consumer()` only
  when an item is still due. Who waits does so at a full or an empty ring, and
  `Flow` shows that the other thread, had it left, would have taken or put what
  is waited for.

`BatonGameProofs` proves, for any number of clients and seats and any
number of restarts (`BatonGameAssumption`):

* `OneTurnAlways` and `TurnsAlternateAlways`: from `BatonInv`: the turn is a
  posted semaphore or a child that moves, of the seat after the last one. They
  assume `Plain`, that a restart ends the children (not so in
  `skuska_piskvorky`, section 4).
* `StartsFullAlways` and `SeatExistsAlways`: from `StartInv`, assuming `Counted`:
  the server counts its clients, and a restart ends the children. Increments may
  be lost, so `count` is no count of anything; but `count` and the children that
  have not stored theirs are together no more than `accepted` (and the same for
  each value that a child has loaded). So the number of seats is reached only by
  the store of the last child. That seats differ cannot be had: `OwnSeat` is a
  finding.

`IpcLifecycleProofs` proves, for any number of servers, children, runs with `-r`
and interrupts (`IpcAssumption`):

* `OneMemoryOneLock`, the property `LockTogether`, and `NothingForgotten`, the
  property `NoneForgotten`, from `MainInv`. Objects are numbered as they are
  made, so that a new one has a number nobody has open (`GenInv`, `CountInv`).
  A server that starts with a clean record is alone in its start (`PhaseInv`).
  Between starts the names mean, to all who work, memory and semaphores that
  belong together (`Linked`), or there is no name for a memory; during a start
  the part of this that holds goes step by step through the calls of
  `init_shm()` and `init_queue()` (`StartNames`). So who shares the memory
  shares the semaphores (`ShareInv`), and the memory a server creates or clears is
  used by nobody at work (`ClearInv`). Without the ghosts that single out clean
  starts both fail (section 4).
* `RemovesAllAlways`: from `MainInv` and `RemovedInv`: the names a `-r` or a `quit`
  has gone through stay without an object until it ends, since only a start
  gives a name an object again and none overlaps it.
* `TypeCorrect`: an argument of its own, since the numbers of the objects are
  bounded only because a server makes one of each name at most (`BoundsInv`).

`GthrNestedProofs` proves, for any number of threads and depth of nesting, with
SIGALRM inside `gt_yield()` (`NestedAssumption`):

* `TypeCorrect`, from `SchedInv`. A selection may be stale by any number of
  switches, and its stores may mark any thread Running.
* `SavedOwnAlways`, from `StackInv`: the call whose stores are done is on top of
  the stack in use, was made on it, and leads to the current thread (`OwnStack`,
  `StoredOnTop`); the stacks of all the others end in a finished switch that has
  saved just their depth (`Saved`). It assumes `~InSwitch`, without which it fails
  (section 4).
* `NoneWaitingAlways`, from `DoneInv`: a polled status 0 of main, with no call of
  `gt_yield()` left on its stack, means that each task has stopped or is one of
  those left Running (`DoneStates`), which section 4 explains. It also assumes
  `~InSwitch`, since it needs that main finds its own stack.

Of the safety properties of the passing runs all are proved but `AllTaken`, which depends on the numbers in the code; the theorems of `Gthr` hold
for its granularity. Only model-checked: `AllTaken` and all liveness
(out of the reach of the proof system, as is `ENABLED`), on the bounds of
section 3. The theorems about runs with faults keep the hypotheses that
section 4 shows to be needed (`OneCaller`, `Marks`, `OnlyDone`, `Plain`,
`Counted`, ...).

## 7. Not modelled

* The callee-saved registers of `gt_swtch()`, the statistics of the test variant.
* SIGALRM inside `gt_manage_timers()` or a scan; deeper than one interrupted
  `gt_yield()` at a time only the proofs go.
* Rows outside the board in the games; an `execlp()` that fails, after which
  `animal3` has a second child that sends.
* The MQ modes (in `DU05_test` the call of `mq_receive()` has five arguments and
  does not compile as committed), `item_num` and the role protocol of `DU05`.
* The file servers without a compiler and the earlier copy `animal`.
* In `cv3_queue.cpp`, lines longer than its arrays.
* Parsing, logging, sockets, clients, HTTP and pipe exercises: sequential, with
  no state that outlives a request.
* The FreeRTOS sources, a vendored kernel, and the tutorials and cheat sheets.

The model covers a small share of the lines in the repository, and cannot cover
a large one: of some 77,000 lines about 29,000 are the vendored kernel and
23,000 the bytes of an image in an array (`pozdrav.cpp`). What is left is
mostly copies: each server exists in several versions with the same socket
loop, log, help and client program. Where versions differ in what they do to
shared state, a constant of the module chooses the version.

Reasons for each part are in `PROJECT.json` ("components").

## 8. Plan

A to F of the inventory are done as described above. In order of importance:

1. `GthrNested` with `gt_manage_timers()` cut at its stores.
2. Proofs: that `SemPipe` implements `SemRing` until the last record, as a
   theorem of its own.
3. The composition of `IpcLifecycle` with `PcServer`: children that go on with
   unlinked objects.
4. `RoleServer`: the DU05 and DU04_1 servers with `item_num`, and the
   message-queue mode of DU05.
5. The file servers of part D that have no compiler.
