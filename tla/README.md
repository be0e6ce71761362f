# Verification of the communication manager (WCG_CMM)

The firmware polls protection and metering devices on serial ports (Modbus), keeps
their measurements (YC), state inputs (YX) and energy (YM) in a database, and serves
them to control centres over IEC 60870-5-104; commands go the other way.  It runs on
RT-Thread and lwIP on a small microcontroller.  Its own logic is in
`src/applications/`; the kernel, the TCP/IP stack and the board drivers are taken as
given.

This directory holds TLA+ modules of the parts where threads, interrupts, peers and
power failures meet, the TLC configurations that check them, and proofs of their
safety properties for every value of the constants.  `PROJECT.json` lists the
components, the runs, the lines every definition stands for, the hazards of the code
and the theorems.

    tlc -workers 2 -config SoeRing.cfg MCSoeRing.tla      # a run
    tlapm Link104_proofs.tla                              # proofs of ring and link

## 1. The system

### Threads

A smaller number is a higher priority; threads of one priority share time slices
(`startup.c`, `application.c`, `uart.c`, `eth_server103.c`).

| thread | priority | what it does | file |
|---|---|---|---|
| interrupts of the ports | - | store received bytes, send the next one | uart.c |
| tasks of the ports (0, 1, 3..7) | 10 | send requests and commands, file answers | uart.c, modbus600.c, modbus611.c, modbushfna2s.c |
| lwIP | 12, 15 | TCP/IP | vendored |
| link tasks, one per 104 connection | 20 | frames from and to one control centre | eth_server103.c, eth_callee.c |
| 104 server | 21 | accepts connections, keeps the table | eth_server103.c |
| RtdbProcess | 21 | compares the inputs, raises reports | rtdboperate.c |
| debug and search servers | 21 | message log by TCP, search and configuration by UDP | tcp_debug.c, cmcfgfunc.c |
| normal work | 22 | LED, watchdog, writing the clock | base_task.c, e2timewdg.c |
| saving | 23 | writes the configuration, restarts the device | base_task.c |

### Components, their state, and what makes them correct

**SOE report ring** (`rtdboperate.c` 69-158, `eth_callee.c` 731-917, 1164-1179).
`change_soe` and `change_soe_position`, one writer; a cursor `DInputReadIndex` and a
pending mark `m_nAutoConfirmed` per link.  The writer publishes the position before it
fills the slot, wraps at 100 where readers wrap at 200, and keeps a wrap bit in the
position's byte.  Correct: a link gets the reports raised since it came up, in order,
each once and whole, unless it is a lap behind.

**104 link task** (`eth_server103.c` 3098-3905).  Sequence numbers, window of 12,
STARTDT/STOPDT/TESTFR, the report that waits for its acknowledgement.  Correct: the
window is respected, every report gets out, a restarted link sends nothing old.

**Connection table** (`eth_server103.c` 3098-3175, 4085-4225).  Eight slots of pointers to
a task's parameters, read and written by the server and by the tasks; a returning
client's old task is told to end through a variable that also holds the station
address.  Correct: slots and tasks correspond, the device restarts only when the table
is really full, a returning client is served.

**Remote control** (`eth_callee.c` 112-606, `modbus600.c` 1008-1117).  Static command
buffers, a buffer and a flag per device, a count per port; written by links, read by the
port's task which preempts them.  Correct: a command accepted is sent, and once.

**State inputs** (`modbus600.c` 1385-1435, `rtdboperate.c` 163-378).  New and previous
inputs of a device with a hand-shake byte.  Correct: every change is reported, every
report is news.

**Polling** (`modbus600.c` 1008-1117, 1130-1797).  Turn, kind of request, counts of misses,
on-line flags.  An answer is not compared with what was asked.  Correct: data are filed
where they belong, nobody is left out, the on-line flags come to tell the truth.

**Receive rings** (`uart.c` 44-130, 1135-1180, `modbus600.c` 1137-1203, 1752-1791).  A ring
per port, its save index moved by the interrupt, its read index by the task, cleared when
a port has been silent for ten seconds.  Correct: a whole answer is accepted, once.

**Measurements** (`modbus600.c` 1209-1282, `eth_callee.c` 1317-1594, `eth_server103.c`
716-839).  A buffer of rows per port, filed by its task; one cursor over all ports and one
message, shared by all links.  Correct: a frame carries one device's values under its
address, a cursor that has left the buffers is brought back before it is used again,
nobody's new values wait for ever.

**Clock** (`e2timewdg.c` 274-462, `OP_ModifyTime`, `base_task.c`).  `TIME`, advanced by the
tick interrupt, set by masters, read for time stamps, and a clock chip that keeps it over
a power cut.  The fields of a master are masked and not checked.  Correct: a date that is
one of the calendar stays one, the chip gets every setting, a restart loses no more than
the chip's grain.

**Configuration** (`cmcfgfunc.c`, `base_task.c` 433-659, `e2timewdg.c`).  Parameters in use,
the same in a FRAM, a mailbox.  The FRAM and the watchdog share two wires without a
lock.  Correct: the device comes up with one whole configuration, the one last sent.

**Not modelled**: the packing of ASDUs, energy with its freeze, settings; debug log and
search; UART registers and DMA; check sums; start-up; `confresolve.c` (not called), `dlt645.c` and the ADC (not in the build);
drivers, RT-Thread, lwIP.  `modbus611.c` and `modbushfna2s.c` are copies of
`modbus600.c` with other addresses and lengths.

### How they interact

    device -> interrupt -> RxRing -> Receive_Commdata_Proce -> yx/yc/ym buffers
                                                                  |
        RtdbProcess compares inputs -> save_di_report -> SOE ring -> link tasks -> peer
        yc buffers -> OP_GetMeasureValue (cursor, message) -> link tasks, once a second
    peer -> link task -> OP_ModifyTime -> TIME <- tick; normal work -> clock chip -> restart
    peer -> link task -> OP_RemoteCtrl* -> yk_data_buf, flag, count -> Deal_Comm_Proce -> device
    operator -> UpdataSearchTsk -> GetCfgFromCharBuf -> parameters in use
                                         -> mail -> saving thread -> FRAM -> restart

### What is hard

Nothing in the code locks: all sharing rests on priorities.  A thread of higher priority
sees the half-done work of a lower one (report ring, inputs, count of commands,
configuration), and threads of one priority are switched anywhere.  Peers and devices
are late, lose and repeat.  Counts are 8 or 16 bits and wrap.  The `hazards` of
`PROJECT.json` name each place and the properties that watch it.

## 2. Modules

| module | models | extends |
|---|---|---|
| `SoeStream` | abstract: what a reader of reports is promised | - |
| `SoeRing` | `save_di_report`, cursors of all links; implements `SoeStream` | - |
| `Link104` | one link task and its peer, on top of the ring | `SoeRing` |
| `ConnTable` | server task, table, life of a link task | - |
| `RemoteControl` | links handing commands to the port | - |
| `YxChange` | answers against RtdbProcess | - |
| `Poller` | polling of the devices of a port | - |
| `RxRing` | interrupts and tasks of several ports, re-initialisation | - |
| `ConfigStore` | parser, saving, watchdog kick, restart | - |
| `Measures` | filing of measurements by seven ports, `OP_GetMeasureValue` and `ProcessSendYC` of several links | - |
| `Clock` | tick, setting by several masters, clock chip, restart | - |
| `MC*` | values of the constants for TLC | the module of that name |
| `*_proofs` | theorems; `Link104_proofs` on `SoeRing` and `Link104`, `Port_proofs` on `Poller` and `RxRing` | the modules they are about |

Variables have the names of the code's where there is one; an operator that begins with
"Fault:" in its comment is a plausible bug used to see that a property notices it, and
is not part of the specification.

**Grain.** A thread's work is one step when everything that could interrupt it runs at a
lower priority, and is cut at every shared access otherwise.  So `Send` and `Confirm` of a
link (20) are one step against the writer of reports (21), which is three: `SaveAdvance`
(position), `SaveIdentify` (valid and fields), `SaveStamp` (time).  A pass of a port (10)
is one step against links, whose `OP_RemoteToRtdb` is seven: test, read of the count,
write of the count, on-line test, copy, flag, end.  RtdbProcess is cut at comparison, read
of the value, report and hand-shake.  The saving thread (23) is cut at the address and
the two halves of an area.  The calls of two links (20, time slices) of
`OP_GetMeasureValue` are cut at every access to the cursor, a row or the message, between
the read and the write of `ycaddrindex++` too: an answer (10) is one step between any two
of them.  The copy of `TIME` in `OP_ModifyTime` is two words and the flag: the build in the
repository (`src/build/WGC_CMM.axf`) moves the eight bytes by two word loads and two word
stores.  `set_rtc` (22) reads `TIME` fourteen times, as that build does: for the seconds,
milliseconds and second for the lower digit and both again for the upper one, then every
other field once for each digit.  It goes on only while no link is in a setting; the tick
falls between any two of these accesses.

**Data.** A report is a number; a ring slot holds the number its fields come from and the
number its time comes from, so that a torn record is visible.  A frame is its type and
numbers.  The values of an answer are the device that gave them, so that a row or a frame
with another device's values is visible.  Two times in one clock chip are told as "stale"
(an earlier setting), "mixed" (fields of two settings) or "slipped" (digits before and
after a carry, or a time that is none of the calendar), with the distance from `TIME` when
it runs with the right one.  The parts of `TIME` are bytes of any value, from the masters
and from the chip; `BASE` and `BYTE` are 10 and 256 in the code.  An answer byte is the number of its answer and its place.  An area of the
configuration is the numbers of the files its two halves came from.  An input is a
Boolean.  The wording of the frames is left out.

**External.** The peer of a link (`PeerTake`, `PeerControl`, `PeerAck`, `PeerCommand`), the
devices (`Answer`, `Lose`, `LoseByte`, `Turn`), the operator (`Blocks`, `Send`, `Lose`) and the power
supply are modelled from what the code expects of them.

**Ghosts.** Variables marked "ghost" record what happened for the properties to speak of
(reports raised, a race that took a count, an answer that was late, ...); no action's
guard depends on one, apart from the bounds.

## 3. Runs

All passing runs are exhaustive.  Deadlock is checked wherever the system never stops;
`SoeRing`, `RxRing` and `ConfigStore` stop when the bound on reports, answers or files is
used up.

| run | instance | what it shows |
|---|---|---|
| `soe_ring` | ring of 3 read through 5, 2 links, 8 reports (two laps and a half) | `RingHoldsNewest`, `BacklogSeen`, `SentIsDue`, `InOrder`; the ring implements `SoeStream` (`ImplementsStream`) |
| `link104` | ring of 2 read through 3, window 1, numbers modulo 4, 2 reports, one frame in transit | `WindowHolds`, `StartsFresh`, `LinkDelivers` |
| `conn_table` | 2 slots, 3 clients, 3 places of memory; symmetry over both (its properties are invariants and step properties) | `TableExact`, `ResetOnlyWhenFull`, `SuccessorStarts` |
| `conn_table_undead` | 2 clients, no symmetry | violated: `OldTaskDeleted` |
| `remote_control` | 2 links, 3 commands for 2 devices, a second port | `CountCovers`, `FlagMeansCommand`, `SentOnceAccepted`, `PickedUp` |
| `yx_change` | a device of 2 inputs on each of 2 ports | `Reported`, `ReportsAreNews`, `ChangeReported` |
| `poller` | 2 devices, misses counted modulo 4, 2 commands, 2 disturbed answers, one device dying or returning | `RightData`, `OkIsCurrent`, `GivenUpIsOff`, `EveryoneAsked`, `Converges` |
| `rx_ring` | 2 ports, answers of 3 bytes in rings of 5, 2 answers each | `WholeAccepted`, `AcceptedOnce`, the indexes (`RxTypeOK`) |
| `config_store` | 2 ports, 2 files (the second takes a port out of use), one fault | `NeverBlank`, `WholeAreas`, `RestartKeeps`, `FileTakesEffect` |
| `measures` | 2 links, port 0 with one device (own row), port 1 with two (rows by another port's turn), 2 rows, so that a buffer is full | `RowsRead`, `TakenIsSent`, `Collected` |
| `measures_row` | the same | violated: `TrueDataFlag` |
| `clock` | 2 links, a calendar of 112 instants with a leap day and a century of two years, digits below 2 and bytes below 5, 2 settings and 2 times of a chip, one of each not of the calendar, 2 ticks in a pass of `set_rtc` | `TimeValid`, `RtcFollows`, `TickAdds`, `RestartKeeps`, `RtcWritten` |

The inductive invariants behind the proofs (`RingInv`, `TableInv`, `RemoteInv`, `YxInv`,
`PollInv`, `ConfigInv`, `TakenInv`, `CursorBack`, `RtcInv`, `CursorLaps`, `LinkInv`, `WindowInv`,
`HandOverInv`, `RestartInv`, `RxInv`) were checked with TLC on the instances of these runs
(`RestartInv` on half of the states of its own, for its time); they are proved to hold, so
the runs check what follows from them.

**Why the bounds are enough.** What matters of a ring is the order of positions within two
laps, the wrap of the writer and that the readers' ring is longer: three slots of five
have all of it, and eight reports go past two laps.  A window of one frame and numbers
modulo four let the window close, be overrun by one and the numbers wrap.  Two links
(tasks, ports, devices) are the fewest that interleave; a third client meets a full
table of two.  One fault of the configuration falls on any step of any of two files; a
second fault was checked too (1.8 million states) and is left out only for its time.
Measurements need a port that files in its own row and one that does not, a port with more
than one device for the scan to wrap inside and between ports, and two links; with a
device in every row the cursor can leave the buffer, and does.  The small calendar carries
through every unit, has a leap month, an ordinary one and the end of a century; one setting
is the last second of the leap day, the other has a month, a minute and a second that the
calendar does not; a chip may be at the end of the century or show a month 0.  A second, a
digit and a pass of two ticks are so short that a tick tears every pair of reads.  Two ticks
in a pass of `set_rtc` are one more than the code can meet.
`MAX_*` constants bound counters that only the environment moves; reaching them ends
disturbances, which the liveness properties need in any case.

### What the properties leave out, and why

Where the code goes wrong in a known way, a property says so in its condition rather
than claiming too much:

* `SentIsDue` allows the half-written record when a link preempts the writer in it;
  `InOrder` and the deliveries exclude a link a whole lap behind, which the code cannot see.
* `WindowHolds` excludes a wrapped number, where the signed difference of
  `eth_server103.c:3848` holds nothing; `Outstanding <= W` (not `<`) since one check
  precedes two frames.
* `StartsFresh` excludes a STARTDT that meets a pending report (`raced`): the release that
  follows moves the cursor (section "Disagreements").
* `TableExact` holds until two tasks serve one client (`overlapped`): the wait of 100 ticks
  (3170) is not always long enough.
* `CountCovers` and `PickedUp` exclude a lost update of `uart_rtdbflg` (`raced`),
  `SentOnceAccepted` overlapping calls.
* `Reported` and `ChangeReported` exclude a position whose pending change a second answer
  overwrites (`overrun`).
* `RightData` excludes an answer later than the next request (`late`).
* `WholeAccepted` starts from an empty buffer, which on ports other than 0 only an error, a
  failed check or a silence makes: an accepted answer clears port 0's save index.
  `AcceptedOnce` is therefore about port 0.
* `RowsRead` does not say that no call looks behind the buffer.  The configuration admits 20
  devices in 20 rows (`devusednum` is not checked, `cmcfgfunc.c:573`): then a link looks behind
  it while another has moved the cursor and not yet compared it, takes what the state
  inputs hold there for a row, and clears a word of them; the model has the look and the
  frame, and not what becomes of the state inputs.  `RowsRead` denies it to any call while no
  other has the cursor in hand.
* `TakenIsSent` is about calls no other link's call overlaps (`alone`), and about the values
  only on ports 0 and 7; an answer filed between copying a row and clearing its flag is
  marked as sent although it is not, which no property denies.
* `Collected` leaves out the first device of a port and overlapping calls.  With two devices
  on a port the first can starve: a call that takes it after the wrap leaves the cursor at
  row 1 of the next port.
* `TimeValid` excludes a date that a master or the chip gave and that is none of the calendar
  (`wild`): the handlers only mask the bytes (`eth_server103.c:2523`, 2548) and nobody checks
  them, so that month 0, 31 February or minute 63 reach `TIME` and a tick looks outside
  `month_day_tab` for months 13 to 15.  The types hold for such settings too.  `TickAdds` is
  about times of the calendar.
* `RtcFollows` and `RtcWritten` exclude a setting whose device address was refused after
  `TIME` had changed (`refused`), and take "slipped" for written.  `RestartKeeps` starts from a
  chip that is current: it says nothing of a slipped one, whose pass had a carry between two
  of its reads.  A tick at 58.999 between second and millisecond writes 58 at 59.000, one at
  59.499 between the digits writes 50, and a carry between fields is a minute, an hour or a
  day off; no later pass sets it right, unless a master sets the time.
* `NeverBlank`, `WholeAreas` and `RestartKeeps` exclude a watchdog kick in the transfer
  concerned (`kicked`, `clean`, `pass`).

### Fairness

Weak fairness is used for threads that always come to run: a link task, RtdbProcess, the
tasks of the ports, the parser and the saving thread.  The ring states none: a link
that is up is sent nothing before STARTDT, on the other port or with its window shut
(`eth_server103.c:3848`, 3865), and that every report gets out is said of a link task that is
started and working (`LinkDelivers`).  The
priorities justify it: threads of higher priority wait between their passes (a port
sleeps on its semaphore, a link in `select`), so that even the lowest thread goes on.
Of the peer of a link it is assumed that it takes what arrives (weak) and acknowledges
again and again (strong, since the transit may be full at times); `LinkDelivers` is of
interest only with such a peer.  A link calls
`ProcessSendYC` once a second whatever its peer does, which is the fairness of `Collected`.
For `RtcWritten` the loop of the main thread is fair: it only waits for link tasks that
are in a setting, and they leave it without waiting.  Nothing is assumed of connecting, dying devices,
lost answers or operators, and for the order of datagrams `FileTakesEffect` only
speaks of files that arrive in order.

### Disagreements found

Two runs end in a violation of what a comment of the code says; each is a finding of
`PROJECT.json`.

* An I frame overwrites `m_device_address` and with it the order to end (3335): two tasks
  serve one client for good (`conn_table_undead`).
* On ports 1, 3, 4, 5 and 6 flag, address and number of a measurement go to the row of the
  device, its values to the row that the turn of another port names
  (`modbus600.c:1231`): a flagged row holds another device's values, or none
  (`measures_row`).

Others are in the models, or were seen while reading, and are not runs:

* A STARTDT on a live link resets the cursor but not the pending mark; the release that
  follows moves the cursor past the writer and old reports are sent again (3266).
* `Deal_Comm_Proce` sends its buffer with a length that was never set when it was counted
  in and finds no flag (`modbus600.c:1060`): an execution may be repeated.
* `read_index = uart0.int_rx->save_index = 0` clears port 0's index on every port
  (`modbus600.c:1753`): on the others the bytes of the next answer land behind the old one,
  and each of them lets the old answer be accepted again.
* A byte lost in an answer leaves the others at the start of the ring.  Nothing empties it
  before the next request, so that a port gets back into step only when a failed check
  happens to fall on the end of an answer, at a line error, or after ten seconds without a
  byte.
* `rt_hw_uart*_init` registers its device again, which puts an object that is in the list
  of devices into it a second time and closes a cycle; only `rt_device_find` walks that
  list, and only at start.
* The release of a report after 20 s is commented out (3857); TESTFR ends a link after about
  105 s where the message says 60 (3829-3844); the device restarts on a full table where
  the comment says that the connection is ignored (4185).
* `OP_GetMeasureValue` shares its cursor and its message between links, starves the first
  device of a port with several, and sends the last message again when nothing is new;
  `ProcessSendYC` writes through `pSendMeas` before it is set (771).
* `OP_ModifyTime` changes `TIME` before it knows the address, and the master is told that
  all is well (`time_write_flg` stays 0).  The seconds written to the clock can be 60
  (`e2timewdg.c:279`).  `Now` reads `TIME` in two words and can be an hour behind.

Hazards known and without a property: the port shifted out of an 8-bit variable
(`eth_callee.c:124`), a second link replacing a waiting command (165), an execution
without a selection (`eth_server103.c:2123`), the index of `<channel>` used unchecked
(`cmcfgfunc.c:291`), `temp_inf` wrapping at the 107th input (`rtdboperate.c:200`).  Each is
one statement with one outcome; a property would only repeat it.

## 4. Proofs

Every safety property of the passing runs, invariant or step property, and the refinement of
`SoeStream` is proved for every value of the constants.

| module | theorems | holds for |
|---|---|---|
| `Link104_proofs`, ring | `RingInvariant`, `TypeCorrect`, `RingLayout`, `SendsTheDueReport`, `SendsInOrder`, `CursorsKeepLaps`, `ScanSeesTheBacklog`, `RingImplementsStream` | every ring of 1..127 slots, any longer readers' ring, any links, any number of reports |
| `Link104_proofs`, link | `LinkInvariant`, `WindowIsKept`, `FreshAfterStart` | the same rings; any window and modulus with room for two frames beyond it, any frames in transit, fewer I frames from the peer than the modulus (`MAX_COMMANDS`) |
| `ConnTable_proofs` | `TableInvariant`, `TableTypes`, `TableIsExact`, `ResetsOnlyWhenFull`, `SuccessorAlwaysStarts` | any number of slots, clients, tasks |
| `RemoteControl_proofs` | `RemoteInvariant`, `CountIsEnough`, `FlagsAreCommands`, `HandOverInvariant`, `CommandsGoOutOnce` | any finite set of links, any commands and devices |
| `YxChange_proofs` | `YxInvariant`, `YxTypes`, `ChangesReported`, `EveryReportIsNews` | any ports, devices and inputs |
| `Port_proofs`, polling | `PollInvariant`, `DataIsRight`, `OkBelongsToTurn`, `GivenUpStaysOff` | any number of devices and width of the count |
| `Port_proofs`, rings | `RxInvariant`, `RxTypes`, `WholeIsAccepted`, `NoneTwice` | any ports, any answers of three bytes or more, any longer ring |
| `ConfigStore_proofs` | `ConfigHolds`, `BlankNever`, `AreasWhole`, `KeptAtRestart` | any number of ports, files and faults |
| `Measures_proofs` | `MeasuresTypes`, `CursorInside`, `TakenSent` | any links, any order of ports, any number of devices in use on each up to the rows of its buffer |
| `Clock_proofs` | `ClockTypes`, `DatesValid`, `ChipFollows`, `RestartInvariant`, `TicksAdd`, `RestartIsClose` | any lengths of the units (an even number of milliseconds) and any months that fit into bytes, any links, any bytes as settings and as what a chip shows; for the restart, a century longer than twice its error |

The assumptions are the named `ASSUME`s of the modules; TLC evaluates them in the runs.
They say what the code has by its constants: the ring's index shares a byte with the wrap
bit (`RingAssumption`), a window of 12 of 32768 numbers (`LinkAssumption`), 1000 ms to
the second, whose half the rounding of the seconds adds (`ClockAssumption`), and a
century in which a difference of two seconds has one sign (`PassAssumption`).
Every proof has the same frame: `Init => Inv`, one lemma per action that it keeps `Inv`,
and a temporal step.  What had to be added to make the invariants inductive:

* **Ring.** `WriterInv` says which slot is half written and what it still holds; `LapInv`
  ties the wrap bit to the number of laps; `CursorInv` puts a cursor within a lap of the
  writer on the slot `SlotOf` of the report it stands for.  `SlotOf` avoids the remainder:
  positions are given by the start of the writer's lap and a case per lap.
  `CursorInv` says nothing of a link further behind.  `CursorLaps` does, with a remainder: the
  slot a cursor is on and the report it stands for differ by whole laps.  It is
  inductive relative to `RingInv`, and with it a `Send` skips whole laps, which is the step
  `Deliver` of `SoeStream`: a `Send` maps to `Deliver`, establishing and dropping a link to
  `Attach` and `Detach`, the announcement of a report to `Raise`, all else to a stutter.
  For `BacklogSeen` the walk of a cursor is shown to cover one or two stretches of marked
  slots, whose lengths add up to the lag modulo the ring.
* **Link.** `LinkInv` takes the writer at rest (a link meets no half-written report in
  `Link104`) and a cursor that is in step with `base`, the reports at the last STARTDT, until one
  meets a pending report.  A link in step is then a link of `RingInv`, so that `SendsInOrder`'s
  lemmas give `StartsFresh`.  `WindowInv` carries the check of the window to the one or two
  frames it lets pass: in between nothing is received.
* **Table.** `RoomForSuccessor`: while the server waits for a task to end, that task still
  has its slot or has left one free.  It gives `SuccessorStarts` directly;
  `ResetOnlyWhenFull` counts: `TableExact` makes the table a one-to-one map from its full
  slots onto the tasks that live.
* **Commands.** `CallInv`: what a link's call holds at each of its points.  `CountCovers` is
  inductive as it stands, over the cardinality of two disjoint sets.  `HandOverInv`, for as
  long as no two calls overlap: the buffer holds the command of the only call
  (`AloneInCall`), a flag stands for an accepted command that no frame carried
  (`FlagsAreNew`) and no two flags for the same, and what was sent had been accepted
  (`SentWasAccepted`).  A frame empties its flag in the same pass, unless the count was lost.
* **Inputs.** `PendingInv`: inputs before `j` are reported, the others are as before;
  `ProcessInv`: RtdbProcess holds the value it is about to report.
* **Polling.** `AnswerDue`: the answer under way is the one asked for last.
* **Receive rings.** `CellsSent`: no byte in a ring is younger than the last one sent.
  `NewerFirst`: the ring of port 0 is empty or begins with a byte of an answer newer than
  the one accepted last.  The other ports zero its save index and not its length, so that
  "empty" has to be said of all three indexes: with the length at zero nothing is accepted,
  and the first byte after it goes to the first cell.  `WholeInv`: an undisturbed answer
  has not begun (`Untouched`), has as many bytes in the ring as were sent (`Arriving`), or
  has been accepted (`Handled`).
* **Measurements.** `RowsRead` follows from `CursorBack`: a cursor behind the devices in use was
  put there by a link that is still to compare it, and a link that sets it to zero brings
  it back for all.  The number of links, and how many of them read the same value for
  `++`, do not matter.  `TakenInv`: `RowsHold`
  (a flagged row of port 0 or 7 holds its device's values) and, for each point of a call
  that is alone, what it has seen and copied.
* **Clock.** A date stays one when either word is replaced, since hour and date travel in
  one; of a tick it takes that the day after the last of a month is the first of the next,
  and that no byte of the calendar overflows.  What a chip shows is a date because a chip
  that runs with `TIME` was given a time of the calendar, which `RestartInv` says, so that
  types, dates and `RestartInv` are one induction (`ClockInvariant`).  `RtcInv`: a pass that a
  setting disturbed leaves a chip that is behind, and the setting's flag is up or on its way.
  `TicksAdd` is about one step and needs no invariant but arithmetic: a time is a number in
  mixed radix (`StampParts`), a carry empties one digit and adds one to the next, and the days
  before a month add up.  `RestartInv` has two parts: `PassInv` (what a pass has read and what
  it will read are the fourteen reads of one time, `ReadFrom`, not longer ago than the pass;
  `WrittenStamp` puts their digits together again) and `AheadInv` (how far a chip that runs with
  `TIME` is ahead of it: a second more once `TIME` itself has had a second 60 from the chip).
* **Configuration.** `Transfer` (a transfer not hit stays on the bus), `AddressFirst` (the mail
  comes after the network address, the flag after its area), `HalfWritten`, `Copied`.

`DaysBefore` of `Clock` is a recursive function over the months.  That it exists and adds one
month at a time is proved in `Clock_proofs` without the library's induction: of the months
for which the sum fails there would be a least (`LeastNumber`), and there is none.

Only model-checked: all liveness (`LinkDelivers`, `PickedUp`,
`ChangeReported`, `EveryoneAsked`, `Converges`, `FileTakesEffect`, `Collected`,
`RtcWritten`), which rests on fairness and on ENABLED and is out of the prover's reach.

## 5. Not modelled, and plan

Left out for good: check sums (a pure function of bytes, the models tell good frames from
bad), start-up, registers and DMA, the vendored kernel and stack, code that nothing calls
or builds (`confresolve.c`, `dlt645.c`, the ADC), and the copies of `modbus600.c` for other
devices.  In `Clock`, the drift of the chip and the time that passes without power; what
a chip given second 60 shows is taken, as external behaviour, to be the next minute's first
second or, until that second is over, 60.

In this order, what remains:

1. Energy: `OP_GetPowerEnergy103` with its freeze (`eth_callee.c` 970-1152), whose values are
   static over devices and links; `OP_GetDIState`.
2. `Link104`: the general interrogation in frames, TESTFR and the idle count, so that a dead
   peer is noticed; settings and strap.
3. `Poller` and `RxRing` composed into the task of a port, with what the second acceptance of
   an old answer does to the turn.
4. `DebugRing`: the message log, its overrun, and `DebugCommuTsk`.
5. Abstract specifications: a poller that serves devices in turn, a command register that is
   executed at most once, a configuration that changes in one step; each implemented by its
   module.
6. Proofs for what these add, each with its module: no safety property of the present runs is
   without one.  Of `Link104`, the numbers of the peer beyond their first wrap, which needs
   `peerSent` counted modulo `SEQ`.
