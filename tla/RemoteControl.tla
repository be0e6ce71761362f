--------------------------- MODULE RemoteControl ---------------------------
(***************************************************************************)
(* Remote control, from the 104 link that receives a command to the frame   *)
(* on the serial line: OP_RemoteCtrlSelt and OP_RemoteCtrlExec hand it to   *)
(* OP_RemoteToRtdb (eth_callee.c), which leaves it in yk_data_buf and       *)
(* raises uart_ykflg; Deal_Comm_Proce of the port (modbus600.c) picks it up.*)
(*                                                                         *)
(* The link tasks (priority 20, time slices) interleave between any two of  *)
(* their statements; the task of the port (priority 10) preempts them, and  *)
(* its pass is one step.  OP_DealRealAddr shifts the port out of its 8-bit  *)
(* variable, so that every command is handed to port 0: the flags, counters *)
(* and buffers below are port 0's.                                          *)
(***************************************************************************)
EXTENDS Integers, FiniteSets, Functions

CONSTANTS
    Links,       \* tasks that serve a 104 link
    Commands,    \* what they receive
    Addr, Kind,  \* command -> device address, "select" or "execute"
    Ports,       \* the serial ports, numbers
    DevAddr,     \* port -> (position -> device address), the configuration
    DEVICEMAXNUM,\* devices of a port
    NONE,        \* no command
    POLL         \* a request for measurements, inputs or energy

Pos == 0..(DEVICEMAXNUM - 1)
Kinds == {"select", "execute"}

ASSUME RemoteAssumption ==
    /\ DEVICEMAXNUM \in Nat \ {0}
    /\ IsFiniteSet(Links) /\ Ports \subseteq Nat
    /\ \A c \in Commands : Kind[c] \in Kinds
    /\ NONE \notin Commands /\ POLL \notin Commands

VARIABLES
    devonline,    \* position -> the device of port 0 answers
    ykflg,        \* position -> a command waits in its buffer
    rtdbflg,      \* count of commands handed over
    yk_data_buf,  \* position -> the command left for it
    yk_buf,       \* the static buffer of each of the two functions
    tx,           \* what the transmit buffer of the port holds
    pc,           \* link -> [at, cmd, pos, count]: the point in OP_RemoteToRtdb,
                  \* the command, the position it is for, the count it has read
    accepted,     \* ghost: commands whose hand-over is complete
    reply,        \* ghost: command -> "none", "yes", "no"
    frames,       \* ghost: command -> frames sent that carry it, 0..2
    raced,        \* ghost: the count was taken or changed under a link's feet,
                  \* or wrapped
    overlapped    \* ghost: a call began while another link was in one

vars == <<devonline, ykflg, rtdbflg, yk_data_buf, yk_buf, tx, pc,
          accepted, reply, frames, raced, overlapped>>
port == <<devonline, ykflg, rtdbflg, yk_data_buf, tx, frames>>

Idle == [at |-> "idle", cmd |-> NONE, pos |-> 0, count |-> 0]
Pending == {p \in Pos : ykflg[p]}

Init ==
    /\ devonline \in [Pos -> BOOLEAN]
    /\ ykflg = [p \in Pos |-> FALSE]
    /\ rtdbflg = 0
    /\ yk_data_buf = [p \in Pos |-> NONE]
    /\ yk_buf = [k \in Kinds |-> NONE]
    /\ tx = POLL
    /\ pc = [l \in Links |-> Idle]
    /\ accepted = {}
    /\ reply = [c \in Commands |-> "none"]
    /\ frames = [c \in Commands |-> 0]
    /\ raced = FALSE
    /\ overlapped = FALSE

-----------------------------------------------------------------------------
\* OP_DealRealAddr: the positions the address is found at, port by port.  The
\* port is lost, and it is port 0's device that must be on line.
Found(addr) == {p \in Ports : addr \in Range(DevAddr[p])}
RealAddr(addr) ==
    {i \in Pos : \E p \in Found(addr) :
        /\ \A q \in Found(addr) : p <= q
        /\ i \in DOMAIN DevAddr[p] /\ DevAddr[p][i] = addr
        /\ \A j \in DOMAIN DevAddr[p] : DevAddr[p][j] = addr => i <= j
        /\ devonline[i]}

\* OP_RemoteCtrlSelt and OP_RemoteCtrlExec up to the call: an address that is
\* unknown or off line is refused.
Issue(l, c) ==
    /\ pc[l] = Idle
    /\ reply[c] = "none" /\ \A k \in Links : pc[k].cmd # c
    /\ \/ /\ RealAddr(Addr[c]) = {}
          /\ reply' = [reply EXCEPT ![c] = "no"]
          /\ UNCHANGED <<pc, yk_buf>>
       \/ \E i \in RealAddr(Addr[c]) :
              /\ yk_buf' = [yk_buf EXCEPT ![Kind[c]] = c]
              /\ pc' = [pc EXCEPT ![l] =
                            [at |-> "test", cmd |-> c, pos |-> i, count |-> 0]]
              /\ UNCHANGED reply
    /\ overlapped' = (overlapped \/ \E k \in Links : pc[k] # Idle)
    /\ UNCHANGED <<port, accepted, raced>>

Refuse(l) ==
    /\ reply' = [reply EXCEPT ![pc[l].cmd] = "no"]
    /\ pc' = [pc EXCEPT ![l] = Idle]
Goto(l, at) ==
    pc' = [pc EXCEPT ![l] = [at |-> at, cmd |-> @.cmd, pos |-> @.pos, count |-> @.count]]

\* A command is still waiting for this device: refuse.
Test(l) ==
    /\ pc[l].at = "test"
    /\ IF ykflg[pc[l].pos] THEN Refuse(l) ELSE Goto(l, "count") /\ UNCHANGED reply
    /\ UNCHANGED <<port, yk_buf, accepted, raced, overlapped>>

\* uart_rtdbflg++ reads, then writes 8 bits.
CountRead(l) ==
    /\ pc[l].at = "count"
    /\ pc' = [pc EXCEPT ![l] = [at |-> "counted", cmd |-> @.cmd, pos |-> @.pos,
                                count |-> rtdbflg]]
    /\ UNCHANGED <<port, yk_buf, accepted, reply, raced, overlapped>>
CountWrite(l) ==
    /\ pc[l].at = "counted"
    /\ rtdbflg' = IF pc[l].count = 255 THEN 0 ELSE pc[l].count + 1
    /\ raced' = (raced \/ rtdbflg # pc[l].count \/ pc[l].count = 255)
    /\ Goto(l, "online")
    /\ UNCHANGED <<devonline, ykflg, yk_data_buf, tx, frames, yk_buf, accepted, reply,
                   overlapped>>

\* Fault: the flag is raised before the command is in the buffer.
TestOnlineFlag(l) ==
    /\ pc[l].at = "online"
    /\ IF devonline[pc[l].pos] THEN Goto(l, "flag") /\ UNCHANGED reply
                               ELSE Refuse(l)
    /\ UNCHANGED <<port, yk_buf, accepted, raced, overlapped>>
\* The device may have gone off line since OP_DealRealAddr.
TestOnline(l) ==
    /\ pc[l].at = "online"
    /\ IF devonline[pc[l].pos] THEN Goto(l, "copy") /\ UNCHANGED reply
                               ELSE Refuse(l)
    /\ UNCHANGED <<port, yk_buf, accepted, raced, overlapped>>

Copy(l) ==
    /\ pc[l].at = "copy"
    /\ yk_data_buf' = [yk_data_buf EXCEPT ![pc[l].pos] = yk_buf[Kind[pc[l].cmd]]]
    /\ Goto(l, "flag")
    /\ UNCHANGED <<devonline, ykflg, rtdbflg, tx, frames, yk_buf, accepted,
                   reply, raced, overlapped>>

\* The function ends without a return statement: the caller compares whatever
\* the register holds with TRUE.
Flag(l) ==
    /\ pc[l].at = "flag"
    /\ ykflg' = [ykflg EXCEPT ![pc[l].pos] = TRUE]
    /\ accepted' = accepted \cup {pc[l].cmd}
    /\ \E answer \in {"yes", "no"} :
           reply' = [reply EXCEPT ![pc[l].cmd] = answer]
    /\ pc' = [pc EXCEPT ![l] = Idle]
    /\ UNCHANGED <<devonline, rtdbflg, yk_data_buf, tx, frames, yk_buf, raced, overlapped>>

-----------------------------------------------------------------------------
SendFrame(c) ==
    /\ tx' = c
    /\ frames' = IF c = POLL THEN frames
                 ELSE [frames EXCEPT ![c] = IF @ < 2 THEN @ + 1 ELSE 2]

\* trans_yk_cmd_modbus: a selection sends nothing, an execution one frame.
Transmit(c) ==
    IF Kind[c] = "select" THEN UNCHANGED <<tx, frames>> ELSE SendFrame(c)

\* Fault: the count goes down only when a frame was sent.
PollCommandSent ==
    /\ rtdbflg # 0
    /\ \E p \in Pending :
           /\ \A q \in Pending : p <= q
           /\ Transmit(yk_data_buf[p])
           /\ ykflg' = [ykflg EXCEPT ![p] = FALSE]
           /\ rtdbflg' = IF Kind[yk_data_buf[p]] = "select" THEN 0 ELSE rtdbflg - 1
    /\ UNCHANGED <<devonline, yk_data_buf, yk_buf, pc, accepted, reply, raced, overlapped>>

\* Fault: the flag stays up.
PollCommandKeep ==
    /\ rtdbflg # 0
    /\ \E p \in Pending :
           /\ \A q \in Pending : p <= q
           /\ Transmit(yk_data_buf[p])
    /\ rtdbflg' = rtdbflg - 1
    /\ UNCHANGED <<ykflg, devonline, yk_data_buf, yk_buf, pc, accepted, reply, raced, overlapped>>

\* Deal_Comm_Proce with a command waiting: the first of them.
PollCommand ==
    /\ rtdbflg # 0
    /\ \E p \in Pending :
           /\ \A q \in Pending : p <= q
           /\ Transmit(yk_data_buf[p])
           /\ ykflg' = [ykflg EXCEPT ![p] = FALSE]
    /\ rtdbflg' = rtdbflg - 1
    /\ UNCHANGED <<devonline, yk_data_buf, yk_buf, pc, accepted, reply, raced, overlapped>>

\* The count says there is one and no flag is up: data_num is not initialised.
\* Zero sends nothing; otherwise the transmit buffer goes out again.
PollNothing ==
    /\ rtdbflg # 0 /\ Pending = {}
    /\ SendFrame(tx) \/ UNCHANGED <<tx, frames>>
    /\ rtdbflg' = rtdbflg - 1
    /\ raced' = TRUE
    /\ UNCHANGED <<devonline, ykflg, yk_data_buf, yk_buf, pc, accepted, reply,
                   overlapped>>

\* Fault: the count goes down at every pass.
PollCycleDown ==
    /\ rtdbflg = 0
    /\ SendFrame(POLL)
    /\ rtdbflg' = rtdbflg - 1
    /\ UNCHANGED <<devonline, ykflg, yk_data_buf, yk_buf, pc, accepted, reply, raced, overlapped>>

\* No command: the next request of the polling cycle.
PollCycle ==
    /\ rtdbflg = 0
    /\ SendFrame(POLL)
    /\ UNCHANGED <<devonline, ykflg, rtdbflg, yk_data_buf, yk_buf, pc, accepted,
                   reply, raced, overlapped>>

\* The polling cycle finds a device answering again, or silent.
Turn(p) ==
    /\ devonline' = [devonline EXCEPT ![p] = ~@]
    /\ UNCHANGED <<ykflg, rtdbflg, yk_data_buf, tx, frames, yk_buf, pc, accepted,
                   reply, raced, overlapped>>

Remote(l) == Test(l) \/ CountRead(l) \/ CountWrite(l) \/ TestOnline(l)
             \/ Copy(l) \/ Flag(l)
Poll == PollCommand \/ PollNothing \/ PollCycle
Next == \/ \E l \in Links : Remote(l) \/ \E c \in Commands : Issue(l, c)
        \/ Poll
        \/ \E p \in Pos : Turn(p)

\* The port keeps polling, a link task finishes a call it began.
Fairness == WF_vars(Poll) /\ \A l \in Links : WF_vars(Remote(l))

Spec == Init /\ [][Next]_vars /\ Fairness

-----------------------------------------------------------------------------
Ats == {"idle", "test", "count", "counted", "online", "copy", "flag"}

\* Types of the shared flags and buffers and of the links' calls.
TypeOK ==
    /\ devonline \in [Pos -> BOOLEAN] /\ ykflg \in [Pos -> BOOLEAN]
    /\ rtdbflg \in 0..255
    /\ yk_data_buf \in [Pos -> Commands \cup {NONE}]
    /\ yk_buf \in [Kinds -> Commands \cup {NONE}]
    /\ tx \in Commands \cup {POLL}
    /\ pc \in [Links -> [at: Ats, cmd: Commands \cup {NONE}, pos: Pos, count: 0..255]]
    /\ accepted \subseteq Commands
    /\ reply \in [Commands -> {"none", "yes", "no"}]
    /\ frames \in [Commands -> 0..2]
    /\ raced \in BOOLEAN /\ overlapped \in BOOLEAN

\* Links that have counted their command and not yet raised its flag.
HandingOver == {l \in Links : pc[l].at \in {"online", "copy", "flag"}}

\* As long as no link lost the count, it covers every command that waits and
\* every one on its way: the port will come for each of them.
CountCovers ==
    ~raced => rtdbflg >= Cardinality(Pending) + Cardinality(HandingOver)

\* A raised flag stands for a command in the buffer of that device, so that
\* Deal_Comm_Proce never turns an empty buffer into a frame.
FlagMeansCommand == \A p \in Pending : yk_data_buf[p] # NONE

\* A call that has begun has a command, in the static buffer too (its own or
\* another link's); one about to raise the flag has it in the device's buffer.
CallInv ==
    \A l \in Links : pc[l].at # "idle" =>
        /\ pc[l].cmd \in Commands
        /\ yk_buf[Kind[pc[l].cmd]] \in Commands
        /\ pc[l].at = "flag" => yk_data_buf[pc[l].pos] \in Commands

\* The inductive invariant behind the three.
RemoteInv == TypeOK /\ CountCovers /\ FlagMeansCommand /\ CallInv

\* Why a frame is new when no two calls overlapped: the one call there may be
\* is for a command not yet accepted, whose device has no flag up once it has
\* been tested and whose buffers nobody else writes; each flag stands for an
\* accepted command of its own that no frame has carried.
InCall == {l \in Links : pc[l] # Idle}
AloneInCall ==
    /\ \A k, l \in InCall : k = l
    /\ \A l \in InCall :
        /\ pc[l].at # "idle" /\ pc[l].cmd \notin accepted
        /\ yk_buf[Kind[pc[l].cmd]] = pc[l].cmd
        /\ pc[l].at # "test" => pc[l].pos \notin Pending
        /\ pc[l].at = "flag" => yk_data_buf[pc[l].pos] = pc[l].cmd
FlagsAreNew ==
    /\ \A p \in Pending : yk_data_buf[p] \in accepted /\ frames[yk_data_buf[p]] = 0
    /\ \A p, q \in Pending : yk_data_buf[p] = yk_data_buf[q] => p = q
SentWasAccepted ==
    /\ \A c \in Commands : frames[c] > 0 => c \in accepted
    /\ \A c \in accepted : reply[c] # "none"
    /\ tx # POLL => frames[tx] > 0
HandOverInv == ~overlapped => AloneInCall /\ FlagsAreNew /\ SentWasAccepted

\* A command that waits is picked up, unless a race took its count.
PickedUp ==
    \A p \in Pos : (ykflg[p] /\ ~raced) ~> (~ykflg[p] \/ raced)

Sends(c) == frames'[c] > frames[c]

\* As long as the calls of two links did not overlap and the count was not lost,
\* a frame carries a command only once, and only one handed over completely.
SentOnceAccepted ==
    [][~overlapped /\ ~raced' =>
           \A c \in Commands : Sends(c) => frames[c] = 0 /\ c \in accepted]_vars
=============================================================================
