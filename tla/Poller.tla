------------------------------- MODULE Poller -------------------------------
(***************************************************************************)
(* The polling of the devices of a serial port: Deal_Comm_Proce judges what  *)
(* came of the last frame, moves on and sends the next request or command;   *)
(* Receive_Commdata_Proce files an answer (modbus600.c; the other two        *)
(* protocols are copies of it).  The port is 0 or 7: the others file          *)
(* measurements and energy by the turn of yet another port.                  *)
(*                                                                         *)
(* Both run in the task of the port (uart.c): an answer when the interrupt   *)
(* has released the semaphore, a pass when nothing came for 50 ms and        *)
(* uart_read_time is over.  Nothing in an answer is compared with what was   *)
(* asked: it is filed under reddevindex and uart_redycyxflg.                 *)
(***************************************************************************)
EXTENDS Integers, FiniteSets

CONSTANTS
    LAST,          \* position of the last device in use (devusednum - 1)
    WIDTH,         \* values of uart_RxErrcount, 8 bits
    MAX_COMMANDS,  \* bound on the commands
    MAX_NOISE,     \* bound on the answers lost, spoiled or late
    MAX_TURNS      \* bound on how often a device dies or comes back

ASSUME PollAssumption ==
    /\ LAST \in Nat /\ WIDTH \in Nat /\ WIDTH > 3
    /\ MAX_COMMANDS \in Nat /\ MAX_NOISE \in Nat /\ MAX_TURNS \in Nat

Devices == 0..LAST
\* uart_redycyxflg: measurements, inputs, energy, and what comes after each.
Requests == {"yc", "yx", "ym"}
Following(kind) ==
    CASE kind = "yc" -> "yx" [] kind = "yx" -> "ym" [] kind = "ym" -> "yc"
Operations == {"execute", "strap", "select"}

VARIABLES
    reddevindex,     \* the device it is the turn of
    redycyxflg,      \* what the devices are asked in this round
    dev,             \* device -> [ok, miss, gaveup, online]: uart_RxOkflg,
                     \* uart_RxErrcount, uart_TxErrflg, uart_devonline
    yk,              \* device -> the command that waits (uart_ykflg), or "none"
    alive,           \* devices that answer what they are sent
    wire,            \* answers that have not arrived yet
    commands, noise, turns,   \* counts of what is bounded
    late,            \* ghost: a frame was sent before the answer to another came
    misfiled         \* ghost: data were stored as what they are not

vars == <<reddevindex, redycyxflg, dev, yk, alive, wire, commands, noise, turns,
          late, misfiled>>
counts == <<commands, noise, turns>>

Init ==
    /\ reddevindex = 0 /\ redycyxflg = "yc"
    /\ dev = [d \in Devices |->
                 [ok |-> FALSE, miss |-> 0, gaveup |-> FALSE, online |-> FALSE]]
    /\ yk = [d \in Devices |-> "none"]
    /\ alive \in SUBSET Devices
    /\ wire = {}
    /\ commands = 0 /\ noise = 0 /\ turns = 0
    /\ late = FALSE /\ misfiled = FALSE

-----------------------------------------------------------------------------
\* Fault: a count that does not wrap.
MissedUnwrapped(r) == r.miss + 1
Missed(r) == IF r.miss = WIDTH - 1 THEN 0 ELSE r.miss + 1

\* Fault: a device given up is asked for ever.
MovesNever(r) == r.ok \/ (~r.gaveup /\ Missed(r) > 2)
\* The next device: the last frame was answered, or the device has been given
\* up, or is given up now.
Moves(r) == r.ok \/ r.gaveup \/ Missed(r) > 2

\* Fault: a device that is given up stays on line.
JudgeOnline(r) ==
    CASE r.ok -> [r EXCEPT !.ok = FALSE]
      [] ~r.ok /\ r.gaveup -> [r EXCEPT !.miss = Missed(r), !.online = FALSE]
      [] ~r.ok /\ ~r.gaveup /\ Missed(r) > 2 ->
             [ok |-> FALSE, miss |-> 0, gaveup |-> TRUE, online |-> r.online]
      [] OTHER -> [r EXCEPT !.miss = Missed(r)]
\* Fault: the answer is not taken off.
JudgeKeepOk(r) ==
    CASE r.ok -> r
      [] ~r.ok /\ r.gaveup -> [r EXCEPT !.miss = Missed(r), !.online = FALSE]
      [] ~r.ok /\ ~r.gaveup /\ Missed(r) > 2 ->
             [ok |-> FALSE, miss |-> 0, gaveup |-> TRUE, online |-> FALSE]
      [] OTHER -> [r EXCEPT !.miss = Missed(r)]
\* What the missing or accepted answer makes of the flags of the device; only
\* giving up clears the count of misses.
Judge(r) ==
    CASE r.ok -> [r EXCEPT !.ok = FALSE]
      [] ~r.ok /\ r.gaveup -> [r EXCEPT !.miss = Missed(r), !.online = FALSE]
      [] ~r.ok /\ ~r.gaveup /\ Missed(r) > 2 ->
             [ok |-> FALSE, miss |-> 0, gaveup |-> TRUE, online |-> FALSE]
      [] OTHER -> [r EXCEPT !.miss = Missed(r)]

\* The round is over: the next kind of request.
RoundOver == Moves(dev[reddevindex]) /\ reddevindex = LAST
NextDevice ==
    IF ~Moves(dev[reddevindex]) THEN reddevindex
    ELSE IF reddevindex = LAST THEN 0 ELSE reddevindex + 1
NextRequest == IF RoundOver THEN Following(redycyxflg) ELSE redycyxflg

\* A frame for device d, which answers if it is alive; a selection is no frame.
\* An answer still to come is late now: it stays on the wire.
Transmit(d, kind) ==
    /\ wire' = IF d \in alive /\ kind # "select"
               THEN wire \cup {[dev |-> d, kind |-> kind]} ELSE wire
    /\ noise' = IF wire = {} THEN noise ELSE noise + 1
    /\ late' = (late \/ wire # {})
    /\ noise' <= MAX_NOISE

\* Fault: the kind of request moves on after the request is made.
PassRequestEarly ==
    /\ \A d \in Devices : yk[d] = "none"
    /\ dev' = [dev EXCEPT ![reddevindex] = Judge(@)]
    /\ reddevindex' = NextDevice
    /\ redycyxflg' = NextRequest
    /\ Transmit(NextDevice, redycyxflg)
    /\ UNCHANGED <<yk, alive, commands, turns, misfiled>>

\* Deal_Comm_Proce without a command.
PassRequest ==
    /\ \A d \in Devices : yk[d] = "none"
    /\ dev' = [dev EXCEPT ![reddevindex] = Judge(@)]
    /\ reddevindex' = NextDevice
    /\ redycyxflg' = NextRequest
    /\ Transmit(NextDevice, NextRequest)
    /\ UNCHANGED <<yk, alive, commands, turns, misfiled>>

\* Deal_Comm_Proce with a command: the turn goes to its device, wherever the
\* round stood.  A selection sends nothing and is judged as a miss next time.
PassCommand(d) ==
    /\ yk[d] # "none" /\ \A e \in Devices : yk[e] # "none" => d <= e
    /\ dev' = [dev EXCEPT ![reddevindex] = Judge(@)]
    /\ reddevindex' = d
    /\ redycyxflg' = NextRequest
    /\ yk' = [yk EXCEPT ![d] = "none"]
    /\ Transmit(d, yk[d])
    /\ UNCHANGED <<alive, commands, turns, misfiled>>

\* Where data of a kind are filed: inputs (function 2) always as inputs, the
\* answers of function 4 by the round, and nowhere in a round for inputs.
Misfiles(answer) ==
    /\ answer.kind \in Requests
    /\ answer.kind = "yx" \/ redycyxflg # "yx"
    /\ answer.dev # reddevindex \/ answer.kind \notin {"yx", redycyxflg}

\* An answer that passes the checks; one to a strap, of another function, is
\* discarded and not taken for an answer.
Receive(answer) ==
    /\ wire' = wire \ {answer}
    /\ dev' = [dev EXCEPT ![reddevindex] =
                  IF answer.kind = "strap"
                  THEN [ok |-> @.ok, miss |-> @.miss, gaveup |-> @.gaveup, online |-> TRUE]
                  ELSE [ok |-> TRUE, miss |-> @.miss, gaveup |-> FALSE, online |-> TRUE]]
    /\ misfiled' = (misfiled \/ Misfiles(answer))
    /\ UNCHANGED <<reddevindex, redycyxflg, yk, alive, counts, late>>

\* An answer is spoiled: the device is on line before the check finds it, and a
\* second byte of 5 is not checked at all.
ReceiveSpoiled(answer) ==
    /\ noise < MAX_NOISE /\ noise' = noise + 1
    /\ wire' = wire \ {answer}
    /\ \E control \in BOOLEAN :
           dev' = [dev EXCEPT ![reddevindex] =
                      IF control
                      THEN [ok |-> TRUE, miss |-> @.miss, gaveup |-> FALSE, online |-> TRUE]
                      ELSE [ok |-> @.ok, miss |-> @.miss, gaveup |-> @.gaveup, online |-> TRUE]]
    /\ UNCHANGED <<reddevindex, redycyxflg, yk, alive, commands, turns, late, misfiled>>

-----------------------------------------------------------------------------
Lose(answer) ==
    /\ noise < MAX_NOISE /\ noise' = noise + 1
    /\ wire' = wire \ {answer}
    /\ UNCHANGED <<reddevindex, redycyxflg, dev, yk, alive, commands, turns, late,
                   misfiled>>

\* A device stops answering, or starts again.
Turn(d) ==
    /\ turns < MAX_TURNS /\ turns' = turns + 1
    /\ alive' = IF d \in alive THEN alive \ {d} ELSE alive \cup {d}
    /\ UNCHANGED <<reddevindex, redycyxflg, dev, yk, wire, commands, noise, late,
                   misfiled>>

\* OP_RemoteToRtdb leaves a command for a device that is on line (RemoteControl).
Command(d, operation) ==
    /\ commands < MAX_COMMANDS /\ commands' = commands + 1
    /\ dev[d].online /\ yk[d] = "none"
    /\ yk' = [yk EXCEPT ![d] = operation]
    /\ UNCHANGED <<reddevindex, redycyxflg, dev, alive, wire, noise, turns, late,
                   misfiled>>

Pass == PassRequest \/ \E d \in Devices : PassCommand(d)
Next ==
    \/ Pass
    \/ \E answer \in wire : Receive(answer) \/ ReceiveSpoiled(answer) \/ Lose(answer)
    \/ \E d \in Devices : Turn(d) \/ \E operation \in Operations : Command(d, operation)

\* The task of the port is the one of highest priority: it keeps polling, and an
\* answer that has arrived is handled.
Fairness == WF_vars(Pass) /\ WF_vars(\E answer \in wire : Receive(answer))

Spec == Init /\ [][Next]_vars /\ Fairness

-----------------------------------------------------------------------------
Flags == [ok: BOOLEAN, miss: 0..(WIDTH - 1), gaveup: BOOLEAN, online: BOOLEAN]
Answers == [dev: Devices, kind: Requests \cup {"execute", "strap"}]

\* Types of the polling of a port.
TypeOK ==
    /\ reddevindex \in Devices /\ redycyxflg \in Requests
    /\ dev \in [Devices -> Flags]
    /\ yk \in [Devices -> Operations \cup {"none"}]
    /\ alive \subseteq Devices
    /\ wire \subseteq Answers
    /\ commands \in 0..MAX_COMMANDS /\ noise \in 0..MAX_NOISE /\ turns \in 0..MAX_TURNS
    /\ late \in BOOLEAN /\ misfiled \in BOOLEAN

\* Unless an answer came after the next frame was sent, data are stored for the
\* device they came from and as what they are, although neither is checked.
RightData == ~late => ~misfiled

\* An accepted answer is judged at the next pass: uart_RxOkflg is up only for
\* the device it is the turn of, also when a command has moved the turn, and
\* that device is not given up.
OkIsCurrent ==
    \A d \in Devices : dev[d].ok => d = reddevindex /\ ~dev[d].gaveup

\* A device given up is off line; a frame that fails the check puts it on line
\* only for as long as it is its turn.
GivenUpIsOff ==
    \A d \in Devices : dev[d].gaveup /\ dev[d].online => d = reddevindex

\* The answer on its way is the one asked for last.
AnswerDue ==
    ~late => \A answer \in wire :
                 /\ answer.dev = reddevindex
                 /\ answer.kind \in Requests => answer.kind = redycyxflg

\* The inductive invariant behind the three.
PollInv == TypeOK /\ RightData /\ OkIsCurrent /\ GivenUpIsOff /\ AnswerDue

Asks(d, kind) == PassRequest /\ reddevindex' = d /\ redycyxflg' = kind

\* Every device is asked for everything again and again, whichever of them are
\* silent: a silent device costs a bounded number of passes.
EveryoneAsked ==
    \A d \in Devices, kind \in Requests : []<><<Asks(d, kind)>>_vars

\* When the disturbances have ended, uart_devonline settles to the truth: the
\* devices that answer are on line and stay so, the others are off line.
Converges == \A d \in Devices : <>[](dev[d].online <=> d \in alive)
=============================================================================
