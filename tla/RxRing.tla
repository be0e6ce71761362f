------------------------------- MODULE RxRing -------------------------------
(***************************************************************************)
(* The receive buffers of the serial ports: the interrupt stores a byte      *)
(* (rt_uart_save, uart.c), the task of the port takes the semaphore and      *)
(* looks for a whole answer at the first byte of the buffer                  *)
(* (Receive_Commdata_Proce, modbus600.c), and sets the port up again after a  *)
(* long silence.                                                            *)
(*                                                                         *)
(* Answers are numbered; a byte is the number of its answer and its place in *)
(* it.  An answer has FRAME bytes, of which the second and third tell its    *)
(* length.  When an answer has been accepted the code clears its own read    *)
(* index but the save index of port 0.                                       *)
(***************************************************************************)
EXTENDS Integers

CONSTANTS
    PORTS,        \* the ports, port 0 among them
    SIZE,         \* RS485_RX_BUFFER_SIZE
    FRAME,        \* bytes of an answer
    MAX_ANSWERS   \* bound on the answers on a port

ASSUME RxAssumption ==
    /\ PORTS \subseteq Nat /\ 0 \in PORTS
    /\ FRAME \in Nat /\ FRAME > 2 /\ SIZE \in Nat /\ SIZE > FRAME
    /\ MAX_ANSWERS \in Nat

Cells == 0..(SIZE - 1)
Bytes == [answer: 0..MAX_ANSWERS, place: 0..(FRAME - 1)]

VARIABLES
    rx_buffer, save_index, read_index, rx_length,   \* int_rx of the port
    sem,         \* port -> the interrupt has released the semaphore
    sent,        \* port -> [answer, place]: bytes of the answer on the line so far
    accepted,    \* port -> the answer accepted last
    whole        \* ghost: port -> the answer began at the first byte of an empty
                 \* buffer and nothing has disturbed it

rxVars == <<rx_buffer, save_index, read_index, rx_length, sem, sent, accepted, whole>>

RxInit ==
    /\ rx_buffer = [p \in PORTS |-> [c \in Cells |-> [answer |-> 0, place |-> 0]]]
    /\ save_index = [p \in PORTS |-> 0]
    /\ read_index = [p \in PORTS |-> 0]
    /\ rx_length = [p \in PORTS |-> 0]
    /\ sem = [p \in PORTS |-> FALSE]
    /\ sent = [p \in PORTS |-> [answer |-> 0, place |-> FRAME]]
    /\ accepted = [p \in PORTS |-> 0]
    /\ whole = [p \in PORTS |-> FALSE]

-----------------------------------------------------------------------------
Up(index) == IF index = SIZE - 1 THEN 0 ELSE index + 1

\* Fault: the length is not corrected for a buffer that has wrapped.
LengthPlain(read, save) == save - read
Length(read, save) == IF read > save THEN SIZE - read + save ELSE save - read

\* The next request is answered: the task has been idle for 50 ms, so that all
\* that came before has been handled.  What was cut off before stays cut off.
Answer(p) ==
    /\ ~sem[p]
    /\ sent[p].answer < MAX_ANSWERS
    /\ sent' = [sent EXCEPT ![p] = [answer |-> sent[p].answer + 1, place |-> 0]]
    /\ whole' = [whole EXCEPT ![p] = save_index[p] = 0 /\ read_index[p] = 0]
    /\ UNCHANGED <<rx_buffer, save_index, read_index, rx_length, sem, accepted>>

\* rt_uart_save of one byte, and the semaphore.
Byte(p) ==
    /\ sent[p].place < FRAME
    /\ sent' = [sent EXCEPT ![p] = [answer |-> @.answer, place |-> @.place + 1]]
    /\ rx_buffer' = [rx_buffer EXCEPT ![p][save_index[p]] = sent[p]]
    /\ save_index' = [save_index EXCEPT ![p] = Up(@)]
    /\ read_index' = [read_index EXCEPT ![p] =
                         IF @ = Up(save_index[p]) THEN Up(@) ELSE @]
    /\ rx_length' = [rx_length EXCEPT ![p] = Length(read_index'[p], save_index'[p])]
    /\ sem' = [sem EXCEPT ![p] = TRUE]
    /\ UNCHANGED <<accepted, whole>>

\* A byte is lost on the line.
LoseByte(p) ==
    /\ sent[p].place < FRAME
    /\ sent' = [sent EXCEPT ![p] = [answer |-> @.answer, place |-> @.place + 1]]
    /\ whole' = [whole EXCEPT ![p] = FALSE]
    /\ UNCHANGED <<rx_buffer, save_index, read_index, rx_length, sem, accepted>>

\* The interrupt finds a framing or overrun error: the buffer is emptied.
LineError(p) ==
    /\ sent[p].place < FRAME
    /\ sent' = [sent EXCEPT ![p] = [answer |-> @.answer, place |-> @.place + 1]]
    /\ save_index' = [save_index EXCEPT ![p] = 0]
    /\ read_index' = [read_index EXCEPT ![p] = 0]
    /\ rx_length' = [rx_length EXCEPT ![p] = 0]
    /\ whole' = [whole EXCEPT ![p] = FALSE]
    /\ UNCHANGED <<rx_buffer, sem, accepted>>

-----------------------------------------------------------------------------
\* The second and third byte of the buffer are those of an answer; otherwise they
\* ask for any length.
Headed(p) == /\ rx_buffer[p][1].place = 1 /\ rx_buffer[p][2].place = 2
             /\ rx_buffer[p][1].answer = rx_buffer[p][2].answer
ReceiveNumber(p) == IF Headed(p) THEN {FRAME} ELSE 0..SIZE
\* The check of the answer at the start of the buffer.
CheckOK(p) ==
    \A c \in 0..(FRAME - 1) :
        rx_buffer[p][c] = [answer |-> rx_buffer[p][0].answer, place |-> c]

\* Fault: the last byte is waited for although it has come.
EnoughMore(p, n) == rx_length[p] > n
Enough(p, n) == rx_length[p] >= n

\* Not enough bytes yet.
Wait(p) ==
    /\ sem[p]
    /\ \E n \in ReceiveNumber(p) : ~Enough(p, n)
    /\ sem' = [sem EXCEPT ![p] = FALSE]
    /\ UNCHANGED <<rx_buffer, save_index, read_index, rx_length, sent, accepted, whole>>

\* After an answer is accepted: its own length and read index, and the save index
\* of port 0, whichever port it is.
Clear(p) ==
    /\ save_index' = [save_index EXCEPT ![0] = 0]
    /\ read_index' = [read_index EXCEPT ![p] = 0]
    /\ rx_length' = [rx_length EXCEPT ![p] = 0]
\* What that does to an answer coming in on port 0.
Disturb(p) ==
    whole' = [whole EXCEPT ![0] = @ /\ (p = 0 \/ save_index[0] = 0)]

\* Fault: the length is not cleared, and the same answer is accepted again.
AcceptKeepLength(p) ==
    /\ sem[p]
    /\ \E n \in ReceiveNumber(p) : Enough(p, n)
    /\ Headed(p) /\ CheckOK(p)
    /\ accepted' = [accepted EXCEPT ![p] = rx_buffer[p][0].answer]
    /\ UNCHANGED <<rx_length, read_index, save_index>>
    /\ Disturb(p)
    /\ sem' = [sem EXCEPT ![p] = FALSE]
    /\ UNCHANGED <<rx_buffer, sent>>
\* Receive_Commdata_Proce with a whole answer.
Accept(p) ==
    /\ sem[p]
    /\ \E n \in ReceiveNumber(p) : Enough(p, n)
    /\ Headed(p) /\ CheckOK(p)
    /\ accepted' = [accepted EXCEPT ![p] = rx_buffer[p][0].answer]
    /\ Clear(p) /\ Disturb(p)
    /\ sem' = [sem EXCEPT ![p] = FALSE]
    /\ UNCHANGED <<rx_buffer, sent>>

\* Bytes whose second is a 5, which no second byte of the answers here is, are
\* taken for the answer to a control, and not checked.
AcceptControl(p) ==
    /\ sem[p]
    /\ rx_length[p] >= FRAME
    /\ rx_buffer[p][1].place # 1
    /\ Clear(p) /\ Disturb(p)
    /\ sem' = [sem EXCEPT ![p] = FALSE]
    /\ UNCHANGED <<rx_buffer, sent, accepted>>

\* The check fails: the port empties its own buffer.  A length that was never one
\* may cut an answer short.
Discard(p) ==
    /\ sem[p]
    /\ \E n \in ReceiveNumber(p) : Enough(p, n)
    /\ ~CheckOK(p)
    /\ save_index' = [save_index EXCEPT ![p] = 0]
    /\ read_index' = [read_index EXCEPT ![p] = 0]
    /\ rx_length' = [rx_length EXCEPT ![p] = 0]
    /\ whole' = [whole EXCEPT ![p] = @ /\ rx_length[p] >= FRAME]
    /\ sem' = [sem EXCEPT ![p] = FALSE]
    /\ UNCHANGED <<rx_buffer, sent, accepted>>

\* The semaphore has timed out 200 times, with no byte in between: ten seconds.
Silent(p) == ~sem[p]
\* rt_hw_uart0_init and the others: the registers are set again, and rt_uart_init
\* clears the buffer.  A byte takes far longer than that.
Reinit(p) ==
    /\ Silent(p)
    /\ rx_buffer' = [rx_buffer EXCEPT ![p] = [c \in Cells |-> [answer |-> 0, place |-> 0]]]
    /\ save_index' = [save_index EXCEPT ![p] = 0]
    /\ read_index' = [read_index EXCEPT ![p] = 0]
    /\ rx_length' = [rx_length EXCEPT ![p] = 0]
    /\ whole' = [whole EXCEPT ![p] = @ /\ sent[p].place \in {0, FRAME}]
    /\ UNCHANGED <<sem, sent, accepted>>

Line(p) == Answer(p) \/ Byte(p) \/ LoseByte(p) \/ LineError(p)
Task(p) == Wait(p) \/ Accept(p) \/ AcceptControl(p) \/ Discard(p) \/ Reinit(p)
RxNext == \E p \in PORTS : Line(p) \/ Task(p)

RxSpec == RxInit /\ [][RxNext]_rxVars

-----------------------------------------------------------------------------
\* Types of the buffers; the indexes stay inside (uart.c:112-120).
RxTypeOK ==
    /\ rx_buffer \in [PORTS -> [Cells -> Bytes]]
    /\ save_index \in [PORTS -> Cells] /\ read_index \in [PORTS -> Cells]
    /\ rx_length \in [PORTS -> Cells]
    /\ sem \in [PORTS -> BOOLEAN]
    /\ sent \in [PORTS -> [answer: 0..MAX_ANSWERS, place: 0..FRAME]]
    /\ accepted \in [PORTS -> 0..MAX_ANSWERS]
    /\ whole \in [PORTS -> BOOLEAN]

\* Port 0 accepts no answer twice and none out of order, whatever is lost and
\* whatever the other ports do to its save index.
AcceptedOnce == [][Accept(0) => accepted'[0] > accepted[0]]_rxVars

\* An answer that comes in whole, from the first byte of the buffer on, has been
\* accepted when the task is idle again.
WholeAccepted ==
    \A p \in PORTS :
        whole[p] /\ sent[p].place = FRAME /\ ~sem[p] => accepted[p] = sent[p].answer

\* Why an answer is accepted once: a byte that waits in a buffer was sent, and
\* the buffer of port 0 begins with a byte newer than the answer accepted last
\* unless it is empty.
Before(byte, s) == byte.answer < s.answer \/ (byte.answer = s.answer /\ byte.place < s.place)
CellsSent ==
    \A p \in PORTS :
        /\ \A c \in Cells : Before(rx_buffer[p][c], sent[p])
        /\ sent[p].answer = 0 => sent[p].place = FRAME
Empty(p) == save_index[p] = 0 /\ read_index[p] = 0 /\ rx_length[p] = 0
NewerFirst ==
    /\ Empty(0) \/ rx_buffer[0][0].answer > accepted[0]
    /\ sent[0].place < FRAME => sent[0].answer > accepted[0]
    /\ accepted[0] <= sent[0].answer

\* Why a whole answer is accepted: before its first byte the buffer is empty and
\* the task waits, then as many bytes are in it as were sent, then it has been
\* accepted.
Untouched(p) ==
    /\ sent[p].place = 0 /\ ~sem[p]
    /\ save_index[p] = 0 /\ read_index[p] = 0
Arriving(p) ==
    /\ sent[p].place > 0 /\ (sent[p].place = FRAME => sem[p])
    /\ save_index[p] = sent[p].place /\ rx_length[p] = sent[p].place
    /\ read_index[p] = 0
    /\ \A c \in 0..(sent[p].place - 1) :
           rx_buffer[p][c] = [answer |-> sent[p].answer, place |-> c]
Handled(p) == sent[p].place = FRAME /\ ~sem[p] /\ accepted[p] = sent[p].answer
WholeInv == \A p \in PORTS : whole[p] => Untouched(p) \/ Arriving(p) \/ Handled(p)

RxInv == RxTypeOK /\ CellsSent /\ NewerFirst /\ WholeInv
=============================================================================
