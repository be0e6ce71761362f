----------------------------- MODULE Port_proofs -----------------------------
(***************************************************************************)
(* The task of a serial port.  Of its polling: what is stored came from the  *)
(* device it is stored for, and the flags of the devices agree with the      *)
(* turn, for every number of devices.  Of its receive ring: an answer that   *)
(* comes in whole is accepted and port 0 accepts none twice, for any ports,  *)
(* any longer ring and any length of an answer.                              *)
(***************************************************************************)
EXTENDS Poller, RxRing, TLAPS

\* What a pass makes of the flags of a device.
LEMMA JudgeFlags ==
    ASSUME NEW r \in Flags, r.ok => ~r.gaveup
    PROVE  /\ Judge(r) \in Flags /\ ~Judge(r).ok
           /\ Judge(r).gaveup => ~Judge(r).online
<1>1. Missed(r) \in 0..(WIDTH - 1) BY PollAssumption DEF Missed, Flags
<1>2. r = [ok |-> r.ok, miss |-> r.miss, gaveup |-> r.gaveup, online |-> r.online]
      /\ r.ok \in BOOLEAN /\ r.gaveup \in BOOLEAN /\ r.online \in BOOLEAN
      /\ r.miss \in 0..(WIDTH - 1)
  BY DEF Flags
<1>3. 0 \in 0..(WIDTH - 1) BY PollAssumption
<1>4. CASE r.ok
  <2>1. Judge(r) = [ok |-> FALSE, miss |-> r.miss, gaveup |-> r.gaveup,
                    online |-> r.online]
    BY <1>2, <1>4 DEF Judge
  <2> QED BY <2>1, <1>2, <1>4 DEF Flags
<1>5. CASE ~r.ok /\ r.gaveup
  <2>1. Judge(r) = [ok |-> r.ok, miss |-> Missed(r), gaveup |-> r.gaveup,
                    online |-> FALSE]
    BY <1>2, <1>5 DEF Judge
  <2> QED BY <2>1, <1>1, <1>2, <1>5 DEF Flags
<1>6. CASE ~r.ok /\ ~r.gaveup /\ Missed(r) > 2
  <2>1. Judge(r) = [ok |-> FALSE, miss |-> 0, gaveup |-> TRUE, online |-> FALSE]
    BY <1>6 DEF Judge
  <2> QED BY <2>1, <1>3 DEF Flags
<1>7. CASE ~r.ok /\ ~r.gaveup /\ ~(Missed(r) > 2)
  <2>1. Judge(r) = [ok |-> r.ok, miss |-> Missed(r), gaveup |-> r.gaveup,
                    online |-> r.online]
    BY <1>2, <1>7 DEF Judge
  <2> QED BY <2>1, <1>1, <1>2, <1>7 DEF Flags
<1> QED BY <1>2, <1>4, <1>5, <1>6, <1>7

LEMMA InitPoll == Init => PollInv
<1> SUFFICES ASSUME Init PROVE PollInv OBVIOUS
<1> USE PollAssumption
<1>1. 0 \in Devices /\ "yc" \in Requests BY DEF Devices, Requests
<1>2. [ok |-> FALSE, miss |-> 0, gaveup |-> FALSE, online |-> FALSE] \in Flags
  BY DEF Flags
<1>3. TypeOK
  <2>1. late \in BOOLEAN /\ misfiled \in BOOLEAN BY DEF Init
  <2>2. dev \in [Devices -> Flags] BY <1>2 DEF Init
  <2>3. /\ alive \subseteq Devices /\ wire \subseteq Answers
        /\ yk \in [Devices -> Operations \cup {"none"}]
    BY DEF Init
  <2> QED BY <1>1, <2>1, <2>2, <2>3 DEF Init, TypeOK
<1>4. RightData /\ AnswerDue BY DEF Init, RightData, AnswerDue
<1>5. OkIsCurrent /\ GivenUpIsOff BY DEF Init, OkIsCurrent, GivenUpIsOff
<1> QED BY <1>3, <1>4, <1>5 DEF PollInv

\* A pass, with a request or a command for device d.
LEMMA PassKeeps ==
    ASSUME PollInv, NEW d \in Devices, NEW kind \in Requests \cup Operations,
           kind \in Requests => kind = redycyxflg',
           dev' = [dev EXCEPT ![reddevindex] = Judge(dev[reddevindex])],
           reddevindex' = d, redycyxflg' \in Requests, Transmit(d, kind),
           yk' \in [Devices -> Operations \cup {"none"}],
           UNCHANGED <<alive, commands, turns, misfiled>>
    PROVE  PollInv'
<1>0. TypeOK /\ RightData /\ OkIsCurrent /\ GivenUpIsOff /\ AnswerDue
  BY DEF PollInv
<1>1. reddevindex \in Devices /\ dev[reddevindex] \in Flags BY <1>0 DEF TypeOK
<1>2. dev[reddevindex].ok => ~dev[reddevindex].gaveup
  BY <1>0, <1>1 DEF OkIsCurrent
<1>3. /\ Judge(dev[reddevindex]) \in Flags /\ ~Judge(dev[reddevindex]).ok
      /\ Judge(dev[reddevindex]).gaveup => ~Judge(dev[reddevindex]).online
  BY <1>1, <1>2, JudgeFlags
<1>4. /\ dev' \in [Devices -> Flags]
      /\ dev'[reddevindex] = Judge(dev[reddevindex])
      /\ \A e \in Devices : e # reddevindex => dev'[e] = dev[e]
  BY <1>0, <1>1, <1>3 DEF TypeOK
<1>5. wire' \subseteq Answers
  <2>1. CASE d \in alive /\ kind # "select"
    <3>1. wire' = wire \cup {[dev |-> d, kind |-> kind]} BY <2>1 DEF Transmit
    <3>2. kind \in Requests \cup {"execute", "strap"} BY <2>1 DEF Operations
    <3>3. [dev |-> d, kind |-> kind] \in Answers BY <3>2 DEF Answers
    <3> QED BY <1>0, <3>1, <3>3 DEF TypeOK
  <2>2. CASE ~(d \in alive /\ kind # "select")
    BY <2>2, <1>0 DEF Transmit, TypeOK
  <2> QED BY <2>1, <2>2
<1>6. noise' \in 0..MAX_NOISE BY <1>0, PollAssumption DEF Transmit, TypeOK
<1>7. late' \in BOOLEAN /\ misfiled' \in BOOLEAN
  <2>1. late' = (late \/ wire # {}) BY DEF Transmit
  <2>2. misfiled' \in BOOLEAN BY <1>0 DEF TypeOK
  <2> QED BY <2>1, <2>2
<1>8. TypeOK' BY <1>0, <1>4, <1>5, <1>6, <1>7 DEF TypeOK
<1>9. ~late' => ~late /\ wire = {} BY DEF Transmit
<1>10. RightData' BY <1>0, <1>9 DEF RightData
<1>11. AnswerDue'
  <2> SUFFICES ASSUME ~late', NEW answer \in wire'
               PROVE  /\ answer.dev = d
                      /\ answer.kind \in Requests => answer.kind = redycyxflg'
    BY DEF AnswerDue
  <2>1. answer = [dev |-> d, kind |-> kind] BY <1>9 DEF Transmit
  <2> QED BY <2>1
<1>12. OkIsCurrent' BY <1>0, <1>3, <1>4 DEF OkIsCurrent
<1>13. GivenUpIsOff' BY <1>0, <1>3, <1>4 DEF GivenUpIsOff
<1> QED BY <1>8, <1>10, <1>11, <1>12, <1>13 DEF PollInv

\* Flags an answer leaves behind at the device it is the turn of.
LEMMA AnswerKeeps ==
    ASSUME PollInv, NEW r \in Flags,
           dev' = [dev EXCEPT ![reddevindex] = r],
           r.ok => ~r.gaveup,
           UNCHANGED <<reddevindex, redycyxflg, yk, alive, commands, turns, late>>,
           wire' \subseteq wire, noise' \in 0..MAX_NOISE, misfiled' \in BOOLEAN,
           RightData'
    PROVE  PollInv'
<1>0. TypeOK /\ RightData /\ OkIsCurrent /\ GivenUpIsOff /\ AnswerDue
  BY DEF PollInv
<1>1. /\ reddevindex \in Devices /\ dev'[reddevindex] = r
      /\ dev' \in [Devices -> Flags]
      /\ \A e \in Devices : e # reddevindex => dev'[e] = dev[e]
  BY <1>0 DEF TypeOK
<1>2. late' \in BOOLEAN BY <1>0 DEF TypeOK
<1>3. TypeOK' BY <1>0, <1>1, <1>2 DEF TypeOK
<1>4. OkIsCurrent' BY <1>0, <1>1 DEF OkIsCurrent
<1>5. GivenUpIsOff' BY <1>0, <1>1 DEF GivenUpIsOff
<1>6. AnswerDue' BY <1>0 DEF AnswerDue
<1> QED BY <1>3, <1>4, <1>5, <1>6 DEF PollInv

LEMMA NextPoll == PollInv /\ [Next]_vars => PollInv'
<1> SUFFICES ASSUME PollInv, [Next]_vars PROVE PollInv' OBVIOUS
<1>0. TypeOK /\ RightData /\ OkIsCurrent /\ GivenUpIsOff /\ AnswerDue
  BY DEF PollInv
<1>r. /\ reddevindex \in Devices /\ dev[reddevindex] \in Flags
      /\ dev[reddevindex].ok => ~dev[reddevindex].gaveup
      /\ dev[reddevindex].ok \in BOOLEAN /\ dev[reddevindex].gaveup \in BOOLEAN
      /\ dev[reddevindex].miss \in 0..(WIDTH - 1)
  BY <1>0 DEF TypeOK, OkIsCurrent, Flags
<1>n. NextDevice \in Devices /\ NextRequest \in Requests
  <2>1. NextDevice \in Devices
    BY <1>r, PollAssumption DEF NextDevice, Devices
  <2>2. redycyxflg \in Requests BY <1>0 DEF TypeOK
  <2>3. Following(redycyxflg) \in Requests BY <2>2 DEF Following, Requests
  <2> QED BY <2>1, <2>2, <2>3 DEF NextRequest
<1>1. CASE PassRequest
  <2>1. /\ dev' = [dev EXCEPT ![reddevindex] = Judge(dev[reddevindex])]
        /\ reddevindex' = NextDevice /\ redycyxflg' = NextRequest
        /\ Transmit(NextDevice, NextRequest)
        /\ UNCHANGED <<yk, alive, commands, turns, misfiled>>
    BY <1>1 DEF PassRequest
  <2>2. yk' \in [Devices -> Operations \cup {"none"}] BY <1>0, <2>1 DEF TypeOK
  <2> QED BY <1>n, <2>1, <2>2, PassKeeps
<1>2. ASSUME NEW d \in Devices, PassCommand(d) PROVE PollInv'
  <2>1. /\ dev' = [dev EXCEPT ![reddevindex] = Judge(dev[reddevindex])]
        /\ reddevindex' = d /\ redycyxflg' = NextRequest
        /\ Transmit(d, yk[d])
        /\ yk' = [yk EXCEPT ![d] = "none"]
        /\ UNCHANGED <<alive, commands, turns, misfiled>>
    BY <1>2 DEF PassCommand
  <2>2. yk[d] \in Operations BY <1>0, <1>2 DEF PassCommand, TypeOK
  <2>3. yk' \in [Devices -> Operations \cup {"none"}] BY <1>0, <2>1 DEF TypeOK
  <2>4. yk[d] \notin Requests BY <2>2 DEF Operations, Requests
  <2> QED BY <1>n, <2>1, <2>2, <2>3, <2>4, PassKeeps
<1>3. ASSUME NEW answer \in wire, Receive(answer) PROVE PollInv'
  <2>1. /\ wire' \subseteq wire
        /\ misfiled' = (misfiled \/ Misfiles(answer))
        /\ UNCHANGED <<reddevindex, redycyxflg, yk, alive, commands, turns, late>>
        /\ noise' = noise
    BY <1>3 DEF Receive, counts
  <2>2. noise' \in 0..MAX_NOISE /\ misfiled' \in BOOLEAN
    <3>1. Misfiles(answer) \in BOOLEAN BY DEF Misfiles
    <3>2. noise' \in 0..MAX_NOISE BY <1>0, <2>1 DEF TypeOK
    <3>3. misfiled' \in BOOLEAN BY <2>1, <3>1
    <3> QED BY <3>2, <3>3
  <2>3. RightData'
    <3>1. ~late => ~Misfiles(answer) BY <1>0 DEF AnswerDue, Misfiles
    <3> QED BY <1>0, <2>1, <3>1 DEF RightData
  <2>4. PICK r : /\ r = IF answer.kind = "strap"
                        THEN [ok |-> dev[reddevindex].ok, miss |-> dev[reddevindex].miss,
                              gaveup |-> dev[reddevindex].gaveup, online |-> TRUE]
                        ELSE [ok |-> TRUE, miss |-> dev[reddevindex].miss,
                              gaveup |-> FALSE, online |-> TRUE]
                 /\ dev' = [dev EXCEPT ![reddevindex] = r]
    BY <1>3 DEF Receive
  <2>5. r \in Flags /\ (r.ok => ~r.gaveup)
    <3>1. CASE answer.kind = "strap"
      <4>1. r = [ok |-> dev[reddevindex].ok, miss |-> dev[reddevindex].miss,
                 gaveup |-> dev[reddevindex].gaveup, online |-> TRUE]
        BY <2>4, <3>1
      <4> QED BY <4>1, <1>r DEF Flags
    <3>2. CASE answer.kind # "strap"
      <4>1. r = [ok |-> TRUE, miss |-> dev[reddevindex].miss,
                 gaveup |-> FALSE, online |-> TRUE]
        BY <2>4, <3>2
      <4> QED BY <4>1, <1>r DEF Flags
    <3> QED BY <3>1, <3>2
  <2> QED BY <2>1, <2>2, <2>3, <2>4, <2>5, AnswerKeeps
<1>4. ASSUME NEW answer \in wire, ReceiveSpoiled(answer) PROVE PollInv'
  <2>1. /\ wire' \subseteq wire /\ noise' = noise + 1 /\ noise < MAX_NOISE
        /\ UNCHANGED <<reddevindex, redycyxflg, yk, alive, commands, turns, late>>
        /\ misfiled' = misfiled
    BY <1>4 DEF ReceiveSpoiled
  <2>2. noise' \in 0..MAX_NOISE /\ misfiled' \in BOOLEAN
    <3>1. noise' \in 0..MAX_NOISE BY <1>0, <2>1, PollAssumption DEF TypeOK
    <3>2. misfiled' \in BOOLEAN BY <1>0, <2>1 DEF TypeOK
    <3> QED BY <3>1, <3>2
  <2>3. RightData' BY <1>0, <2>1 DEF RightData
  <2>4. PICK control \in BOOLEAN :
            dev' = [dev EXCEPT ![reddevindex] =
                IF control
                THEN [ok |-> TRUE, miss |-> dev[reddevindex].miss,
                      gaveup |-> FALSE, online |-> TRUE]
                ELSE [ok |-> dev[reddevindex].ok, miss |-> dev[reddevindex].miss,
                      gaveup |-> dev[reddevindex].gaveup, online |-> TRUE]]
    BY <1>4 DEF ReceiveSpoiled
  <2>5. CASE control
    <3>1. PICK r : /\ r = [ok |-> TRUE, miss |-> dev[reddevindex].miss,
                           gaveup |-> FALSE, online |-> TRUE]
                   /\ dev' = [dev EXCEPT ![reddevindex] = r]
      BY <2>4, <2>5
    <3>2. r \in Flags /\ (r.ok => ~r.gaveup) BY <3>1, <1>r DEF Flags
    <3> QED BY <2>1, <2>2, <2>3, <3>1, <3>2, AnswerKeeps
  <2>6. CASE ~control
    <3>1. PICK r : /\ r = [ok |-> dev[reddevindex].ok, miss |-> dev[reddevindex].miss,
                           gaveup |-> dev[reddevindex].gaveup, online |-> TRUE]
                   /\ dev' = [dev EXCEPT ![reddevindex] = r]
      BY <2>4, <2>6
    <3>2. r \in Flags /\ (r.ok => ~r.gaveup) BY <3>1, <1>r DEF Flags
    <3> QED BY <2>1, <2>2, <2>3, <3>1, <3>2, AnswerKeeps
  <2> QED BY <2>5, <2>6
<1>5. ASSUME NEW answer \in wire, Lose(answer) PROVE PollInv'
  <2>1. /\ wire' \subseteq wire /\ noise' = noise + 1 /\ noise < MAX_NOISE
        /\ UNCHANGED <<reddevindex, redycyxflg, dev, yk, alive, commands, turns,
                       late, misfiled>>
    BY <1>5 DEF Lose
  <2>2. late' \in BOOLEAN /\ misfiled' \in BOOLEAN BY <1>0, <2>1 DEF TypeOK
  <2>3. noise' \in 0..MAX_NOISE BY <1>0, <2>1, PollAssumption DEF TypeOK
  <2>4. TypeOK' BY <1>0, <2>1, <2>2, <2>3 DEF TypeOK
  <2>5. RightData' /\ AnswerDue' BY <1>0, <2>1 DEF RightData, AnswerDue
  <2>6. OkIsCurrent' /\ GivenUpIsOff'
    BY <1>0, <2>1 DEF OkIsCurrent, GivenUpIsOff
  <2> QED BY <2>4, <2>5, <2>6 DEF PollInv
<1>6. ASSUME NEW d \in Devices, Turn(d) PROVE PollInv'
  <2>1. /\ turns' = turns + 1 /\ turns < MAX_TURNS
        /\ UNCHANGED <<reddevindex, redycyxflg, dev, yk, wire, commands, noise,
                       late, misfiled>>
        /\ alive' \subseteq Devices
    BY <1>0, <1>6 DEF Turn, TypeOK
  <2>2. late' \in BOOLEAN /\ misfiled' \in BOOLEAN BY <1>0, <2>1 DEF TypeOK
  <2>3. turns' \in 0..MAX_TURNS BY <1>0, <2>1, PollAssumption DEF TypeOK
  <2>4. TypeOK' BY <1>0, <2>1, <2>2, <2>3 DEF TypeOK
  <2>5. RightData' /\ AnswerDue' BY <1>0, <2>1 DEF RightData, AnswerDue
  <2>6. OkIsCurrent' /\ GivenUpIsOff'
    BY <1>0, <2>1 DEF OkIsCurrent, GivenUpIsOff
  <2> QED BY <2>4, <2>5, <2>6 DEF PollInv
<1>7. ASSUME NEW d \in Devices, NEW operation \in Operations, Command(d, operation)
      PROVE  PollInv'
  <2>1. /\ commands' = commands + 1 /\ commands < MAX_COMMANDS
        /\ UNCHANGED <<reddevindex, redycyxflg, dev, alive, wire, noise, turns,
                       late, misfiled>>
        /\ yk' \in [Devices -> Operations \cup {"none"}]
    BY <1>0, <1>7 DEF Command, TypeOK
  <2>2. late' \in BOOLEAN /\ misfiled' \in BOOLEAN BY <1>0, <2>1 DEF TypeOK
  <2>3. commands' \in 0..MAX_COMMANDS BY <1>0, <2>1, PollAssumption DEF TypeOK
  <2>4. TypeOK' BY <1>0, <2>1, <2>2, <2>3 DEF TypeOK
  <2>5. RightData' /\ AnswerDue' BY <1>0, <2>1 DEF RightData, AnswerDue
  <2>6. OkIsCurrent' /\ GivenUpIsOff'
    BY <1>0, <2>1 DEF OkIsCurrent, GivenUpIsOff
  <2> QED BY <2>4, <2>5, <2>6 DEF PollInv
<1>8. CASE UNCHANGED vars
  <2>1. /\ UNCHANGED <<reddevindex, redycyxflg, dev, yk, alive, wire>>
        /\ UNCHANGED <<commands, noise, turns, late, misfiled>>
    BY <1>8 DEF vars
  <2>2. late' \in BOOLEAN /\ misfiled' \in BOOLEAN BY <1>0, <2>1 DEF TypeOK
  <2>3. TypeOK' BY <1>0, <2>1, <2>2 DEF TypeOK
  <2>4. RightData' /\ AnswerDue' BY <1>0, <2>1 DEF RightData, AnswerDue
  <2>5. OkIsCurrent' /\ GivenUpIsOff'
    BY <1>0, <2>1 DEF OkIsCurrent, GivenUpIsOff
  <2> QED BY <2>3, <2>4, <2>5 DEF PollInv
<1> QED
  BY <1>1, <1>2, <1>3, <1>4, <1>5, <1>6, <1>7, <1>8 DEF Next, Pass

\* The inductive invariant of the polling holds for every number of devices and
\* every bound (Deal_Comm_Proce, Receive_Commdata_Proce).
THEOREM PollInvariant == Spec => []PollInv
<1> QED BY InitPoll, NextPoll, PTL DEF Spec

\* Unless an answer is late, data are stored for the device they came from.
THEOREM DataIsRight == Spec => []RightData
<1>1. PollInv => RightData BY DEF PollInv
<1> QED BY PollInvariant, <1>1, PTL

\* uart_RxOkflg is up only for the device it is the turn of.
THEOREM OkBelongsToTurn == Spec => []OkIsCurrent
<1>1. PollInv => OkIsCurrent BY DEF PollInv
<1> QED BY PollInvariant, <1>1, PTL

\* A device given up is on line only during its turn.
THEOREM GivenUpStaysOff == Spec => []GivenUpIsOff
<1>1. PollInv => GivenUpIsOff BY DEF PollInv
<1> QED BY PollInvariant, <1>1, PTL


-----------------------------------------------------------------------------
\* The indexes and the length after a byte.
LEMMA IndexesInside ==
    ASSUME NEW r \in Cells, NEW s \in Cells
    PROVE  Up(r) \in Cells /\ Length(r, s) \in Cells
BY RxAssumption DEF Up, Length, Cells

\* An answer as a record of its two parts, and when it is a byte.
LEMMA SentParts ==
    ASSUME RxTypeOK, NEW p \in PORTS
    PROVE  /\ sent[p].answer \in 0..MAX_ANSWERS /\ sent[p].place \in 0..FRAME
           /\ sent[p].place < FRAME => sent[p] \in Bytes
           /\ sent[p] = [answer |-> sent[p].answer, place |-> sent[p].place]
BY RxAssumption DEF RxTypeOK, Bytes

LEMMA CellParts ==
    ASSUME RxTypeOK, NEW p \in PORTS, NEW c \in Cells
    PROVE  /\ rx_buffer[p][c] \in Bytes
           /\ rx_buffer[p][c].answer \in 0..MAX_ANSWERS
           /\ rx_buffer[p][c].place \in 0..(FRAME - 1)
           /\ rx_buffer[p][c] =
                 [answer |-> rx_buffer[p][c].answer, place |-> rx_buffer[p][c].place]
<1>1. rx_buffer[p][c] \in Bytes BY DEF RxTypeOK
<1> QED BY <1>1 DEF Bytes

LEMMA CellNumbers ==
    /\ 0 \in Cells /\ 1 \in Cells /\ 2 \in Cells /\ 0..(FRAME - 1) \subseteq Cells
    /\ [answer |-> 0, place |-> 0] \in Bytes
BY RxAssumption DEF Cells, Bytes

\* A port whose part of the state a step leaves alone.
Kept(p) ==
    /\ rx_buffer'[p] = rx_buffer[p] /\ save_index'[p] = save_index[p]
    /\ read_index'[p] = read_index[p] /\ rx_length'[p] = rx_length[p]
    /\ sem'[p] = sem[p] /\ sent'[p] = sent[p] /\ accepted'[p] = accepted[p]
    /\ whole'[p] = whole[p]

\* The invariants of one port, of which RxInv is the conjunction.
CellsSentOf(p) ==
    /\ \A c \in Cells : Before(rx_buffer[p][c], sent[p])
    /\ sent[p].answer = 0 => sent[p].place = FRAME
WholeOf(p) == whole[p] => Untouched(p) \/ Arriving(p) \/ Handled(p)

LEMMA PortByPort ==
    /\ CellsSent <=> \A p \in PORTS : CellsSentOf(p)
    /\ WholeInv <=> \A p \in PORTS : WholeOf(p)
    /\ CellsSent' <=> \A p \in PORTS : CellsSentOf(p)'
    /\ WholeInv' <=> \A p \in PORTS : WholeOf(p)'
BY DEF CellsSent, CellsSentOf, WholeInv, WholeOf

LEMMA KeptHolds ==
    ASSUME NEW p \in PORTS, Kept(p)
    PROVE  /\ CellsSentOf(p) => CellsSentOf(p)'
           /\ WholeOf(p) => WholeOf(p)'
           /\ p = 0 /\ NewerFirst => NewerFirst'
<1>1. CellsSentOf(p) => CellsSentOf(p)' BY DEF Kept, CellsSentOf, Before
<1>2. WholeOf(p) => WholeOf(p)' BY DEF Kept, WholeOf, Untouched, Arriving, Handled
<1>3. p = 0 /\ NewerFirst => NewerFirst' BY DEF Kept, NewerFirst, Empty
<1> QED BY <1>1, <1>2, <1>3

\* Only port 0 is touched by the work of another port.
LEMMA FromOnePort ==
    ASSUME RxInv, RxTypeOK', NEW p \in PORTS,
           \A q \in PORTS \ {p, 0} : Kept(q),
           CellsSentOf(p)', WholeOf(p)', CellsSentOf(0)', WholeOf(0)', NewerFirst'
    PROVE  RxInv'
<1>1. \A q \in PORTS : CellsSentOf(q)' /\ WholeOf(q)'
  BY KeptHolds, PortByPort DEF RxInv
<1> QED BY <1>1, PortByPort DEF RxInv

\* A step of the line, and of the task while it accepts nothing, touches its own port.
LEMMA FromOwnPort ==
    ASSUME RxInv, RxTypeOK', NEW p \in PORTS,
           \A q \in PORTS \ {p} : Kept(q),
           CellsSentOf(p)', WholeOf(p)', p = 0 => NewerFirst'
    PROVE  RxInv'
<1>1. 0 \in PORTS BY RxAssumption
<1>2. CASE p = 0 BY <1>1, <1>2, FromOnePort
<1>3. CASE p # 0
  <2>1. Kept(0) BY <1>1, <1>3
  <2>2. CellsSentOf(0)' /\ WholeOf(0)' /\ NewerFirst'
    BY <2>1, <1>1, KeptHolds, PortByPort DEF RxInv
  <2> QED BY <2>2, FromOnePort
<1> QED BY <1>2, <1>3

\* Each action of the line and of the task keeps the invariants.
LEMMA InitRx == RxInit => RxInv
<1> SUFFICES ASSUME RxInit PROVE RxInv OBVIOUS
<1>1. RxTypeOK BY RxAssumption, CellNumbers DEF RxInit, RxTypeOK, Cells
<1>2. CellsSent
  <2>1. ASSUME NEW p \in PORTS, NEW c \in Cells PROVE Before(rx_buffer[p][c], sent[p])
    <3>1. rx_buffer[p][c].answer = 0 /\ rx_buffer[p][c].place = 0
          /\ sent[p].answer = 0 /\ sent[p].place = FRAME
      BY DEF RxInit
    <3> QED BY <3>1, RxAssumption DEF Before
  <2>2. \A p \in PORTS : sent[p].place = FRAME BY DEF RxInit
  <2> QED BY <2>1, <2>2 DEF CellsSent
<1>3. NewerFirst BY RxAssumption DEF RxInit, NewerFirst, Empty
<1>4. WholeInv BY DEF RxInit, WholeInv
<1> QED BY <1>1, <1>2, <1>3, <1>4 DEF RxInv

LEMMA AnswerRx ==
    ASSUME RxInv, NEW p \in PORTS, Answer(p)
    PROVE  RxInv'
<1> USE DEF Answer
<1>t. RxTypeOK BY DEF RxInv
<1>a. sent[p].answer \in 0..MAX_ANSWERS /\ sent[p].place \in 0..FRAME
  BY <1>t, SentParts
<1>0. sent[p].answer \in 0..MAX_ANSWERS /\ sent[p].place \in 0..FRAME
      /\ sent[p].answer + 1 \in 0..MAX_ANSWERS
  BY <1>a, RxAssumption
<1>1. /\ sent'[p] = [answer |-> sent[p].answer + 1, place |-> 0]
      /\ whole'[p] = (save_index[p] = 0 /\ read_index[p] = 0)
  BY <1>t DEF RxTypeOK
<1>2. \A q \in PORTS \ {p} : Kept(q) BY <1>t DEF RxTypeOK, Kept
<1>3. RxTypeOK' BY <1>t, <1>0, RxAssumption DEF RxTypeOK
<1>4. CellsSentOf(p)'
  <2>1. \A c \in Cells : Before(rx_buffer[p][c], sent[p]) BY DEF RxInv, CellsSent
  <2>2. ASSUME NEW c \in Cells PROVE Before(rx_buffer'[p][c], sent'[p])
    <3>1. rx_buffer[p][c].answer \in 0..MAX_ANSWERS BY <1>t, CellParts
    <3>2. Before(rx_buffer[p][c], sent[p]) BY <2>1
    <3> QED BY <3>1, <3>2, <1>0, <1>1, RxAssumption DEF Before
  <2> QED BY <2>2, <1>0, <1>1 DEF CellsSentOf, Before
<1>5. WholeOf(p)' BY <1>1, <1>t DEF WholeOf, Untouched, RxTypeOK
<1>6. p = 0 => NewerFirst'
  BY <1>t, <1>0, <1>1 DEF NewerFirst, RxInv, RxTypeOK, Empty
<1> QED BY <1>2, <1>3, <1>4, <1>5, <1>6, FromOwnPort

LEMMA ByteRx ==
    ASSUME RxInv, NEW p \in PORTS, Byte(p)
    PROVE  RxInv'
<1>t. RxTypeOK BY DEF RxInv
<1>0. sent[p].answer \in 0..MAX_ANSWERS /\ sent[p].place \in 0..(FRAME - 1)
      /\ sent[p] \in Bytes
      /\ sent[p] = [answer |-> sent[p].answer, place |-> sent[p].place]
  BY <1>t, SentParts, RxAssumption DEF Byte
<1>i. /\ save_index[p] \in Cells /\ read_index[p] \in Cells
      /\ rx_buffer[p] \in [Cells -> Bytes]
  BY <1>t DEF RxTypeOK
<1>1. /\ sent'[p] = [answer |-> sent[p].answer, place |-> sent[p].place + 1]
      /\ rx_buffer'[p] = [rx_buffer[p] EXCEPT ![save_index[p]] = sent[p]]
      /\ save_index'[p] = Up(save_index[p])
      /\ read_index'[p] = IF read_index[p] = Up(save_index[p])
                             THEN Up(read_index[p]) ELSE read_index[p]
      /\ rx_length'[p] = Length(read_index'[p], save_index'[p])
      /\ sem'[p] = TRUE /\ accepted'[p] = accepted[p] /\ whole'[p] = whole[p]
  BY <1>t DEF RxTypeOK, Byte
<1>2. \A q \in PORTS \ {p} : Kept(q) BY <1>t DEF RxTypeOK, Kept, Byte
<1>m. /\ save_index'[p] \in Cells /\ read_index'[p] \in Cells
      /\ rx_length'[p] \in Cells
  BY <1>i, <1>1, IndexesInside
<1>c. \A c \in Cells :
          rx_buffer'[p][c] = IF c = save_index[p] THEN sent[p] ELSE rx_buffer[p][c]
  BY <1>i, <1>1
<1>3. RxTypeOK'
  <2>1. sent' \in [PORTS -> [answer: 0..MAX_ANSWERS, place: 0..FRAME]]
    BY <1>t, <1>0, RxAssumption DEF RxTypeOK, Byte
  <2>2. rx_buffer' \in [PORTS -> [Cells -> Bytes]]
    BY <1>t, <1>0, <1>i DEF RxTypeOK, Byte
  <2>3. save_index' \in [PORTS -> Cells] /\ read_index' \in [PORTS -> Cells]
        /\ rx_length' \in [PORTS -> Cells]
    <3>1. /\ save_index' = [save_index EXCEPT ![p] = save_index'[p]]
          /\ read_index' = [read_index EXCEPT ![p] = read_index'[p]]
          /\ rx_length' = [rx_length EXCEPT ![p] = rx_length'[p]]
      BY <1>t, <1>1 DEF RxTypeOK, Byte
    <3> QED BY <3>1, <1>m, <1>t DEF RxTypeOK
  <2> QED BY <2>1, <2>2, <2>3, <1>t DEF RxTypeOK, Byte
<1>4. CellsSentOf(p)'
  <2>1. /\ \A c \in Cells : Before(rx_buffer[p][c], sent[p])
        /\ sent[p].answer = 0 => sent[p].place = FRAME
    BY DEF RxInv, CellsSent
  <2>2. ASSUME NEW c \in Cells PROVE Before(rx_buffer'[p][c], sent'[p])
    <3>1. CASE c = save_index[p] BY <3>1, <1>c, <1>0, <1>1 DEF Before
    <3>2. CASE c # save_index[p]
      <4>1. rx_buffer[p][c].answer \in 0..MAX_ANSWERS
            /\ rx_buffer[p][c].place \in 0..(FRAME - 1)
        BY <1>t, CellParts
      <4>2. Before(rx_buffer[p][c], sent[p]) /\ rx_buffer'[p][c] = rx_buffer[p][c]
        BY <3>2, <2>1, <1>c
      <4> QED BY <4>1, <4>2, <1>0, <1>1, RxAssumption DEF Before
    <3> QED BY <3>1, <3>2
  <2> QED BY <2>1, <2>2, <1>0, <1>1, RxAssumption DEF CellsSentOf
<1>5. WholeOf(p)'
  <2> SUFFICES ASSUME whole[p] PROVE Arriving(p)' BY <1>1 DEF WholeOf
  <2>1. Untouched(p) \/ Arriving(p) \/ Handled(p) BY DEF RxInv, WholeInv
  <2>2. ~Handled(p) BY <1>0, RxAssumption DEF Handled
  <2>3. /\ save_index[p] = sent[p].place /\ read_index[p] = 0
        /\ \A c \in 0..(sent[p].place - 1) :
               rx_buffer[p][c] = [answer |-> sent[p].answer, place |-> c]
    BY <2>1, <2>2, <1>0 DEF Untouched, Arriving
  <2>4. Up(save_index[p]) = sent[p].place + 1
    BY <2>3, <1>0, RxAssumption DEF Up
  <2>5. read_index'[p] = 0 BY <2>3, <2>4, <1>0, <1>1
  <2>6. rx_length'[p] = sent[p].place + 1
    BY <2>4, <2>5, <1>0, <1>1 DEF Length
  <2>7. ASSUME NEW c \in 0..sent[p].place
        PROVE  rx_buffer'[p][c] = [answer |-> sent[p].answer, place |-> c]
    <3>1. c \in Cells BY <1>0, RxAssumption DEF Cells
    <3>2. CASE c = sent[p].place BY <3>1, <3>2, <1>c, <1>0, <2>3
    <3>3. CASE c # sent[p].place BY <3>1, <3>3, <1>c, <1>0, <2>3
    <3> QED BY <3>2, <3>3
  <2>8. sent'[p].place = sent[p].place + 1 /\ sent'[p].answer = sent[p].answer
        /\ sent'[p].place - 1 = sent[p].place
    BY <1>0, <1>1
  <2>9. save_index'[p] = sent'[p].place /\ rx_length'[p] = sent'[p].place
        /\ sem'[p] /\ sent'[p].place > 0
    BY <2>4, <2>6, <2>8, <1>0, <1>1
  <2>10. \A c \in 0..(sent'[p].place - 1) :
             rx_buffer'[p][c] = [answer |-> sent'[p].answer, place |-> c]
    BY <2>7, <2>8
  <2> QED BY <2>5, <2>9, <2>10 DEF Arriving
<1>6. p = 0 => NewerFirst'
  <2> SUFFICES ASSUME p = 0 PROVE NewerFirst' OBVIOUS
  <2>0. sent[p].place < FRAME /\ NewerFirst BY DEF Byte, RxInv
  <2>1. sent[p].answer > accepted[p] /\ accepted[p] \in 0..MAX_ANSWERS
    BY <2>0, <1>t DEF NewerFirst, RxTypeOK
  <2>2. rx_buffer'[p][0].answer > accepted[p]
    <3>1. CASE save_index[p] = 0 BY <3>1, <2>1, <1>c, CellNumbers
    <3>2. CASE save_index[p] # 0
      <4>1. rx_buffer'[p][0] = rx_buffer[p][0] BY <3>2, <1>c, CellNumbers
      <4>2. ~Empty(0) BY <3>2 DEF Empty
      <4> QED BY <4>1, <4>2 DEF RxInv, NewerFirst
    <3> QED BY <3>1, <3>2
  <2>3. sent'[p].answer = sent[p].answer /\ accepted'[p] = accepted[p] BY <1>1
  <2> QED BY <2>1, <2>2, <2>3, <1>0 DEF NewerFirst
<1> QED BY <1>2, <1>3, <1>4, <1>5, <1>6, FromOwnPort

\* A byte that does not arrive leaves the cells older than what was sent.
LEMMA Passed ==
    ASSUME RxInv, NEW p \in PORTS, sent[p].place < FRAME,
           sent' = [sent EXCEPT ![p] = [answer |-> @.answer, place |-> @.place + 1]],
           rx_buffer' = rx_buffer
    PROVE  /\ CellsSentOf(p)'
           /\ sent' \in [PORTS -> [answer: 0..MAX_ANSWERS, place: 0..FRAME]]
           /\ sent'[p].answer = sent[p].answer
<1>t. RxTypeOK BY DEF RxInv
<1>a. sent[p].answer \in 0..MAX_ANSWERS /\ sent[p].place \in 0..FRAME
  BY <1>t, SentParts
<1>0. sent[p].answer \in 0..MAX_ANSWERS /\ sent[p].place \in 0..(FRAME - 1)
  BY <1>a, RxAssumption
<1>1. sent'[p] = [answer |-> sent[p].answer, place |-> sent[p].place + 1]
  BY <1>t DEF RxTypeOK
<1>2. sent' \in [PORTS -> [answer: 0..MAX_ANSWERS, place: 0..FRAME]]
  BY <1>t, <1>0, RxAssumption DEF RxTypeOK
<1>3. /\ \A c \in Cells : Before(rx_buffer[p][c], sent[p])
      /\ sent[p].answer = 0 => sent[p].place = FRAME
  BY DEF RxInv, CellsSent
<1>4. ASSUME NEW c \in Cells PROVE Before(rx_buffer'[p][c], sent'[p])
  <2>1. rx_buffer[p][c].answer \in 0..MAX_ANSWERS
        /\ rx_buffer[p][c].place \in 0..(FRAME - 1)
    BY <1>t, CellParts
  <2>2. Before(rx_buffer[p][c], sent[p]) BY <1>3
  <2> QED BY <2>1, <2>2, <1>0, <1>1, RxAssumption DEF Before
<1>5. sent'[p].answer = 0 => sent'[p].place = FRAME BY <1>0, <1>1, <1>3, RxAssumption
<1> QED BY <1>1, <1>2, <1>4, <1>5 DEF CellsSentOf

LEMMA LoseByteRx ==
    ASSUME RxInv, NEW p \in PORTS, LoseByte(p)
    PROVE  RxInv'
<1>t. RxTypeOK BY DEF RxInv
<1>0. /\ CellsSentOf(p)' /\ sent'[p].answer = sent[p].answer
      /\ sent' \in [PORTS -> [answer: 0..MAX_ANSWERS, place: 0..FRAME]]
      /\ sent[p].place < FRAME
  BY Passed DEF LoseByte
<1>1. \A q \in PORTS \ {p} : Kept(q) BY <1>t DEF RxTypeOK, Kept, LoseByte
<1>2. RxTypeOK' BY <1>t, <1>0 DEF RxTypeOK, LoseByte
<1>3. WholeOf(p)' BY <1>t DEF WholeOf, RxTypeOK, LoseByte
<1>4. p = 0 => NewerFirst' BY <1>0 DEF RxInv, NewerFirst, Empty, LoseByte
<1> QED BY <1>0, <1>1, <1>2, <1>3, <1>4, FromOwnPort

LEMMA LineErrorRx ==
    ASSUME RxInv, NEW p \in PORTS, LineError(p)
    PROVE  RxInv'
<1>t. RxTypeOK BY DEF RxInv
<1>0. /\ CellsSentOf(p)' /\ sent'[p].answer = sent[p].answer
      /\ sent' \in [PORTS -> [answer: 0..MAX_ANSWERS, place: 0..FRAME]]
      /\ sent[p].place < FRAME
  BY Passed DEF LineError
<1>1. \A q \in PORTS \ {p} : Kept(q) BY <1>t DEF RxTypeOK, Kept, LineError
<1>2. RxTypeOK' BY <1>t, <1>0, CellNumbers DEF RxTypeOK, LineError
<1>3. WholeOf(p)' BY <1>t DEF WholeOf, RxTypeOK, LineError
<1>4. Empty(p)' BY <1>t DEF Empty, RxTypeOK, LineError
<1>5. p = 0 => NewerFirst' BY <1>0, <1>4 DEF RxInv, NewerFirst, LineError
<1> QED BY <1>0, <1>1, <1>2, <1>3, <1>5, FromOwnPort

\* A whole answer in the buffer is seen for what it is.
LEMMA ArrivedIsSeen ==
    ASSUME RxInv, NEW p \in PORTS, Arriving(p), sent[p].place = FRAME
    PROVE  /\ ReceiveNumber(p) = {FRAME} /\ Enough(p, FRAME) /\ CheckOK(p)
           /\ rx_buffer[p][1].place = 1
<1>1. \A c \in 0..(FRAME - 1) :
          rx_buffer[p][c] = [answer |-> sent[p].answer, place |-> c]
  BY DEF Arriving
<1>f. 0 \in 0..(FRAME - 1) /\ 1 \in 0..(FRAME - 1) /\ 2 \in 0..(FRAME - 1)
  BY RxAssumption
<1>2. /\ rx_buffer[p][0].answer = sent[p].answer
      /\ rx_buffer[p][1] = [answer |-> sent[p].answer, place |-> 1]
      /\ rx_buffer[p][2] = [answer |-> sent[p].answer, place |-> 2]
  <2>1. rx_buffer[p][0] = [answer |-> sent[p].answer, place |-> 0] BY <1>f, <1>1
  <2>2. rx_buffer[p][1] = [answer |-> sent[p].answer, place |-> 1] BY <1>f, <1>1
  <2>3. rx_buffer[p][2] = [answer |-> sent[p].answer, place |-> 2] BY <1>f, <1>1
  <2> QED BY <2>1, <2>2, <2>3
<1>3. Headed(p) BY <1>2 DEF Headed
<1>4. CheckOK(p) BY <1>1, <1>2 DEF CheckOK
<1>5. Enough(p, FRAME) BY RxAssumption DEF Enough, Arriving
<1> QED BY <1>2, <1>3, <1>4, <1>5 DEF ReceiveNumber

LEMMA WaitRx ==
    ASSUME RxInv, NEW p \in PORTS, Wait(p)
    PROVE  RxInv'
<1>t. RxTypeOK BY DEF RxInv
<1>0. UNCHANGED <<rx_buffer, save_index, read_index, rx_length, sent, accepted, whole>>
      /\ sem' = [sem EXCEPT ![p] = FALSE] /\ sem[p]
  BY DEF Wait
<1>1. \A q \in PORTS \ {p} : Kept(q) BY <1>0, <1>t DEF RxTypeOK, Kept
<1>2. RxTypeOK' BY <1>t, <1>0 DEF RxTypeOK
<1>3. CellsSentOf(p)' BY <1>0 DEF RxInv, CellsSent, CellsSentOf, Before
<1>4. WholeOf(p)'
  <2> SUFFICES ASSUME whole[p] PROVE Arriving(p)' BY <1>0 DEF WholeOf
  <2>1. Arriving(p) BY <1>0 DEF RxInv, WholeInv, Untouched, Handled
  <2>2. sent[p].place # FRAME BY <2>1, ArrivedIsSeen DEF Wait
  <2> QED BY <2>1, <2>2, <1>0 DEF Arriving
<1>5. p = 0 => NewerFirst' BY <1>0 DEF RxInv, NewerFirst, Empty
<1> QED BY <1>1, <1>2, <1>3, <1>4, <1>5, FromOwnPort

\* A control's answer is never taken from a whole answer, and a whole answer never
\* thrown away.
LEMMA NotWhole ==
    ASSUME RxInv, NEW p \in PORTS, sem[p], rx_length[p] >= FRAME,
           ~CheckOK(p) \/ rx_buffer[p][1].place # 1
    PROVE  ~whole[p]
<1> SUFFICES ASSUME whole[p] PROVE FALSE OBVIOUS
<1>1. Arriving(p) BY DEF RxInv, WholeInv, Untouched, Handled
<1>p. sent[p].place \in 0..FRAME BY SentParts DEF RxInv
<1>2. sent[p].place = FRAME BY <1>1, <1>p, RxAssumption DEF Arriving
<1> QED BY <1>1, <1>2, ArrivedIsSeen

\* What the clearing after an answer does to the types and to the two ports it touches.
LEMMA ClearTypes ==
    ASSUME RxTypeOK, NEW p \in PORTS, Clear(p), Disturb(p),
           sem' = [sem EXCEPT ![p] = FALSE], UNCHANGED <<rx_buffer, sent>>,
           accepted' \in [PORTS -> 0..MAX_ANSWERS]
    PROVE  RxTypeOK'
<1>1. save_index' \in [PORTS -> Cells] /\ read_index' \in [PORTS -> Cells]
      /\ rx_length' \in [PORTS -> Cells]
  BY CellNumbers DEF Clear, RxTypeOK
<1>2. whole' \in [PORTS -> BOOLEAN] BY DEF Disturb, RxTypeOK
<1> QED BY <1>1, <1>2 DEF RxTypeOK

LEMMA ClearOthers ==
    ASSUME RxTypeOK, NEW p \in PORTS, Clear(p), Disturb(p),
           sem' = [sem EXCEPT ![p] = FALSE], UNCHANGED <<rx_buffer, sent>>,
           \A q \in PORTS \ {p} : accepted'[q] = accepted[q]
    PROVE  \A q \in PORTS \ {p, 0} : Kept(q)
BY DEF Clear, Disturb, RxTypeOK, Kept

\* Port 0 keeps its invariants when another port accepts an answer.
LEMMA ClearZero ==
    ASSUME RxInv, NEW p \in PORTS, p # 0, Clear(p), Disturb(p),
           sem' = [sem EXCEPT ![p] = FALSE], UNCHANGED <<rx_buffer, sent>>,
           \A q \in PORTS \ {p} : accepted'[q] = accepted[q]
    PROVE  WholeOf(0)' /\ NewerFirst'
<1>z. 0 \in PORTS BY RxAssumption
<1>t. RxTypeOK BY DEF RxInv
<1>1. /\ save_index'[0] = 0 /\ read_index'[0] = read_index[0]
      /\ rx_length'[0] = rx_length[0] /\ sem'[0] = sem[0]
      /\ rx_buffer'[0] = rx_buffer[0] /\ sent'[0] = sent[0]
      /\ accepted'[0] = accepted[0]
      /\ whole'[0] = (whole[0] /\ save_index[0] = 0)
  BY <1>z, <1>t DEF Clear, Disturb, RxTypeOK
<1>2. WholeOf(0)'
  <2> SUFFICES ASSUME whole[0], save_index[0] = 0
               PROVE  Untouched(0)' \/ Handled(0)'
    BY <1>1 DEF WholeOf
  <2>1. Untouched(0) \/ Handled(0)
    BY <1>z, <1>t, SentParts DEF RxInv, WholeInv, Arriving
  <2> QED BY <2>1, <1>1 DEF Untouched, Handled
<1>3. NewerFirst' BY <1>1 DEF RxInv, NewerFirst, Empty
<1> QED BY <1>2, <1>3

LEMMA AcceptRx ==
    ASSUME RxInv, NEW p \in PORTS, Accept(p)
    PROVE  RxInv' /\ (p = 0 => accepted'[0] > accepted[0])
<1>z. 0 \in PORTS BY RxAssumption
<1>t. RxTypeOK BY DEF RxInv
<1>0. /\ sem[p] /\ CheckOK(p) /\ Clear(p) /\ Disturb(p)
      /\ accepted' = [accepted EXCEPT ![p] = rx_buffer[p][0].answer]
      /\ sem' = [sem EXCEPT ![p] = FALSE] /\ UNCHANGED <<rx_buffer, sent>>
  BY DEF Accept
<1>n. rx_length[p] >= FRAME
  BY DEF Accept, ReceiveNumber, Enough
<1>1. /\ rx_buffer[p][0].answer \in 0..MAX_ANSWERS
      /\ accepted' \in [PORTS -> 0..MAX_ANSWERS]
      /\ accepted'[p] = rx_buffer[p][0].answer
      /\ \A q \in PORTS \ {p} : accepted'[q] = accepted[q]
  BY <1>0, <1>t, CellParts, CellNumbers DEF RxTypeOK
<1>2. RxTypeOK' BY <1>0, <1>1, <1>t, ClearTypes
<1>3. \A q \in PORTS \ {p, 0} : Kept(q) BY <1>0, <1>1, <1>t, ClearOthers
<1>4. CellsSentOf(p)' /\ CellsSentOf(0)'
  BY <1>0, <1>z DEF RxInv, CellsSent, CellsSentOf, Before
<1>5. WholeOf(p)'
  <2> SUFFICES ASSUME whole[p] PROVE Handled(p)'
    BY <1>0, <1>t DEF WholeOf, Disturb, RxTypeOK
  <2>1. Arriving(p) BY <1>0 DEF RxInv, WholeInv, Untouched, Handled
  <2>p. sent[p].place \in 0..FRAME BY <1>t, SentParts
  <2>2. sent[p].place = FRAME BY <2>1, <2>p, <1>n, RxAssumption DEF Arriving
  <2>i. 0 \in 0..(sent[p].place - 1) BY <2>2, RxAssumption
  <2>c. rx_buffer[p][0] = [answer |-> sent[p].answer, place |-> 0]
    BY <2>1, <2>i DEF Arriving
  <2>3. rx_buffer[p][0].answer = sent[p].answer BY <2>c
  <2>4. ~sem'[p] BY <1>0, <1>t DEF RxTypeOK
  <2> QED BY <2>2, <2>3, <2>4, <1>0, <1>1 DEF Handled
<1>6. CASE p # 0
  <2>1. WholeOf(0)' /\ NewerFirst' BY <1>0, <1>1, <1>6, ClearZero
  <2> QED BY <2>1, <1>2, <1>3, <1>4, <1>5, <1>6, FromOnePort
<1>7. CASE p = 0
  <2>1. ~Empty(0) BY <1>n, <1>7, RxAssumption DEF Empty
  <2>2. accepted'[0] > accepted[0] BY <2>1, <1>1, <1>7 DEF RxInv, NewerFirst
  <2>3. Empty(0)' BY <1>0, <1>7, <1>t DEF Clear, Empty, RxTypeOK
  <2>4. FRAME - 1 \in 0..(FRAME - 1) /\ FRAME - 1 \in Cells /\ 0 \in Cells
    BY RxAssumption, CellNumbers
  <2>5. rx_buffer[0][FRAME - 1] = [answer |-> accepted'[0], place |-> FRAME - 1]
    BY <2>4, <1>0, <1>1, <1>7 DEF CheckOK
  <2>6. Before(rx_buffer[0][FRAME - 1], sent[0])
    BY <2>4, <1>z DEF RxInv, CellsSent
  <2>7. /\ accepted'[0] \in 0..MAX_ANSWERS
        /\ sent[0].answer \in 0..MAX_ANSWERS /\ sent[0].place \in 0..FRAME
    BY <1>1, <1>7, <1>t, <1>z, SentParts
  <2>8. accepted'[0] <= sent[0].answer
        /\ (sent[0].place < FRAME => sent[0].answer > accepted'[0])
    BY <2>5, <2>6, <2>7, RxAssumption DEF Before
  <2>9. NewerFirst' BY <2>3, <2>8, <1>0 DEF NewerFirst
  <2> QED BY <2>2, <2>9, <1>2, <1>3, <1>4, <1>5, <1>7, FromOnePort
<1> QED BY <1>6, <1>7

LEMMA AcceptControlRx ==
    ASSUME RxInv, NEW p \in PORTS, AcceptControl(p)
    PROVE  RxInv'
<1>z. 0 \in PORTS BY RxAssumption
<1>t. RxTypeOK BY DEF RxInv
<1>0. /\ sem[p] /\ Clear(p) /\ Disturb(p) /\ ~whole[p] /\ accepted' = accepted
      /\ sem' = [sem EXCEPT ![p] = FALSE] /\ UNCHANGED <<rx_buffer, sent>>
  BY NotWhole DEF AcceptControl
<1>1. accepted' \in [PORTS -> 0..MAX_ANSWERS] BY <1>0, <1>t DEF RxTypeOK
<1>2. RxTypeOK' BY <1>0, <1>1, <1>t, ClearTypes
<1>3. \A q \in PORTS \ {p, 0} : Kept(q) BY <1>0, <1>t, ClearOthers
<1>4. CellsSentOf(p)' /\ CellsSentOf(0)'
  BY <1>0, <1>z DEF RxInv, CellsSent, CellsSentOf, Before
<1>5. WholeOf(p)' BY <1>0, <1>t DEF WholeOf, Disturb, RxTypeOK
<1>6. CASE p # 0
  <2>1. WholeOf(0)' /\ NewerFirst' BY <1>0, <1>6, ClearZero
  <2> QED BY <2>1, <1>2, <1>3, <1>4, <1>5, FromOnePort
<1>7. CASE p = 0
  <2>1. Empty(0)' BY <1>0, <1>7, <1>t DEF Clear, Empty, RxTypeOK
  <2>2. NewerFirst' BY <2>1, <1>0 DEF RxInv, NewerFirst
  <2> QED BY <2>2, <1>2, <1>3, <1>4, <1>5, <1>7, FromOnePort
<1> QED BY <1>6, <1>7

LEMMA DiscardRx ==
    ASSUME RxInv, NEW p \in PORTS, Discard(p)
    PROVE  RxInv'
<1>t. RxTypeOK BY DEF RxInv
<1>0. UNCHANGED <<rx_buffer, sent, accepted>> /\ sem[p] /\ ~CheckOK(p)
  BY DEF Discard
<1>1. \A q \in PORTS \ {p} : Kept(q) BY <1>t DEF RxTypeOK, Kept, Discard
<1>2. RxTypeOK' BY <1>t, CellNumbers DEF RxTypeOK, Discard
<1>3. CellsSentOf(p)' BY <1>0 DEF RxInv, CellsSent, CellsSentOf, Before
<1>4. WholeOf(p)'
  <2>1. whole'[p] = (whole[p] /\ rx_length[p] >= FRAME)
    BY <1>t DEF Discard, RxTypeOK
  <2> QED BY <2>1, <1>0, NotWhole DEF WholeOf
<1>5. Empty(p)' BY <1>t DEF Empty, RxTypeOK, Discard
<1>6. p = 0 => NewerFirst' BY <1>0, <1>5 DEF RxInv, NewerFirst
<1> QED BY <1>1, <1>2, <1>3, <1>4, <1>6, FromOwnPort

LEMMA ReinitRx ==
    ASSUME RxInv, NEW p \in PORTS, Reinit(p)
    PROVE  RxInv'
<1>t. RxTypeOK BY DEF RxInv
<1>0. UNCHANGED <<sem, sent, accepted>> /\ ~sem[p] BY DEF Reinit, Silent
<1>1. \A q \in PORTS \ {p} : Kept(q) BY <1>t DEF RxTypeOK, Kept, Reinit
<1>2. RxTypeOK' BY <1>t, CellNumbers DEF RxTypeOK, Reinit
<1>3. CellsSentOf(p)'
  <2>1. \A c \in Cells : rx_buffer'[p][c] = [answer |-> 0, place |-> 0]
    BY <1>t DEF RxTypeOK, Reinit
  <2>2. /\ sent[p].answer \in 0..MAX_ANSWERS /\ sent[p].place \in 0..FRAME
        /\ sent[p].answer = 0 => sent[p].place = FRAME
    BY <1>t, SentParts DEF RxInv, CellsSent
  <2>3. Before([answer |-> 0, place |-> 0], sent[p])
    BY <2>2, RxAssumption DEF Before
  <2> QED BY <2>1, <2>2, <2>3, <1>0 DEF CellsSentOf, Before
<1>4. save_index'[p] = 0 /\ read_index'[p] = 0 /\ rx_length'[p] = 0
      /\ whole'[p] = (whole[p] /\ sent[p].place \in {0, FRAME})
  BY <1>t DEF RxTypeOK, Reinit
<1>5. WholeOf(p)'
  <2> SUFFICES ASSUME whole[p], sent[p].place \in {0, FRAME}
               PROVE  Untouched(p)' \/ Handled(p)'
    BY <1>4 DEF WholeOf
  <2>1. Untouched(p) \/ Handled(p) BY <1>0 DEF RxInv, WholeInv, Arriving
  <2> QED BY <2>1, <1>0, <1>4 DEF Untouched, Handled
<1>6. p = 0 => NewerFirst' BY <1>0, <1>4 DEF RxInv, NewerFirst, Empty
<1> QED BY <1>1, <1>2, <1>3, <1>5, <1>6, FromOwnPort

LEMMA StepRx == RxInv /\ [RxNext]_rxVars => RxInv'
<1> SUFFICES ASSUME RxInv, [RxNext]_rxVars PROVE RxInv' OBVIOUS
<1>1. CASE UNCHANGED rxVars
  <2>1. UNCHANGED <<rx_buffer, save_index, read_index, rx_length, sem, sent,
                    accepted, whole>>
    BY <1>1 DEF rxVars
  <2>2. RxTypeOK' BY <2>1 DEF RxInv, RxTypeOK
  <2>3. \A p \in PORTS : Kept(p) BY <2>1 DEF Kept
  <2>4. CellsSent' /\ WholeInv' BY <2>3, KeptHolds, PortByPort DEF RxInv
  <2>5. NewerFirst' BY <2>3, KeptHolds, RxAssumption DEF RxInv
  <2> QED BY <2>2, <2>4, <2>5 DEF RxInv
<1>2. ASSUME NEW p \in PORTS, Line(p) PROVE RxInv'
  BY <1>2, AnswerRx, ByteRx, LoseByteRx, LineErrorRx DEF Line
<1>3. ASSUME NEW p \in PORTS, Task(p) PROVE RxInv'
  BY <1>3, WaitRx, AcceptRx, AcceptControlRx, DiscardRx, ReinitRx DEF Task
<1> QED BY <1>1, <1>2, <1>3 DEF RxNext

\* Every port keeps its types, no byte in a buffer is younger than the last sent
\* (rt_uart_save), the buffer of port 0 begins with a byte newer than the answer
\* accepted last, and a whole answer is not begun, coming in or handled.
THEOREM RxInvariant == RxSpec => []RxInv
<1>1. RxInit => RxInv BY InitRx
<1>2. RxInv /\ [RxNext]_rxVars => RxInv' BY StepRx
<1> QED BY <1>1, <1>2, PTL DEF RxSpec

\* The save and read index of every port stay inside its buffer, and so does the
\* length computed across the wrap (uart.c:108-127).
THEOREM RxTypes == RxSpec => []RxTypeOK
<1>1. RxInv => RxTypeOK BY DEF RxInv
<1> QED BY <1>1, RxInvariant, PTL

\* An answer that comes in whole into an empty buffer has been accepted when the
\* task of the port (Receive_Commdata_Proce) waits again, on every port and whatever
\* the other ports do to the save index of port 0.
THEOREM WholeIsAccepted == RxSpec => []WholeAccepted
<1>1. RxInv => WholeAccepted
  <2> SUFFICES ASSUME RxInv, NEW p \in PORTS, whole[p], sent[p].place = FRAME, ~sem[p]
               PROVE  accepted[p] = sent[p].answer
    BY DEF WholeAccepted
  <2>1. Untouched(p) \/ Arriving(p) \/ Handled(p) BY DEF RxInv, WholeInv
  <2> QED BY <2>1, RxAssumption DEF Untouched, Arriving, Handled
<1> QED BY <1>1, RxInvariant, PTL

\* Port 0 accepts no answer twice and none out of order.
THEOREM NoneTwice == RxSpec => AcceptedOnce
<1>1. RxInv /\ [RxNext]_rxVars => [Accept(0) => accepted'[0] > accepted[0]]_rxVars
  BY AcceptRx, RxAssumption
<1> QED BY <1>1, RxInvariant, PTL DEF RxSpec, AcceptedOnce
=============================================================================
