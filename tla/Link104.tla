------------------------------ MODULE Link104 ------------------------------
(***************************************************************************)
(* One IEC 60870-5-104 link: the task tcp104CentralTask of a connection     *)
(* (eth_server103.c), its peer at the other end of the TCP connection, and  *)
(* the report ring it reads (SoeRing).                                      *)
(*                                                                         *)
(* The task loops: it handles at most one received frame (centralRecv,      *)
(* centralProcess), then, if the window is open, releases the report sent   *)
(* last, sends the next report and, once a second, a frame of measurements. *)
(* pc names the point of the loop: "top", "spont" (window check), "soe",    *)
(* "yc"; "gone" when the task has left through exitTask.                    *)
(*                                                                         *)
(* Sequence numbers count I frames modulo SEQ (the code counts in twos      *)
(* modulo 2^16: SEQ = 32768, W = 12).  TCP delivers in order: the frames on *)
(* their way to the server are a sequence; towards the peer only how many   *)
(* it has taken matters.                                                    *)
(***************************************************************************)
EXTENDS SoeRing, Sequences

CONSTANTS
    Me,             \* the link this task serves
    W,              \* unacknowledged I frames that close the window
    SEQ,            \* modulus of the sequence numbers
    Asdus,          \* the kinds of command the peer sends
    MAX_COMMANDS,   \* bound on the I frames the peer sends per connection
    MAX_TRANSIT     \* bound on the frames on their way to the server

ASSUME LinkAssumption ==
    /\ Me \in Links
    /\ W \in Nat /\ SEQ \in Nat /\ W + 2 < SEQ
    /\ Asdus \subseteq {"clock", "control", "interrogate", "interrogate01"}
    /\ MAX_COMMANDS \in 0..(SEQ - 1) /\ MAX_TRANSIT \in Nat

VARIABLES
    pc,
    startDT, working,      \* m_bRecvStartDT, m_bWorkingPort
    sendNum, recvNum,      \* m_nSendNum, m_nRecvNum
    confirmedNum,          \* m_nConfirmedNum
    sendNum_SOE,           \* m_nSendNum_SOE
    toServer,              \* frames the peer has sent, oldest first
    peerRecv, peerSent,    \* the peer's own receive and send counts
    base, raced            \* ghosts: reports raised before the last STARTDT
                           \* (or connection); a STARTDT met a pending report

protoVars == <<startDT, working, sendNum, recvNum, confirmedNum, sendNum_SOE>>
peerVars == <<toServer, peerRecv, peerSent>>
ghosts == <<base, raced>>
linkAll == <<vars, pc, protoVars, peerVars, ghosts>>

U(name) == [type |-> name]
S(nr) == [type |-> "S", nr |-> nr]
I(ns, nr, asdu) == [type |-> "I", ns |-> ns, nr |-> nr, asdu |-> asdu]

Pending == autoConfirmed[Me] = SOE_DIEVENT
Ahead(n, m) == (n - m) % SEQ
Outstanding == Ahead(sendNum, confirmedNum)
\* Fault: a counter that does not wrap.
PlusUnwrapped(n, k) == n + k
Plus(n, k) == (n + k) % SEQ

\* Fault: the window admits one frame more.
WindowOpenLate == startDT /\ sendNum - confirmedNum <= W
\* The window test of the task: a plain difference of two 16-bit counters.
WindowOpen == startDT /\ sendNum - confirmedNum < W

\* How many I frames answer a command, and whether its handler then fails.
\* ProcessAsdu46: the confirmation alone or with the termination as well; none
\* for the reset of all devices.
ControlAnswers == {[frames |-> k, fails |-> FALSE] : k \in 0..2}
\* ProcessAsdu100: three for the state inputs; it fails after the first for the
\* common address 0 or 1.
InterrogationAnswers(asdu) ==
    {[frames |-> 1, fails |-> TRUE]}
    \cup (IF asdu = "interrogate" THEN {[frames |-> 3, fails |-> FALSE]} ELSE {})
\* The dispatch; ProcessAsdu103 and an unknown type answer with one.
Answers(asdu) ==
    CASE asdu = "clock" -> {[frames |-> 1, fails |-> FALSE]}
      [] asdu = "control" -> ControlAnswers
      [] OTHER -> InterrogationAnswers(asdu)

LinkInit ==
    /\ Init
    /\ pc = "gone"
    /\ startDT = FALSE /\ working = FALSE
    /\ sendNum = 0 /\ recvNum = 0 /\ confirmedNum = 0 /\ sendNum_SOE = 0
    /\ toServer = <<>> /\ peerRecv = 0 /\ peerSent = 0
    /\ base = 0 /\ raced = FALSE

-----------------------------------------------------------------------------
\* The task's PARAMS as rt_malloc and memset leave them, nothing in transit.
NewParams ==
    /\ startDT' = FALSE /\ working' = FALSE
    /\ sendNum' = 0 /\ recvNum' = 0 /\ confirmedNum' = 0 /\ sendNum_SOE' = 0
    /\ toServer' = <<>> /\ peerRecv' = 0 /\ peerSent' = 0
    /\ base' = raised /\ raced' = FALSE

\* TCP104CommuTsk accepts the connection and tcp104CentralTask initialises.
Accept ==
    /\ pc = "gone"
    /\ Establish(Me)
    /\ pc' = "top"
    /\ NewParams

\* exitTask frees the task's PARAMS and closes the connection.
Leave ==
    /\ Drop(Me)
    /\ pc' = "gone"
    /\ NewParams

\* The peer has closed, a send has failed three times, or no data came for too
\* long.
Exit == pc # "gone" /\ Leave

\* Bound: a peer that leaves SEQ frames unacknowledged has not taken them either,
\* so that its socket takes no more.
Fits(nr, k) == Ahead(sendNum, nr) + k < SEQ

\* centralSend of k frames.
SendFrames(k) ==
    /\ Fits(confirmedNum, k)
    /\ sendNum' = Plus(sendNum, k)

Frame == Head(toServer)
Ready == pc = "top" /\ toServer # <<>>
Take == Ready /\ toServer' = Tail(toServer)

\* centralSend gives up after three tries and the task leaves.
SendFails ==
    /\ ~Fits(confirmedNum, 1)
    /\ \/ Ready /\ Frame.type = "STARTDT"
       \/ pc = "soe" /\ working /\ Hits(DInputReadIndex[Me]) # {}
       \/ pc = "yc"
    /\ Leave

\* centralRecv refuses a send number ahead of its own count.
RecvError ==
    /\ Ready
    /\ Frame.type = "I" /\ Frame.ns > recvNum
    /\ Leave

\* An S or I frame that covers the pending report releases it (OP_SendSomeSOE).
ConfirmIfCovered(nr) ==
    IF Pending /\ nr >= sendNum_SOE THEN Confirm(Me) ELSE UNCHANGED vars

\* Fault: STARTDT leaves the cursor where it was.
RecvStartDTKeep ==
    /\ Take
    /\ Frame.type = "STARTDT"
    /\ startDT' = TRUE
    /\ SendFrames(1)
    /\ base' = raised
    /\ raced' = (raced \/ Pending)
    /\ pc' = "spont"
    /\ UNCHANGED <<vars, working, recvNum, confirmedNum, sendNum_SOE, peerRecv,
                   peerSent>>

\* STARTDT: confirmation, OP_EstablishLink again, one frame of device state.
\* A report still waiting for its confirmation keeps waiting.
RecvStartDT ==
    /\ Take
    /\ Frame.type = "STARTDT"
    /\ startDT' = TRUE
    /\ ResetCursor(Me)
    /\ SendFrames(1)
    /\ base' = raised
    /\ raced' = (raced \/ Pending)
    /\ pc' = "spont"
    /\ UNCHANGED <<writerVars, up, autoConfirmed, sent, working, recvNum,
                   confirmedNum, sendNum_SOE, peerRecv, peerSent>>

\* STOPDT stops reports, not measurements: m_bRecvStartDT stays set.
RecvStopDT ==
    /\ Take
    /\ Frame.type = "STOPDT"
    /\ working' = (working /\ ~startDT)
    /\ pc' = "spont"
    /\ UNCHANGED <<vars, startDT, sendNum, recvNum, confirmedNum, sendNum_SOE,
                   peerRecv, peerSent, ghosts>>

\* TESTFR is confirmed, its confirmation ignored.
RecvTestFR ==
    /\ Take
    /\ Frame.type \in {"TESTFR", "TESTFRCON"}
    /\ pc' = "spont"
    /\ UNCHANGED <<vars, protoVars, peerRecv, peerSent, ghosts>>

\* An S frame moves the window, and restarts the reports.
RecvS ==
    /\ Take
    /\ Frame.type = "S"
    /\ confirmedNum' = Frame.nr
    /\ working' = (working \/ startDT)
    /\ IF startDT THEN ConfirmIfCovered(Frame.nr) ELSE UNCHANGED vars
    /\ pc' = "spont"
    /\ UNCHANGED <<startDT, sendNum, recvNum, sendNum_SOE, peerRecv, peerSent,
                   ghosts>>

\* An I frame before STARTDT is counted and otherwise ignored.
RecvIStopped ==
    /\ Take
    /\ Frame.type = "I" /\ Frame.ns <= recvNum /\ ~startDT
    /\ recvNum' = Plus(recvNum, 1)
    /\ confirmedNum' = Frame.nr
    /\ pc' = "spont"
    /\ UNCHANGED <<vars, startDT, working, sendNum, sendNum_SOE, peerRecv,
                   peerSent, ghosts>>

\* An I frame: as an S frame, then its command is handled and answered, window
\* or not; a handler that fails ends the task.
RecvI ==
    /\ Ready
    /\ Frame.type = "I" /\ Frame.ns <= recvNum /\ startDT
    /\ \E answer \in Answers(Frame.asdu) :
           \/ /\ answer.fails \/ ~Fits(Frame.nr, answer.frames)
              /\ Leave
           \/ /\ ~answer.fails /\ Fits(Frame.nr, answer.frames)
              /\ sendNum' = Plus(sendNum, answer.frames)
              /\ recvNum' = Plus(recvNum, 1)
              /\ confirmedNum' = Frame.nr
              /\ working' = TRUE
              /\ ConfirmIfCovered(Frame.nr)
              /\ toServer' = Tail(toServer)
              /\ pc' = "spont"
              /\ UNCHANGED <<startDT, sendNum_SOE, peerRecv, peerSent, ghosts>>

NoData ==
    /\ pc = "top" /\ toServer = <<>>
    /\ pc' = "spont"
    /\ UNCHANGED <<vars, protoVars, peerVars, ghosts>>

\* The window is closed: nothing is sent spontaneously in this pass.
Hold ==
    /\ pc = "spont" /\ ~WindowOpen
    /\ pc' = "top"
    /\ UNCHANGED <<vars, protoVars, peerVars, ghosts>>

\* Fault: only a frame that covers it releases a pending report.
ReleaseNever ==
    /\ pc = "spont" /\ WindowOpen
    /\ pc' = "soe"
    /\ UNCHANGED <<vars, protoVars, peerVars, ghosts>>

\* The window is open: a pending report is released at once (the 20 s test is
\* commented out).
Release ==
    /\ pc = "spont" /\ WindowOpen
    /\ IF Pending THEN Confirm(Me) ELSE UNCHANGED vars
    /\ pc' = "soe"
    /\ UNCHANGED <<protoVars, peerVars, ghosts>>

\* JudgeNewSOE finds nothing, or the port is not the working one.
NoReport ==
    /\ pc = "soe"
    /\ ~working \/ Hits(DInputReadIndex[Me]) = {}
    /\ pc' = "yc"
    /\ UNCHANGED <<vars, protoVars, peerVars, ghosts>>

\* JudgeNewSOE finds a report and ProcessSOE sends it.
SendReport ==
    /\ pc = "soe"
    /\ working
    /\ Send(Me)
    /\ SendFrames(1)
    /\ sendNum_SOE' = sendNum'
    /\ pc' = "yc"
    /\ UNCHANGED <<startDT, working, recvNum, confirmedNum, peerVars, base, raced>>

\* Once a second a frame of measurements, working port or not.
SendYC ==
    /\ pc = "yc"
    /\ SendFrames(1)
    /\ pc' = "top"
    /\ UNCHANGED <<vars, startDT, working, recvNum, confirmedNum, sendNum_SOE,
                   peerVars, ghosts>>

NoYC ==
    /\ pc = "yc"
    /\ pc' = "top"
    /\ UNCHANGED <<vars, protoVars, peerVars, ghosts>>

-----------------------------------------------------------------------------
Put(frame) ==
    /\ pc # "gone"
    /\ Len(toServer) < MAX_TRANSIT
    /\ toServer' = Append(toServer, frame)

\* The peer takes I frames off its socket.
PeerTake ==
    /\ pc # "gone" /\ peerRecv # sendNum
    /\ peerRecv' = Plus(peerRecv, 1)
    /\ UNCHANGED <<vars, pc, protoVars, toServer, peerSent, ghosts>>

PeerControl ==
    /\ \E name \in {"STARTDT", "STOPDT", "TESTFR", "TESTFRCON"} : Put(U(name))
    /\ UNCHANGED <<vars, pc, protoVars, peerRecv, peerSent, ghosts>>

\* The peer acknowledges what it has taken.
PeerAck ==
    /\ Put(S(peerRecv))
    /\ UNCHANGED <<vars, pc, protoVars, peerRecv, peerSent, ghosts>>

\* A command; a peer that lost count numbers it one too high.
PeerCommand ==
    /\ peerSent < MAX_COMMANDS
    /\ \E ns \in {peerSent, peerSent + 1}, asdu \in Asdus :
           Put(I(ns, peerRecv, asdu))
    /\ peerSent' = peerSent + 1
    /\ UNCHANGED <<vars, pc, protoVars, peerRecv, ghosts>>

\* save_di_report, run to its end: SoeRing has the link tasks preempt it.
RaiseReport ==
    /\ raised < MAX_REPORTS
    /\ change_soe' = [change_soe EXCEPT ![Index(change_soe_position)] =
                          [event |-> raised, time |-> raised]]
    /\ change_soe_position' = Advance(change_soe_position)
    /\ raised' = raised + 1
    /\ UNCHANGED <<writer, linkVars>>
    /\ UNCHANGED <<pc, protoVars, peerVars, ghosts>>

Receive == RecvError \/ RecvStartDT \/ RecvStopDT \/ RecvTestFR \/ RecvS
           \/ RecvIStopped \/ RecvI
Spontaneous == Hold \/ Release \/ NoReport \/ SendReport \/ SendYC \/ NoYC
               \/ SendFails
Peer == PeerTake \/ PeerControl \/ PeerAck \/ PeerCommand
LinkNext == Accept \/ Exit \/ Receive \/ NoData \/ Spontaneous
            \/ Peer \/ RaiseReport

\* The task keeps looping; the peer takes what arrives and keeps acknowledging.
LinkFairness ==
    /\ WF_linkAll(Receive \/ NoData \/ Spontaneous)
    /\ WF_linkAll(PeerTake) /\ SF_linkAll(PeerAck)

LinkSpec == LinkInit /\ [][LinkNext]_linkAll /\ LinkFairness

-----------------------------------------------------------------------------
Frames == [type: {"STARTDT", "STOPDT", "TESTFR", "TESTFRCON"}]
          \cup [type: {"S"}, nr: 0..(SEQ - 1)]
          \cup [type: {"I"}, ns: 0..MAX_COMMANDS, nr: 0..(SEQ - 1), asdu: Asdus]

\* Types of the link's own variables; the cursor may run one report ahead of the
\* writer (see StartsFresh).
LinkTypeOK ==
    /\ DInputReadIndex \in [Links -> Slots]
    /\ pc \in {"top", "spont", "soe", "yc", "gone"}
    /\ {startDT, working, raced} \subseteq BOOLEAN
    /\ {sendNum, recvNum, confirmedNum, sendNum_SOE, peerRecv} \subseteq 0..(SEQ - 1)
    /\ peerSent \in 0..MAX_COMMANDS
    /\ toServer \in Seq(Frames) /\ Len(toServer) <= MAX_TRANSIT
    /\ base \in 0..MAX_REPORTS

\* Between the window check and the frames it allows, nothing but those frames
\* is sent and no acknowledgement is taken back.
WindowInv ==
    /\ pc = "soe" => startDT /\ sendNum - confirmedNum < W
    /\ pc = "yc" => sendNum - confirmedNum <= W

\* The ring as SoeRing leaves it between two reports, whatever the cursors.
RingAtRest ==
    /\ change_soe \in [Slots -> Record]
    /\ change_soe_position \in (0..(RING - 1)) \cup (WRAPPED..(WRAPPED + RING - 1))
    /\ writer \in [pc: {"idle"}, slot: 0..(RING - 1)]
    /\ raised \in 0..MAX_REPORTS
    /\ RingHoldsNewest
    /\ \A s \in RING..(REPORT_SUM - 1) : ~Valid(s)
    /\ LapInv

\* The link's cursor keeps to the rules of SoeRing, and never falls behind the
\* last STARTDT, until a STARTDT meets a pending report.
LinkInv ==
    /\ LinkTypeOK
    /\ RingAtRest
    /\ up = IF pc = "gone" THEN {} ELSE {Me}
    /\ autoConfirmed \in [Links -> {SOE_CONFIRMED, SOE_DIEVENT}]
    /\ sent \in [Links -> Record]
    /\ consumed \in [Links -> Int]
    /\ \A l \in Links \ {Me} : consumed[l] \in 0..MAX_REPORTS
    /\ pc # "gone" /\ ~raced => /\ consumed[Me] \in base..raised
                               /\ CursorOK(Me)

SentSpontaneously == pc \in {"soe", "yc"} /\ pc' # "gone" /\ sendNum' # sendNum

\* Unless a sequence number has wrapped, spontaneous frames leave only while at
\* most W are unacknowledged: one check of the window is followed by up to two
\* frames, a report and measurements.
WindowHolds ==
    [][SentSpontaneously /\ confirmedNum <= sendNum => Outstanding <= W]_linkAll

\* Unless a STARTDT met a pending report, what is sent after a STARTDT (or the
\* connection) was raised after it, and in order while the link keeps up.
StartsFresh ==
    [][Sends(Me) /\ ~raced =>
           /\ consumed'[Me] >= base
           /\ Lag(Me) <= RING => consumed'[Me] = consumed[Me]]_linkAll

\* A report raised while the link runs reaches the peer: sent, unless the
\* connection or STOPDT ends it, or the link falls a lap of the ring behind.
LinkDelivers ==
    \A e \in Reports :
        (startDT /\ working /\ pc # "gone" /\ consumed[Me] <= e /\ e < raised)
            ~> (pc = "gone" \/ ~working \/ consumed[Me] > e \/ Lag(Me) >= RING)
=============================================================================
