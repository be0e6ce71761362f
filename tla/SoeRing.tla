------------------------------ MODULE SoeRing ------------------------------
(***************************************************************************)
(* The ring of state-change reports (SOE) between the database thread and   *)
(* the IEC 104 link tasks.                                                  *)
(*                                                                         *)
(* Writer: save_di_report (rtdboperate.c), called by the RtdbProcess        *)
(* thread, priority 21.  It moves change_soe_position on FIRST and fills    *)
(* the slot afterwards, field by field.                                     *)
(* Readers: one cursor per link, linkInfo[fd].DInputReadIndex               *)
(* (eth_callee.c), used by the link tasks, priority 20, which preempt the   *)
(* writer between any two of its statements; a link task's own look-up and  *)
(* copy of a slot is not preempted by the writer.                           *)
(*                                                                         *)
(* The writer uses RING slots (100) while the readers walk REPORT_SUM       *)
(* slots (200): the slots from RING on stay invalid for ever.               *)
(*                                                                         *)
(* Reports are numbered 0, 1, 2, ... in the order they are raised; a slot   *)
(* holds the number of the report its fields belong to and, apart from it,  *)
(* the number of the report its time stamp belongs to.                      *)
(***************************************************************************)
EXTENDS Integers, FiniteSets

CONSTANTS
    RING,         \* slots the writer cycles through (99 + 1 in save_di_report)
    REPORT_SUM,   \* slots the readers cycle through (base_define.h)
    Links,        \* link tasks, each with its linkInfo entry
    MAX_REPORTS   \* bound on the reports raised in a behaviour

ASSUME RingAssumption ==
    /\ RING \in 1..127          \* the index shares a byte with the wrap bit
    /\ REPORT_SUM \in Nat /\ REPORT_SUM >= RING
    /\ MAX_REPORTS \in Nat

NONE == -1          \* the slot was never written: nValid = 0
SOE_CONFIRMED == -1 \* m_nAutoConfirmed: nothing is waiting for a confirmation
SOE_DIEVENT == 3
WRAPPED == 128      \* bit 0x80 of the position: the ring has wrapped

Slots == 0..(REPORT_SUM - 1)
Reports == 0..(MAX_REPORTS - 1)
Blank == [event |-> NONE, time |-> NONE]
Record == [event: Reports \cup {NONE}, time: Reports \cup {NONE}]

VARIABLES
    change_soe,           \* the ring
    change_soe_position,  \* next slot to write, with the wrap bit
    writer,               \* where save_di_report stands, and in which slot
    raised,               \* number of reports raised so far
    up,                   \* links with an established connection
    DInputReadIndex,      \* linkInfo[l].DInputReadIndex
    autoConfirmed,        \* m_nAutoConfirmed of the link
    sent,                 \* the record the link put on the wire last
    consumed              \* ghost: the report number the cursor stands for

vars == <<change_soe, change_soe_position, writer, raised, up,
          DInputReadIndex, autoConfirmed, sent, consumed>>
writerVars == <<change_soe, change_soe_position, writer, raised>>
linkVars == <<up, DInputReadIndex, autoConfirmed, sent, consumed>>

\* change_soe_position & 0x7f
Index(position) == position % WRAPPED

\* Fault: the wrap comes one slot late.
AdvanceLate(position) ==
    IF Index(position) < RING THEN position + 1 ELSE WRAPPED
\* The position save_di_report leaves behind.
Advance(position) ==
    IF Index(position) < RING - 1 THEN position + 1 ELSE WRAPPED

Valid(slot) == change_soe[slot].event # NONE

\* How far the scan of OP_GetSOEQueueSendType walks before it meets the
\* position, and the slot it looks at after d steps.
Distance(from) ==
    LET to == Index(change_soe_position)
    IN  IF from <= to THEN to - from ELSE REPORT_SUM - from + to
Walk(from, d) ==
    IF from + d < REPORT_SUM THEN from + d ELSE from + d - REPORT_SUM
Hits(from) == {d \in 0..(Distance(from) - 1) : Valid(Walk(from, d))}

\* Reports lie in the ring in the order they were raised: this lap's before
\* the position, the previous lap's from the position on.  Newest is the last
\* report announced for a slot; a negative number says there was none.
LapStart == raised - Index(change_soe_position)
Newest(slot) == IF slot < Index(change_soe_position) THEN LapStart + slot
                                                     ELSE LapStart + slot - RING

Init ==
    /\ change_soe = [s \in Slots |-> Blank]
    /\ change_soe_position = 0
    /\ writer = [pc |-> "idle", slot |-> 0]
    /\ raised = 0
    /\ up = {}
    /\ DInputReadIndex = [l \in Links |-> 0]
    /\ autoConfirmed = [l \in Links |-> SOE_CONFIRMED]
    /\ sent = [l \in Links |-> Blank]
    /\ consumed = [l \in Links |-> 0]

-----------------------------------------------------------------------------
\* save_di_report, up to the new position: the report is announced.
SaveAdvance ==
    /\ writer.pc = "idle"
    /\ raised < MAX_REPORTS
    /\ writer' = [pc |-> "identify", slot |-> Index(change_soe_position)]
    /\ change_soe_position' = Advance(change_soe_position)
    /\ raised' = raised + 1
    /\ UNCHANGED <<change_soe, linkVars>>

\* Fault: the position is read again after it has moved.
SaveIdentifyNext ==
    /\ writer.pc = "identify"
    /\ change_soe' =
           [change_soe EXCEPT ![Index(change_soe_position)].event = raised - 1]
    /\ writer' = [writer EXCEPT !.pc = "stamp"]
    /\ UNCHANGED <<change_soe_position, raised, linkVars>>

\* nValid, nPortID, ndeviceaddr, n103Inf, nSPI.
SaveIdentify ==
    /\ writer.pc = "identify"
    /\ change_soe' = [change_soe EXCEPT ![writer.slot] =
                          [event |-> raised - 1, time |-> @.time]]
    /\ writer' = [writer EXCEPT !.pc = "stamp"]
    /\ UNCHANGED <<change_soe_position, raised, linkVars>>

\* dtTime = TIME, the last field, and the return to RtdbProcess.
SaveStamp ==
    /\ writer.pc = "stamp"
    /\ change_soe' = [change_soe EXCEPT ![writer.slot] =
                          [event |-> @.event, time |-> raised - 1]]
    /\ writer' = [writer EXCEPT !.pc = "idle"]
    /\ UNCHANGED <<change_soe_position, raised, linkVars>>

\* Fault: the cursor of the previous connection is kept.
EstablishStale(l) ==
    /\ l \notin up
    /\ up' = up \cup {l}
    /\ autoConfirmed' = [autoConfirmed EXCEPT ![l] = SOE_CONFIRMED]
    /\ consumed' = [consumed EXCEPT ![l] = raised]
    /\ sent' = [sent EXCEPT ![l] = Blank]
    /\ UNCHANGED <<writerVars, DInputReadIndex>>

\* OP_EstablishLink: the reports raised so far are skipped.
ResetCursor(l) ==
    /\ DInputReadIndex' =
           [DInputReadIndex EXCEPT ![l] = Index(change_soe_position)]
    /\ consumed' = [consumed EXCEPT ![l] = raised]

\* A new connection.
Establish(l) ==
    /\ l \notin up
    /\ up' = up \cup {l}
    /\ ResetCursor(l)
    /\ autoConfirmed' = [autoConfirmed EXCEPT ![l] = SOE_CONFIRMED]
    /\ sent' = [sent EXCEPT ![l] = Blank]
    /\ UNCHANGED writerVars

\* exitTask: the link goes away, whatever was waiting for a confirmation.
Drop(l) ==
    /\ l \in up
    /\ up' = up \ {l}
    /\ UNCHANGED <<writerVars, DInputReadIndex, autoConfirmed, sent, consumed>>

\* JudgeNewSOE and ProcessSOE: the scan leaves the cursor at the first valid
\* slot, OP_GetpSOEQueue reads that slot, centralSend succeeds.
Send(l) ==
    /\ l \in up
    /\ autoConfirmed[l] = SOE_CONFIRMED
    /\ \E d \in Hits(DInputReadIndex[l]) :
           /\ \A k \in Hits(DInputReadIndex[l]) : d <= k
           /\ LET slot == Walk(DInputReadIndex[l], d)
              IN  /\ DInputReadIndex' = [DInputReadIndex EXCEPT ![l] = slot]
                  /\ sent' = [sent EXCEPT ![l] = change_soe[slot]]
                  /\ consumed' = [consumed EXCEPT ![l] = Newest(slot)]
    /\ autoConfirmed' = [autoConfirmed EXCEPT ![l] = SOE_DIEVENT]
    /\ UNCHANGED <<writerVars, up>>

\* Fault: the cursor moves two slots for one report.
ConfirmTwo(l) ==
    /\ l \in up
    /\ autoConfirmed[l] = SOE_DIEVENT
    /\ DInputReadIndex' = [DInputReadIndex EXCEPT ![l] = Walk(@, 2)]
    /\ consumed' = [consumed EXCEPT ![l] = @ + 1]
    /\ autoConfirmed' = [autoConfirmed EXCEPT ![l] = SOE_CONFIRMED]
    /\ UNCHANGED <<writerVars, up, sent>>

\* OP_SendSomeSOE with the count JudgeNewSOE found, which is 1.
Confirm(l) ==
    /\ l \in up
    /\ autoConfirmed[l] = SOE_DIEVENT
    /\ DInputReadIndex' = [DInputReadIndex EXCEPT ![l] = Walk(@, 1)]
    /\ consumed' = [consumed EXCEPT ![l] = @ + 1]
    /\ autoConfirmed' = [autoConfirmed EXCEPT ![l] = SOE_CONFIRMED]
    /\ UNCHANGED <<writerVars, up, sent>>

Save == SaveAdvance \/ SaveIdentify \/ SaveStamp
Link(l) == Establish(l) \/ Drop(l) \/ Send(l) \/ Confirm(l)
Next == Save \/ \E l \in Links : Link(l)

Spec == Init /\ [][Next]_vars

-----------------------------------------------------------------------------
\* Every variable has its type; the position never names a slot outside the
\* writer's ring and the cursors never leave the readers' (rtdboperate.c:145,
\* eth_callee.c:882).
TypeOK ==
    /\ change_soe \in [Slots -> Record]
    /\ change_soe_position \in (0..(RING - 1)) \cup (WRAPPED..(WRAPPED + RING - 1))
    /\ writer \in [pc: {"idle", "identify", "stamp"}, slot: 0..(RING - 1)]
    /\ raised \in 0..MAX_REPORTS
    /\ up \subseteq Links
    /\ DInputReadIndex \in [Links -> Slots]
    /\ autoConfirmed \in [Links -> {SOE_CONFIRMED, SOE_DIEVENT}]
    /\ sent \in [Links -> Record]
    /\ consumed \in [Links -> 0..MAX_REPORTS]

Writing(slot) == writer.pc # "idle" /\ writer.slot = slot

\* Outside the one slot save_di_report is busy with, every slot of the ring
\* holds the newest report raised for it, with that report's own time.
RingHoldsNewest ==
    \A s \in 0..(RING - 1) :
        ~Writing(s) =>
            IF Newest(s) < 0 THEN change_soe[s] = Blank
            ELSE change_soe[s] = [event |-> Newest(s), time |-> Newest(s)]

Lag(l) == raised - consumed[l]

\* The scan of OP_GetSOEQueueSendType finds as many reports as were raised
\* since the cursor, modulo the ring, although the writer and the readers
\* wrap at different places; the one announced but not yet marked valid is
\* not seen.  A backlog of exactly RING reports is therefore invisible.
BacklogSeen ==
    \A l \in up :
        LET unmarked == IF writer.pc = "identify" /\ ~Valid(writer.slot)
                        THEN 1 ELSE 0
            behind == Lag(l) % RING
        IN  Cardinality(Hits(DInputReadIndex[l])) =
                IF behind = 0 THEN 0 ELSE behind - unmarked

Sends(l) == autoConfirmed[l] = SOE_CONFIRMED /\ autoConfirmed'[l] = SOE_DIEVENT

\* What a link puts on the wire is the report its cursor stands for, whole,
\* except when the link task preempts save_di_report between the new position
\* and dtTime: then fields may still be those of one lap of the ring earlier.
SentIsDue ==
    [][\A l \in Links : Sends(l) =>
           LET due == consumed'[l]
               old == IF due < RING THEN NONE ELSE due - RING
           IN  \/ sent'[l] = [event |-> due, time |-> due]
               \/ /\ writer.pc # "idle" /\ due = raised - 1
                  /\ sent'[l] \in [event: {due, old}, time: {old}]
                  /\ sent'[l].event # NONE]_vars

\* A link that is at most RING reports behind is sent the next report: none is
\* skipped and none is sent twice (ReadIndex against change_soe_position).
InOrder ==
    [][\A l \in Links : Sends(l) /\ Lag(l) <= RING =>
           consumed'[l] = consumed[l]]_vars

\* The slot save_di_report is busy with, and how much of it is new.
OldReport == IF raised - 1 < RING THEN NONE ELSE raised - 1 - RING
WriterInv ==
    writer.pc # "idle" =>
        /\ raised > 0
        /\ writer.slot = IF Index(change_soe_position) = 0
                         THEN RING - 1 ELSE Index(change_soe_position) - 1
        /\ change_soe[writer.slot] =
               [event |-> IF writer.pc = "identify" THEN OldReport ELSE raised - 1,
                time |-> OldReport]

\* The wrap bit tells whether a whole lap has been written.
LapInv == IF change_soe_position < WRAPPED THEN LapStart = 0
                                           ELSE LapStart >= RING

\* The slot of report e, for a report at most one lap and one report old.
SlotOf(e) ==
    IF e >= LapStart THEN e - LapStart
    ELSE IF e >= LapStart - RING THEN e - LapStart + RING
    ELSE e - LapStart + 2 * RING

\* A cursor within a lap of the writer stands on the slot of the next report;
\* one past the writer's last slot means slot 0.
CursorOK(l) ==
    LET pending == autoConfirmed[l] = SOE_DIEVENT
    IN  /\ Lag(l) >= 0
        /\ DInputReadIndex[l] <= RING
        /\ pending => Lag(l) >= 1 /\ DInputReadIndex[l] < RING
        /\ (Lag(l) <= IF pending THEN RING + 1 ELSE RING) =>
               SlotOf(consumed[l]) =
                   IF DInputReadIndex[l] = RING THEN 0 ELSE DInputReadIndex[l]
CursorInv == \A l \in up : CursorOK(l)

\* The inductive invariant behind the properties above: the ring's layout, the
\* writer's half-written slot, the wrap bit and the cursors together.
RingInv ==
    /\ TypeOK
    /\ RingHoldsNewest
    /\ \A s \in RING..(REPORT_SUM - 1) : ~Valid(s)
    /\ WriterInv
    /\ LapInv
    /\ CursorInv

\* However far a link is behind, the report its cursor stands for and the slot
\* the cursor is on differ by whole laps of the ring.
CursorLaps ==
    \A l \in up : (LapStart + DInputReadIndex[l] - consumed[l]) % RING = 0

\* The ring implements the stream of SoeStream: a report counts as delivered
\* when it is sent, the cursor moves only with the confirmation.
Stream == INSTANCE SoeStream WITH
    live <- up,
    next <- [l \in Links |->
                IF autoConfirmed[l] = SOE_DIEVENT THEN consumed[l] + 1
                                                  ELSE consumed[l]]
ImplementsStream == Stream!Spec
=============================================================================
