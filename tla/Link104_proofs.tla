--------------------------- MODULE Link104_proofs ---------------------------
(***************************************************************************)
(* The report ring (SoeRing) and the 104 link that reads it (Link104), for  *)
(* every ring size up to 127, every number of links and of reports, every   *)
(* window and every modulus of the sequence numbers.                        *)
(*                                                                         *)
(* Ring: RingInv is inductive, and with it what a link sends is the due     *)
(* report (SentIsDue), in order (InOrder); CursorLaps is inductive relative *)
(* to it and gives what the scan finds (BacklogSeen) and the refinement of  *)
(* SoeStream.  Link: LinkInv reduces a link in step to a link of the ring,  *)
(* so that the ring's lemmas serve for it (StartsFresh); WindowInv carries  *)
(* the window check to the frames it allows (WindowHolds).                  *)
(***************************************************************************)
EXTENDS Link104, TLAPS, FiniteSetTheorems

Positions == (0..(RING - 1)) \cup (WRAPPED..(WRAPPED + RING - 1))

\* The index is the position without its wrap bit (position & 0x7f).
LEMMA IndexOfPosition ==
    ASSUME NEW p \in Positions
    PROVE  /\ Index(p) = IF p < WRAPPED THEN p ELSE p - WRAPPED
           /\ Index(p) \in 0..(RING - 1)
<1>1. CASE p < WRAPPED
  <2>1. p \in 0..127
    BY <1>1, RingAssumption DEF Positions, WRAPPED
  <2>2. p % 128 = p
    BY <2>1
  <2>. QED BY <1>1, <2>1, <2>2, RingAssumption DEF Positions, WRAPPED, Index
<1>2. CASE p >= WRAPPED
  <2>1. p \in 128..255
    BY <1>2, RingAssumption DEF Positions, WRAPPED
  <2>2. p % 128 = p - 128
    BY <2>1
  <2>. QED BY <1>2, <2>1, <2>2, RingAssumption DEF Positions, WRAPPED, Index
<1>. QED BY <1>1, <1>2, RingAssumption DEF Positions, WRAPPED

\* Advance stays in the writer's ring and moves the index by one, from the last
\* slot to slot 0 (save_di_report).
LEMMA AdvanceMovesOne ==
    ASSUME NEW p \in Positions
    PROVE  /\ Advance(p) \in Positions
           /\ Index(Advance(p)) = IF Index(p) = RING - 1 THEN 0 ELSE Index(p) + 1
           /\ Advance(p) < WRAPPED => p < WRAPPED /\ Index(p) # RING - 1
           /\ Advance(p) >= WRAPPED => p >= WRAPPED \/ Index(p) = RING - 1
<1>1. /\ Index(p) = IF p < WRAPPED THEN p ELSE p - WRAPPED
      /\ Index(p) \in 0..(RING - 1)
  BY IndexOfPosition
<1>2. Advance(p) \in Positions
  BY <1>1, RingAssumption DEF Advance, Positions, WRAPPED
<1>3. Index(Advance(p)) =
          IF Advance(p) < WRAPPED THEN Advance(p) ELSE Advance(p) - WRAPPED
  BY <1>2, IndexOfPosition
<1>. QED BY <1>1, <1>2, <1>3, RingAssumption DEF Advance, Positions, WRAPPED

\* The initial ring, empty and idle, satisfies the invariant.
LEMMA InitRingInv == Init => RingInv
<1> SUFFICES ASSUME Init PROVE RingInv
  OBVIOUS
<1>0. Index(0) = 0
  BY IndexOfPosition, RingAssumption DEF Positions, WRAPPED
<1>1. TypeOK
  BY RingAssumption DEF Init, TypeOK, Record, Blank, Slots, Reports, NONE,
     SOE_CONFIRMED, SOE_DIEVENT
<1>2. RingHoldsNewest
  BY <1>0, RingAssumption DEF Init, RingHoldsNewest, Newest, LapStart, Valid,
     Slots, NONE
<1>3. /\ \A s \in RING..(REPORT_SUM - 1) : ~Valid(s)
      /\ WriterInv
      /\ LapInv
      /\ CursorInv
  BY <1>0, RingAssumption DEF Init, Valid, Blank, WriterInv, LapInv, LapStart,
     CursorInv, CursorOK, Slots, WRAPPED
<1>. QED BY <1>1, <1>2, <1>3 DEF RingInv

\* The facts about the position that every step below starts from.
LEMMA PositionFacts ==
    ASSUME RingInv
    PROVE  /\ change_soe_position \in Positions
           /\ Index(change_soe_position) \in 0..(RING - 1)
           /\ LapStart \in Nat
           /\ raised = LapStart + Index(change_soe_position)
<1>1. /\ change_soe_position \in Positions
      /\ raised \in Nat
      /\ LapInv
  BY DEF RingInv, TypeOK, Positions
<1>2. Index(change_soe_position) \in 0..(RING - 1)
  BY <1>1, IndexOfPosition
<1>. QED BY <1>1, <1>2, RingAssumption DEF LapInv, LapStart, Positions, WRAPPED

\* Announcing a report (save_di_report up to the position) keeps the invariant.
LEMMA SaveAdvanceKeepsRingInv ==
    ASSUME RingInv, SaveAdvance
    PROVE  RingInv'
<1> DEFINE i == Index(change_soe_position)
<1>0. /\ change_soe_position \in Positions
      /\ i \in 0..(RING - 1)
      /\ LapStart \in Nat
      /\ raised = LapStart + i
  BY PositionFacts
<1>1. /\ change_soe_position' = Advance(change_soe_position)
      /\ change_soe_position' \in Positions
      /\ Index(change_soe_position') = IF i = RING - 1 THEN 0 ELSE i + 1
      /\ change_soe_position' < WRAPPED =>
             change_soe_position < WRAPPED /\ i # RING - 1
      /\ change_soe_position' >= WRAPPED =>
             change_soe_position >= WRAPPED \/ i = RING - 1
  BY <1>0, AdvanceMovesOne DEF SaveAdvance
<1>2. raised' = raised + 1 /\ raised \in Nat /\ RING \in Nat \ {0}
  BY RingAssumption DEF SaveAdvance, RingInv, TypeOK
<1>3. LapStart' = IF i = RING - 1 THEN LapStart + RING ELSE LapStart
  BY <1>0, <1>1, <1>2 DEF LapStart
<1>4. TypeOK'
  <2>1. TypeOK
    BY DEF RingInv
  <2>2. writer' \in [pc: {"idle", "identify", "stamp"}, slot: 0..(RING - 1)]
    BY <1>0 DEF SaveAdvance
  <2>3. raised' \in 0..MAX_REPORTS
    BY <2>1, RingAssumption DEF SaveAdvance, TypeOK
  <2>4. UNCHANGED <<change_soe, up, DInputReadIndex, autoConfirmed, sent, consumed>>
    BY DEF SaveAdvance, linkVars
  <2>. QED BY <1>1, <2>1, <2>2, <2>3, <2>4 DEF TypeOK, Positions
<1> HIDE DEF i
<1>5. ASSUME NEW s \in 0..(RING - 1)
      PROVE  Newest(s)' = IF s = i THEN Newest(s) + RING ELSE Newest(s)
  <2>1. /\ Newest(s) = IF s < i THEN LapStart + s ELSE LapStart + s - RING
        /\ Newest(s)' = IF s < Index(change_soe_position') THEN LapStart' + s
                                                           ELSE LapStart' + s - RING
    BY DEF Newest, i
  <2>. QED BY <2>1, <1>0, <1>1, <1>2, <1>3
<1>6. writer' = [pc |-> "identify", slot |-> i] /\ writer.pc = "idle"
      /\ UNCHANGED <<change_soe, up, DInputReadIndex, autoConfirmed, sent, consumed>>
  BY DEF SaveAdvance, linkVars, i
<1>7. RingHoldsNewest'
  BY <1>5, <1>6 DEF RingInv, RingHoldsNewest, Writing, Valid
<1>8. (\A s \in RING..(REPORT_SUM - 1) : ~Valid(s))'
  BY <1>6 DEF RingInv, Valid
<1>9. WriterInv'
  <2>1. Newest(i) = LapStart + i - RING /\ Newest(i) = raised - RING
    BY <1>0, <1>2 DEF Newest, i
  <2>2. change_soe[i] = [event |-> OldReport', time |-> OldReport']
    <3>1. ~Writing(i) /\ i \in Slots
      BY <1>0, <1>6, RingAssumption DEF Writing, Slots
    <3>2. CASE Newest(i) < 0
      <4>1. change_soe[i] = Blank
        BY <1>0, <3>1, <3>2 DEF RingInv, RingHoldsNewest
      <4>2. OldReport' = NONE
        BY <3>2, <2>1, <1>2 DEF OldReport
      <4>. QED BY <4>1, <4>2 DEF Blank
    <3>3. CASE ~(Newest(i) < 0)
      BY <1>0, <3>1, <3>3, <2>1, <1>2 DEF RingInv, RingHoldsNewest, OldReport
    <3>. QED BY <3>2, <3>3
  <2>. QED BY <2>2, <1>0, <1>1, <1>2, <1>6 DEF WriterInv
<1>10. LapInv'
  BY <1>0, <1>1, <1>2, <1>3 DEF RingInv, LapInv, Positions, WRAPPED
<1>11. CursorInv'
  BY <1>0, <1>1, <1>2, <1>3, <1>6
     DEF RingInv, CursorInv, CursorOK, Lag, SlotOf, TypeOK, SOE_DIEVENT, SOE_CONFIRMED
<1>. QED BY <1>4, <1>7, <1>8, <1>9, <1>10, <1>11 DEF RingInv

\* Filling the announced slot, identification first, keeps the invariant.
LEMMA SaveIdentifyKeepsRingInv ==
    ASSUME RingInv, SaveIdentify
    PROVE  RingInv'
<1>0. /\ Index(change_soe_position) \in 0..(RING - 1)
      /\ LapStart \in Nat /\ raised \in Nat \ {0} /\ RING \in Nat \ {0}
      /\ writer.pc = "identify" /\ writer.slot \in 0..(RING - 1)
      /\ writer.slot \in Slots /\ change_soe \in [Slots -> Record]
      /\ raised - 1 \in Reports
  <2>1. TypeOK /\ WriterInv /\ writer.pc = "identify"
    BY DEF RingInv, SaveIdentify
  <2>2. raised \in 0..MAX_REPORTS /\ raised > 0
    BY <2>1 DEF TypeOK, WriterInv
  <2>3. writer.slot \in 0..(RING - 1) /\ change_soe \in [Slots -> Record]
    BY <2>1 DEF TypeOK
  <2>. QED BY <2>1, <2>2, <2>3, PositionFacts, RingAssumption
           DEF Slots, Reports
<1>1. /\ change_soe' = [change_soe EXCEPT ![writer.slot] =
                           [event |-> raised - 1,
                            time |-> change_soe[writer.slot].time]]
      /\ writer' = [pc |-> "stamp", slot |-> writer.slot]
      /\ UNCHANGED <<change_soe_position, raised, up, DInputReadIndex,
                     autoConfirmed, sent, consumed>>
  BY DEF SaveIdentify, linkVars, RingInv, TypeOK
<1>2. change_soe' \in [Slots -> Record]
  BY <1>0, <1>1 DEF Record
<1>3. TypeOK'
  BY <1>0, <1>1, <1>2 DEF RingInv, TypeOK
<1>4. \A s \in Slots : s # writer.slot => change_soe'[s] = change_soe[s]
  BY <1>0, <1>1
<1>5. UNCHANGED <<LapStart, Index(change_soe_position)>>
  BY <1>1 DEF LapStart
<1>6. RingHoldsNewest'
  <2> SUFFICES ASSUME NEW s \in 0..(RING - 1), s # writer.slot
               PROVE  IF Newest(s) < 0 THEN change_soe'[s] = Blank
                      ELSE change_soe'[s] = [event |-> Newest(s), time |-> Newest(s)]
    BY <1>1, <1>5 DEF RingHoldsNewest, Newest, Writing
  <2>. QED BY <1>0, <1>4, RingAssumption DEF RingInv, RingHoldsNewest, Writing, Slots
<1>7. (\A s \in RING..(REPORT_SUM - 1) : ~Valid(s))'
  BY <1>0, <1>4, RingAssumption DEF RingInv, Valid, Slots
<1>8. WriterInv'
  BY <1>0, <1>1, <1>5 DEF RingInv, WriterInv, OldReport, Record
<1>9. LapInv' /\ CursorInv'
  BY <1>1, <1>5 DEF RingInv, LapInv, CursorInv, CursorOK, Lag, SlotOf
<1>. QED BY <1>3, <1>6, <1>7, <1>8, <1>9 DEF RingInv

\* The time stamp completes the slot: it now holds the newest report.
LEMMA SaveStampKeepsRingInv ==
    ASSUME RingInv, SaveStamp
    PROVE  RingInv'
<1>0. /\ Index(change_soe_position) \in 0..(RING - 1)
      /\ LapStart \in Nat /\ raised \in Nat \ {0} /\ RING \in Nat \ {0}
      /\ writer.pc = "stamp" /\ writer.slot \in 0..(RING - 1)
      /\ writer.slot \in Slots /\ change_soe \in [Slots -> Record]
      /\ raised - 1 \in Reports
  <2>1. TypeOK /\ WriterInv /\ writer.pc = "stamp"
    BY DEF RingInv, SaveStamp
  <2>2. raised \in 0..MAX_REPORTS /\ raised > 0
    BY <2>1 DEF TypeOK, WriterInv
  <2>3. writer.slot \in 0..(RING - 1) /\ change_soe \in [Slots -> Record]
    BY <2>1 DEF TypeOK
  <2>. QED BY <2>1, <2>2, <2>3, PositionFacts, RingAssumption
           DEF Slots, Reports
<1>1. /\ change_soe' = [change_soe EXCEPT ![writer.slot] =
                           [event |-> change_soe[writer.slot].event,
                            time |-> raised - 1]]
      /\ writer' = [pc |-> "idle", slot |-> writer.slot]
      /\ UNCHANGED <<change_soe_position, raised, up, DInputReadIndex,
                     autoConfirmed, sent, consumed>>
  BY DEF SaveStamp, linkVars, RingInv, TypeOK
<1>2. change_soe' \in [Slots -> Record]
  BY <1>0, <1>1 DEF Record
<1>3. TypeOK'
  BY <1>0, <1>1, <1>2 DEF RingInv, TypeOK
<1>4. \A s \in Slots : s # writer.slot => change_soe'[s] = change_soe[s]
  BY <1>0, <1>1
<1>5. UNCHANGED <<LapStart, Index(change_soe_position)>>
  BY <1>1 DEF LapStart
<1>6. change_soe'[writer.slot] = [event |-> raised - 1, time |-> raised - 1]
  BY <1>0, <1>1 DEF RingInv, WriterInv, Record
<1>7. Newest(writer.slot) = raised - 1
  BY <1>0, PositionFacts DEF RingInv, WriterInv, Newest
<1>8. RingHoldsNewest'
  <2> SUFFICES ASSUME NEW s \in 0..(RING - 1)
               PROVE  IF Newest(s) < 0 THEN change_soe'[s] = Blank
                      ELSE change_soe'[s] = [event |-> Newest(s), time |-> Newest(s)]
    BY <1>5 DEF RingHoldsNewest, Newest
  <2>1. CASE s = writer.slot
    BY <2>1, <1>0, <1>6, <1>7
  <2>2. CASE s # writer.slot
    BY <2>2, <1>0, <1>4, RingAssumption DEF RingInv, RingHoldsNewest, Writing, Slots
  <2>. QED BY <2>1, <2>2
<1>9. (\A s \in RING..(REPORT_SUM - 1) : ~Valid(s))'
  BY <1>0, <1>4, RingAssumption DEF RingInv, Valid, Slots
<1>10. WriterInv' /\ LapInv' /\ CursorInv'
  BY <1>1, <1>5 DEF RingInv, WriterInv, LapInv, CursorInv, CursorOK, Lag, SlotOf
<1>. QED BY <1>3, <1>8, <1>9, <1>10 DEF RingInv

\* Steps of a link leave the ring alone.
LEMMA LinkStepsKeepRing ==
    ASSUME RingInv, UNCHANGED writerVars, TypeOK', CursorInv'
    PROVE  RingInv'
BY DEF RingInv, writerVars, RingHoldsNewest, Writing, Newest, LapStart, Valid,
   WriterInv, OldReport, LapInv

\* A new connection puts the cursor on the position.
LEMMA EstablishKeepsRingInv ==
    ASSUME RingInv, NEW l \in Links, Establish(l)
    PROVE  RingInv'
<1>0. /\ Index(change_soe_position) \in 0..(RING - 1)
      /\ LapStart \in Nat
      /\ raised = LapStart + Index(change_soe_position)
      /\ RING \in Nat \ {0}
  BY PositionFacts, RingAssumption
<1>1. UNCHANGED writerVars
  BY DEF Establish
<1>2. TypeOK'
  BY <1>0, RingAssumption DEF RingInv, TypeOK, Establish, ResetCursor, writerVars,
     Slots, Blank, Record
<1>3. CursorInv'
  BY <1>0 DEF RingInv, TypeOK, Establish, ResetCursor, writerVars, CursorInv, CursorOK, Lag, SlotOf,
     LapStart, SOE_CONFIRMED, SOE_DIEVENT
<1>. QED BY <1>1, <1>2, <1>3, LinkStepsKeepRing

\* A broken connection changes no cursor.
LEMMA DropKeepsRingInv ==
    ASSUME RingInv, NEW l \in Links, Drop(l)
    PROVE  RingInv'
<1>1. UNCHANGED writerVars
  BY DEF Drop
<1>2. TypeOK' /\ CursorInv'
  BY DEF RingInv, TypeOK, Drop, writerVars, CursorInv, CursorOK, Lag, SlotOf, LapStart
<1>. QED BY <1>1, <1>2, LinkStepsKeepRing

\* What a link finds when its scan stops: a slot of the writer's ring that holds
\* a report already announced.
LEMMA HitFacts ==
    ASSUME RingInv, NEW l \in Links, NEW d \in Hits(DInputReadIndex[l])
    PROVE  LET slot == Walk(DInputReadIndex[l], d)
           IN  /\ slot \in 0..(RING - 1)
               /\ Newest(slot) \in 0..(raised - 1)
               /\ SlotOf(Newest(slot)) = slot
<1> DEFINE slot == Walk(DInputReadIndex[l], d)
<1>0. /\ change_soe_position \in Positions
      /\ Index(change_soe_position) \in 0..(RING - 1)
      /\ LapStart \in Nat
      /\ raised = LapStart + Index(change_soe_position)
  BY PositionFacts
<1>1. TypeOK /\ RING \in Nat \ {0} /\ REPORT_SUM \in Nat /\ REPORT_SUM >= RING
  BY RingAssumption DEF RingInv
<1>2. slot \in Slots /\ Valid(slot)
  <2>1. DInputReadIndex[l] \in 0..(REPORT_SUM - 1)
    BY <1>1 DEF TypeOK, Slots
  <2>2. /\ d \in 0..(Distance(DInputReadIndex[l]) - 1)
        /\ Valid(slot)
    BY DEF Hits
  <2>3. /\ Distance(DInputReadIndex[l]) \in Int
        /\ Distance(DInputReadIndex[l]) <= REPORT_SUM
    BY <2>1, <1>0, <1>1 DEF Distance
  <2>4. Walk(DInputReadIndex[l], d) \in Slots
    BY <2>1, <2>2, <2>3, <1>1 DEF Walk, Slots
  <2>. QED BY <2>2, <2>4
<1>3. slot \in 0..(RING - 1)
  BY <1>1, <1>2 DEF RingInv, Slots
<1> HIDE DEF slot
<1>4. Newest(slot) >= 0
  <2>1. CASE Writing(slot)
    <3>1. /\ Newest(slot) = raised - 1
          /\ raised > 0
      BY <2>1, <1>0, <1>1, <1>3 DEF RingInv, WriterInv, Writing, Newest
    <3>. QED BY <3>1, <1>0
  <2>2. CASE ~Writing(slot)
    <3>1. Newest(slot) < 0 => change_soe[slot] = Blank
      BY <2>2, <1>3 DEF RingInv, RingHoldsNewest
    <3>2. Newest(slot) \in Int
      BY <1>0, <1>1, <1>3 DEF Newest
    <3>. QED BY <3>1, <3>2, <1>2 DEF Valid, Blank
  <2>. QED BY <2>1, <2>2
<1>5. Newest(slot) \in 0..(raised - 1) /\ SlotOf(Newest(slot)) = slot
  BY <1>0, <1>1, <1>3, <1>4 DEF Newest, SlotOf
<1>. QED BY <1>3, <1>5 DEF slot

\* Sending re-synchronises the cursor with the report it sends.
LEMMA SendKeepsRingInv ==
    ASSUME RingInv, NEW l \in Links, Send(l)
    PROVE  RingInv'
<1>1. UNCHANGED writerVars
  BY DEF Send
<1>2. PICK d \in Hits(DInputReadIndex[l]) :
          LET slot == Walk(DInputReadIndex[l], d)
          IN  /\ DInputReadIndex' = [DInputReadIndex EXCEPT ![l] = slot]
              /\ sent' = [sent EXCEPT ![l] = change_soe[slot]]
              /\ consumed' = [consumed EXCEPT ![l] = Newest(slot)]
  BY DEF Send
<1> DEFINE slot == Walk(DInputReadIndex[l], d)
<1>3. /\ slot \in 0..(RING - 1)
      /\ Newest(slot) \in 0..(raised - 1)
      /\ SlotOf(Newest(slot)) = slot
  BY HitFacts
<1> HIDE DEF slot
<1>4. /\ DInputReadIndex' = [DInputReadIndex EXCEPT ![l] = slot]
      /\ sent' = [sent EXCEPT ![l] = change_soe[slot]]
      /\ consumed' = [consumed EXCEPT ![l] = Newest(slot)]
      /\ autoConfirmed' = [autoConfirmed EXCEPT ![l] = SOE_DIEVENT]
      /\ up' = up
  BY <1>2 DEF Send, slot
<1>5. slot \in Slots /\ RING \in Nat \ {0} /\ TypeOK /\ CursorInv
  BY <1>3, RingAssumption DEF Slots, RingInv
<1>6. TypeOK'
  BY <1>1, <1>3, <1>4, <1>5, RingAssumption DEF TypeOK, writerVars
<1>7. CursorInv'
  <2> SUFFICES ASSUME NEW k \in up PROVE CursorOK(k)'
    BY <1>4 DEF CursorInv
  <2>0. UNCHANGED <<raised, LapStart>> /\ k \in Links
    BY <1>1, <1>5 DEF writerVars, LapStart, TypeOK
  <2>1. CASE k = l
    <3>1. /\ DInputReadIndex'[k] = slot
          /\ consumed'[k] = Newest(slot)
          /\ autoConfirmed'[k] = SOE_DIEVENT
      BY <1>4, <1>5, <2>1 DEF TypeOK
    <3>2. SlotOf(consumed[k])' = slot
      BY <1>3, <2>0, <3>1 DEF SlotOf
    <3>. QED BY <1>3, <1>5, <2>0, <3>1, <3>2 DEF CursorOK, Lag, TypeOK
  <2>2. CASE k # l
    <3>1. /\ DInputReadIndex'[k] = DInputReadIndex[k]
          /\ consumed'[k] = consumed[k]
          /\ autoConfirmed'[k] = autoConfirmed[k]
      BY <1>4, <1>5, <2>2 DEF TypeOK
    <3>. QED BY <1>5, <2>0, <3>1 DEF CursorInv, CursorOK, Lag, SlotOf
  <2>. QED BY <2>1, <2>2
<1>. QED BY <1>1, <1>6, <1>7, LinkStepsKeepRing

\* A confirmation moves the cursor and the report number together by one.
LEMMA ConfirmKeepsRingInv ==
    ASSUME RingInv, NEW l \in Links, Confirm(l)
    PROVE  RingInv'
<1>1. UNCHANGED writerVars
  BY DEF Confirm
<1>2. /\ TypeOK /\ CursorOK(l) /\ RING \in Nat \ {0}
      /\ REPORT_SUM \in Nat /\ REPORT_SUM >= RING /\ MAX_REPORTS \in Nat
      /\ LapStart \in Nat /\ raised = LapStart + Index(change_soe_position)
      /\ Index(change_soe_position) \in 0..(RING - 1)
  BY PositionFacts, RingAssumption DEF RingInv, Confirm, CursorInv
<1>3. /\ autoConfirmed[l] = SOE_DIEVENT /\ l \in up /\ up' = up
      /\ DInputReadIndex[l] \in 0..(RING - 1)
      /\ raised - consumed[l] >= 1 /\ consumed[l] \in Nat
  BY <1>2 DEF Confirm, CursorOK, Lag, TypeOK, Slots
<1>4. /\ DInputReadIndex' = [DInputReadIndex EXCEPT ![l] = Walk(DInputReadIndex[l], 1)]
      /\ consumed' = [consumed EXCEPT ![l] = consumed[l] + 1]
      /\ autoConfirmed' = [autoConfirmed EXCEPT ![l] = SOE_CONFIRMED]
      /\ sent' = sent
  BY DEF Confirm
<1>5. /\ Walk(DInputReadIndex[l], 1) \in Slots
      /\ Walk(DInputReadIndex[l], 1) \in 0..RING
      /\ Walk(DInputReadIndex[l], 1) =
             IF DInputReadIndex[l] + 1 = REPORT_SUM THEN 0 ELSE DInputReadIndex[l] + 1
  BY <1>2, <1>3 DEF Walk, Slots
<1>6. TypeOK'
  <2>1. consumed[l] + 1 \in 0..MAX_REPORTS
    BY <1>2, <1>3 DEF TypeOK
  <2>. QED BY <1>1, <1>2, <1>3, <1>4, <1>5, <2>1 DEF TypeOK, writerVars
<1>7. CursorInv'
  <2> SUFFICES ASSUME NEW k \in up PROVE CursorOK(k)'
    BY <1>3 DEF CursorInv
  <2>0. UNCHANGED <<raised, LapStart>> /\ k \in Links
    BY <1>1, <1>2 DEF writerVars, LapStart, TypeOK
  <2>1. CASE k = l
    <3>1. /\ DInputReadIndex'[k] = Walk(DInputReadIndex[l], 1)
          /\ consumed'[k] = consumed[k] + 1
          /\ autoConfirmed'[k] = SOE_CONFIRMED
      BY <1>2, <1>4, <2>1 DEF TypeOK
    <3>2. SOE_CONFIRMED # SOE_DIEVENT
      BY DEF SOE_CONFIRMED, SOE_DIEVENT
    <3>. QED BY <1>2, <1>3, <1>5, <2>0, <2>1, <3>1, <3>2
             DEF CursorOK, Lag, SlotOf
  <2>2. CASE k # l
    <3>1. /\ DInputReadIndex'[k] = DInputReadIndex[k]
          /\ consumed'[k] = consumed[k]
          /\ autoConfirmed'[k] = autoConfirmed[k]
      BY <1>2, <1>4, <2>2 DEF TypeOK
    <3>. QED BY <2>0, <3>1 DEF RingInv, CursorInv, CursorOK, Lag, SlotOf
  <2>. QED BY <2>1, <2>2
<1>. QED BY <1>1, <1>6, <1>7, LinkStepsKeepRing

\* No step breaks the invariant.
LEMMA NextKeepsRingInv ==
    ASSUME RingInv, [Next]_vars
    PROVE  RingInv'
<1>1. CASE Save
  BY <1>1, SaveAdvanceKeepsRingInv, SaveIdentifyKeepsRingInv,
     SaveStampKeepsRingInv DEF Save
<1>2. ASSUME NEW l \in Links, Link(l) PROVE RingInv'
  BY <1>2, EstablishKeepsRingInv, DropKeepsRingInv, SendKeepsRingInv,
     ConfirmKeepsRingInv DEF Link
<1>3. CASE UNCHANGED vars
  BY <1>3 DEF vars, RingInv, TypeOK, RingHoldsNewest, Writing, Newest, LapStart,
     Valid, WriterInv, OldReport, LapInv, CursorInv, CursorOK, Lag, SlotOf
<1>. QED BY <1>1, <1>2, <1>3 DEF Next

\* The ring, the half-written slot and the cursors agree in every reachable
\* state, whatever the sizes (save_di_report, OP_GetSOEQueueSendType,
\* OP_SendSomeSOE, OP_EstablishLink).
THEOREM RingInvariant == Spec => []RingInv
<1>1. RingInv /\ [Next]_vars => RingInv'
  BY NextKeepsRingInv
<1>. QED BY <1>1, InitRingInv, PTL DEF Spec

\* Types, and the layout of the ring in the order the reports were raised.
THEOREM TypeCorrect == Spec => []TypeOK
<1>1. RingInv => TypeOK
  BY DEF RingInv
<1>. QED BY <1>1, RingInvariant, PTL

THEOREM RingLayout == Spec => []RingHoldsNewest
<1>1. RingInv => RingHoldsNewest
  BY DEF RingInv
<1>. QED BY <1>1, RingInvariant, PTL

\* Only Send leaves a report waiting for its confirmation.
LEMMA OnlySendSends ==
    ASSUME TypeOK, [Next]_vars, NEW l \in Links, Sends(l)
    PROVE  Send(l)
<1>1. SOE_CONFIRMED # SOE_DIEVENT
  BY DEF SOE_CONFIRMED, SOE_DIEVENT
<1>2. ASSUME NEW k \in Links, Link(k) PROVE Send(l)
  BY <1>1, <1>2 DEF Link, Establish, Drop, Confirm, Send, Sends, TypeOK
<1>3. ~UNCHANGED autoConfirmed
  BY <1>1 DEF Sends
<1>. QED BY <1>2, <1>3 DEF Next, Save, SaveAdvance, SaveIdentify, SaveStamp,
         linkVars, vars

\* Every send is the due report, whole, unless the link task preempted
\* save_di_report inside the slot it sends.
THEOREM SendsTheDueReport == Spec => SentIsDue
<1> DEFINE Due(l) ==
        LET due == consumed'[l]
            old == IF due < RING THEN NONE ELSE due - RING
        IN  \/ sent'[l] = [event |-> due, time |-> due]
            \/ /\ writer.pc # "idle" /\ due = raised - 1
               /\ sent'[l] \in [event: {due, old}, time: {old}]
               /\ sent'[l].event # NONE
<1>1. ASSUME RingInv, [Next]_vars, NEW l \in Links, Sends(l)
      PROVE  Due(l)
  <2>1. Send(l)
    BY <1>1, OnlySendSends DEF RingInv
  <2>2. PICK d \in Hits(DInputReadIndex[l]) :
            LET slot == Walk(DInputReadIndex[l], d)
            IN  /\ sent' = [sent EXCEPT ![l] = change_soe[slot]]
                /\ consumed' = [consumed EXCEPT ![l] = Newest(slot)]
    BY <2>1 DEF Send
  <2> DEFINE slot == Walk(DInputReadIndex[l], d)
  <2>3. /\ slot \in 0..(RING - 1) /\ Newest(slot) \in 0..(raised - 1)
        /\ change_soe[slot].event # NONE
    BY <1>1, HitFacts DEF Hits, Valid
  <2> HIDE DEF slot
  <2>4. sent'[l] = change_soe[slot] /\ consumed'[l] = Newest(slot)
    BY <1>1, <2>2 DEF slot, RingInv, TypeOK
  <2>5. CASE ~Writing(slot)
    <3>1. change_soe[slot] = [event |-> Newest(slot), time |-> Newest(slot)]
      BY <1>1, <2>3, <2>5 DEF RingInv, RingHoldsNewest
    <3>. QED BY <2>4, <3>1
  <2>6. CASE Writing(slot)
    <3>1. /\ writer.pc # "idle" /\ raised > 0
          /\ change_soe[slot] =
                 [event |-> IF writer.pc = "identify" THEN OldReport ELSE raised - 1,
                  time |-> OldReport]
      BY <1>1, <2>6 DEF RingInv, WriterInv, Writing
    <3>2. Newest(slot) = raised - 1
      BY <1>1, <2>3, <2>6, PositionFacts, RingAssumption
         DEF RingInv, WriterInv, Writing, Newest
    <3>. QED BY <2>3, <2>4, <3>1, <3>2 DEF OldReport
  <2>. QED BY <2>5, <2>6
<1>2. RingInv /\ [Next]_vars =>
          [\A l \in Links : Sends(l) => Due(l)]_vars
  BY <1>1
<1>. QED BY <1>2, RingInvariant, PTL DEF Spec, SentIsDue

\* A link at most one ring behind finds the next report, never a later or an
\* earlier one: its cursor, or slot 0 past the writer's last one, is the first
\* valid slot of the scan.
LEMMA SendTakesTheNext ==
    ASSUME RingInv, NEW l \in Links, Send(l), Lag(l) <= RING
    PROVE  consumed'[l] = consumed[l]
<1>1. autoConfirmed[l] # SOE_DIEVENT
  BY DEF Send, SOE_CONFIRMED, SOE_DIEVENT
<1>2. PICK d \in Hits(DInputReadIndex[l]) :
          /\ \A k \in Hits(DInputReadIndex[l]) : d <= k
          /\ consumed' = [consumed EXCEPT
                  ![l] = Newest(Walk(DInputReadIndex[l], d))]
  BY DEF Send
<1> DEFINE cursor == DInputReadIndex[l]
           slot == Walk(cursor, d)
           i == Index(change_soe_position)
<1>3. /\ TypeOK /\ CursorOK(l) /\ RING \in Nat \ {0}
      /\ REPORT_SUM \in Nat /\ REPORT_SUM >= RING
      /\ LapStart \in Nat /\ raised = LapStart + i /\ i \in 0..(RING - 1)
  BY <1>1, PositionFacts, RingAssumption DEF RingInv, CursorInv, Send
<1>4. /\ slot \in 0..(RING - 1) /\ Newest(slot) \in 0..(raised - 1)
  BY HitFacts
<1>5. /\ consumed[l] \in Nat /\ Lag(l) \in 0..RING
      /\ cursor \in 0..RING /\ cursor \in 0..(REPORT_SUM - 1)
      /\ SlotOf(consumed[l]) = IF cursor = RING THEN 0 ELSE cursor
  BY <1>1, <1>3 DEF CursorOK, Lag, TypeOK, Slots
<1>6. /\ d \in 0..(Distance(cursor) - 1) /\ Valid(slot)
      /\ \A k \in 0..(Distance(cursor) - 1) : Valid(Walk(cursor, k)) => d <= k
  BY <1>2 DEF Hits
<1> HIDE DEF cursor, i
<1>7. Distance(cursor) = IF cursor <= i THEN i - cursor ELSE REPORT_SUM - cursor + i
  BY DEF Distance, i
<1>8. /\ slot = IF cursor + d < REPORT_SUM THEN cursor + d
                                          ELSE cursor + d - REPORT_SUM
      /\ cursor # i /\ ~(cursor = RING /\ i = 0)
  BY <1>3, <1>4, <1>5, <1>6, <1>7 DEF Walk
<1>9. /\ Lag(l) \in 1..(RING - 1) /\ consumed[l] < raised
      /\ consumed[l] = raised - Lag(l)
  <2>1. consumed[l] = raised - Lag(l) /\ raised \in Nat
    BY <1>3, <1>5 DEF Lag
  <2>2. Lag(l) # 0
    BY <2>1, <1>3, <1>5, <1>8 DEF SlotOf
  <2>3. Lag(l) # RING
    BY <2>1, <1>3, <1>5, <1>8 DEF SlotOf
  <2>. QED BY <2>1, <2>2, <2>3, <1>3, <1>5
<1>10. \A s \in 0..(RING - 1) : SlotOf(consumed[l]) = s => Newest(s) = consumed[l]
  BY <1>3, <1>5, <1>9 DEF Newest, SlotOf, i
<1>11. ASSUME NEW s \in 0..(RING - 1), SlotOf(consumed[l]) = s, ~Valid(s)
       PROVE  s = IF i = 0 THEN RING - 1 ELSE i - 1
  <2>1. Newest(s) \in Nat
    BY <1>5, <1>10, <1>11
  <2>2. Writing(s)
    <3>1. ~Writing(s) => change_soe[s] = [event |-> Newest(s), time |-> Newest(s)]
      BY <2>1 DEF RingInv, RingHoldsNewest
    <3>2. change_soe[s].event = NONE
      BY <1>11 DEF Valid
    <3>. QED BY <2>1, <3>1, <3>2 DEF NONE
  <2>. QED BY <2>2 DEF RingInv, WriterInv, Writing, i
<1>12. slot = SlotOf(consumed[l])
  <2>1. CASE cursor = RING
    <3>1. Distance(cursor) = REPORT_SUM - RING + i /\ i >= 1 /\ REPORT_SUM > RING
      BY <1>3, <1>5, <1>7, <1>8, <2>1
    <3>2. Walk(cursor, REPORT_SUM - RING) = 0
      BY <1>3, <2>1 DEF Walk
    <3>3. CASE Valid(0)
      <4>1. d <= REPORT_SUM - RING
        BY <1>3, <1>6, <3>1, <3>2, <3>3
      <4>. QED BY <1>3, <1>4, <1>5, <1>6, <1>8, <2>1, <4>1
    <3>4. CASE ~Valid(0)
      <4>1. i = 1
        BY <1>3, <1>5, <1>11, <2>1, <3>1, <3>4
      <4>. QED BY <1>3, <1>4, <1>5, <1>6, <1>8, <2>1, <3>1, <4>1
    <3>. QED BY <3>3, <3>4
  <2>2. CASE cursor # RING
    <3>1. CASE Valid(cursor)
      <4>1. Walk(cursor, 0) = cursor /\ Distance(cursor) >= 1
        BY <1>3, <1>5, <1>6, <1>7 DEF Walk
      <4>2. d <= 0
        BY <1>6, <1>3, <1>5, <1>7, <3>1, <4>1
      <4>. QED BY <1>3, <1>5, <1>6, <1>8, <2>2, <4>2
    <3>2. CASE ~Valid(cursor)
      <4>1. cursor = IF i = 0 THEN RING - 1 ELSE i - 1
        BY <1>3, <1>5, <1>11, <2>2, <3>2
      <4>. QED BY <1>3, <1>4, <1>5, <1>6, <1>7, <1>8, <2>2, <4>1
    <3>. QED BY <3>1, <3>2
  <2>. QED BY <2>1, <2>2
<1>13. Newest(slot) = consumed[l]
  BY <1>4, <1>10, <1>12
<1>. QED BY <1>2, <1>3, <1>13 DEF TypeOK, cursor

\* A link at most one ring behind is sent the next report, never a later or an
\* earlier one.
THEOREM SendsInOrder == Spec => InOrder
<1>1. ASSUME RingInv, [Next]_vars, NEW l \in Links, Sends(l), Lag(l) <= RING
      PROVE  consumed'[l] = consumed[l]
  BY <1>1, OnlySendSends, SendTakesTheNext DEF RingInv
<1>2. RingInv /\ [Next]_vars =>
          [\A l \in Links : Sends(l) /\ Lag(l) <= RING =>
               consumed'[l] = consumed[l]]_vars
  BY <1>1
<1>. QED BY <1>2, RingInvariant, PTL DEF Spec, InOrder

-----------------------------------------------------------------------------
(***************************************************************************)
(* Whole laps of the ring.                                                  *)
(***************************************************************************)

\* A whole number of laps is a multiple of the ring's size.
LEMMA LapsMultiple ==
    ASSUME NEW R \in Nat \ {0}, NEW n \in Int, n % R = 0
    PROVE  \E k \in Int : n = k * R
<1>1. n = R * (n \div R) + (n % R) /\ n \div R \in Int
  OBVIOUS
<1>2. n = (n \div R) * R
  BY <1>1
<1>. QED BY <1>1, <1>2

LEMMA MultipleLaps ==
    ASSUME NEW R \in Nat \ {0}, NEW k \in Int
    PROVE  (k * R) % R = 0
OBVIOUS

\* Whole laps add up, and a lap more or less is whole laps still.
LEMMA LapsAddUp ==
    ASSUME NEW R \in Nat \ {0}, NEW n \in Int, n % R = 0, NEW m \in Int, m % R = 0
    PROVE  (n + m) % R = 0 /\ (n - m) % R = 0
<1>1. PICK j \in Int : n = j * R
  BY LapsMultiple
<1>2. PICK k \in Int : m = k * R
  BY LapsMultiple
<1>3. n + m = (j + k) * R /\ n - m = (j - k) * R /\ j + k \in Int /\ j - k \in Int
  BY <1>1, <1>2
<1>. QED BY <1>3, MultipleLaps

LEMMA OneLap ==
    ASSUME NEW R \in Nat \ {0}, NEW n \in Int, n % R = 0
    PROVE  /\ 0 % R = 0
           /\ (n + R) % R = 0
           /\ (n - R) % R = 0
<1>1. R \in Int /\ R % R = 0 /\ 0 % R = 0
  OBVIOUS
<1>2. (n + R) % R = 0 /\ (n - R) % R = 0
  BY <1>1, LapsAddUp
<1>. QED BY <1>1, <1>2

\* Whole laps drop out of a remainder; fewer than a lap either way is none.
LEMMA LapsDropOut ==
    ASSUME NEW R \in Nat \ {0}, NEW n \in Int, n % R = 0
    PROVE  /\ \A b \in 0..(R - 1) : (n + b) % R = b
           /\ n > -R /\ n < R => n = 0
           /\ n > 0 => n >= R
<1>1. PICK j \in Int : n = j * R
  BY LapsMultiple
<1>2. ASSUME NEW b \in 0..(R - 1) PROVE (n + b) % R = b
  BY <1>1
<1>3. ASSUME n > 0 PROVE n >= R
  <2>1. j >= 1
    BY <1>1, <1>3
  <2>. QED BY <1>1, <2>1
<1>4. ASSUME n > -R, n < R PROVE n = 0
  <2>1. j < 1 /\ j > -1
    BY <1>1, <1>4
  <2>. QED BY <1>1, <2>1
<1>. QED BY <1>2, <1>3, <1>4

\* How far the cursor and the report it stands for are apart.
Gap(l) == LapStart + DInputReadIndex[l] - consumed[l]

LEMMA GapIsInteger ==
    ASSUME RingInv, NEW l \in Links
    PROVE  Gap(l) \in Int /\ RING \in Nat \ {0}
BY PositionFacts, RingAssumption DEF Gap, RingInv, TypeOK, Slots

\* A step that leaves the cursors and their reports alone, and moves the start
\* of the lap by whole laps, keeps the cursors in step.
LEMMA LapKeepsCursors ==
    ASSUME RingInv, CursorLaps, up' \subseteq up,
           UNCHANGED <<DInputReadIndex, consumed>>,
           LapStart' = LapStart \/ LapStart' = LapStart + RING
    PROVE  CursorLaps'
<1> SUFFICES ASSUME NEW l \in up' PROVE Gap(l)' % RING = 0
  BY DEF CursorLaps, Gap
<1>1. l \in up /\ l \in Links
  BY DEF RingInv, TypeOK
<1>2. Gap(l) \in Int /\ RING \in Nat \ {0} /\ Gap(l) % RING = 0
  BY <1>1, GapIsInteger DEF CursorLaps, Gap
<1>3. Gap(l)' = Gap(l) \/ Gap(l)' = Gap(l) + RING
  BY <1>1, PositionFacts, RingAssumption DEF Gap, RingInv, TypeOK, Slots
<1>. QED BY <1>2, <1>3, OneLap

\* A step of one link, which moves its cursor and its report together or by
\* whole laps, leaves the others where they were.
LEMMA LinkKeepsCursors ==
    ASSUME RingInv, CursorLaps, NEW l \in Links, UNCHANGED writerVars,
           up' \subseteq up \cup {l}, Gap(l)' % RING = 0,
           \A k \in Links \ {l} : /\ DInputReadIndex'[k] = DInputReadIndex[k]
                                  /\ consumed'[k] = consumed[k]
    PROVE  CursorLaps'
<1> SUFFICES ASSUME NEW k \in up' PROVE Gap(k)' % RING = 0
  BY DEF CursorLaps, Gap
<1>1. LapStart' = LapStart
  BY DEF writerVars, LapStart
<1>2. CASE k = l
  BY <1>2
<1>3. CASE k # l
  <2>1. k \in up /\ k \in Links \ {l}
    BY <1>3 DEF RingInv, TypeOK
  <2>2. Gap(k)' = Gap(k)
    BY <1>1, <2>1 DEF Gap
  <2>. QED BY <2>1, <2>2 DEF CursorLaps, Gap
<1>. QED BY <1>2, <1>3

LEMMA SaveKeepsCursorLaps ==
    ASSUME RingInv, CursorLaps, Save
    PROVE  CursorLaps'
<1>1. UNCHANGED <<up, DInputReadIndex, consumed>>
  BY DEF Save, SaveAdvance, SaveIdentify, SaveStamp, linkVars
<1>2. CASE SaveAdvance
  <2>1. /\ raised' = raised + 1
        /\ Index(change_soe_position') =
               IF Index(change_soe_position) = RING - 1
               THEN 0 ELSE Index(change_soe_position) + 1
    BY <1>2, PositionFacts, AdvanceMovesOne DEF SaveAdvance
  <2>2. LapStart' = LapStart \/ LapStart' = LapStart + RING
    BY <2>1, PositionFacts, RingAssumption DEF LapStart, RingInv, TypeOK
  <2>. QED BY <1>1, <2>2, LapKeepsCursors
<1>3. CASE SaveIdentify \/ SaveStamp
  <2>1. LapStart' = LapStart
    BY <1>3 DEF SaveIdentify, SaveStamp, LapStart
  <2>. QED BY <1>1, <2>1, LapKeepsCursors
<1>. QED BY <1>2, <1>3 DEF Save

LEMMA EstablishKeepsCursorLaps ==
    ASSUME RingInv, CursorLaps, NEW l \in Links, Establish(l)
    PROVE  CursorLaps'
<1>1. UNCHANGED writerVars /\ up' = up \cup {l}
  BY DEF Establish
<1>2. \A k \in Links \ {l} : /\ DInputReadIndex'[k] = DInputReadIndex[k]
                             /\ consumed'[k] = consumed[k]
  BY DEF Establish, ResetCursor, RingInv, TypeOK
<1>3. Gap(l)' = 0
  <2>1. /\ DInputReadIndex'[l] = Index(change_soe_position)
        /\ consumed'[l] = raised
    BY DEF Establish, ResetCursor, RingInv, TypeOK
  <2>2. LapStart' = LapStart
    BY <1>1 DEF writerVars, LapStart
  <2>. QED BY <2>1, <2>2, PositionFacts DEF Gap
<1>4. 0 % RING = 0
  BY RingAssumption
<1>. QED BY <1>1, <1>2, <1>3, <1>4, LinkKeepsCursors

LEMMA ConfirmKeepsCursorLaps ==
    ASSUME RingInv, CursorLaps, NEW l \in Links, Confirm(l)
    PROVE  CursorLaps'
<1>1. UNCHANGED writerVars /\ up' = up /\ l \in up
  BY DEF Confirm
<1>2. \A k \in Links \ {l} : /\ DInputReadIndex'[k] = DInputReadIndex[k]
                             /\ consumed'[k] = consumed[k]
  BY DEF Confirm, RingInv, TypeOK
<1>3. Gap(l) \in Int /\ RING \in Nat \ {0} /\ Gap(l) % RING = 0
  BY <1>1, GapIsInteger DEF CursorLaps, Gap
<1>4. Gap(l)' = Gap(l) \/ Gap(l)' = Gap(l) - RING
  <2>1. /\ DInputReadIndex'[l] = Walk(DInputReadIndex[l], 1)
        /\ consumed'[l] = consumed[l] + 1
    BY DEF Confirm, RingInv, TypeOK
  <2>2. LapStart' = LapStart
    BY <1>1 DEF writerVars, LapStart
  <2>3. DInputReadIndex[l] \in 0..(RING - 1)
    <3>1. CursorOK(l) /\ autoConfirmed[l] = SOE_DIEVENT
      BY <1>1 DEF Confirm, RingInv, CursorInv
    <3>2. DInputReadIndex[l] \in Nat
      BY RingAssumption DEF RingInv, TypeOK, Slots
    <3>. QED BY <1>3, <3>1, <3>2 DEF CursorOK
  <2>4. \/ DInputReadIndex'[l] = DInputReadIndex[l] + 1
        \/ DInputReadIndex'[l] = DInputReadIndex[l] + 1 - RING
    BY <2>1, <2>3, RingAssumption DEF Walk
  <2>5. LapStart \in Int /\ consumed[l] \in Int
    BY PositionFacts DEF RingInv, TypeOK
  <2>. QED BY <2>1, <2>2, <2>3, <2>4, <2>5, <1>3 DEF Gap
<1>. QED BY <1>1, <1>2, <1>3, <1>4, OneLap, LinkKeepsCursors

\* A slot whose report is a lap old at most is marked valid, unless it is the
\* one save_di_report has announced in the first lap and not yet marked.
LEMMA WrittenSlots ==
    ASSUME RingInv, NEW s \in 0..(RING - 1), Newest(s) >= 0
    PROVE  Valid(s) <=> ~(writer.pc = "identify" /\ writer.slot = s /\ raised <= RING)
<1>0. /\ RING \in Nat \ {0} /\ raised \in Nat /\ Newest(s) \in Int
      /\ writer.pc \in {"idle", "identify", "stamp"}
  BY PositionFacts, RingAssumption DEF RingInv, TypeOK, Newest
<1>1. CASE ~Writing(s)
  <2>1. change_soe[s] = [event |-> Newest(s), time |-> Newest(s)]
    BY <1>0, <1>1 DEF RingInv, RingHoldsNewest
  <2>2. Valid(s)
    BY <2>1, <1>0 DEF Valid, NONE
  <2>. QED BY <1>1, <2>2 DEF Writing
<1>2. CASE Writing(s)
  <2>1. /\ raised > 0
        /\ change_soe[s].event =
               IF writer.pc = "identify" THEN OldReport ELSE raised - 1
    BY <1>2 DEF RingInv, WriterInv, Writing
  <2>2. OldReport = NONE <=> raised <= RING
    BY <1>0, <2>1 DEF OldReport, NONE
  <2>3. raised - 1 # NONE
    BY <1>0, <2>1 DEF NONE
  <2>. QED BY <1>2, <2>1, <2>2, <2>3 DEF Valid, Writing
<1>. QED BY <1>1, <1>2

\* A report sent is the newest of its slot, and no report of a whole lap is
\* missing between the cursor's report and it.
LEMMA SendSkipsLaps ==
    ASSUME RingInv, CursorLaps, NEW l \in Links, Send(l)
    PROVE  /\ consumed'[l] \in consumed[l]..(raised - 1)
           /\ raised - consumed'[l] <= RING
           /\ (consumed'[l] - consumed[l]) % RING = 0
<1> DEFINE i == Index(change_soe_position)
           cursor == DInputReadIndex[l]
<1>1. PICK d \in Hits(cursor) :
          /\ \A k \in Hits(cursor) : d <= k
          /\ consumed' = [consumed EXCEPT ![l] = Newest(Walk(cursor, d))]
  BY DEF Send
<1> DEFINE slot == Walk(cursor, d)
<1>2. /\ RING \in Nat \ {0} /\ REPORT_SUM \in Nat /\ REPORT_SUM >= RING
      /\ LapStart \in Nat /\ i \in 0..(RING - 1)
      /\ raised = LapStart + i
      /\ consumed[l] \in Nat /\ consumed'[l] = Newest(slot)
      /\ cursor \in 0..RING /\ cursor \in 0..(REPORT_SUM - 1)
      /\ Gap(l) % RING = 0 /\ Gap(l) = LapStart + cursor - consumed[l]
  <2>1. l \in up /\ TypeOK /\ CursorOK(l)
    BY DEF Send, RingInv, CursorInv
  <2>. QED BY <1>1, <2>1, PositionFacts, RingAssumption
           DEF TypeOK, CursorOK, CursorLaps, Gap, Slots
<1>3. slot \in 0..(RING - 1) /\ Newest(slot) \in 0..(raised - 1)
  BY HitFacts
<1>4. /\ Newest(slot) = IF slot < i THEN LapStart + slot ELSE LapStart + slot - RING
      /\ raised - Newest(slot) <= RING
  BY <1>2, <1>3 DEF Newest
<1>5. CASE Lag(l) <= RING
  <2>1. consumed'[l] = consumed[l]
    BY <1>5, SendTakesTheNext
  <2>2. consumed'[l] - consumed[l] = 0 /\ 0 % RING = 0
    BY <1>2, <2>1
  <2>. QED BY <1>2, <1>3, <1>4, <2>1, <2>2
<1>6. CASE Lag(l) > RING
  <2>1. raised - RING > consumed[l] /\ raised > RING
    BY <1>2, <1>6 DEF Lag
  <2>2. ASSUME NEW s \in 0..(RING - 1) PROVE Valid(s)
    <3>1. Newest(s) >= 0
      BY <1>2, <2>1 DEF Newest
    <3>. QED BY <1>2, <2>1, <3>1, WrittenSlots
  <2>3. /\ d \in 0..(Distance(cursor) - 1)
        /\ \A k \in 0..(Distance(cursor) - 1) : Valid(Walk(cursor, k)) => d <= k
    BY <1>1 DEF Hits
  <2> HIDE DEF cursor, i
  <2>4. Distance(cursor) = IF cursor <= i THEN i - cursor ELSE REPORT_SUM - cursor + i
    BY DEF Distance, i
  <2>5. slot = IF cursor + d < REPORT_SUM THEN cursor + d ELSE cursor + d - REPORT_SUM
    BY DEF Walk
  <2>6. slot = IF cursor = RING THEN 0 ELSE cursor
    <3>1. CASE cursor = RING
      <4>1. /\ REPORT_SUM - RING \in 0..(Distance(cursor) - 1)
            /\ Walk(cursor, REPORT_SUM - RING) = 0
        BY <1>2, <1>3, <2>3, <2>4, <2>5, <3>1 DEF Walk
      <4>2. d <= REPORT_SUM - RING
        BY <1>2, <2>2, <2>3, <4>1
      <4>. QED BY <1>2, <1>3, <2>3, <2>5, <3>1, <4>2
    <3>2. CASE cursor # RING
      <4>1. 0 \in 0..(Distance(cursor) - 1) /\ Walk(cursor, 0) = cursor
        BY <1>2, <2>3, <2>4 DEF Walk
      <4>2. Valid(cursor)
        BY <1>2, <2>2, <3>2
      <4>3. d = 0
        BY <2>3, <4>1, <4>2
      <4>. QED BY <1>2, <2>5, <3>2, <4>3
    <3>. QED BY <3>1, <3>2
  <2>7. \/ Newest(slot) - consumed[l] = Gap(l)
        \/ Newest(slot) - consumed[l] = Gap(l) - RING
    <3>1. ASSUME cursor = RING PROVE i > 0
      <4>1. Distance(cursor) = REPORT_SUM - RING + i
        BY <1>2, <2>4, <3>1
      <4>2. d >= REPORT_SUM - RING
        BY <1>2, <1>3, <2>3, <2>5, <3>1, <4>1
      <4>. QED BY <1>2, <2>3, <4>1, <4>2
    <3>. QED BY <1>2, <1>3, <1>4, <2>6, <3>1 DEF i
  <2>8. Gap(l) \in Int
    BY <1>2
  <2>9. (Newest(slot) - consumed[l]) % RING = 0
    BY <1>2, <2>7, <2>8, OneLap
  <2>. QED BY <1>2, <1>3, <1>4, <2>1, <2>9
<1>7. Lag(l) \in Int
  BY <1>2 DEF Lag
<1>. QED BY <1>2, <1>5, <1>6, <1>7

LEMMA SendKeepsCursorLaps ==
    ASSUME RingInv, CursorLaps, NEW l \in Links, Send(l)
    PROVE  CursorLaps'
<1>1. UNCHANGED writerVars /\ up' = up /\ l \in up
  BY DEF Send
<1>2. PICK d \in Hits(DInputReadIndex[l]) :
          LET slot == Walk(DInputReadIndex[l], d)
          IN  /\ DInputReadIndex' = [DInputReadIndex EXCEPT ![l] = slot]
              /\ consumed' = [consumed EXCEPT ![l] = Newest(slot)]
  BY DEF Send
<1> DEFINE slot == Walk(DInputReadIndex[l], d)
<1>3. slot \in 0..(RING - 1) /\ Newest(slot) \in 0..(raised - 1)
  BY HitFacts
<1>4. \A k \in Links \ {l} : /\ DInputReadIndex'[k] = DInputReadIndex[k]
                             /\ consumed'[k] = consumed[k]
  BY <1>2 DEF RingInv, TypeOK
<1>5. DInputReadIndex'[l] = slot /\ consumed'[l] = Newest(slot)
  BY <1>2 DEF RingInv, TypeOK
<1> HIDE DEF slot
<1>6. LapStart' = LapStart
  BY <1>1 DEF writerVars, LapStart
<1>7. Gap(l)' = 0 \/ Gap(l)' = 0 + RING
  BY <1>3, <1>5, <1>6, PositionFacts, RingAssumption DEF Gap, Newest
<1>8. 0 % RING = 0 /\ 0 \in Int /\ RING \in Nat \ {0}
  BY RingAssumption
<1>9. Gap(l)' % RING = 0
  BY <1>7, <1>8, OneLap
<1>. QED BY <1>1, <1>4, <1>9, LinkKeepsCursors

LEMMA NextKeepsCursorLaps ==
    ASSUME RingInv, CursorLaps, [Next]_vars
    PROVE  CursorLaps'
<1>1. CASE Save
  BY <1>1, SaveKeepsCursorLaps
<1>2. ASSUME NEW l \in Links, Drop(l) PROVE CursorLaps'
  <2>1. up' \subseteq up /\ UNCHANGED <<DInputReadIndex, consumed, LapStart>>
    BY <1>2 DEF Drop, writerVars, LapStart
  <2>. QED BY <2>1, LapKeepsCursors
<1>3. ASSUME NEW l \in Links, Link(l) PROVE CursorLaps'
  BY <1>2, <1>3, EstablishKeepsCursorLaps, SendKeepsCursorLaps,
     ConfirmKeepsCursorLaps DEF Link
<1>4. CASE UNCHANGED vars
  BY <1>4, LapKeepsCursors DEF vars, LapStart
<1>. QED BY <1>1, <1>3, <1>4 DEF Next

\* However far behind a link is, its cursor and its report differ by whole laps:
\* what is lost to a slow peer is lost by the ring (OP_GetSOEQueueSendType).
THEOREM CursorsKeepLaps == Spec => [](RingInv /\ CursorLaps)
<1>1. Init => RingInv /\ CursorLaps
  BY InitRingInv DEF Init, CursorLaps
<1>2. RingInv /\ CursorLaps /\ [Next]_vars => (RingInv /\ CursorLaps)'
  BY NextKeepsRingInv, NextKeepsCursorLaps
<1>. QED BY <1>1, <1>2, PTL DEF Spec

-----------------------------------------------------------------------------
(***************************************************************************)
(* The ring implements the stream of reports.                               *)
(***************************************************************************)

\* The first report a link has not been sent, as ImplementsStream maps it.
NextDue == [l \in Links |-> IF autoConfirmed[l] = SOE_DIEVENT
                            THEN consumed[l] + 1 ELSE consumed[l]]

\* A step of save_di_report raises a report when it moves the position.
LEMMA SaveImplementsStream ==
    ASSUME RingInv, Save
    PROVE  [Stream!Next]_(Stream!vars)
<1>1. UNCHANGED <<up, NextDue>>
  BY DEF Save, SaveAdvance, SaveIdentify, SaveStamp, linkVars, NextDue
<1>2. CASE SaveAdvance
  BY <1>1, <1>2 DEF SaveAdvance, NextDue, Stream!Next, Stream!Raise
<1>3. CASE SaveIdentify \/ SaveStamp
  BY <1>1, <1>3 DEF SaveIdentify, SaveStamp, NextDue, Stream!vars
<1>. QED BY <1>2, <1>3 DEF Save

\* A new connection attaches the link, the end of one detaches it.
LEMMA EstablishImplementsStream ==
    ASSUME RingInv, NEW l \in Links, Establish(l)
    PROVE  Stream!Attach(l)
<1>1. NextDue' = [NextDue EXCEPT ![l] = raised]
  <2>1. /\ consumed \in [Links -> 0..MAX_REPORTS]
        /\ autoConfirmed \in [Links -> {SOE_CONFIRMED, SOE_DIEVENT}]
        /\ SOE_CONFIRMED # SOE_DIEVENT
    BY DEF RingInv, TypeOK, SOE_DIEVENT, SOE_CONFIRMED
  <2>2. /\ autoConfirmed' = [autoConfirmed EXCEPT ![l] = SOE_CONFIRMED]
        /\ consumed' = [consumed EXCEPT ![l] = raised]
    BY DEF Establish, ResetCursor
  <2>. QED BY <2>1, <2>2 DEF NextDue
<1>. QED BY <1>1 DEF Establish, writerVars, NextDue, Stream!Attach

LEMMA DropImplementsStream ==
    ASSUME NEW l \in Links, Drop(l)
    PROVE  Stream!Detach(l)
BY DEF Drop, writerVars, Stream!Detach

\* A report sent is delivered; its confirmation changes nothing the stream sees.
LEMMA SendImplementsStream ==
    ASSUME RingInv, CursorLaps, NEW l \in Links, Send(l)
    PROVE  Stream!Deliver(l)
<1>1. /\ consumed'[l] \in consumed[l]..(raised - 1)
      /\ raised - consumed'[l] <= RING
      /\ (consumed'[l] - consumed[l]) % RING = 0
  BY SendSkipsLaps
<1>2. l \in up /\ UNCHANGED <<raised, up>>
  BY DEF Send, writerVars
<1>3. NextDue[l] = consumed[l]
  BY DEF Send, NextDue, SOE_CONFIRMED, SOE_DIEVENT
<1>4. NextDue' = [NextDue EXCEPT ![l] = consumed'[l] + 1]
  <2>1. /\ consumed \in [Links -> 0..MAX_REPORTS]
        /\ autoConfirmed \in [Links -> {SOE_CONFIRMED, SOE_DIEVENT}]
    BY DEF RingInv, TypeOK
  <2>2. PICK e : consumed' = [consumed EXCEPT ![l] = e]
    BY DEF Send
  <2>3. autoConfirmed' = [autoConfirmed EXCEPT ![l] = SOE_DIEVENT]
    BY DEF Send
  <2>. QED BY <2>1, <2>2, <2>3 DEF NextDue
<1>. QED BY <1>1, <1>2, <1>3, <1>4 DEF NextDue, Stream!Deliver

LEMMA ConfirmImplementsStream ==
    ASSUME RingInv, NEW l \in Links, Confirm(l)
    PROVE  UNCHANGED Stream!vars
<1>1. NextDue' = NextDue
  BY DEF Confirm, RingInv, TypeOK, NextDue, SOE_CONFIRMED, SOE_DIEVENT
<1>. QED BY <1>1 DEF Confirm, writerVars, NextDue, Stream!vars

LEMMA StepImplementsStream ==
    ASSUME RingInv, CursorLaps, [Next]_vars
    PROVE  [Stream!Next]_(Stream!vars)
<1>1. ASSUME NEW l \in Links, Link(l) PROVE [Stream!Next]_(Stream!vars)
  BY <1>1, EstablishImplementsStream, DropImplementsStream, SendImplementsStream,
     ConfirmImplementsStream DEF Link, Stream!Next
<1>2. CASE UNCHANGED vars
  BY <1>2 DEF vars, Stream!vars
<1>. QED BY <1>1, <1>2, SaveImplementsStream DEF Next

\* The ring, its two wraps, the half-written slot and the confirmations
\* implement the plain stream: every link gets the reports in order, each at
\* most once, and loses them only by whole laps of the ring.
THEOREM RingImplementsStream == Spec => ImplementsStream
<1>1. Init => Stream!Init
  BY DEF Init, Stream!Init, SOE_CONFIRMED, SOE_DIEVENT
<1>2. RingInv /\ CursorLaps /\ [Next]_vars => [Stream!Next]_(Stream!vars)
  BY StepImplementsStream
<1>. QED BY <1>1, <1>2, CursorsKeepLaps, PTL DEF Spec, ImplementsStream, Stream!Spec

-----------------------------------------------------------------------------
(***************************************************************************)
(* What the scan of OP_GetSOEQueueSendType finds.                           *)
(***************************************************************************)

\* Reports between the cursor and the position, going round the writer's ring.
Behind(from) ==
    LET cursor == IF from = RING THEN 0 ELSE from
        i == Index(change_soe_position)
    IN  IF cursor <= i THEN i - cursor ELSE i - cursor + RING

\* The reports a link is behind, modulo the ring, can be read off its cursor.
LEMMA BehindIsLag ==
    ASSUME RingInv, CursorLaps, NEW l \in up
    PROVE  Lag(l) % RING = Behind(DInputReadIndex[l])
<1> DEFINE cursor == DInputReadIndex[l]
           i == Index(change_soe_position)
<1>1. /\ l \in Links /\ cursor \in 0..RING /\ i \in 0..(RING - 1)
      /\ LapStart \in Nat /\ raised = LapStart + i /\ consumed[l] \in Nat
      /\ RING \in Nat \ {0} /\ Gap(l) \in Int /\ Gap(l) % RING = 0
      /\ Gap(l) = LapStart + cursor - consumed[l]
  <2>1. l \in Links /\ TypeOK /\ CursorOK(l)
    BY DEF RingInv, TypeOK, CursorInv
  <2>. QED BY <2>1, PositionFacts, GapIsInteger, RingAssumption
           DEF TypeOK, CursorOK, CursorLaps, Gap, Slots
<1>2. /\ Lag(l) = LapStart + i - consumed[l]
      /\ Behind(cursor) \in 0..(RING - 1)
      /\ \/ Behind(cursor) = i - cursor
         \/ Behind(cursor) = i - cursor + RING
  BY <1>1 DEF Lag, Behind
<1> HIDE DEF cursor, i
<1>3. \/ Lag(l) = Gap(l) + Behind(cursor)
      \/ Lag(l) = (Gap(l) - RING) + Behind(cursor)
  <2>1. /\ cursor \in Int /\ i \in Int /\ LapStart \in Int /\ RING \in Int
        /\ consumed[l] \in Int
        /\ Gap(l) = LapStart + cursor - consumed[l]
    BY <1>1
  <2>. QED BY <1>2, <2>1
<1>4. (Gap(l) - RING) % RING = 0 /\ Gap(l) - RING \in Int
  BY <1>1, OneLap
<1>5. /\ (Gap(l) + Behind(cursor)) % RING = Behind(cursor)
      /\ ((Gap(l) - RING) + Behind(cursor)) % RING = Behind(cursor)
  BY <1>1, <1>2, <1>4, LapsDropOut
<1>. QED BY <1>3, <1>5 DEF cursor

\* The report announced and not yet marked: 1 in the writer's first lap.
Unmarked == IF writer.pc = "identify" /\ raised <= RING THEN 1 ELSE 0

\* Two stretches of the scan hold as many slots as each of them.
LEMMA Stretches ==
    ASSUME NEW A, IsFiniteSet(A), NEW B, IsFiniteSet(B), A \cap B = {}
    PROVE  Cardinality(A \cup B) = Cardinality(A) + Cardinality(B)
<1>1. Cardinality(A \cap B) = 0
  BY FS_EmptySet
<1>2. Cardinality(A) \in Nat /\ Cardinality(B) \in Nat
  BY FS_CardinalityType
<1>3. Cardinality(A \cup B) = Cardinality(A) + Cardinality(B) - Cardinality(A \cap B)
  BY FS_Union
<1>. QED BY <1>1, <1>2, <1>3

\* The slots before the position are marked, and those from it on as well once
\* the writer has been round: all but the one announced in the first lap.
LEMMA MarkedSlots ==
    ASSUME RingInv
    PROVE  LET i == Index(change_soe_position)
               busy == IF i = 0 THEN RING - 1 ELSE i - 1
           IN  /\ \A s \in 0..(RING - 1) :
                      s < i \/ LapStart >= RING =>
                          (Valid(s) <=> ~(Unmarked = 1 /\ s = busy))
               /\ \A s \in RING..(REPORT_SUM - 1) : ~Valid(s)
               /\ Unmarked = 1 => raised \in 1..RING
               /\ Unmarked = 1 <=> writer.pc = "identify" /\ ~Valid(writer.slot)
               /\ Unmarked \in {0, 1}
<1> DEFINE i == Index(change_soe_position)
           busy == IF i = 0 THEN RING - 1 ELSE i - 1
<1>1. /\ i \in 0..(RING - 1) /\ LapStart \in Nat /\ raised = LapStart + i
      /\ RING \in Nat \ {0} /\ raised \in Nat
      /\ writer.pc = "identify" => raised > 0 /\ writer.slot = busy
  BY PositionFacts, RingAssumption DEF RingInv, TypeOK, WriterInv
<1> HIDE DEF i
<1>2. ASSUME NEW s \in 0..(RING - 1), s < i \/ LapStart >= RING
      PROVE  Valid(s) <=> ~(Unmarked = 1 /\ s = busy)
  <2>1. Newest(s) >= 0
    BY <1>1, <1>2 DEF Newest, i
  <2>. QED BY <1>1, <2>1, WrittenSlots DEF Unmarked
<1>3. Unmarked = 1 <=> writer.pc = "identify" /\ ~Valid(writer.slot)
  <2>1. ASSUME writer.pc = "identify"
        PROVE  busy \in 0..(RING - 1) /\ Newest(busy) >= 0
    BY <1>1, <2>1 DEF Newest, i
  <2>. QED BY <1>1, <2>1, WrittenSlots DEF Unmarked
<1>. QED BY <1>1, <1>2, <1>3 DEF RingInv, Unmarked, i

\* The slots the scan finds valid make up one stretch, or two when it goes past
\* the writer's last slot: as many as the link is behind, less the unmarked one.
LEMMA HitsCountTheBacklog ==
    ASSUME RingInv, CursorLaps, NEW l \in up
    PROVE  Cardinality(Hits(DInputReadIndex[l])) =
               IF Behind(DInputReadIndex[l]) = 0 THEN 0
               ELSE Behind(DInputReadIndex[l]) - Unmarked
<1> DEFINE cursor == DInputReadIndex[l]
           i == Index(change_soe_position)
           busy == IF i = 0 THEN RING - 1 ELSE i - 1
<1>1. /\ RING \in Nat \ {0} /\ REPORT_SUM \in Nat /\ REPORT_SUM >= RING
      /\ LapStart \in Nat /\ i \in 0..(RING - 1)
      /\ raised = LapStart + i /\ consumed[l] \in 0..raised
      /\ cursor \in 0..RING /\ cursor \in 0..(REPORT_SUM - 1)
  <2>1. l \in Links /\ TypeOK /\ CursorOK(l)
    BY DEF RingInv, TypeOK, CursorInv
  <2>. QED BY <2>1, PositionFacts, RingAssumption DEF TypeOK, CursorOK, Lag, Slots
<1>2. /\ \A s \in 0..(RING - 1) :
             s < i \/ LapStart >= RING =>
                 (Valid(s) <=> ~(Unmarked = 1 /\ s = busy))
      /\ \A s \in RING..(REPORT_SUM - 1) : ~Valid(s)
      /\ Unmarked = 1 => raised \in 1..RING
      /\ Unmarked \in {0, 1}
  BY MarkedSlots
<1>3. Hits(cursor) = {d \in 0..(Distance(cursor) - 1) : Valid(Walk(cursor, d))}
  BY DEF Hits
<1>4. i < cursor /\ cursor < RING => LapStart >= RING
  <2>1. SUFFICES ASSUME i < cursor, cursor < RING PROVE LapStart >= RING
    OBVIOUS
  <2>2. Gap(l) > 0 /\ Gap(l) \in Int /\ Gap(l) = LapStart + cursor - consumed[l]
    BY <1>1, <2>1 DEF Gap
  <2>3. Gap(l) >= RING
    BY <1>1, <2>2, LapsDropOut DEF CursorLaps, Gap
  <2>4. LapStart # 0
    BY <1>1, <2>1, <2>2, <2>3
  <2>. QED BY <2>4 DEF RingInv, LapInv
<1>5. /\ Distance(cursor) = IF cursor <= i THEN i - cursor ELSE REPORT_SUM - cursor + i
      /\ \A d : Walk(cursor, d) = IF cursor + d < REPORT_SUM THEN cursor + d
                                                  ELSE cursor + d - REPORT_SUM
      /\ Behind(cursor) =
             LET c == IF cursor = RING THEN 0 ELSE cursor
             IN  IF c <= i THEN i - c ELSE i - c + RING
  BY DEF Distance, Walk, Behind
<1> HIDE DEF cursor, i
<1>6. CASE cursor <= i
  <2>1. Behind(cursor) = i - cursor /\ Distance(cursor) = i - cursor
    BY <1>1, <1>5, <1>6
  <2>2. CASE cursor = i
    <3>1. Hits(cursor) = {}
      BY <1>1, <1>3, <2>1, <2>2
    <3>. QED BY <1>1, <2>1, <2>2, <3>1, FS_EmptySet DEF cursor
  <2>3. CASE cursor < i
    <3>1. ASSUME NEW d \in 0..(i - cursor - 1)
          PROVE  Valid(Walk(cursor, d)) <=> ~(Unmarked = 1 /\ d = i - cursor - 1)
      <4>1. Walk(cursor, d) = cursor + d /\ cursor + d \in 0..(RING - 1) /\ cursor + d < i
        BY <1>1, <1>5, <2>3
      <4>2. cursor + d = busy <=> d = i - cursor - 1
        BY <1>1, <2>3, <4>1
      <4>. QED BY <1>2, <4>1, <4>2
    <3>2. Hits(cursor) = 0..(i - cursor - 1 - Unmarked)
      BY <1>1, <1>2, <1>3, <2>1, <2>3, <3>1
    <3>3. Cardinality(0..(i - cursor - 1 - Unmarked)) = i - cursor - Unmarked
      <4>1. /\ 0 \in Int /\ i - cursor - 1 - Unmarked \in Int
            /\ 0 <= (i - cursor - 1 - Unmarked) + 1
        BY <1>1, <1>2, <2>3
      <4>2. Cardinality(0..(i - cursor - 1 - Unmarked)) = (i - cursor - 1 - Unmarked) - 0 + 1
        BY <4>1, FS_Interval
      <4>. QED BY <1>1, <1>2, <4>2
    <3>. QED BY <1>1, <2>1, <2>3, <3>2, <3>3 DEF cursor
  <2>. QED BY <1>1, <1>6, <2>2, <2>3
<1>7. CASE cursor = RING
  <2>1. /\ Behind(cursor) = i
        /\ Distance(cursor) = REPORT_SUM - RING + i
    BY <1>1, <1>5, <1>7
  <2>2. ASSUME NEW d \in 0..(REPORT_SUM - RING + i - 1)
        PROVE  /\ d < REPORT_SUM - RING => ~Valid(Walk(cursor, d))
               /\ d >= REPORT_SUM - RING =>
                      (Valid(Walk(cursor, d)) <=>
                           ~(Unmarked = 1 /\ d = REPORT_SUM - RING + i - 1))
    <3>1. CASE d < REPORT_SUM - RING
      <4>1. Walk(cursor, d) = RING + d /\ RING + d \in RING..(REPORT_SUM - 1)
        BY <1>1, <1>5, <1>7, <3>1
      <4>. QED BY <1>1, <1>2, <3>1, <4>1
    <3>2. CASE d >= REPORT_SUM - RING
      <4>1. /\ Walk(cursor, d) = d - (REPORT_SUM - RING)
            /\ d - (REPORT_SUM - RING) \in 0..(RING - 1)
            /\ d - (REPORT_SUM - RING) < i
        BY <1>1, <1>5, <1>7, <3>2
      <4>2. d - (REPORT_SUM - RING) = busy <=> d = REPORT_SUM - RING + i - 1
        BY <1>1, <3>2, <4>1
      <4>. QED BY <1>1, <1>2, <3>2, <4>1, <4>2
    <3>. QED BY <1>1, <3>1, <3>2
  <2>3. CASE i = 0
    <3>1. Hits(cursor) = {}
      BY <1>1, <1>3, <2>1, <2>2, <2>3
    <3>. QED BY <2>1, <2>3, <3>1, FS_EmptySet DEF cursor
  <2>4. CASE i > 0
    <3>1. Hits(cursor) = (REPORT_SUM - RING)..(REPORT_SUM - RING + i - 1 - Unmarked)
      BY <1>1, <1>2, <1>3, <2>1, <2>2, <2>4
    <3>2. Cardinality((REPORT_SUM - RING)..(REPORT_SUM - RING + i - 1 - Unmarked))
              = i - Unmarked
      <4>1. /\ REPORT_SUM - RING \in Int
            /\ REPORT_SUM - RING + i - 1 - Unmarked \in Int
        BY <1>1, <1>2, <2>4
      <4>2. Cardinality((REPORT_SUM - RING)..(REPORT_SUM - RING + i - 1 - Unmarked)) =
                IF REPORT_SUM - RING > REPORT_SUM - RING + i - 1 - Unmarked THEN 0
                ELSE (REPORT_SUM - RING + i - 1 - Unmarked) - (REPORT_SUM - RING) + 1
        BY <4>1, FS_Interval
      <4>. QED BY <1>1, <1>2, <2>4, <4>2
    <3>. QED BY <1>1, <2>1, <2>4, <3>1, <3>2 DEF cursor
  <2>. QED BY <1>1, <2>3, <2>4
<1>8. CASE i < cursor /\ cursor < RING
  <2>1. /\ Behind(cursor) = i - cursor + RING
        /\ Distance(cursor) = REPORT_SUM - cursor + i
        /\ LapStart >= RING
        /\ Unmarked = 1 => i = 0
    BY <1>1, <1>2, <1>4, <1>5, <1>8
  <2>2. ASSUME NEW d \in 0..(REPORT_SUM - cursor + i - 1)
        PROVE  Valid(Walk(cursor, d)) <=>
                   \/ d \in 0..(RING - 1 - cursor - Unmarked)
                   \/ d \in (REPORT_SUM - cursor)..(REPORT_SUM - cursor + i - 1)
    <3>1. CASE d < RING - cursor
      <4>1. Walk(cursor, d) = cursor + d /\ cursor + d \in 0..(RING - 1)
        BY <1>1, <1>5, <1>8, <3>1
      <4>2. Unmarked = 1 => (cursor + d = busy <=> d = RING - 1 - cursor)
        BY <1>1, <2>1, <4>1
      <4>3. Valid(cursor + d) <=> ~(Unmarked = 1 /\ cursor + d = busy)
        BY <1>2, <2>1, <4>1
      <4>. QED BY <1>1, <1>2, <1>8, <3>1, <4>1, <4>2, <4>3
    <3>2. CASE d >= RING - cursor /\ d < REPORT_SUM - cursor
      <4>1. Walk(cursor, d) = cursor + d /\ cursor + d \in RING..(REPORT_SUM - 1)
        BY <1>1, <1>5, <1>8, <3>2
      <4>2. ~Valid(cursor + d)
        BY <1>2, <4>1
      <4>. QED BY <1>1, <1>2, <1>8, <3>2, <4>1, <4>2
    <3>3. CASE d >= REPORT_SUM - cursor
      <4>1. /\ Walk(cursor, d) = cursor + d - REPORT_SUM
            /\ cursor + d - REPORT_SUM \in 0..(RING - 1)
            /\ cursor + d - REPORT_SUM < i
        BY <1>1, <1>5, <1>8, <3>3
      <4>2. Unmarked # 1
        BY <1>1, <2>1, <4>1
      <4>3. Valid(cursor + d - REPORT_SUM)
        BY <1>2, <4>1, <4>2
      <4>. QED BY <1>1, <3>3, <4>1, <4>3
    <3>. QED BY <1>1, <3>1, <3>2, <3>3
  <2>3. Hits(cursor) = (0..(RING - 1 - cursor - Unmarked))
                       \cup ((REPORT_SUM - cursor)..(REPORT_SUM - cursor + i - 1))
    BY <1>1, <1>2, <1>3, <1>8, <2>1, <2>2
  <2> DEFINE last == RING - 1 - cursor - Unmarked
             again == REPORT_SUM - cursor
             end == REPORT_SUM - cursor + i - 1
  <2>4. /\ 0 \in Int /\ last \in Int /\ again \in Int /\ end \in Int
        /\ 0 <= last + 1 /\ last < again /\ again <= end + 1
        /\ (last - 0 + 1) + (end - again + 1) = (RING - cursor - Unmarked) + i
    BY <1>1, <1>2, <1>8
  <2>5. Hits(cursor) = (0..last) \cup (again..end)
    BY <2>3
  <2> HIDE DEF last, again, end
  <2>6. Cardinality((0..last) \cup (again..end)) = (last - 0 + 1) + (end - again + 1)
    <3>1. /\ IsFiniteSet(0..last)
          /\ Cardinality(0..last) = IF 0 > last THEN 0 ELSE last - 0 + 1
      BY <2>4, FS_Interval
    <3>2. /\ IsFiniteSet(again..end)
          /\ Cardinality(again..end) = IF again > end THEN 0 ELSE end - again + 1
      BY <2>4, FS_Interval
    <3>3. (0..last) \cap (again..end) = {}
      BY <2>4
    <3>4. Cardinality((0..last) \cup (again..end))
              = Cardinality(0..last) + Cardinality(again..end)
      BY <3>1, <3>2, <3>3, Stretches
    <3>5. /\ Cardinality(0..last) = last - 0 + 1
          /\ Cardinality(again..end) = end - again + 1
      BY <2>4, <3>1, <3>2
    <3>. QED BY <3>4, <3>5
  <2>7. Behind(cursor) # 0 /\ Cardinality(Hits(cursor)) = Behind(cursor) - Unmarked
    BY <1>1, <1>2, <1>8, <2>1, <2>4, <2>5, <2>6
  <2>. QED BY <2>7 DEF cursor
<1>. QED BY <1>1, <1>6, <1>7, <1>8

\* The scan finds as many reports as were raised since the cursor, modulo the
\* ring, less the one announced and not yet marked.
THEOREM ScanSeesTheBacklog == Spec => []BacklogSeen
<1>1. ASSUME RingInv, CursorLaps PROVE BacklogSeen
  <2>1. Unmarked = IF writer.pc = "identify" /\ ~Valid(writer.slot) THEN 1 ELSE 0
    BY <1>1, MarkedSlots
  <2>. QED BY <1>1, <2>1, BehindIsLag, HitsCountTheBacklog DEF BacklogSeen
<1>2. RingInv /\ CursorLaps => BacklogSeen
  BY <1>1
<1>. QED BY <1>2, CursorsKeepLaps, PTL

-----------------------------------------------------------------------------
(***************************************************************************)
(* One link over the ring (tcp104CentralTask).  While no STARTDT has met a  *)
(* pending report the ring and the link's cursor keep RingInv, so that the  *)
(* lemmas above apply to the link's own steps; afterwards the ring keeps    *)
(* its layout, and the next connection starts afresh.                       *)
(***************************************************************************)

\* What of LinkInv is about the ring and the cursor.
CursorPart ==
    /\ RingAtRest
    /\ up = IF pc = "gone" THEN {} ELSE {Me}
    /\ DInputReadIndex \in [Links -> Slots]
    /\ autoConfirmed \in [Links -> {SOE_CONFIRMED, SOE_DIEVENT}]
    /\ sent \in [Links -> Record]
    /\ consumed \in [Links -> Int]
    /\ \A l \in Links \ {Me} : consumed[l] \in 0..MAX_REPORTS
    /\ pc # "gone" /\ ~raced => /\ consumed[Me] \in base..raised
                               /\ CursorOK(Me)

\* ... and what is about the connection.
ConnectionPart ==
    /\ pc \in {"top", "spont", "soe", "yc", "gone"}
    /\ startDT \in BOOLEAN /\ working \in BOOLEAN /\ raced \in BOOLEAN
    /\ sendNum \in 0..(SEQ - 1) /\ recvNum \in 0..(SEQ - 1)
    /\ confirmedNum \in 0..(SEQ - 1) /\ sendNum_SOE \in 0..(SEQ - 1)
    /\ peerRecv \in 0..(SEQ - 1) /\ peerSent \in 0..MAX_COMMANDS
    /\ toServer \in Seq(Frames) /\ Len(toServer) <= MAX_TRANSIT
    /\ base \in 0..MAX_REPORTS

LEMMA LinkInvParts == LinkInv <=> CursorPart /\ ConnectionPart
BY DEF LinkInv, LinkTypeOK, CursorPart, ConnectionPart

\* The position of a ring at rest.
LEMMA RestFacts ==
    ASSUME RingAtRest
    PROVE  /\ change_soe_position \in Positions
           /\ Index(change_soe_position) \in 0..(RING - 1)
           /\ LapStart \in Nat
           /\ raised = LapStart + Index(change_soe_position)
           /\ raised \in 0..MAX_REPORTS
           /\ RING \in Nat \ {0} /\ REPORT_SUM \in Nat /\ REPORT_SUM >= RING
           /\ MAX_REPORTS \in Nat
<1>1. change_soe_position \in Positions /\ raised \in 0..MAX_REPORTS /\ LapInv
  BY DEF RingAtRest, Positions
<1>2. Index(change_soe_position) \in 0..(RING - 1)
  BY <1>1, IndexOfPosition
<1>. QED BY <1>1, <1>2, RingAssumption DEF LapInv, LapStart, Positions, WRAPPED

\* A link in step is a link of SoeRing.
LEMMA InStepIsRingInv ==
    ASSUME CursorPart, ConnectionPart, pc # "gone", ~raced
    PROVE  RingInv
<1>1. consumed \in [Links -> 0..MAX_REPORTS]
  <2>1. consumed[Me] \in 0..MAX_REPORTS
    BY RestFacts DEF CursorPart, ConnectionPart
  <2>. QED BY <2>1 DEF CursorPart
<1>2. up = {Me} /\ Me \in Links /\ CursorOK(Me)
  BY LinkAssumption DEF CursorPart
<1>3. TypeOK
  BY <1>1, <1>2 DEF CursorPart, RingAtRest, TypeOK
<1>4. WriterInv
  BY DEF CursorPart, RingAtRest, WriterInv
<1>. QED BY <1>2, <1>3, <1>4 DEF CursorPart, RingAtRest, RingInv, CursorInv

\* ... and back.
LEMMA RingInvIsInStep ==
    ASSUME RingInv, writer.pc = "idle", Me \in up
    PROVE  /\ RingAtRest
           /\ DInputReadIndex \in [Links -> Slots]
           /\ autoConfirmed \in [Links -> {SOE_CONFIRMED, SOE_DIEVENT}]
           /\ sent \in [Links -> Record]
           /\ consumed \in [Links -> 0..MAX_REPORTS]
           /\ CursorOK(Me) /\ consumed[Me] <= raised
<1>1. writer \in [pc: {"idle"}, slot: 0..(RING - 1)]
  <2>1. writer \in [pc: {"idle", "identify", "stamp"}, slot: 0..(RING - 1)]
    BY DEF RingInv, TypeOK
  <2>. QED BY <2>1
<1>2. CursorOK(Me) /\ TypeOK
  BY DEF RingInv, CursorInv
<1>3. consumed[Me] <= raised
  BY <1>2, LinkAssumption DEF CursorOK, Lag, TypeOK
<1>. QED BY <1>1, <1>2, <1>3 DEF RingInv, RingAtRest, TypeOK

\* Only the writer changes the ring.
LEMMA RingStaysAtRest ==
    ASSUME RingAtRest, UNCHANGED writerVars
    PROVE  RingAtRest' /\ LapStart' = LapStart
BY DEF RingAtRest, writerVars, RingHoldsNewest, Writing, Newest, LapStart, Valid, LapInv

\* Steps that touch neither the ring nor the cursor.
LEMMA QuietKeepsCursorPart ==
    ASSUME CursorPart, UNCHANGED vars, UNCHANGED ghosts,
           pc # "gone", pc' # "gone"
    PROVE  CursorPart'
<1>1. RingAtRest' /\ LapStart' = LapStart
  BY RingStaysAtRest DEF CursorPart, vars, writerVars
<1>2. UNCHANGED CursorOK(Me)
  BY <1>1 DEF vars, CursorOK, Lag, SlotOf
<1>. QED BY <1>1, <1>2 DEF CursorPart, vars, ghosts

\* A confirmation keeps the cursor in step, if it was.
LEMMA ConfirmKeepsCursorPart ==
    ASSUME CursorPart, ConnectionPart, Confirm(Me), UNCHANGED ghosts,
           pc # "gone", pc' # "gone"
    PROVE  CursorPart'
<1>1. UNCHANGED writerVars /\ RingAtRest'
  BY RingStaysAtRest DEF CursorPart, Confirm
<1>2. /\ DInputReadIndex' = [DInputReadIndex EXCEPT ![Me] = Walk(DInputReadIndex[Me], 1)]
      /\ consumed' = [consumed EXCEPT ![Me] = consumed[Me] + 1]
      /\ autoConfirmed' = [autoConfirmed EXCEPT ![Me] = SOE_CONFIRMED]
      /\ sent' = sent /\ up' = up /\ Me \in Links
  BY LinkAssumption DEF Confirm
<1>3. Walk(DInputReadIndex[Me], 1) \in Slots
  <2>1. DInputReadIndex[Me] \in 0..(REPORT_SUM - 1)
    BY <1>2 DEF CursorPart, Slots
  <2>. QED BY <2>1, RestFacts DEF CursorPart, Walk, Slots
<1>4. /\ DInputReadIndex' \in [Links -> Slots]
      /\ autoConfirmed' \in [Links -> {SOE_CONFIRMED, SOE_DIEVENT}]
      /\ sent' \in [Links -> Record]
      /\ consumed' \in [Links -> Int]
      /\ \A l \in Links \ {Me} : consumed'[l] \in 0..MAX_REPORTS
  BY <1>2, <1>3 DEF CursorPart
<1>5. ASSUME ~raced PROVE consumed'[Me] \in base..raised /\ CursorOK(Me)'
  <2>1. RingInv
    BY <1>5, InStepIsRingInv
  <2>2. RingInv'
    BY <1>2, <2>1, ConfirmKeepsRingInv
  <2>3. CursorOK(Me)' /\ Lag(Me)' >= 0 /\ raised' = raised
    BY <1>1, <1>2, <2>2 DEF RingInv, CursorInv, CursorOK, CursorPart, writerVars
  <2>4. consumed'[Me] = consumed[Me] + 1 /\ consumed[Me] \in base..raised
    BY <1>2, <1>5 DEF CursorPart
  <2>5. raised \in Nat /\ base \in Nat
    BY RestFacts DEF CursorPart, ConnectionPart
  <2>. QED BY <2>3, <2>4, <2>5 DEF Lag
<1>. QED BY <1>1, <1>2, <1>4, <1>5 DEF CursorPart, ghosts, writerVars

\* OP_EstablishLink puts the cursor on the position and its report on the next
\* one to be raised.
LEMMA ResetPutsInStep ==
    ASSUME CursorPart, ResetCursor(Me), UNCHANGED writerVars
    PROVE  /\ RingAtRest'
           /\ DInputReadIndex' \in [Links -> Slots]
           /\ consumed' \in [Links -> Int] /\ consumed'[Me] = raised
           /\ \A l \in Links \ {Me} : consumed'[l] \in 0..MAX_REPORTS
           /\ autoConfirmed'[Me] # SOE_DIEVENT => CursorOK(Me)'
<1>1. RingAtRest' /\ LapStart' = LapStart /\ raised' = raised /\ Me \in Links
  BY RingStaysAtRest, LinkAssumption DEF CursorPart, writerVars
<1>2. /\ Index(change_soe_position) \in 0..(RING - 1)
      /\ LapStart \in Nat /\ raised = LapStart + Index(change_soe_position)
      /\ RING \in Nat \ {0} /\ REPORT_SUM \in Nat /\ REPORT_SUM >= RING
      /\ raised \in Nat
  BY RestFacts DEF CursorPart
<1>3. /\ DInputReadIndex' \in [Links -> Slots]
      /\ DInputReadIndex'[Me] = Index(change_soe_position)
      /\ consumed' \in [Links -> Int] /\ consumed'[Me] = raised
      /\ \A l \in Links \ {Me} : consumed'[l] \in 0..MAX_REPORTS
  BY <1>1, <1>2 DEF ResetCursor, CursorPart, Slots
<1>4. ASSUME autoConfirmed'[Me] # SOE_DIEVENT PROVE CursorOK(Me)'
  <2>1. Lag(Me)' = 0 /\ DInputReadIndex'[Me] <= RING /\ DInputReadIndex'[Me] # RING
    BY <1>1, <1>2, <1>3 DEF Lag
  <2>2. SlotOf(consumed[Me])' = DInputReadIndex'[Me]
    BY <1>1, <1>2, <1>3 DEF SlotOf
  <2>. QED BY <1>4, <2>1, <2>2 DEF CursorOK
<1>. QED BY <1>1, <1>3, <1>4

LEMMA AcceptKeepsCursorPart ==
    ASSUME CursorPart, Accept
    PROVE  CursorPart'
<1>1. /\ ResetCursor(Me) /\ UNCHANGED writerVars
      /\ autoConfirmed' = [autoConfirmed EXCEPT ![Me] = SOE_CONFIRMED]
      /\ sent' = [sent EXCEPT ![Me] = Blank]
      /\ up' = up \cup {Me} /\ up = {} /\ pc' = "top"
      /\ base' = raised /\ raised' = raised
  BY DEF Accept, Establish, NewParams, CursorPart, writerVars
<1>2. /\ autoConfirmed' \in [Links -> {SOE_CONFIRMED, SOE_DIEVENT}]
      /\ autoConfirmed'[Me] # SOE_DIEVENT
      /\ sent' \in [Links -> Record]
  BY <1>1, LinkAssumption DEF CursorPart, Blank, Record, SOE_CONFIRMED, SOE_DIEVENT
<1>3. raised \in Nat
  BY RestFacts DEF CursorPart
<1>. QED BY <1>1, <1>2, <1>3, ResetPutsInStep DEF CursorPart

\* STARTDT on a link with nothing pending puts the cursor in step; with a report
\* pending it does not, and raced says so.
LEMMA StartDTKeepsCursorPart ==
    ASSUME CursorPart, ConnectionPart, RecvStartDT
    PROVE  CursorPart'
<1>1. /\ ResetCursor(Me) /\ UNCHANGED writerVars
      /\ UNCHANGED <<up, autoConfirmed, sent>>
      /\ pc = "top" /\ pc' = "spont" /\ base' = raised /\ raised' = raised
      /\ ~raced' => autoConfirmed'[Me] # SOE_DIEVENT
  BY DEF RecvStartDT, Take, Ready, Pending, writerVars
<1>2. raised \in Nat
  BY RestFacts DEF CursorPart
<1>. QED BY <1>1, <1>2, ResetPutsInStep DEF CursorPart

LEMMA LeaveKeepsCursorPart ==
    ASSUME CursorPart, Leave
    PROVE  CursorPart'
<1>1. RingAtRest'
  BY RingStaysAtRest DEF CursorPart, Leave, Drop
<1>. QED BY <1>1 DEF CursorPart, Leave, Drop

\* A scan never leaves the readers' slots.
LEMMA ScanStaysInSlots ==
    ASSUME RingAtRest, NEW from \in Slots, NEW d \in Hits(from)
    PROVE  Walk(from, d) \in Slots
<1>1. from \in 0..(REPORT_SUM - 1) /\ d \in 0..(Distance(from) - 1)
  BY DEF Slots, Hits
<1>2. Distance(from) \in Int /\ Distance(from) <= REPORT_SUM
  BY <1>1, RestFacts DEF Distance
<1>. QED BY <1>1, <1>2, RestFacts DEF Walk, Slots

\* A report sent while the link is in step was raised after the last STARTDT,
\* and is the next one unless the link is a lap behind.
LEMMA SendIsFresh ==
    ASSUME CursorPart, ConnectionPart, Send(Me), pc # "gone", ~raced
    PROVE  /\ consumed'[Me] \in base..(raised - 1)
           /\ Lag(Me) <= RING => consumed'[Me] = consumed[Me]
<1>1. RingInv /\ Me \in Links
  BY InStepIsRingInv, LinkAssumption
<1>2. /\ consumed[Me] \in base..raised /\ base \in Nat
      /\ Index(change_soe_position) \in 0..(RING - 1) /\ LapStart \in Nat
      /\ raised = LapStart + Index(change_soe_position)
      /\ RING \in Nat \ {0}
  BY RestFacts DEF CursorPart, ConnectionPart
<1>3. PICK d \in Hits(DInputReadIndex[Me]) :
          consumed' = [consumed EXCEPT ![Me] = Newest(Walk(DInputReadIndex[Me], d))]
  BY DEF Send
<1> DEFINE slot == Walk(DInputReadIndex[Me], d)
<1>4. slot \in 0..(RING - 1) /\ Newest(slot) \in 0..(raised - 1)
  BY <1>1, HitFacts
<1>5. consumed'[Me] = Newest(slot)
  BY <1>1, <1>3 DEF CursorPart
<1>6. CASE Lag(Me) <= RING
  <2>1. consumed'[Me] = consumed[Me]
    BY <1>1, <1>6, SendTakesTheNext
  <2>. QED BY <1>2, <1>4, <1>5, <2>1
<1>7. CASE ~(Lag(Me) <= RING)
  <2>1. raised - RING > consumed[Me]
    BY <1>2, <1>7 DEF Lag
  <2> HIDE DEF slot
  <2>2. Newest(slot) >= raised - RING
    BY <1>2, <1>4 DEF Newest
  <2>. QED BY <1>2, <1>4, <1>5, <1>7, <2>1, <2>2
<1>. QED BY <1>6, <1>7

LEMMA SendKeepsCursorPart ==
    ASSUME CursorPart, ConnectionPart, Send(Me), UNCHANGED ghosts,
           pc # "gone", pc' # "gone"
    PROVE  CursorPart'
<1>1. UNCHANGED writerVars /\ RingAtRest' /\ Me \in Links
  BY RingStaysAtRest, LinkAssumption DEF CursorPart, Send
<1>2. PICK d \in Hits(DInputReadIndex[Me]) :
          LET slot == Walk(DInputReadIndex[Me], d)
          IN  /\ DInputReadIndex' = [DInputReadIndex EXCEPT ![Me] = slot]
              /\ sent' = [sent EXCEPT ![Me] = change_soe[slot]]
              /\ consumed' = [consumed EXCEPT ![Me] = Newest(slot)]
  BY DEF Send
<1> DEFINE slot == Walk(DInputReadIndex[Me], d)
<1>3. slot \in Slots
  BY <1>1, ScanStaysInSlots DEF CursorPart
<1>4. Newest(slot) \in Int
  BY <1>3, RestFacts DEF CursorPart, Newest, Slots
<1>5. /\ DInputReadIndex' = [DInputReadIndex EXCEPT ![Me] = slot]
      /\ sent' = [sent EXCEPT ![Me] = change_soe[slot]]
      /\ consumed' = [consumed EXCEPT ![Me] = Newest(slot)]
      /\ autoConfirmed' = [autoConfirmed EXCEPT ![Me] = SOE_DIEVENT]
      /\ up' = up
  BY <1>2 DEF Send
<1> HIDE DEF slot
<1>6. /\ DInputReadIndex' \in [Links -> Slots]
      /\ autoConfirmed' \in [Links -> {SOE_CONFIRMED, SOE_DIEVENT}]
      /\ sent' \in [Links -> Record]
      /\ consumed' \in [Links -> Int]
      /\ \A l \in Links \ {Me} : consumed'[l] \in 0..MAX_REPORTS
  BY <1>1, <1>3, <1>4, <1>5 DEF CursorPart, RingAtRest
<1>7. ASSUME ~raced PROVE consumed'[Me] \in base..raised /\ CursorOK(Me)'
  <2>1. RingInv
    BY <1>7, InStepIsRingInv
  <2>2. RingInv' /\ Me \in up'
    BY <1>1, <1>5, <2>1, SendKeepsRingInv DEF CursorPart
  <2>3. consumed'[Me] \in base..(raised - 1)
    BY <1>7, SendIsFresh
  <2>4. raised \in Nat /\ base \in Nat
    BY RestFacts DEF CursorPart, ConnectionPart
  <2>. QED BY <2>2, <2>3, <2>4 DEF RingInv, CursorInv
<1>. QED BY <1>1, <1>5, <1>6, <1>7 DEF CursorPart, ghosts, writerVars

\* A report raised between two steps of the task goes to the slot of the
\* position; the cursors only fall one report further behind.
LEMMA RaiseKeepsCursorPart ==
    ASSUME CursorPart, ConnectionPart, RaiseReport
    PROVE  CursorPart'
<1> DEFINE i == Index(change_soe_position)
<1>0. /\ change_soe_position \in Positions
      /\ i \in 0..(RING - 1) /\ i \in Slots
      /\ LapStart \in Nat /\ raised = LapStart + i
      /\ RING \in Nat \ {0} /\ MAX_REPORTS \in Nat
      /\ REPORT_SUM \in Nat /\ REPORT_SUM >= RING
      /\ raised \in 0..(MAX_REPORTS - 1) /\ raised' = raised + 1
  BY RestFacts DEF CursorPart, RaiseReport, Slots
<1>1. /\ change_soe_position' = Advance(change_soe_position)
      /\ change_soe_position' \in Positions
      /\ Index(change_soe_position') = IF i = RING - 1 THEN 0 ELSE i + 1
      /\ change_soe_position' < WRAPPED =>
             change_soe_position < WRAPPED /\ i # RING - 1
      /\ change_soe_position' >= WRAPPED =>
             change_soe_position >= WRAPPED \/ i = RING - 1
  BY <1>0, AdvanceMovesOne DEF RaiseReport
<1>2. LapStart' = IF i = RING - 1 THEN LapStart + RING ELSE LapStart
  BY <1>0, <1>1 DEF LapStart
<1>3. /\ change_soe' = [change_soe EXCEPT ![i] = [event |-> raised, time |-> raised]]
      /\ UNCHANGED <<writer, linkVars, pc, ghosts>>
  BY DEF RaiseReport
<1> HIDE DEF i
<1>4. ASSUME NEW s \in 0..(RING - 1)
      PROVE  Newest(s)' = IF s = i THEN raised ELSE Newest(s)
  <2>1. /\ Newest(s) = IF s < i THEN LapStart + s ELSE LapStart + s - RING
        /\ Newest(s)' = IF s < Index(change_soe_position') THEN LapStart' + s
                                                           ELSE LapStart' + s - RING
    BY DEF Newest, i
  <2>. QED BY <2>1, <1>0, <1>1, <1>2
<1>5. change_soe \in [Slots -> Record] /\ change_soe' \in [Slots -> Record]
  <2>1. [event |-> raised, time |-> raised] \in Record
    BY <1>0 DEF Record, Reports
  <2>. QED BY <1>0, <1>3, <2>1 DEF CursorPart, RingAtRest
<1>6. RingAtRest'
  <2>1. RingHoldsNewest'
    <3> SUFFICES ASSUME NEW s \in 0..(RING - 1)
                 PROVE  IF Newest(s)' < 0 THEN change_soe'[s] = Blank
                        ELSE change_soe'[s] = [event |-> Newest(s)', time |-> Newest(s)']
      BY DEF RingHoldsNewest
    <3>0. s \in Slots
      BY <1>0 DEF Slots
    <3>1. CASE s = i
      BY <1>0, <1>3, <1>4, <1>5, <3>0, <3>1
    <3>2. CASE s # i
      <4>1. change_soe'[s] = change_soe[s] /\ Newest(s)' = Newest(s)
        BY <1>3, <1>4, <1>5, <3>0, <3>2
      <4>2. ~Writing(s)
        BY DEF CursorPart, RingAtRest, Writing
      <4>. QED BY <4>1, <4>2 DEF CursorPart, RingAtRest, RingHoldsNewest
    <3>. QED BY <3>1, <3>2
  <2>2. (\A s \in RING..(REPORT_SUM - 1) : ~Valid(s))'
    <3> SUFFICES ASSUME NEW s \in RING..(REPORT_SUM - 1) PROVE ~Valid(s)'
      OBVIOUS
    <3>1. s \in Slots /\ s # i
      BY <1>0 DEF Slots
    <3>2. change_soe'[s] = change_soe[s]
      BY <1>3, <1>5, <3>1
    <3>. QED BY <3>2 DEF CursorPart, RingAtRest, Valid
  <2>3. LapInv'
    BY <1>0, <1>1, <1>2 DEF CursorPart, RingAtRest, LapInv, Positions, WRAPPED
  <2>4. raised' \in 0..MAX_REPORTS
    BY <1>0
  <2>. QED BY <1>1, <1>3, <1>5, <2>1, <2>2, <2>3, <2>4
           DEF CursorPart, RingAtRest, Positions
<1>7. ASSUME pc # "gone", ~raced
      PROVE  consumed[Me] \in base..(raised') /\ CursorOK(Me)'
  <2>1. consumed[Me] \in base..raised /\ CursorOK(Me) /\ base \in Nat
        /\ DInputReadIndex[Me] \in Nat
    BY <1>0, <1>7, LinkAssumption DEF CursorPart, ConnectionPart, Slots
  <2>2. UNCHANGED <<autoConfirmed[Me], DInputReadIndex[Me], consumed[Me]>>
    BY <1>3 DEF linkVars
  <2>3. Lag(Me)' = Lag(Me) + 1 /\ Lag(Me) \in Nat /\ consumed[Me] \in Nat
        /\ raised = consumed[Me] + Lag(Me)
    BY <1>0, <2>1, <2>2 DEF Lag
  <2>4. Lag(Me)' <= RING + 1 => SlotOf(consumed[Me])' = SlotOf(consumed[Me])
    <3>1. CASE LapStart' = LapStart
      BY <2>2, <3>1 DEF SlotOf
    <3>2. CASE i = RING - 1 /\ LapStart' = LapStart + RING
      BY <1>0, <2>2, <2>3, <3>2 DEF SlotOf
    <3>. QED BY <1>2, <3>1, <3>2
  <2>5. CursorOK(Me)'
    BY <1>0, <2>1, <2>2, <2>3, <2>4 DEF CursorOK
  <2>. QED BY <1>0, <2>1, <2>3, <2>5
<1>. QED BY <1>3, <1>6, <1>7 DEF CursorPart, linkVars, ghosts

\* Sequence numbers stay below SEQ; a sum that wraps is smaller than it was.
LEMMA PlusStaysBelow ==
    ASSUME NEW n \in 0..(SEQ - 1), NEW k \in Nat
    PROVE  Plus(n, k) \in 0..(SEQ - 1) /\ Plus(n, k) <= n + k
<1>1. SEQ \in Nat \ {0}
  BY LinkAssumption
<1>. QED BY <1>1 DEF Plus

LEMMA AheadNoWrap ==
    ASSUME NEW n \in 0..(SEQ - 1), NEW m \in 0..(SEQ - 1)
    PROVE  /\ Ahead(n, m) \in 0..(SEQ - 1)
           /\ m <= n => Ahead(n, m) = n - m
<1>1. SEQ \in Nat \ {0}
  BY LinkAssumption
<1>2. m <= n => n - m \in 0..(SEQ - 1)
  BY <1>1
<1>. QED BY <1>1, <1>2 DEF Ahead

\* The frame taken off the socket is one the peer put there.
LEMMA FrameTypes ==
    ASSUME ConnectionPart, Ready
    PROVE  /\ Frame \in Frames
           /\ Frame.type \in {"S", "I"} => Frame.nr \in 0..(SEQ - 1)
           /\ Frame.type = "I" => Frame.asdu \in Asdus
           /\ Tail(toServer) \in Seq(Frames) /\ Len(Tail(toServer)) <= MAX_TRANSIT
<1>1. toServer \in Seq(Frames) /\ toServer # <<>> /\ Len(toServer) <= MAX_TRANSIT
  BY DEF ConnectionPart, Ready
<1>2. Frame \in Frames
  BY <1>1 DEF Frame
<1>3. Tail(toServer) \in Seq(Frames) /\ Len(Tail(toServer)) <= MAX_TRANSIT
  BY <1>1, LinkAssumption
<1>. QED BY <1>2, <1>3 DEF Frames

\* A command is answered with at most three frames.
LEMMA AnswersAreFew ==
    ASSUME NEW asdu \in Asdus, NEW answer \in Answers(asdu)
    PROVE  answer.frames \in 0..3
<1>1. CASE asdu = "clock"
  BY <1>1 DEF Answers
<1>2. CASE asdu = "control"
  <2>1. answer \in ControlAnswers
    BY <1>2 DEF Answers
  <2>. QED BY <2>1 DEF ControlAnswers
<1>3. CASE asdu \notin {"clock", "control"}
  <2>1. answer \in InterrogationAnswers(asdu)
    BY <1>3 DEF Answers
  <2>. QED BY <2>1 DEF InterrogationAnswers
<1>. QED BY <1>1, <1>2, <1>3

\* A fresh PARAMS is well typed.
LEMMA NewParamsTyped ==
    ASSUME RingAtRest, NewParams, pc' \in {"top", "gone"}
    PROVE  ConnectionPart'
<1>1. raised \in 0..MAX_REPORTS /\ 0 \in 0..(SEQ - 1) /\ 0 \in 0..MAX_COMMANDS
      /\ 0 <= MAX_TRANSIT
  BY RestFacts, LinkAssumption
<1>2. <<>> \in Seq(Frames) /\ Len(<<>>) = 0
  OBVIOUS
<1>. QED BY <1>1, <1>2 DEF NewParams, ConnectionPart

\* Receiving keeps the connection's own variables typed.
LEMMA ReceiveKeepsTypes ==
    ASSUME RingAtRest, ConnectionPart, Receive
    PROVE  ConnectionPart'
<1>0. Ready /\ raised \in 0..MAX_REPORTS /\ SEQ \in Nat
  BY RestFacts, LinkAssumption DEF Receive, RecvError, RecvStartDT, RecvStopDT,
     RecvTestFR, RecvS, RecvIStopped, RecvI, Take
<1>1. /\ Frame.type \in {"S", "I"} => Frame.nr \in 0..(SEQ - 1)
      /\ Frame.type = "I" => Frame.asdu \in Asdus
      /\ Tail(toServer) \in Seq(Frames) /\ Len(Tail(toServer)) <= MAX_TRANSIT
  BY <1>0, FrameTypes
<1>2. /\ Plus(sendNum, 1) \in 0..(SEQ - 1)
      /\ Plus(recvNum, 1) \in 0..(SEQ - 1)
      /\ \A k \in 0..3 : Plus(sendNum, k) \in 0..(SEQ - 1)
  <2>1. sendNum \in 0..(SEQ - 1) /\ recvNum \in 0..(SEQ - 1)
    BY DEF ConnectionPart
  <2>2. \A k \in 0..3 : k \in Nat
    OBVIOUS
  <2>. QED BY <2>1, <2>2, PlusStaysBelow
<1>3. CASE Leave
  BY <1>3, NewParamsTyped DEF Leave
<1>4. CASE RecvStartDT
  BY <1>0, <1>1, <1>2, <1>4
     DEF RecvStartDT, Take, SendFrames, ConnectionPart, Pending
<1>5. CASE RecvStopDT
  BY <1>1, <1>5 DEF RecvStopDT, Take, ConnectionPart, ghosts
<1>6. CASE RecvTestFR
  BY <1>1, <1>6 DEF RecvTestFR, Take, ConnectionPart, protoVars, ghosts
<1>7. CASE RecvS
  BY <1>1, <1>7 DEF RecvS, Take, ConnectionPart, ghosts
<1>8. CASE RecvIStopped
  BY <1>1, <1>2, <1>8 DEF RecvIStopped, Take, ConnectionPart, ghosts
<1>9. CASE RecvI /\ ~Leave
  <2>1. PICK answer \in Answers(Frame.asdu) :
            /\ sendNum' = Plus(sendNum, answer.frames)
            /\ recvNum' = Plus(recvNum, 1)
            /\ confirmedNum' = Frame.nr
            /\ working' = TRUE
            /\ toServer' = Tail(toServer)
            /\ pc' = "spont"
            /\ UNCHANGED <<startDT, sendNum_SOE, peerRecv, peerSent, ghosts>>
    BY <1>9 DEF RecvI
  <2>2. Frame.type = "I"
    BY <1>9 DEF RecvI
  <2>3. answer.frames \in 0..3
    BY <1>1, <2>2, AnswersAreFew
  <2>. QED BY <1>1, <1>2, <2>1, <2>2, <2>3 DEF ConnectionPart, ghosts
<1>. QED BY <1>3, <1>4, <1>5, <1>6, <1>7, <1>8, <1>9 DEF Receive, RecvError

\* So do the rest of the task's loop and the peer.
LEMMA SpontaneousKeepsTypes ==
    ASSUME RingAtRest, ConnectionPart, Spontaneous \/ NoData
    PROVE  ConnectionPart'
<1>1. Plus(sendNum, 1) \in 0..(SEQ - 1)
  BY PlusStaysBelow DEF ConnectionPart
<1>2. CASE Leave
  BY <1>2, NewParamsTyped DEF Leave
<1>3. CASE Hold \/ NoReport \/ NoYC \/ NoData
  BY <1>3 DEF Hold, NoReport, NoYC, NoData, ConnectionPart, protoVars, peerVars, ghosts
<1>4. CASE Release
  BY <1>4 DEF Release, ConnectionPart, protoVars, peerVars, ghosts
<1>5. CASE SendReport \/ SendYC
  BY <1>1, <1>5 DEF SendReport, SendYC, SendFrames, ConnectionPart, peerVars, ghosts
<1>. QED BY <1>2, <1>3, <1>4, <1>5 DEF Spontaneous, SendFails

LEMMA PeerKeepsTypes ==
    ASSUME ConnectionPart, Peer
    PROVE  ConnectionPart'
<1>0. /\ SEQ \in Nat \ {0} /\ MAX_COMMANDS \in 0..(SEQ - 1) /\ MAX_TRANSIT \in Nat
      /\ toServer \in Seq(Frames)
  BY LinkAssumption DEF ConnectionPart
<1>1. ASSUME NEW frame \in Frames, Put(frame)
      PROVE  toServer' \in Seq(Frames) /\ Len(toServer') <= MAX_TRANSIT
  BY <1>0, <1>1 DEF Put
<1>2. CASE PeerTake
  <2>1. Plus(peerRecv, 1) \in 0..(SEQ - 1)
    BY PlusStaysBelow DEF ConnectionPart
  <2>. QED BY <1>2, <2>1 DEF PeerTake, ConnectionPart, protoVars, ghosts
<1>3. CASE PeerControl
  <2>1. \A name \in {"STARTDT", "STOPDT", "TESTFR", "TESTFRCON"} : U(name) \in Frames
    BY DEF U, Frames
  <2>. QED BY <1>1, <1>3, <2>1 DEF PeerControl, ConnectionPart, protoVars, ghosts
<1>4. CASE PeerAck
  <2>1. S(peerRecv) \in Frames
    BY DEF S, Frames, ConnectionPart
  <2>. QED BY <1>1, <1>4, <2>1 DEF PeerAck, ConnectionPart, protoVars, ghosts
<1>5. CASE PeerCommand
  <2>1. PICK ns \in {peerSent, peerSent + 1}, asdu \in Asdus : Put(I(ns, peerRecv, asdu))
    BY <1>5 DEF PeerCommand
  <2>2. ns \in 0..MAX_COMMANDS /\ peerSent + 1 \in 0..MAX_COMMANDS
    BY <1>0, <1>5 DEF PeerCommand, ConnectionPart
  <2>3. I(ns, peerRecv, asdu) \in Frames
    BY <2>2 DEF I, Frames, ConnectionPart
  <2>4. toServer' \in Seq(Frames) /\ Len(toServer') <= MAX_TRANSIT
    BY <1>1, <2>1, <2>3
  <2>. QED BY <1>5, <2>2, <2>4 DEF PeerCommand, ConnectionPart, protoVars, ghosts
<1>. QED BY <1>2, <1>3, <1>4, <1>5 DEF Peer

\* No step breaks the link's invariant.
LEMMA LinkNextKeepsInv ==
    ASSUME CursorPart, ConnectionPart, [LinkNext]_linkAll
    PROVE  CursorPart' /\ ConnectionPart'
<1>0. RingAtRest
  BY DEF CursorPart
<1>1. CASE Accept
  <2>1. NewParams /\ pc' = "top"
    BY <1>1 DEF Accept
  <2>. QED BY <1>0, <1>1, <2>1, AcceptKeepsCursorPart, NewParamsTyped
<1>2. CASE Leave
  <2>1. NewParams /\ pc' = "gone"
    BY <1>2 DEF Leave
  <2>. QED BY <1>0, <1>2, <2>1, LeaveKeepsCursorPart, NewParamsTyped
<1>3. CASE Receive /\ ~Leave
  <2>1. ConnectionPart' /\ pc = "top"
    BY <1>0, <1>3, ReceiveKeepsTypes
       DEF Receive, RecvError, RecvStartDT, RecvStopDT, RecvTestFR, RecvS,
           RecvIStopped, RecvI, Take, Ready
  <2>2. CASE RecvStartDT
    BY <2>1, <2>2, StartDTKeepsCursorPart
  <2>3. CASE RecvStopDT \/ RecvTestFR \/ RecvIStopped
    <3>1. UNCHANGED vars /\ UNCHANGED ghosts /\ pc' = "spont"
      BY <2>3 DEF RecvStopDT, RecvTestFR, RecvIStopped
    <3>. QED BY <2>1, <3>1, QuietKeepsCursorPart
  <2>4. CASE RecvS \/ RecvI
    <3>1. /\ Confirm(Me) \/ UNCHANGED vars
          /\ UNCHANGED ghosts /\ pc' = "spont"
      BY <1>3, <2>4 DEF RecvS, RecvI, ConfirmIfCovered
    <3>. QED BY <2>1, <3>1, QuietKeepsCursorPart, ConfirmKeepsCursorPart
  <2>. QED BY <1>3, <2>1, <2>2, <2>3, <2>4 DEF Receive, RecvError
<1>4. CASE (Spontaneous \/ NoData) /\ ~Leave
  <2>1. ConnectionPart'
    BY <1>0, <1>4, SpontaneousKeepsTypes
  <2>2. CASE Hold \/ NoReport \/ SendYC \/ NoYC \/ NoData
    <3>1. UNCHANGED vars /\ UNCHANGED ghosts /\ pc # "gone" /\ pc' # "gone"
      BY <2>2 DEF Hold, NoReport, SendYC, NoYC, NoData
    <3>. QED BY <2>1, <3>1, QuietKeepsCursorPart
  <2>3. CASE Release
    <3>1. /\ Confirm(Me) \/ UNCHANGED vars
          /\ UNCHANGED ghosts /\ pc # "gone" /\ pc' # "gone"
      BY <2>3 DEF Release
    <3>. QED BY <2>1, <3>1, QuietKeepsCursorPart, ConfirmKeepsCursorPart
  <2>4. CASE SendReport
    <3>1. Send(Me) /\ UNCHANGED ghosts /\ pc # "gone" /\ pc' # "gone"
      BY <2>4 DEF SendReport, ghosts
    <3>. QED BY <2>1, <3>1, SendKeepsCursorPart
  <2>. QED BY <1>4, <2>1, <2>2, <2>3, <2>4 DEF Spontaneous, SendFails
<1>5. CASE Peer
  <2>1. UNCHANGED vars /\ UNCHANGED ghosts /\ pc # "gone" /\ pc' # "gone"
    BY <1>5 DEF Peer, PeerTake, PeerControl, PeerAck, PeerCommand, Put
  <2>. QED BY <1>5, <2>1, PeerKeepsTypes, QuietKeepsCursorPart
<1>6. CASE RaiseReport
  <2>1. ConnectionPart'
    BY <1>6 DEF RaiseReport, ConnectionPart, protoVars, peerVars, ghosts
  <2>. QED BY <1>6, <2>1, RaiseKeepsCursorPart
<1>7. CASE UNCHANGED linkAll
  <2>1. ConnectionPart'
    BY <1>7 DEF linkAll, ConnectionPart, protoVars, peerVars, ghosts
  <2>2. RingAtRest' /\ LapStart' = LapStart
    BY <1>0, <1>7, RingStaysAtRest DEF linkAll, vars, writerVars
  <2>3. CursorPart'
    BY <1>7, <2>2 DEF linkAll, vars, ghosts, CursorPart, CursorOK, Lag, SlotOf
  <2>. QED BY <2>1, <2>3
<1>. QED BY <1>1, <1>2, <1>3, <1>4, <1>5, <1>6, <1>7 DEF LinkNext, Exit

LEMMA InitLinkInv == LinkInit => LinkInv
<1> SUFFICES ASSUME LinkInit PROVE LinkInv
  OBVIOUS
<1>1. RingInv /\ Init
  BY InitRingInv DEF LinkInit
<1>2. RingAtRest
  BY <1>1, RingAssumption DEF Init, RingInv, TypeOK, RingAtRest
<1>3. CursorPart
  BY <1>1, <1>2, LinkAssumption
     DEF Init, LinkInit, RingInv, TypeOK, CursorPart
<1>4. ConnectionPart
  <2>1. 0 \in 0..(SEQ - 1) /\ 0 \in 0..MAX_COMMANDS /\ 0 \in 0..MAX_REPORTS
        /\ 0 <= MAX_TRANSIT
    BY LinkAssumption, RingAssumption
  <2>2. <<>> \in Seq(Frames) /\ Len(<<>>) = 0
    OBVIOUS
  <2>. QED BY <2>1, <2>2 DEF LinkInit, ConnectionPart
<1>. QED BY <1>3, <1>4, LinkInvParts

\* The link's variables have their types, and until a STARTDT meets a pending
\* report its cursor stands for a report between the last STARTDT and the writer.
THEOREM LinkInvariant == LinkSpec => []LinkInv
<1>1. LinkInv /\ [LinkNext]_linkAll => LinkInv'
  <2> SUFFICES ASSUME LinkInv, [LinkNext]_linkAll PROVE LinkInv'
    OBVIOUS
  <2>1. CursorPart' /\ ConnectionPart'
    BY LinkInvParts, LinkNextKeepsInv
  <2>. QED BY <2>1 DEF LinkInv, LinkTypeOK, CursorPart, ConnectionPart
<1>. QED BY <1>1, InitLinkInv, PTL DEF LinkSpec

\* Between the window check and the frames it allows the window stays open, for
\* a report and then for measurements.
LEMMA NextKeepsWindow ==
    ASSUME LinkInv, WindowInv, [LinkNext]_linkAll
    PROVE  WindowInv'
<1>0. /\ sendNum \in 0..(SEQ - 1) /\ confirmedNum \in 0..(SEQ - 1)
      /\ W \in Nat /\ SEQ \in Nat
  BY LinkInvParts, LinkAssumption DEF ConnectionPart
<1>1. CASE UNCHANGED <<pc, protoVars>>
  BY <1>1 DEF WindowInv, protoVars
<1>2. CASE pc' \in {"top", "spont", "gone"}
  BY <1>2 DEF WindowInv
<1>3. CASE Release
  BY <1>3 DEF Release, WindowOpen, WindowInv, protoVars
<1>4. CASE NoReport
  BY <1>0, <1>4 DEF NoReport, WindowInv, protoVars
<1>5. CASE SendReport
  <2>1. /\ sendNum' = Plus(sendNum, 1) /\ confirmedNum' = confirmedNum
        /\ pc = "soe" /\ pc' = "yc"
    BY <1>5 DEF SendReport, SendFrames
  <2>2. sendNum' <= sendNum + 1 /\ sendNum' \in 0..(SEQ - 1)
    BY <1>0, <2>1, PlusStaysBelow
  <2>. QED BY <1>0, <2>1, <2>2 DEF WindowInv
<1>6. \/ UNCHANGED <<pc, protoVars>> \/ pc' \in {"top", "spont", "gone"}
      \/ Release \/ NoReport \/ SendReport
  BY DEF LinkNext, linkAll, Accept, Exit, Leave, Receive, RecvError, RecvStartDT,
     RecvStopDT, RecvTestFR, RecvS, RecvIStopped, RecvI, NoData, Spontaneous,
     Hold, SendYC, NoYC, SendFails, Peer, PeerTake, PeerControl, PeerAck,
     PeerCommand, RaiseReport
<1>. QED BY <1>1, <1>2, <1>3, <1>4, <1>5, <1>6

\* Spontaneous frames leave only while at most W are unacknowledged, unless a
\* sequence number has wrapped (the window test of tcp104CentralTask).
THEOREM WindowIsKept == LinkSpec => WindowHolds
<1>1. LinkInit => WindowInv
  BY DEF LinkInit, WindowInv
<1>2. LinkSpec => []WindowInv
  BY <1>1, NextKeepsWindow, LinkInvariant, PTL DEF LinkSpec
<1>3. ASSUME LinkInv, WindowInv, SentSpontaneously, confirmedNum <= sendNum
      PROVE  Outstanding <= W
  <2>1. /\ sendNum \in 0..(SEQ - 1) /\ confirmedNum \in 0..(SEQ - 1) /\ W \in Nat
    BY <1>3, LinkInvParts, LinkAssumption DEF ConnectionPart
  <2>2. Outstanding = sendNum - confirmedNum
    BY <1>3, <2>1, AheadNoWrap DEF Outstanding
  <2>3. sendNum - confirmedNum <= W
    BY <1>3, <2>1 DEF SentSpontaneously, WindowInv
  <2>. QED BY <2>2, <2>3
<1>4. LinkInv /\ WindowInv =>
          [SentSpontaneously /\ confirmedNum <= sendNum => Outstanding <= W]_linkAll
  BY <1>3
<1>. QED BY <1>2, <1>4, LinkInvariant, PTL DEF WindowHolds

\* Only the task's own sending leaves a report pending.
LEMMA OnlySendReportSends ==
    ASSUME LinkInv, [LinkNext]_linkAll, Sends(Me)
    PROVE  Send(Me) /\ pc # "gone"
<1>1. /\ SOE_CONFIRMED # SOE_DIEVENT /\ Me \in Links
      /\ autoConfirmed \in [Links -> {SOE_CONFIRMED, SOE_DIEVENT}]
  BY LinkAssumption, LinkInvParts DEF CursorPart, SOE_CONFIRMED, SOE_DIEVENT
<1>2. autoConfirmed' # autoConfirmed /\ ~Pending /\ ~Confirm(Me)
  BY <1>1 DEF Sends, Confirm, Pending
<1>3. ~Establish(Me) /\ ~Drop(Me)
  BY <1>1 DEF Sends, Establish, Drop
<1>. QED BY <1>2, <1>3
    DEF LinkNext, linkAll, vars, linkVars, Accept, Exit, Leave, Receive, RecvError,
        RecvStartDT, RecvStopDT, RecvTestFR, RecvS, RecvIStopped, RecvI,
        ConfirmIfCovered, NoData, Spontaneous, Hold, Release, NoReport, SendReport,
        SendYC, NoYC, SendFails, Peer, PeerTake, PeerControl, PeerAck,
        PeerCommand, RaiseReport

\* What is sent after a STARTDT was raised after it, and in order, unless the
\* STARTDT met a report still waiting for its confirmation (OP_EstablishLink).
THEOREM FreshAfterStart == LinkSpec => StartsFresh
<1>1. ASSUME LinkInv, [LinkNext]_linkAll, Sends(Me), ~raced
      PROVE  /\ consumed'[Me] >= base
             /\ Lag(Me) <= RING => consumed'[Me] = consumed[Me]
  <2>1. Send(Me) /\ pc # "gone" /\ CursorPart /\ ConnectionPart
    BY <1>1, OnlySendReportSends, LinkInvParts
  <2>2. /\ consumed'[Me] \in base..(raised - 1)
        /\ Lag(Me) <= RING => consumed'[Me] = consumed[Me]
    BY <1>1, <2>1, SendIsFresh
  <2>. QED BY <2>2
<1>2. LinkInv /\ [LinkNext]_linkAll =>
          [Sends(Me) /\ ~raced =>
               /\ consumed'[Me] >= base
               /\ Lag(Me) <= RING => consumed'[Me] = consumed[Me]]_linkAll
  BY <1>1
<1>. QED BY <1>2, LinkInvariant, PTL DEF LinkSpec, StartsFresh
=============================================================================
