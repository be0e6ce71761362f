-------------------------- MODULE Measures_proofs --------------------------
(***************************************************************************)
(* Type correctness of Measures; the shared cursor, which the link that moved *)
(* it last also compares; and what a call that is alone sends.               *)
(***************************************************************************)
EXTENDS Measures, TLAPS

LEMMA PortsFacts ==
    /\ Order[1] \in Ports
    /\ \A p \in Ports : Following(p) \in Ports
    /\ MAX_USED \in Nat \ {0}
    /\ \A p \in Ports : DevNum[p] \in Nat /\ DevNum[p] <= MAX_USED
<1>1. DOMAIN Order = 1..Len(Order) /\ Len(Order) \in Nat /\ Len(Order) > 0
    BY MeasuresAssumption
<1>2. \A p \in Ports : Following(p) \in Ports
    <2> SUFFICES ASSUME NEW p \in Ports PROVE Following(p) \in Ports
        OBVIOUS
    <2> DEFINE here == CHOOSE k \in DOMAIN Order : Order[k] = p
    <2>1. here \in DOMAIN Order BY DEF Ports
    <2>2. here # Len(Order) => here + 1 \in DOMAIN Order BY <1>1, <2>1
    <2>3. Following(p) = IF here = Len(Order) THEN Order[1] ELSE Order[here + 1]
        BY DEF Following
    <2> HIDE DEF here
    <2>4. 1 \in DOMAIN Order BY <1>1
    <2> QED BY <2>1, <2>2, <2>3, <2>4 DEF Ports
<1>3. MAX_USED \in Nat \ {0} BY MeasuresAssumption
<1>4. \A p \in Ports : DevNum[p] \in Nat /\ DevNum[p] <= MAX_USED
    BY MeasuresAssumption, <1>3
<1> QED BY <1>1, <1>2, <1>3, <1>4 DEF Ports

ValueTypes == Devices \cup {NONE}
RowTypes == [flag: BOOLEAN, num: 0..1, val: ValueTypes]
CallTypes == [at: Ats, port: Ports, seen: Index, taken: BOOLEAN,
              took: (Ports \X Index) \cup {NONE}, alone: BOOLEAN]

\* Every row of a buffer has an index, and the first row has one.
LEMMA IndexFacts ==
    /\ CHANNELS \in Nat /\ BYTE \in Nat /\ MAX_USED \in Nat
    /\ MAX_USED <= CHANNELS /\ CHANNELS < BYTE
    /\ 0 \in Index /\ Rows \subseteq Index
    /\ \A n \in Index : (n + 1) % BYTE \in Index
BY MeasuresAssumption DEF Index, Rows

LEMMA RowType ==
    ASSUME TypeOK, NEW p, NEW r
    PROVE  Row(p, r) \in RowTypes
BY DEF TypeOK, Row, Blank, RowTypes, ValueTypes

LEMMA FiledType ==
    ASSUME TypeOK, NEW dev \in Devices, NEW place
    PROVE  Filed(dev, place) \in [Devices -> RowTypes]
<1> SUFFICES ASSUME NEW d \in Devices
             PROVE  [flag |-> yc_data_buf[d].flag \/ d = dev,
                     num  |-> IF d = dev THEN 1 ELSE yc_data_buf[d].num,
                     val  |-> IF d = place THEN dev ELSE yc_data_buf[d].val] \in RowTypes
    BY DEF Filed
<1>1. yc_data_buf[d] \in RowTypes BY DEF TypeOK, RowTypes, ValueTypes
<1>2. (yc_data_buf[d].flag \/ d = dev) \in BOOLEAN BY <1>1 DEF RowTypes
<1>3. (IF d = dev THEN 1 ELSE yc_data_buf[d].num) \in 0..1 BY <1>1 DEF RowTypes
<1>4. (IF d = place THEN dev ELSE yc_data_buf[d].val) \in ValueTypes
    BY <1>1 DEF RowTypes, ValueTypes
<1> QED BY <1>2, <1>3, <1>4 DEF RowTypes

LEMMA GotoType ==
    ASSUME TypeOK, NEW l \in Links, NEW at \in Ats, Goto(l, at)
    PROVE  pc' \in [Links -> CallTypes]
BY IndexFacts DEF TypeOK, Goto, CallTypes

-----------------------------------------------------------------------------
LEMMA InitTypes == Init => TypeOK
BY PortsFacts, IndexFacts DEF Init, TypeOK, Blank, Idle, Ats

LEMMA NextTypes == TypeOK /\ [Next]_vars => TypeOK'
<1> SUFFICES ASSUME TypeOK, [Next]_vars PROVE TypeOK'
    OBVIOUS
<1> DEFINE Whole == /\ yc_data_buf' \in [Devices -> RowTypes]
                    /\ porttransycindex' \in Ports /\ ycaddrindex' \in Index
                    /\ yc_message_buf' \in [addr: (Ports \X Index) \cup {NONE}, val: ValueTypes]
                    /\ pc' \in [Links -> CallTypes]
<1>0. SUFFICES Whole
    BY DEF TypeOK, RowTypes, ValueTypes, CallTypes
<1>t. /\ yc_data_buf \in [Devices -> RowTypes]
      /\ porttransycindex \in Ports /\ ycaddrindex \in Index
      /\ yc_message_buf \in [addr: (Ports \X Index) \cup {NONE}, val: ValueTypes]
      /\ pc \in [Links -> CallTypes]
    BY DEF TypeOK, RowTypes, ValueTypes, CallTypes
<1>1. CASE UNCHANGED vars
    BY <1>1, <1>t DEF vars
<1>2. ASSUME NEW dev \in Devices, FileOwn(dev[1], dev[2]) PROVE Whole
    <2>1. <<dev[1], dev[2]>> = dev BY DEF Devices
    <2> QED BY <1>2, <1>t, <2>1, FiledType DEF FileOwn, cursor
<1>3. ASSUME NEW dev \in Devices, FileElsewhere(dev[1], dev[2]) PROVE Whole
    <2>1. <<dev[1], dev[2]>> = dev BY DEF Devices
    <2> QED BY <1>3, <1>t, <2>1, FiledType DEF FileElsewhere, cursor
<1>4. ASSUME NEW l \in Links, Link(l) PROVE Whole
    <2>1. CASE Call(l)
        <3> DEFINE alone == \A j \in Links \ {l} : pc[j].at = "idle"
        <3>1. alone \in BOOLEAN OBVIOUS
        <3>2. pc' = [k \in Links |->
                 IF k = l
                 THEN [at |-> "test", port |-> porttransycindex, seen |-> 0,
                       taken |-> FALSE, took |-> NONE, alone |-> alone]
                 ELSE [at |-> pc[k].at, port |-> pc[k].port, seen |-> pc[k].seen,
                       taken |-> pc[k].taken, took |-> NONE, alone |-> FALSE]]
            BY <2>1 DEF Call
        <3> HIDE DEF alone
        <3>3. pc' \in [Links -> CallTypes]
            BY <1>t, <3>1, <3>2, IndexFacts DEF CallTypes, Ats
        <3> QED BY <1>t, <2>1, <3>3 DEF Call, cursor
    <2>2. CASE Test(l)
        <3>1. pc' \in [Links -> CallTypes] BY <2>2, GotoType DEF Test, Ats
        <3> QED BY <1>t, <2>2, <3>1 DEF Test, cursor
    <2>3. CASE Advance(l)
        <3>1. pc' \in [Links -> CallTypes] BY <1>t, <2>3 DEF Advance, CallTypes, Ats
        <3> QED BY <1>t, <2>3, <3>1 DEF Advance, cursor
    <2>4. CASE Store(l)
        <3>1. pc' \in [Links -> CallTypes] BY <2>4, GotoType DEF Store, Ats
        <3>2. pc[l].seen \in Index BY <1>t DEF CallTypes
        <3>3. ycaddrindex' \in Index BY <2>4, <3>2, IndexFacts DEF Store
        <3> QED BY <1>t, <2>4, <3>1, <3>3 DEF Store
    <2>5. CASE Compare(l)
        <3>1. pc' \in [Links -> CallTypes] BY <2>5, GotoType DEF Compare, Ats
        <3> QED BY <1>t, <2>5, <3>1 DEF Compare, cursor
    <2>6. CASE Zero(l)
        <3>1. pc' \in [Links -> CallTypes] BY <2>6, GotoType DEF Zero, Ats
        <3> QED BY <1>t, <2>6, <3>1, IndexFacts DEF Zero
    <2>7. CASE Turn(l)
        <3>1. pc' \in [Links -> CallTypes] BY <2>7, GotoType DEF Turn, Ats
        <3>2. pc[l].port \in Ports BY <1>t DEF CallTypes
        <3>3. porttransycindex' \in Ports BY <2>7, <3>2, PortsFacts DEF Turn
        <3> QED BY <1>t, <2>7, <3>1, <3>3 DEF Turn
    <2>9. CASE Retest(l)
        <3>1. pc[l].port \in Ports BY <1>t DEF CallTypes
        <3>2. Following(pc[l].port) \in Ports BY <3>1, PortsFacts
        <3>3. CASE Goto(l, "address") \/ Goto(l, "send")
            <4>1. pc' \in [Links -> CallTypes] BY <3>3, GotoType DEF Ats
            <4> QED BY <1>t, <2>9, <4>1 DEF Retest, cursor
        <3>4. CASE pc' = [pc EXCEPT ![l] = [at |-> "test", port |-> Following(@.port),
                                            seen |-> 0, taken |-> @.taken,
                                            took |-> @.took, alone |-> @.alone]]
            <4>1. pc' \in [Links -> CallTypes]
                BY <1>t, <3>2, <3>4, IndexFacts DEF CallTypes, Ats
            <4> QED BY <1>t, <2>9, <4>1 DEF Retest, cursor
        <3> QED BY <2>9, <3>3, <3>4 DEF Retest
    <2>10. CASE Address(l)
        <3>1. pc[l] \in CallTypes BY <1>t
        <3>2. pc' \in [Links -> CallTypes]
            <4>1. pc' = [pc EXCEPT ![l] = [at |-> "values", port |-> pc[l].port, seen |-> 0,
                                taken |-> TRUE,
                                took |-> IF pc[l].alone THEN <<pc[l].port, ycaddrindex>> ELSE NONE,
                                alone |-> pc[l].alone]]
                BY <2>10 DEF Address
            <4>2. (IF pc[l].alone THEN <<pc[l].port, ycaddrindex>> ELSE NONE)
                      \in (Ports \X Index) \cup {NONE}
                BY <1>t, <3>1 DEF CallTypes
            <4> QED BY <1>t, <3>1, <4>1, <4>2, IndexFacts DEF CallTypes, Ats
        <3>3. PICK row \in IF Inside THEN {ycaddrindex} ELSE Rows :
                  yc_message_buf' = [addr |-> <<pc[l].port, row>>, val |-> yc_message_buf.val]
            BY <2>10 DEF Address
        <3>4. row \in Index BY <1>t, <3>3, IndexFacts
        <3> QED BY <1>t, <2>10, <3>1, <3>2, <3>3, <3>4 DEF Address, cursor, CallTypes
    <2>11. CASE Values(l)
        <3>1. Here(l) \in RowTypes BY RowType DEF Here
        <3>2. pc' \in [Links -> CallTypes] BY <2>11, GotoType DEF Values, Ats
        <3>3. PICK val \in ValueTypes :
                  yc_message_buf' = [addr |-> yc_message_buf.addr, val |-> val]
            BY <1>t, <2>11, <3>1 DEF Values, RowTypes, ValueTypes
        <3> QED BY <1>t, <2>11, <3>2, <3>3 DEF Values, cursor
    <2>12. CASE Clear(l)
        <3>1. pc' \in [Links -> CallTypes] BY <2>12, GotoType DEF Clear, Ats
        <3>2. ASSUME NEW d \in Devices
              PROVE  [flag |-> yc_data_buf[d].flag /\ d # <<pc[l].port, ycaddrindex>>,
                      num |-> yc_data_buf[d].num, val |-> yc_data_buf[d].val] \in RowTypes
            <4>1. yc_data_buf[d] \in RowTypes BY <1>t
            <4>2. (yc_data_buf[d].flag /\ d # <<pc[l].port, ycaddrindex>>) \in BOOLEAN
                BY <4>1 DEF RowTypes
            <4> QED BY <4>1, <4>2 DEF RowTypes
        <3>3. yc_data_buf' \in [Devices -> RowTypes] BY <2>12, <3>2 DEF Clear
        <3> QED BY <1>t, <2>12, <3>1, <3>3 DEF Clear, cursor
    <2>8. CASE Send(l)
        BY <1>t, <2>8, PortsFacts, IndexFacts DEF Send, cursor, Idle, CallTypes, Ats
    <2> QED BY <1>4, <2>1, <2>2, <2>3, <2>4, <2>5, <2>6, <2>7, <2>8, <2>9, <2>10, <2>11,
               <2>12 DEF Link, Scan, Move, Take
<1> QED BY <1>1, <1>2, <1>3, <1>4 DEF Next

\* Buffers, cursor, message and calls keep their types.
THEOREM MeasuresTypes == Spec => []TypeOK
BY InitTypes, NextTypes, PTL DEF Spec

-----------------------------------------------------------------------------
\* Whoever moves the cursor is in Moving then, and leaves it only with a cursor
\* that is inside, or back at the first row.
LEMMA NextCursor == TypeOK /\ CursorBack /\ [Next]_vars => CursorBack'
<1> SUFFICES ASSUME TypeOK, CursorBack, [Next]_vars PROVE CursorBack'
    OBVIOUS
<1>p. pc \in [Links -> CallTypes] /\ ycaddrindex \in Nat
    BY IndexFacts DEF TypeOK, CallTypes, Index
<1>s. ASSUME ycaddrindex' = ycaddrindex,
             \A k \in Links : pc[k].at \in {"wrap", "zero"} => pc'[k].at \in {"wrap", "zero"}
      PROVE  CursorBack'
    BY <1>s DEF CursorBack, Moving
<1>1. CASE UNCHANGED vars
    BY <1>1, <1>s DEF vars
<1>2. ASSUME NEW dev \in Devices,
             FileOwn(dev[1], dev[2]) \/ FileElsewhere(dev[1], dev[2])
      PROVE CursorBack'
    BY <1>2, <1>s DEF FileOwn, FileElsewhere, cursor
<1>3. ASSUME NEW l \in Links, Link(l) PROVE CursorBack'
    <2>1. CASE Call(l)
        BY <1>p, <2>1, <1>s DEF Call, cursor
    <2>2. CASE Test(l)
        BY <1>p, <2>2, <1>s DEF Test, Goto, cursor
    <2>3. CASE Advance(l)
        BY <1>p, <2>3, <1>s DEF Advance, cursor
    <2>4. CASE Store(l)
        <3>1. pc'[l].at = "wrap" BY <1>p, <2>4 DEF Store, Goto
        <3> QED BY <3>1 DEF CursorBack, Moving
    <2>5. CASE Compare(l)
        <3>1. CASE ycaddrindex >= DevNum[pc[l].port]
            BY <1>p, <2>5, <3>1, <1>s DEF Compare, Goto, cursor
        <3>2. CASE ~(ycaddrindex >= DevNum[pc[l].port])
            <4>1. pc[l].port \in Ports BY <1>p DEF CallTypes
            <4>2. DevNum[pc[l].port] \in Nat /\ DevNum[pc[l].port] <= MAX_USED
                BY <4>1, PortsFacts
            <4>3. ycaddrindex < MAX_USED BY <1>p, <3>2, <4>2, PortsFacts
            <4> QED BY <2>5, <4>3 DEF Compare, cursor, CursorBack
        <3> QED BY <3>1, <3>2
    <2>6. CASE Zero(l)
        BY <2>6, PortsFacts DEF Zero, CursorBack
    <2>7. CASE Turn(l)
        BY <1>p, <2>7, <1>s DEF Turn, Goto
    <2>8. CASE Retest(l)
        BY <1>p, <2>8, <1>s DEF Retest, Goto, cursor
    <2>9. CASE Address(l)
        BY <1>p, <2>9, <1>s DEF Address, cursor
    <2>10. CASE Values(l)
        BY <1>p, <2>10, <1>s DEF Values, Goto, cursor
    <2>11. CASE Clear(l)
        BY <1>p, <2>11, <1>s DEF Clear, Goto, cursor
    <2>12. CASE Send(l)
        BY <1>p, <2>12, <1>s DEF Send, Idle, cursor
    <2> QED BY <1>3, <2>1, <2>2, <2>3, <2>4, <2>5, <2>6, <2>7, <2>8, <2>9, <2>10, <2>11,
               <2>12 DEF Link, Scan, Move, Take
<1> QED BY <1>1, <1>2, <1>3 DEF Next

LEMMA InitCursor == Init => CursorBack
BY PortsFacts DEF Init, CursorBack

\* A cursor behind the buffer has been moved there by a link that will compare it.
LEMMA OutsideIsMoving ==
    ASSUME TypeOK, CursorBack, ~Inside
    PROVE  Moving # {}
<1>1. ycaddrindex \in Nat BY IndexFacts DEF TypeOK, Index
<1>2. ~(ycaddrindex < MAX_USED) BY <1>1, IndexFacts DEF Inside, Rows
<1> QED BY <1>2 DEF CursorBack

\* A call looks behind the buffer only while another has moved the cursor and not
\* yet brought it back, however the calls and their ++ interleave.
THEOREM CursorInside == Spec => []RowsRead
<1>1. TypeOK /\ CursorBack => RowsRead
    BY OutsideIsMoving DEF RowsRead, Reading, Moving
<1> QED BY InitTypes, NextTypes, InitCursor, NextCursor, <1>1, PTL DEF Spec

-----------------------------------------------------------------------------
\* An answer takes no flag away and leaves the calls alone; on the ports 0 and 7
\* it brings its values into the row it flags.
LEMMA FilingHolds ==
    ASSUME TypeOK, TakenInv, NEW dev \in Devices,
           FileOwn(dev[1], dev[2]) \/ FileElsewhere(dev[1], dev[2])
    PROVE  TakenInv'
<1>0. <<dev[1], dev[2]>> = dev /\ dev[1] \in Ports BY DEF Devices
<1>1. PICK place : /\ yc_data_buf' = Filed(dev, place)
                   /\ \/ dev[1] \in OwnRow /\ place = dev
                      \/ dev[1] \notin OwnRow /\ (place = NONE \/ place[1] = dev[1])
    <2>1. CASE FileOwn(dev[1], dev[2])
        BY <1>0, <2>1 DEF FileOwn
    <2>2. CASE FileElsewhere(dev[1], dev[2])
        <3>1. PICK there \in Places(dev[1], dev[2]) :
                  yc_data_buf' = Filed(dev, IF Counted(dev[1], dev[2]) THEN there ELSE NONE)
            BY <1>0, <2>2 DEF FileElsewhere
        <3>2. there[1] = dev[1] BY DEF Places
        <3> QED BY <2>2, <3>1, <3>2 DEF FileElsewhere
    <2> QED BY <2>1, <2>2
<1>2. UNCHANGED <<porttransycindex, ycaddrindex, yc_message_buf, pc>>
    BY DEF FileOwn, FileElsewhere, cursor
<1>3. \A d \in Devices : yc_data_buf[d] \in RowTypes
    BY DEF TypeOK, RowTypes, ValueTypes
<1>4. \A d \in Devices :
          /\ yc_data_buf'[d].flag = (yc_data_buf[d].flag \/ d = dev)
          /\ yc_data_buf'[d].num = IF d = dev THEN 1 ELSE yc_data_buf[d].num
          /\ yc_data_buf'[d].val = IF d = place THEN dev ELSE yc_data_buf[d].val
    BY <1>1 DEF Filed
<1>5. RowsHold'
    <2> SUFFICES ASSUME NEW d \in Devices, d[1] \in OwnRow, yc_data_buf'[d].flag
                 PROVE  yc_data_buf'[d].num = 1 /\ yc_data_buf'[d].val = d
        BY DEF RowsHold
    <2>1. CASE d = dev
        BY <2>1, <1>1, <1>4
    <2>2. CASE d # dev
        <3>1. yc_data_buf[d].num = 1 /\ yc_data_buf[d].val = d
            BY <2>2, <1>4 DEF TakenInv, RowsHold
        <3>2. d # place
            <4>1. d # NONE BY MeasuresAssumption DEF Devices
            <4> QED BY <1>1, <2>2, <4>1
        <3> QED BY <2>2, <1>4, <3>1, <3>2
    <2> QED BY <2>1, <2>2
<1>6. ASSUME NEW l \in Links, Here(l).flag PROVE Here(l).flag'
    <2> DEFINE row == <<pc[l].port, ycaddrindex>>
    <2>1. row \in Devices /\ yc_data_buf[row].flag
        BY <1>6 DEF Here, Row, Blank
    <2>2. yc_data_buf'[row].flag BY <2>1, <1>4
    <2> QED BY <1>2, <2>1, <2>2 DEF Here, Row
<1>7. ASSUME NEW l \in Links, pc'[l].alone PROVE CallHolds(l)'
    BY <1>2, <1>6, <1>7 DEF TakenInv, CallHolds, AtCursor, Named, Copied
<1> QED BY <1>2, <1>5, <1>7 DEF TakenInv

\* A step of one link takes no call of another that is alone.
LEMMA OthersNotAlone ==
    ASSUME TakenInv, NEW l \in Links, pc[l].at # "idle"
    PROVE  \A k \in Links \ {l} : ~pc[k].alone
BY DEF TakenInv, CallHolds

LEMMA RowsHoldSame ==
    ASSUME RowsHold, UNCHANGED yc_data_buf
    PROVE  RowsHold'
BY DEF RowsHold

LEMMA StepHolds ==
    ASSUME TypeOK, CursorBack, TakenInv, NEW l \in Links, Link(l)
    PROVE  TakenInv'
<1>p. pc \in [Links -> CallTypes] BY DEF TypeOK, CallTypes
<1>1. CASE Call(l)
    <2> DEFINE alone == \A j \in Links \ {l} : pc[j].at = "idle"
    <2>1. pc' = [k \in Links |->
                 IF k = l
                 THEN [at |-> "test", port |-> porttransycindex, seen |-> 0,
                       taken |-> FALSE, took |-> NONE, alone |-> alone]
                 ELSE [at |-> pc[k].at, port |-> pc[k].port, seen |-> pc[k].seen,
                       taken |-> pc[k].taken, took |-> NONE, alone |-> FALSE]]
        BY <1>1 DEF Call
    <2>2. RowsHold' BY <1>1, RowsHoldSame DEF Call, TakenInv
    <2>3. ASSUME NEW k \in Links, pc'[k].alone PROVE CallHolds(k)'
        <3>1. k = l /\ alone BY <2>1, <2>3
        <3>2. pc'[l].at = "test" /\ pc'[l].took = NONE BY <2>1
        <3>4. pc'[l].took # NONE => pc'[l].taken BY <3>2
        <3>3. \A j \in Links \ {l} : pc'[j].at = "idle" BY <2>1, <3>1
        <3> QED BY <3>1, <3>2, <3>3, <3>4 DEF CallHolds
    <2>4. \A k \in Links : pc'[k].took = NONE BY <2>1
    <2> QED BY <2>2, <2>3, <2>4 DEF TakenInv
<1>2. ASSUME pc[l].at # "idle",
             \A k \in Links \ {l} : pc'[k] = pc[k],
             pc'[l].alone => pc[l].alone,
             ~pc'[l].alone => pc'[l].took = NONE,
             RowsHold',
             pc[l].alone /\ pc'[l].alone =>
                 /\ pc'[l].at \in {"address", "values"} => Here(l).flag'
                 /\ pc'[l].at \in {"idle", "test", "retest", "address"}
                        => pc'[l].took = NONE
                 /\ pc'[l].at = "values" => AtCursor(l)' /\ Named(l)'
                 /\ pc'[l].at = "clear" => AtCursor(l)' /\ Named(l)' /\ Copied(l)'
                 /\ pc'[l].at \in {"advance", "store", "wrap", "zero", "turn", "send"}
                    /\ pc'[l].took # NONE => Named(l)' /\ Copied(l)'
                 /\ pc'[l].took # NONE => pc'[l].taken
      PROVE  TakenInv'
    <2>1. ASSUME NEW k \in Links, pc'[k].alone PROVE CallHolds(k)'
        <3>1. k = l BY <1>2, <2>1, OthersNotAlone
        <3>2. CallHolds(l) BY <1>2, <2>1, <3>1 DEF TakenInv
        <3>3. \A j \in Links \ {l} : pc'[j].at = "idle" BY <1>2, <3>2 DEF CallHolds
        <3> QED BY <1>2, <2>1, <3>1, <3>3 DEF CallHolds
    <2>2. ASSUME NEW k \in Links, ~pc'[k].alone PROVE pc'[k].took = NONE
        BY <1>2, <2>2 DEF TakenInv
    <2> QED BY <1>2, <2>1, <2>2 DEF TakenInv
<1>a. ASSUME pc[l].alone PROVE CallHolds(l)
    BY <1>a DEF TakenInv
<1>n. ~pc[l].alone => pc[l].took = NONE
    BY DEF TakenInv
<1>g. \A at : Goto(l, at) =>
          /\ pc'[l].at = at /\ pc'[l].port = pc[l].port
          /\ pc'[l].took = pc[l].took /\ pc'[l].alone = pc[l].alone
          /\ pc'[l].taken = pc[l].taken
          /\ \A k \in Links \ {l} : pc'[k] = pc[k]
    BY <1>p DEF Goto
\* A step between a row passed over or taken and the end of the case.
<1>b. ASSUME NEW at \in {"store", "wrap", "zero", "turn", "send"},
             pc[l].at \in {"advance", "store", "wrap", "zero", "turn"},
             pc'[l].at = at, pc'[l].took = pc[l].took, pc'[l].alone = pc[l].alone,
             pc'[l].taken = pc[l].taken, \A k \in Links \ {l} : pc'[k] = pc[k],
             UNCHANGED <<yc_data_buf, yc_message_buf>>
      PROVE  TakenInv'
    <2>1. RowsHold' BY <1>b, RowsHoldSame DEF TakenInv
    <2>2. pc[l].alone /\ pc[l].took # NONE => Named(l)' /\ Copied(l)'
        BY <1>a, <1>b DEF CallHolds, Named, Copied
    <2>3. pc[l].alone /\ pc[l].took # NONE => pc'[l].taken
        BY <1>a, <1>b DEF CallHolds
    <2> QED BY <1>2, <1>n, <1>b, <2>1, <2>2, <2>3
<1>3. CASE Test(l)
    <2>1. RowsHold' BY <1>3, RowsHoldSame DEF Test, TakenInv
    <2>2. pc[l].at = "test" BY <1>3 DEF Test
    <2>3. PICK at \in {"retest", "advance"} : Goto(l, at) BY <1>3 DEF Test
    <2>4. pc[l].took = NONE BY <1>a, <1>n, <2>2 DEF CallHolds
    <2> QED BY <1>2, <1>n, <2>1, <2>2, <2>3, <2>4, <1>g
<1>4. CASE Advance(l)
    <2>1. /\ pc'[l].at = "store" /\ pc'[l].took = pc[l].took /\ pc'[l].alone = pc[l].alone
          /\ pc'[l].taken = pc[l].taken
          /\ \A k \in Links \ {l} : pc'[k] = pc[k]
        BY <1>p, <1>4 DEF Advance
    <2> QED BY <1>4, <1>b, <2>1 DEF Advance
<1>5. CASE Store(l)
    BY <1>5, <1>b, <1>g DEF Store
<1>6. CASE Compare(l)
    <2>1. CASE Goto(l, "zero") \/ Goto(l, "send")
        BY <1>6, <2>1, <1>b, <1>g DEF Compare
    <2>2. CASE Goto(l, "test") /\ ~pc[l].taken
        <3>1. RowsHold' BY <1>6, RowsHoldSame DEF Compare, TakenInv
        <3>2. pc[l].took = NONE BY <2>2, <1>n, <1>a DEF CallHolds
        <3> QED BY <1>2, <1>n, <1>6, <2>2, <3>1, <3>2, <1>g DEF Compare
    <2> QED BY <1>6, <2>1, <2>2 DEF Compare
<1>7. CASE Zero(l)
    BY <1>7, <1>b, <1>g DEF Zero
<1>8. CASE Turn(l)
    <2>1. CASE Goto(l, "send")
        BY <1>8, <2>1, <1>b, <1>g DEF Turn
    <2>2. CASE Goto(l, "retest") /\ ~pc[l].taken
        <3>1. RowsHold' BY <1>8, RowsHoldSame DEF Turn, TakenInv
        <3>2. pc[l].took = NONE BY <2>2, <1>n, <1>a DEF CallHolds
        <3> QED BY <1>2, <1>n, <1>8, <2>2, <3>1, <3>2, <1>g DEF Turn
    <2> QED BY <1>8, <2>1, <2>2 DEF Turn
<1>9. CASE Retest(l)
    <2>1. RowsHold' BY <1>9, RowsHoldSame DEF Retest, TakenInv
    <2>2. pc[l].at = "retest" BY <1>9 DEF Retest
    <2>3. pc[l].took = NONE BY <1>a, <1>n, <2>2 DEF CallHolds
    <2>4. PICK fresh \in Flags(l) :
              \/ fresh /\ Goto(l, "address")
              \/ ~fresh /\ pc[l].port = Order[Len(Order)] /\ Goto(l, "send")
              \/ /\ ~fresh /\ pc[l].port # Order[Len(Order)]
                 /\ pc' = [pc EXCEPT ![l] = [at |-> "test", port |-> Following(@.port),
                                             seen |-> 0, taken |-> @.taken, took |-> @.took,
                                             alone |-> @.alone]]
        BY <1>9 DEF Retest
    <2>5. CASE fresh /\ Goto(l, "address")
        <3>1. ASSUME pc[l].alone PROVE Here(l).flag'
            <4>1. Moving = {}
                <5>1. \A k \in Links \ {l} : pc[k].at = "idle"
                    BY <1>a, <3>1 DEF CallHolds
                <5> QED BY <2>2, <5>1 DEF Moving
            <4>2. Inside BY <4>1, OutsideIsMoving
            <4>3. Here(l).flag BY <2>4, <2>5, <4>2 DEF Flags
            <4> QED BY <1>9, <2>5, <4>3, <1>g DEF Retest, cursor, Here, Row
        <3> QED BY <1>2, <1>n, <2>1, <2>2, <2>3, <2>5, <3>1, <1>g
    <2>6. CASE Goto(l, "send")
        BY <1>2, <1>n, <2>1, <2>2, <2>3, <2>6, <1>g
    <2>7. CASE pc' = [pc EXCEPT ![l] = [at |-> "test", port |-> Following(@.port),
                                        seen |-> 0, taken |-> @.taken, took |-> @.took,
                                        alone |-> @.alone]]
        <3>1. /\ pc'[l].at = "test" /\ pc'[l].took = pc[l].took
              /\ pc'[l].alone = pc[l].alone
              /\ \A k \in Links \ {l} : pc'[k] = pc[k]
            BY <1>p, <2>7
        <3> QED BY <1>2, <1>n, <2>1, <2>2, <2>3, <3>1
    <2> QED BY <2>4, <2>5, <2>6, <2>7
<1>10. CASE Address(l)
    <2>1. RowsHold' BY <1>10, RowsHoldSame DEF Address, TakenInv
    <2>2. pc[l].at = "address" BY <1>10 DEF Address
    <2>3. /\ pc'[l].at = "values" /\ pc'[l].port = pc[l].port
          /\ pc'[l].took = IF pc[l].alone THEN <<pc[l].port, ycaddrindex>> ELSE NONE
          /\ pc'[l].taken
          /\ pc'[l].alone = pc[l].alone
          /\ \A k \in Links \ {l} : pc'[k] = pc[k]
        BY <1>p, <1>10 DEF Address
    <2>4. ASSUME pc[l].alone PROVE AtCursor(l)' /\ Named(l)' /\ Here(l).flag'
        <3>1. Here(l).flag BY <1>a, <2>2, <2>4 DEF CallHolds
        <3>2. Inside BY <3>1 DEF Here, Row, Blank, Devices, Inside
        <3>3. yc_message_buf'.addr = <<pc[l].port, ycaddrindex>>
            BY <1>10, <3>2 DEF Address
        <3> QED BY <1>10, <2>3, <2>4, <3>1, <3>3
                DEF Address, cursor, AtCursor, Named, Here, Row
    <2> QED BY <1>2, <2>1, <2>2, <2>3, <2>4
<1>11. CASE Values(l)
    <2>1. RowsHold' BY <1>11, RowsHoldSame DEF Values, TakenInv
    <2>2. pc[l].at = "values" /\ Goto(l, "clear") BY <1>11 DEF Values
    <2>3. ASSUME pc[l].alone PROVE AtCursor(l)' /\ Named(l)' /\ Copied(l)'
        <3>1. AtCursor(l) /\ Named(l) /\ Here(l).flag
            BY <1>a, <2>2, <2>3 DEF CallHolds
        <3>2. AtCursor(l)' /\ Named(l)'
            BY <1>11, <2>2, <3>1, <1>g DEF Values, cursor, AtCursor, Named
        <3>3. ASSUME pc[l].took[1] \in OwnRow PROVE yc_message_buf'.val = pc[l].took
            <4>1. pc[l].took \in Devices /\ yc_data_buf[pc[l].took].flag
                BY <3>1 DEF Here, Row, Blank, AtCursor
            <4>2. yc_data_buf[pc[l].took].num = 1 /\ yc_data_buf[pc[l].took].val = pc[l].took
                BY <3>3, <4>1 DEF TakenInv, RowsHold
            <4>3. Here(l) = yc_data_buf[pc[l].took] /\ Inside
                BY <3>1, <4>1 DEF Here, Row, AtCursor, Devices, Inside
            <4> QED BY <1>11, <4>2, <4>3 DEF Values
        <3>4. pc'[l].took = pc[l].took BY <2>2, <1>g
        <3> QED BY <3>2, <3>3, <3>4 DEF Copied
    <2>4. pc[l].alone /\ pc[l].took # NONE => pc[l].taken
        BY <1>a DEF CallHolds
    <2> QED BY <1>2, <1>n, <2>1, <2>2, <2>3, <2>4, <1>g
<1>12. CASE Clear(l)
    <2>1. /\ pc[l].at = "clear" /\ Goto(l, "advance")
          /\ UNCHANGED yc_message_buf
        BY <1>12 DEF Clear
    <2>2. RowsHold'
        <3> SUFFICES ASSUME NEW d \in Devices, d[1] \in OwnRow, yc_data_buf'[d].flag
                     PROVE  yc_data_buf'[d].num = 1 /\ yc_data_buf'[d].val = d
            BY DEF RowsHold
        <3>1. /\ yc_data_buf[d].flag
              /\ yc_data_buf'[d].num = yc_data_buf[d].num
              /\ yc_data_buf'[d].val = yc_data_buf[d].val
            BY <1>12 DEF Clear
        <3> QED BY <3>1 DEF TakenInv, RowsHold
    <2>3. pc[l].alone => Named(l)' /\ Copied(l)'
        BY <1>a, <2>1, <1>g DEF CallHolds, Named, Copied
    <2>4. pc[l].alone /\ pc[l].took # NONE => pc[l].taken
        BY <1>a DEF CallHolds
    <2> QED BY <1>2, <1>n, <2>1, <2>2, <2>3, <2>4, <1>g
<1>13. CASE Send(l)
    <2>1. RowsHold' BY <1>13, RowsHoldSame DEF Send, TakenInv
    <2>2. pc[l].at = "send" /\ pc'[l] = Idle /\ \A k \in Links \ {l} : pc'[k] = pc[k]
        BY <1>p, <1>13 DEF Send
    <2> QED BY <1>2, <2>1, <2>2 DEF Idle
<1> QED BY <1>1, <1>3, <1>4, <1>5, <1>6, <1>7, <1>8, <1>9, <1>10, <1>11, <1>12, <1>13
        DEF Link, Scan, Move, Take

LEMMA NextTaken == TypeOK /\ CursorBack /\ TakenInv /\ [Next]_vars => TakenInv'
<1> SUFFICES ASSUME TypeOK, CursorBack, TakenInv, [Next]_vars PROVE TakenInv'
    OBVIOUS
<1>1. CASE UNCHANGED vars
    <2>1. UNCHANGED <<yc_data_buf, ycaddrindex, yc_message_buf, pc>> BY <1>1 DEF vars
    <2>2. RowsHold' BY <2>1, RowsHoldSame DEF TakenInv
    <2>3. ASSUME NEW l \in Links, pc'[l].alone PROVE CallHolds(l)'
        <3>1. CallHolds(l) BY <2>1, <2>3 DEF TakenInv
        <3> QED BY <2>1, <3>1 DEF CallHolds, AtCursor, Named, Copied, Here, Row
    <2>4. ASSUME NEW l \in Links, ~pc'[l].alone PROVE pc'[l].took = NONE
        BY <2>1, <2>4 DEF TakenInv
    <2> QED BY <2>2, <2>3, <2>4 DEF TakenInv
<1> QED BY <1>1, FilingHolds, StepHolds DEF Next

\* A call that no other disturbed sends the row it took, as that of its device.
THEOREM TakenSent == Spec => TakenIsSent
<1>1. Init => TakenInv
    BY DEF Init, TakenInv, RowsHold, Blank, Idle
<1>2. TakenInv /\ [Next]_vars =>
        [\A l \in Links : Sends(l) /\ pc[l].took # NONE =>
           /\ yc_message_buf.addr = pc[l].took
           /\ pc[l].took[1] \in OwnRow => yc_message_buf.val = pc[l].took]_vars
    BY DEF TakenInv, CallHolds, Sends, Named, Copied
<1> QED BY InitTypes, NextTypes, InitCursor, NextCursor, NextTaken, <1>1, <1>2, PTL
        DEF Spec, TakenIsSent
=============================================================================
