------------------------------ MODULE Measures ------------------------------
(***************************************************************************)
(* Measurements, from the answer of a device to the cyclic frame of a 104    *)
(* link: Receive_Commdata_Proce files an answer in yc_data_buf of its port   *)
(* (modbus600.c); once a second every link task calls ProcessSendYC          *)
(* (eth_server103.c), which lets OP_GetMeasureValue (eth_callee.c) look for  *)
(* the next row with new data and sends what is in yc_message_buf then.      *)
(*                                                                         *)
(* The cursor and yc_message_buf are shared by all links.  The link tasks    *)
(* (priority 20, time slices) interleave between their statements and inside *)
(* ycaddrindex++; the task of a port (priority 10) preempts them and files   *)
(* an answer in one step.                                                    *)
(* The values of an answer travel together and are told apart by the device  *)
(* that gave them; rows and devices are numbered alike.                      *)
(***************************************************************************)
EXTENDS Integers, Sequences

CONSTANTS
    Links,       \* tasks that serve a 104 link
    Order,       \* the ports in the order of the cases: 0, 1, 3, 4, 5, 6, 7
    DevNum,      \* port -> devusednum, the devices in use
    MAX_USED,    \* the largest of them
    CHANNELS,    \* RTDB_CHANL_NUM, rows of a buffer
    BYTE,        \* 256, values of ycaddrindex
    NONE         \* no device, no values yet

Ports == {Order[k] : k \in DOMAIN Order}
Rows == 0..(CHANNELS - 1)
Devices == {dev \in Ports \X Rows : dev[2] < DevNum[dev[1]]}
\* The ports whose answers are stored in the row of the device that gave them.
OwnRow == {0, 7}

ASSUME MeasuresAssumption ==
    /\ Order \in Seq(0..7) /\ Order # <<>>
    /\ MAX_USED \in Nat \ {0}
    /\ DevNum \in [Ports -> 0..MAX_USED]
    \* devusednum is not checked; the list of addresses has as many places as rows.
    /\ CHANNELS \in Nat /\ MAX_USED <= CHANNELS
    /\ BYTE \in Nat /\ CHANNELS < BYTE
    /\ NONE \notin Ports \X Rows

VARIABLES
    yc_data_buf,       \* row of a device -> [flag, num, val]: new data, their
                       \* number (0: never any), the device that gave them
    porttransycindex,  \* the port the next call begins with
    ycaddrindex,       \* the row it looks at
    yc_message_buf,    \* [addr, val]: device named, device of the values
    pc                 \* link -> [at, port, seen, taken, took, alone]: the point
                       \* in the call, the case it is in, the cursor that ++ has
                       \* read, whether a row was taken; ghosts: no other link
                       \* was in a call, and then the row taken

vars == <<yc_data_buf, porttransycindex, ycaddrindex, yc_message_buf, pc>>
cursor == <<porttransycindex, ycaddrindex>>

\* A row of no device in use never gets an answer.
Blank == [flag |-> FALSE, num |-> 0, val |-> NONE]
Row(p, r) == IF <<p, r>> \in Devices THEN yc_data_buf[<<p, r>>] ELSE Blank
Idle == [at |-> "idle", port |-> Order[1], seen |-> 0, taken |-> FALSE,
         took |-> NONE, alone |-> FALSE]

Init ==
    /\ yc_data_buf = [dev \in Devices |-> Blank]
    /\ porttransycindex = Order[1]
    /\ ycaddrindex = 0
    /\ yc_message_buf = [addr |-> NONE, val |-> NONE]
    /\ pc = [l \in Links |-> Idle]

-----------------------------------------------------------------------------
\* An answer: the row of the device gets flag and number, the row `place' of the
\* port the values.
Filed(dev, place) ==
    [d \in Devices |->
        [flag |-> yc_data_buf[d].flag \/ d = dev,
         num  |-> IF d = dev THEN 1 ELSE yc_data_buf[d].num,
         val  |-> IF d = place THEN dev ELSE yc_data_buf[d].val]]

\* Ports 1, 3, 4, 5 and 6 count the values by the row that has the number of the
\* port, and store them at the turn of the port that has the number of the row.
Counted(p, r) == r = p \/ Row(p, p).num > 0
Places(p, r) ==
    {p} \X (IF r = p THEN {r}
            ELSE IF r \in Ports /\ DevNum[r] > 0 THEN 0..(DevNum[r] - 1) ELSE {0})

FileOwn(p, r) ==
    /\ p \in OwnRow
    /\ yc_data_buf' = Filed(<<p, r>>, <<p, r>>)
    /\ UNCHANGED <<cursor, yc_message_buf, pc>>

FileElsewhere(p, r) ==
    /\ p \notin OwnRow
    /\ \E place \in Places(p, r) :
           yc_data_buf' = Filed(<<p, r>>, IF Counted(p, r) THEN place ELSE NONE)
    /\ UNCHANGED <<cursor, yc_message_buf, pc>>

-----------------------------------------------------------------------------
Following(p) ==
    LET here == CHOOSE k \in DOMAIN Order : Order[k] = p
    IN  IF here = Len(Order) THEN Order[1] ELSE Order[here + 1]
Here(l) == Row(pc[l].port, ycaddrindex)
\* Behind the buffer lie the state inputs of the port (yx_data_buf), whose rows
\* begin with a flag, an address and a number as well.
Inside == ycaddrindex \in Rows
Flags(l) == IF Inside THEN {Here(l).flag} ELSE BOOLEAN
Goto(l, at) ==
    pc' = [pc EXCEPT ![l] = [at |-> at, port |-> @.port, seen |-> 0, taken |-> @.taken,
                             took |-> @.took, alone |-> @.alone]]

\* ProcessSendYC calls OP_GetMeasureValue, which enters the case of its port.
Call(l) ==
    /\ pc[l].at = "idle"
    /\ pc' = [k \in Links |->
                 IF k = l
                 THEN [at |-> "test", port |-> porttransycindex, seen |-> 0,
                       taken |-> FALSE, took |-> NONE,
                       alone |-> \A j \in Links \ {l} : pc[j].at = "idle"]
                 ELSE [at |-> pc[k].at, port |-> pc[k].port, seen |-> pc[k].seen,
                       taken |-> pc[k].taken, took |-> NONE, alone |-> FALSE]]
    /\ UNCHANGED <<yc_data_buf, cursor, yc_message_buf>>

\* caseNadd: a row without new data is passed over.
Test(l) ==
    /\ pc[l].at = "test"
    /\ \E fresh \in Flags(l) : Goto(l, IF fresh THEN "retest" ELSE "advance")
    /\ UNCHANGED <<yc_data_buf, cursor, yc_message_buf>>

\* ycaddrindex++, past a row that was passed over or taken: it is read, and
\* written; another link may have moved it in between.
Advance(l) ==
    /\ pc[l].at = "advance"
    /\ pc' = [pc EXCEPT ![l] = [at |-> "store", port |-> @.port, seen |-> ycaddrindex,
                                taken |-> @.taken, took |-> @.took, alone |-> @.alone]]
    /\ UNCHANGED <<yc_data_buf, cursor, yc_message_buf>>
Store(l) ==
    /\ pc[l].at = "store"
    /\ ycaddrindex' = (pc[l].seen + 1) % BYTE
    /\ Goto(l, "wrap")
    /\ UNCHANGED <<yc_data_buf, porttransycindex, yc_message_buf>>

\* Fault: the row behind the last device is looked at as well.
CompareLate(l) ==
    /\ pc[l].at = "wrap"
    /\ Goto(l, IF ycaddrindex > DevNum[pc[l].port] THEN "zero"
               ELSE IF pc[l].taken THEN "send" ELSE "test")
    /\ UNCHANGED <<yc_data_buf, cursor, yc_message_buf>>
\* Behind the last device the cursor goes to the first row of the next port;
\* after a row was taken the case ends.
Compare(l) ==
    /\ pc[l].at = "wrap"
    /\ Goto(l, IF ycaddrindex >= DevNum[pc[l].port] THEN "zero"
               ELSE IF pc[l].taken THEN "send" ELSE "test")
    /\ UNCHANGED <<yc_data_buf, cursor, yc_message_buf>>
Zero(l) ==
    /\ pc[l].at = "zero"
    /\ ycaddrindex' = 0
    /\ Goto(l, "turn")
    /\ UNCHANGED <<yc_data_buf, porttransycindex, yc_message_buf>>
\* Fault: the next call begins with the same port again.
TurnStay(l) ==
    /\ pc[l].at = "turn"
    /\ Goto(l, IF pc[l].taken THEN "send" ELSE "retest")
    /\ UNCHANGED <<yc_data_buf, cursor, yc_message_buf>>
\* A case that took nothing goes on with the first row of its own port.
Turn(l) ==
    /\ pc[l].at = "turn"
    /\ porttransycindex' = Following(pc[l].port)
    /\ Goto(l, IF pc[l].taken THEN "send" ELSE "retest")
    /\ UNCHANGED <<yc_data_buf, ycaddrindex, yc_message_buf>>

\* A row with new data is taken; without one the case falls through to the next,
\* and the last one leaves yc_message_buf as it was.
Retest(l) ==
    /\ pc[l].at = "retest"
    /\ \E fresh \in Flags(l) :
           \/ fresh /\ Goto(l, "address")
           \/ ~fresh /\ pc[l].port = Order[Len(Order)] /\ Goto(l, "send")
           \/ /\ ~fresh /\ pc[l].port # Order[Len(Order)]
              /\ pc' = [pc EXCEPT ![l] = [at |-> "test", port |-> Following(@.port),
                                          seen |-> 0, taken |-> @.taken, took |-> @.took,
                                          alone |-> @.alone]]
    /\ UNCHANGED <<yc_data_buf, cursor, yc_message_buf>>

\* Fault: the address is looked up for the port the cursor has moved on to.
AddressOfCursor(l) ==
    /\ pc[l].at = "address"
    /\ yc_message_buf' = [addr |-> <<porttransycindex, ycaddrindex>>, val |-> yc_message_buf.val]
    /\ pc' = [pc EXCEPT ![l] = [at |-> "values", port |-> @.port, seen |-> 0,
                                taken |-> TRUE,
                                took |-> IF @.alone THEN <<@.port, ycaddrindex>> ELSE NONE,
                                alone |-> @.alone]]
    /\ UNCHANGED <<yc_data_buf, cursor>>
\* Address and number of the row, then its values; a row behind the buffer names
\* any device of the port, and gives values of none.
Address(l) ==
    /\ pc[l].at = "address"
    /\ \E row \in IF Inside THEN {ycaddrindex} ELSE Rows :
           yc_message_buf' = [addr |-> <<pc[l].port, row>>, val |-> yc_message_buf.val]
    /\ pc' = [pc EXCEPT ![l] = [at |-> "values", port |-> @.port, seen |-> 0,
                                taken |-> TRUE,
                                took |-> IF @.alone THEN <<@.port, ycaddrindex>> ELSE NONE,
                                alone |-> @.alone]]
    /\ UNCHANGED <<yc_data_buf, cursor>>

Values(l) ==
    /\ pc[l].at = "values"
    /\ \E val \in IF ~Inside THEN {yc_message_buf.val, NONE}
                  ELSE IF Here(l).num = 0 THEN {yc_message_buf.val} ELSE {Here(l).val} :
           yc_message_buf' = [addr |-> yc_message_buf.addr, val |-> val]
    /\ Goto(l, "clear")
    /\ UNCHANGED <<yc_data_buf, cursor>>

\* The row is old now.  Behind the buffer a word of the state inputs becomes 0.
Clear(l) ==
    /\ pc[l].at = "clear"
    /\ yc_data_buf' = [d \in Devices |->
           [flag |-> yc_data_buf[d].flag /\ d # <<pc[l].port, ycaddrindex>>,
            num |-> yc_data_buf[d].num, val |-> yc_data_buf[d].val]]
    /\ Goto(l, "advance")
    /\ UNCHANGED <<cursor, yc_message_buf>>

\* The rest of ProcessSendYC: the frame is made of what yc_message_buf holds.
Send(l) ==
    /\ pc[l].at = "send"
    /\ pc' = [pc EXCEPT ![l] = Idle]
    /\ UNCHANGED <<yc_data_buf, cursor, yc_message_buf>>

Move(l) == Advance(l) \/ Store(l) \/ Compare(l) \/ Zero(l) \/ Turn(l)
Scan(l) == Test(l) \/ Move(l) \/ Retest(l)
Take(l) == Address(l) \/ Values(l) \/ Clear(l)
Link(l) == Call(l) \/ Scan(l) \/ Take(l) \/ Send(l)
Next == \/ \E l \in Links : Link(l)
        \/ \E dev \in Devices : FileOwn(dev[1], dev[2]) \/ FileElsewhere(dev[1], dev[2])

\* Every link task keeps running and calls once a second.
Fairness == \A l \in Links : WF_vars(Link(l))
Spec == Init /\ [][Next]_vars /\ Fairness

-----------------------------------------------------------------------------
Ats == {"idle", "test", "advance", "store", "wrap", "zero", "turn", "retest",
        "address", "values", "clear", "send"}

\* Types of the buffers, the cursor and the calls of the links.
Index == 0..(BYTE - 1)
TypeOK ==
    /\ yc_data_buf \in [Devices -> [flag: BOOLEAN, num: 0..1,
                                 val: Devices \cup {NONE}]]
    /\ porttransycindex \in Ports
    /\ ycaddrindex \in Index
    /\ yc_message_buf \in [addr: (Ports \X Index) \cup {NONE}, val: Devices \cup {NONE}]
    /\ pc \in [Links -> [at: Ats, port: Ports, seen: Index, taken: BOOLEAN,
                         took: (Ports \X Index) \cup {NONE}, alone: BOOLEAN]]

\* Links that have moved the shared cursor and not yet brought it back.
Moving == {l \in Links : pc[l].at \in {"wrap", "zero"}}
Reading(l) == pc[l].at \in {"test", "retest", "address", "values", "clear"}

\* A call looks behind the buffer of its port only while another has moved the
\* cursor and not yet compared and reset it, even if every row has a device and
\* the ++ of two links overlap: no call that the others leave alone does.
RowsRead ==
    \A l \in Links : Reading(l) /\ ~Inside => \E k \in Links \ {l} : k \in Moving

\* Behind RowsRead: the link that moved the cursor last also compares it.
CursorBack == ycaddrindex < MAX_USED \/ Moving # {}

Sends(l) == pc[l].at = "send" /\ pc'[l].at = "idle"

\* A link whose call did not overlap with another's sends the row it took: the
\* device is named as its own, and the values are that device's if its port
\* stores them in its row.
TakenIsSent ==
    [][\A l \in Links : Sends(l) /\ pc[l].took # NONE =>
           /\ yc_message_buf.addr = pc[l].took
           /\ pc[l].took[1] \in OwnRow => yc_message_buf.val = pc[l].took]_vars

\* Behind TakenIsSent: rows that are flagged on the ports that store values in
\* their own row hold them, and a call that is alone finds the row it has seen
\* flagged unchanged until it has copied it.
RowsHold ==
    \A dev \in Devices : dev[1] \in OwnRow /\ yc_data_buf[dev].flag
                            => yc_data_buf[dev].num = 1 /\ yc_data_buf[dev].val = dev
AtCursor(l) == pc[l].took = <<pc[l].port, ycaddrindex>>
Named(l) == yc_message_buf.addr = pc[l].took
Copied(l) == pc[l].took[1] \in OwnRow => yc_message_buf.val = pc[l].took
CallHolds(l) ==
    /\ \A k \in Links \ {l} : pc[k].at = "idle"
    /\ pc[l].at \in {"address", "values"} => Here(l).flag
    /\ pc[l].at \in {"idle", "test", "retest", "address"} => pc[l].took = NONE
    /\ pc[l].took # NONE => pc[l].taken
    /\ pc[l].at = "values" => AtCursor(l) /\ Named(l)
    /\ pc[l].at = "clear" => AtCursor(l) /\ Named(l) /\ Copied(l)
    /\ pc[l].at \in {"advance", "store", "wrap", "zero", "turn", "send"}
       /\ pc[l].took # NONE => Named(l) /\ Copied(l)
TakenInv ==
    /\ RowsHold
    /\ \A l \in Links : IF pc[l].alone THEN CallHolds(l) ELSE pc[l].took = NONE

Overlap == \E l, k \in Links : l # k /\ pc[l].at # "idle" /\ pc[k].at # "idle"

\* New data of a device behind the first of its port are taken by some call, unless
\* the calls of two links disturb each other: the scan starves none of them.  The
\* first device of a port may starve: a call that takes the first row of one port
\* after its last begins the next port with row 1.
Collected ==
    \A dev \in Devices : dev[2] > 0 =>
        (yc_data_buf[dev].flag ~> (~yc_data_buf[dev].flag \/ Overlap))

\* modbus600.c:1227 and the other ports, "true data flag": the values of a row
\* that is flagged are the device's that the row belongs to.
TrueDataFlag ==
    \A dev \in Devices : yc_data_buf[dev].flag
                            => yc_data_buf[dev].val = dev
=============================================================================
