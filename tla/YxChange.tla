------------------------------ MODULE YxChange ------------------------------
(***************************************************************************)
(* State inputs (YX), from the answer of a device to the report of a change:*)
(* the task of a port stores the answer in yx_data_buf and what was there   *)
(* before in yx_chgdata_buf (Receive_Commdata_Proce of modbus600.c), and    *)
(* RtdbProcess (rtdboperate.c) compares the two and calls save_di_report    *)
(* for every input that differs.                                            *)
(*                                                                         *)
(* yx_chgdata_buf[..][0] is the hand-shake: 0x55 there is a change, 0x88    *)
(* there is none.  The task of the port (priority 10) preempts RtdbProcess  *)
(* (priority 21) between any two of its statements; its own work on an      *)
(* answer is one step.                                                      *)
(*                                                                         *)
(* A position is a device of a port; positions are numbered in the order    *)
(* RtdbProcess visits them.                                                 *)
(***************************************************************************)
EXTENDS Integers, FiniteSets

CONSTANTS
    LAST,      \* number of the last position
    PortOf,    \* position -> the number of its port
    POINTS,    \* inputs of a device
    MAX_OVERRUN  \* bound on the positions whose pending change is overwritten

Positions == 0..LAST
Points == 0..(POINTS - 1)
UartPorts == {PortOf[k] : k \in Positions}

ASSUME YxAssumption ==
    /\ LAST \in Nat /\ POINTS \in Nat /\ MAX_OVERRUN \in Nat
    /\ PortOf \in [Positions -> 0..7]
    /\ \A j, k \in Positions : j <= k => PortOf[j] <= PortOf[k]

CHANGED == 85      \* 0x55
UNCHGD == 136      \* 0x88
EMPTY == 0         \* no answer yet

VARIABLES
    uart_usedflg,     \* port -> in use (GetCfgFromCharBuf switches it)
    yx_data,          \* position -> the inputs of the last answer
    yx_chgdata,       \* position -> the inputs to compare them with
    flag,             \* position -> yx_chgdata_buf[..][0]
    pc, i, j,         \* RtdbProcess: where it is, position, input
    temp_data,        \* the value it is about to report
    known,            \* ghost: position -> what the reports say of its inputs
    overrun           \* ghost: positions whose pending change met an answer

vars == <<uart_usedflg, yx_data, yx_chgdata, flag, pc, i, j, temp_data, known,
          overrun>>
rtdb == <<pc, i, j, temp_data>>
store == <<uart_usedflg, yx_data, yx_chgdata, overrun>>

Inputs == [Points -> BOOLEAN]
AllOff == [p \in Points |-> FALSE]

Init ==
    /\ uart_usedflg \in [UartPorts -> BOOLEAN]
    /\ yx_data = [k \in Positions |-> AllOff]
    /\ yx_chgdata = [k \in Positions |-> AllOff]
    /\ flag = [k \in Positions |-> EMPTY]
    /\ pc = "visit" /\ i = 0 /\ j = 0 /\ temp_data = FALSE
    /\ known = [k \in Positions |-> AllOff]
    /\ overrun = {}

-----------------------------------------------------------------------------
\* Fault: the values to compare with are those of the first answer for ever.
PreviousKept(k) == yx_chgdata[k]
\* The values an answer is compared with: those of the answer before.
Previous(k) == yx_data[k]

\* An answer to the request for inputs.  The first one is the reference; a
\* change that RtdbProcess has not reported yet is overwritten.
Receive(k, inputs) ==
    /\ uart_usedflg[PortOf[k]]
    /\ yx_data' = [yx_data EXCEPT ![k] = inputs]
    /\ IF flag[k] = EMPTY
       THEN /\ yx_chgdata' = [yx_chgdata EXCEPT ![k] = inputs]
            /\ flag' = [flag EXCEPT ![k] = UNCHGD]
            /\ known' = [known EXCEPT ![k] = inputs]
       ELSE /\ yx_chgdata' = [yx_chgdata EXCEPT ![k] = Previous(k)]
            /\ flag' = [flag EXCEPT ![k] =
                            IF inputs # Previous(k) THEN CHANGED ELSE UNCHGD]
            /\ UNCHANGED known
    /\ overrun' = IF flag[k] = CHANGED THEN overrun \cup {k} ELSE overrun
    /\ Cardinality(overrun') <= MAX_OVERRUN
    /\ UNCHANGED <<uart_usedflg, rtdb>>

\* The configuration takes a port out of use or puts it to use.
Configure(port) ==
    /\ uart_usedflg' = [uart_usedflg EXCEPT ![port] = ~@]
    /\ UNCHANGED <<yx_data, yx_chgdata, flag, rtdb, known, overrun>>

-----------------------------------------------------------------------------
\* Fault: no first position after the last.
Next1Past(k) == k + 1
\* After a position the next one, after the last a delay and the first.
Next1(k) == IF k = LAST THEN 0 ELSE k + 1
\* Fault: a port out of use ends the scan.
NextPortStays(k) == {k}
\* The first position of the next port.
NextPort(k) ==
    LET later == {l \in Positions : PortOf[l] > PortOf[k]}
    IN  IF later = {} THEN {0} ELSE {l \in later : \A m \in later : l <= m}

\* The loop over the devices of a port: it ends with a port out of use.
SkipPort ==
    /\ pc = "visit" /\ ~uart_usedflg[PortOf[i]]
    /\ i' \in NextPort(i)
    /\ UNCHANGED <<store, flag, pc, j, temp_data, known>>
Skip ==
    /\ pc = "visit" /\ uart_usedflg[PortOf[i]] /\ flag[i] # CHANGED
    /\ i' = Next1(i)
    /\ UNCHANGED <<store, flag, pc, j, temp_data, known>>
Enter ==
    /\ pc = "visit" /\ uart_usedflg[PortOf[i]] /\ flag[i] = CHANGED
    /\ pc' = "compare" /\ j' = 0
    /\ UNCHANGED <<store, flag, i, temp_data, known>>

\* Each input is compared, read again, and reported.
Compare ==
    /\ pc = "compare" /\ j < POINTS
    /\ IF yx_data[i][j] # yx_chgdata[i][j]
       THEN pc' = "take" /\ UNCHANGED j
       ELSE j' = j + 1 /\ UNCHANGED pc
    /\ UNCHANGED <<store, flag, i, temp_data, known>>
\* Fault: the value compared with is reported.
TakeOld ==
    /\ pc = "take"
    /\ temp_data' = yx_chgdata[i][j]
    /\ pc' = "report"
    /\ UNCHANGED <<store, flag, i, j, known>>
Take ==
    /\ pc = "take"
    /\ temp_data' = yx_data[i][j]
    /\ pc' = "report"
    /\ UNCHANGED <<store, flag, i, j, known>>
Report ==
    /\ pc = "report"
    /\ known' = [known EXCEPT ![i][j] = temp_data]
    /\ j' = j + 1
    /\ pc' = "compare"
    /\ UNCHANGED <<store, flag, i, temp_data>>
\* All inputs are done: no change any more, whatever came meanwhile.
Done ==
    /\ pc = "compare" /\ j = POINTS
    /\ flag' = [flag EXCEPT ![i] = UNCHGD]
    /\ pc' = "visit" /\ i' = Next1(i) /\ j' = 0
    /\ UNCHANGED <<store, temp_data, known>>

RtdbProcess == SkipPort \/ Skip \/ Enter \/ Compare \/ Take \/ Report \/ Done
Next ==
    \/ RtdbProcess
    \/ \E k \in Positions, inputs \in Inputs : Receive(k, inputs)
    \/ \E port \in UartPorts : Configure(port)

\* RtdbProcess is the task of lowest priority; it runs when the others wait.
Spec == Init /\ [][Next]_vars /\ WF_vars(RtdbProcess)

-----------------------------------------------------------------------------
\* Types of the buffers, of the hand-shake and of RtdbProcess.
TypeOK ==
    /\ uart_usedflg \in [UartPorts -> BOOLEAN]
    /\ yx_data \in [Positions -> Inputs]
    /\ yx_chgdata \in [Positions -> Inputs]
    /\ flag \in [Positions -> {EMPTY, CHANGED, UNCHGD}]
    /\ pc \in {"visit", "compare", "take", "report"}
    /\ i \in Positions /\ j \in 0..POINTS
    /\ temp_data \in BOOLEAN
    /\ known \in [Positions -> Inputs]
    /\ overrun \subseteq Positions

\* Unless an answer came while a change was pending, what the reports say of a
\* device is what it answered last, whenever no change is pending: 0x88 means
\* that all is reported (rtdboperate.c:201, modbus600.c:1393-1428).
Reported ==
    \A k \in Positions :
        k \notin overrun /\ flag[k] = UNCHGD => known[k] = yx_data[k]

\* A report of RtdbProcess is news: it differs from what was reported of that
\* input before, unless an answer came while the change was pending.
ReportsAreNews ==
    [][pc = "report" /\ pc' # "report" /\ i \notin overrun =>
           known'[i][j] # known[i][j]]_vars

\* A change of an input is reported, unless an answer overruns it or its port is
\* taken out of use; ports out of use do not keep the others waiting.
ChangeReported ==
    \A k \in Positions : \A p \in Points :
        (flag[k] # EMPTY /\ known[k][p] # yx_data[k][p])
            ~> \/ known[k][p] = yx_data[k][p]
               \/ k \in overrun
               \/ ~uart_usedflg[PortOf[k]]

\* Where the report of a pending change stands: inputs before j are reported,
\* the others are still as the answer before had them.
PendingInv ==
    \A k \in Positions \ overrun : flag[k] = CHANGED =>
        \A p \in Points :
            known[k][p] = IF pc # "visit" /\ i = k /\ p < j
                          THEN yx_data[k][p] ELSE yx_chgdata[k][p]
\* RtdbProcess works on a pending change, and holds its value.
ProcessInv ==
    /\ pc \in {"take", "report"} => j < POINTS
    /\ pc # "visit" /\ i \notin overrun =>
           /\ flag[i] = CHANGED
           /\ pc \in {"take", "report"} => yx_data[i][j] # yx_chgdata[i][j]
           /\ pc = "report" => temp_data = yx_data[i][j]

\* The inductive invariant behind Reported and ReportsAreNews.
YxInv == TypeOK /\ Reported /\ PendingInv /\ ProcessInv
=============================================================================
