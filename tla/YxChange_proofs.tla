--------------------------- MODULE YxChange_proofs ---------------------------
(***************************************************************************)
(* Every change of a state input is reported, and every report is news,      *)
(* unless an answer overran the change: for every number of devices, of      *)
(* ports and of inputs.                                                      *)
(***************************************************************************)
EXTENDS YxChange, TLAPS

USE DEF CHANGED, UNCHGD, EMPTY

LEMMA InitInv == Init => YxInv
<1> SUFFICES ASSUME Init PROVE YxInv OBVIOUS
<1>1. AllOff \in Inputs BY DEF AllOff, Inputs
<1>2. 0 \in Positions BY YxAssumption DEF Positions
<1>3. TypeOK
  <2>1. uart_usedflg \in [UartPorts -> BOOLEAN] /\ temp_data \in BOOLEAN
    BY DEF Init
  <2>2. /\ yx_data \in [Positions -> Inputs] /\ yx_chgdata \in [Positions -> Inputs]
        /\ known \in [Positions -> Inputs]
    BY <1>1 DEF Init
  <2>3. /\ flag \in [Positions -> {EMPTY, CHANGED, UNCHGD}]
        /\ pc \in {"visit", "compare", "take", "report"}
        /\ i \in Positions /\ j \in 0..POINTS /\ overrun \subseteq Positions
    BY <1>2, YxAssumption DEF Init
  <2> QED BY <2>1, <2>2, <2>3 DEF TypeOK
<1>4. Reported /\ PendingInv /\ ProcessInv
  BY DEF Init, Reported, PendingInv, ProcessInv
<1> QED BY <1>3, <1>4 DEF YxInv

\* An answer: the first is the reference, the others show what has changed.
LEMMA ReceiveInv ==
    ASSUME YxInv, NEW k \in Positions, NEW inputs \in Inputs, Receive(k, inputs)
    PROVE  YxInv'
<1>0. TypeOK /\ Reported /\ PendingInv /\ ProcessInv BY DEF YxInv
<1>1. /\ yx_data' = [yx_data EXCEPT ![k] = inputs]
      /\ overrun' = IF flag[k] = CHANGED THEN overrun \cup {k} ELSE overrun
      /\ UNCHANGED <<uart_usedflg, pc, i, j, temp_data>>
  BY DEF Receive, rtdb
<1>2. CASE flag[k] = EMPTY
  <2>1. /\ yx_chgdata' = [yx_chgdata EXCEPT ![k] = inputs]
        /\ flag' = [flag EXCEPT ![k] = UNCHGD]
        /\ known' = [known EXCEPT ![k] = inputs]
        /\ overrun' = overrun
    BY <1>1, <1>2 DEF Receive
  <2>2. TypeOK'
    <3>1. temp_data' \in BOOLEAN /\ uart_usedflg' \in [UartPorts -> BOOLEAN]
      BY <1>0, <1>1 DEF TypeOK
    <3> QED BY <1>0, <1>1, <2>1, <3>1 DEF TypeOK
  <2>3. Reported' BY <1>0, <1>1, <2>1 DEF Reported, TypeOK
  <2>4. PendingInv' BY <1>0, <1>1, <2>1 DEF PendingInv, TypeOK
  <2>5. pc # "visit" /\ i \notin overrun => i # k
    BY <1>0, <1>2 DEF ProcessInv
  <2>6. ProcessInv' BY <1>0, <1>1, <2>1, <2>5 DEF ProcessInv, TypeOK
  <2> QED BY <2>2, <2>3, <2>4, <2>6 DEF YxInv
<1>3. CASE flag[k] # EMPTY
  <2>1. /\ yx_chgdata' = [yx_chgdata EXCEPT ![k] = yx_data[k]]
        /\ flag' = [flag EXCEPT ![k] = IF inputs # yx_data[k] THEN CHANGED ELSE UNCHGD]
        /\ known' = known
    BY <1>3 DEF Receive, Previous
  <2>2. TypeOK'
    <3>1. temp_data' \in BOOLEAN /\ uart_usedflg' \in [UartPorts -> BOOLEAN]
      BY <1>0, <1>1 DEF TypeOK
    <3>2. flag' \in [Positions -> {EMPTY, CHANGED, UNCHGD}]
      BY <1>0, <2>1 DEF TypeOK
    <3>3. overrun' \subseteq Positions BY <1>0, <1>1 DEF TypeOK
    <3>4. yx_chgdata' \in [Positions -> Inputs] BY <1>0, <2>1 DEF TypeOK
    <3>5. yx_data' \in [Positions -> Inputs] BY <1>0, <1>1 DEF TypeOK
    <3> QED BY <1>0, <1>1, <2>1, <3>1, <3>2, <3>3, <3>4, <3>5 DEF TypeOK
  <2>3. k \notin overrun' =>
            flag[k] = UNCHGD /\ known[k] = yx_data[k] /\ k \notin overrun
    BY <1>0, <1>1, <1>3 DEF Reported, TypeOK
  <2>4. ASSUME NEW l \in Positions, l # k
        PROVE  /\ yx_data'[l] = yx_data[l] /\ yx_chgdata'[l] = yx_chgdata[l]
               /\ flag'[l] = flag[l] /\ (l \in overrun' <=> l \in overrun)
    BY <1>0, <1>1, <2>1, <2>4 DEF TypeOK
  <2>5. /\ yx_data'[k] = inputs /\ yx_chgdata'[k] = yx_data[k]
        /\ flag'[k] = IF inputs # yx_data[k] THEN CHANGED ELSE UNCHGD
    BY <1>0, <1>1, <2>1 DEF TypeOK
  <2>6. Reported' BY <1>0, <2>1, <2>3, <2>4, <2>5 DEF Reported
  <2>7. k \notin overrun' => ~(pc # "visit" /\ i = k)
    BY <1>0, <2>3 DEF ProcessInv
  <2>8. PendingInv'
    <3> SUFFICES ASSUME NEW l \in Positions \ overrun', flag'[l] = CHANGED,
                        NEW p \in Points
                 PROVE  known'[l][p] = IF pc' # "visit" /\ i' = l /\ p < j'
                                       THEN yx_data'[l][p] ELSE yx_chgdata'[l][p]
      BY DEF PendingInv
    <3>1. CASE l = k BY <3>1, <1>1, <2>1, <2>3, <2>5, <2>7
    <3>2. CASE l # k BY <3>2, <1>0, <1>1, <2>1, <2>4 DEF PendingInv
    <3> QED BY <3>1, <3>2
  <2>9. ProcessInv'
    <3>1. CASE pc # "visit" /\ i \notin overrun'
      <4>1. i # k /\ i \in Positions BY <3>1, <2>7, <1>0 DEF TypeOK
      <4> QED BY <3>1, <4>1, <1>0, <1>1, <2>4 DEF ProcessInv
    <3>2. CASE ~(pc # "visit" /\ i \notin overrun')
      BY <3>2, <1>0, <1>1 DEF ProcessInv
    <3> QED BY <3>1, <3>2
  <2> QED BY <2>2, <2>6, <2>8, <2>9 DEF YxInv
<1> QED BY <1>2, <1>3

\* The positions RtdbProcess goes to.
LEMMA Successors ==
    ASSUME NEW k \in Positions
    PROVE  Next1(k) \in Positions /\ NextPort(k) \subseteq Positions
<1>1. 0 \in Positions BY YxAssumption DEF Positions
<1>2. Next1(k) \in Positions BY YxAssumption DEF Positions, Next1
<1>3. NextPort(k) \subseteq Positions BY <1>1 DEF NextPort
<1> QED BY <1>2, <1>3

\* A step of RtdbProcess that leaves the buffers alone keeps their types.
LEMMA StoreTypes ==
    ASSUME TypeOK, UNCHANGED store, i' \in Positions, j' \in 0..POINTS,
           pc' \in {"visit", "compare", "take", "report"},
           flag' \in [Positions -> {EMPTY, CHANGED, UNCHGD}],
           temp_data' \in BOOLEAN, known' \in [Positions -> Inputs]
    PROVE  TypeOK'
BY DEF TypeOK, store

\* RtdbProcess steps through the inputs of a position.
LEMMA ProcessKeeps == ASSUME YxInv, RtdbProcess PROVE YxInv'
<1>0. TypeOK /\ Reported /\ PendingInv /\ ProcessInv BY DEF YxInv
<1>1. CASE SkipPort \/ Skip
  <2>1. /\ UNCHANGED <<store, flag, pc, j, temp_data, known>> /\ pc = "visit"
        /\ i' \in Positions
    BY <1>0, <1>1, Successors DEF SkipPort, Skip, TypeOK
  <2>2. UNCHANGED <<uart_usedflg, yx_data, yx_chgdata, overrun>>
    BY <2>1 DEF store
  <2>3. TypeOK'
    <3>1. temp_data' \in BOOLEAN BY <1>0, <2>1 DEF TypeOK
    <3> QED BY <1>0, <2>1, <3>1, StoreTypes DEF TypeOK
  <2>4. Reported' BY <1>0, <2>1, <2>2 DEF Reported
  <2>5. PendingInv' /\ ProcessInv'
    BY <1>0, <2>1, <2>2 DEF PendingInv, ProcessInv
  <2> QED BY <2>3, <2>4, <2>5 DEF YxInv
<1>2. CASE Enter
  <2>1. /\ UNCHANGED <<store, flag, i, temp_data, known>>
        /\ pc = "visit" /\ pc' = "compare" /\ j' = 0 /\ flag[i] = CHANGED
    BY <1>2 DEF Enter
  <2>2. UNCHANGED <<uart_usedflg, yx_data, yx_chgdata, overrun>>
    BY <2>1 DEF store
  <2>3. TypeOK'
    <3>1. temp_data' \in BOOLEAN BY <1>0, <2>1 DEF TypeOK
    <3>2. j' \in 0..POINTS BY <2>1, YxAssumption
    <3> QED BY <1>0, <2>1, <3>1, <3>2, StoreTypes DEF TypeOK
  <2>4. Reported' BY <1>0, <2>1, <2>2 DEF Reported
  <2>5. PendingInv' BY <1>0, <2>1, <2>2 DEF PendingInv, Points
  <2>6. ProcessInv' BY <1>0, <2>1, <2>2 DEF ProcessInv
  <2> QED BY <2>3, <2>4, <2>5, <2>6 DEF YxInv
<1>3. CASE Compare
  <2>1. /\ UNCHANGED <<store, flag, i, temp_data, known>>
        /\ pc = "compare" /\ j < POINTS
    BY <1>3 DEF Compare
  <2>2. UNCHANGED <<uart_usedflg, yx_data, yx_chgdata, overrun>>
    BY <2>1 DEF store
  <2>3. \/ yx_data[i][j] # yx_chgdata[i][j] /\ pc' = "take" /\ j' = j
        \/ yx_data[i][j] = yx_chgdata[i][j] /\ pc' = "compare" /\ j' = j + 1
    BY <1>3 DEF Compare
  <2>4. TypeOK'
    <3>1. temp_data' \in BOOLEAN BY <1>0, <2>1 DEF TypeOK
    <3>2. j' \in 0..POINTS BY <1>0, <2>1, <2>3, YxAssumption DEF TypeOK
    <3> QED BY <1>0, <2>1, <2>3, <3>1, <3>2, StoreTypes DEF TypeOK
  <2>5. Reported' BY <1>0, <2>1, <2>2 DEF Reported
  <2>6. PendingInv'
    <3> SUFFICES ASSUME NEW l \in Positions \ overrun, flag[l] = CHANGED,
                        NEW p \in Points
                 PROVE  known[l][p] = IF pc' # "visit" /\ i = l /\ p < j'
                                      THEN yx_data[l][p] ELSE yx_chgdata[l][p]
      BY <2>1, <2>2 DEF PendingInv
    <3>1. known[l][p] = IF i = l /\ p < j THEN yx_data[l][p] ELSE yx_chgdata[l][p]
      BY <1>0, <2>1 DEF PendingInv
    <3>2. p \in Nat /\ j \in Nat BY <1>0, YxAssumption DEF TypeOK, Points
    <3>3. CASE p = j BY <3>1, <3>2, <3>3, <2>3
    <3>4. CASE p # j BY <3>1, <3>2, <3>4, <2>3
    <3> QED BY <3>3, <3>4
  <2>7. ProcessInv' BY <1>0, <2>1, <2>2, <2>3 DEF ProcessInv
  <2> QED BY <2>4, <2>5, <2>6, <2>7 DEF YxInv
<1>4. CASE Take
  <2>1. /\ UNCHANGED <<store, flag, i, j, known>>
        /\ pc = "take" /\ pc' = "report" /\ temp_data' = yx_data[i][j]
    BY <1>4 DEF Take
  <2>2. UNCHANGED <<uart_usedflg, yx_data, yx_chgdata, overrun>>
    BY <2>1 DEF store
  <2>3. TypeOK'
    <3>1. j \in Points
      BY <1>0, <2>1, YxAssumption DEF ProcessInv, TypeOK, Points
    <3>2. yx_data[i] \in [Points -> BOOLEAN] BY <1>0 DEF TypeOK, Inputs
    <3>3. temp_data' \in BOOLEAN BY <2>1, <3>1, <3>2
    <3> QED BY <1>0, <2>1, <3>3, StoreTypes DEF TypeOK
  <2>4. Reported' BY <1>0, <2>1, <2>2 DEF Reported
  <2>5. PendingInv' BY <1>0, <2>1, <2>2 DEF PendingInv
  <2>6. ProcessInv' BY <1>0, <2>1, <2>2 DEF ProcessInv
  <2> QED BY <2>3, <2>4, <2>5, <2>6 DEF YxInv
<1>5. CASE Report
  <2>1. /\ UNCHANGED <<store, flag, i, temp_data>>
        /\ pc = "report" /\ pc' = "compare" /\ j' = j + 1 /\ j < POINTS
        /\ known' = [known EXCEPT ![i] = [known[i] EXCEPT ![j] = temp_data]]
    BY <1>0, <1>5 DEF Report, ProcessInv
  <2>2. UNCHANGED <<uart_usedflg, yx_data, yx_chgdata, overrun>>
    BY <2>1 DEF store
  <2>3. /\ i \in Positions /\ j \in Points /\ known[i] \in [Points -> BOOLEAN]
        /\ known'[i] = [known[i] EXCEPT ![j] = temp_data]
        /\ \A l \in Positions : l # i => known'[l] = known[l]
    BY <1>0, <2>1, YxAssumption DEF TypeOK, Points, Inputs
  <2>4. TypeOK'
    <3>1. temp_data \in BOOLEAN BY <1>0 DEF TypeOK
    <3>2. [known[i] EXCEPT ![j] = temp_data] \in Inputs
      BY <2>3, <3>1 DEF Inputs
    <3>3. known' \in [Positions -> Inputs] BY <1>0, <2>1, <3>2 DEF TypeOK
    <3>4. j' \in 0..POINTS BY <1>0, <2>1, YxAssumption DEF TypeOK
    <3>5. temp_data' \in BOOLEAN BY <2>1, <3>1
    <3> QED BY <1>0, <2>1, <3>3, <3>4, <3>5, StoreTypes DEF TypeOK
  <2>5. Reported'
    BY <1>0, <2>1, <2>2, <2>3 DEF Reported, ProcessInv
  <2>6. PendingInv'
    <3> SUFFICES ASSUME NEW l \in Positions \ overrun, flag[l] = CHANGED,
                        NEW p \in Points
                 PROVE  known'[l][p] = IF i = l /\ p < j + 1
                                       THEN yx_data[l][p] ELSE yx_chgdata[l][p]
      BY <2>1, <2>2 DEF PendingInv
    <3>1. known[l][p] = IF i = l /\ p < j THEN yx_data[l][p] ELSE yx_chgdata[l][p]
      BY <1>0, <2>1 DEF PendingInv
    <3>2. p \in Nat /\ j \in Nat BY <2>3, YxAssumption DEF Points
    <3>3. CASE l # i BY <3>1, <3>3, <2>3
    <3>4. CASE l = i /\ p # j BY <3>1, <3>2, <3>4, <2>3
    <3>5. CASE l = i /\ p = j
      <4>1. known'[l][p] = temp_data BY <3>5, <2>3
      <4>2. temp_data = yx_data[l][p]
        BY <3>5, <1>0, <2>1 DEF ProcessInv
      <4> QED BY <3>2, <3>5, <4>1, <4>2
    <3> QED BY <3>3, <3>4, <3>5
  <2>7. ProcessInv' BY <1>0, <2>1, <2>2 DEF ProcessInv
  <2> QED BY <2>4, <2>5, <2>6, <2>7 DEF YxInv
<1>6. CASE Done
  <2>1. /\ UNCHANGED <<store, temp_data, known>>
        /\ pc = "compare" /\ j = POINTS /\ flag' = [flag EXCEPT ![i] = UNCHGD]
        /\ pc' = "visit" /\ i' = Next1(i) /\ j' = 0
    BY <1>6 DEF Done
  <2>2. UNCHANGED <<uart_usedflg, yx_data, yx_chgdata, overrun>>
    BY <2>1 DEF store
  <2>3. i \in Positions BY <1>0 DEF TypeOK
  <2>4. TypeOK'
    <3>1. temp_data' \in BOOLEAN BY <1>0, <2>1 DEF TypeOK
    <3>2. i' \in Positions /\ j' \in 0..POINTS
      BY <2>1, <2>3, Successors, YxAssumption
    <3>3. flag' \in [Positions -> {EMPTY, CHANGED, UNCHGD}]
      BY <1>0, <2>1 DEF TypeOK
    <3> QED BY <1>0, <2>1, <3>1, <3>2, <3>3, StoreTypes DEF TypeOK
  <2>5. Reported'
    <3> SUFFICES ASSUME NEW l \in Positions, l \notin overrun, flag'[l] = UNCHGD
                 PROVE  known[l] = yx_data[l]
      BY <2>1, <2>2 DEF Reported
    <3>1. CASE l # i BY <3>1, <1>0, <2>1 DEF Reported, TypeOK
    <3>2. CASE l = i
      <4>1. flag[l] = CHANGED BY <3>2, <1>0, <2>1 DEF ProcessInv
      <4>2. \A p \in Points : p < POINTS BY YxAssumption DEF Points
      <4>3. \A p \in Points : known[l][p] = yx_data[l][p]
        BY <3>2, <4>1, <4>2, <1>0, <2>1 DEF PendingInv
      <4>4. known[l] \in [Points -> BOOLEAN] /\ yx_data[l] \in [Points -> BOOLEAN]
        BY <1>0 DEF TypeOK, Inputs
      <4> QED BY <4>3, <4>4
    <3> QED BY <3>1, <3>2
  <2>6. PendingInv'
    <3> SUFFICES ASSUME NEW l \in Positions \ overrun, flag'[l] = CHANGED,
                        NEW p \in Points
                 PROVE  known[l][p] = yx_chgdata[l][p]
      BY <2>1, <2>2 DEF PendingInv
    <3>1. l # i /\ flag[l] = CHANGED BY <1>0, <2>1 DEF TypeOK
    <3> QED BY <3>1, <1>0 DEF PendingInv
  <2>7. ProcessInv' BY <2>1 DEF ProcessInv
  <2> QED BY <2>4, <2>5, <2>6, <2>7 DEF YxInv
<1> QED BY <1>1, <1>2, <1>3, <1>4, <1>5, <1>6 DEF RtdbProcess

LEMMA NextInv == YxInv /\ [Next]_vars => YxInv'
<1> SUFFICES ASSUME YxInv, [Next]_vars PROVE YxInv' OBVIOUS
<1>1. CASE RtdbProcess BY <1>1, ProcessKeeps
<1>2. ASSUME NEW k \in Positions, NEW inputs \in Inputs, Receive(k, inputs)
      PROVE  YxInv'
  BY <1>2, ReceiveInv
<1>3. ASSUME NEW port \in UartPorts, Configure(port) PROVE YxInv'
  <2>1. /\ UNCHANGED <<yx_data, yx_chgdata, flag, known, overrun>>
        /\ UNCHANGED <<pc, i, j, temp_data>>
    BY <1>3 DEF Configure, rtdb
  <2>2. uart_usedflg' \in [UartPorts -> BOOLEAN]
    BY <1>3 DEF Configure, YxInv, TypeOK
  <2>3. temp_data' \in BOOLEAN BY <2>1 DEF YxInv, TypeOK
  <2>4. TypeOK' BY <2>1, <2>2, <2>3 DEF YxInv, TypeOK
  <2>5. Reported' /\ PendingInv' /\ ProcessInv'
    BY <2>1 DEF YxInv, Reported, PendingInv, ProcessInv
  <2> QED BY <2>4, <2>5 DEF YxInv
<1>4. CASE UNCHANGED vars
  <2>1. UNCHANGED <<uart_usedflg, yx_data, yx_chgdata, flag, pc, i, j, temp_data,
                    known, overrun>>
    BY <1>4 DEF vars
  <2>2. temp_data' \in BOOLEAN BY <2>1 DEF YxInv, TypeOK
  <2>3. TypeOK' BY <2>1, <2>2 DEF YxInv, TypeOK
  <2>4. Reported' /\ PendingInv' /\ ProcessInv'
    BY <2>1 DEF YxInv, Reported, PendingInv, ProcessInv
  <2> QED BY <2>3, <2>4 DEF YxInv
<1> QED BY <1>1, <1>2, <1>3, <1>4 DEF Next

\* The inductive invariant holds for every number of devices, ports and inputs
\* (Receive_Commdata_Proce against RtdbProcess).
THEOREM YxInvariant == Spec => []YxInv
<1> QED BY InitInv, NextInv, PTL DEF Spec

\* Types of the input buffers and of RtdbProcess.
THEOREM YxTypes == Spec => []TypeOK
<1>1. YxInv => TypeOK BY DEF YxInv
<1> QED BY YxInvariant, <1>1, PTL

\* 0x88 means that the reports say what the device answered last.
THEOREM ChangesReported == Spec => []Reported
<1>1. YxInv => Reported BY DEF YxInv
<1> QED BY YxInvariant, <1>1, PTL

\* No report repeats what was reported before.
THEOREM EveryReportIsNews == Spec => ReportsAreNews
<1>1. YxInv /\ [Next]_vars =>
          [pc = "report" /\ pc' # "report" /\ i \notin overrun =>
               known'[i][j] # known[i][j]]_vars
  <2> SUFFICES ASSUME YxInv, Next, pc = "report", pc' # "report", i \notin overrun
               PROVE  known'[i][j] # known[i][j]
    BY DEF vars
  <2>1. CASE Report
    <3>1. /\ known' = [known EXCEPT ![i] = [known[i] EXCEPT ![j] = temp_data]]
          /\ i \in Positions /\ known[i] \in [Points -> BOOLEAN]
          /\ known \in [Positions -> Inputs]
      BY <2>1 DEF Report, YxInv, TypeOK, Inputs
    <3>2. j \in Points
      BY YxAssumption DEF YxInv, ProcessInv, TypeOK, Points
    <3>3. known'[i][j] = temp_data BY <3>1, <3>2
    <3>4. /\ temp_data = yx_data[i][j] /\ yx_data[i][j] # yx_chgdata[i][j]
          /\ flag[i] = CHANGED
      BY DEF YxInv, ProcessInv
    <3>5. ~(j < j) BY <3>2 DEF Points
    <3>6. known[i][j] = yx_chgdata[i][j]
      BY <3>1, <3>2, <3>4, <3>5 DEF YxInv, PendingInv
    <3> QED BY <3>3, <3>4, <3>6
  <2>2. CASE ~Report
    BY <2>2 DEF Next, RtdbProcess, SkipPort, Skip, Enter, Compare, Take, Done,
                Receive, Configure, rtdb
  <2> QED BY <2>1, <2>2
<1> QED BY YxInvariant, <1>1, PTL DEF Spec, ReportsAreNews
=============================================================================
