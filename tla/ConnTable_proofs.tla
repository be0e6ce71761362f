-------------------------- MODULE ConnTable_proofs --------------------------
(***************************************************************************)
(* The table of connections is exact as long as no client is served by two   *)
(* tasks at a time; then the device restarts only on a full table, and a      *)
(* client that connects again is served.  For every number of slots, tasks    *)
(* and clients.                                                              *)
(***************************************************************************)
EXTENDS ConnTable, TLAPS, FiniteSetTheorems

\* A task that leaves takes its own slot with it.
LEMMA LeaveKeepsInv ==
    ASSUME TableInv, NEW t \in live, Leave(t)
    PROVE  TableInv'
<1> USE TableAssumption
<1>1. TypeOK'
  <2>1. live' \subseteq Tasks BY DEF TableInv, TypeOK, Leave
  <2>2. ppParams' \in [Slots -> Tasks \cup {NULL}]
    BY DEF TableInv, TypeOK, Leave
  <2> QED BY <2>1, <2>2 DEF TableInv, TypeOK, Leave
<1>2. ASSUME ~overlapped
      PROVE  \E s \in Slots : /\ ppParams[s] = t
                              /\ \A r \in Slots : ppParams[r] = t => r = s
                              /\ ppParams' = [ppParams EXCEPT ![s] = NULL]
  <2>1. PICK own \in Slots :
            ppParams[own] = t /\ \A r \in Slots : ppParams[r] = t => r = own
    BY <1>2 DEF TableInv, TableExact
  <2>2. Matches(own, m_clientIP[t])
    BY <2>1 DEF Matches, Free, TableInv, TypeOK
  <2>3. PICK s \in Slots : /\ Matches(s, m_clientIP[t])
                           /\ ppParams' = [ppParams EXCEPT ![s] = NULL]
    BY <2>2 DEF Leave
  <2>4. ppParams[s] \in live /\ m_clientIP[ppParams[s]] = m_clientIP[t]
    BY <1>2, <2>3 DEF TableInv, TableExact, Matches
  <2>5. ppParams[s] = t
    BY <1>2, <2>4 DEF TableInv, TableExact
  <2> QED BY <2>1, <2>3, <2>5
<1>3. TableExact'
  <2> SUFFICES ASSUME ~overlapped PROVE TableExact'
    BY DEF TableExact, Leave
  <2>1. PICK s \in Slots : /\ ppParams[s] = t
                           /\ \A r \in Slots : ppParams[r] = t => r = s
                           /\ ppParams' = [ppParams EXCEPT ![s] = NULL]
    BY <1>2
  <2>2. live' = live \ {t} /\ m_clientIP' = m_clientIP BY DEF Leave
  <2>3. \A r \in Slots : ppParams'[r] = IF r = s THEN NULL ELSE ppParams[r]
    BY <2>1 DEF TableInv, TypeOK
  <2>4. ASSUME NEW r \in Slots, ~Free(r)' PROVE ppParams'[r] \in live'
    BY <2>1, <2>2, <2>3, <2>4 DEF Free, TableInv, TableExact
  <2>5. ASSUME NEW u \in live'
        PROVE  \E r \in Slots :
                   ppParams'[r] = u /\ \A q \in Slots : ppParams'[q] = u => q = r
    <3>1. u \in live /\ u # t BY <2>2
    <3>2. PICK r \in Slots :
              ppParams[r] = u /\ \A q \in Slots : ppParams[q] = u => q = r
      BY <3>1 DEF TableInv, TableExact
    <3>3. u # NULL BY <3>1 DEF TableInv, TypeOK
    <3> QED BY <2>1, <2>3, <3>1, <3>2, <3>3
  <2>6. \A u, v \in live' : m_clientIP'[u] = m_clientIP'[v] => u = v
    BY <2>2 DEF TableInv, TableExact
  <2> QED BY <2>4, <2>5, <2>6 DEF TableExact
<1>4. RoomForSuccessor'
  <2> SUFFICES ASSUME ~overlapped PROVE \E s \in Slots : Free(s)'
    BY DEF RoomForSuccessor, Leave
  <2> QED BY <1>2 DEF Free, TableInv, TypeOK
<1> QED BY <1>1, <1>3, <1>4 DEF TableInv

\* A new task takes a free slot; without one there was an overlap.
LEMMA StartKeepsInv ==
    ASSUME TableInv, NEW t \in Tasks, NEW client \in Clients,
           NEW linked \in BOOLEAN, Start(t, client, linked),
           server' \in [pc: {"accept"}, client: Clients],
           ~overlapped => \/ \E s \in Slots : Free(s)
                          \/ Serving(client) # {}
    PROVE  TableInv'
<1> USE TableAssumption
<1>1. TypeOK'
  <2>1. ppParams' \in [Slots -> Tasks \cup {NULL}]
    BY DEF TableInv, TypeOK, Start
  <2>2. live' \subseteq Tasks BY DEF TableInv, TypeOK, Start
  <2>3. /\ m_clientIP' \in [Tasks -> Clients]
        /\ unlinked' \in [Tasks -> BOOLEAN]
        /\ pc' \in [Tasks -> {"check", "select", "busy"}]
    BY DEF TableInv, TypeOK, Start
  <2>4. overlapped' \in BOOLEAN BY DEF TableInv, TypeOK, Start
  <2>5. server' \in [pc: {"accept", "wait"}, client: Clients]
    OBVIOUS
  <2> QED BY <2>1, <2>2, <2>3, <2>4, <2>5 DEF TypeOK
<1>2. TableExact'
  <2> SUFFICES ASSUME ~overlapped, Serving(client) = {} PROVE TableExact'
    BY DEF TableExact, Start
  <2>1. PICK s \in Slots : /\ Free(s)
                           /\ ppParams' = [ppParams EXCEPT ![s] = t]
                           /\ live' = live \cup {t}
    BY DEF Start
  <2>2. t \notin live /\ m_clientIP' = [m_clientIP EXCEPT ![t] = client]
    BY DEF Start
  <2>3. \A r \in Slots : ppParams'[r] = IF r = s THEN t ELSE ppParams[r]
    BY <2>1 DEF TableInv, TypeOK
  <2>4. \A r \in Slots : ppParams[r] # t
    <3>1. \A r \in Slots : ~Free(r) => ppParams[r] \in live
      BY DEF TableInv, TableExact
    <3> QED BY <2>2, <3>1 DEF Free
  <2>5. ASSUME NEW r \in Slots, ~Free(r)' PROVE ppParams'[r] \in live'
    BY <2>1, <2>3, <2>5 DEF Free, TableInv, TableExact
  <2>6. ASSUME NEW u \in live'
        PROVE  \E r \in Slots :
                   ppParams'[r] = u /\ \A q \in Slots : ppParams'[q] = u => q = r
    <3>1. CASE u = t BY <2>3, <2>4, <3>1
    <3>2. CASE u # t
      <4>1. u \in live BY <2>1, <3>2
      <4>2. PICK r \in Slots :
                ppParams[r] = u /\ \A q \in Slots : ppParams[q] = u => q = r
        BY <4>1 DEF TableInv, TableExact
      <4>3. r # s BY <4>1, <4>2, <2>1 DEF Free, TableInv, TypeOK
      <4> QED BY <2>3, <3>2, <4>2, <4>3
    <3> QED BY <3>1, <3>2
  <2>7. \A u \in live : m_clientIP'[u] = m_clientIP[u] /\ m_clientIP[u] # client
    BY <2>2 DEF Serving, TableInv, TypeOK
  <2>8. m_clientIP'[t] = client BY <2>2 DEF TableInv, TypeOK
  <2>9. \A u, v \in live' : m_clientIP'[u] = m_clientIP'[v] => u = v
    BY <2>1, <2>7, <2>8 DEF TableInv, TableExact
  <2> QED BY <2>5, <2>6, <2>9 DEF TableExact
<1>3. RoomForSuccessor' BY DEF RoomForSuccessor
<1> QED BY <1>1, <1>2, <1>3 DEF TableInv

\* The step of a task that only moves in its loop.
LEMMA LoopKeepsInv ==
    ASSUME TableInv,
           UNCHANGED <<ppParams, live, m_clientIP, overlapped>>,
           unlinked' \in [Tasks -> BOOLEAN],
           pc' \in [Tasks -> {"check", "select", "busy"}],
           server' \in [pc: {"accept", "wait"}, client: Clients],
           server'.pc = "wait" => \/ server' = server
                                  \/ overlapped
                                  \/ Serving(server'.client) # {}
    PROVE  TableInv'
<1>1. TypeOK' BY DEF TableInv, TypeOK
<1>2. TableExact' BY DEF TableInv, TableExact, Free
<1>3. RoomForSuccessor'
  BY DEF TableInv, RoomForSuccessor, Serving, Free
<1> QED BY <1>1, <1>2, <1>3 DEF TableInv

LEMMA InitInv == Init => TableInv
<1> SUFFICES ASSUME Init PROVE TableInv OBVIOUS
<1>1. TypeOK BY DEF Init, TypeOK
<1>2. TableExact BY DEF Init, TableExact, Free
<1>3. RoomForSuccessor BY DEF Init, RoomForSuccessor
<1> QED BY <1>1, <1>2, <1>3 DEF TableInv

LEMMA NextInv == TableInv /\ [Next]_vars => TableInv'
<1> USE TableAssumption
<1> SUFFICES ASSUME TableInv, [Next]_vars PROVE TableInv' OBVIOUS
<1>1. ASSUME NEW t \in Tasks, Check(t) PROVE TableInv'
  <2>1. CASE Leave(t) BY <1>1, <2>1, LeaveKeepsInv DEF Check
  <2>2. CASE ~Leave(t)
    BY <1>1, <2>2, LoopKeepsInv DEF Check, TableInv, TypeOK
  <2> QED BY <2>1, <2>2
<1>2. ASSUME NEW t \in Tasks, RecvI(t) PROVE TableInv'
  BY <1>2, LoopKeepsInv DEF RecvI, TableInv, TypeOK
<1>3. ASSUME NEW t \in Tasks, Work(t) PROVE TableInv'
  BY <1>3, LoopKeepsInv DEF Work, TableInv, TypeOK
<1>4. ASSUME NEW t \in Tasks, Pass(t) PROVE TableInv'
  BY <1>4, LoopKeepsInv DEF Pass, TableInv, TypeOK
<1>5. ASSUME NEW t \in Tasks, Fail(t) PROVE TableInv'
  BY <1>5, LeaveKeepsInv DEF Fail
<1>6. CASE WaitEnds
  <2>1. server.client \in Clients /\ server.pc = "wait" /\ server'.pc = "accept"
        /\ server' \in [pc: {"accept"}, client: Clients]
    BY <1>6 DEF WaitEnds, TableInv, TypeOK
  <2>2. CASE \E t \in Tasks, linked \in BOOLEAN : Start(t, server.client, linked)
    <3>1. PICK t \in Tasks, linked \in BOOLEAN : Start(t, server.client, linked)
      BY <2>2
    <3>2. ~overlapped => \/ \E s \in Slots : Free(s)
                         \/ Serving(server.client) # {}
      BY <2>1 DEF TableInv, RoomForSuccessor
    <3> QED BY <2>1, <3>1, <3>2, StartKeepsInv
  <2>3. CASE UNCHANGED <<ppParams, taskVars, overlapped>>
    BY <2>1, <2>3, LoopKeepsInv DEF taskVars, TableInv, TypeOK
  <2> QED BY <1>6, <2>2, <2>3 DEF WaitEnds, Create
<1>7. ASSUME NEW c \in Clients, Replace(c) PROVE TableInv'
  <2>1. PICK s \in Slots : Matches(s, c)
                           /\ unlinked' = [unlinked EXCEPT ![ppParams[s]] = TRUE]
    BY <1>7 DEF Replace
  <2>2. ~overlapped => Serving(c) # {}
    BY <2>1 DEF Matches, Serving, TableInv, TableExact
  <2>3. server' = [pc |-> "wait", client |-> c] BY <1>7 DEF Replace
  <2>4. unlinked' \in [Tasks -> BOOLEAN] BY <2>1 DEF TableInv, TypeOK
  <2>5. UNCHANGED <<ppParams, live, m_clientIP, pc, overlapped>>
    BY <1>7 DEF Replace
  <2> QED BY <2>2, <2>3, <2>4, <2>5, LoopKeepsInv DEF TableInv, TypeOK
<1>8. ASSUME NEW c \in Clients, AcceptNew(c) PROVE TableInv'
  <2>1. server' \in [pc: {"accept"}, client: Clients]
    BY <1>8 DEF AcceptNew, TableInv, TypeOK
  <2>2. CASE \E t \in Tasks, linked \in BOOLEAN : Start(t, c, linked)
    <3>1. PICK t \in Tasks, linked \in BOOLEAN : Start(t, c, linked) BY <2>2
    <3>2. \E s \in Slots : Free(s) BY <1>8 DEF AcceptNew
    <3> QED BY <2>1, <3>1, <3>2, StartKeepsInv
  <2>3. CASE UNCHANGED <<ppParams, taskVars, overlapped>>
    BY <1>8, <2>1, <2>3, LoopKeepsInv DEF AcceptNew, taskVars, TableInv, TypeOK
  <2> QED BY <1>8, <2>2, <2>3 DEF AcceptNew, Create
<1>9. ASSUME NEW c \in Clients, SystemReset(c) PROVE TableInv'
  <2>1. TypeOK' BY <1>9 DEF SystemReset, TableInv, TypeOK
  <2>2. TableExact' BY <1>9 DEF SystemReset, TableExact, Free
  <2>3. RoomForSuccessor' BY <1>9 DEF SystemReset, RoomForSuccessor
  <2> QED BY <2>1, <2>2, <2>3 DEF TableInv
<1>10. CASE UNCHANGED vars
  BY <1>10, LoopKeepsInv DEF vars, TableInv, TypeOK
<1> QED
  BY <1>1, <1>2, <1>3, <1>4, <1>5, <1>6, <1>7, <1>8, <1>9, <1>10
  DEF Next, Server, Task

\* In every reachable state the invariant of the table holds: slots, tasks and
\* the room kept for a successor agree.
THEOREM TableInvariant == Spec => []TableInv
BY InitInv, NextInv, PTL DEF Spec

\* The types of the table, the tasks and the server.
THEOREM TableTypes == Spec => []TypeOK
<1>1. TableInv => TypeOK BY DEF TableInv
<1> QED BY <1>1, TableInvariant, PTL

\* As long as no client was served by two tasks at a time, slots and running
\* tasks correspond one to one, and clients to tasks.
THEOREM TableIsExact == Spec => []TableExact
<1>1. TableInv => TableExact BY DEF TableInv
<1> QED BY <1>1, TableInvariant, PTL

\* When every slot is in use the table is a bijection from slots to tasks.
LEMMA FullTable ==
    ASSUME TableInv, ~overlapped, \A s \in Slots : ~Free(s)
    PROVE  Cardinality(live) = MAX_CLIENT_NUM
<1>1. ppParams \in [Slots -> live]
  <2>1. \A s \in Slots : ppParams[s] \in live
    BY DEF TableInv, TableExact
  <2> QED BY <2>1 DEF TableInv, TypeOK
<1>2. \A r, s \in Slots : ppParams[r] = ppParams[s] => r = s
  <2> SUFFICES ASSUME NEW r \in Slots, NEW s \in Slots, ppParams[r] = ppParams[s]
               PROVE  r = s
    OBVIOUS
  <2>1. ppParams[r] \in live BY <1>1
  <2>2. PICK q \in Slots : \A p \in Slots : ppParams[p] = ppParams[r] => p = q
    BY <2>1 DEF TableInv, TableExact
  <2>3. r = q /\ s = q BY <2>2
  <2> QED BY <2>3
<1>3. \A t \in live : \E s \in Slots : ppParams[s] = t
  BY DEF TableInv, TableExact
<1>4. ExistsBijection(Slots, live)
  <2>1. ppParams \in Injection(Slots, live)
    BY <1>1, <1>2 DEF Injection, IsInjective
  <2>2. ppParams \in Surjection(Slots, live)
    BY <1>1, <1>3 DEF Surjection
  <2> QED BY <2>1, <2>2 DEF Bijection, ExistsBijection
<1>5. IsFiniteSet(Slots) /\ Cardinality(Slots) = MAX_CLIENT_NUM
  <2>1. /\ IsFiniteSet(1..MAX_CLIENT_NUM)
        /\ Cardinality(1..MAX_CLIENT_NUM) =
               IF 1 > MAX_CLIENT_NUM THEN 0 ELSE MAX_CLIENT_NUM - 1 + 1
    BY TableAssumption, FS_Interval
  <2> QED BY <2>1, TableAssumption DEF Slots
<1> QED BY <1>4, <1>5, FS_Bijection

\* The device resets for want of a slot only when as many clients are served as
\* there are slots (TCP104CommuTsk).
THEOREM ResetsOnlyWhenFull == Spec => ResetOnlyWhenFull
<1>1. TableInv => [Resets /\ ~overlapped => Cardinality(live) = MAX_CLIENT_NUM]_vars
  BY FullTable DEF Resets
<1> QED BY <1>1, TableInvariant, PTL DEF ResetOnlyWhenFull

\* The server that has waited for the old task to end finds room for the new one.
LEMMA WaitEndsWithRoom ==
    ASSUME TableInv, WaitEnds, ~overlapped, ~overlapped',
           NEW t \in Tasks, NEW linked \in BOOLEAN,
           Start(t, server.client, linked)
    PROVE  t \in live' /\ t \notin live /\ m_clientIP'[t] = server.client
<1>1. Serving(server.client) = {} BY DEF Start
<1>2. \E s \in Slots : Free(s)
  BY <1>1 DEF TableInv, RoomForSuccessor, WaitEnds
<1>3. live' = live \cup {t} /\ t \notin live
  BY <1>2 DEF Start
<1>4. m_clientIP' = [m_clientIP EXCEPT ![t] = server.client]
  BY DEF Start
<1> QED BY <1>3, <1>4 DEF TableInv, TypeOK

\* A client that connects again is served by a new task, not turned away for
\* want of a slot, unless the memory for the task is missing.
THEOREM SuccessorAlwaysStarts == Spec => SuccessorStarts
<1>1. ASSUME TableInv, WaitEnds, ~overlapped, ~overlapped'
      PROVE  \/ UNCHANGED <<ppParams, live>>
             \/ \E t \in live' : t \notin live /\ m_clientIP'[t] = server.client
  <2>1. CASE UNCHANGED <<ppParams, taskVars, overlapped>>
    BY <2>1 DEF taskVars
  <2>2. CASE \E t \in Tasks, linked \in BOOLEAN : Start(t, server.client, linked)
    BY <1>1, <2>2, WaitEndsWithRoom
  <2> QED BY <1>1, <2>1, <2>2 DEF WaitEnds, Create
<1>2. TableInv =>
          [WaitEnds /\ ~overlapped /\ ~overlapped' =>
               \/ UNCHANGED <<ppParams, live>>
               \/ \E t \in live' : t \notin live /\ m_clientIP'[t] = server.client]_vars
  BY <1>1
<1> QED BY <1>2, TableInvariant, PTL DEF SuccessorStarts
=============================================================================
