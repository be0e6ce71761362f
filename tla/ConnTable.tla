----------------------------- MODULE ConnTable -----------------------------
(***************************************************************************)
(* The table of 104 connections, ppParams (eth_server103.c): one server     *)
(* task accepts connections, one task serves each of them.  A client that   *)
(* connects again has its old task told to end, through m_device_address,   *)
(* which the task itself also writes; the table is searched by client       *)
(* address when a task ends.                                                *)
(*                                                                         *)
(* The server task runs at a lower priority than its children: a child runs *)
(* from its creation to its first wait before the server goes on, so that   *)
(* creating a task and its setConnState are one step.  A PARAMS is named by *)
(* its address in memory: an address in Tasks that is not live is free      *)
(* memory, and what was last written there stays until it is used again.    *)
(* The server port is the same for all.                                     *)
(***************************************************************************)
EXTENDS Integers, FiniteSets

CONSTANTS
    MAX_CLIENT_NUM,   \* slots of the table (8 in the code)
    Tasks,            \* addresses a PARAMS can have
    Clients,          \* client addresses
    NULL

ASSUME TableAssumption == MAX_CLIENT_NUM \in Nat \ {0} /\ NULL \notin Tasks

Slots == 1..MAX_CLIENT_NUM

VARIABLES
    ppParams,     \* slot -> PARAMS of the task it stands for, or NULL
    live,         \* the tasks that run
    m_clientIP,   \* task -> the client it serves
    unlinked,     \* task -> m_device_address = -1
    pc,           \* task -> where in its loop it is
    server,       \* the server task: where it is and for which client
    overlapped    \* ghost: two tasks have served one client at a time

vars == <<ppParams, live, m_clientIP, unlinked, pc, server, overlapped>>
taskVars == <<live, m_clientIP, unlinked, pc>>

Init ==
    /\ ppParams = [s \in Slots |-> NULL]
    /\ live = {}
    /\ m_clientIP \in [Tasks -> Clients]
    /\ unlinked = [t \in Tasks |-> FALSE]
    /\ pc = [t \in Tasks |-> "check"]
    /\ server \in [pc: {"accept"}, client: Clients]
    /\ overlapped = FALSE

Free(s) == ppParams[s] = NULL
Matches(s, client) == ~Free(s) /\ m_clientIP[ppParams[s]] = client
Serving(client) == {t \in live : m_clientIP[t] = client}

-----------------------------------------------------------------------------
\* tcp104CentralTask from its start to its loop.  OP_EstablishLink may refuse
\* the socket (linked is FALSE); setConnState takes the first free slot, and a
\* task that finds none leaves through exitTask, which clears the first slot of
\* the same client: that of the task being replaced.
Start(t, client, linked) ==
    /\ t \notin live
    /\ m_clientIP' = [m_clientIP EXCEPT ![t] = client]
    /\ pc' = [pc EXCEPT ![t] = "check"]
    /\ unlinked' = [unlinked EXCEPT ![t] = ~linked]
    /\ \/ \E s \in Slots :
              /\ Free(s) /\ \A r \in 1..(s - 1) : ~Free(r)
              /\ ppParams' = [ppParams EXCEPT ![s] = t]
              /\ live' = live \cup {t}
       \/ /\ \A s \in Slots : ~Free(s)
          /\ live' = live
          /\ \/ \E s \in Slots :
                    /\ Matches(s, client)
                    /\ \A r \in 1..(s - 1) : ~Matches(r, client)
                    /\ ppParams' = [ppParams EXCEPT ![s] = NULL]
             \/ /\ \A s \in Slots : ~Matches(s, client)
                /\ ppParams' = ppParams
    /\ overlapped' = (overlapped \/ Serving(client) # {})

\* The server creates the task, or rt_thread_create fails.
Create(client) ==
    \/ \E t \in Tasks, linked \in BOOLEAN : Start(t, client, linked)
    \/ UNCHANGED <<ppParams, taskVars, overlapped>>

\* getConnState finds a slot of the same client: its task is told to end, and
\* the server waits 100 ticks.
Replace(client) ==
    /\ server.pc = "accept"
    /\ \E s \in Slots :
           /\ Matches(s, client)
           /\ \A r \in 1..(s - 1) : ~Matches(r, client)
           /\ unlinked' = [unlinked EXCEPT ![ppParams[s]] = TRUE]
    /\ server' = [pc |-> "wait", client |-> client]
    /\ UNCHANGED <<ppParams, live, m_clientIP, pc, overlapped>>

\* The 100 ticks are over.  A task in its loop checks m_device_address within
\* 11 ticks; one that is sending may take seconds.
WaitEnds ==
    /\ server.pc = "wait"
    /\ \A t \in Serving(server.client) : unlinked[t] => pc[t] = "busy"
    /\ Create(server.client)
    /\ server' = [pc |-> "accept", client |-> server.client]

\* Another client, and there is room.
AcceptNew(client) ==
    /\ server.pc = "accept"
    /\ \A s \in Slots : ~Matches(s, client)
    /\ \E s \in Slots : Free(s)
    /\ Create(client)
    /\ UNCHANGED server

\* Another client, and the table is full: NVIC_SystemReset.
SystemReset(client) ==
    /\ server.pc = "accept"
    /\ \A s \in Slots : ~Free(s) /\ ~Matches(s, client)
    /\ ppParams' = [s \in Slots |-> NULL]
    /\ live' = {}
    /\ overlapped' = FALSE
    /\ UNCHANGED <<m_clientIP, unlinked, pc, server>>

-----------------------------------------------------------------------------
\* Fault: the slot is marked with -1 and not with 0.
LeaveMarking(t) ==
    /\ live' = live \ {t}
    /\ ppParams' = [s \in Slots |-> IF ppParams[s] = t THEN -1 ELSE ppParams[s]]
    /\ UNCHANGED <<m_clientIP, unlinked, pc, server, overlapped>>
\* Fault: the slots of the client stay as they are.
LeaveKeepingSlot(t) ==
    /\ live' = live \ {t}
    /\ ppParams' = ppParams
    /\ UNCHANGED <<m_clientIP, unlinked, pc, server, overlapped>>
\* exitTask: resetTask clears the first slot of this client, clearTask frees.
\* (An empty slot before it is read through a null pointer; what lies at the
\* bottom of the memory is no client's address.)
Leave(t) ==
    /\ live' = live \ {t}
    /\ \/ \E s \in Slots :
              /\ Matches(s, m_clientIP[t])
              /\ \A r \in 1..(s - 1) : ~Matches(r, m_clientIP[t])
              /\ ppParams' = [ppParams EXCEPT ![s] = NULL]
       \/ /\ \A s \in Slots : ~Matches(s, m_clientIP[t])
          /\ ppParams' = ppParams
    /\ UNCHANGED <<m_clientIP, unlinked, pc, server, overlapped>>

\* The top of the loop.
Check(t) ==
    /\ t \in live /\ pc[t] = "check"
    /\ \/ unlinked[t] /\ Leave(t)
       \/ /\ ~unlinked[t]
          /\ pc' = [pc EXCEPT ![t] = "select"]
          /\ UNCHANGED <<ppParams, live, m_clientIP, unlinked, server, overlapped>>

\* selectRead: an I frame has arrived.  centralProcess stores the station
\* address it carries in m_device_address, then answers.
RecvI(t) ==
    /\ t \in live /\ pc[t] = "select"
    /\ unlinked' = [unlinked EXCEPT ![t] = FALSE]
    /\ pc' = [pc EXCEPT ![t] = "busy"]
    /\ UNCHANGED <<ppParams, live, m_clientIP, server, overlapped>>

\* Anything else to answer or to send by itself.
Work(t) ==
    /\ t \in live /\ pc[t] = "select"
    /\ pc' = [pc EXCEPT ![t] = "busy"]
    /\ UNCHANGED <<ppParams, live, m_clientIP, unlinked, server, overlapped>>

\* The pass ends.
Pass(t) ==
    /\ t \in live /\ pc[t] \in {"select", "busy"}
    /\ pc' = [pc EXCEPT ![t] = "check"]
    /\ UNCHANGED <<ppParams, live, m_clientIP, unlinked, server, overlapped>>

\* A receive or a send has failed, or no data came for too long.
Fail(t) ==
    /\ t \in live /\ pc[t] \in {"select", "busy"}
    /\ Leave(t)

Server == WaitEnds
          \/ \E c \in Clients : Replace(c) \/ AcceptNew(c) \/ SystemReset(c)
Task(t) == Check(t) \/ RecvI(t) \/ Work(t) \/ Pass(t) \/ Fail(t)
Next == Server \/ \E t \in Tasks : Task(t)

\* A task keeps looping; clients connect and send when they like.
Fairness == \A t \in Tasks : WF_vars(Check(t) \/ Pass(t))

Spec == Init /\ [][Next]_vars /\ Fairness

-----------------------------------------------------------------------------
\* Types of the table, the tasks and the server.
TypeOK ==
    /\ ppParams \in [Slots -> Tasks \cup {NULL}]
    /\ live \subseteq Tasks
    /\ m_clientIP \in [Tasks -> Clients]
    /\ unlinked \in [Tasks -> BOOLEAN]
    /\ pc \in [Tasks -> {"check", "select", "busy"}]
    /\ server \in [pc: {"accept", "wait"}, client: Clients]
    /\ overlapped \in BOOLEAN

\* As long as no client was served by two tasks at a time, the table is exact:
\* every slot in use names a running task, every running task has exactly one
\* slot, and no two tasks serve one client.
TableExact ==
    ~overlapped =>
        /\ \A s \in Slots : ~Free(s) => ppParams[s] \in live
        /\ \A t \in live : \E s \in Slots :
               ppParams[s] = t /\ \A r \in Slots : ppParams[r] = t => r = s
        /\ \A t, u \in live : m_clientIP[t] = m_clientIP[u] => t = u

\* While the server waits for a task to end there is room for its successor:
\* the old task still holds its slot, or has left one free.
RoomForSuccessor ==
    ~overlapped /\ server.pc = "wait" =>
        \/ \E s \in Slots : Free(s)
        \/ Serving(server.client) # {}

\* The inductive invariant behind the table's properties.
TableInv == TypeOK /\ TableExact /\ RoomForSuccessor

\* Only the reset of the device empties several slots at once.
Resets == MAX_CLIENT_NUM > 1 /\ \A s \in Slots : ~Free(s) /\ ppParams'[s] = NULL

\* The device resets for want of a slot only when as many clients as there are
\* slots are being served (eth_server103.c:4183).
ResetOnlyWhenFull ==
    [][Resets /\ ~overlapped => Cardinality(live) = MAX_CLIENT_NUM]_vars

\* A client that connects again is served by a new task, not turned away for
\* want of a slot.
SuccessorStarts ==
    [][WaitEnds /\ ~overlapped /\ ~overlapped' =>
           \/ UNCHANGED <<ppParams, live>>
           \/ \E t \in live' : t \notin live /\ m_clientIP'[t] = server.client]_vars

\* eth_server103.c:3165, the task of a client that connects again is deleted.
OldTaskDeleted ==
    \A t \in Tasks :
        (t \in live /\ unlinked[t]) ~> t \notin live
=============================================================================
