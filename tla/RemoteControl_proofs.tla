------------------------ MODULE RemoteControl_proofs ------------------------
(***************************************************************************)
(* As long as no link lost the count of commands, it covers every command   *)
(* that waits and every one on its way; as long as no two calls overlap, a   *)
(* command goes out once, as it was accepted (HandOverInv).  For every       *)
(* number of links, devices and commands.                                    *)
(***************************************************************************)
EXTENDS RemoteControl, FiniteSetTheorems, TLAPS

CountInv == TypeOK /\ CountCovers

LEMMA FiniteSets ==
    /\ IsFiniteSet(Pending) /\ IsFiniteSet(HandingOver)
    /\ Cardinality(Pending) \in Nat /\ Cardinality(HandingOver) \in Nat
<1>1. IsFiniteSet(Pos) BY RemoteAssumption, FS_Interval DEF Pos
<1>2. Pending \subseteq Pos /\ HandingOver \subseteq Links
  BY DEF Pending, HandingOver
<1> QED
  BY <1>1, <1>2, RemoteAssumption, FS_Subset, FS_CardinalityType

\* The count only has to cover what the two sets have become.
LEMMA CoverKept ==
    ASSUME CountInv, raced' \in BOOLEAN, ~raced' => ~raced,
           Pending' = Pending, HandingOver' = HandingOver,
           rtdbflg' = rtdbflg
    PROVE  CountCovers'
BY DEF CountInv, CountCovers

LEMMA InitCount == Init => CountInv
<1> SUFFICES ASSUME Init PROVE CountInv OBVIOUS
<1>1. 0 \in Pos BY RemoteAssumption DEF Pos
<1>2. TypeOK
  <2>1. pc \in [Links -> [at: Ats, cmd: Commands \cup {NONE}, pos: Pos, count: 0..255]]
    BY <1>1 DEF Init, Idle, Ats
  <2>2. reply \in [Commands -> {"none", "yes", "no"}] /\ frames \in [Commands -> 0..2]
    BY DEF Init
  <2>3. /\ devonline \in [Pos -> BOOLEAN] /\ ykflg \in [Pos -> BOOLEAN]
        /\ raced \in BOOLEAN /\ rtdbflg \in 0..255 /\ overlapped \in BOOLEAN
    <3>1. devonline \in [Pos -> BOOLEAN] BY DEF Init
    <3>2. ykflg \in [Pos -> BOOLEAN] BY DEF Init
    <3>3. raced \in BOOLEAN /\ overlapped \in BOOLEAN BY DEF Init
    <3>4. rtdbflg \in 0..255 BY DEF Init
    <3> QED BY <3>1, <3>2, <3>3, <3>4
  <2>4. /\ yk_data_buf \in [Pos -> Commands \cup {NONE}]
        /\ yk_buf \in [Kinds -> Commands \cup {NONE}]
        /\ tx \in Commands \cup {POLL} /\ accepted \subseteq Commands
    BY DEF Init
  <2> QED BY <2>1, <2>2, <2>3, <2>4 DEF TypeOK
<1>3. Pending = {} /\ HandingOver = {}
  BY DEF Init, Pending, HandingOver, Idle
<1>4. CountCovers BY <1>3, FS_EmptySet DEF Init, CountCovers
<1> QED BY <1>2, <1>4 DEF CountInv

\* What a link's own step may change keeps its type.
LEMMA LinkTypes ==
    ASSUME CountInv, NEW l \in Links,
           UNCHANGED <<devonline, tx, frames>>,
           NEW at \in Ats, NEW cmd \in Commands \cup {NONE}, NEW pos \in Pos,
           NEW count \in 0..255,
           pc' = [pc EXCEPT ![l] = [at |-> at, cmd |-> cmd, pos |-> pos, count |-> count]],
           ykflg' \in [Pos -> BOOLEAN], rtdbflg' \in 0..255,
           yk_data_buf' \in [Pos -> Commands \cup {NONE}],
           yk_buf' \in [Kinds -> Commands \cup {NONE}],
           accepted' \subseteq Commands,
           reply' \in [Commands -> {"none", "yes", "no"}],
           raced' \in BOOLEAN, overlapped' \in BOOLEAN
    PROVE  TypeOK'
<1>1. pc' \in [Links -> [at: Ats, cmd: Commands \cup {NONE}, pos: Pos, count: 0..255]]
  BY DEF CountInv, TypeOK
<1> QED BY <1>1 DEF CountInv, TypeOK

\* The transmit buffer after a frame.
LEMMA FrameTypes ==
    ASSUME CountInv, NEW c \in Commands \cup {POLL}, SendFrame(c)
    PROVE  tx' \in Commands \cup {POLL} /\ frames' \in [Commands -> 0..2]
<1>1. CASE c = POLL BY <1>1 DEF SendFrame, CountInv, TypeOK
<1>2. CASE c # POLL
  <2>1. c \in Commands /\ frames[c] \in 0..2 BY <1>2 DEF CountInv, TypeOK
  <2>2. frames' = [frames EXCEPT ![c] = IF frames[c] < 2 THEN frames[c] + 1 ELSE 2]
    BY <1>2 DEF SendFrame
  <2>3. (IF frames[c] < 2 THEN frames[c] + 1 ELSE 2) \in 0..2 BY <2>1
  <2> QED BY <2>1, <2>2, <2>3 DEF SendFrame, CountInv, TypeOK
<1> QED BY <1>1, <1>2

\* Every step keeps the types and the cover.
LEMMA NextCount ==
    CountInv /\ FlagMeansCommand /\ CallInv /\ [Next]_vars => CountInv'
<1> SUFFICES ASSUME CountInv, FlagMeansCommand, CallInv, [Next]_vars
             PROVE CountInv'
  OBVIOUS
<1> USE RemoteAssumption
<1>0. /\ \A l \in Links : pc[l] \in [at: Ats, cmd: Commands \cup {NONE},
                                    pos: Pos, count: 0..255]
      /\ 0 \in Pos
      /\ Idle \in [at: Ats, cmd: Commands \cup {NONE}, pos: Pos, count: 0..255]
  BY DEF CountInv, TypeOK, Idle, Ats, Pos
<1>1. ASSUME NEW l \in Links, NEW c \in Commands, Issue(l, c) PROVE CountInv'
  <2>1. TypeOK'
    <3>1. CASE RealAddr(Addr[c]) = {}
      <4>1. /\ UNCHANGED <<pc, yk_buf, port, accepted, raced>>
            /\ reply' \in [Commands -> {"none", "yes", "no"}]
        BY <1>1, <3>1 DEF Issue, CountInv, TypeOK
      <4>2. overlapped' \in BOOLEAN
        BY <1>1 DEF Issue, CountInv, TypeOK
      <4> QED BY <4>1, <4>2 DEF CountInv, TypeOK, port
    <3>2. CASE RealAddr(Addr[c]) # {}
      <4>1. PICK i \in RealAddr(Addr[c]) :
                /\ yk_buf' = [yk_buf EXCEPT ![Kind[c]] = c]
                /\ pc' = [pc EXCEPT ![l] =
                              [at |-> "test", cmd |-> c, pos |-> i, count |-> 0]]
                /\ UNCHANGED reply
        BY <1>1, <3>2 DEF Issue
      <4>2. i \in Pos BY DEF RealAddr
      <4>3. yk_buf' \in [Kinds -> Commands \cup {NONE}]
        BY <4>1 DEF CountInv, TypeOK
      <4>4. UNCHANGED <<port, accepted, raced>> BY <1>1 DEF Issue
      <4>5. /\ ykflg' \in [Pos -> BOOLEAN] /\ rtdbflg' \in 0..255
            /\ yk_data_buf' \in [Pos -> Commands \cup {NONE}]
            /\ accepted' \subseteq Commands /\ raced' \in BOOLEAN
            /\ reply' \in [Commands -> {"none", "yes", "no"}]
            /\ UNCHANGED <<devonline, tx, frames>>
        BY <4>1, <4>4 DEF port, CountInv, TypeOK
      <4>6. "test" \in Ats /\ 0 \in 0..255 BY DEF Ats
      <4>7. overlapped' \in BOOLEAN
        BY <1>1 DEF Issue, CountInv, TypeOK
      <4> QED BY <4>7, <4>1, <4>2, <4>3, <4>5, <4>6, LinkTypes
    <3> QED BY <3>1, <3>2
  <2>2. HandingOver' = HandingOver /\ Pending' = Pending
    BY <1>1 DEF Issue, HandingOver, Pending, port, Idle, CountInv, TypeOK
  <2>3. UNCHANGED <<rtdbflg, raced>> BY <1>1 DEF Issue, port
  <2> QED BY <2>1, <2>2, <2>3, CoverKept DEF CountInv, TypeOK
<1>2. ASSUME NEW l \in Links, Remote(l) PROVE CountInv'
  <2>0. /\ pc[l] \in [at: Ats, cmd: Commands \cup {NONE}, pos: Pos, count: 0..255]
        /\ pc[l] = [at |-> pc[l].at, cmd |-> pc[l].cmd, pos |-> pc[l].pos,
                    count |-> pc[l].count]
    BY <1>0
  <2>1. ASSUME Refuse(l), UNCHANGED <<port, yk_buf, accepted, raced, overlapped>>
        PROVE  /\ TypeOK' /\ Pending' = Pending
               /\ HandingOver' = HandingOver \ {l}
    <3>1. reply' \in [Commands -> {"none", "yes", "no"}]
      BY <2>1 DEF Refuse, CountInv, TypeOK
    <3>2. TypeOK'
      BY <2>1, <3>1, <1>0, LinkTypes DEF Refuse, Idle, port, CountInv, TypeOK
    <3>3. Pending' = Pending BY <2>1 DEF Pending, port
    <3>4. HandingOver' = HandingOver \ {l}
      BY <2>1 DEF HandingOver, Refuse, Idle, CountInv, TypeOK
    <3> QED BY <3>2, <3>3, <3>4
  <2>2. ASSUME NEW at \in Ats, Goto(l, at),
               UNCHANGED <<devonline, tx, frames, yk_buf, accepted, reply, overlapped>>,
               ykflg' \in [Pos -> BOOLEAN], rtdbflg' \in 0..255,
               yk_data_buf' \in [Pos -> Commands \cup {NONE}], raced' \in BOOLEAN
        PROVE  TypeOK'
    <3>1. pc' = [pc EXCEPT ![l] = [at |-> at, cmd |-> pc[l].cmd,
                                   pos |-> pc[l].pos, count |-> pc[l].count]]
      BY <2>2, <2>0 DEF Goto, CountInv, TypeOK
    <3> QED BY <2>2, <3>1, <2>0, LinkTypes DEF CountInv, TypeOK
  <2>3. CASE Test(l)
    <3>1. CASE Refuse(l)
      <4>1. UNCHANGED <<port, yk_buf, accepted, raced, overlapped>> BY <2>3 DEF Test
      <4>2. l \notin HandingOver BY <2>3 DEF Test, HandingOver
      <4>3. TypeOK' /\ Pending' = Pending /\ HandingOver' = HandingOver
        BY <2>1, <3>1, <4>1, <4>2
      <4>4. UNCHANGED <<rtdbflg, raced>> BY <4>1 DEF port
      <4> QED BY <4>3, <4>4, CoverKept DEF CountInv, TypeOK
    <3>2. CASE ~Refuse(l)
      <4>1. Goto(l, "count") /\ UNCHANGED <<reply, port, yk_buf, accepted, raced, overlapped>>
        BY <2>3, <3>2 DEF Test
      <4>2. TypeOK' BY <2>2, <4>1 DEF port, CountInv, TypeOK, Ats
      <4>3. Pending' = Pending /\ HandingOver' = HandingOver
        BY <2>3, <4>1 DEF Test, Goto, Pending, HandingOver, port, CountInv, TypeOK
      <4> QED BY <4>1, <4>2, <4>3, CoverKept DEF port, CountInv, TypeOK
    <3> QED BY <3>1, <3>2
  <2>4. CASE CountRead(l)
    <3>1. pc' = [pc EXCEPT ![l] = [at |-> "counted", cmd |-> pc[l].cmd,
                                   pos |-> pc[l].pos, count |-> rtdbflg]]
      BY <2>4, <2>0 DEF CountRead, CountInv, TypeOK
    <3>4. UNCHANGED <<port, yk_buf, accepted, reply, raced, overlapped>>
      BY <2>4 DEF CountRead
    <3>5. "counted" \in Ats /\ rtdbflg \in 0..255 BY DEF Ats, CountInv, TypeOK
    <3>6. pc[l].cmd \in Commands \cup {NONE} /\ pc[l].pos \in Pos BY <2>0
    <3>7. /\ ykflg' \in [Pos -> BOOLEAN] /\ rtdbflg' \in 0..255
          /\ yk_data_buf' \in [Pos -> Commands \cup {NONE}]
          /\ yk_buf' \in [Kinds -> Commands \cup {NONE}]
          /\ accepted' \subseteq Commands /\ raced' \in BOOLEAN /\ overlapped' \in BOOLEAN
          /\ reply' \in [Commands -> {"none", "yes", "no"}]
          /\ UNCHANGED <<devonline, tx, frames>>
      BY <3>4 DEF port, CountInv, TypeOK
    <3>2. TypeOK' BY <3>1, <3>5, <3>6, <3>7, LinkTypes
    <3>3. Pending' = Pending /\ HandingOver' = HandingOver
      BY <2>4, <3>1 DEF CountRead, Pending, HandingOver, port, CountInv, TypeOK
    <3> QED BY <2>4, <3>2, <3>3, CoverKept DEF CountRead, port, CountInv, TypeOK
  <2>5. CASE CountWrite(l)
    <3>1. rtdbflg' \in 0..255 /\ raced' \in BOOLEAN
      BY <2>5, <2>0 DEF CountWrite, CountInv, TypeOK
    <3>2. TypeOK'
      BY <2>2, <2>5, <3>1 DEF CountWrite, CountInv, TypeOK, Ats
    <3>3. Pending' = Pending BY <2>5 DEF CountWrite, Pending
    <3>4. l \notin HandingOver /\ HandingOver' = HandingOver \cup {l}
      BY <2>5 DEF CountWrite, Goto, HandingOver, CountInv, TypeOK
    <3>5. Cardinality(HandingOver') = Cardinality(HandingOver) + 1
      BY <3>4, FiniteSets, FS_AddElement
    <3>6. ~raced' => ~raced /\ rtdbflg' = rtdbflg + 1
      BY <2>5, <2>0 DEF CountWrite, CountInv, TypeOK
    <3>7. CountCovers'
      BY <3>3, <3>5, <3>6, FiniteSets DEF CountCovers, CountInv, TypeOK
    <3> QED BY <3>2, <3>7 DEF CountInv
  <2>6. CASE TestOnline(l)
    <3>1. CASE Refuse(l)
      <4>1. UNCHANGED <<port, yk_buf, accepted, raced, overlapped>> BY <2>6 DEF TestOnline
      <4>2. TypeOK' /\ Pending' = Pending /\ HandingOver' = HandingOver \ {l}
        BY <2>1, <3>1, <4>1
      <4>3. l \in HandingOver BY <2>6 DEF TestOnline, HandingOver
      <4>4. Cardinality(HandingOver') = Cardinality(HandingOver) - 1
        BY <4>2, <4>3, FiniteSets, FS_RemoveElement
      <4>5. CountCovers'
        BY <4>1, <4>2, <4>4, FiniteSets DEF CountCovers, CountInv, TypeOK, port
      <4> QED BY <4>2, <4>5 DEF CountInv
    <3>2. CASE ~Refuse(l)
      <4>1. Goto(l, "copy") /\ UNCHANGED <<reply, port, yk_buf, accepted, raced, overlapped>>
        BY <2>6, <3>2 DEF TestOnline
      <4>2. TypeOK' BY <2>2, <4>1 DEF port, CountInv, TypeOK, Ats
      <4>3. Pending' = Pending /\ HandingOver' = HandingOver
        BY <2>6, <4>1 DEF TestOnline, Goto, Pending, HandingOver, port, CountInv, TypeOK
      <4> QED BY <4>1, <4>2, <4>3, CoverKept DEF port, CountInv, TypeOK
    <3> QED BY <3>1, <3>2
  <2>7. CASE Copy(l)
    <3>1. yk_buf[Kind[pc[l].cmd]] \in Commands
      BY <2>7 DEF Copy, CallInv
    <3>2. yk_data_buf' \in [Pos -> Commands \cup {NONE}]
      BY <2>7, <3>1 DEF Copy, CountInv, TypeOK
    <3>3. TypeOK' BY <2>2, <2>7, <3>2 DEF Copy, CountInv, TypeOK, Ats
    <3>4. Pending' = Pending /\ HandingOver' = HandingOver
      BY <2>7 DEF Copy, Goto, Pending, HandingOver, CountInv, TypeOK
    <3> QED BY <2>7, <3>3, <3>4, CoverKept DEF Copy, CountInv, TypeOK
  <2>8. CASE Flag(l)
    <3>1. ykflg' \in [Pos -> BOOLEAN] BY <2>8 DEF Flag, CountInv, TypeOK
    <3>2. reply' \in [Commands -> {"none", "yes", "no"}]
      BY <2>8 DEF Flag, CountInv, TypeOK
    <3>9. accepted' \subseteq Commands
      BY <2>8 DEF Flag, CallInv, CountInv, TypeOK
    <3>3. TypeOK'
      BY <2>8, <3>1, <3>2, <3>9, <1>0, LinkTypes DEF Flag, Idle, CountInv, TypeOK
    <3>4. Pending' = Pending \cup {pc[l].pos}
      BY <2>8, <2>0 DEF Flag, Pending, CountInv, TypeOK
    <3>5. l \in HandingOver /\ HandingOver' = HandingOver \ {l}
      BY <2>8 DEF Flag, HandingOver, Idle, CountInv, TypeOK
    <3>6. Cardinality(HandingOver') = Cardinality(HandingOver) - 1
      BY <3>5, FiniteSets, FS_RemoveElement
    <3>7. /\ Cardinality(Pending') \in Nat
          /\ Cardinality(Pending') <= Cardinality(Pending) + 1
      <4>1. CASE pc[l].pos \in Pending
        <5>1. Pending' = Pending BY <3>4, <4>1
        <5> QED BY <5>1, FiniteSets
      <4>2. CASE pc[l].pos \notin Pending
        <5>1. Cardinality(Pending') = Cardinality(Pending) + 1
          BY <3>4, <4>2, FiniteSets, FS_AddElement
        <5> QED BY <5>1, FiniteSets
      <4> QED BY <4>1, <4>2
    <3>8. CountCovers'
      BY <2>8, <3>6, <3>7, FiniteSets DEF Flag, CountCovers, CountInv, TypeOK
    <3> QED BY <3>3, <3>8 DEF CountInv
  <2> QED BY <1>2, <2>3, <2>4, <2>5, <2>6, <2>7, <2>8 DEF Remote
<1>3. CASE PollCommand
  <2>1. PICK p \in Pending : /\ Transmit(yk_data_buf[p])
                             /\ ykflg' = [ykflg EXCEPT ![p] = FALSE]
    BY <1>3 DEF PollCommand
  <2>2. p \in Pos /\ ykflg' \in [Pos -> BOOLEAN]
    BY <2>1 DEF Pending, CountInv, TypeOK
  <2>3. rtdbflg' = rtdbflg - 1 /\ rtdbflg' \in 0..255
    BY <1>3 DEF PollCommand, CountInv, TypeOK
  <2>4. Pending' = Pending \ {p} /\ HandingOver' = HandingOver
    BY <1>3, <2>1 DEF PollCommand, Pending, HandingOver, CountInv, TypeOK
  <2>5. Cardinality(Pending') = Cardinality(Pending) - 1
    BY <2>1, <2>4, FiniteSets, FS_RemoveElement
  <2>6. CountCovers'
    BY <1>3, <2>3, <2>4, <2>5, FiniteSets
    DEF PollCommand, CountCovers, CountInv, TypeOK
  <2>7. tx' \in Commands \cup {POLL} /\ frames' \in [Commands -> 0..2]
    <3>1. yk_data_buf[p] \in Commands
      BY <2>1, <2>2 DEF FlagMeansCommand, CountInv, TypeOK
    <3>2. CASE Kind[yk_data_buf[p]] = "select"
      BY <2>1, <3>2 DEF Transmit, CountInv, TypeOK
    <3>3. CASE Kind[yk_data_buf[p]] # "select"
      BY <2>1, <3>1, <3>3, FrameTypes DEF Transmit
    <3> QED BY <3>2, <3>3
  <2>8. TypeOK'
    BY <1>3, <2>2, <2>3, <2>7 DEF PollCommand, CountInv, TypeOK
  <2> QED BY <2>6, <2>8 DEF CountInv
<1>4. CASE PollNothing
  <2>1. rtdbflg' = rtdbflg - 1 /\ rtdbflg' \in 0..255
    BY <1>4 DEF PollNothing, CountInv, TypeOK
  <2>2. tx' \in Commands \cup {POLL} /\ frames' \in [Commands -> 0..2]
    <3>1. CASE SendFrame(tx) BY <3>1, FrameTypes DEF CountInv, TypeOK
    <3>2. CASE UNCHANGED <<tx, frames>> BY <3>2 DEF CountInv, TypeOK
    <3> QED BY <1>4, <3>1, <3>2 DEF PollNothing
  <2>3. TypeOK' BY <1>4, <2>1, <2>2 DEF PollNothing, CountInv, TypeOK
  <2>4. CountCovers' BY <1>4 DEF PollNothing, CountCovers
  <2> QED BY <2>3, <2>4 DEF CountInv
<1>5. CASE PollCycle
  <2>1. tx' \in Commands \cup {POLL} /\ frames' \in [Commands -> 0..2]
    BY <1>5, FrameTypes DEF PollCycle
  <2>2. TypeOK' BY <1>5, <2>1 DEF PollCycle, CountInv, TypeOK
  <2>3. Pending' = Pending /\ HandingOver' = HandingOver
    BY <1>5 DEF PollCycle, Pending, HandingOver
  <2> QED BY <1>5, <2>2, <2>3, CoverKept DEF PollCycle, CountInv, TypeOK
<1>6. ASSUME NEW p \in Pos, Turn(p) PROVE CountInv'
  <2>1. devonline' \in [Pos -> BOOLEAN] BY <1>6 DEF Turn, CountInv, TypeOK
  <2>2. TypeOK' BY <1>6, <2>1 DEF Turn, CountInv, TypeOK
  <2>3. Pending' = Pending /\ HandingOver' = HandingOver
    BY <1>6 DEF Turn, Pending, HandingOver
  <2> QED BY <1>6, <2>2, <2>3, CoverKept DEF Turn, CountInv, TypeOK
<1>7. CASE UNCHANGED vars
  <2>1. TypeOK' BY <1>7 DEF vars, CountInv, TypeOK
  <2>2. Pending' = Pending /\ HandingOver' = HandingOver
    BY <1>7 DEF vars, Pending, HandingOver
  <2> QED BY <1>7, <2>1, <2>2, CoverKept DEF vars, CountInv, TypeOK
<1> QED BY <1>1, <1>2, <1>3, <1>4, <1>5, <1>6, <1>7 DEF Next, Poll

LEMMA InitCalls == Init => FlagMeansCommand /\ CallInv
BY DEF Init, FlagMeansCommand, CallInv, Pending, Idle

\* A buffer that has held a command holds one for ever after, so that what a
\* call has found to be there is there when it goes on.
LEMMA NextCalls == RemoteInv /\ [Next]_vars => FlagMeansCommand' /\ CallInv'
<1> SUFFICES ASSUME RemoteInv, [Next]_vars PROVE FlagMeansCommand' /\ CallInv'
  OBVIOUS
<1> USE RemoteAssumption
<1>0. TypeOK /\ FlagMeansCommand /\ CallInv BY DEF RemoteInv
<1>1. ASSUME NEW l \in Links, NEW c \in Commands, Issue(l, c)
      PROVE  FlagMeansCommand' /\ CallInv'
  <2>0. UNCHANGED <<ykflg, yk_data_buf>>
    <3>1. UNCHANGED port BY <1>1 DEF Issue
    <3> QED BY <3>1 DEF port
  <2>1. FlagMeansCommand' BY <1>0, <2>0 DEF FlagMeansCommand, Pending
  <2>2. CASE UNCHANGED <<pc, yk_buf>>
    BY <1>0, <2>0, <2>1, <2>2 DEF CallInv
  <2>3. ASSUME NEW i \in RealAddr(Addr[c]),
               yk_buf' = [yk_buf EXCEPT ![Kind[c]] = c],
               pc' = [pc EXCEPT ![l] =
                          [at |-> "test", cmd |-> c, pos |-> i, count |-> 0]]
        PROVE  CallInv'
    <3>1. \A k \in Kinds : yk_buf[k] \in Commands => yk_buf'[k] \in Commands
      BY <1>0, <2>3 DEF TypeOK
    <3>2. Kind[c] \in Kinds /\ yk_buf'[Kind[c]] = c
      BY <1>0, <2>3 DEF TypeOK
    <3>3. ASSUME NEW k \in Links, pc'[k].at # "idle"
          PROVE  /\ pc'[k].cmd \in Commands /\ yk_buf'[Kind[pc'[k].cmd]] \in Commands
                 /\ pc'[k].at = "flag" => yk_data_buf'[pc'[k].pos] \in Commands
      <4>1. CASE k = l
        <5>1. pc'[k].cmd = c /\ pc'[k].at = "test" BY <1>0, <2>3, <4>1 DEF TypeOK
        <5> QED BY <3>2, <5>1
      <4>2. CASE k # l
        <5>1. pc'[k] = pc[k] BY <1>0, <2>3, <4>2 DEF TypeOK
        <5>2. /\ pc[k].cmd \in Commands /\ yk_buf[Kind[pc[k].cmd]] \in Commands
              /\ pc[k].at = "flag" => yk_data_buf[pc[k].pos] \in Commands
          BY <1>0, <3>3, <5>1 DEF CallInv
        <5> QED BY <2>0, <3>1, <5>1, <5>2
      <4> QED BY <4>1, <4>2
    <3> QED BY <3>3 DEF CallInv
  <2> QED BY <1>1, <2>1, <2>2, <2>3 DEF Issue
<1>2. ASSUME NEW l \in Links, Remote(l) PROVE FlagMeansCommand' /\ CallInv'
  <2>1. CASE Copy(l)
    <3>1. /\ pc[l].cmd \in Commands /\ yk_buf[Kind[pc[l].cmd]] \in Commands
          /\ pc[l].pos \in Pos
      BY <1>0, <2>1 DEF Copy, CallInv, TypeOK
    <3>2. \A p \in Pos : yk_data_buf[p] \in Commands => yk_data_buf'[p] \in Commands
      BY <1>0, <2>1, <3>1 DEF Copy, TypeOK
    <3>3. yk_data_buf'[pc[l].pos] \in Commands
      BY <1>0, <2>1, <3>1 DEF Copy, TypeOK
    <3>4. FlagMeansCommand'
      BY <1>0, <2>1, <3>2 DEF Copy, FlagMeansCommand, Pending, TypeOK
    <3>5. ASSUME NEW k \in Links, pc'[k].at # "idle"
          PROVE  /\ pc'[k].cmd \in Commands /\ yk_buf'[Kind[pc'[k].cmd]] \in Commands
                 /\ pc'[k].at = "flag" => yk_data_buf'[pc'[k].pos] \in Commands
      <4>1. CASE k = l
        <5>1. pc'[k].cmd = pc[l].cmd /\ pc'[k].pos = pc[l].pos
          BY <1>0, <2>1, <4>1 DEF Copy, Goto, TypeOK
        <5> QED BY <2>1, <3>1, <3>3, <5>1 DEF Copy
      <4>2. CASE k # l
        <5>1. pc'[k] = pc[k] /\ pc[k].pos \in Pos
          BY <1>0, <2>1, <4>2 DEF Copy, Goto, TypeOK
        <5> QED BY <1>0, <2>1, <3>2, <3>5, <5>1 DEF Copy, CallInv
      <4> QED BY <4>1, <4>2
    <3> QED BY <3>4, <3>5 DEF CallInv
  <2>2. CASE Flag(l)
    <3>1. FlagMeansCommand'
      BY <1>0, <2>2 DEF Flag, FlagMeansCommand, CallInv, Pending, TypeOK
    <3>2. CallInv' BY <1>0, <2>2 DEF Flag, CallInv, Idle, TypeOK
    <3> QED BY <3>1, <3>2
  <2>3. CASE Test(l) \/ CountRead(l) \/ CountWrite(l) \/ TestOnline(l)
    <3>1. UNCHANGED <<ykflg, yk_data_buf, yk_buf>>
      BY <2>3 DEF Test, CountRead, CountWrite, TestOnline, port
    <3>2. FlagMeansCommand'
      BY <1>0, <3>1 DEF FlagMeansCommand, Pending
    <3>3. ASSUME NEW k \in Links, pc'[k].at # "idle"
          PROVE  /\ pc[k].at # "idle" /\ pc'[k].cmd = pc[k].cmd
                 /\ pc'[k].at = "flag" => pc'[k] = pc[k]
      <4>1. CASE k # l
        <5>1. pc'[k] = pc[k]
          BY <1>0, <2>3, <4>1
          DEF Test, CountRead, CountWrite, TestOnline, Goto, Refuse, TypeOK
        <5> QED BY <3>3, <5>1
      <4>2. CASE k = l
        <5>1. CASE Refuse(l)
          BY <1>0, <3>3, <4>2, <5>1 DEF Refuse, Idle, TypeOK
        <5>2. CASE CountRead(l)
          BY <1>0, <4>2, <5>2 DEF CountRead, TypeOK
        <5>3. CASE /\ pc[l].at # "idle"
                   /\ Goto(l, "count") \/ Goto(l, "online") \/ Goto(l, "copy")
          BY <1>0, <4>2, <5>3 DEF Goto, TypeOK
        <5> QED BY <2>3, <5>1, <5>2, <5>3 DEF Test, CountWrite, TestOnline
      <4> QED BY <4>1, <4>2
    <3>4. CallInv' BY <1>0, <3>1, <3>3 DEF CallInv
    <3> QED BY <3>2, <3>4
  <2> QED BY <1>2, <2>1, <2>2, <2>3 DEF Remote
<1>3. CASE Poll
  <2>1. /\ UNCHANGED <<yk_data_buf, yk_buf, pc>>
        /\ \A p \in Pos : ykflg'[p] => ykflg[p]
    BY <1>0, <1>3 DEF Poll, PollCommand, PollNothing, PollCycle, Pending, TypeOK
  <2> QED BY <1>0, <2>1 DEF FlagMeansCommand, CallInv, Pending
<1>4. ASSUME NEW p \in Pos, Turn(p) PROVE FlagMeansCommand' /\ CallInv'
  BY <1>0, <1>4 DEF Turn, FlagMeansCommand, CallInv, Pending
<1>5. CASE UNCHANGED vars
  BY <1>0, <1>5 DEF vars, FlagMeansCommand, CallInv, Pending
<1> QED BY <1>1, <1>2, <1>3, <1>4, <1>5 DEF Next

\* The types, the buffers and the count in every reachable state.
THEOREM RemoteInvariant == Spec => []RemoteInv
<1>1. Init => RemoteInv BY InitCount, InitCalls DEF RemoteInv, CountInv
<1>2. RemoteInv /\ [Next]_vars => RemoteInv'
  BY NextCount, NextCalls DEF RemoteInv, CountInv
<1> QED BY <1>1, <1>2, PTL DEF Spec

\* As long as no link lost the count, Deal_Comm_Proce comes for every command
\* that waits or is on its way.
THEOREM CountIsEnough == Spec => []CountCovers
<1>1. RemoteInv => CountCovers BY DEF RemoteInv
<1> QED BY <1>1, RemoteInvariant, PTL

\* Deal_Comm_Proce never makes a frame of an empty buffer.
THEOREM FlagsAreCommands == Spec => []FlagMeansCommand
<1>1. RemoteInv => FlagMeansCommand BY DEF RemoteInv
<1> QED BY <1>1, RemoteInvariant, PTL

-----------------------------------------------------------------------------
\* What AloneInCall asks of a link that is in a call.
CallOf(l) ==
    /\ pc[l].at # "idle" /\ pc[l].cmd \notin accepted
    /\ yk_buf[Kind[pc[l].cmd]] = pc[l].cmd
    /\ pc[l].at # "test" => pc[l].pos \notin Pending
    /\ pc[l].at = "flag" => yk_data_buf[pc[l].pos] = pc[l].cmd

LEMMA InitHandOver == Init => HandOverInv
<1> SUFFICES ASSUME Init PROVE HandOverInv OBVIOUS
<1>1. InCall = {} /\ Pending = {} BY DEF Init, InCall, Pending
<1>2. SentWasAccepted BY DEF Init, SentWasAccepted
<1> QED BY <1>1, <1>2 DEF HandOverInv, AloneInCall, FlagsAreNew

\* A link that begins a call begins it with a command not handed over before.
LEMMA IssueHandOver ==
    ASSUME RemoteInv, HandOverInv, NEW l \in Links, NEW c \in Commands, Issue(l, c)
    PROVE  HandOverInv'
<1> SUFFICES ASSUME ~overlapped'
             PROVE  AloneInCall' /\ FlagsAreNew' /\ SentWasAccepted'
  BY DEF HandOverInv
<1>0. /\ pc \in [Links -> [at: Ats, cmd: Commands \cup {NONE}, pos: Pos, count: 0..255]]
      /\ yk_buf \in [Kinds -> Commands \cup {NONE}]
      /\ reply \in [Commands -> {"none", "yes", "no"}]
      /\ Kind[c] \in Kinds /\ accepted \subseteq Commands
  BY RemoteAssumption DEF RemoteInv, TypeOK
<1>1. ~overlapped /\ InCall = {} BY DEF Issue, InCall
<1>2. AloneInCall /\ FlagsAreNew /\ SentWasAccepted BY <1>1 DEF HandOverInv
<1>3. UNCHANGED <<ykflg, yk_data_buf, frames, tx, accepted>>
  <2>1. UNCHANGED port /\ UNCHANGED accepted BY DEF Issue
  <2> QED BY <2>1 DEF port
<1>4. Pending' = Pending BY <1>3 DEF Pending
<1>5. FlagsAreNew' BY <1>2, <1>3, <1>4 DEF FlagsAreNew
<1>6. c \notin accepted BY <1>2 DEF Issue, SentWasAccepted
<1>7. SentWasAccepted'
  <2>1. \A d \in accepted : reply'[d] # "none"
    BY <1>0, <1>2, <1>6 DEF Issue, SentWasAccepted
  <2> QED BY <1>2, <1>3, <2>1 DEF SentWasAccepted
<1>8. AloneInCall'
  <2>1. CASE UNCHANGED <<pc, yk_buf>>
    <3>1. InCall' = {} BY <1>1, <2>1 DEF InCall
    <3> QED BY <3>1 DEF AloneInCall
  <2>2. ASSUME NEW i \in RealAddr(Addr[c]),
               yk_buf' = [yk_buf EXCEPT ![Kind[c]] = c],
               pc' = [pc EXCEPT ![l] =
                          [at |-> "test", cmd |-> c, pos |-> i, count |-> 0]]
        PROVE  AloneInCall'
    <3>1. InCall' \subseteq {l} BY <1>0, <1>1, <2>2 DEF InCall
    <3>2. pc'[l].at = "test" /\ pc'[l].cmd = c BY <1>0, <2>2
    <3>3. yk_buf'[Kind[c]] = c BY <1>0, <2>2
    <3> QED BY <1>3, <1>6, <3>1, <3>2, <3>3 DEF AloneInCall
  <2> QED BY <2>1, <2>2 DEF Issue
<1> QED BY <1>5, <1>7, <1>8

\* A step of the link in a call that leaves the flags and the frames alone.
LEMMA CallKept ==
    ASSUME RemoteInv, HandOverInv, ~overlapped, NEW l \in Links, pc[l].at # "idle",
           UNCHANGED <<ykflg, frames, tx, accepted, overlapped>>,
           \A p \in Pending : yk_data_buf'[p] = yk_data_buf[p],
           \A k \in Links : k # l => pc'[k] = pc[k],
           \A c \in accepted : reply'[c] # "none",
           pc'[l] = Idle \/ CallOf(l)'
    PROVE  HandOverInv'
<1>1. AloneInCall /\ FlagsAreNew /\ SentWasAccepted BY DEF HandOverInv
<1>2. Pending' = Pending BY DEF Pending
<1>3. FlagsAreNew' BY <1>1, <1>2 DEF FlagsAreNew
<1>4. SentWasAccepted' BY <1>1 DEF SentWasAccepted
<1>5. l \in InCall BY DEF InCall, Idle
<1>6. InCall' \subseteq {l} BY <1>1, <1>5 DEF AloneInCall, InCall
<1>7. AloneInCall'
  <2>1. \A k \in InCall' : k = l /\ CallOf(l)' BY <1>6 DEF InCall
  <2> QED BY <2>1 DEF AloneInCall, CallOf
<1> QED BY <1>3, <1>4, <1>7 DEF HandOverInv

\* The steps of a call up to the copy of the command.
LEMMA RemoteHandOver ==
    ASSUME RemoteInv, HandOverInv, NEW l \in Links,
           Test(l) \/ CountRead(l) \/ CountWrite(l) \/ TestOnline(l) \/ Copy(l)
    PROVE  HandOverInv'
<1> SUFFICES ASSUME ~overlapped PROVE HandOverInv'
  BY DEF Test, CountRead, CountWrite, TestOnline, Copy, HandOverInv
<1>0. /\ pc \in [Links -> [at: Ats, cmd: Commands \cup {NONE}, pos: Pos, count: 0..255]]
      /\ yk_data_buf \in [Pos -> Commands \cup {NONE}]
      /\ reply \in [Commands -> {"none", "yes", "no"}]
      /\ accepted \subseteq Commands /\ ykflg \in [Pos -> BOOLEAN]
  BY DEF RemoteInv, TypeOK
<1>1. pc[l].at # "idle"
  BY DEF Test, CountRead, CountWrite, TestOnline, Copy
<1>2. AloneInCall /\ SentWasAccepted BY DEF HandOverInv
<1>3. l \in InCall BY <1>1 DEF InCall, Idle
<1>4. CallOf(l) BY <1>2, <1>3 DEF AloneInCall, CallOf
<1>5. UNCHANGED <<ykflg, frames, tx, accepted, yk_buf, overlapped>>
  BY DEF Test, CountRead, CountWrite, TestOnline, Copy, port
<1>6. \A k \in Links : k # l => pc'[k] = pc[k]
  BY <1>0 DEF Test, CountRead, CountWrite, TestOnline, Copy, Goto, Refuse
<1>7. \A c \in accepted : reply'[c] # "none"
  BY <1>0, <1>2 DEF Test, CountRead, CountWrite, TestOnline, Copy, Refuse, SentWasAccepted
<1>8. \A p \in Pending : yk_data_buf'[p] = yk_data_buf[p]
  <2>1. CASE Copy(l) BY <1>0, <1>4, <2>1 DEF Copy, CallOf, Pending
  <2>2. CASE ~Copy(l)
    BY <2>2 DEF Test, CountRead, CountWrite, TestOnline, port
  <2> QED BY <2>1, <2>2
<1>9. Pending' = Pending BY <1>5 DEF Pending
<1>10. pc'[l] = Idle \/ CallOf(l)'
  <2>1. CASE Refuse(l) BY <1>0, <2>1 DEF Refuse
  <2>2. ASSUME NEW at \in {"count", "counted", "online", "copy"},
               pc'[l].at = at, pc'[l].cmd = pc[l].cmd, pc'[l].pos = pc[l].pos,
               pc[l].pos \notin Pending
        PROVE  CallOf(l)'
    BY <1>4, <1>5, <1>9, <2>2 DEF CallOf
  <2>3. CASE Test(l) /\ ~Refuse(l)
    <3>1. Goto(l, "count") /\ ~ykflg[pc[l].pos] BY <2>3 DEF Test
    <3>2. pc'[l].at = "count" /\ pc'[l].cmd = pc[l].cmd /\ pc'[l].pos = pc[l].pos
      BY <1>0, <3>1 DEF Goto
    <3> QED BY <2>2, <3>1, <3>2 DEF Pending
  <2>4. CASE CountRead(l)
    <3>1. pc'[l].at = "counted" /\ pc'[l].cmd = pc[l].cmd /\ pc'[l].pos = pc[l].pos
      BY <1>0, <2>4 DEF CountRead
    <3> QED BY <1>4, <2>2, <2>4, <3>1 DEF CallOf, CountRead
  <2>5. CASE CountWrite(l)
    <3>1. pc'[l].at = "online" /\ pc'[l].cmd = pc[l].cmd /\ pc'[l].pos = pc[l].pos
      BY <1>0, <2>5 DEF CountWrite, Goto
    <3> QED BY <1>4, <2>2, <2>5, <3>1 DEF CallOf, CountWrite
  <2>6. CASE TestOnline(l) /\ ~Refuse(l)
    <3>1. Goto(l, "copy") BY <2>6 DEF TestOnline
    <3>2. pc'[l].at = "copy" /\ pc'[l].cmd = pc[l].cmd /\ pc'[l].pos = pc[l].pos
      BY <1>0, <3>1 DEF Goto
    <3> QED BY <1>4, <2>2, <2>6, <3>2 DEF CallOf, TestOnline
  <2>7. CASE Copy(l)
    <3>1. pc'[l].at = "flag" /\ pc'[l].cmd = pc[l].cmd /\ pc'[l].pos = pc[l].pos
      BY <1>0, <2>7 DEF Copy, Goto
    <3>2. yk_data_buf'[pc[l].pos] = pc[l].cmd
      BY <1>0, <1>4, <2>7 DEF Copy, CallOf
    <3> QED BY <1>4, <1>5, <1>9, <2>7, <3>1, <3>2 DEF CallOf, Copy
  <2> QED BY <2>1, <2>3, <2>4, <2>5, <2>6, <2>7
<1> QED BY <1>1, <1>5, <1>6, <1>7, <1>8, <1>10, CallKept

\* The flag goes up for a command no other flag stands for.
LEMMA FlagHandOver ==
    ASSUME RemoteInv, HandOverInv, NEW l \in Links, Flag(l)
    PROVE  HandOverInv'
<1> SUFFICES ASSUME ~overlapped
             PROVE  AloneInCall' /\ FlagsAreNew' /\ SentWasAccepted'
  BY DEF Flag, HandOverInv
<1> DEFINE cmd == pc[l].cmd
           pos == pc[l].pos
<1>0. /\ pc \in [Links -> [at: Ats, cmd: Commands \cup {NONE}, pos: Pos, count: 0..255]]
      /\ reply \in [Commands -> {"none", "yes", "no"}]
      /\ accepted \subseteq Commands /\ ykflg \in [Pos -> BOOLEAN]
      /\ frames \in [Commands -> 0..2]
      /\ cmd \in Commands
  BY DEF RemoteInv, TypeOK, Flag, CallInv
<1>1. AloneInCall /\ FlagsAreNew /\ SentWasAccepted BY DEF HandOverInv
<1>2. l \in InCall BY DEF InCall, Idle, Flag
<1>3. cmd \notin accepted /\ yk_data_buf[pos] = cmd
  BY <1>1, <1>2 DEF AloneInCall, Flag
<1>4. Pending' = Pending \cup {pos} BY <1>0 DEF Flag, Pending
<1>5. accepted' = accepted \cup {cmd} /\ UNCHANGED <<yk_data_buf, frames, tx>>
  BY DEF Flag
<1>6. frames[cmd] = 0 BY <1>0, <1>1, <1>3 DEF SentWasAccepted
<1>7. FlagsAreNew' BY <1>1, <1>3, <1>4, <1>5, <1>6 DEF FlagsAreNew
<1>8. SentWasAccepted'
  <2>1. \A c \in accepted \cup {cmd} : reply'[c] # "none"
    BY <1>0, <1>1 DEF Flag, SentWasAccepted
  <2> QED BY <1>1, <1>5, <2>1 DEF SentWasAccepted
<1>9. InCall' = {} BY <1>0, <1>1, <1>2 DEF InCall, AloneInCall, Flag
<1> QED BY <1>7, <1>8, <1>9 DEF AloneInCall

\* The port takes a flag down with the frame it stands for.
LEMMA PollHandOver == ASSUME RemoteInv, HandOverInv, Poll PROVE HandOverInv'
<1> SUFFICES ASSUME ~overlapped
             PROVE  AloneInCall' /\ FlagsAreNew' /\ SentWasAccepted'
  BY DEF Poll, PollCommand, PollNothing, PollCycle, HandOverInv
<1>0. /\ accepted \subseteq Commands /\ ykflg \in [Pos -> BOOLEAN]
      /\ frames \in [Commands -> 0..2] /\ tx \in Commands \cup {POLL}
      /\ POLL \notin Commands
  BY RemoteAssumption DEF RemoteInv, TypeOK
<1>1. AloneInCall /\ FlagsAreNew /\ SentWasAccepted BY DEF HandOverInv
<1>2. UNCHANGED <<yk_data_buf, yk_buf, pc, accepted, reply>> /\ Pending' \subseteq Pending
  BY <1>0 DEF Poll, PollCommand, PollNothing, PollCycle, Pending
<1>3. AloneInCall' BY <1>1, <1>2 DEF AloneInCall, InCall
<1>4. ASSUME NEW c \in Commands \cup {POLL}, SendFrame(c), c # POLL => c \in accepted
      PROVE  /\ SentWasAccepted'
             /\ \A d \in Commands : d # c => frames'[d] = frames[d]
  <2>1. CASE c = POLL BY <1>1, <1>2, <1>4, <2>1 DEF SendFrame, SentWasAccepted
  <2>2. CASE c # POLL
    <3>1. frames' = [frames EXCEPT ![c] = IF frames[c] < 2 THEN frames[c] + 1 ELSE 2]
      BY <1>4, <2>2 DEF SendFrame
    <3>2. frames[c] \in 0..2 BY <1>0, <2>2
    <3>3. frames'[c] > 0 /\ \A d \in Commands : d # c => frames'[d] = frames[d]
      BY <1>0, <2>2, <3>1, <3>2
    <3>4. tx' = c BY <1>4 DEF SendFrame
    <3> QED BY <1>0, <1>1, <1>2, <1>4, <2>2, <3>3, <3>4 DEF SentWasAccepted
  <2> QED BY <2>1, <2>2
<1>5. CASE PollCommand
  <2>1. PICK p \in Pending : /\ Transmit(yk_data_buf[p])
                             /\ ykflg' = [ykflg EXCEPT ![p] = FALSE]
    BY <1>5 DEF PollCommand
  <2>2. Pending' = Pending \ {p} BY <1>0, <2>1 DEF Pending
  <2>3. yk_data_buf[p] \in accepted BY <1>1 DEF FlagsAreNew
  <2>4. /\ SentWasAccepted'
        /\ \A d \in Commands : d # yk_data_buf[p] => frames'[d] = frames[d]
    <3>1. CASE UNCHANGED <<tx, frames>> BY <1>1, <1>2, <3>1 DEF SentWasAccepted
    <3>2. CASE SendFrame(yk_data_buf[p]) BY <1>0, <1>4, <2>3, <3>2
    <3> QED BY <2>1, <3>1, <3>2 DEF Transmit
  <2>5. FlagsAreNew' BY <1>0, <1>1, <1>2, <2>2, <2>4 DEF FlagsAreNew
  <2> QED BY <1>3, <2>4, <2>5
<1>6. CASE PollNothing
  <2>1. Pending' = {} BY <1>2, <1>6 DEF PollNothing
  <2>2. FlagsAreNew' BY <2>1 DEF FlagsAreNew
  <2>3. CASE UNCHANGED <<tx, frames>>
    BY <1>1, <1>2, <1>3, <2>2, <2>3 DEF SentWasAccepted
  <2>4. CASE SendFrame(tx)
    <3>1. tx # POLL => tx \in accepted BY <1>0, <1>1 DEF SentWasAccepted
    <3> QED BY <1>0, <1>3, <1>4, <2>2, <2>4, <3>1
  <2> QED BY <1>6, <2>3, <2>4 DEF PollNothing
<1>7. CASE PollCycle
  <2>1. SendFrame(POLL) /\ Pending' = Pending BY <1>7 DEF PollCycle, Pending
  <2>2. SentWasAccepted' BY <1>4, <2>1
  <2>3. frames' = frames BY <2>1 DEF SendFrame
  <2>4. FlagsAreNew' BY <1>1, <1>2, <2>1, <2>3 DEF FlagsAreNew
  <2> QED BY <1>3, <2>2, <2>4
<1> QED BY <1>5, <1>6, <1>7 DEF Poll

LEMMA NextHandOver == RemoteInv /\ HandOverInv /\ [Next]_vars => HandOverInv'
<1> SUFFICES ASSUME RemoteInv, HandOverInv, [Next]_vars PROVE HandOverInv' OBVIOUS
<1>1. ASSUME UNCHANGED vars \/ \E p \in Pos : Turn(p) PROVE HandOverInv'
  <2>1. UNCHANGED <<ykflg, yk_data_buf, yk_buf, tx, pc, accepted, reply, frames, overlapped>>
    BY <1>1 DEF vars, Turn
  <2>2. AloneInCall' = AloneInCall BY <2>1 DEF AloneInCall, InCall, Pending
  <2>3. FlagsAreNew' = FlagsAreNew BY <2>1 DEF FlagsAreNew, Pending
  <2>4. SentWasAccepted' = SentWasAccepted BY <2>1 DEF SentWasAccepted
  <2> QED BY <2>1, <2>2, <2>3, <2>4 DEF HandOverInv
<1>2. ASSUME NEW l \in Links, Remote(l) PROVE HandOverInv'
  BY <1>2, RemoteHandOver, FlagHandOver DEF Remote
<1> QED BY <1>1, <1>2, IssueHandOver, PollHandOver DEF Next

\* Where calls did not overlap: one call at a time, each flag for a command of
\* its own, handed over completely and not yet sent.
THEOREM HandOverInvariant == Spec => []HandOverInv
<1>1. RemoteInv /\ HandOverInv /\ [Next]_vars => HandOverInv' BY NextHandOver
<1> QED BY <1>1, InitHandOver, RemoteInvariant, PTL DEF Spec

\* As long as no two calls overlapped and no count was lost, OP_RemoteToRtdb and
\* Deal_Comm_Proce put a command on the line once, and only after its flag.
THEOREM CommandsGoOutOnce == Spec => SentOnceAccepted
<1>1. ASSUME RemoteInv, HandOverInv, [Next]_vars, ~overlapped, ~raced',
             NEW c \in Commands, Sends(c)
      PROVE  frames[c] = 0 /\ c \in accepted
  <2>0. frames \in [Commands -> 0..2] BY <1>1 DEF RemoteInv, TypeOK
  <2>1. frames' # frames BY <1>1, <2>0 DEF Sends
  <2>2. PollCommand
    <3>1. ~PollCycle BY <2>1 DEF PollCycle, SendFrame
    <3>2. ~PollNothing BY <1>1 DEF PollNothing
    <3>3. \A l \in Links : ~Remote(l)
      BY <2>1 DEF Remote, Test, CountRead, CountWrite, TestOnline, Copy, Flag, port
    <3>4. \A l \in Links, d \in Commands : ~Issue(l, d) BY <2>1 DEF Issue, port
    <3>5. (\A p \in Pos : ~Turn(p)) /\ ~UNCHANGED vars BY <2>1 DEF Turn, vars
    <3> QED BY <1>1, <3>1, <3>2, <3>3, <3>4, <3>5 DEF Next, Poll
  <2>3. PICK p \in Pending : Transmit(yk_data_buf[p]) BY <2>2 DEF PollCommand
  <2>4. SendFrame(yk_data_buf[p]) BY <2>1, <2>3 DEF Transmit
  <2>5. c = yk_data_buf[p] BY <1>1, <2>0, <2>4 DEF SendFrame, Sends
  <2> QED BY <1>1, <2>5 DEF HandOverInv, FlagsAreNew
<1>2. RemoteInv /\ HandOverInv /\ [Next]_vars =>
          [~overlapped /\ ~raced' =>
               \A c \in Commands : Sends(c) => frames[c] = 0 /\ c \in accepted]_vars
  BY <1>1
<1> QED BY <1>2, RemoteInvariant, HandOverInvariant, PTL DEF Spec, SentOnceAccepted
=============================================================================
