------------------------- MODULE ConfigStore_proofs -------------------------
(***************************************************************************)
(* The memory never holds a blank address for a configured one, no port has *)
(* the halves of two files, and a restart changes nothing, for every number *)
(* of ports, files and faults.                                               *)
(***************************************************************************)
EXTENDS ConfigStore, TLAPS

Others == NeverBlank /\ WholeAreas /\ Transfer /\ AddressFirst /\ HalfWritten /\ Copied

LEMMA Numbers ==
    /\ 0 \in Files /\ Blank \in Area
    /\ Ports \subseteq Areas /\ ETH \in Areas /\ ALL_OFF \notin Areas
    /\ IDLE \in IDLE..DONE /\ 0 \in Areas /\ 0 \in IDLE..DONE /\ DONE \in IDLE..DONE
    /\ \A x \in Areas : x + 1 \in IDLE..DONE /\ x \in Nat
    /\ FLAG = ETH + 1 /\ DONE = ETH + 2 /\ ETH \in Nat
BY ConfigAssumption
   DEF Files, Blank, Area, Ports, Areas, ETH, ALL_OFF, IDLE, DONE, FLAG

LEMMA AreaIsRecord ==
    ASSUME NEW a \in Area
    PROVE  /\ a = [on |-> a.on, head |-> a.head, tail |-> a.tail]
           /\ a.on \in BOOLEAN /\ a.head \in Files /\ a.tail \in Files
BY DEF Area

LEMMA OneMoreFault ==
    ASSUME faults \in 0..MAX_FAULTS, faults < MAX_FAULTS
    PROVE  faults + 1 \in 0..MAX_FAULTS
BY ConfigAssumption

LEMMA InitConfig == Init => ConfigInv
<1> SUFFICES ASSUME Init PROVE ConfigInv OBVIOUS
<1>1. TypeOK
  <2>1. 0 \in 0..MAX_FAULTS /\ 0 \in Nat BY ConfigAssumption
  <2>2. [x \in Areas |-> Blank] \in [Areas -> Area] BY Numbers
  <2>3. {} \subseteq [file: 1..MAX_FILES, block: {ALL_OFF} \cup Areas] OBVIOUS
  <2> QED BY <2>1, <2>2, <2>3, Numbers DEF Init, TypeOK
<1>2. NeverBlank /\ Transfer /\ AddressFirst /\ HalfWritten /\ Copied
  BY Numbers DEF Init, NeverBlank, Transfer, AddressFirst, HalfWritten, Copied, IDLE, FLAG, DONE
<1>3. WholeAreas BY DEF Init, WholeAreas, Whole, Blank
<1> QED BY <1>1, <1>2, <1>3 DEF ConfigInv

\* The parameters after a whole block.
LEMMA ParsedAreas ==
    ASSUME live \in [Areas -> Area],
           NEW b \in [file: 1..MAX_FILES, block: {ALL_OFF} \cup Areas]
    PROVE  /\ Parsed(b) \in [Areas -> Area]
           /\ \A x \in Areas :
                 \/ /\ b.block = x
                    /\ Parsed(b)[x] = [on |-> TRUE, head |-> b.file, tail |-> b.file]
                 \/ /\ b.block # x
                    /\ Parsed(b)[x].head = live[x].head
                    /\ Parsed(b)[x].tail = live[x].tail
<1>1. b.file \in Files /\ b.block \in {ALL_OFF} \cup Areas
  BY ConfigAssumption DEF Files
<1>2. [on |-> TRUE, head |-> b.file, tail |-> b.file] \in Area BY <1>1 DEF Area
<1>3. CASE b.block = ALL_OFF
  <2>1. \A x \in Areas :
           /\ Parsed(b)[x] = [on |-> live[x].on /\ x \notin Ports,
                              head |-> live[x].head, tail |-> live[x].tail]
           /\ b.block # x
    BY <1>3, Numbers DEF Parsed, DefineBlock
  <2>2. \A x \in Areas : [on |-> live[x].on /\ x \notin Ports,
                          head |-> live[x].head, tail |-> live[x].tail] \in Area
    <3> SUFFICES ASSUME NEW x \in Areas
                 PROVE  [on |-> live[x].on /\ x \notin Ports,
                         head |-> live[x].head, tail |-> live[x].tail] \in Area
      OBVIOUS
    <3>1. (live[x].on /\ x \notin Ports) \in BOOLEAN OBVIOUS
    <3>2. live[x].head \in Files /\ live[x].tail \in Files BY AreaIsRecord
    <3> QED BY <3>1, <3>2 DEF Area
  <2> QED BY <1>3, <2>1, <2>2 DEF Parsed, DefineBlock
<1>4. CASE b.block \in Areas
  BY <1>1, <1>2, <1>4, Numbers DEF Parsed, ChannelBlock, UpstreamBlock
<1> QED BY <1>1, <1>3, <1>4

LEMMA SendKeeps == ConfigInv /\ Send => ConfigInv'
<1> SUFFICES ASSUME ConfigInv, Send PROVE ConfigInv' OBVIOUS
<1>1. file + 1 \in 1..MAX_FILES BY ConfigAssumption DEF ConfigInv, TypeOK, Send, Files
<1>2. Blocks(file + 1) \subseteq [file: 1..MAX_FILES, block: {ALL_OFF} \cup Areas]
  BY <1>1, ConfigAssumption, Numbers DEF Blocks, Ports
<1>3. TypeOK'
  BY <1>1, <1>2, Numbers, ConfigAssumption
     DEF ConfigInv, TypeOK, Send, ram, memory, Files
<1>4. Others'
  BY DEF ConfigInv, Others, Send, ram, memory, NeverBlank, WholeAreas, Transfer,
         AddressFirst, HalfWritten, Copied
<1> QED BY <1>3, <1>4 DEF ConfigInv, Others

LEMMA LoseKeeps == ASSUME NEW b \in net PROVE ConfigInv /\ Lose(b) => ConfigInv'
<1> SUFFICES ASSUME ConfigInv, Lose(b) PROVE ConfigInv' OBVIOUS
<1>1. TypeOK'
  BY Numbers, ConfigAssumption DEF ConfigInv, TypeOK, Lose, ram, memory
<1>2. Others'
  BY DEF ConfigInv, Others, Lose, ram, memory, NeverBlank, WholeAreas, Transfer,
         AddressFirst, HalfWritten, Copied
<1> QED BY <1>1, <1>2 DEF ConfigInv, Others

LEMMA ReceiveKeeps == ASSUME NEW b \in net PROVE ConfigInv /\ Receive(b) => ConfigInv'
<1> SUFFICES ASSUME ConfigInv, Receive(b) PROVE ConfigInv' OBVIOUS
<1>1. b \in [file: 1..MAX_FILES, block: {ALL_OFF} \cup Areas] BY DEF ConfigInv, TypeOK
<1>2. b.file # 0 BY <1>1, ConfigAssumption
<1>3. live \in [Areas -> Area] BY DEF ConfigInv, TypeOK
<1>4. /\ live' \in [Areas -> Area]
      /\ \A x \in Areas :
            \/ /\ b.block = x
               /\ live'[x] = [on |-> TRUE, head |-> b.file, tail |-> b.file]
            \/ /\ b.block # x
               /\ live'[x].head = live[x].head /\ live'[x].tail = live[x].tail
  BY <1>1, <1>3, ParsedAreas DEF Receive
<1>5. TypeOK'
  <2>1. pass' \in BOOLEAN BY DEF Receive
  <2>2. clean' \in BOOLEAN BY DEF Receive
  <2> QED BY <1>4, <2>1, <2>2, Numbers DEF ConfigInv, TypeOK, Receive, memory
<1>6. NeverBlank' /\ Transfer'
  BY DEF ConfigInv, Receive, memory, NeverBlank, Transfer
<1>7. WholeAreas'
  <2> SUFFICES ASSUME clean, NEW x \in Areas
               PROVE  Whole(live'[x]) /\ ((at = x /\ half = "tail") \/ Whole(e2[x]))
    BY DEF WholeAreas, Receive, memory
  <2>1. Whole(live[x]) /\ ((at = x /\ half = "tail") \/ Whole(e2[x]))
    BY DEF ConfigInv, WholeAreas
  <2>2. Whole(live'[x]) BY <1>4, <2>1 DEF Whole
  <2> QED BY <2>1, <2>2
<1>8. AddressFirst'
  <2>1. Set(live[ETH]) => Set(live'[ETH]) BY <1>2, <1>4, Numbers DEF Set
  <2>2. b.block = ETH => Set(live'[ETH]) BY <1>2, <1>4, Numbers DEF Set
  <2> QED BY <2>1, <2>2 DEF ConfigInv, Receive, memory, AddressFirst
<1>9. HalfWritten'
  <2> SUFFICES ASSUME clean', half = "tail"
               PROVE  IF bus THEN e2[at].head = live'[at].tail ELSE Whole(e2[at])
    BY DEF HalfWritten, Receive, memory
  <2>1. clean /\ b.block # at BY DEF Receive
  <2>2. at \in Areas
    BY Numbers DEF ConfigInv, TypeOK, Transfer, Areas, IDLE, DONE, FLAG, ETH
  <2> QED BY <1>4, <2>1, <2>2 DEF ConfigInv, HalfWritten
<1>10. Copied'
  <2>1. pass' => at = IDLE /\ half = "address" BY DEF Receive, ConfigInv, Transfer
  <2> QED BY <2>1, Numbers DEF Copied, Receive, IDLE, DONE
<1> QED BY <1>5, <1>6, <1>7, <1>8, <1>9, <1>10 DEF ConfigInv

LEMMA SpoiledKeeps == ASSUME NEW b \in net PROVE ConfigInv /\ ReceiveSpoiled(b) => ConfigInv'
<1> SUFFICES ASSUME ConfigInv, ReceiveSpoiled(b) PROVE ConfigInv' OBVIOUS
<1>1. b \in [file: 1..MAX_FILES, block: {ALL_OFF} \cup Areas] BY DEF ConfigInv, TypeOK
<1>2. b.file # 0 /\ b.file \in Files /\ b.block \in Areas
  BY <1>1, ConfigAssumption DEF Files, ReceiveSpoiled
<1>3. live \in [Areas -> Area] BY DEF ConfigInv, TypeOK
<1>4. live' \in [Areas -> Area] /\ (Set(live[ETH]) => Set(live'[ETH]))
  <2>1. live[b.block].head \in Files /\ live[b.block].tail \in Files
    BY <1>2, <1>3, AreaIsRecord
  <2>2. CASE UNCHANGED live BY <2>2, <1>3
  <2>3. CASE live' = [live EXCEPT ![b.block] =
                         [on |-> TRUE, head |-> @.head, tail |-> @.tail]]
    <3>1. [on |-> TRUE, head |-> live[b.block].head, tail |-> live[b.block].tail] \in Area
      BY <2>1 DEF Area
    <3> QED BY <2>3, <3>1, <1>2, <1>3, Numbers DEF Set
  <2>4. CASE live' = [live EXCEPT ![b.block] =
                         [on |-> TRUE, head |-> b.file, tail |-> @.tail]]
    <3>1. [on |-> TRUE, head |-> b.file, tail |-> live[b.block].tail] \in Area
      BY <2>1, <1>2 DEF Area
    <3> QED BY <2>4, <3>1, <1>2, <1>3, Numbers DEF Set
  <2> QED BY <2>2, <2>3, <2>4 DEF ReceiveSpoiled
<1>5. TypeOK'
  <2>1. faults' \in 0..MAX_FAULTS
    BY OneMoreFault DEF ConfigInv, TypeOK, ReceiveSpoiled
  <2>2. pass' \in BOOLEAN /\ clean' \in BOOLEAN BY DEF ReceiveSpoiled
  <2> QED BY <1>4, <2>1, <2>2, Numbers DEF ConfigInv, TypeOK, ReceiveSpoiled, memory
<1>6. Others'
  BY <1>4 DEF ConfigInv, Others, ReceiveSpoiled, memory, NeverBlank, WholeAreas, Transfer,
         AddressFirst, HalfWritten, Copied
<1> QED BY <1>5, <1>6 DEF ConfigInv, Others

LEMMA TakeMailKeeps == ConfigInv /\ TakeMail => ConfigInv'
<1> SUFFICES ASSUME ConfigInv, TakeMail PROVE ConfigInv' OBVIOUS
<1>1. TypeOK'
  <2>1. mails - 1 \in Nat BY DEF ConfigInv, TypeOK, TakeMail
  <2> QED BY <2>1, Numbers DEF ConfigInv, TypeOK, TakeMail, memory
<1>2. NeverBlank' BY DEF ConfigInv, TakeMail, memory, NeverBlank
<1>3. WholeAreas'
  BY DEF ConfigInv, TakeMail, memory, WholeAreas, Transfer
<1>4. 0 # IDLE /\ 0 # FLAG /\ 0 # DONE /\ ~(0 > ETH) BY Numbers DEF IDLE
<1>5. Transfer' /\ AddressFirst' /\ HalfWritten'
  BY <1>4 DEF ConfigInv, TakeMail, memory, Transfer, AddressFirst, HalfWritten, TypeOK
<1>6. Copied' BY <1>4, Numbers DEF TakeMail, Copied
<1> QED BY <1>1, <1>2, <1>3, <1>5, <1>6 DEF ConfigInv

LEMMA AddressKeeps == ConfigInv /\ Address => ConfigInv'
<1> SUFFICES ASSUME ConfigInv, Address PROVE ConfigInv' OBVIOUS
<1>1. TypeOK' BY DEF ConfigInv, TypeOK, Address, memory
<1>2. at # IDLE /\ half' = "head" /\ bus' BY DEF Address, IDLE
<1>3. Others'
  BY <1>2 DEF ConfigInv, Others, Address, memory, NeverBlank, WholeAreas, Transfer,
         AddressFirst, HalfWritten, Copied
<1> QED BY <1>1, <1>3 DEF ConfigInv, Others

LEMMA WriteHeadKeeps == ConfigInv /\ WriteHead => ConfigInv'
<1> SUFFICES ASSUME ConfigInv, WriteHead PROVE ConfigInv' OBVIOUS
<1>1. /\ live \in [Areas -> Area] /\ e2 \in [Areas -> Area]
      /\ at \in Areas /\ half = "head" /\ half' = "tail"
  BY DEF ConfigInv, TypeOK, WriteHead
<1>2. at # IDLE /\ at # FLAG /\ at # DONE /\ ~(at > ETH) /\ at \in Nat
  BY <1>1, Numbers DEF Areas, IDLE, FLAG, DONE, ETH
<1>3. /\ e2' \in [Areas -> Area]
      /\ \A x \in Areas : x # at => e2'[x] = e2[x]
      /\ IF bus
         THEN /\ e2'[at].on = live[at].on /\ e2'[at].head = live[at].head
              /\ e2'[at].tail = e2[at].tail
         ELSE e2'[at] = e2[at]
  <2>1. [on |-> live[at].on, head |-> live[at].head, tail |-> e2[at].tail] \in Area
    BY <1>1, AreaIsRecord DEF Area
  <2>2. CASE bus BY <1>1, <2>1, <2>2 DEF WriteHead
  <2>3. CASE ~bus BY <1>1, <2>3 DEF WriteHead
  <2> QED BY <2>2, <2>3
<1>4. Set(live[ETH]) BY <1>2 DEF ConfigInv, AddressFirst
<1>5. TypeOK' BY <1>3 DEF ConfigInv, TypeOK, WriteHead
<1>6. NeverBlank'
  BY <1>1, <1>3, <1>4, Numbers DEF ConfigInv, WriteHead, NeverBlank, Set
<1>7. WholeAreas'
  BY <1>1, <1>3 DEF ConfigInv, WriteHead, WholeAreas
<1>8. Transfer' BY <1>1, <1>2 DEF ConfigInv, WriteHead, Transfer
<1>9. AddressFirst'
  <2>1. ~kicked => bus BY <1>1 DEF ConfigInv, Transfer
  <2>2. at = ETH /\ bus => e2'[ETH].head # 0 BY <1>3, <1>4 DEF Set
  <2> QED BY <1>2, <2>1, <2>2 DEF ConfigInv, WriteHead, AddressFirst
<1>10. HalfWritten'
  BY <1>1, <1>3 DEF ConfigInv, WriteHead, WholeAreas, HalfWritten, Whole
<1>11. Copied'
  <2>1. pass => bus BY <1>1 DEF ConfigInv, Transfer
  <2>2. pass => \A x \in Areas : x < at => e2'[x] = live[x]
    BY <1>2, <1>3, Numbers DEF ConfigInv, Copied
  <2> QED BY <1>2, <1>3, <2>1, <2>2 DEF WriteHead, Copied
<1> QED BY <1>5, <1>6, <1>7, <1>8, <1>9, <1>10, <1>11 DEF ConfigInv

LEMMA WriteTailKeeps == ConfigInv /\ WriteTail => ConfigInv'
<1> SUFFICES ASSUME ConfigInv, WriteTail PROVE ConfigInv' OBVIOUS
<1>1. /\ live \in [Areas -> Area] /\ e2 \in [Areas -> Area]
      /\ at \in Areas /\ half = "tail" /\ half' = "address" /\ at' = at + 1
  BY DEF ConfigInv, TypeOK, WriteTail, NextArea
<1>2. at # IDLE /\ at + 1 # IDLE /\ at + 1 # DONE /\ at \in Nat /\ at <= ETH
  BY <1>1, Numbers DEF Areas, IDLE, DONE, ETH
<1>3. /\ e2' \in [Areas -> Area]
      /\ \A x \in Areas : x # at => e2'[x] = e2[x]
      /\ IF bus
         THEN /\ e2'[at].on = e2[at].on /\ e2'[at].head = e2[at].head
              /\ e2'[at].tail = live[at].tail
         ELSE e2'[at] = e2[at]
  <2>1. [on |-> e2[at].on, head |-> e2[at].head, tail |-> live[at].tail] \in Area
    BY <1>1, AreaIsRecord DEF Area
  <2>2. CASE bus BY <1>1, <2>1, <2>2 DEF WriteTail
  <2>3. CASE ~bus BY <1>1, <2>3 DEF WriteTail
  <2> QED BY <2>2, <2>3
<1>4. Set(live[ETH]) BY <1>2 DEF ConfigInv, AddressFirst
<1>5. TypeOK' BY <1>1, <1>3, Numbers DEF ConfigInv, TypeOK, WriteTail
<1>6. NeverBlank'
  BY <1>1, <1>3, <1>4, Numbers DEF ConfigInv, WriteTail, NeverBlank, Set
<1>7. WholeAreas'
  <2> SUFFICES ASSUME clean, NEW x \in Areas
               PROVE  Whole(live[x]) /\ Whole(e2'[x])
    BY DEF WriteTail, WholeAreas
  <2>1. Whole(live[x]) BY DEF ConfigInv, WholeAreas
  <2>2. CASE x = at
    <3>1. IF bus THEN e2[at].head = live[at].tail ELSE Whole(e2[at])
      BY <1>1 DEF ConfigInv, HalfWritten
    <3> QED BY <1>3, <2>1, <2>2, <3>1 DEF Whole
  <2>3. CASE x # at BY <1>3, <2>3 DEF ConfigInv, WholeAreas
  <2> QED BY <2>1, <2>2, <2>3
<1>8. Transfer' BY <1>1, <1>2 DEF WriteTail, Transfer
<1>9. AddressFirst'
  <2>1. ~kicked => bus BY <1>1 DEF ConfigInv, Transfer
  <2>2. ~kicked /\ at + 1 > ETH => Set(e2'[ETH])
    BY <1>1, <1>2, <1>3, <1>4, <2>1, Numbers DEF ConfigInv, AddressFirst, Set
  <2> QED BY <1>1, <1>4, <2>2 DEF WriteTail, AddressFirst
<1>10. HalfWritten' BY <1>1 DEF HalfWritten
<1>11. Copied'
  <2>1. pass => e2'[at] = live[at]
    <3> SUFFICES ASSUME pass PROVE e2'[at] = live[at] OBVIOUS
    <3>1. bus /\ e2[at].on = live[at].on /\ e2[at].head = live[at].head
      BY <1>1 DEF ConfigInv, Transfer, Copied
    <3> QED BY <1>1, <1>3, <3>1, AreaIsRecord
  <2>2. pass => \A x \in Areas : x < at + 1 => e2'[x] = live[x]
    BY <1>2, <1>3, <2>1, Numbers DEF ConfigInv, Copied
  <2> QED BY <1>1, <1>2, <2>2 DEF WriteTail, Copied
<1> QED BY <1>5, <1>6, <1>7, <1>8, <1>9, <1>10, <1>11 DEF ConfigInv

LEMMA WriteFlagKeeps == ConfigInv /\ WriteFlag => ConfigInv'
<1> SUFFICES ASSUME ConfigInv, WriteFlag PROVE ConfigInv' OBVIOUS
<1>1. /\ at = FLAG /\ half = "head" /\ at' = DONE /\ half' = "address"
      /\ FLAG > ETH /\ DONE > ETH /\ FLAG # IDLE /\ DONE # IDLE
  BY Numbers DEF WriteFlag, IDLE
<1>2. TypeOK'
  <2>1. e2flag' \in BOOLEAN BY DEF WriteFlag
  <2> QED BY <1>1, <2>1, Numbers DEF ConfigInv, TypeOK, WriteFlag
<1>3. NeverBlank' BY <1>1 DEF ConfigInv, WriteFlag, NeverBlank, AddressFirst
<1>4. WholeAreas' BY <1>1 DEF ConfigInv, WriteFlag, WholeAreas
<1>5. Transfer' /\ HalfWritten' BY <1>1 DEF WriteFlag, Transfer, HalfWritten
<1>6. AddressFirst' BY <1>1 DEF ConfigInv, WriteFlag, AddressFirst
<1>7. Copied'
  <2>1. pass => e2flag' BY <1>1 DEF ConfigInv, WriteFlag, Transfer
  <2>2. \A x \in Areas : x < FLAG BY Numbers DEF Areas
  <2> QED BY <1>1, <2>1, <2>2 DEF ConfigInv, WriteFlag, Copied
<1> QED BY <1>2, <1>3, <1>4, <1>5, <1>6, <1>7 DEF ConfigInv

\* A start of the device, its memory whole if it was not in the middle of an area.
LEMMA BootKeeps ==
    ASSUME ConfigInv, Boot, faults' \in 0..MAX_FAULTS, due' \in Files,
           pass' \in BOOLEAN, clean' = (clean /\ half # "tail")
    PROVE  ConfigInv'
<1>1. e2 \in [Areas -> Area] BY DEF ConfigInv, TypeOK
<1>2. /\ live' \in [Areas -> Area]
      /\ \A x \in Areas : live'[x] = Blank \/ live'[x] = e2[x]
  BY <1>1, Numbers DEF Boot, Loaded
<1>3. TypeOK'
  <2>1. clean' \in BOOLEAN OBVIOUS
  <2> QED BY <1>2, <2>1, Numbers DEF ConfigInv, TypeOK, Boot, memory
<1>4. NeverBlank' BY DEF ConfigInv, Boot, memory, NeverBlank
<1>5. WholeAreas'
  <2> SUFFICES ASSUME clean, half # "tail", NEW x \in Areas
               PROVE  Whole(live'[x]) /\ Whole(e2[x])
    BY DEF WholeAreas, Boot, memory
  <2>1. Whole(e2[x]) BY DEF ConfigInv, WholeAreas
  <2>2. Whole(Blank) BY DEF Whole, Blank
  <2> QED BY <1>2, <2>1, <2>2
<1>6. IDLE # FLAG /\ IDLE # DONE /\ ~(IDLE > ETH) BY Numbers DEF IDLE
<1>7. Transfer' /\ AddressFirst' /\ HalfWritten' /\ Copied'
  BY <1>6 DEF Boot, Transfer, AddressFirst, HalfWritten, Copied
<1> QED BY <1>3, <1>4, <1>5, <1>7 DEF ConfigInv

LEMMA ResetKeeps == ConfigInv /\ Reset => ConfigInv'
<1> SUFFICES ASSUME ConfigInv, Reset PROVE ConfigInv' OBVIOUS
<1>1. half # "tail" BY DEF ConfigInv, Transfer, Reset
<1>2. clean' = (clean /\ half # "tail") BY <1>1 DEF Reset, ConfigInv, TypeOK
<1>3. faults' \in 0..MAX_FAULTS /\ due' \in Files /\ pass' \in BOOLEAN /\ Boot
  BY Numbers DEF ConfigInv, TypeOK, Reset
<1> QED BY <1>2, <1>3, BootKeeps

LEMMA PowerFailsKeeps == ConfigInv /\ PowerFails => ConfigInv'
<1> SUFFICES ASSUME ConfigInv, PowerFails PROVE ConfigInv' OBVIOUS
<1>1. due' \in Files /\ pass' \in BOOLEAN /\ Boot BY Numbers DEF PowerFails
<1>3. faults' \in 0..MAX_FAULTS BY OneMoreFault DEF ConfigInv, TypeOK, PowerFails
<1>2. clean' = (clean /\ half # "tail") BY DEF PowerFails
<1> QED BY <1>1, <1>2, <1>3, BootKeeps

LEMMA KickKeeps == ConfigInv /\ Kick => ConfigInv'
<1> SUFFICES ASSUME ConfigInv, Kick PROVE ConfigInv' OBVIOUS
<1>1. TypeOK'
  <2>1. clean' \in BOOLEAN BY DEF Kick
  <2>2. faults' \in 0..MAX_FAULTS BY OneMoreFault DEF ConfigInv, TypeOK, Kick
  <2> QED BY <2>1, <2>2, Numbers DEF ConfigInv, TypeOK, Kick, memory
<1>2. Others'
  BY DEF ConfigInv, Others, Kick, memory, NeverBlank, WholeAreas, Transfer,
         AddressFirst, HalfWritten, Copied
<1> QED BY <1>1, <1>2 DEF ConfigInv, Others

LEMMA NextKeeps == ConfigInv /\ [Next]_vars => ConfigInv'
<1> SUFFICES ASSUME ConfigInv, [Next]_vars PROVE ConfigInv' OBVIOUS
<1>1. CASE Send BY <1>1, SendKeeps
<1>2. ASSUME NEW b \in net, Lose(b) \/ Receive(b) \/ ReceiveSpoiled(b) PROVE ConfigInv'
  BY <1>2, LoseKeeps, ReceiveKeeps, SpoiledKeeps
<1>3. CASE Save
  BY <1>3, TakeMailKeeps, AddressKeeps, WriteHeadKeeps, WriteTailKeeps, WriteFlagKeeps,
     ResetKeeps DEF Save
<1>4. CASE PowerFails BY <1>4, PowerFailsKeeps
<1>5. CASE Kick BY <1>5, KickKeeps
<1>6. CASE UNCHANGED vars
  <2>1. TypeOK' BY <1>6 DEF ConfigInv, TypeOK, vars
  <2>2. Others'
    BY <1>6 DEF ConfigInv, Others, vars, NeverBlank, WholeAreas, Transfer,
           AddressFirst, HalfWritten, Copied
  <2> QED BY <2>1, <2>2 DEF ConfigInv, Others
<1> QED BY <1>1, <1>2, <1>3, <1>4, <1>5, <1>6 DEF Next

\* The inductive invariant of the parser, the saving thread and run_init.
THEOREM ConfigHolds == Spec => []ConfigInv
BY InitConfig, NextKeeps, PTL DEF Spec

\* No blank address is taken for a configured one after a power failure at any
\* point of the saving.
THEOREM BlankNever == Spec => []NeverBlank
<1>1. ConfigInv => NeverBlank BY DEF ConfigInv
<1> QED BY <1>1, ConfigHolds, PTL

\* No port has the protocol of one file with the devices of another, while no area
\* or block is cut in two.
THEOREM AreasWhole == Spec => []WholeAreas
<1>1. ConfigInv => WholeAreas BY DEF ConfigInv
<1> QED BY <1>1, ConfigHolds, PTL

\* run_init reads back what the saving thread wrote undisturbed.
THEOREM KeptAtRestart == Spec => RestartKeeps
<1>1. ConfigInv /\ [Next]_vars => [Reset /\ pass => live' = live]_vars
  <2> SUFFICES ASSUME ConfigInv, Reset, pass PROVE live' = live OBVIOUS
  <2>1. at = DONE /\ e2flag /\ DONE # IDLE
    BY Numbers DEF ConfigInv, Reset, Copied, IDLE
  <2>2. \A x \in Areas : e2[x] = live[x]
    BY <2>1, Numbers DEF ConfigInv, Copied, Areas
  <2>3. live' = [x \in Areas |-> e2[x]] BY <2>1 DEF Reset, Boot, Loaded
  <2> QED BY <2>2, <2>3 DEF ConfigInv, TypeOK
<1> QED BY <1>1, ConfigHolds, PTL DEF Spec, RestartKeeps
=============================================================================
