----------------------------- MODULE ConfigStore -----------------------------
(***************************************************************************)
(* The configuration: a file comes block by block in datagrams, each parsed  *)
(* by GetCfgFromCharBuf (cmcfgfunc.c) straight into the parameters in use;   *)
(* the end of its <upstream> block makes save_data_thread_entry              *)
(* (base_task.c) write all areas of the memory and restart the device,       *)
(* where run_init reads them back.                                           *)
(*                                                                         *)
(* The parser (priority 21) and normal_work_thread_entry (22) preempt the    *)
(* saving (23); the latter kicks the watchdog over the same two wires, which *)
(* ends the transfer under way: what the saving thread sends afterwards of   *)
(* that area belongs to no transfer.  Nobody looks at acknowledgements.      *)
(*                                                                         *)
(* An area has a head (for a port: in use, protocol and times) and a tail    *)
(* (the devices); its value is the number of the file it came from, 0 blank. *)
(***************************************************************************)
EXTENDS Integers

CONSTANTS
    LAST,         \* ports with an area: 0..LAST, in the order they are written
    Enabled,      \* file -> the ports it has a <channel> block for
    MAX_FILES,    \* bound on the files sent
    MAX_FAULTS    \* bound on datagrams lost or spoiled, power failures, kicks
                  \* during a transfer

ASSUME ConfigAssumption ==
    /\ LAST \in Nat /\ MAX_FILES \in Nat /\ MAX_FAULTS \in Nat
    /\ Enabled \in [1..MAX_FILES -> SUBSET (0..LAST)]

Ports == 0..LAST
ETH == LAST + 1           \* ETH_CONF_AREA, and the block <upstream>
FLAG == LAST + 2          \* ADDR_DEFINE, 0x55 when the device is configured
DONE == LAST + 3
IDLE == -1
ALL_OFF == -2             \* the block <define>
Areas == 0..ETH
Blank == [on |-> FALSE, head |-> 0, tail |-> 0]

VARIABLES
    live,        \* area -> [on, head, tail]: uartpara and ethpara
    e2, e2flag,  \* the same in the memory, and its flag
    mails,       \* TYPE_RECORD_ETH mails waiting
    at, half,    \* the area being written, and what of it comes next
    bus,         \* the transfer under way is the one of the saving thread
    net,         \* blocks on their way
    file,        \* number of the last file sent
    faults,      \* count of what is bounded
    due,         \* ghost: the file that is to take effect, 0 if it was disturbed
    pass,        \* ghost: nothing has disturbed this writing of the areas
    clean,       \* ghost: no area or block has been cut in two
    kicked       \* ghost: a kick has hit a transfer

vars == <<live, e2, e2flag, mails, at, half, bus, net, file, faults,
          due, pass, clean, kicked>>
ram == <<live, mails, at, half, bus>>
memory == <<e2, e2flag>>

Init ==
    /\ live = [x \in Areas |-> Blank]
    /\ e2 = [x \in Areas |-> Blank] /\ e2flag = FALSE
    /\ mails = 0 /\ at = IDLE /\ half = "address" /\ bus = FALSE
    /\ net = {} /\ file = 0 /\ faults = 0
    /\ due = 0 /\ pass = FALSE /\ clean = TRUE /\ kicked = FALSE

-----------------------------------------------------------------------------
Blocks(f) == {[file |-> f, block |-> x] : x \in {ALL_OFF, ETH} \cup Enabled[f]}

\* The operator sends the blocks of a file.
Send ==
    /\ file < MAX_FILES /\ file' = file + 1
    /\ net' = net \cup Blocks(file + 1)
    /\ due' = IF net = {} /\ mails = 0 /\ at = IDLE THEN file + 1 ELSE 0
    /\ UNCHANGED <<ram, memory, faults, pass, clean, kicked>>

Lose(b) ==
    /\ faults < MAX_FAULTS /\ faults' = faults + 1
    /\ net' = net \ {b}
    /\ due' = 0
    /\ UNCHANGED <<ram, memory, file, pass, clean, kicked>>

\* A datagram in its place: <define> before the others, <upstream> after them.
InPlace(b) ==
    \A c \in net : c # b => c.block # ALL_OFF /\ b.block # ETH

\* Fault: the ports stay in use.
DefineKeep == live
\* <define> takes all ports out of use.
DefineBlock ==
    [x \in Areas |-> [on |-> live[x].on /\ x \notin Ports,
                      head |-> live[x].head, tail |-> live[x].tail]]

\* Fault: the devices of the port stay as they were.
ChannelHead(b) ==
    [live EXCEPT ![b.block] = [on |-> TRUE, head |-> b.file, tail |-> @.tail]]
\* <channel> puts its port into use with its parameters.
ChannelBlock(b) ==
    [live EXCEPT ![b.block] = [on |-> TRUE, head |-> b.file, tail |-> b.file]]

\* <upstream>: the parameters of the network.
UpstreamBlock(b) ==
    [live EXCEPT ![ETH] = [on |-> TRUE, head |-> b.file, tail |-> b.file]]

\* GetCfgFromCharBuf of a whole block.
Parsed(b) ==
    IF b.block = ALL_OFF THEN DefineBlock
    ELSE IF b.block = ETH THEN UpstreamBlock(b) ELSE ChannelBlock(b)

\* A block is parsed; </upstream> sends the mail.
Receive(b) ==
    /\ net' = net \ {b}
    /\ live' = Parsed(b)
    /\ mails' = IF b.block = ETH THEN mails + 1 ELSE mails
    /\ due' = IF InPlace(b) THEN due ELSE 0
    /\ pass' = (pass /\ at = IDLE)
    /\ clean' = (clean /\ (b.block = at => half # "tail"))
    /\ UNCHANGED <<memory, at, half, bus, file, faults, kicked>>

\* The parser meets an error: what it has read of the block is in use already,
\* and there is no mail.  The port is in use from its index on.
ReceiveSpoiled(b) ==
    /\ faults < MAX_FAULTS /\ faults' = faults + 1
    /\ net' = net \ {b}
    /\ b.block # ALL_OFF
    /\ \/ UNCHANGED live
       \/ live' = [live EXCEPT ![b.block] =
                      [on |-> TRUE, head |-> @.head, tail |-> @.tail]]
       \/ live' = [live EXCEPT ![b.block] =
                      [on |-> TRUE, head |-> b.file, tail |-> @.tail]]
    /\ due' = 0 /\ pass' = FALSE /\ clean' = FALSE
    /\ UNCHANGED <<memory, mails, at, half, bus, file, kicked>>

-----------------------------------------------------------------------------
\* rt_mb_recv returns.
TakeMail ==
    /\ at = IDLE /\ mails > 0
    /\ mails' = mails - 1
    /\ at' = 0 /\ half' = "address" /\ bus' = FALSE
    /\ pass' = TRUE
    /\ UNCHANGED <<live, memory, net, file, faults, due, clean, kicked>>

\* I2C_Write_nByte: start and address, then the bytes; nothing is stored of them
\* when the transfer has been ended by a kick.
Address ==
    /\ at \in 0..FLAG /\ half = "address"
    /\ half' = "head" /\ bus' = TRUE
    /\ UNCHANGED <<live, memory, mails, at, net, file, faults, due, pass, clean, kicked>>

WriteHead ==
    /\ at \in Areas /\ half = "head"
    /\ e2' = IF bus THEN [e2 EXCEPT ![at] =
                             [on |-> live[at].on, head |-> live[at].head, tail |-> @.tail]]
             ELSE e2
    /\ half' = "tail"
    /\ UNCHANGED <<live, e2flag, mails, at, bus, net, file, faults, due, pass, clean,
                   kicked>>

\* Fault: the parameters of the network are left out.
NextAreaSkips == IF at = LAST THEN FLAG ELSE at + 1
NextArea == at + 1

WriteTail ==
    /\ at \in Areas /\ half = "tail"
    /\ e2' = IF bus THEN [e2 EXCEPT ![at] =
                             [on |-> @.on, head |-> @.head, tail |-> live[at].tail]]
             ELSE e2
    /\ at' = NextArea /\ half' = "address"
    /\ UNCHANGED <<live, e2flag, mails, bus, net, file, faults, due, pass, clean, kicked>>

WriteFlag ==
    /\ at = FLAG /\ half = "head"
    /\ e2flag' = (e2flag \/ bus)
    /\ at' = DONE /\ half' = "address"
    /\ UNCHANGED <<live, e2, mails, bus, net, file, faults, due, pass, clean, kicked>>

\* run_init: without the flag the device has the default address.
Loaded == [x \in Areas |-> IF x = ETH /\ ~e2flag THEN Blank ELSE e2[x]]

\* The device starts, its test of the memory succeeds; what was on its way to it
\* is lost.
Boot ==
    /\ live' = Loaded
    /\ mails' = 0 /\ at' = IDLE /\ half' = "address" /\ bus' = FALSE
    /\ net' = {}
    /\ UNCHANGED <<memory, file, kicked>>

\* NVIC_SystemReset after all areas.
Reset ==
    /\ at = DONE
    /\ Boot
    /\ due' = IF net = {} THEN due ELSE 0
    /\ UNCHANGED <<faults, pass, clean>>

PowerFails ==
    /\ faults < MAX_FAULTS /\ faults' = faults + 1
    /\ Boot
    /\ due' = 0 /\ pass' = FALSE
    /\ clean' = (clean /\ half # "tail")

\* Kick_WatchDog or set_rtc during a transfer.
Kick ==
    /\ faults < MAX_FAULTS /\ faults' = faults + 1
    /\ half # "address" /\ bus
    /\ bus' = FALSE
    /\ due' = 0 /\ pass' = FALSE /\ kicked' = TRUE
    /\ clean' = (clean /\ half # "tail")
    /\ UNCHANGED <<live, memory, mails, at, half, net, file>>

Save == TakeMail \/ Address \/ WriteHead \/ WriteTail \/ WriteFlag \/ Reset
Next ==
    \/ Send
    \/ \E b \in net : Lose(b) \/ Receive(b) \/ ReceiveSpoiled(b)
    \/ Save \/ PowerFails \/ Kick

\* The parser and the saving thread go on.
Fairness == WF_vars(\E b \in net : InPlace(b) /\ Receive(b)) /\ WF_vars(Save)

Spec == Init /\ [][Next]_vars /\ Fairness

-----------------------------------------------------------------------------
Files == 0..MAX_FILES
Area == [on: BOOLEAN, head: Files, tail: Files]

\* Types of the configuration and of the saving thread.
TypeOK ==
    /\ live \in [Areas -> Area] /\ e2 \in [Areas -> Area] /\ e2flag \in BOOLEAN
    /\ mails \in Nat /\ at \in IDLE..DONE /\ half \in {"address", "head", "tail"}
    /\ bus \in BOOLEAN
    /\ net \subseteq [file: 1..MAX_FILES, block: {ALL_OFF} \cup Areas]
    /\ file \in Files /\ faults \in 0..MAX_FAULTS
    /\ due \in Files
    /\ pass \in BOOLEAN /\ clean \in BOOLEAN /\ kicked \in BOOLEAN

Set(area) == area.head # 0 /\ area.tail # 0

\* Whenever the power fails and whatever is lost, the device does not come up with
\* a blank network address taken for a configured one, unless a kick has hit the
\* writing of it.
NeverBlank == e2flag /\ ~kicked => Set(e2[ETH])

Whole(area) == area.head = area.tail

\* Unless an area was cut in two by a kick, a power failure or a block that
\* came while it was written, or a block by an error, no port has the protocol
\* of one file with the devices of another, now or after any restart.
WholeAreas ==
    clean => \A x \in Areas :
                 Whole(live[x]) /\ ((at = x /\ half = "tail") \/ Whole(e2[x]))

\* The steps of a transfer; one that is not hit by a kick stays on the bus.
Transfer ==
    /\ at = IDLE => half = "address"
    /\ at \in {FLAG, DONE} => half # "tail"
    /\ (~kicked \/ pass) /\ half # "address" => bus

\* The mail comes after the address, the flag after the area of the address.
AddressFirst ==
    /\ mails > 0 \/ at # IDLE => Set(live[ETH])
    /\ ~kicked /\ at = ETH /\ half = "tail" => e2[ETH].head # 0
    /\ ~kicked /\ at > ETH => Set(e2[ETH])

\* Between the two halves the old tail is still to be written over.
HalfWritten ==
    clean /\ half = "tail" =>
        IF bus THEN e2[at].head = live[at].tail ELSE Whole(e2[at])

\* What has been written undisturbed is as it is in use.
Copied ==
    /\ pass /\ at # IDLE => \A x \in Areas : x < at => e2[x] = live[x]
    /\ pass /\ half = "tail" => e2[at].on = live[at].on /\ e2[at].head = live[at].head
    /\ pass /\ at = DONE => e2flag

\* The inductive invariant.
ConfigInv ==
    TypeOK /\ NeverBlank /\ WholeAreas /\ Transfer /\ AddressFirst /\ HalfWritten /\ Copied

\* A restart after a writing that nothing disturbed changes no parameter.
RestartKeeps == [][Reset /\ pass => live' = live]_vars

\* The device runs a file: its ports and only they are in use, with its values,
\* in use and in the memory.
Runs(f) ==
    /\ at = IDLE /\ mails = 0 /\ e2flag
    /\ \A x \in Ports : live[x].on = (x \in Enabled[f])
    /\ \A x \in Enabled[f] \cup {ETH} : live[x].head = f /\ live[x].tail = f
    /\ e2 = live

\* A file that arrives whole and in order, nothing disturbing its writing, is the
\* configuration the device restarts with.
FileTakesEffect ==
    \A f \in 1..MAX_FILES : due = f ~> due # f \/ Runs(f)
=============================================================================
