-------------------------------- MODULE Pci --------------------------------
(***************************************************************************)
(* The PCI bus (src/hw/pci.c): pci_init walks the buses recursively,       *)
(* describes every function it meets, then gives an address to each base   *)
(* address register (BAR) the firmware left without one.  The machine is a *)
(* function from <<bus, device, function>> to what configuration space     *)
(* shows there; functions outside its domain answer with vendor 0xFFFF.    *)
(*                                                                         *)
(* A BAR is a record: kind is "none", "io", "mem", "mem64" (low half) or   *)
(* "upper" (the high half that follows); size and addr are its length and  *)
(* address; typed says that the register reads non-zero without an address *)
(* (the I/O, 64-bit or prefetchable bit).  The upper register of a BAR of  *)
(* 8 GB or more does not probe as all ones and is taken for a small memory *)
(* BAR: its size is then not 0.  Sizes are those of the 32-bit build (the  *)
(* Makefile's default ARCH), where ~size + 1 is the length.                *)
(***************************************************************************)
EXTENDS Integers, Sequences, SequencesExt, FiniteSets

CONSTANTS Machines,          \* the machines considered
          Slots, Functions_, \* devices of a bus (32), functions of a device (8)
          IoFirst, IoLimit,  \* pci_io_next's start (0xC000), end of ports (0x10000)
          MemFirst, MemMod,  \* pci_mem_next's start (0xE0000000), 2^32
          PciFailures        \* bound: failing allocations

VARIABLES machine,                \* hardware: functions; the BARs' addresses change
          pciStack, visited_buses, pciScanned,
          pci_device_list,        \* newest first, as pci_add_device links it
          pci_io_next, pci_mem_next, pciAt,
          pciDropped,             \* history: functions whose malloc failed
          pciWrapped              \* history: rounding pci_mem_next up wrapped to 0

pciVars == <<machine, pciStack, visited_buses, pciScanned, pci_device_list, pci_io_next,
             pci_mem_next, pciAt, pciDropped, pciWrapped>>

\* What configuration space can show: lengths that probe as 32 bits are 32-bit
\* lengths, and a bridge has two BARs.
PciRegister == [kind : {"none", "io", "mem", "mem64", "upper"}, size : Nat, addr : Nat, typed : BOOLEAN]
PciFunction == [header : {"normal", "bridge"}, multi : BOOLEAN, secondary : Nat,
                bars : Seq(PciRegister), caps : Seq(Nat), command : BOOLEAN]
ASSUME PciAssumption ==
    /\ Slots \in Nat /\ Functions_ \in Nat \ {0} /\ {IoFirst, IoLimit, MemFirst, MemMod, PciFailures} \subseteq Nat
    /\ MemFirst < MemMod
    /\ \A m \in Machines :
          /\ DOMAIN m \subseteq Nat \X (0 .. Slots - 1) \X (0 .. Functions_ - 1)
          /\ m \in [DOMAIN m -> PciFunction]
          /\ \A id \in DOMAIN m :
                /\ m[id].header = "bridge" => Len(m[id].bars) >= 2
                /\ \A i \in DOMAIN m[id].bars : m[id].bars[i].kind # "mem64" => m[id].bars[i].size < MemMod

Top_ == Last(pciStack)
Isbridge(f) == f.header = "bridge" /\ ~f.multi    \* header_type == PCI_HEADER_TYPE_BRIDGE
-----------------------------------------------------------------------------
\* pci_bar_get_size: probing the upper register of an ordinary 64-bit BAR reads
\* all ones, which counts as no BAR; a 64-bit size is cut to 32 bits.
pci_bar_get_size(r) == IF r.kind = "mem64" THEN r.size % MemMod ELSE r.size

\* pci_parse_bars: a register that reads 0 is no BAR at all; the slot above a
\* 64-bit BAR gets base 0 and, by the assignment at the end of the loop, a size.
BarOf(r) ==
    [base |-> IF r.kind = "upper" THEN 0 ELSE r.addr, is_io |-> r.kind = "io", assigned |-> FALSE,
     size |-> IF r.addr = 0 /\ ~r.typed /\ r.kind # "upper" THEN 0 ELSE pci_bar_get_size(r)]
pci_parse_bars(f) ==
    LET n == IF Isbridge(f) THEN 2 ELSE Len(f.bars)
    IN  [i \in 1..n |-> BarOf(f.bars[i])]

\* pci_read_device_info after pci_alloc_device; an allocation that fails while
\* the capability list is followed cuts the list there.
Described(id, got) ==
    [id |-> id, bars |-> pci_parse_bars(machine[id]), caps |-> SubSeq(machine[id].caps, 1, got)]

\* One function of the device at the top of the stack: absent, described and
\* added at the head of the list (pci_add_device), or dropped for want of memory.
Function(id, next) ==
    /\ pciStack' = [pciStack EXCEPT ![Len(pciStack)] = next]
    /\ \/ /\ id \notin DOMAIN machine
          /\ UNCHANGED <<pci_device_list, pciDropped>>
       \/ /\ id \in DOMAIN machine
          /\ \E got \in 0..Len(machine[id].caps) :
                /\ got < Len(machine[id].caps) => Len(pciDropped) < PciFailures
                /\ pci_device_list' = <<Described(id, got)>> \o pci_device_list
                /\ pciDropped' = IF got < Len(machine[id].caps) THEN Append(pciDropped, <<id, "caps">>)
                                 ELSE pciDropped
       \/ /\ id \in DOMAIN machine /\ Len(pciDropped) < PciFailures
          /\ pciDropped' = Append(pciDropped, <<id, "device">>)
          /\ UNCHANGED pci_device_list
    /\ UNCHANGED <<machine, visited_buses, pciScanned, pci_io_next, pci_mem_next, pciAt, pciWrapped>>

\* pci_scan_bus, function 0 of the next device: with nothing there, or no memory
\* for it, the loop continues with the next device.
ScanDevice ==
    /\ pciStack # <<>> /\ Top_.dev < Slots /\ Top_.func = 0
    /\ LET id == <<Top_.bus, Top_.dev, 0>>
           skip == [Top_ EXCEPT !.dev = Top_.dev + 1]
           on == [Top_ EXCEPT !.func = IF id \in DOMAIN machine /\ machine[id].multi THEN 1 ELSE Functions_]
       IN  \E next \in {skip, on} :
              /\ Function(id, next)
              /\ next = on <=> Len(pci_device_list') > Len(pci_device_list)

\* pci_scan_bus, the other functions of a multi-function device.
ScanFunction ==
    /\ pciStack # <<>> /\ Top_.func \in 1..(Functions_ - 1)
    /\ Function(<<Top_.bus, Top_.dev, Top_.func>>, [Top_ EXCEPT !.func = Top_.func + 1])

\* The plausible slip: the buses visited are not remembered.
pci_scan_bus_Again(stack, bus) ==
    IF Len(stack) > Slots THEN stack ELSE Append(stack, [bus |-> bus, dev |-> 0, func |-> 0])

\* pci_scan_bus(bus) as a call: nothing happens on a bus already visited.
pci_scan_bus(stack, bus) ==
    IF bus \in visited_buses THEN stack ELSE Append(stack, [bus |-> bus, dev |-> 0, func |-> 0])

\* pci_scan_bus: behind a bridge (function 0, not multi-function) the scan recurs.
ScanBehind ==
    /\ pciStack # <<>> /\ Top_.func = Functions_
    /\ LET f == machine[<<Top_.bus, Top_.dev, 0>>]
           on == [pciStack EXCEPT ![Len(pciStack)] = [bus |-> Top_.bus, dev |-> Top_.dev + 1, func |-> 0]]
       IN  IF Isbridge(f) /\ f.secondary # 0
           THEN pciStack' = pci_scan_bus(on, f.secondary) /\ visited_buses' = visited_buses \union {f.secondary}
           ELSE pciStack' = on /\ UNCHANGED visited_buses
    /\ UNCHANGED <<machine, pciScanned, pci_device_list, pci_io_next, pci_mem_next, pciAt, pciDropped, pciWrapped>>

\* pci_scan_bus returns; from bus 0 to pci_init, which walks the list it built.
ScanReturns ==
    /\ pciStack # <<>> /\ Top_.dev = Slots
    /\ pciStack' = Front(pciStack)
    /\ pciScanned' = (Len(pciStack) = 1)
    /\ UNCHANGED <<machine, visited_buses, pci_device_list, pci_io_next, pci_mem_next, pciAt, pciDropped, pciWrapped>>
-----------------------------------------------------------------------------
RoundUp(n, align) == ((n + align - 1) \div align) * align

\* pci_assign_bar: the next free address of the BAR's space, rounded up to the
\* BAR's size, if the BAR fits below the end of the space.  Both ends are tested on
\* 32-bit sums: rounding may wrap to address 0, where the BAR fits again.
pci_assign_bar(d, i) ==
    LET dev == pci_device_list[d]
        bar == dev.bars[i]
        registers == machine[dev.id].bars
        io == RoundUp(pci_io_next, bar.size)
        mem == RoundUp(pci_mem_next, bar.size) % MemMod
        base == IF bar.is_io THEN io ELSE mem
        fits == IF bar.is_io THEN io + bar.size <= IoLimit ELSE (mem + bar.size) % MemMod >= mem
    IN  /\ pci_io_next' = IF bar.is_io THEN io + (IF fits THEN bar.size ELSE 0) ELSE pci_io_next
        /\ pci_mem_next' = IF bar.is_io THEN pci_mem_next ELSE mem + (IF fits THEN bar.size ELSE 0)
        /\ pciWrapped' = (pciWrapped \/ (~bar.is_io /\ mem < pci_mem_next))
        /\ IF fits
           THEN /\ pci_device_list' =
                     [pci_device_list EXCEPT ![d].bars[i] = [bar EXCEPT !.base = base, !.assigned = TRUE]]
                /\ machine' = [machine EXCEPT ![dev.id].bars = [j \in DOMAIN registers |->
                       IF j = i THEN [registers[j] EXCEPT !.addr = base]
                       ELSE IF j = i + 1 /\ registers[i].kind = "mem64" THEN [registers[j] EXCEPT !.addr = 0]
                       ELSE registers[j]]]
           ELSE UNCHANGED <<pci_device_list, machine>>
\* pci_init's loop over the BARs of the list, then pci_set_command on the device.
AssignNext ==
    /\ pciScanned /\ pciAt[1] <= Len(pci_device_list)
    /\ LET d == pciAt[1]
           i == pciAt[2]
           bars == pci_device_list[d].bars
       IN  IF i > Len(bars)
           THEN /\ pciAt' = <<d + 1, 1>>
                /\ machine' = [machine EXCEPT ![pci_device_list[d].id].command = TRUE]
                /\ UNCHANGED <<pci_device_list, pci_io_next, pci_mem_next, pciWrapped>>
           ELSE /\ pciAt' = <<d, i + 1>>
                /\ IF bars[i].size > 0 /\ bars[i].base = 0 THEN pci_assign_bar(d, i)
                   ELSE UNCHANGED <<machine, pci_device_list, pci_io_next, pci_mem_next, pciWrapped>>
    /\ UNCHANGED <<pciStack, visited_buses, pciScanned, pciDropped>>

Boot(m) ==
    /\ machine = m
    /\ pciStack = <<[bus |-> 0, dev |-> 0, func |-> 0]>> /\ visited_buses = {0} /\ pciScanned = FALSE
    /\ pci_device_list = <<>> /\ pciAt = <<1, 1>>
    /\ pci_io_next = IoFirst /\ pci_mem_next = MemFirst
    /\ pciDropped = <<>> /\ pciWrapped = FALSE
PciInit == \E m \in Machines : Boot(m)
PciNext == ScanDevice \/ ScanFunction \/ ScanBehind \/ ScanReturns \/ AssignNext
PciSpec == PciInit /\ [][PciNext]_pciVars
-----------------------------------------------------------------------------
\* The buses that single-function bridges lead to, as a least fixed point: bus 0 and
\* the secondary bus of every such bridge on one of these buses that was described.
\* (The code compares the header type with its multi-function bit still in: a bridge
\* that has the bit is in the list, and the bus behind it is not scanned, see ScanBehind.)
BusesBehind(bs) == {machine[id].secondary : id \in
    {id \in DOMAIN machine : id[1] \in bs /\ id[3] = 0 /\ Isbridge(machine[id])
                             /\ <<id, "device">> \notin ToSet(pciDropped)}} \ {0}
Reachable == CHOOSE bs \in SUBSET ({0} \union {machine[id].secondary : id \in DOMAIN machine}) :
    /\ {0} \union BusesBehind(bs) = bs
    /\ \A cs \in SUBSET bs : {0} \union BusesBehind(cs) = cs => cs = bs
Expected == {id \in DOMAIN machine :
    /\ id[1] \in Reachable /\ id[2] < Slots
    /\ <<id, "device">> \notin ToSet(pciDropped)
    /\ id[3] # 0 => /\ <<id[1], id[2], 0>> \in DOMAIN machine /\ machine[<<id[1], id[2], 0>>].multi
                    /\ <<<<id[1], id[2], 0>>, "device">> \notin ToSet(pciDropped)}
Listed == {pci_device_list[d].id : d \in 1..Len(pci_device_list)}
Bar(a) == pci_device_list[a[1]].bars[a[2]]
Assigned == {a \in (1..Len(pci_device_list)) \X (1..8) :
    a[2] <= Len(pci_device_list[a[1]].bars) /\ Bar(a).assigned}

\* What drivers rely on after pci_init (src/hw/pci.c, pci_scan_bus, pci_assign_bar):
\* the list never holds a function twice, however the bridges are wired (bridges that
\* share a bus or lead back to one); nothing in it is absent from the machine, and in
\* the end it holds at least every function that bridges of a single function lead to;
\* the addresses the kernel hands out in one space are multiples of the BAR's size, do
\* not overlap, stay within the space and are what the hardware's register holds.
\* (Until rounding wraps: then memory BARs land on address 0.)
PciSound ==
    /\ \A d, e \in 1..Len(pci_device_list) :
          pci_device_list[d].id = pci_device_list[e].id => d = e
    /\ Listed \subseteq DOMAIN machine
    /\ pciScanned => Expected \subseteq Listed
    /\ ~pciWrapped =>
          /\ \A a \in Assigned :
                /\ Bar(a).base % Bar(a).size = 0
                /\ machine[pci_device_list[a[1]].id].bars[a[2]].addr = Bar(a).base
                /\ IF Bar(a).is_io THEN Bar(a).base \in IoFirst..(IoLimit - Bar(a).size)
                   ELSE Bar(a).base \in MemFirst..(MemMod - Bar(a).size)
          /\ \A a, b \in Assigned :
                (a # b /\ Bar(a).is_io = Bar(b).is_io) =>
                    \/ Bar(a).base + Bar(a).size <= Bar(b).base
                    \/ Bar(b).base + Bar(b).size <= Bar(a).base
=============================================================================
