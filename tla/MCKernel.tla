------------------------------ MODULE MCKernel ------------------------------
(***************************************************************************)
(* Start-up, devices, input, executables, the screen and the editor in one *)
(* run.  These modules do not share state, so focus says which of them     *)
(* moves: the state spaces add up instead of multiplying.                  *)
(* The network card is explored once for each direction of traffic.        *)
(***************************************************************************)
EXTENDS KScope, Ide, Nic, Input, Exec, Pci, Editor, Svga, Raster

CONSTANT Foci     \* the components that move in this run
VARIABLE focus

MCPacket == {[dx |-> 1, dy |-> 0, buttons |-> 0], [dx |-> -1, dy |-> 1, buttons |-> 1],
             [dx |-> 0, dy |-> -1, buttons |-> 2], [dx |-> 8, dy |-> 9, buttons |-> 0]}
MCEdFiles == {NoFile, <<"a", "nl", "a">>}

\* Executables with a good and a bad entry point, with and without bss, with good,
\* stray, repeated and unknown relocations, whole and cut short; a table that does
\* not follow the image; and counts and sizes whose sums wrap.
MCTables == {<<>>, <<1, 0>>, <<1, 4, 1, 0>>, <<0, 0, 9, 0>>, <<0, 1>>}
MCFile(table, offset, count, entry, bss, len) ==
    LET all == <<0, 0, 5, 6, 7>> \o table
        least == IF len < Len(all) THEN len ELSE Len(all)
    IN  [well_formed |-> TRUE, image_offset |-> 2, image_size |-> 3, entry |-> entry, bss_size |-> bss,
         reloc_offset |-> IF count = 0 THEN 0 ELSE offset, reloc_count |-> count,
         len |-> least, words |-> [i \in 0 .. least - 1 |-> all[i + 1]]]
MCAmxFile ==
    {MCFile(t, 5, Len(t) \div 2, e, b, l) : t \in MCTables, e \in {0, 3}, b \in {0, 2}, l \in {1, 6, 9}}
    \cup {MCFile(<<1, 0>>, o, c, 0, b, 9) : o \in {3, 5, 11}, c \in {1, 6}, b \in {0, 10, 14}}
MCBeyond == {[i \in 0 .. 64 |-> 0], [i \in 0 .. 64 |-> i % 3]}

\* Machines wired in every way over three buses (bridges that share a bus, lead
\* back or are multi-function), and machines with two devices and all kinds of BARs.
Fn(h, m, s, b) == [header |-> h, multi |-> m, secondary |-> s, bars |-> b, caps |-> <<1>>, command |-> FALSE]
OneBar(k, s, a, t) == <<[kind |-> k, size |-> s, addr |-> a, typed |-> t]>>
NoBars == OneBar("none", 0, 0, FALSE) \o OneBar("none", 0, 0, FALSE)
MCDevice == {Fn("normal", m, 0, <<>>) : m \in BOOLEAN} \cup {Fn("bridge", m, s, NoBars) : m \in BOOLEAN, s \in 1 .. 2}
MCWired == {w @@ (<<2, 1, 0>> :> Fn("bridge", FALSE, 1, NoBars)) @@ (<<0, 1, 1>> :> Fn("normal", FALSE, 0, <<>>)) :
              w \in [{<<0, 0, 0>>, <<0, 1, 0>>, <<1, 0, 0>>} -> MCDevice]}
MCBars == {OneBar("io", s, a, TRUE) : s \in {1, 2}, a \in {0, 6}}
          \cup {OneBar("mem", s, 0, t) : s \in {1, 2, 4}, t \in BOOLEAN}
          \cup {OneBar("mem64", s, a, TRUE) \o OneBar("upper", IF s = 32 THEN 1 ELSE 0, u, FALSE) :
                  s \in {4, 32}, a \in {0, 8}, u \in {0, 1}}
MCMachines == MCWired \cup
    {(<<0, 0, 0>> :> Fn("normal", FALSE, 0, x)) @@ (<<0, 1, 0>> :> Fn("normal", FALSE, 0, y \o z)) :
        x \in {OneBar("mem", 2, 0, TRUE), OneBar("mem64", 4, 8, TRUE) \o OneBar("upper", 0, 0, FALSE)},
        y \in MCBars,
        z \in {OneBar("io", 2, 0, TRUE), OneBar("mem", 4, 0, TRUE),
               OneBar("mem64", 4, 0, TRUE) \o OneBar("upper", 0, 0, FALSE)}}

\* A device that works, devices that fail at each step of svga_init, devices whose
\* mode is padded, clamped, too large for the window, past the end of the address
\* space or as large as it, and one whose FIFO reaches past the window; every kind of
\* boot framebuffer, also for a device that is not found or fails late.
MCGoodDevice == [bars |-> <<"io", "mem", "mem">>, known |-> TRUE, max |-> <<2, 2>>, pad |-> 0, fifoPages |-> 1]
MCSvDevices ==
    {[MCGoodDevice EXCEPT !.bars = b] : b \in {<<"io", "mem", "mem">>, <<"io", "none", "mem">>, <<"io", "mem">>}}
    \cup {[MCGoodDevice EXCEPT !.known = FALSE], [MCGoodDevice EXCEPT !.fifoPages = 0], [MCGoodDevice EXCEPT !.pad = 1]}
    \cup {[MCGoodDevice EXCEPT !.max = m] : m \in {<<3, 2>>, <<1, 4>>, <<1, 8>>, <<1, 11>>, <<1, 12>>, <<1, 15>>, <<1, 16>>, <<0, 2>>}}
    \cup {[MCGoodDevice EXCEPT !.fifoPages = 5]}
MCBootModes == {NoMode} \cup
    {[w |-> 2, h |-> 1, pitch |-> p, bpp |-> b] : p \in {2, 3}, b \in {16, 24, 32}}

\* Calls on, across and off every side of the surface, with sizes from negative to
\* larger than it.
MCRasterCalls ==
    {[op |-> o, x |-> x, y |-> y, w |-> w, h |-> h] :
        o \in {"rect", "outline", "bevel"}, x \in {-1, 0, 2, 5}, y \in {-1, 0, 3}, w \in {-1, 0, 1, 3, 9}, h \in {-1, 0, 2, 6}}
    \cup {[op |-> o, x |-> x, y |-> y, x1 |-> x1, y1 |-> y1, w |-> 4] :
        o \in {"line", "thick"}, x \in {-1, 2, 5}, y \in 0..2, x1 \in {-2, 0, 3, 7}, y1 \in {-1, 1, 3, 5}}
    \cup {[op |-> o, x |-> x, y |-> y, w |-> r] :
        o \in {"circle", "disc"}, x \in {-1, 2, 5}, y \in {0, 2, 6}, r \in {0, 1, 2, 3, 4, 5, 6, 7, 9}}
    \cup {[op |-> "string", x |-> x, y |-> y, w |-> w] : x \in {-2, 0, 3}, y \in {-1, 0, 2}, w \in 0..3}
    \cup {[op |-> "progress", x |-> x, y |-> y, w |-> w, h |-> h, percent |-> p] :
        x \in 0..2, y \in 0..1, w \in {1, 2, 5, 8}, h \in {2, 3, 7}, p \in {0, 1, 50, 100}}
    \cup {[op |-> "button", x |-> x, y |-> y, w |-> w, h |-> h, length |-> l] :
        x \in 0..1, y \in 0..1, w \in {3, 4, 9}, h \in {4, 5}, l \in 0..2}
    \cup {[op |-> "list", h |-> h, count |-> n, selected |-> s] : h \in {3, 13, 14, 24, 44}, n \in 5..6, s \in 0..4}
    \cup {[op |-> "arc", start |-> s, end |-> e, step |-> t] : s \in -2..12, e \in -2..12, t \in {2, 3, 5}}
    \cup {[op |-> "sector", start |-> s, end |-> e] : s \in -2..12, e \in -2..12}

\* A component out of focus starts in one of its initial states and stays there.
Fixed(f, P) == focus = f \/ (focus # f /\ P)
Init ==
    /\ focus \in Foci
    /\ Fixed("kscope", requires = [n \in KNode |-> {}] /\ ksId = [n \in KNode |-> n])
    /\ \/ focus \in {"receive", "send"}
       \/ focus \notin {"receive", "send"} /\ lu = FALSE
    /\ exFile = CHOOSE f \in AmxFile : TRUE
    /\ IF focus = "pci" THEN PciInit ELSE Boot(CHOOSE m \in MCWired : TRUE)
    /\ Fixed("editor", edFile = NoFile)
    /\ Fixed("screen", svDev = MCGoodDevice)
    /\ KsInit /\ IdeInit /\ NicInit /\ KbdInit /\ MouseInit /\ ExecInit /\ EdInit /\ SvInit /\ RasInit
    /\ svBoot = NoMode \/ (focus = "screen" /\ (svDev.bars = <<"io", "mem">> \/ svDev.fifoPages # 1))

Next ==
    /\ UNCHANGED focus
    /\ \/ focus = "kscope" /\ KsNext /\ UNCHANGED <<ideVars, nicVars, kbdVars, mouseVars, execVars, pciVars, edVars, svVars, rasVars>>
       \/ focus = "ide" /\ IdeNext /\ UNCHANGED <<ksVars, nicVars, kbdVars, mouseVars, execVars, pciVars, edVars, svVars, rasVars>>
       \/ focus = "receive" /\ NicReceive /\ UNCHANGED <<ksVars, ideVars, kbdVars, mouseVars, execVars, pciVars, edVars, svVars, rasVars>>
       \/ focus = "send" /\ NicSend /\ UNCHANGED <<ksVars, ideVars, kbdVars, mouseVars, execVars, pciVars, edVars, svVars, rasVars>>
       \/ focus \in {"receive", "send"} /\ NicStart /\ UNCHANGED <<ksVars, ideVars, kbdVars, mouseVars, execVars, pciVars, edVars, svVars, rasVars>>
       \/ focus = "keyboard" /\ KbdNext /\ UNCHANGED <<ksVars, ideVars, nicVars, mouseVars, execVars, pciVars, edVars, svVars, rasVars>>
       \/ focus = "mouse" /\ MouseNext /\ UNCHANGED <<ksVars, ideVars, nicVars, kbdVars, execVars, pciVars, edVars, svVars, rasVars>>
       \/ focus = "exec" /\ ExecNext /\ UNCHANGED <<ksVars, ideVars, nicVars, kbdVars, mouseVars, pciVars, edVars, svVars, rasVars>>
       \/ focus = "pci" /\ PciNext /\ UNCHANGED <<ksVars, ideVars, nicVars, kbdVars, mouseVars, execVars, edVars, svVars, rasVars>>
       \/ focus = "editor" /\ EdNext /\ UNCHANGED <<ksVars, ideVars, nicVars, kbdVars, mouseVars, execVars, pciVars, svVars, rasVars>>
       \/ focus = "screen" /\ SvNext /\ UNCHANGED <<ksVars, ideVars, nicVars, kbdVars, mouseVars, execVars, pciVars, edVars, rasVars>>
       \/ focus = "raster" /\ RasNext /\ UNCHANGED <<ksVars, ideVars, nicVars, kbdVars, mouseVars, execVars, pciVars, edVars, svVars>>

vars == <<focus, ksVars, ideVars, nicVars, kbdVars, mouseVars, execVars, pciVars, edVars, svVars, rasVars>>

\* The keyboard's fairness: a key that is down is answered by an interrupt, and a
\* reader that may go on goes on (see Input).
Spec == Init /\ [][Next]_vars /\ KbdFairness
=============================================================================
