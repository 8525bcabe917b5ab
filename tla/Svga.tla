-------------------------------- MODULE Svga --------------------------------
(***************************************************************************)
(* The screen: the framebuffer's set-up and copy (fb_init and fb_present,  *)
(* src/gfx/fb.c) and the VMware SVGA-II driver (src/hw/svga.c), whose FIFO *)
(* tells the device what to show.  kernel_setup starts with the boot       *)
(* loader's framebuffer and turns to SVGA-II later; fb_present then sends  *)
(* two update commands from a task, and the mouse interrupt two more.      *)
(*                                                                         *)
(* Sizes are in pixels and pages; a page holds PagePx of them.  Pages are  *)
(* numbered from SVGA_FB_VIRT up; addresses have 32 bits, so the numbers   *)
(* go on past the end of the address space from its beginning.  The device *)
(* (external) executes a command when all its words are there and reports  *)
(* BUSY until none is left.                                                *)
(***************************************************************************)
EXTENDS Integers, Sequences, SequencesExt, FiniteSets

CONSTANTS SvDevices,          \* devices, see SvInit
          BootModes,          \* boot framebuffers: [w, h, pitch, bpp]; NoMode: none
          TargetW, TargetH,   \* 1920, 1080
          PagePx,
          FbPage, SpacePage,  \* pages below SVGA_FB_VIRT; pages of the address space
          FifoPage,           \* SVGA_FIFO_VIRT: pages above SVGA_FB_VIRT
          RecursivePage,      \* 0xFFC00000, the page tables: pages above SVGA_FB_VIRT
          Ring,               \* words of the FIFO after its registers
          SvUpdates           \* bound: commands sent

VARIABLES svDev, svBoot,      \* hardware
          svga,               \* [w, h, pitch, bpp, fb_virt, fifo_virt, initialized]
          svPages,            \* page -> what it maps: <<"fb", n>> or <<"fifo", n>>
          fbuf,               \* [front, hw, own, pitch, initialized]: fb and fb_hw
          svPc,               \* boot | svga | switch | run
          svScene, svScreen,  \* the scene drawn last; what the front buffer shows
          NEXT, STOP, svFifo, \* the FIFO's registers and words
          svCpu,              \* who -> [todo, op, word, next, id]
          svSent, svDone,     \* history: commands issued; words of those executed
          svTorn              \* history: the mouse interrupted a command

svVars == <<svDev, svBoot, svga, svPages, fbuf, svPc, svScene, svScreen, NEXT, STOP, svFifo, svCpu,
            svSent, svDone, svTorn>>
fifoVars == <<NEXT, STOP, svFifo, svCpu, svSent, svDone, svTorn>>

NoMode == [w |-> 0, h |-> 0, pitch |-> 0, bpp |-> 0]
Idle == [todo |-> 0, op |-> "idle", word |-> 0, next |-> 0, id |-> 0]
Words == 5
CommandWords(id) == [i \in 1..Words |-> <<id, i>>]

\* A command fits into the FIFO with a word to spare; the windows lie in the order
\* of svga.h below the end of the address space; no FIFO covers half of it, which
\* is the most that a BAR of 32 bits can decode.
ASSUME SvgaAssumption ==
    /\ Ring \in Nat /\ Ring > Words
    /\ PagePx \in Nat \ {0} /\ FbPage \in Nat \ {0} /\ FifoPage \in Nat /\ RecursivePage \in Nat /\ SpacePage \in Nat
    /\ FbPage + RecursivePage < SpacePage
    /\ TargetW \in Nat /\ TargetH \in Nat
    /\ \A d \in SvDevices : /\ d.max[1] \in Nat /\ d.max[2] \in Nat /\ d.pad \in Nat
                            /\ d.fifoPages \in Nat /\ FifoPage + d.fifoPages <= SpacePage
-----------------------------------------------------------------------------
\* A device: bars are "io", "mem" or "none" (base 0); known says that it speaks a
\* protocol of at least SVGA_ID_0; pad is what it adds to a line.
SvInit ==
    /\ svDev \in SvDevices /\ svBoot \in BootModes
    /\ svga = [w |-> 0, h |-> 0, pitch |-> 0, bpp |-> 0, fb_virt |-> FALSE, fifo_virt |-> FALSE, initialized |-> FALSE]
    /\ svPages = <<>> /\ svPc = "boot" /\ svScene = 0 /\ svScreen = "blank"
    /\ fbuf = [front |-> "none", hw |-> NoMode, own |-> FALSE, pitch |-> 0, initialized |-> FALSE]
    /\ NEXT = 0 /\ STOP = 0 /\ svFifo = [i \in 0..(Ring - 1) |-> <<0, 0>>]
    /\ svCpu = [who \in {"task", "mouse"} |-> Idle] /\ svSent = 0 /\ svDone = <<>> /\ svTorn = FALSE

\* fb_init: SVGA-II when it runs, else the boot framebuffer; a back buffer of its
\* own, or the front buffer itself when malloc fails.
fb_init(s, mallocOk) ==
    LET hw == IF s.initialized THEN [w |-> s.w, h |-> s.h, pitch |-> s.pitch, bpp |-> s.bpp] ELSE svBoot
    IN  IF hw = NoMode THEN UNCHANGED fbuf
        ELSE fbuf' = [front |-> IF s.initialized THEN "svga" ELSE "boot", hw |-> hw, own |-> mallocOk,
                      pitch |-> IF mallocOk THEN hw.w ELSE hw.pitch, initialized |-> TRUE]

\* kernel_setup, before interrupts are enabled.
BootFramebuffer(mallocOk) ==
    /\ svPc = "boot" /\ svPc' = "svga" /\ fb_init(svga, mallocOk)
    /\ UNCHANGED <<svDev, svBoot, svga, svPages, svScene, svScreen, fifoVars>>

\* svga_find_device: the roles go by the order of the BARs that have an address.
svga_find_device ==
    LET some == SelectSeq(SubSeq(svDev.bars, 1, IF Len(svDev.bars) < 3 THEN Len(svDev.bars) ELSE 3),
                          LAMBDA b : b # "none")
    IN  Contains(some, "io") /\ Len(SelectSeq(some, LAMBDA b : b = "mem")) >= 2

\* svga_set_resolution: what the device makes of the target, clamped to its maximum.
svga_set_resolution ==
    LET fits == TargetW <= svDev.max[1] /\ TargetH <= svDev.max[2]
        w == IF fits THEN TargetW ELSE svDev.max[1]
    IN  [w |-> w, h |-> IF fits THEN TargetH ELSE svDev.max[2], pitch |-> w + svDev.pad, bpp |-> 32]

\* Sizes and addresses have 32 bits: their sums and products wrap.
Bits32(n) == n % (SpacePage * PagePx)
PagesOf(pixels) == Bits32(pixels + PagePx - 1) \div PagePx
FbSize(s) == Bits32(s.pitch * s.h)
\* What a run of map_page calls leaves when only the first n succeed; a page that
\* was mapped is mapped anew.
MapPages(pages, from, kind, n) ==
    [p \in DOMAIN pages \union (from..(from + n - 1)) |->
        IF p \in from..(from + n - 1) THEN <<kind, p - from>> ELSE pages[p]]

\* svga_map_fb's check, on the wrapped sum.
FbFits(s) == FbSize(s) > 0 /\ Bits32(FbPage * PagePx + FbSize(s)) <= (FbPage + RecursivePage) * PagePx

\* svga_init up to svga.initialized = 1: each step that fails leaves what the earlier
\* ones did, the new mode of the device among it.  got is the number of map_page
\* calls that succeed.
svga_init(gotFb, gotFifo) ==
    LET set    == svga_set_resolution
        found  == svga_find_device /\ svDev.known
        sizeOk == found /\ set.w # 0 /\ set.h # 0 /\ FbFits(set)
        pages  == PagesOf(FbSize(set))
        fbOk   == sizeOk /\ gotFb = pages
        fifoOk == fbOk /\ svDev.fifoPages > 0 /\ gotFifo = svDev.fifoPages
        mapped == IF sizeOk THEN MapPages(svPages, 0, "fb", gotFb) ELSE svPages
    IN  /\ svPc = "svga" /\ svPc' = IF fifoOk THEN "switch" ELSE "run"
        /\ gotFb \in 0..pages /\ gotFifo \in 0..svDev.fifoPages
        /\ svga' = IF found THEN [w |-> set.w, h |-> set.h, pitch |-> set.pitch, bpp |-> set.bpp,
                                  fb_virt |-> fbOk, fifo_virt |-> fifoOk, initialized |-> fifoOk]
                   ELSE svga
        /\ svPages' = IF fbOk THEN MapPages(mapped, FifoPage, "fifo", gotFifo) ELSE mapped
        /\ svScreen' = IF found THEN "blank" ELSE svScreen
        /\ UNCHANGED <<svDev, svBoot, fbuf, svScene, fifoVars>>

\* The rest of svga_init.  Interrupts are on: the mouse may come in between.
SwitchesBuffer(mallocOk) ==
    /\ svPc = "switch" /\ svCpu["mouse"] = Idle /\ svPc' = "run" /\ fb_init(svga, mallocOk)
    /\ UNCHANGED <<svDev, svBoot, svga, svPages, svScene, svScreen, fifoVars>>
-----------------------------------------------------------------------------
\* The device shows the mode it was given; a buffer that svga_init left in use when
\* it failed after that was laid out for another one.
Outdated == fbuf.front = "boot" /\ svga.bpp # 0

\* Something is drawn: into the back buffer, which may be the front buffer.
Draws ==
    /\ svPc = "run" /\ fbuf.initialized /\ svScene = 0 /\ svScene' = 1
    /\ svScreen' = IF fbuf.own THEN svScreen
                  ELSE IF fbuf.hw.bpp = 32 /\ ~Outdated THEN "scene" ELSE "garbled"
    /\ UNCHANGED <<svDev, svBoot, svga, svPages, fbuf, svPc, fifoVars>>

\* fb_present's copy: whole when the lines agree; else 24 bits by bytes, 16 bits
\* from pixels that fb_pack_pixel packed already, and any other depth not at all.
Copied ==
    IF Outdated THEN "garbled"
    ELSE IF fbuf.hw.bpp = 32 /\ fbuf.pitch = fbuf.hw.pitch THEN IF fbuf.own THEN "scene" ELSE svScreen
    ELSE IF fbuf.hw.bpp = 24 /\ fbuf.own THEN "scene"
    ELSE IF fbuf.hw.bpp \in {16, 24} THEN "garbled" ELSE svScreen

\* fb_present: the copy, then svga_update_full and mouse_refresh_cursor.
Present ==
    /\ svPc = "run" /\ svScene = 1 /\ fbuf.initialized /\ svCpu["task"] = Idle /\ svCpu["mouse"] = Idle
    /\ svSent + 2 <= SvUpdates
    /\ svScreen' = Copied
    /\ svScene' = 2
    /\ svCpu' = IF svga.initialized THEN [svCpu EXCEPT !["task"] = [@ EXCEPT !.todo = 2, !.op = "start"]] ELSE svCpu
    /\ UNCHANGED <<svDev, svBoot, svga, svPages, fbuf, svPc, NEXT, STOP, svFifo, svSent, svDone, svTorn>>

\* mouse_handler: cursor_erase_front and cursor_draw_front, whatever the task does,
\* once there is a framebuffer.
InCommand(c) == c.op \in {"store", "advance"} \/ (c.op = "load" /\ c.word > 1)
MouseInterrupt ==
    /\ fbuf.initialized /\ svga.initialized /\ svCpu["mouse"] = Idle /\ svSent + 2 <= SvUpdates
    /\ svCpu' = [svCpu EXCEPT !["mouse"] = [@ EXCEPT !.todo = 2, !.op = "start"]]
    /\ svTorn' = (svTorn \/ InCommand(svCpu["task"]))
    /\ UNCHANGED <<svDev, svBoot, svga, svPages, fbuf, svPc, svScene, svScreen, NEXT, STOP, svFifo, svSent, svDone>>

\* The context that runs: the interrupt handler before the task.
Runs(who) == svCpu[who] # Idle /\ (who = "task" => svCpu["mouse"] = Idle)
Filled == (NEXT - STOP) % Ring
Busy == Filled >= Words \/ (Filled > 0 /\ svFifo[STOP][2] # 1)

\* svga_sync ends when the device is no longer busy; an svga_update_rect begins and
\* ends with one.
svga_sync(who) ==
    /\ Runs(who) /\ svCpu[who].op \in {"start", "end"} /\ ~Busy
    /\ LET c == svCpu[who]
       IN  svCpu' = [svCpu EXCEPT ![who] = IF c.op = "start" THEN [c EXCEPT !.op = "load", !.word = 1]
                                           ELSE IF c.todo = 1 THEN Idle ELSE [c EXCEPT !.todo = c.todo - 1, !.op = "start"]]
    /\ UNCHANGED <<svDev, svBoot, svga, svPages, fbuf, svPc, svScene, svScreen, NEXT, STOP, svFifo, svSent, svDone, svTorn>>

\* svga_fifo_write reads NEXT_CMD, waits for room, writes the word, moves NEXT_CMD.
NextNext_Past(n) == IF n + 1 > Ring THEN 0 ELSE n + 1
NextNext(n) == IF n + 1 >= Ring THEN 0 ELSE n + 1
FifoLoad(who) ==
    /\ Runs(who) /\ svCpu[who].op = "load"
    /\ LET c == svCpu[who]
       IN  /\ svSent' = IF c.word = 1 THEN svSent + 1 ELSE svSent
           /\ svCpu' = [svCpu EXCEPT ![who] = [c EXCEPT !.op = "store", !.next = NEXT,
                                                        !.id = IF c.word = 1 THEN svSent + 1 ELSE c.id]]
    /\ UNCHANGED <<svDev, svBoot, svga, svPages, fbuf, svPc, svScene, svScreen, NEXT, STOP, svFifo, svDone, svTorn>>
FifoStore(who) ==
    /\ Runs(who) /\ svCpu[who].op = "store" /\ NextNext(svCpu[who].next) # STOP
    /\ svFifo' = [svFifo EXCEPT ![svCpu[who].next] = <<svCpu[who].id, svCpu[who].word>>]
    /\ svCpu' = [svCpu EXCEPT ![who].op = "advance"]
    /\ UNCHANGED <<svDev, svBoot, svga, svPages, fbuf, svPc, svScene, svScreen, NEXT, STOP, svSent, svDone, svTorn>>
FifoAdvance(who) ==
    /\ Runs(who) /\ svCpu[who].op = "advance" /\ NEXT' = NextNext(svCpu[who].next)
    /\ LET c == svCpu[who]
       IN  svCpu' = [svCpu EXCEPT ![who] = IF c.word = Words THEN [c EXCEPT !.op = "end"]
                                           ELSE [c EXCEPT !.op = "load", !.word = c.word + 1]]
    /\ UNCHANGED <<svDev, svBoot, svga, svPages, fbuf, svPc, svScene, svScreen, STOP, svFifo, svSent, svDone, svTorn>>

\* The device: a whole SVGA_CMD_UPDATE is executed; a word that is no command is
\* skipped.
DeviceExecutes ==
    /\ svga.initialized /\ Busy
    /\ LET whole == svFifo[STOP][2] = 1
           n == IF whole THEN Words ELSE 1
       IN  /\ STOP' = (STOP + n) % Ring
           /\ svDone' = IF whole THEN Append(svDone, [i \in 1..Words |-> svFifo[(STOP + i - 1) % Ring]]) ELSE svDone
    /\ UNCHANGED <<svDev, svBoot, svga, svPages, fbuf, svPc, svScene, svScreen, NEXT, svFifo, svCpu, svSent, svTorn>>

SvNext ==
    \/ \E ok \in BOOLEAN : BootFramebuffer(ok)
    \/ \E gotFb, gotFifo \in 0..SpacePage : svga_init(gotFb, gotFifo)
    \/ \E ok \in BOOLEAN : SwitchesBuffer(ok)
    \/ Draws \/ Present \/ MouseInterrupt \/ DeviceExecutes
    \/ \E who \in {"task", "mouse"} : svga_sync(who) \/ FifoLoad(who) \/ FifoStore(who) \/ FifoAdvance(who)

SvSpec == SvInit /\ [][SvNext]_svVars
-----------------------------------------------------------------------------
\* The screen as its users rely on it (src/hw/svga.c, src/gfx/fb.c): the device
\* executes the commands issued, whole and in order, and none is outstanding once
\* svga_update_rect has returned, unless the mouse interrupt fell into a command of
\* the task; a surface whose end has an address of 32 bits is never mapped over the
\* recursive page tables, and while it fits below SVGA_FIFO_VIRT each page of the
\* visible one is mapped to its own page of the device; the framebuffer in use is
\* SVGA's from the end of a successful svga_init on, and the boot loader's after a
\* failed one; and a presented scene is on the screen for 24 bits and for 32 bits
\* when the lines of both buffers have the same length, unless svga_init failed
\* after it had switched the mode of the device.
InSpace == FbPage * PagePx + FbSize(svga) < SpacePage * PagePx
ScreenSound ==
    /\ ~svTorn =>
          /\ svDone = [i \in 1..Len(svDone) |-> CommandWords(i)] /\ Len(svDone) <= svSent
          /\ svCpu["task"] = Idle /\ svCpu["mouse"] = Idle => Len(svDone) = svSent
    /\ InSpace => \A p \in DOMAIN svPages : svPages[p][1] = "fb" => p < RecursivePage
    /\ fbuf.front = "svga" => svga.initialized /\ svga.fb_virt
    /\ fbuf.front = "svga" /\ InSpace /\ PagesOf(FbSize(svga)) <= FifoPage =>
          \A p \in 0..(PagesOf(FbSize(svga)) - 1) : svPages[p] = <<"fb", p>>
    /\ fbuf.initialized => fbuf.front # "none" /\ (svPc # "switch" => (fbuf.front = "boot" <=> ~svga.initialized))
    /\ svScene = 2 /\ fbuf.own /\ (fbuf.hw.bpp = 24 \/ (fbuf.hw.bpp = 32 /\ fbuf.hw.w = fbuf.hw.pitch)) /\ ~Outdated
          => svScreen = "scene"

\* svga_map_fb's comment says that its check keeps the mapping of the framebuffer out
\* of the recursive region.  The sum it compares wraps at 32 bits.
MappingClear == \A p \in DOMAIN svPages : svPages[p][1] = "fb" => p < RecursivePage
=============================================================================
