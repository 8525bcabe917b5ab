------------------------------- MODULE Windows -------------------------------
(***************************************************************************)
(* The window manager (gfx/window.c), what the compositor paints of it     *)
(* (gfx/compositor.c) and the window system calls (kernel/syscall.c).      *)
(*                                                                         *)
(* One row of the desktop is modelled: each row of a window is copied by   *)
(* the same code.  Nothing says whose a handle is: window_* and the system *)
(* calls, which change the state field without the z-order, may both be    *)
(* used on one window.  Colours, titles, frames and drawing inside a       *)
(* window are left out; dirty is set by every call and never cleared.      *)
(***************************************************************************)
EXTENDS Integers, Sequences, SequencesExt, FiniteSets

CONSTANTS Slot,        \* 0 .. WIN_MAX_WINDOWS - 1
          GenMod,      \* 2^16: a handle keeps the generation modulo this
          Creations,   \* windows explored
          ScreenWidth, \* of the frame buffer
          WinX, WinW   \* places and widths

ASSUME WinAssumption ==
    /\ Slot \subseteq Nat /\ IsFiniteSet(Slot) /\ {GenMod, Creations, ScreenWidth} \subseteq Nat \ {0}
    /\ WinX \subseteq Int /\ WinW \subseteq Nat \ {0}

VARIABLES windows,     \* slot -> [valid, generation, state, focused, x, width, pixels] and by (history)
          z_order,     \* handles, the top one last
          next_generation,
          dead         \* history: handles of windows that were destroyed

winVars == <<windows, z_order, next_generation, dead>>

(* win_state_t as the numbers the system calls use as bits.                *)
HIDDEN == 0
VISIBLE == 1
FOCUSED == 2
-----------------------------------------------------------------------------
Handle(slot, gen) == [id |-> slot, gen |-> gen % GenMod]
window_get(h) == windows[h.id].valid /\ windows[h.id].generation = h.gen
Live == {h \in {Handle(s, windows[s].generation) : s \in Slot} : window_get(h)}

z_order_index(z, h) ==
    IF Contains(z, h) THEN CHOOSE i \in DOMAIN z : z[i] = h /\ \A j \in DOMAIN z : z[j] = h => i <= j ELSE 0
z_order_remove(z, h) ==
    LET idx == z_order_index(z, h)
    IN  IF idx = 0 THEN z ELSE [i \in 1 .. Len(z) - 1 |-> IF i < idx THEN z[i] ELSE z[i + 1]]
z_order_push_top(z, h) == IF Len(z) >= Cardinality(Slot) THEN z ELSE Append(z, h)

WinInit ==
    /\ windows = [s \in Slot |-> [valid |-> FALSE, generation |-> 0, state |-> HIDDEN, focused |-> FALSE,
                                  x |-> 0, width |-> 1, pixels |-> FALSE, by |-> "kernel"]]
    /\ z_order = <<>> /\ next_generation = 1 /\ dead = {}

(* The first free slot; a window without memory for its pixels goes back.  *)
(* The generation is used up either way.                                   *)
window_create(x, w, mallocOk) ==
    /\ next_generation <= Creations
    /\ \E slot \in {s \in Slot : ~windows[s].valid} :
          /\ \A s \in Slot : ~windows[s].valid => slot <= s
          /\ windows' = [windows EXCEPT ![slot] =
                            [valid |-> mallocOk, generation |-> next_generation, state |-> VISIBLE, focused |-> FALSE,
                             x |-> x, width |-> w, pixels |-> mallocOk, by |-> "kernel"]]
          /\ z_order' = IF mallocOk THEN z_order_push_top(z_order, Handle(slot, next_generation)) ELSE z_order
    /\ next_generation' = next_generation + 1 /\ UNCHANGED dead

(* A handle whose generation does not fit in it matches nothing.           *)
Unlisted_Not(z, h) == z
Unlisted(z, h) == z_order_remove(z, h)
window_destroy(h) ==
    /\ window_get(h)
    /\ windows' = [windows EXCEPT ![h.id].valid = FALSE, ![h.id].generation = 0, ![h.id].pixels = FALSE]
    /\ z_order' = Unlisted(z_order, h) /\ dead' = dead \cup {h} /\ UNCHANGED next_generation

window_move(h, x) ==
    /\ window_get(h) /\ windows' = [windows EXCEPT ![h.id].x = x]
    /\ UNCHANGED <<z_order, next_generation, dead>>

(* The old pixels are freed before new ones are found.                     *)
window_resize(h, w, mallocOk) ==
    /\ window_get(h) /\ windows' = [windows EXCEPT ![h.id].width = w, ![h.id].pixels = mallocOk]
    /\ UNCHANGED <<z_order, next_generation, dead>>

window_show(h) ==
    /\ window_get(h) /\ windows[h.id].state # VISIBLE
    /\ windows' = [windows EXCEPT ![h.id].state = VISIBLE]
    /\ z_order' = IF Contains(z_order, h) THEN z_order ELSE z_order_push_top(z_order, h)
    /\ UNCHANGED <<next_generation, dead>>

window_hide(h) ==
    /\ window_get(h) /\ windows[h.id].state = VISIBLE
    /\ windows' = [windows EXCEPT ![h.id].state = HIDDEN, ![h.id].focused = FALSE]
    /\ z_order' = z_order_remove(z_order, h) /\ UNCHANGED <<next_generation, dead>>

window_raise(h) ==
    /\ window_get(h) /\ windows[h.id].state = VISIBLE
    /\ z_order' = z_order_push_top(z_order_remove(z_order, h), h)
    /\ UNCHANGED <<windows, next_generation, dead>>

window_focus(h) ==
    /\ window_get(h) /\ windows[h.id].state = VISIBLE
    /\ windows' = [s \in Slot |-> [windows[s] EXCEPT !.focused = IF windows[s].valid THEN s = h.id ELSE @]]
    /\ z_order' = z_order_push_top(z_order_remove(z_order, h), h)
    /\ UNCHANGED <<next_generation, dead>>

(* _win_show, _win_hide and _win_set_active set and clear bits of state;   *)
(* VISIBLE with FOCUSED is the number of WIN_STATE_MINIMIZED.  The loop of *)
(* _win_set_active over all windows passes indexes for handles, which are  *)
(* of generation 0 and match no window.  by records that a system call has *)
(* set the state.                                                          *)
SetBit(n, bit) == IF (n \div bit) % 2 = 1 THEN n ELSE n + bit
ClearBit(n, bit) == IF (n \div bit) % 2 = 1 THEN n - bit ELSE n
SetState(h, st) ==
    /\ window_get(h) /\ windows' = [windows EXCEPT ![h.id].state = st, ![h.id].by = "program"]
    /\ UNCHANGED <<z_order, next_generation, dead>>
_win_show(h) == SetState(h, SetBit(windows[h.id].state, VISIBLE))
_win_hide(h) == SetState(h, ClearBit(windows[h.id].state, VISIBLE))
_win_set_active(h) == SetState(h, SetBit(windows[h.id].state, FOCUSED))

\* C divides towards zero.
Centred(w) == IF w <= ScreenWidth THEN (ScreenWidth - w) \div 2 ELSE -((w - ScreenWidth) \div 2)
_win_create(w, mallocOk) == window_create(Centred(w), w, mallocOk)

WinNext ==
    \/ \E x \in WinX, w \in WinW, ok \in BOOLEAN : window_create(x, w, ok)
    \/ \E w \in WinW, ok \in BOOLEAN : _win_create(w, ok)
    \/ \E h \in Live :
          \/ window_show(h) \/ window_hide(h) \/ window_raise(h) \/ window_focus(h) \/ window_destroy(h)
          \/ \E x \in WinX : window_move(h, x)
          \/ \E w \in WinW, ok \in BOOLEAN : window_resize(h, w, ok)
          \/ _win_show(h) \/ _win_hide(h) \/ _win_set_active(h)

WinSpec == WinInit /\ [][WinNext]_winVars
-----------------------------------------------------------------------------
(* compositor_render paints the windows of z_order from the bottom up,     *)
(* each clipped by compositor_blit_window.  Positions count from the start *)
(* of the row: one from ScreenWidth on is a pixel of the next row.  x0 is  *)
(* still negative where the right edge is tested.                          *)
compositor_blit_window(win) ==
    LET skip   == IF win.x < 0 THEN -win.x ELSE 0
        copy   == win.width - skip
        copy_w == IF win.x + copy > ScreenWidth THEN ScreenWidth - win.x ELSE copy
    IN  IF win.state # VISIBLE \/ ~win.pixels \/ copy_w <= 0 THEN {}
        ELSE (win.x + skip) .. (win.x + skip + copy_w - 1)

\* The places in z_order that paint pixel p; the last of them is what shows.
compositor_render(p) == {i \in DOMAIN z_order : p \in compositor_blit_window(windows[z_order[i].id])}

\* The search from the top goes through these places and returns the last.
window_at(p) ==
    {i \in DOMAIN z_order :
        LET win == windows[z_order[i].id]
        IN  window_get(z_order[i]) /\ win.state = VISIBLE /\ p >= win.x /\ p < win.x + win.width}

\* Wider than the screen and beyond it on both sides: copied past the row.
Overhangs(win) == win.x < 0 /\ win.x + win.width > ScreenWidth

(* The window manager (src/gfx/window.c) and the compositor.  Until the    *)
(* generation of a handle wraps (65,536 windows): z_order holds live       *)
(* windows, each once, so compositor_render finds one behind every handle; *)
(* at most one window has the focus; a handle kept after its window was    *)
(* destroyed never answers for a later window in the same slot.  A window  *)
(* whose state only window_* has set is in z_order when it is visible and  *)
(* visible when it has the focus (a system call may show one that is not   *)
(* on the list and hide one that has the focus).  And where every window   *)
(* has its pixels and none overhangs both sides of the screen, nothing is  *)
(* painted outside the row, and the windows that a click can find          *)
(* (window_at) are those painted there, the top one last.                  *)
WindowsSound ==
    next_generation <= GenMod =>
        /\ IsInjective(z_order)
        /\ \A i \in DOMAIN z_order : window_get(z_order[i])
        /\ \A s \in Slot : windows[s].valid /\ windows[s].by = "kernel" =>
              /\ windows[s].state = VISIBLE => Contains(z_order, Handle(s, windows[s].generation))
              /\ windows[s].focused => windows[s].state = VISIBLE
        /\ \A s, t \in Slot : windows[s].valid /\ windows[s].focused /\ windows[t].valid /\ windows[t].focused => s = t
        /\ \A h \in dead : ~window_get(h)
        /\ (\A s \in Slot : windows[s].valid => windows[s].pixels /\ ~Overhangs(windows[s])) =>
              /\ \A i \in DOMAIN z_order : compositor_blit_window(windows[z_order[i].id]) \subseteq 0 .. ScreenWidth - 1
              /\ \A p \in 0 .. ScreenWidth - 1 : compositor_render(p) = window_at(p)
=============================================================================
