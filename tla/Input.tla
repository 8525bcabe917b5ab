-------------------------------- MODULE Input --------------------------------
(***************************************************************************)
(* The PS/2 keyboard and mouse drivers (drivers/keyboard.c, mouse.c) with  *)
(* the cursor they paint over the frame buffer (gfx/fb.c, fb_present).     *)
(*                                                                         *)
(* The devices are external: a key that goes down, up or repeats, and a    *)
(* mouse that moves, put bytes in the controller; an interrupt hands over  *)
(* one byte.  Code between cli and sti is one step.  A key's scan codes    *)
(* are <<"make", key>> and <<"break", key>>; a mouse byte is a number,     *)
(* because the driver tells bytes apart only by their bits.  The cursor is *)
(* one pixel and a scene one value.                                        *)
(*                                                                         *)
(* Both shift keys set and clear one flag, so letting one go while the     *)
(* other is held clears it.  The modifiers of a key are therefore taken as *)
(* the last shift and control events left them, not as the keys held.      *)
(***************************************************************************)
EXTENDS Integers, Sequences, SequencesExt, FiniteSets

CONSTANTS KeyName,      \* the keys of the keyboard
          KbdSize,      \* KEYBOARD_BUFFER_SIZE
          KeyEvents,    \* key events explored
          Packet,       \* mouse packets: [dx, dy, buttons]
          Packets,      \* packets explored
          Width, Height \* the screen

ASSUME InputAssumption ==
    /\ {KbdSize, Width, Height} \subseteq Nat \ {0}
    /\ "shift" \notin KeyName
    /\ Packet \subseteq [dx : -256 .. 255, dy : -256 .. 255, buttons : 0 .. 7]

VARIABLES down,         \* external: keys held, and "shift" when the last shift event was a press
          kbdBytes,     \* external: scan codes in the controller
          key_state, shift_down, ctrl_down, expecting_e0,
          key_buffer, buffer_head, buffer_tail,
          reader,       \* buffer_get: away | check | halted; reset_keyboard_state: flush | prefix | shift
          typed,        \* history: [due : characters typed, got : characters read,
                        \*           made : characters decoded, lost : those the buffer refused]
          keyEvents,
          forgot        \* history: a reset cleared what the driver knew of the keys

kbdVars == <<down, kbdBytes, key_state, shift_down, ctrl_down, expecting_e0,
             key_buffer, buffer_head, buffer_tail, reader, typed, keyEvents, forgot>>

VARIABLES mousePc,      \* init_mouse: [todo : commands, retry]; handler registered when todo = <<>>
          auxBytes,     \* external: mouse bytes in the controller
          mouse_cycle, mouse_bytes, pointer, mouse_buttons,
          front, shown, cursor,   \* the screen, the scene last presented, [at, under]
          painter,      \* fb_present or a reset: [pc, left : pixels to copy, at : where the cursor goes]
          moved,        \* history: [at, buttons, sent], what the mouse says
          torn          \* history: a packet was cut by a reset, or a present by the handler

mouseVars == <<mousePc, auxBytes, mouse_cycle, mouse_bytes, pointer, mouse_buttons,
               front, shown, cursor, painter, moved, torn>>
-----------------------------------------------------------------------------
Extended0 == {"up", "home"} \* keys sent with the E0 prefix; only arrows have a code
Shift == {"lshift", "rshift"}
Modifier == Shift \cup {"ctrl"}
E0 == <<"e0">>
scancode_map(k, shift) == CASE k = "a" -> IF shift THEN "A" ELSE "a"
                            [] k = "1" -> IF shift THEN "!" ELSE "1"
                            [] OTHER -> ""
Decoded(k, shift, ctrl) ==
    IF k = "up" THEN "KEY_UP"
    ELSE IF ctrl /\ k = "a" THEN "^A" ELSE scancode_map(k, shift)
Buffered == [i \in 1 .. (buffer_head - buffer_tail + KbdSize) % KbdSize |->
                key_buffer[(buffer_tail + i - 1) % KbdSize]]

KbdInit ==
    /\ down = {} /\ kbdBytes = <<>> /\ key_state = {} /\ shift_down = FALSE /\ ctrl_down = FALSE
    /\ expecting_e0 = FALSE /\ key_buffer = [i \in 0 .. KbdSize - 1 |-> ""]
    /\ buffer_head = 0 /\ buffer_tail = 0 /\ reader = "away" /\ keyEvents = 0 /\ forgot = FALSE
    /\ typed = [due |-> <<>>, got |-> <<>>, made |-> 0, lost |-> {}]

(* The keyboard (external).  What a key should type is known when it goes  *)
(* down; an arrow key types again when it repeats, another key does not.   *)
Sets(k) == {k} \cup (IF k \in Shift THEN {"shift"} ELSE {})
KeyMoves(k, how) ==
    /\ keyEvents < KeyEvents /\ keyEvents' = keyEvents + 1
    /\ (k \in down) = (how # "press")
    /\ down' = IF how = "release" THEN down \ Sets(k) ELSE down \cup Sets(k)
    /\ kbdBytes' = kbdBytes \o (IF k \in Extended0 THEN <<E0>> ELSE <<>>)
                            \o <<<<IF how = "release" THEN "break" ELSE "make", k>>>>
    /\ LET c == Decoded(k, "shift" \in down, "ctrl" \in down)
       IN  typed' = IF c # "" /\ (how = "press" \/ (how = "repeat" /\ k \in Extended0))
                    THEN [typed EXCEPT !.due = Append(@, c)] ELSE typed
    /\ UNCHANGED <<key_state, shift_down, ctrl_down, expecting_e0, key_buffer, buffer_head, buffer_tail, reader, forgot>>

buffer_put(c) ==
    LET next == (buffer_head + 1) % KbdSize
    IN  IF next = buffer_tail
        THEN /\ typed' = [typed EXCEPT !.made = @ + 1, !.lost = @ \cup {typed.made + 1}]
             /\ UNCHANGED <<key_buffer, buffer_head>>
        ELSE /\ typed' = [typed EXCEPT !.made = @ + 1]
             /\ key_buffer' = [key_buffer EXCEPT ![buffer_head] = c] /\ buffer_head' = next

(* An interrupt is taken outside cli, also by the hlt that waits for one.  *)
Interruptible_NotHalted(pc) == pc \notin {"check", "halted"}
Interruptible(pc) == pc # "check"
Woken == reader' = IF reader = "halted" THEN "check" ELSE reader

(* The five ways a byte is handled: the prefix, an extended key, a         *)
(* modifier, a release, and a first or repeated press.                     *)
keyboard_callback ==
    /\ kbdBytes # <<>> /\ Interruptible(reader)
    /\ kbdBytes' = Tail(kbdBytes) /\ Woken
    /\ LET b == Head(kbdBytes)
       IN  \/ /\ b = E0 /\ expecting_e0' = TRUE
              /\ UNCHANGED <<key_state, shift_down, ctrl_down, key_buffer, buffer_head, typed>>
           \/ /\ b # E0 /\ expecting_e0 /\ expecting_e0' = FALSE
              /\ IF b # <<"make", "up">> THEN UNCHANGED <<key_buffer, buffer_head, typed>>
                 ELSE buffer_put("KEY_UP")
              /\ UNCHANGED <<key_state, shift_down, ctrl_down>>
           \/ /\ b # E0 /\ ~expecting_e0 /\ b[2] \in Modifier
              /\ shift_down' = IF b[2] \in Shift THEN b[1] = "make" ELSE shift_down
              /\ ctrl_down' = IF b[2] = "ctrl" THEN b[1] = "make" ELSE ctrl_down
              /\ UNCHANGED <<expecting_e0, key_state, key_buffer, buffer_head, typed>>
           \/ /\ b # E0 /\ ~expecting_e0 /\ b[2] \notin Modifier
              /\ key_state' = IF b[1] = "break" THEN key_state \ {b[2]} ELSE key_state \cup {b[2]}
              /\ LET c == Decoded(b[2], shift_down, ctrl_down)
                 IN  IF b[1] = "break" \/ b[2] \in key_state \/ c = ""
                     THEN UNCHANGED <<key_buffer, buffer_head, typed>> ELSE buffer_put(c)
              /\ UNCHANGED <<expecting_e0, shift_down, ctrl_down>>
    /\ UNCHANGED <<down, buffer_tail, keyEvents, forgot>>

(* Any other interrupt also ends a hlt.                                    *)
OtherInterrupt ==
    /\ reader = "halted" /\ Interruptible(reader) /\ Woken
    /\ UNCHANGED <<down, kbdBytes, key_state, shift_down, ctrl_down, expecting_e0,
                   key_buffer, buffer_head, buffer_tail, typed, keyEvents, forgot>>

keyboard_getchar ==
    /\ reader = "away" /\ reader' = "check"
    /\ UNCHANGED <<down, kbdBytes, key_state, shift_down, ctrl_down, expecting_e0,
                   key_buffer, buffer_head, buffer_tail, typed, keyEvents, forgot>>

Take ==
    /\ buffer_tail' = (buffer_tail + 1) % KbdSize
    /\ typed' = [typed EXCEPT !.got = Append(@, key_buffer[buffer_tail])]

buffer_get ==
    /\ reader = "check"
    /\ IF buffer_head = buffer_tail THEN reader' = "halted" /\ UNCHANGED <<buffer_tail, typed>>
       ELSE reader' = "away" /\ Take
    /\ UNCHANGED <<down, kbdBytes, key_state, shift_down, ctrl_down, expecting_e0,
                   key_buffer, buffer_head, keyEvents, forgot>>

keyboard_poll ==
    /\ reader = "away" /\ buffer_head # buffer_tail /\ Take
    /\ UNCHANGED <<down, kbdBytes, key_state, shift_down, ctrl_down, expecting_e0,
                   key_buffer, buffer_head, reader, keyEvents, forgot>>

Flush ==
    /\ buffer_head' = 0 /\ buffer_tail' = 0
    /\ typed' = [typed EXCEPT !.got = @ \o Buffered]
    /\ UNCHANGED <<down, kbdBytes, key_state, shift_down, ctrl_down, expecting_e0, key_buffer, keyEvents, forgot>>
keyboard_flush == reader = "away" /\ reader' = "away" /\ Flush

(* The reset forgets the keys in four stretches, interrupts on between     *)
(* them; the control flag stays.  Nothing in the repository calls it.      *)
reset_keyboard_state ==
    \/ /\ reader = "away" /\ reader' = "flush"
       /\ key_state' = {} /\ forgot' = (forgot \/ key_state # {})
       /\ UNCHANGED <<down, kbdBytes, shift_down, ctrl_down, expecting_e0,
                      key_buffer, buffer_head, buffer_tail, typed, keyEvents>>
    \/ reader = "flush" /\ reader' = "prefix" /\ Flush
    \/ /\ reader = "prefix" /\ reader' = "shift"
       /\ expecting_e0' = FALSE /\ forgot' = (forgot \/ expecting_e0)
       /\ UNCHANGED <<down, kbdBytes, key_state, shift_down, ctrl_down,
                      key_buffer, buffer_head, buffer_tail, typed, keyEvents>>
    \/ /\ reader = "shift" /\ reader' = "away"
       /\ shift_down' = FALSE /\ forgot' = (forgot \/ shift_down)
       /\ UNCHANGED <<down, kbdBytes, key_state, ctrl_down, expecting_e0,
                      key_buffer, buffer_head, buffer_tail, typed, keyEvents>>

KbdNext ==
    \/ \E k \in KeyName, how \in {"press", "release", "repeat"} : KeyMoves(k, how)
    \/ keyboard_callback \/ OtherInterrupt \/ keyboard_getchar \/ buffer_get \/ keyboard_poll \/ keyboard_flush
    \/ reset_keyboard_state

(* The controller asks for its interrupt until the byte is read, and the   *)
(* processor takes it between two cli even when other interrupts end every *)
(* hlt: strong fairness.  A reader out of hlt runs on.  Nothing makes      *)
(* anyone press a key or read one.                                         *)
KbdFairness == SF_kbdVars(keyboard_callback) /\ WF_kbdVars(buffer_get)
-----------------------------------------------------------------------------
Screen == (0 .. Width - 1) \X (0 .. Height - 1)
Centre == <<Width \div 2, Height \div 2>>
Bit(b, mask) == (b \div mask) % 2 = 1
Clamp(n, max) == IF n < 0 THEN 0 ELSE IF n > max THEN max ELSE n
Moved(at, dx, dy) == <<Clamp(at[1] + dx, Width - 1), Clamp(at[2] - dy, Height - 1)>>

MouseInit ==
    /\ mousePc = [todo |-> <<"reset", "self_test", "defaults", "stream">>, retry |-> 0]
    /\ auxBytes = <<>> /\ mouse_cycle = 0 /\ mouse_bytes = <<0, 0, 0>>
    /\ pointer = Centre /\ mouse_buttons = 0
    /\ front = [p \in Screen |-> "boot"] /\ shown = "boot" /\ cursor = [at |-> <<>>, under |-> ""]
    /\ painter = [pc |-> "away", left |-> {}, at |-> Centre] /\ moved = [at |-> Centre, buttons |-> 0, sent |-> 0]
    /\ torn = [packet |-> FALSE, screen |-> FALSE]

(* init_mouse: each command is sent up to three times while the mouse asks *)
(* for it again; any other answer ends the start of the driver.            *)
mouse_send_cmd(resp) ==
    /\ mousePc.todo # <<>> /\ Head(mousePc.todo) # "failed"
    /\ LET again == Head(mousePc.todo) # "self_test" /\ resp = "resend" /\ mousePc.retry < 2
       IN  mousePc' = IF resp = "good" THEN [todo |-> Tail(mousePc.todo), retry |-> 0]
                      ELSE IF again THEN [mousePc EXCEPT !.retry = @ + 1]
                      ELSE [mousePc EXCEPT !.todo = <<"failed">>]
    /\ UNCHANGED <<auxBytes, mouse_cycle, mouse_bytes, pointer, mouse_buttons, front, shown, cursor, painter, moved, torn>>

(* The mouse (external) sends a movement as three bytes.                   *)
MouseMoves(p) ==
    /\ mousePc.todo = <<>> /\ moved.sent < Packets
    /\ moved' = [at |-> Moved(moved.at, p.dx, p.dy), buttons |-> p.buttons, sent |-> moved.sent + 1]
    /\ auxBytes' = auxBytes \o <<8 + (IF p.dx < 0 THEN 16 ELSE 0) + (IF p.dy < 0 THEN 32 ELSE 0) + p.buttons,
                                 p.dx % 256, p.dy % 256>>
    /\ UNCHANGED <<mousePc, mouse_cycle, mouse_bytes, pointer, mouse_buttons, front, shown, cursor, painter, torn>>

Painting == painter.pc \in {"copy", "under", "draw"}
cursor_erase_front == IF cursor.at = <<>> THEN front ELSE [front EXCEPT ![cursor.at] = cursor.under]
cursor_draw_front(screen, at) ==
    /\ cursor' = [at |-> at, under |-> screen[at]]
    /\ front' = [screen EXCEPT ![at] = "cursor"]

(* A first byte without bit 3 is thrown away; the third one completes a    *)
(* packet: the pointer moves and the cursor is painted again.              *)
Synced(b) == Bit(b, 8)
Signed_Byte(b, negative) == b
Signed(b, negative) == b - (IF negative THEN 256 ELSE 0)
mouse_handler ==
    /\ auxBytes # <<>> /\ auxBytes' = Tail(auxBytes)
    /\ LET b  == Head(auxBytes)
           b0 == mouse_bytes[1]
       IN  \/ /\ mouse_cycle < 2
              /\ IF mouse_cycle = 0 /\ ~Synced(b) THEN UNCHANGED <<mouse_bytes, mouse_cycle>>
                 ELSE mouse_bytes' = [mouse_bytes EXCEPT ![mouse_cycle + 1] = b] /\ mouse_cycle' = mouse_cycle + 1
              /\ UNCHANGED <<pointer, mouse_buttons, front, cursor, torn>>
           \/ /\ mouse_cycle = 2 /\ mouse_cycle' = 0
              /\ mouse_bytes' = [mouse_bytes EXCEPT ![3] = b]
              /\ pointer' = Moved(pointer, Signed(mouse_bytes[2], Bit(b0, 16)), Signed(b, Bit(b0, 32)))
              /\ mouse_buttons' = b0 % 8
              /\ cursor_draw_front(cursor_erase_front, pointer')
              /\ torn' = [packet |-> torn.packet \/ painter.pc = "reset", screen |-> torn.screen \/ Painting]
    /\ UNCHANGED <<mousePc, shown, painter, moved>>

(* fb_present copies the scene to the screen, pixel after pixel, then      *)
(* paints the cursor without restoring what was under the old one.  The    *)
(* handler may run between any two of these steps and paint too.           *)
fb_present(scene) ==
    /\ painter.pc = "away" /\ painter' = [painter EXCEPT !.pc = "copy", !.left = Screen]
    /\ shown' = scene /\ torn' = [torn EXCEPT !.screen = FALSE]
    /\ UNCHANGED <<mousePc, auxBytes, mouse_cycle, mouse_bytes, pointer, mouse_buttons, front, cursor, moved>>

CopyPixel ==
    /\ painter.pc = "copy"
    /\ \E p \in painter.left :
          /\ \A q \in painter.left : p[2] < q[2] \/ (p[2] = q[2] /\ p[1] <= q[1])
          /\ front' = [front EXCEPT ![p] = shown] /\ painter' = [painter EXCEPT !.left = @ \ {p}]
    /\ UNCHANGED <<mousePc, auxBytes, mouse_cycle, mouse_bytes, pointer, mouse_buttons, shown, cursor, moved, torn>>

mouse_refresh_cursor ==
    /\ \/ /\ painter.pc = "copy" /\ painter.left = {} /\ front' = front
          /\ cursor' = [cursor EXCEPT !.at = <<>>] /\ painter' = [painter EXCEPT !.pc = "under", !.at = pointer]
       \/ /\ painter.pc = "under" /\ front' = front
          /\ cursor' = [cursor EXCEPT !.under = front[painter.at]] /\ painter' = [painter EXCEPT !.pc = "draw"]
       \/ /\ painter.pc = "draw" /\ front' = [front EXCEPT ![painter.at] = "cursor"]
          /\ cursor' = [cursor EXCEPT !.at = painter.at] /\ painter' = [painter EXCEPT !.pc = "away"]
    /\ UNCHANGED <<mousePc, auxBytes, mouse_cycle, mouse_bytes, pointer, mouse_buttons, shown, moved, torn>>

(* The reset moves the pointer, then forgets the packet; a packet that     *)
(* ends in between counts as cut.                                          *)
reset_mouse_position ==
    /\ torn' = [torn EXCEPT !.packet = @ \/ auxBytes # <<>>]
    /\ \/ /\ painter.pc = "away" /\ painter' = [painter EXCEPT !.pc = "reset"]
          /\ pointer' = Centre /\ moved' = [moved EXCEPT !.at = Centre]
          /\ UNCHANGED <<mouse_cycle, mouse_bytes>>
       \/ /\ painter.pc = "reset" /\ painter' = [painter EXCEPT !.pc = "away"]
          /\ mouse_cycle' = 0 /\ mouse_bytes' = <<0, 0, 0>>
          /\ UNCHANGED <<pointer, moved>>
    /\ UNCHANGED <<mousePc, auxBytes, mouse_buttons, front, shown, cursor>>

MouseNext ==
    \/ \E r \in {"good", "resend", "other"} : mouse_send_cmd(r)
    \/ \E p \in Packet : MouseMoves(p)
    \/ \E scene \in {"boot", "next"} : fb_present(scene)
    \/ mouse_handler \/ CopyPixel \/ mouse_refresh_cursor \/ reset_mouse_position

InputNext == (KbdNext /\ UNCHANGED mouseVars) \/ (MouseNext /\ UNCHANGED kbdVars)
InputSpec == KbdInit /\ MouseInit /\ [][InputNext]_<<kbdVars, mouseVars>>
-----------------------------------------------------------------------------
(* Once the controller is empty, however interrupts fell between reads,    *)
(* flushes, presents and resets: every key typed one character, in order   *)
(* and with the modifiers as the last shift and control events before it   *)
(* left them, except those a full buffer refused, unless a reset found     *)
(* keys known to be down; the pointer and the buttons are where the        *)
(* packets put them, unless a reset cut a packet; and the screen is the    *)
(* scene last presented with one cursor over it, unless the mouse handler  *)
(* painted inside that very fb_present (keyboard_callback, buffer_put,     *)
(* mouse_handler, fb_present).                                             *)
InputFaithful ==
    /\ kbdBytes = <<>> /\ ~forgot =>
          LET read == typed.got \o Buffered
              lost(i) == Cardinality({j \in typed.lost : j <= i})
          IN  /\ Len(read) = Len(typed.due) - lost(Len(typed.due))
              /\ \A i \in DOMAIN typed.due \ typed.lost :
                    i - lost(i) \in DOMAIN read /\ read[i - lost(i)] = typed.due[i]
    /\ pointer \in Screen
    /\ auxBytes = <<>> /\ ~torn.packet =>
          mouse_cycle = 0 /\ pointer = moved.at /\ mouse_buttons = moved.buttons
    /\ ~Painting /\ ~torn.screen =>
          /\ front = [p \in Screen |-> IF p = cursor.at THEN "cursor" ELSE shown]
          /\ cursor.at # <<>> => cursor.under = shown

(* A task that waits for a key gets it: once a character is due, in the    *)
(* controller or in the buffer, the task does not sleep for ever.  The     *)
(* check for an empty buffer and the hlt after it must not be separated by *)
(* the interrupt that fills the buffer (buffer_get, keyboard_callback).    *)
ReaderServed ==
    (/\ reader \in {"check", "halted"} /\ ~forgot
     /\ Len(typed.due) > Len(typed.got) + Cardinality(typed.lost)) ~> (reader = "away")
=============================================================================
