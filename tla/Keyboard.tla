------------------------------ MODULE Keyboard ------------------------------
(***************************************************************************)
(* The keyboard driver and the console's read (core/drivers/keyboard.c,    *)
(* the console case of sys_read in core/syscall.c).                        *)
(*                                                                         *)
(* The keyboard controller queues scan codes; the driver decodes them one  *)
(* by one when a reader polls.  An arrow key sends two codes, and a poll   *)
(* may end between them.  The interrupt line of the keyboard is masked, so *)
(* keyboard_handler never runs by itself; keyboard_init is never called,   *)
(* and the driver starts from its static initial values.                   *)
(*                                                                         *)
(* A scan code in the controller carries, for the properties only, the key *)
(* whose press it completes, under the layout kbd_us_map declares.         *)
(***************************************************************************)
EXTENDS Integers, Sequences

CONSTANTS
  Readers,      \* tasks that read the console
  BufferSize,   \* BUFFER_SIZE
  MaxCodes      \* bound: codes the controller holds

ASSUME KeyboardAssumption == BufferSize \in Nat \ {0, 1} /\ MaxCodes \in Nat

NoKey == "none"

(***************************************************************************)
(* One letter stands for the keys of kbd_us_map, one arrow for the keys    *)
(* behind 0xE0.  The arrow's second code (0x4B) alone is a key of the      *)
(* number pad, to which kbd_us_map gives the character '-'.  An arrow is   *)
(* no character: sys_read hands out the low byte of KEY_LEFT (0x100).      *)
(***************************************************************************)
Letter(shift) == IF shift THEN "A" ELSE "a"
PadKey        == "-"
Arrow         == "left"
KeySet        == {"a", "A", PadKey, Arrow}
NUL           == "nul"
Char(key)     == IF key = Arrow THEN NUL ELSE key

Codes == {"letter", "letter_up", "shift", "shift_up", "pad", "pad_up", "E0", "E1"}

Code(c, k) == [code |-> c, key |-> k]

VARIABLES
  held,                 \* the typist holds a shift key down
  coming,               \* codes of the last stroke on their way
  hw,                   \* codes in the controller
  shift_pressed, extended_scancode,
  keyboard_buffer, buffer_head, buffer_tail,
  pc,                   \* where each reader is
  got                   \* the last character handed to a reader

driver  == <<shift_pressed, extended_scancode, keyboard_buffer, buffer_head, buffer_tail>>
kbdvars == <<held, coming, hw, driver, pc, got>>

Places == 0 .. BufferSize - 1

KbdTypeOK ==
  /\ held \in BOOLEAN
  /\ Len(coming) <= 2 /\ Len(hw) <= MaxCodes
  /\ \A i \in DOMAIN hw : hw[i].code \in Codes /\ hw[i].key \in KeySet \cup {NoKey}
  /\ shift_pressed \in BOOLEAN /\ extended_scancode \in BOOLEAN
  /\ keyboard_buffer \in [Places -> KeySet \cup {NoKey}]
  /\ buffer_head \in Places /\ buffer_tail \in Places
  /\ pc \in [Readers -> {"away", "poll", "wait"}]
  /\ got \in {Char(k) : k \in KeySet} \cup {NoKey}

KbdInit ==
  /\ held = FALSE
  /\ coming = <<>> /\ hw = <<>>
  /\ shift_pressed = FALSE /\ extended_scancode = FALSE
  /\ keyboard_buffer = [i \in Places |-> NoKey]
  /\ buffer_head = 0 /\ buffer_tail = 0
  /\ pc = [r \in Readers |-> "away"]
  /\ got = NoKey

-----------------------------------------------------------------------------
(***************************************************************************)
(* The typist and the controller.                                          *)
(***************************************************************************)
Strokes ==
  { <<Code("letter", Letter(held))>>, <<Code("letter_up", NoKey)>>,
    <<Code("pad", PadKey)>>, <<Code("pad_up", NoKey)>>,
    <<Code("E0", NoKey), Code("pad", Arrow)>>,
    <<Code("E0", NoKey), Code("pad_up", NoKey)>>,
    <<Code("E1", NoKey)>> }

stroke ==
  /\ coming = <<>>
  /\ coming' \in Strokes
  /\ UNCHANGED <<held, hw, driver, pc, got>>

\* One shift key at a time.
shift_key ==
  /\ coming = <<>>
  /\ coming' = <<Code(IF held THEN "shift_up" ELSE "shift", NoKey)>>
  /\ held' = ~held
  /\ UNCHANGED <<hw, driver, pc, got>>

arrive ==
  /\ coming # <<>> /\ Len(hw) < MaxCodes
  /\ hw' = Append(hw, Head(coming))
  /\ coming' = Tail(coming)
  /\ UNCHANGED <<held, driver, pc, got>>

-----------------------------------------------------------------------------
(***************************************************************************)
(* The driver.                                                             *)
(***************************************************************************)

\* Faulty variant, for mutation testing.
Succ_no_wrap(i) == i + 1

Succ(i) == (i + 1) % BufferSize

\* A full buffer drops the key.
keyboard_push(key) ==
  IF Succ(buffer_head) = buffer_tail
    THEN UNCHANGED <<keyboard_buffer, buffer_head, buffer_tail>>
    ELSE /\ keyboard_buffer' = [keyboard_buffer EXCEPT ![buffer_head] = key]
         /\ buffer_head' = Succ(buffer_head)
         /\ UNCHANGED buffer_tail

NoPush == UNCHANGED <<keyboard_buffer, buffer_head, buffer_tail>>

\* Faulty variant, for mutation testing.
keyboard_handle_extended_release(c) ==
  IF c \in {"pad", "pad_up"} THEN keyboard_push(Arrow) ELSE NoPush

\* Codes of keys going up and unknown codes are ignored.
keyboard_handle_extended(c) == IF c = "pad" THEN keyboard_push(Arrow) ELSE NoPush

keyboard_handle_scancode(c) ==
  \/ /\ c \in {"E0", "E1"}
     /\ extended_scancode' = (c = "E0")
     /\ NoPush /\ UNCHANGED shift_pressed
  \/ /\ c \notin {"E0", "E1"} /\ extended_scancode
     /\ extended_scancode' = FALSE
     /\ keyboard_handle_extended(c)
     /\ UNCHANGED shift_pressed
  \/ /\ c \in {"shift", "shift_up"} /\ ~extended_scancode
     /\ shift_pressed' = (c = "shift")
     /\ NoPush /\ UNCHANGED extended_scancode
  \/ /\ c \in {"letter_up", "pad_up"} /\ ~extended_scancode
     /\ NoPush /\ UNCHANGED <<shift_pressed, extended_scancode>>
  \/ /\ c \in {"letter", "pad"} /\ ~extended_scancode
     /\ keyboard_push(IF c = "letter" THEN Letter(shift_pressed) ELSE PadKey)
     /\ UNCHANGED <<shift_pressed, extended_scancode>>

\* sys_read of the console enters keyboard_getchar, or the scheduler gets
\* back to a reader that waits there; no other reader is inside the kernel.
InKernel(r) == pc[r] = "poll"

sys_read(r) ==
  /\ pc[r] \in {"away", "wait"}
  /\ \A s \in Readers : ~InKernel(s)
  /\ pc' = [pc EXCEPT ![r] = "poll"]
  /\ UNCHANGED <<held, coming, hw, driver, got>>

\* A turn of the loop of keyboard_poll.
keyboard_poll(r) ==
  /\ InKernel(r) /\ hw # <<>>
  /\ keyboard_handle_scancode(Head(hw).code)
  /\ hw' = Tail(hw)
  /\ UNCHANGED <<held, coming, pc, got>>

\* The controller is empty: a key, or sched_block_current.
keyboard_getchar(r) ==
  /\ InKernel(r) /\ hw = <<>>
  /\ IF buffer_head # buffer_tail
       THEN /\ \/ got' = Char(keyboard_buffer[buffer_tail])
               \/ UNCHANGED got     \* copy_to_user fails: the key is gone
            /\ buffer_tail' = Succ(buffer_tail)
            /\ pc' = [pc EXCEPT ![r] = "away"]
       ELSE /\ pc' = [pc EXCEPT ![r] = "wait"]
            /\ UNCHANGED <<got, buffer_tail>>
  /\ UNCHANGED <<held, coming, hw, shift_pressed, extended_scancode,
                 keyboard_buffer, buffer_head>>

KbdNext ==
  \/ stroke \/ shift_key \/ arrive
  \/ \E r \in Readers : sys_read(r) \/ keyboard_poll(r) \/ keyboard_getchar(r)

KbdSpec == KbdInit /\ [][KbdNext]_kbdvars

-----------------------------------------------------------------------------
(***************************************************************************)
(* Properties.                                                             *)
(***************************************************************************)
Buffered ==
  [i \in 1 .. (buffer_head - buffer_tail + BufferSize) % BufferSize |->
     keyboard_buffer[(buffer_tail + i - 1) % BufferSize]]

\* The keys whose last codes are among the codes q, in their order.
KeysOf(q) ==
  LET keys[n \in 0 .. Len(q)] ==
        IF n = 0 THEN <<>>
        ELSE IF q[n].key = NoKey THEN keys[n - 1] ELSE Append(keys[n - 1], q[n].key)
  IN  keys[Len(q)]

OnTheWay == hw \o coming

K == INSTANCE KeyQueue WITH
       sent <- KeysOf(OnTheWay), queue <- Buffered, read <- got, Room <- BufferSize - 1

\* Whatever the typist does between and during polls, readers get the
\* characters of the keys typed, shifted as they were typed, in order, each
\* once, and an arrow is never taken for the pad key its last code is; the
\* buffer drops a key only when it holds BUFFER_SIZE - 1
\* (keyboard_handle_scancode, keyboard_push, keyboard_getchar).
ImplementsKeyQueue == K!Spec
=============================================================================
