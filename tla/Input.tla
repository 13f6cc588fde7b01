------------------------------- MODULE Input -------------------------------
(***************************************************************************)
(* Keyboard input: the event queue of drivers/input/virtio_input.c, which  *)
(* the device fills while the driver empties it, the PS/2 port of the x86  *)
(* builds, the serial line, the key ring of kernel/apps/launcher.c, and    *)
(* the two loops that poll them: the kernel's event loop of core/main.c    *)
(* and the poll_keys of the Doom port.                                     *)
(* A program is started by a click in the event loop and keeps the CPU     *)
(* until it ends, so one of the two loops runs at a time; the device runs  *)
(* beside them.                                                            *)
(***************************************************************************)
EXTENDS Integers, Sequences, FiniteSets

CONSTANTS
  QUEUE_SIZE,           \* descriptors of the event queue
  INDEX_MODULUS,        \* the 16-bit indices of the queue wrap here
  KAPI_INPUT_BUF_SIZE,  \* slots of the key ring
  Kinds,                \* what the user does at the virtio keyboard, and
  Scans,                \* at the PS/2 keyboard: <<key, "down" or "up">>
  MaxEvents,            \* bound on the events of the keyboard
  MaxChars              \* bound on characters and scan codes of the other ports

\* Keys by what keyboard_poll makes of them: a letter, another character, one
\* of those mapped by hand (arrows, Enter, Space, Esc), and the modifiers.
Typing == {"letter", "symbol", "special"}
Modifiers == {"shift", "ctrl"}
KeysOf == [shift |-> {"left_shift", "right_shift"}, ctrl |-> {"left_ctrl", "right_ctrl"}]
Keys == Typing \cup KeysOf.shift \cup KeysOf.ctrl

\* Scan codes: the prefix 0xE0, and keys by what ps2_handle_keyboard makes of them.
ScanCodes == {"0xE0", "shift", "char", "arrow"}

ASSUME InputAssumption ==
  /\ QUEUE_SIZE \in Nat \ {0} /\ KAPI_INPUT_BUF_SIZE \in Nat \ {0}
  /\ INDEX_MODULUS \in Nat /\ INDEX_MODULUS % QUEUE_SIZE = 0
  /\ INDEX_MODULUS > QUEUE_SIZE
  /\ Kinds \subseteq Keys \X {"down", "up"}
  /\ Scans \subseteq ScanCodes \X {"down", "up"}
  /\ MaxEvents \in Nat /\ MaxChars \in Nat

VARIABLES
  avail, used,   \* the rings of the queue: descriptors, and a running index
  buffers,       \* the event each descriptor's buffer holds
  seen,          \* the device's own index into avail
  last_used,     \* kbd_last_used_idx
  held,          \* shift_held and ctrl_held: the modifiers that are set
  ps2,           \* ps2_shift_held and ps2_extended
  ring,          \* k_input_buf, k_input_r and k_input_w
  uart,          \* characters that wait in the serial port
  cpu,           \* where the running loop is, and its local variables
  chars,         \* how many characters and scan codes the ports have brought
  sent,          \* history: the events of the keyboard
  handled,       \* history: the events keyboard_poll has handled
  accepted,      \* history: the keys put into the ring
  got            \* history: the keys taken from it

queue == <<avail, used, buffers, seen>>
vars == <<queue, last_used, held, ps2, ring, uart, cpu, chars, sent, handled, accepted, got>>

Descriptors == 0 .. QUEUE_SIZE - 1
NoEvent == [what |-> <<"none", "up">>, id |-> 0]
NoKey == [id |-> 0, with |-> "none"]
Slot(i) == i % QUEUE_SIZE
Inc(i) == (i + 1) % INDEX_MODULUS

\* keyboard_init fills avail; start_init_process enters its loop.
Init ==
  /\ avail = [ring |-> [i \in Descriptors |-> i], idx |-> QUEUE_SIZE]
  /\ used = [ring |-> [i \in Descriptors |-> 0], idx |-> 0]
  /\ buffers = [d \in Descriptors |-> NoEvent]
  /\ seen = 0 /\ last_used = 0 /\ held = {} /\ uart = <<>> /\ chars = 0
  /\ ps2 = [shift |-> FALSE, extended |-> FALSE]
  /\ ring = [buf |-> [i \in 0 .. KAPI_INPUT_BUF_SIZE - 1 |-> NoKey], r |-> 0, w |-> 0]
  /\ cpu = [pc |-> "input_poll", ret |-> "loop_uart", current_used |-> 0, desc |-> 0]
  /\ sent = <<>> /\ handled = <<>> /\ accepted = <<>> /\ got = <<>>

-----------------------------------------------------------------------------
(* The devices.  The keyboard reports a key that goes down or up; the driver *)
(* does not act upon a typing key that goes up, as upon the synchronisation  *)
(* events, which it passes over in the same way.                             *)

\* The keyboard writes an event into the next buffer it was given, if any.
KeyboardEvent ==
  /\ Len(sent) < MaxEvents
  /\ seen # avail.idx
  /\ \E kind \in Kinds :
       LET d == avail.ring[Slot(seen)]
           ev == [what |-> kind, id |-> Len(sent) + 1]
       IN  /\ buffers' = [buffers EXCEPT ![d] = ev]
           /\ used' = [ring |-> [used.ring EXCEPT ![Slot(used.idx)] = d],
                       idx |-> Inc(used.idx)]
           /\ sent' = Append(sent, ev)
  /\ seen' = Inc(seen)
  /\ UNCHANGED <<avail, last_used, held, ps2, ring, uart, cpu, chars, handled, accepted, got>>

\* A character arrives on the serial line.
UartChar ==
  /\ chars < MaxChars
  /\ chars' = chars + 1
  /\ uart' = Append(uart, [id |-> 0 - chars - 1, with |-> "none"])
  /\ UNCHANGED <<queue, last_used, held, ps2, ring, cpu, sent, handled, accepted, got>>

-----------------------------------------------------------------------------
(* The key ring. *)

\* Mutant: the ring is filled to its last slot.
kapi_sys_key_event_unchecked(key) ==
  LET next == (ring.w + 1) % KAPI_INPUT_BUF_SIZE IN
  /\ ring' = [ring EXCEPT !.buf[ring.w] = key, !.w = next]
  /\ accepted' = Append(accepted, key)

\* A key is stored unless only the last free slot is left.
kapi_sys_key_event(key) ==
  LET next == (ring.w + 1) % KAPI_INPUT_BUF_SIZE IN
  IF next = ring.r THEN UNCHANGED <<ring, accepted>>
  ELSE /\ ring' = [ring EXCEPT !.buf[ring.w] = key, !.w = next]
       /\ accepted' = Append(accepted, key)

-----------------------------------------------------------------------------
(* input_poll.  Every step below is taken by the loop that runs.            *)

Goto(pc) == cpu' = [cpu EXCEPT !.pc = pc]

\* The key of a scan code: arrows are keys behind 0xE0 only, characters only
\* without it, and only characters carry the port's own Shift.
Ps2Key(scan) ==
  [id |-> 0 - chars - 1,
   with |-> CASE scan = <<"arrow", "down">> /\ ps2.extended -> "none"
              [] scan = <<"char", "down">> /\ ~ ps2.extended ->
                   IF ps2.shift THEN "shift" ELSE "none"
              [] OTHER -> "dropped"]

\* ps2_poll takes a scan code if one waits.  It runs before the other sources
\* and whenever the mouse is asked for.
PollPs2 ==
  /\ cpu.pc \in {"input_poll", "loop_mouse"} /\ chars < MaxChars
  /\ \E scan \in Scans :
       /\ ps2' = [shift |-> IF scan[1] = "shift" THEN scan[2] = "down" ELSE ps2.shift,
                  extended |-> scan[1] = "0xE0"]
       /\ IF Ps2Key(scan).with = "dropped" THEN UNCHANGED <<ring, accepted>>
          ELSE kapi_sys_key_event(Ps2Key(scan))
  /\ chars' = chars + 1
  /\ UNCHANGED <<queue, last_used, held, uart, cpu, sent, handled, got>>

\* A character of the serial line goes to the ring and not to the GUI.
PollUart ==
  /\ cpu.pc = "input_poll"
  /\ \/ /\ uart # <<>>
        /\ uart' = Tail(uart)
        /\ kapi_sys_key_event(Head(uart))
     \/ /\ uart = <<>>
        /\ UNCHANGED <<uart, ring, accepted>>
  /\ Goto("keyboard_poll")
  /\ UNCHANGED <<queue, last_used, held, ps2, chars, sent, handled, got>>

\* keyboard_poll reads the device's index once.
PollKeyboard ==
  /\ cpu.pc = "keyboard_poll"
  /\ cpu' = [cpu EXCEPT !.pc = "next_event", !.current_used = used.idx]
  /\ UNCHANGED <<queue, last_used, held, ps2, ring, uart, chars, sent, handled, accepted, got>>

\* Mutant: a modifier that goes up is not noticed.
held_kept(what) == held \cup {m \in Modifiers : what \in KeysOf[m] \X {"down"}}

\* The modifiers after an event: the two keys of a modifier share its flag.
Held(what) ==
  (held \ {m \in Modifiers : what[1] \in KeysOf[m]})
    \cup {m \in Modifiers : what \in KeysOf[m] \X {"down"}}

\* The character of a key that goes down: keys mapped by hand know no modifier,
\* and ctrl, which is looked at before shift, drops all but letters.
Key(ev) ==
  [id |-> ev.id,
   with |-> CASE ev.what[1] = "special" -> "none"
              [] ev.what[1] \in {"letter", "symbol"} /\ "ctrl" \in held ->
                   IF ev.what[1] = "letter" THEN "ctrl" ELSE "dropped"
              [] ev.what[1] \in {"letter", "symbol"} /\ "ctrl" \notin held ->
                   IF "shift" \in held THEN "shift" ELSE "none"
              [] OTHER -> "dropped"]

\* One event of the queue, up to its callbacks.  What the GUI does with the
\* key is not part of this module.
HandleEvent ==
  /\ cpu.pc = "next_event" /\ last_used # cpu.current_used
  /\ LET d == used.ring[Slot(last_used)]
         ev == buffers[d]
     IN  /\ held' = Held(ev.what)
         /\ IF ev.what[2] = "down" /\ Key(ev).with # "dropped"
            THEN kapi_sys_key_event(Key(ev))
            ELSE UNCHANGED <<ring, accepted>>
         /\ handled' = Append(handled, ev)
         /\ cpu' = [cpu EXCEPT !.pc = "give_back", !.desc = d]
  /\ UNCHANGED <<queue, last_used, ps2, uart, chars, sent, got>>

\* Mutant: the slot of the used ring is taken for the descriptor.
GiveBackWrong ==
  /\ cpu.pc = "give_back"
  /\ avail' = [ring |-> [avail.ring EXCEPT ![Slot(avail.idx)] = Slot(cpu.current_used)],
               idx |-> Inc(avail.idx)]
  /\ Goto("advance")
  /\ UNCHANGED <<used, buffers, seen, last_used, held, ps2, ring, uart, chars,
                 sent, handled, accepted, got>>

\* The descriptor goes back to the device.
GiveBack ==
  /\ cpu.pc = "give_back"
  /\ avail' = [ring |-> [avail.ring EXCEPT ![Slot(avail.idx)] = cpu.desc],
               idx |-> Inc(avail.idx)]
  /\ Goto("advance")
  /\ UNCHANGED <<used, buffers, seen, last_used, held, ps2, ring, uart, chars,
                 sent, handled, accepted, got>>

\* Mutant: the index is set to the device's, which may have moved on.
AdvanceToUsed ==
  /\ cpu.pc = "advance"
  /\ last_used' = used.idx
  /\ cpu' = [cpu EXCEPT !.pc = "next_event", !.current_used = used.idx]
  /\ UNCHANGED <<queue, held, ps2, ring, uart, chars, sent, handled, accepted, got>>

Advance ==
  /\ cpu.pc = "advance"
  /\ last_used' = Inc(last_used)
  /\ Goto("next_event")
  /\ UNCHANGED <<queue, held, ps2, ring, uart, chars, sent, handled, accepted, got>>

\* Mutant: the poll ends after its first look when nothing had come.
PollDoneStuck ==
  /\ cpu.pc = "next_event" /\ last_used = cpu.current_used
  /\ Goto("next_event")
  /\ UNCHANGED <<queue, last_used, held, ps2, ring, uart, chars, sent, handled, accepted, got>>

\* input_poll returns to the loop that called it.
PollDone ==
  /\ cpu.pc = "next_event" /\ last_used = cpu.current_used
  /\ Goto(cpu.ret)
  /\ UNCHANGED <<queue, last_used, held, ps2, ring, uart, chars, sent, handled, accepted, got>>

InputPoll == \/ PollPs2 \/ PollUart \/ PollKeyboard \/ HandleEvent \/ GiveBack
             \/ Advance \/ PollDone

-----------------------------------------------------------------------------
(* The two loops. *)

CallPoll(ret) == cpu' = [cpu EXCEPT !.pc = "input_poll", !.ret = ret]

\* The event loop gives a character of the serial line to the GUI, and polls
\* a second time.
LoopUart ==
  /\ cpu.pc = "loop_uart"
  /\ uart' = IF uart # <<>> THEN Tail(uart) ELSE uart
  /\ CallPoll("loop_mouse")
  /\ UNCHANGED <<queue, last_used, held, ps2, ring, chars, sent, handled, accepted, got>>

\* The mouse: a click on the dock starts Doom, which calls poll_keys; else the
\* loop goes round.
LoopMouse ==
  /\ cpu.pc = "loop_mouse"
  /\ \E ret \in {"loop_uart", "has_key"} : CallPoll(ret)
  /\ UNCHANGED <<queue, last_used, held, ps2, ring, uart, chars, sent, handled, accepted, got>>

\* poll_keys ends: the program draws its frame and polls again, or it exits
\* and the event loop goes on.
Frame == \E ret \in {"loop_uart", "has_key"} : CallPoll(ret)

\* kapi_has_key looks at the serial line and drops the character it finds.
HasKey ==
  /\ cpu.pc = "has_key"
  /\ \/ uart # <<>> /\ uart' = Tail(uart) /\ Goto("getc")
     \/ uart = <<>> /\ UNCHANGED uart /\ Frame
  /\ UNCHANGED <<queue, last_used, held, ps2, ring, chars, sent, handled, accepted, got>>

\* kapi_getc: the ring first, then the serial line, then -1.
Getc ==
  /\ cpu.pc = "getc"
  /\ \/ /\ ring.r # ring.w
        /\ got' = Append(got, ring.buf[ring.r])
        /\ ring' = [ring EXCEPT !.r = (@ + 1) % KAPI_INPUT_BUF_SIZE]
        /\ Goto("has_key")
        /\ UNCHANGED uart
     \/ /\ ring.r = ring.w
        /\ IF uart # <<>> THEN uart' = Tail(uart) /\ Goto("has_key")
           ELSE UNCHANGED uart /\ Frame
        /\ UNCHANGED <<ring, got>>
  /\ UNCHANGED <<queue, last_used, held, ps2, chars, sent, handled, accepted>>

-----------------------------------------------------------------------------

Cpu == InputPoll \/ LoopUart \/ LoopMouse \/ HasKey \/ Getc

Next == Cpu \/ KeyboardEvent \/ UartChar

Spec == Init /\ [][Next]_vars

\* The loop that has the CPU goes on.
FairSpec == Spec /\ WF_vars(Cpu)

-----------------------------------------------------------------------------
(* Properties. *)

KeyType == [id : 0 - MaxChars .. MaxEvents, with : {"none", "shift", "ctrl"}]
EventType == {NoEvent} \cup [what : Kinds, id : 1 .. MaxEvents]

\* Every variable keeps its type: indices below the modulus, ring positions in
\* the ring, and a loop that is at one of its steps.
TypeOK ==
  /\ avail.ring \in [Descriptors -> Descriptors] /\ avail.idx \in 0 .. INDEX_MODULUS - 1
  /\ used.ring \in [Descriptors -> Descriptors] /\ used.idx \in 0 .. INDEX_MODULUS - 1
  /\ buffers \in [Descriptors -> EventType]
  /\ seen \in 0 .. INDEX_MODULUS - 1 /\ last_used \in 0 .. INDEX_MODULUS - 1
  /\ held \subseteq Modifiers /\ ps2 \in [shift : BOOLEAN, extended : BOOLEAN]
  /\ ring.buf \in [0 .. KAPI_INPUT_BUF_SIZE - 1 -> KeyType]
  /\ ring.r \in DOMAIN ring.buf /\ ring.w \in DOMAIN ring.buf
  /\ cpu.pc \in {"input_poll", "keyboard_poll", "next_event", "give_back", "advance",
                 "loop_uart", "loop_mouse", "has_key", "getc"}
  /\ cpu.ret \in {"loop_uart", "loop_mouse", "has_key"}
  /\ cpu.current_used \in 0 .. INDEX_MODULUS - 1 /\ cpu.desc \in Descriptors
  /\ chars \in 0 .. MaxChars /\ Len(uart) <= chars /\ Len(sent) <= MaxEvents

\* The distance from one index to another, and the slots between them.
Span(from, to) == (to - from) % INDEX_MODULUS
Slots(from, to) == {Slot(from + i) : i \in 0 .. Span(from, to) - 1}

\* The first event of the used ring whose buffer the driver still needs.
Unreturned == IF cpu.pc = "advance" THEN Inc(last_used) ELSE last_used

\* Every buffer belongs to the device or to the driver and never to both: the
\* device cannot overwrite an event that keyboard_poll has not handled.
BuffersOwnedOnce ==
  LET devices == {avail.ring[i] : i \in Slots(seen, avail.idx)}
      drivers == {used.ring[i] : i \in Slots(Unreturned, used.idx)}
  IN  /\ devices \cup drivers = Descriptors
      /\ devices \cap drivers = {}
      /\ Span(seen, avail.idx) + Span(Unreturned, used.idx) = QUEUE_SIZE

\* Both rings' indices, which wrap, are in range and divide the buffers between
\* device and driver.
QueueConsistent == TypeOK /\ BuffersOwnedOnce

\* keyboard_poll handles every event once and in the order of the keyboard,
\* also across the wrap of the indices and while new events come in.
HandledInOrder ==
  /\ Len(handled) <= Len(sent)
  /\ handled = SubSeq(sent, 1, Len(handled))

\* The keys that wait in the ring.
Waiting == [i \in 1 .. (ring.w - ring.r) % KAPI_INPUT_BUF_SIZE |->
              ring.buf[(ring.r + i - 1) % KAPI_INPUT_BUF_SIZE]]

\* What was put into the ring has been read, in order and once, or waits in it.
KeysKept == accepted = got \o Waiting

\* The last event of the keys ks before event n was that one went down.
LastDown(ks, n) ==
  \E i \in 1 .. n - 1 :
    /\ sent[i].what \in ks \X {"down"}
    /\ \A j \in i + 1 .. n - 1 : sent[j].what \notin ks \X {"up"}

\* A key of the virtio keyboard in the ring carries the modifiers of the time it
\* was pressed, however late it was handled: Ctrl, or else Shift, if the last
\* event of either of the modifier's two keys was a press.  Only a letter
\* carries Ctrl, and a key mapped by hand carries neither.
ModifiersRight ==
  \A i \in 1 .. Len(accepted) :
    LET k == accepted[i]
        key == sent[k.id].what[1]
    IN  k.id > 0 =>
          /\ k.with = IF key = "special" THEN "none"
                      ELSE IF LastDown(KeysOf.ctrl, k.id) THEN "ctrl"
                      ELSE IF LastDown(KeysOf.shift, k.id) THEN "shift" ELSE "none"
          /\ k.with = "ctrl" => key = "letter"

\* "Track shift key state": a letter pressed while a Shift key is down carries
\* Shift, or Ctrl.  Not so: releasing the one key clears the flag of both.
ShiftWhileHeld ==
  \A i \in 1 .. Len(accepted) :
    LET k == accepted[i] IN
    k.id > 0 /\ sent[k.id].what[1] = "letter"
      => \A key \in KeysOf.shift : LastDown({key}, k.id) => k.with # "none"

\* Whichever loop runs, every event of the keyboard is handled in the end.
EventsHandled == \A n \in 1 .. MaxEvents : Len(sent) >= n ~> Len(handled) >= n

\* "Send to KAPI input buffer for non-windowed apps (e.g. Doom)": while the
\* program runs, the keys put into the ring reach it.
BufferedKeyRead ==
  <>[](cpu.ret = "has_key")
    => \A n \in 1 .. MaxEvents : Len(accepted) >= n ~> Len(got) >= n
=============================================================================
