------------------------------- MODULE UsbKbd -------------------------------
(* examples/usbkbd: the USB keyboard driver (usbkbd_verified.c), with the     *)
(* parts of the USB and input core that call it.  The core calls probe and    *)
(* disconnect one after the other, open and close one after the other, event  *)
(* while the device is open, and the completion handler of a URB on any       *)
(* processor at any time after the URB was submitted, all concurrently.       *)
(* Which keys a report holds is left out.                                     *)
EXTENDS Naturals, Sequences

CONSTANTS Leds,         \* values of the LED byte, 0 among them
          MaxLeaving    \* bound: handlers of a URB past their critical section

VARIABLES live,         \* what is allocated
          module,       \* usb_kbd_init .. usb_kbd_exit
          usb,          \* probe .. disconnect of the one device
          registered,   \* with the input core
          input,        \* open .. close
          flight,       \* URB |-> submitted and not completed
          entered,      \* URB |-> handlers called, before their effect
          leaving,      \* URB |-> handlers that have yet to return
          killers,      \* URB |-> callers of usb_kill_urb that wait
          newleds, leds, led_urb_submitted,
          shown,        \* the LEDs of the device
          lost,         \* the leds buffer has not reached the device
          fault         \* freed memory used, or a URB submitted twice

vars == <<live, module, usb, registered, input, flight, entered, leaving,
          killers, newleds, leds, led_urb_submitted, shown, lost, fault>>
ledvars == <<newleds, leds, led_urb_submitted, shown, lost>>
urbvars == <<flight, entered, leaving, killers>>

Urbs == {"irq", "led"}
Tables == {"usb_kbd_keycode", "usb_kbd_id_table"}
\* in the order in which usb_kbd_alloc_mem allocates them
Buffers == <<"irq", "led", "new", "cr", "leds">>
Mem(n) == {Buffers[i] : i \in 1..n}

Init == /\ live = {} /\ module = "unloaded" /\ usb = "unbound"
        /\ registered = FALSE /\ input = "closed"
        /\ flight = [u \in Urbs |-> FALSE]
        /\ entered = [u \in Urbs |-> 0] /\ leaving = [u \in Urbs |-> 0]
        /\ killers = [u \in Urbs |-> {}]
        /\ newleds = 0 /\ leds = 0 /\ shown = 0
        /\ led_urb_submitted = FALSE /\ lost = TRUE /\ fault = FALSE

Uses(objects) == fault' = (fault \/ ~(objects \subseteq live))

----------------------------------------------------------------------------
(* The USB core.                                                              *)

\* usb_submit_urb: any error, always one while the URB is being killed
Submits(u, ok) == /\ ok => killers[u] = {}
                  /\ flight' = IF ok THEN [flight EXCEPT ![u] = TRUE] ELSE flight
Resubmitted(u, ok) == ok /\ flight[u]

\* a URB completes, for good or with an error, and its handler is called
Complete(u) ==
  /\ flight[u] /\ leaving[u] < MaxLeaving
  /\ flight' = [flight EXCEPT ![u] = FALSE]
  /\ entered' = [entered EXCEPT ![u] = @ + 1]
  /\ IF u = "led"
     THEN \/ shown' = leds /\ lost' = FALSE
          \/ lost' = TRUE /\ UNCHANGED shown
     ELSE UNCHANGED <<shown, lost>>
  /\ Uses({u} \cup (IF u = "led" THEN {"leds", "cr"} ELSE {"new"}))
  /\ UNCHANGED <<live, module, usb, registered, input, leaving, killers,
                 newleds, leds, led_urb_submitted>>

\* the handler has had its effect
Acted(u) == /\ entered[u] > 0
            /\ entered' = [entered EXCEPT ![u] = @ - 1]
            /\ leaving' = [leaving EXCEPT ![u] = @ + 1]
            /\ UNCHANGED <<live, module, usb, registered, input, killers, shown>>

Return(u) == /\ leaving[u] > 0
             /\ leaving' = [leaving EXCEPT ![u] = @ - 1]
             /\ UNCHANGED <<live, module, usb, registered, input, flight,
                            entered, killers, ledvars, fault>>

\* usb_kill_urb(u) by k: first it forbids submission, then it waits
StartKill(u, k) == killers' = [killers EXCEPT ![u] = @ \cup {k}]
Killed(u, k) == /\ ~flight[u] /\ entered[u] = 0 /\ leaving[u] = 0
                /\ killers' = [killers EXCEPT ![u] = @ \ {k}]

----------------------------------------------------------------------------
(* Completion handlers.                                                       *)

\* every status but those of a URB that was unlinked or lost its device
\* leads to a new submission
usb_kbd_irq ==
  /\ Acted("irq")
  /\ \/ UNCHANGED <<flight, fault>>
     \/ \E ok \in BOOLEAN :
          /\ Submits("irq", ok)
          /\ fault' = (fault \/ Resubmitted("irq", ok)
                         \/ ~({"kbd", "irq", "new", "input_dev",
                               "usb_kbd_keycode"} \subseteq live))
  /\ UNCHANGED <<newleds, leds, led_urb_submitted, lost>>

\* under leds_lock
SendLeds(ok) == /\ leds' = newleds'
                /\ Submits("led", ok)
                /\ led_urb_submitted' = ok
                /\ lost' = (lost \/ ~ok)
                /\ fault' = (fault \/ Resubmitted("led", ok)
                               \/ ~({"kbd", "led", "leds"} \subseteq live))

\* mutant: the handler does not look whether the LEDs changed meanwhile
usb_kbd_led_unchecked ==
  /\ Acted("led")
  /\ led_urb_submitted' = FALSE
  /\ Uses({"kbd", "leds"})
  /\ UNCHANGED <<leds, newleds, flight, lost>>

usb_kbd_led ==
  /\ Acted("led")
  /\ UNCHANGED newleds
  /\ IF leds = newleds
     THEN /\ led_urb_submitted' = FALSE
          /\ Uses({"kbd", "leds"})
          /\ UNCHANGED <<leds, flight, lost>>
     ELSE \E ok \in BOOLEAN : SendLeds(ok)

----------------------------------------------------------------------------
(* Callbacks of the input core.                                               *)

\* an EV_LED event; any other returns at once
usb_kbd_event ==
  /\ input = "open"
  /\ newleds' \in Leds
  /\ IF led_urb_submitted \/ leds = newleds'
     THEN /\ Uses({"kbd", "leds", "input_dev"})
          /\ UNCHANGED <<leds, flight, led_urb_submitted, lost>>
     ELSE \E ok \in BOOLEAN : SendLeds(ok)
  /\ UNCHANGED <<live, module, usb, registered, input, entered, leaving,
                 killers, shown>>

usb_kbd_open ==
  /\ registered /\ input = "closed"
  /\ \E ok \in BOOLEAN :
       /\ Submits("irq", ok)
       /\ input' = IF ok THEN "open" ELSE "closed"
       /\ fault' = (fault \/ Resubmitted("irq", ok)
                      \/ ~({"kbd", "irq", "input_dev"} \subseteq live))
  /\ UNCHANGED <<live, module, usb, registered, entered, leaving, killers,
                 ledvars>>

\* usb_kbd_close kills the URB of the reports
Close == input' = "closing" /\ StartKill("irq", "close")

usb_kbd_close == /\ registered /\ input = "open"
                 /\ Close
                 /\ UNCHANGED <<live, module, usb, registered, flight, entered,
                                leaving, ledvars, fault>>

Closed == /\ input = "closing"
          /\ Killed("irq", "close")
          /\ input' = "closed"
          /\ Uses({"kbd", "irq"})
          /\ UNCHANGED <<live, module, usb, registered, flight, entered,
                         leaving, ledvars>>

----------------------------------------------------------------------------
(* probe and disconnect.                                                      *)

\* kzalloc clears newleds and led_urb_submitted; usb_alloc_coherent leaves
\* anything in leds
usb_kbd_probe ==
  /\ module = "loaded" /\ usb = "unbound"
  /\ \E first \in SUBSET {"kbd", "input_dev"}, n \in 0..Len(Buffers) :
       IF first # {"kbd", "input_dev"}
       THEN live' = live \cup first /\ usb' = "fail1"
       ELSE /\ live' = live \cup first \cup Mem(n)
            /\ usb' = IF n = Len(Buffers) THEN "register" ELSE "fail2"
  /\ newleds' = 0 /\ leds' \in Leds
  /\ led_urb_submitted' = FALSE /\ lost' = TRUE
  /\ shown' \in Leds
  /\ UNCHANGED <<module, registered, input, urbvars, fault>>

\* input_register_device
Register ==
  /\ usb = "register"
  /\ \/ usb' = "bound" /\ registered' = TRUE
     \/ usb' = "fail2" /\ UNCHANGED registered
  /\ UNCHANGED <<live, module, input, urbvars, ledvars, fault>>

\* what is still null is not freed
usb_kbd_free_mem == live \ Mem(Len(Buffers))

Fail == \/ /\ usb = "fail2"
           /\ live' = usb_kbd_free_mem /\ usb' = "fail1"
           /\ UNCHANGED <<module, registered, input, urbvars, ledvars, fault>>
        \/ /\ usb = "fail1"
           /\ live' = live \ {"kbd", "input_dev"} /\ usb' = "unbound"
           /\ UNCHANGED <<module, registered, input, urbvars, ledvars, fault>>

usb_kbd_disconnect ==
  /\ usb = "bound"
  /\ usb' = "kill irq" /\ StartKill("irq", "disconnect")
  /\ UNCHANGED <<live, module, registered, input, flight, entered, leaving,
                 ledvars, fault>>

KilledIrq ==
  /\ usb = "kill irq" /\ Killed("irq", "disconnect")
  /\ usb' = "killed irq"
  /\ UNCHANGED <<live, module, registered, input, flight, entered, leaving,
                 ledvars, fault>>

\* the device can be opened until input_unregister_device is called, which
\* closes it if it is open
Unregister ==
  /\ usb = "killed irq"
  /\ usb' = "unregister" /\ registered' = FALSE
  /\ UNCHANGED <<live, module, input, urbvars, ledvars, fault>>

UnregisterCloses ==
  /\ usb = "unregister" /\ input = "open"
  /\ Close
  /\ UNCHANGED <<live, module, usb, registered, flight, entered, leaving,
                 ledvars, fault>>

\* mutant: without the second patch
Unregistered_led_alive ==
  /\ usb = "unregister" /\ input = "closed"
  /\ live' = live \ {"input_dev"}
  /\ usb' = "free"
  /\ UNCHANGED <<module, registered, input, urbvars, ledvars, fault>>

Unregistered ==
  /\ usb = "unregister" /\ input = "closed"
  /\ live' = live \ {"input_dev"}
  /\ usb' = "kill led" /\ StartKill("led", "disconnect")
  /\ UNCHANGED <<module, registered, input, flight, entered, leaving, ledvars,
                 fault>>

KilledLed ==
  /\ usb = "kill led" /\ Killed("led", "disconnect")
  /\ usb' = "free"
  /\ UNCHANGED <<live, module, registered, input, flight, entered, leaving,
                 ledvars, fault>>

Free == /\ usb = "free"
        /\ Uses(Mem(Len(Buffers)) \cup {"kbd"})
        /\ live' = usb_kbd_free_mem \ {"kbd"}
        /\ usb' = "unbound"
        /\ UNCHANGED <<module, registered, input, urbvars, ledvars>>

----------------------------------------------------------------------------
(* Loading and unloading.                                                     *)

\* when a table cannot be allocated or usb_register fails, all is freed
usb_kbd_init ==
  /\ module = "unloaded"
  /\ \/ module' = "loaded" /\ live' = live \cup Tables
     \/ UNCHANGED <<module, live>>
  /\ UNCHANGED <<usb, registered, input, urbvars, ledvars, fault>>

usb_kbd_exit ==
  /\ module = "loaded"
  /\ module' = "unloading"
  /\ UNCHANGED <<live, usb, registered, input, urbvars, ledvars, fault>>

\* usb_deregister has disconnected the device
Deregistered ==
  /\ module = "unloading" /\ usb = "unbound"
  /\ module' = "unloaded" /\ live' = live \ Tables
  /\ UNCHANGED <<usb, registered, input, urbvars, ledvars, fault>>

\* what happens only if somebody wants it to
Free_to_begin == \/ usb_kbd_init \/ usb_kbd_exit \/ usb_kbd_probe
                 \/ module = "loaded" /\ usb_kbd_disconnect
                 \/ usb_kbd_open \/ usb_kbd_close \/ usb_kbd_event
                 \/ killers["irq"] = {} /\ Complete("irq")

\* the call of the core that is under way goes on
Goes_on == \/ Register \/ Fail
           \/ module = "unloading" /\ usb_kbd_disconnect
           \/ KilledIrq \/ Unregister \/ UnregisterCloses \/ Unregistered
           \/ KilledLed \/ Free \/ Deregistered

\* an unlinked URB and that of the LEDs complete; that of the reports may wait
\* for a key for ever
Completes(u) == (u = "led" \/ killers[u] # {}) /\ Complete(u)

Next == \/ Free_to_begin \/ Goes_on \/ Closed \/ usb_kbd_irq \/ usb_kbd_led
        \/ \E u \in Urbs : Return(u) \/ Completes(u)

\* nothing of a device, and no call into the driver, is left
Quiet == /\ live \subseteq Tables
         /\ \A u \in Urbs : ~flight[u] /\ entered[u] = 0 /\ leaving[u] = 0
=============================================================================
