------------------------------ MODULE LedBlink ------------------------------
(***************************************************************************)
(* The blinking LED of one board (board_info.c): "on" and "off" written to *)
(* /proc/vi53xx/<board> (vi53xx_proc.c, device_write) against the timer    *)
(* callback timer_isr(), which re-arms its own timer, and against          *)
(* xdma_remove(), which frees the device_info without touching the timer.  *)
(*                                                                         *)
(* Nothing is locked: each statement that reads or writes device_info or   *)
(* the timer is a step of its own.  oops and uaf stand for what the kernel *)
(* makes of a misused timer and of freed memory; nothing runs after them.  *)
(***************************************************************************)
EXTENDS Naturals

CONSTANT Writers   \* processes that write to the /proc file

VARIABLES
  create_flag,  \* info->create_flag
  state,        \* info->state
  reg,          \* the DEVICE_LED_BLINK register
  pending,      \* the timer is armed
  isr,          \* where timer_isr() is, "idle" when it is not running
  wpc,          \* wpc[w]: where device_write() of w is
  freed,        \* xdma_remove() has freed the xpdev that embeds info
  oops,         \* add_timer()/setup_timer() hit a pending timer
  uaf,          \* who touched info after it was freed
  overlap,      \* history: two device_write() calls ran at the same time
  late,         \* history: the last del_timer() missed a running timer_isr()
  quiet,        \* history: info was freed while blinking was off
  off_ran       \* history: an "off" has run to its end

device == <<create_flag, state, reg, pending>>
fate == <<freed, oops, uaf>>
history == <<overlap, late, quiet, off_ran>>
vars == <<device, isr, wpc, fate, history>>

WriterLabels == {"idle", "test_flag", "setup_timer", "add_timer", "set_flag",
                 "del_timer", "clear_flag", "clear_state", "write_reg"}

LED_BLINK_OFF == 0
LED_BLINK_ON == 1

Init ==
  /\ create_flag = FALSE /\ state = LED_BLINK_OFF /\ pending = FALSE
  /\ reg \in {LED_BLINK_OFF, LED_BLINK_ON}
  /\ isr = "idle"
  /\ wpc = [w \in Writers |-> "idle"]
  /\ freed = FALSE /\ oops = FALSE /\ uaf = "none"
  /\ overlap = FALSE /\ late = FALSE /\ quiet = FALSE /\ off_ran = FALSE

Alive == ~oops /\ uaf = "none"
WritersIdle == \A w \in Writers : wpc[w] = "idle"

At(w, from, to) == wpc[w] = from /\ wpc' = [wpc EXCEPT ![w] = to]
-----------------------------------------------------------------------------
(* device_write(): "on" and "off" are passed to device_control().          *)
device_write(w) ==
  /\ Alive
  /\ At(w, "idle", "test_flag") \/ At(w, "idle", "del_timer")
  /\ overlap' = (overlap \/ ~WritersIdle)
  /\ UNCHANGED <<device, isr, fate, late, quiet, off_ran>>

(* Every later statement of w dereferences info.                           *)
TouchFreed(w) ==
  /\ Alive /\ freed /\ wpc[w] # "idle"
  /\ uaf' = "writer"
  /\ UNCHANGED <<device, isr, wpc, freed, oops, history>>

(* Mutant: an on does not look at create_flag.                             *)
test_flag_dropped(w) ==
  /\ Alive /\ ~freed
  /\ At(w, "test_flag", "setup_timer")
  /\ UNCHANGED <<device, isr, fate, history>>

(* BlinkLED(): an LED that already blinks is left alone.                   *)
test_flag(w) ==
  /\ Alive /\ ~freed
  /\ IF create_flag THEN At(w, "test_flag", "idle") ELSE At(w, "test_flag", "setup_timer")
  /\ UNCHANGED <<device, isr, fate, history>>

setup_timer(w) ==
  /\ Alive /\ ~freed
  /\ At(w, "setup_timer", "add_timer")
  /\ oops' = pending
  /\ UNCHANGED <<device, isr, freed, uaf, history>>

add_timer(w) ==
  /\ Alive /\ ~freed
  /\ At(w, "add_timer", "set_flag")
  /\ oops' = pending
  /\ pending' = TRUE
  /\ UNCHANGED <<create_flag, state, reg, isr, freed, uaf, history>>

set_flag(w) ==
  /\ Alive /\ ~freed
  /\ At(w, "set_flag", "idle")
  /\ create_flag' = TRUE
  /\ UNCHANGED <<state, reg, pending, isr, fate, history>>

(* Mutant: an off leaves the timer armed.                                  *)
del_timer_forgotten(w) ==
  /\ Alive /\ ~freed
  /\ At(w, "del_timer", "clear_flag")
  /\ late' = (isr # "idle")
  /\ UNCHANGED <<device, isr, fate, overlap, quiet, off_ran>>

(* call_blink_control(): del_timer(), not del_timer_sync(): a callback that*)
(* is already running is not waited for.                                   *)
del_timer(w) ==
  /\ Alive /\ ~freed
  /\ At(w, "del_timer", "clear_flag")
  /\ pending' = FALSE
  /\ late' = (isr # "idle")
  /\ UNCHANGED <<create_flag, state, reg, isr, fate, overlap, quiet, off_ran>>

(* Mutant: an off leaves create_flag set.                                  *)
clear_flag_forgotten(w) ==
  /\ Alive /\ ~freed
  /\ At(w, "clear_flag", "clear_state")
  /\ UNCHANGED <<device, isr, fate, history>>

clear_flag(w) ==
  /\ Alive /\ ~freed
  /\ At(w, "clear_flag", "clear_state")
  /\ create_flag' = FALSE
  /\ UNCHANGED <<state, reg, pending, isr, fate, history>>

(* Mutant: an off writes back the state the callback left.                 *)
clear_state_forgotten(w) ==
  /\ Alive /\ ~freed
  /\ At(w, "clear_state", "write_reg")
  /\ UNCHANGED <<device, isr, fate, history>>

clear_state(w) ==
  /\ Alive /\ ~freed
  /\ At(w, "clear_state", "write_reg")
  /\ state' = LED_BLINK_OFF
  /\ UNCHANGED <<create_flag, reg, pending, isr, fate, history>>

write_reg(w) ==
  /\ Alive /\ ~freed
  /\ At(w, "write_reg", "idle")
  /\ reg' = state
  /\ off_ran' = TRUE
  /\ UNCHANGED <<create_flag, state, pending, isr, fate, overlap, late, quiet>>
-----------------------------------------------------------------------------
(* The kernel runs an expired timer's callback with the timer disarmed.    *)
(* A re-armed timer needs at least 10 ms, so one callback runs at a time.  *)
expire ==
  /\ Alive /\ pending /\ isr = "idle"
  /\ pending' = FALSE
  /\ isr' = "toggle"
  /\ UNCHANGED <<create_flag, state, reg, wpc, fate, history>>

(* Mutant: the state counts up instead of alternating.                     *)
isr_toggle_counts ==
  /\ Alive /\ ~freed /\ isr = "toggle"
  /\ state' = state + 1
  /\ isr' = "write"
  /\ UNCHANGED <<create_flag, reg, pending, wpc, fate, history>>

isr_toggle ==
  /\ Alive /\ ~freed /\ isr = "toggle"
  /\ state' = IF state = LED_BLINK_ON THEN LED_BLINK_OFF ELSE LED_BLINK_ON
  /\ isr' = "write"
  /\ UNCHANGED <<create_flag, reg, pending, wpc, fate, history>>

(* Mutant: the callback does not write the register.                       *)
isr_write_forgotten ==
  /\ Alive /\ ~freed /\ isr = "write"
  /\ isr' = "rearm"
  /\ UNCHANGED <<create_flag, state, reg, pending, wpc, fate, history>>

isr_write ==
  /\ Alive /\ ~freed /\ isr = "write"
  /\ reg' = state
  /\ isr' = "rearm"
  /\ UNCHANGED <<create_flag, state, pending, wpc, fate, history>>

isr_rearm ==
  /\ Alive /\ ~freed /\ isr = "rearm"
  /\ oops' = pending
  /\ pending' = TRUE
  /\ isr' = "idle"
  /\ UNCHANGED <<create_flag, state, reg, wpc, freed, uaf, history>>

isr_touch_freed ==
  /\ Alive /\ freed /\ isr # "idle"
  /\ uaf' = "isr"
  /\ UNCHANGED <<device, isr, wpc, freed, oops, history>>

(* xdma_remove(): neither the timer nor the /proc entry is taken down.     *)
xdma_remove ==
  /\ Alive /\ ~freed
  /\ freed' = TRUE
  /\ quiet' = (~create_flag /\ WritersIdle /\ ~overlap /\ ~late)
  /\ UNCHANGED <<device, isr, wpc, oops, uaf, overlap, late, off_ran>>

writer(w) ==
  \/ test_flag(w) \/ setup_timer(w) \/ add_timer(w) \/ set_flag(w)
  \/ del_timer(w) \/ clear_flag(w) \/ clear_state(w) \/ write_reg(w)
  \/ TouchFreed(w)

timer_isr == isr_toggle \/ isr_write \/ isr_rearm \/ isr_touch_freed

Next ==
  \/ \E w \in Writers : device_write(w) \/ writer(w)
  \/ expire \/ timer_isr \/ xdma_remove

(* Armed timers expire, and callbacks and system calls run to their end.   *)
Fairness == WF_vars(expire) /\ WF_vars(timer_isr) /\ \A w \in Writers : WF_vars(writer(w))

Spec == Init /\ [][Next]_vars /\ Fairness
-----------------------------------------------------------------------------
TypeOK ==
  /\ create_flag \in BOOLEAN /\ pending \in BOOLEAN
  /\ state \in {LED_BLINK_OFF, LED_BLINK_ON} /\ reg \in {LED_BLINK_OFF, LED_BLINK_ON}
  /\ isr \in {"idle", "toggle", "write", "rearm"}
  /\ wpc \in [Writers -> WriterLabels]
  /\ freed \in BOOLEAN /\ oops \in BOOLEAN /\ uaf \in {"none", "writer", "isr"}
  /\ overlap \in BOOLEAN /\ late \in BOOLEAN /\ quiet \in BOOLEAN /\ off_ran \in BOOLEAN

(* create_flag is what BlinkLED() trusts: while it is set and no write is  *)
(* under way the timer is armed or its callback, which re-arms it, runs.   *)
(* So an "on" that is ignored finds a LED that really blinks.              *)
FlagMeansArmed ==
  create_flag /\ WritersIdle /\ ~overlap /\ Alive => pending \/ isr # "idle"

(* After an "off" whose del_timer() did not race timer_isr() the LED is    *)
(* dark and nothing is left that could light it.                           *)
OffMeansDark ==
  ~create_flag /\ WritersIdle /\ ~overlap /\ ~late /\ Alive =>
    /\ ~pending /\ isr = "idle" /\ state = LED_BLINK_OFF
    /\ off_ran => reg = LED_BLINK_OFF

(* add_timer() and setup_timer() never meet an armed timer, however "on",  *)
(* "off" and expiries alternate, unless writes overlap or an "off" raced   *)
(* the callback and no later "off" repaired it.                            *)
NoTimerMisuse == ~overlap /\ ~late => ~oops

(* Removing a board whose LED was switched off (without such a race) leaves*)
(* no callback behind that would run on the freed device_info.             *)
QuietRemoveSafe == quiet => uaf # "isr"

(* A LED that is switched on and left alone keeps changing.                *)
KeepsBlinking ==
  <>[](create_flag /\ WritersIdle /\ ~overlap /\ Alive /\ ~freed)
    => []<>(reg = LED_BLINK_ON) /\ []<>(reg = LED_BLINK_OFF)
=============================================================================
