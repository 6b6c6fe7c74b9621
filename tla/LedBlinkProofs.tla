--------------------------- MODULE LedBlinkProofs ---------------------------
(***************************************************************************)
(* The safety properties of LedBlink, for any set of writers.  None of them*)
(* is inductive: what an idle state promises rests on what holds at each   *)
(* statement of a write under way, which the parts of Inv spell out.       *)
(***************************************************************************)
EXTENDS LedBlink, TLAPS

Armed == pending \/ isr # "idle"
NoneAt(S) == \A w \in Writers : wpc[w] \notin S

(* Without overlap at most one write is under way.                         *)
OneWriter == ~overlap =>
  \A v, w \in Writers : wpc[v] # "idle" /\ wpc[w] # "idle" => v = w

(* create_flag while "on" and "off" execute.                               *)
FlagInv == ~overlap /\ Alive =>
  /\ create_flag /\ NoneAt({"clear_flag"}) => Armed
  /\ \A w \in Writers :
       /\ wpc[w] \in {"setup_timer", "add_timer", "set_flag", "clear_state", "write_reg"}
            => ~create_flag
       /\ wpc[w] = "set_flag" => Armed

(* After a del_timer() that raced no callback the timer is dead.           *)
OffInv == ~overlap /\ ~late /\ Alive =>
  /\ ~create_flag /\ NoneAt({"set_flag"}) => ~Armed
  /\ ~NoneAt({"clear_flag"}) => ~Armed
  /\ isr # "idle" => ~pending
  /\ ~create_flag /\ NoneAt({"set_flag", "clear_flag", "clear_state"})
       => state = LED_BLINK_OFF
  /\ ~create_flag /\ NoneAt({"set_flag", "clear_flag", "clear_state", "write_reg"}) /\ off_ran
       => reg = LED_BLINK_OFF

QuietInv == quiet => freed /\ ~Armed /\ uaf # "isr"

Inv == TypeOK /\ OneWriter /\ FlagInv /\ OffInv /\ QuietInv /\ NoTimerMisuse

LEMMA InitInv == Init => Inv
  BY DEF Init, Inv, TypeOK, OneWriter, FlagInv, OffInv, QuietInv, NoTimerMisuse,
         WriterLabels, Armed, NoneAt, Alive, LED_BLINK_OFF, LED_BLINK_ON

(* Every step of Next preserves Inv.  The definitions used throughout are  *)
(* those of Inv's parts; each case adds the action it is about.            *)
LEMMA StepInv == Inv /\ [Next]_vars => Inv'
<1> SUFFICES ASSUME Inv, [Next]_vars PROVE Inv'
  OBVIOUS
<1> USE DEF Inv, TypeOK, OneWriter, FlagInv, OffInv, QuietInv, NoTimerMisuse, WriterLabels,
            Armed, NoneAt, Alive, WritersIdle, LED_BLINK_OFF, LED_BLINK_ON,
            device, fate, history, At
<1>1. ASSUME NEW w \in Writers, device_write(w) PROVE Inv'
  <2>1. wpc' \in [Writers -> WriterLabels] /\ TypeOK'
    BY <1>1 DEF device_write
  <2>2. ~overlap' => ~overlap /\ \A v \in Writers : wpc[v] = "idle" /\ (v # w => wpc'[v] = "idle")
    BY <1>1 DEF device_write
  <2>3. wpc'[w] \in {"test_flag", "del_timer"} /\ \A v \in Writers : v # w => wpc'[v] = wpc[v]
    BY <1>1 DEF device_write
  <2>4. OneWriter' /\ FlagInv'
    BY <1>1, <2>1, <2>2, <2>3 DEF device_write
  <2>5. OffInv'
    BY <1>1, <2>1, <2>2, <2>3 DEF device_write
  <2>6. QuietInv' /\ NoTimerMisuse'
    BY <1>1, <2>1, <2>2 DEF device_write
  <2> QED
    BY <2>1, <2>4, <2>5, <2>6
<1>2. ASSUME NEW w \in Writers, TouchFreed(w) PROVE Inv'
  BY <1>2 DEF TouchFreed
<1>3. ASSUME NEW w \in Writers, test_flag(w) PROVE Inv'
  BY <1>3 DEF test_flag
<1>4. ASSUME NEW w \in Writers, setup_timer(w) PROVE Inv'
  BY <1>4 DEF setup_timer
<1>5. ASSUME NEW w \in Writers, add_timer(w) PROVE Inv'
  BY <1>5 DEF add_timer
<1>6. ASSUME NEW w \in Writers, set_flag(w) PROVE Inv'
  BY <1>6 DEF set_flag
<1>7. ASSUME NEW w \in Writers, del_timer(w) PROVE Inv'
  BY <1>7 DEF del_timer
<1>8. ASSUME NEW w \in Writers, clear_flag(w) PROVE Inv'
  BY <1>8 DEF clear_flag
<1>9. ASSUME NEW w \in Writers, clear_state(w) PROVE Inv'
  BY <1>9 DEF clear_state
<1>10. ASSUME NEW w \in Writers, write_reg(w) PROVE Inv'
  BY <1>10 DEF write_reg
<1>11. CASE expire
  BY <1>11 DEF expire
<1>12. CASE isr_toggle
  BY <1>12 DEF isr_toggle
<1>13. CASE isr_write
  BY <1>13 DEF isr_write
<1>14. CASE isr_rearm
  BY <1>14 DEF isr_rearm
<1>15. CASE isr_touch_freed
  BY <1>15 DEF isr_touch_freed
<1>16. CASE xdma_remove
  BY <1>16 DEF xdma_remove
<1>17. CASE UNCHANGED vars
  BY <1>17 DEF vars
<1> QED
  BY <1>1, <1>2, <1>3, <1>4, <1>5, <1>6, <1>7, <1>8, <1>9, <1>10, <1>11, <1>12, <1>13, <1>14, <1>15, <1>16, <1>17 DEF Next, writer, timer_isr

LEMMA InvAlways == Spec => []Inv
  BY InitInv, StepInv, PTL DEF Spec

(* The variables of LedBlink stay within their types.                      *)
THEOREM TypeCorrect == Spec => []TypeOK
  <1>1. Inv => TypeOK
    BY DEF Inv
  <1> QED
    BY <1>1, InvAlways, PTL

(* For any number of writers, create_flag never claims a blinking LED whose*)
(* timer is dead: the early return of BlinkLED() is sound.                 *)
THEOREM FlagSound == Spec => []FlagMeansArmed
  <1>1. Inv => FlagMeansArmed
    BY DEF Inv, FlagInv, FlagMeansArmed, WritersIdle, NoneAt, Armed
  <1> QED
    BY <1>1, InvAlways, PTL

(* An "off" that raced nothing leaves the LED dark and the timer dead.     *)
THEOREM OffSound == Spec => []OffMeansDark
  <1>1. Inv => OffMeansDark
    BY DEF Inv, OffInv, OffMeansDark, WritersIdle, NoneAt, Armed
  <1> QED
    BY <1>1, InvAlways, PTL

(* The kernel's timer is misused only after one of the two races.          *)
THEOREM TimerSound == Spec => []NoTimerMisuse
  <1>1. Inv => NoTimerMisuse
    BY DEF Inv
  <1> QED
    BY <1>1, InvAlways, PTL

(* Removing a board whose LED is off leaves no callback behind.            *)
THEOREM RemoveSound == Spec => []QuietRemoveSafe
  <1>1. Inv => QuietRemoveSafe
    BY DEF Inv, QuietInv, QuietRemoveSafe
  <1> QED
    BY <1>1, InvAlways, PTL
=============================================================================
