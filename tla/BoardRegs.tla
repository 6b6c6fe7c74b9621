----------------------------- MODULE BoardRegs ------------------------------
(***************************************************************************)
(* The library calls that configure a board through its BAR0 registers:    *)
(* the thresholds of the digital inputs (es5341_di_cfg.c), the digital     *)
(* outputs (es5341_do_cfg.c) and the oscilloscope (vi53xx_xdma.c).  Each   *)
(* call is a sequence of single register accesses, which nothing keeps     *)
(* from interleaving with those of another thread, and of which none looks *)
(* at the result: when the board's handle is gone, accesses are skipped.   *)
(*                                                                         *)
(* Voltages are given in units of 1/1024 V, which is what get_input_code() *)
(* truncates to first.  0xFFFFFFFF is written -1.                          *)
(***************************************************************************)
EXTENDS Integers, Sequences

CONSTANTS
  Threads, None,
  Volts,      \* the thresholds asked for, in 1/1024 V
  DOs,        \* the channels given to handler_do_config()
  Values,     \* the values given for outputs, references and sample counts
  Selections, \* the channels selected for the oscilloscope, a byte each
  MaxCalls    \* bound on the number of calls

ASSUME RegsAssumption ==
  /\ Volts \subseteq Nat /\ DOs \subseteq Nat /\ MaxCalls \in Nat
  /\ Values \subseteq Nat /\ Selections \subseteq [1 .. 8 -> 0 .. 255]
  /\ None \notin Nat \union BOOLEAN \union Nat \X Nat \union [1 .. 8 -> 0 .. 255]

VARIABLES
  bar0,       \* the registers
  level,      \* level[x][k]: the code the converter behind DINx holds as k
  handle,     \* get_dev_handle() finds the board
  todo,       \* todo[t]: the accesses left of the call t is in
  val,        \* val[t]: the local variable of clear_a_buff()
  calls,      \* number of calls made
  want,       \* history: the last request for each thing to configure
  asked,      \* history: every threshold requested
  undisturbed \* history: calls did not overlap, nor did the handle go during one

vars == <<bar0, level, handle, todo, val, calls, want, asked, undisturbed>>

(* The bit of v that is worth b, and x & y for an x of four bits.          *)
Bit(v, b) == (v \div b) % 2
And4(x, y) ==
  Bit(x, 1) * Bit(y, 1) + 2 * Bit(x, 2) * Bit(y, 2) + 4 * Bit(x, 4) * Bit(y, 4) + 8 * Bit(x, 8) * Bit(y, 8)

W(a, v) == [op |-> "write", addr |-> a, v |-> v]
-----------------------------------------------------------------------------
(* Digital inputs.                                                         *)
DIs == 0 .. 16     \* 0 stands for the numbers the switch does not know
LOW == 0
HIGH == 1
DIN == <<\h20100, \h20110, \h20120, \h20130>>
DIN_VLD == \h20150

(* Mutant: DI16 has the codes of DI14.                                     *)
di_hl_twice ==
  <<<<4, 5, 2, 7, 4, 5, 2, 7, 4, 5, 2, 8, 4, 8, 2, 8>>,
    <<3, 6, 1, 8, 3, 6, 1, 8, 3, 6, 1, 7, 3, 7, 1, 7>>>>

di_hl ==
  <<<<4, 5, 2, 7, 4, 5, 2, 7, 4, 5, 2, 8, 4, 8, 2, 6>>,
    <<3, 6, 1, 8, 3, 6, 1, 8, 3, 6, 1, 7, 3, 7, 1, 5>>>>

get_control(ch, hl) == IF ch = 0 THEN 0 ELSE di_hl[hl + 1][ch]

get_input_code(m) == (2 * m) \div 5

(* (control << MASK) | (code << 2): the sum, less the bits set in both.    *)
get_reg_value(ch, hl, code) ==
  4096 * (get_control(ch, hl) - And4(get_control(ch, hl), code \div 1024)) + 4 * code

(* Which DINx carries a channel, and in which order the other three are    *)
(* set to zero.                                                            *)
Din(ch) == 4 - (ch - 1) \div 4
Others == <<<<2, 3, 4>>, <<3, 4, 1>>, <<4, 2, 1>>, <<3, 2, 1>>>>

(* Mutant: the value is written after the strobe.                          *)
Call_DI_Config_late(ch, v) ==
  LET x == Din(ch)
  IN IF ch = 0 THEN <<W(DIN_VLD, 1), W(DIN_VLD, 0)>>
     ELSE <<W(DIN_VLD, 1), W(DIN_VLD, 0), W(DIN[x], v), W(DIN[Others[x][1]], 0),
            W(DIN[Others[x][2]], 0), W(DIN[Others[x][3]], 0)>>

Call_DI_Config(ch, v) ==
  LET x == Din(ch)
  IN IF ch = 0 THEN <<W(DIN_VLD, 1), W(DIN_VLD, 0)>>
     ELSE <<W(DIN[x], v), W(DIN[Others[x][1]], 0), W(DIN[Others[x][2]], 0),
            W(DIN[Others[x][3]], 0), W(DIN_VLD, 1), W(DIN_VLD, 0)>>

handler_di_config(ch, hl, m) ==
  Call_DI_Config(ch, get_reg_value(ch, hl, get_input_code(m)))

(* The strobe: each converter with a DINx that is not zero takes the code  *)
(* into the register the control bits name.                                *)
Latched(regs) ==
  [x \in 1 .. 4 |-> [k \in 1 .. 15 |->
     IF regs[DIN[x]] \div 4096 = k THEN (regs[DIN[x]] % 4096) \div 4 ELSE level[x][k]]]
-----------------------------------------------------------------------------
(* Digital outputs.                                                        *)
DO_En(ch) == \h10100 + 8 * (ch - 1)

(* Mutant: the two registers of a channel are taken for one word apart.    *)
DO_Ref_far(ch) == \h10108 + 8 * (ch - 1)

DO_Ref(ch) == \h10104 + 8 * (ch - 1)
F_VOLT_SEC_REF == \h10180

handler_do_config(ch, en, ref) ==
  IF ch \in 1 .. 16 THEN <<W(DO_En(ch), en), W(DO_Ref(ch), ref)>> ELSE <<>>
handler_f_voit_sec_ref(v) == <<W(F_VOLT_SEC_REF, v)>>
-----------------------------------------------------------------------------
(* Oscilloscope.                                                           *)
ScopeRegs == {\h0, \h4, \h8, \hc, \h1000, \h1004, \h1008, \h100c,
              \h2000, \h2004, \h2008, \h200c, \h3004, \h300c, \h4000}

(* scope_module_init(); the two stops of channels it begins with are       *)
(* vi53xx_xdma_stop(), see XdmaEngine.                                     *)
scope_module_init ==
  <<W(\h4, 0), W(\hc, 0), W(\h1004, 0), W(\h100c, 0), W(\h2004, 0), W(\h200c, 0),
    W(\h3004, -1), W(\h300c, -1), W(\h1000, 150)>>

Packed(sel, k) == sel[k + 1] + 256 * sel[k + 2] + 65536 * sel[k + 3] + 16777216 * sel[k + 4]

scope_select_ch(sel) == <<W(\h0, Packed(sel, 0)), W(\h8, Packed(sel, 4))>>
ModeValue(modeSel) == IF modeSel THEN 65537 ELSE 1
scope_slect_mode(modeSel) == <<W(\h2008, 0), W(\h2000, ModeValue(modeSel)), W(\h2008, 1)>>
start_scope == <<W(\h4000, 1), W(\h4000, 0)>>
scope_count_sampling(v) == <<W(\h1008, v)>>

(* Mutant: the other bits of the register are not read first.              *)
clear_a_buff_unread == <<W(\h2008, 2), W(\h2008, 0)>>

clear_a_buff ==
  <<[op |-> "read", addr |-> \h2008], [op |-> "set", addr |-> \h2008],
    [op |-> "clear", addr |-> \h2008]>>
-----------------------------------------------------------------------------
(* What is configured, the calls, and the accesses each one makes.         *)
Calls ==
  [f : {"di"}, ch : DIs, hl : {LOW, HIGH}, m : Volts]
    \union [f : {"do"}, ch : DOs, v : Values \X Values]
    \union [f : {"volt", "count"}, v : Values]
    \union [f : {"sel"}, v : Selections]
    \union [f : {"mode"}, v : BOOLEAN]
    \union [f : {"init", "start", "clear"}, v : {0}]

Target(c) ==
  CASE c.f = "di" -> <<"di", c.ch, c.hl>>
    [] c.f = "do" -> <<"do", c.ch, 0>>
    [] OTHER      -> <<c.f, 0, 0>>
Targets ==
  {"di"} \X DIs \X {LOW, HIGH} \union {"do"} \X DOs \X {0}
    \union {"volt", "count", "sel", "mode", "init", "start", "clear"} \X {0} \X {0}
Arg(c) == IF c.f = "di" THEN c.m ELSE c.v

Accesses(c) ==
  CASE c.f = "di"    -> handler_di_config(c.ch, c.hl, c.m)
    [] c.f = "do"    -> handler_do_config(c.ch, c.v[1], c.v[2])
    [] c.f = "volt"  -> handler_f_voit_sec_ref(c.v)
    [] c.f = "sel"   -> scope_select_ch(c.v)
    [] c.f = "mode"  -> scope_slect_mode(c.v)
    [] c.f = "count" -> scope_count_sampling(c.v)
    [] c.f = "init"  -> scope_module_init
    [] c.f = "start" -> start_scope
    [] c.f = "clear" -> clear_a_buff

Regs == {DIN[x] : x \in 1 .. 4} \union {DIN_VLD, F_VOLT_SEC_REF} \union ScopeRegs
          \union UNION {{DO_En(ch), DO_Ref(ch)} : ch \in 1 .. 16}

Init ==
  /\ bar0 = [a \in Regs |-> 0]
  /\ level = [x \in 1 .. 4 |-> [k \in 1 .. 15 |-> None]]
  /\ handle = TRUE
  /\ todo = [t \in Threads |-> <<>>] /\ val = [t \in Threads |-> 0]
  /\ calls = 0
  /\ want = [g \in Targets |-> None] /\ asked = {}
  /\ undisturbed = TRUE

Idle == \A t \in Threads : todo[t] = <<>>

call(t) ==
  /\ todo[t] = <<>> /\ calls < MaxCalls /\ calls' = calls + 1
  /\ \E c \in Calls :
       /\ todo' = [todo EXCEPT ![t] = Accesses(c)]
       /\ want' = IF handle THEN [want EXCEPT ![Target(c)] = Arg(c)] ELSE want
       /\ asked' = asked \union (IF c.f = "di" THEN {c} ELSE {})
  /\ undisturbed' = (undisturbed /\ Idle)
  /\ UNCHANGED <<bar0, level, handle, val>>

(* vi53xx_write_register(), vi53xx_read_register(): without a handle they  *)
(* return -1, which no caller looks at.                                    *)
access(t) ==
  /\ todo[t] # <<>> /\ todo' = [todo EXCEPT ![t] = Tail(@)]
  /\ LET o == Head(todo[t])
         v == CASE o.op = "write" -> o.v
                [] o.op = "set"   -> IF Bit(val[t], 2) = 1 THEN val[t] ELSE val[t] + 2
                [] o.op = "clear" -> IF Bit(val[t], 2) = 1 THEN val[t] - 2 ELSE val[t]
                [] o.op = "read"  -> bar0[o.addr]
     IN /\ bar0' = IF handle THEN [bar0 EXCEPT ![o.addr] = v] ELSE bar0
        /\ level' = IF handle /\ o.addr = DIN_VLD /\ v = 1 THEN Latched(bar0) ELSE level
        /\ val' = [val EXCEPT ![t] = IF o.op = "write" \/ (o.op = "read" /\ ~handle) THEN 0 ELSE v]
  /\ UNCHANGED <<handle, calls, want, asked, undisturbed>>

(* The exit of another thread closes the handle that both share.           *)
device_close ==
  /\ handle /\ handle' = FALSE
  /\ undisturbed' = (undisturbed /\ Idle)
  /\ UNCHANGED <<bar0, level, todo, val, calls, want, asked>>

Next == (\E t \in Threads : call(t) \/ access(t)) \/ device_close

Spec == Init /\ [][Next]_vars
-----------------------------------------------------------------------------
(* Code and voltage: m/1024 V is at least code steps of 2.5/1024 V, and    *)
(* less than one more.                                                     *)
Within(code, m) == 5 * code <= 2 * m /\ 2 * m < 5 * (code + 1)

(* No threshold of 2.5 V or more was asked for: its code would not fit     *)
(* below the control bits.                                                 *)
InRange == \A c \in asked : c.m < 2560

LevelOf(ch, hl) == level[Din(ch)][get_control(ch, hl)]

(* Calls that do not overlap set each threshold to within one step of what *)
(* was asked for last, and leave those of the other channels, which share  *)
(* converters and registers, alone.                                        *)
LevelsAsAsked ==
  undisturbed /\ InRange /\ Idle =>
    \A ch \in DIs \ {0} : \A hl \in {LOW, HIGH} :
      LET m == want[<<"di", ch, hl>>]
      IN IF m = None THEN LevelOf(ch, hl) = None
         ELSE LevelOf(ch, hl) # None /\ Within(LevelOf(ch, hl), m)

(* When calls overlap, or the handle goes, a threshold may be lost: the    *)
(* zeros of one call meet the value of another.  But no converter ever     *)
(* takes a code that was not asked for that very level.                    *)
LevelsFromCalls ==
  InRange =>
    \A ch \in DIs \ {0} : \A hl \in {LOW, HIGH} :
      LevelOf(ch, hl) # None =>
        \E c \in asked : c.ch = ch /\ c.hl = hl /\ Within(LevelOf(ch, hl), c.m)

(* Calls that do not overlap leave the outputs as asked for last.          *)
OutputsAsAsked ==
  undisturbed /\ Idle =>
    /\ \A ch \in DOs \intersect 1 .. 16 :
         LET v == want[<<"do", ch, 0>>]
         IN v # None => bar0[DO_En(ch)] = v[1] /\ bar0[DO_Ref(ch)] = v[2]
    /\ want[<<"volt", 0, 0>>] # None => bar0[F_VOLT_SEC_REF] = want[<<"volt", 0, 0>>]

(* The byte of a register that holds the selection of channel k.           *)
SelByte(k) ==
  (bar0[IF k < 4 THEN \h0 ELSE \h8] \div <<1, 256, 65536, 16777216>>[(k % 4) + 1]) % 256

(* Calls that do not overlap leave the oscilloscope in the selected mode   *)
(* and enabled, clear_a_buff() included, with the channels and the count   *)
(* selected, and no strobe active.                                         *)
ScopeAsAsked ==
  undisturbed /\ Idle =>
    /\ bar0[\h2008] = IF want[<<"mode", 0, 0>>] = None THEN 0 ELSE 1
    /\ want[<<"mode", 0, 0>>] # None => bar0[\h2000] = ModeValue(want[<<"mode", 0, 0>>])
    /\ want[<<"sel", 0, 0>>] # None => \A k \in 0 .. 7 : SelByte(k) = want[<<"sel", 0, 0>>][k + 1]
    /\ want[<<"count", 0, 0>>] # None => bar0[\h1008] = want[<<"count", 0, 0>>]
    /\ bar0[\h4000] = 0 /\ bar0[DIN_VLD] = 0
=============================================================================
