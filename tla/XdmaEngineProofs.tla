-------------------------- MODULE XdmaEngineProofs --------------------------
(***************************************************************************)
(* The chain xdma_desc_alloc() builds is right for every MAX_DESC_NUM a    *)
(* uint8_t can hold and every MAX_EXTRA_ADJ.  The loop invariant is that   *)
(* adj counts down with i, which makes Nxt_adj of descriptor j the number  *)
(* of descriptors left after j + 1, cut off at MAX_EXTRA_ADJ.              *)
(*                                                                         *)
(* Where the engines of XdmaEngine read and write, for chains of any length*)
(* and any number of starts.  What is added to the chain is when it is     *)
(* there: from the end of xdma_create_transfer() until xdma_free_desc(), so*)
(* that an engine that works only between a start of its client and the    *)
(* poll that saw it idle never misses it.                                  *)
(***************************************************************************)
EXTENDS XdmaEngine, TLAPS

(* Chains.                                                                 *)
Left(j) == IF SG_num - 2 - j > MAX_EXTRA_ADJ THEN MAX_EXTRA_ADJ ELSE SG_num - 2 - j

Linked(j) == [Nxt_adj |-> Left(j), stop |-> FALSE, bytes |-> data_len(j), buf |-> j,
              ep |-> j * EP_STRIDE, next |-> At(j + 1)]
Last == [Nxt_adj |-> 0, stop |-> TRUE, bytes |-> data_len(SG_num - 1), buf |-> SG_num - 1,
         ep |-> (SG_num - 1) * EP_STRIDE, next |-> NoNext]

(* The first k descriptors are linked, and no other is written.            *)
LinkedUpTo(k) == DOMAIN desc = 0 .. k - 1 /\ \A j \in 0 .. k - 1 : desc[j] = Linked(j)
Complete ==
  /\ DOMAIN desc = 0 .. SG_num - 1
  /\ \A j \in 0 .. SG_num - 2 : desc[j] = Linked(j)
  /\ desc[SG_num - 1] = Last

Counters ==
  /\ pc \in {"alloc", "loop", "cofg", "cofg_null", "done"}
  /\ SG_num \in 1 .. MAX_DESC_NUM /\ i \in 0 .. SG_num - 1
  /\ adj = SG_num - 1 - i
  /\ extra_adj \in 0 .. MAX_EXTRA_ADJ /\ (i = SG_num - 1 => extra_adj = 0)
Chain ==
  /\ pc \in {"alloc", "cofg_null"} => i = 0 /\ DOMAIN desc = {}
  /\ pc = "loop" => LinkedUpTo(i)
  /\ pc = "cofg" => Complete
  /\ pc = "done" => DOMAIN desc = {} \/ Complete
Regs ==
  /\ regs.first \in {NoNext, At(0)} /\ regs.ADJA \in Nat /\ regs.ADD \in 0 .. MAX_DESC_NUM
  /\ regs.first = At(0) => pc = "done" /\ regs.ADJA = SG_num - 1 /\ Complete

Inv == Counters /\ Chain /\ Regs

LEMMA InitInv == Init => Inv
  BY DescAssumption DEF Init, Inv, Counters, Chain, Regs, uint8, NoNext, At

LEMMA StepInv == Inv /\ [Next]_vars => Inv'
<1> SUFFICES ASSUME Inv, [Next]_vars PROVE Inv'
  OBVIOUS
<1> USE DescAssumption DEF Inv, Counters
<1>1. CASE desc_alloc
  BY <1>1 DEF desc_alloc, Chain, Regs, LinkedUpTo, Complete, Linked, Left, Last
<1>2. CASE link
  <2>1. adj > 0 /\ adj' = adj - 1 /\ extra_adj' = Left(i) /\ i' = i + 1
    BY <1>2 DEF link, ExtraAdj, Left, uint8
  <2>2. Counters'
    BY <1>2, <2>1 DEF link, Left
  <2>3. desc' = [k \in 0 .. i |-> IF k = i THEN Linked(i) ELSE desc[k]]
    <3>1. DOMAIN desc \union {i} = 0 .. i
      BY <1>2 DEF link, Chain, LinkedUpTo
    <3> QED
      BY <1>2, <2>1, <3>1 DEF link, Written, Linked
  <2>4. LinkedUpTo(i)'
    <3>1. 0 .. i' - 1 = 0 .. i /\ \A j \in 0 .. i : j # i => j \in 0 .. i - 1
      BY <2>1
    <3>2. \A j \in 0 .. i : Linked(j)' = Linked(j)
      BY <1>2 DEF link, Linked, Left
    <3>3. \A j \in 0 .. i - 1 : desc[j] = Linked(j)
      BY <1>2 DEF link, Chain, LinkedUpTo
    <3> QED
      BY <2>3, <3>1, <3>2, <3>3 DEF LinkedUpTo
  <2>5. Regs' /\ pc' = "loop"
    BY <1>2 DEF link, Regs
  <2> QED
    BY <2>2, <2>4, <2>5 DEF Chain
<1>3. CASE finish
  <2>1. i = SG_num - 1 /\ extra_adj = 0 /\ LinkedUpTo(i)
    BY <1>3 DEF finish, Chain
  <2>2. desc' = [k \in 0 .. SG_num - 1 |-> IF k = SG_num - 1 THEN Last ELSE desc[k]]
    <3>1. DOMAIN desc \union {i} = 0 .. SG_num - 1
      BY <2>1 DEF LinkedUpTo
    <3> QED
      BY <1>3, <2>1, <3>1 DEF finish, Written, Last
  <2>3. Complete'
    <3>1. SG_num' = SG_num /\ Last' = Last /\ \A j \in 0 .. SG_num - 2 : Linked(j)' = Linked(j)
      BY <1>3 DEF finish, Linked, Left, Last
    <3>2. \A j \in 0 .. SG_num - 2 : j \in 0 .. SG_num - 1 /\ j # SG_num - 1 /\ desc[j] = Linked(j)
      BY <2>1 DEF LinkedUpTo
    <3> QED
      BY <2>2, <3>1, <3>2 DEF Complete
  <2> QED
    BY <1>3, <2>3 DEF finish, Chain, Regs
<1>4. CASE cofg_desc
  <2>1. Complete' <=> Complete
    BY <1>4 DEF cofg_desc, Complete, Linked, Left, Last
  <2>2. /\ pc' = "done" /\ SG_num' = SG_num /\ DOMAIN desc' = DOMAIN desc
        /\ regs'.first = (IF pc = "cofg" THEN At(0) ELSE NoNext)
        /\ regs'.ADJA = SG_num - 1 /\ regs'.ADD = IF SG_num > 1 THEN SG_num ELSE 0
        /\ pc = "cofg" => Complete
        /\ pc \in {"cofg", "cofg_null"} /\ (pc = "cofg_null" => DOMAIN desc = {})
    BY <1>4 DEF cofg_desc, Chain
  <2>3. NoNext # At(0)
    BY DEF NoNext, At
  <2>4. Regs'
    BY <2>1, <2>2, <2>3 DEF Regs
  <2>5. Chain'
    BY <2>1, <2>2 DEF Chain
  <2> QED
    BY <1>4, <2>4, <2>5 DEF cofg_desc
<1>5. CASE UNCHANGED vars
  BY <1>5 DEF vars, Chain, Regs, LinkedUpTo, Complete, Linked, Left, Last
<1> QED
  BY <1>1, <1>2, <1>3, <1>4, <1>5 DEF Next

LEMMA InvAlways == Spec => []Inv
  BY InitInv, StepInv, PTL DEF Spec

LEMMA DataTyped == \A j \in Nat : data_len(j) \in Nat /\ j * EP_STRIDE \in Nat
  BY DescAssumption DEF data_len, EP_STRIDE

(* What a written descriptor holds, whatever the state of the loop.        *)
LEMMA WrittenDesc ==
  ASSUME Inv, NEW j \in DOMAIN desc
  PROVE  /\ j \in 0 .. SG_num - 1 /\ desc[j] = IF desc[j].stop THEN Last ELSE Linked(j)
         /\ ~desc[j].stop => j <= SG_num - 2
  <1>1. SG_num \in 1 .. MAX_DESC_NUM /\ i \in 0 .. SG_num - 1 /\ SG_num \in Int
    BY DescAssumption DEF Inv, Counters
  <1>2. LinkedUpTo(i) \/ Complete
    BY DEF Inv, Chain, Counters
  <1>3. CASE LinkedUpTo(i)
    BY <1>1, <1>3 DEF LinkedUpTo, Linked
  <1>4. CASE Complete
    <2>1. CASE j = SG_num - 1
      BY <1>1, <1>4, <2>1 DEF Complete, Last
    <2>2. CASE j # SG_num - 1
      <3>1. j \in 0 .. SG_num - 2
        BY <1>1, <1>4, <2>2 DEF Complete
      <3>2. desc[j] = Linked(j) /\ ~Linked(j).stop
        BY <1>4, <3>1 DEF Complete, Linked
      <3> QED
        BY <1>1, <3>1, <3>2
    <2> QED
      BY <2>1, <2>2
  <1> QED
    BY <1>2, <1>3, <1>4

LEMMA PrefetchInv == Inv => PrefetchInBounds
<1> SUFFICES ASSUME Inv PROVE PrefetchInBounds
  OBVIOUS
<1>1. SG_num \in Int /\ MAX_EXTRA_ADJ \in Nat
  BY DescAssumption DEF Inv, Counters
<1>2. ASSUME NEW j \in DOMAIN desc
      PROVE  IF desc[j].stop THEN desc[j].Nxt_adj = 0
                             ELSE j + 1 + desc[j].Nxt_adj <= SG_num - 1
  BY <1>1, WrittenDesc DEF Linked, Last, Left
<1>3. regs.first = At(0) => 0 .. regs.ADJA \subseteq DOMAIN desc
  BY DEF Inv, Regs, Complete
<1> QED
  BY <1>2, <1>3 DEF PrefetchInBounds

(* No descriptor, and not the register that introduces the first one,      *)
(* announces more neighbours than the chain has left.                      *)
THEOREM PrefetchSound == Spec => []PrefetchInBounds
  BY PrefetchInv, InvAlways, PTL

LEMMA ChainInv == Inv => ChainComplete
<1> SUFFICES ASSUME Inv, regs.first = At(0) PROVE ChainComplete
  BY DEF ChainComplete
<1>1. Complete /\ SG_num \in 1 .. MAX_DESC_NUM /\ MAX_DESC_NUM \in Int
  BY DescAssumption DEF Inv, Regs, Counters
<1>2. ASSUME NEW j \in 0 .. SG_num - 1
      PROVE  /\ desc[j].stop <=> j = SG_num - 1
             /\ j < SG_num - 1 => desc[j].next = At(j + 1)
             /\ desc[j].bytes = data_len(j) /\ desc[j].buf = j /\ desc[j].ep = j * EP_STRIDE
  <2>1. CASE j = SG_num - 1
    BY <1>1, <2>1 DEF Complete, Last
  <2>2. CASE j # SG_num - 1
    <3>1. j \in 0 .. SG_num - 2
      BY <1>1, <2>2
    <3>2. desc[j] = Linked(j)
      BY <1>1, <3>1 DEF Complete
    <3> QED
      BY <2>2, <3>2 DEF Linked
  <2> QED
    BY <2>1, <2>2
<1>3. desc[0].bytes = SIZE /\ desc[0].buf = 0 /\ desc[0].ep = 0
  BY <1>1, <1>2 DEF data_len, EP_STRIDE
<1>4. \A j \in 0 .. SG_num - 1 : j > 0 => desc[j].bytes = 0
  BY <1>2 DEF data_len
<1> QED
  BY <1>1, <1>2, <1>3, <1>4 DEF Complete, ChainComplete

(* The chain handed to the engine is complete and ends, and moves the      *)
(* buffer that processes map and nothing else.                             *)
THEOREM ChainSound == Spec => []ChainComplete
  BY ChainInv, InvAlways, PTL

LEMMA BurstInv == Inv => BurstsMaximal
<1> SUFFICES ASSUME Inv, NEW j \in DOMAIN desc, ~desc[j].stop,
                    desc[j].Nxt_adj < MAX_EXTRA_ADJ
             PROVE  j + 1 + desc[j].Nxt_adj = SG_num - 1
  BY DEF BurstsMaximal
<1>1. SG_num \in Int /\ MAX_EXTRA_ADJ \in Nat
  BY DescAssumption DEF Inv, Counters
<1> QED
  BY <1>1, WrittenDesc DEF Linked, Left

(* No burst is shorter than the hardware limit requires.                   *)
THEOREM BurstSound == Spec => []BurstsMaximal
  BY BurstInv, InvAlways, PTL
-----------------------------------------------------------------------------
(* Engines.                                                                *)
FullChain == [j \in 0 .. SG_num - 1 |-> IF j = SG_num - 1 THEN Last ELSE Linked(j)]

CfgType == [SG : {0, SG_num}, data : BOOLEAN, chain : {NoMem, FullChain}]
HwType == [run : BOOLEAN, st : {"idle", "busy", "ending", "done", "error"},
           at : {"none", "desc"} \X Nat, first : {NoNext, At(0)}, credits : Nat, mode : BOOLEAN]
Steps == {"setup", "poll_read", "poll_write", "init_stop", "create", "next", "live",
          "free_pdata", "free_desc", "umap", "gone"}

(* The loop of xdma_desc_alloc() writes a function on an initial segment.  *)
DescInv == Inv /\ desc = [j \in DOMAIN desc |-> desc[j]]

Typed ==
  /\ step \in Steps /\ n \in 1 .. 3 /\ tmp \in BOOLEAN
  /\ cfg \in [Channels -> CfgType]
  /\ hw \in [Channels -> HwType]
  /\ cl \in [Clients -> {"idle", "starting", "running", "stopped"}]
  /\ starts \in 0 .. MAX_STARTS
  /\ handle \in BOOLEAN /\ orderly \in BOOLEAN /\ astray \in BOOLEAN

(* The channel that xdma_channel_init() is done with.                      *)
Programmed(c) == cfg[c].data /\ cfg[c].chain = FullChain /\ hw[c].first = At(0)
Setup ==
  /\ \A k \in 1 .. 3 : \/ step \in {"setup", "poll_read", "poll_write", "init_stop", "create"} /\ k < n
                       \/ step = "next" /\ k <= n
                       \/ step = "live"
                       => Programmed(InitOrder[k])
  /\ step \in {"poll_read", "poll_write", "init_stop", "create"} => cfg[cur].data
  /\ step = "poll_write" => ~tmp

(* An engine and its client: it works from START until the poll after STOP.*)
InStep(c) ==
  /\ cl[c] \in {"idle", "starting"} => ~hw[c].run /\ hw[c].st = "idle"
  /\ cl[c] = "running" => hw[c].run /\ hw[c].st \in {"busy", "done"}
  /\ cl[c] = "stopped" => ~hw[c].run /\ hw[c].st \in {"idle", "ending"}
  /\ Working(hw[c]) => hw[c].at[1] = "desc" /\ hw[c].at[2] \in 0 .. SG_num - 1

Ordered ==
  orderly =>
    /\ ~astray
    /\ Setup
    /\ step # "live" \/ ~handle => AllIdle
    /\ \A c \in Clients : InStep(c)
    /\ \A c \in Channels \ Clients : ~hw[c].run /\ hw[c].st = "idle"

EngineInv == DescInv /\ Typed /\ Ordered
-----------------------------------------------------------------------------
LEMMA OrderFacts ==
  /\ Len(InitOrder) = 3 /\ Clients = {<<1, 1>>, <<0, 1>>, <<1, 2>>}
  /\ Channels = {<<1, 1>>, <<0, 1>>, <<1, 2>>, <<0, 2>>}
  /\ \A k \in 1 .. 3 : InitOrder[k] \in Clients /\ DescOrder[k] \in Clients
  /\ \A j, k \in 1 .. 3 : j # k => InitOrder[j] # InitOrder[k]
  /\ Clients \subseteq Channels
<1>1. Len(InitOrder) = 3 /\ DOMAIN InitOrder = 1 .. 3
  BY DEF InitOrder
<1>2. 1 .. 3 = {1, 2, 3}
  OBVIOUS
<1>3. /\ InitOrder[1] = <<1, 1>> /\ InitOrder[2] = <<0, 1>> /\ InitOrder[3] = <<1, 2>>
      /\ DescOrder[1] = <<0, 1>> /\ DescOrder[2] = <<1, 1>> /\ DescOrder[3] = <<1, 2>>
  BY DEF InitOrder, DescOrder, H2C_DIR, C2H_DIR, CH1, CH2
<1>4. Clients = {<<1, 1>>, <<0, 1>>, <<1, 2>>}
  BY <1>1, <1>2, <1>3 DEF Clients
<1>5. Channels = {<<1, 1>>, <<0, 1>>, <<1, 2>>, <<0, 2>>}
  BY DEF Channels, H2C_DIR, C2H_DIR, CH1, CH2
<1>6. <<1, 1>> # <<0, 1>> /\ <<1, 1>> # <<1, 2>> /\ <<0, 1>> # <<1, 2>>
  OBVIOUS
<1> QED
  BY <1>1, <1>2, <1>3, <1>4, <1>5, <1>6

LEMMA ClientsHaveChannels == Clients \subseteq Channels
  BY OrderFacts

LEMMA ChainFixed == ASSUME SG_num' = SG_num PROVE FullChain' = FullChain /\ CfgType' = CfgType
  BY DEF FullChain, CfgType, Linked, Last, Left

(* A chain that is written to the end, as a value.                         *)
LEMMA CompleteChain ==
  ASSUME DescInv PROVE /\ Complete => desc = FullChain
                       /\ DOMAIN desc = {} => desc = NoMem
<1>1. SG_num \in Nat
  BY DescAssumption DEF DescInv, Inv, Counters
<1>2. ASSUME Complete PROVE desc = FullChain
  <2>1. \A j \in 0 .. SG_num - 1 : j # SG_num - 1 => j \in 0 .. SG_num - 2
    BY <1>1
  <2>2. DOMAIN desc = 0 .. SG_num - 1 /\ \A j \in 0 .. SG_num - 1 : desc[j] = FullChain[j]
    BY <1>2, <2>1 DEF Complete, FullChain
  <2> QED
    BY <2>2 DEF DescInv, FullChain
<1>3. ASSUME DOMAIN desc = {} PROVE desc = NoMem
  BY <1>3 DEF DescInv, NoMem
<1> QED
  BY <1>2, <1>3

(* How the engine goes from one descriptor of a chain to the next.         *)
LEMMA ChainWalk ==
  ASSUME DescInv, NEW j \in 0 .. SG_num - 1
  PROVE  /\ DOMAIN FullChain = 0 .. SG_num - 1
         /\ FullChain[j].next \in {"none", "desc"} \X Nat
         /\ ~FullChain[j].stop => FullChain[j].next[1] = "desc" /\ FullChain[j].next[2] \in 0 .. SG_num - 1
<1>1. SG_num \in Nat
  BY DescAssumption DEF DescInv, Inv, Counters
<1>2. CASE j = SG_num - 1
  BY <1>1, <1>2 DEF FullChain, Last, NoNext
<1>3. CASE j # SG_num - 1
  BY <1>1, <1>3 DEF FullChain, Linked, At
<1> QED
  BY <1>2, <1>3

(* Writing one register of an engine keeps its type.                       *)
LEMMA HwUpdate ==
  ASSUME NEW e \in HwType
  PROVE  /\ \A r \in BOOLEAN : [e EXCEPT !.run = r] \in HwType
         /\ \A s \in {"idle", "busy", "ending", "done", "error"} : [e EXCEPT !.st = s] \in HwType
         /\ \A k \in Nat : [e EXCEPT !.credits = k] \in HwType
         /\ \A a \in {"none", "desc"} \X Nat : [e EXCEPT !.at = a] \in HwType
         /\ \A a \in {NoNext, At(0)} : [e EXCEPT !.first = a] \in HwType
         /\ \A m \in BOOLEAN : [e EXCEPT !.mode = m] \in HwType
  BY DEF HwType

LEMMA ControlFacts ==
  ASSUME NEW e \in HwType, NEW run \in BOOLEAN
  PROVE  /\ WriteControl(e, run) \in HwType
         /\ WriteControl(e, run).first = e.first
         /\ ~run /\ ~e.run => WriteControl(e, run) = e
         /\ run /\ ~e.run => /\ WriteControl(e, run).run /\ WriteControl(e, run).st = "busy"
                             /\ WriteControl(e, run).at = e.first
         /\ ~run /\ e.run => /\ ~WriteControl(e, run).run /\ WriteControl(e, run).at = e.at
                             /\ WriteControl(e, run).st = IF e.st = "busy" THEN "ending" ELSE "idle"
<1>1. {NoNext, At(0)} \subseteq {"none", "desc"} \X Nat
  BY DEF NoNext, At
<1>2. CASE run /\ ~e.run
  <2>1. WriteControl(e, run) = [e EXCEPT !.run = TRUE, !.st = "busy", !.at = e.first]
    BY <1>2 DEF WriteControl
  <2> QED
    BY <1>1, <1>2, <2>1 DEF HwType
<1>3. CASE ~run /\ e.run
  <2> DEFINE to == IF e.st = "busy" THEN "ending" ELSE "idle"
  <2>1. WriteControl(e, run) = [e EXCEPT !.run = FALSE, !.credits = 0, !.st = to]
    BY <1>3 DEF WriteControl
  <2>2. to \in {"idle", "ending"}
    OBVIOUS
  <2> HIDE DEF to
  <2>3. WriteControl(e, run) \in HwType
    <3>1. [e EXCEPT !.run = FALSE] \in HwType
      BY HwUpdate
    <3>2. [[e EXCEPT !.run = FALSE] EXCEPT !.credits = 0] \in HwType
      BY <3>1, HwUpdate
    <3>3. [[[e EXCEPT !.run = FALSE] EXCEPT !.credits = 0] EXCEPT !.st = to] \in HwType
      BY <2>2, <3>2, HwUpdate
    <3> QED
      BY <2>1, <3>3
  <2>4. /\ WriteControl(e, run).first = e.first /\ WriteControl(e, run).at = e.at
        /\ WriteControl(e, run).run = FALSE /\ WriteControl(e, run).st = to
    BY <2>1 DEF HwType
  <2> QED
    BY <1>3, <2>3, <2>4 DEF to
<1>4. CASE ~(run /\ ~e.run) /\ ~(~run /\ e.run)
  <2>1. WriteControl(e, run) = e
    BY <1>4 DEF WriteControl
  <2> QED
    BY <1>4, <2>1
<1> QED
  BY <1>2, <1>3, <1>4

LEMMA RunFacts ==
  ASSUME NEW e \in HwType
  PROVE  /\ ~e.run => /\ WriteControl(e, TRUE).run /\ WriteControl(e, TRUE).st = "busy"
                      /\ WriteControl(e, TRUE).at = e.first
         /\ e.run => /\ ~WriteControl(e, FALSE).run /\ WriteControl(e, FALSE).at = e.at
                     /\ WriteControl(e, FALSE).st = IF e.st = "busy" THEN "ending" ELSE "idle"
<1>1. TRUE \in BOOLEAN /\ FALSE \in BOOLEAN
  OBVIOUS
<1>2. ~e.run => /\ WriteControl(e, TRUE).run /\ WriteControl(e, TRUE).st = "busy"
                /\ WriteControl(e, TRUE).at = e.first
  BY <1>1, ControlFacts, Zenon
<1>3. e.run => /\ ~WriteControl(e, FALSE).run /\ WriteControl(e, FALSE).at = e.at
               /\ WriteControl(e, FALSE).st = IF e.st = "busy" THEN "ending" ELSE "idle"
  BY <1>1, ControlFacts, Zenon
<1> QED
  BY <1>2, <1>3

(* The chain being built goes through the steps of XdmaDesc, or starts     *)
(* anew for the next channel.                                              *)
LEMMA StepDesc ==
  ASSUME DescInv, [EngineNext]_allVars
  PROVE  DescInv' /\ SG_num' = SG_num
<1>1. CASE UNCHANGED vars
  <2>1. Inv'
    BY <1>1, StepInv DEF DescInv
  <2> QED
    BY <1>1, <2>1 DEF DescInv, vars
<1>2. CASE create_transfer
  <2>1. Inv' /\ Next
    BY <1>2, StepInv DEF DescInv, create_transfer
  <2>2. desc' = desc \/ \E j, d : desc' = Written(j, d)
    BY <2>1 DEF Next, desc_alloc, link, finish, cofg_desc
  <2>3. desc' = [j \in DOMAIN desc' |-> desc'[j]]
    BY <2>2 DEF DescInv, Written
  <2>4. SG_num' = SG_num
    BY <2>1 DEF Next, desc_alloc, link, finish, cofg_desc
  <2> QED
    BY <2>1, <2>3, <2>4 DEF DescInv
<1>3. CASE next_channel /\ ~UNCHANGED vars
  <2>1. /\ SG_num' = SG_num
        /\ pc' = "alloc" /\ i' = 0 /\ adj' = uint8(SG_num - 1) /\ extra_adj' = 0
        /\ desc' = NoMem /\ regs' = [first |-> NoNext, ADJA |-> 0, ADD |-> 0]
    BY <1>3 DEF next_channel, vars
  <2>2. DOMAIN NoMem = {}
    BY DEF NoMem
  <2>3. Counters'
    BY <2>1, DescAssumption DEF DescInv, Inv, Counters, uint8
  <2>4. Chain' /\ Regs'
    BY <2>1, <2>2, DescAssumption DEF Chain, Regs, NoNext, At
  <2>5. NoMem = [j \in DOMAIN NoMem |-> NoMem[j]]
    BY DEF NoMem
  <2> QED
    BY <2>1, <2>3, <2>5, <2>4 DEF DescInv, Inv
<1> QED
  BY <1>1, <1>2, <1>3 DEF EngineNext, probe, setup, poll_read, poll_write, init_stop, client,
     client_start_desc, client_start, client_stop, client_poll, client_close, engine, remove,
     free_resource, device_umap, allVars
-----------------------------------------------------------------------------
LEMMA InitEngine == EngineInit => EngineInv
<1> SUFFICES ASSUME EngineInit PROVE EngineInv
  OBVIOUS
<1>1. DescInv
  <2>1. desc = NoMem
    BY DEF EngineInit, Init, NoMem
  <2>2. NoMem = [j \in DOMAIN NoMem |-> NoMem[j]]
    BY DEF NoMem
  <2> QED
    BY <2>1, <2>2, InitInv DEF EngineInit, DescInv
<1>2. NoCfg \in CfgType /\ Reset \in HwType
  BY DEF NoCfg, CfgType, Reset, HwType, NoNext
<1>3. Typed
  <2>1. cfg \in [Channels -> CfgType] /\ hw \in [Channels -> HwType]
    BY <1>2 DEF EngineInit
  <2>2. cl \in [Clients -> {"idle", "starting", "running", "stopped"}]
    BY DEF EngineInit
  <2>3. starts \in 0 .. MAX_STARTS /\ n \in 1 .. 3 /\ step \in Steps
    BY EngineAssumption DEF EngineInit, Steps
  <2> QED
    BY <2>1, <2>2, <2>3 DEF EngineInit, Typed
<1>4. Ordered
  <2>1. n = 1 /\ step = "setup" /\ AllIdle /\ ~astray
    BY DEF EngineInit, AllIdle
  <2>2. \A c \in Channels : ~hw[c].run /\ hw[c].st = "idle"
    BY DEF EngineInit, Reset
  <2>3. \A c \in Clients : InStep(c)
    BY <2>1, <2>2, OrderFacts DEF InStep, AllIdle, Working
  <2>4. Setup
    BY <2>1 DEF Setup
  <2> QED
    BY <2>1, <2>2, <2>3, <2>4 DEF Ordered
<1> QED
  BY <1>1, <1>3, <1>4 DEF EngineInv

(* What the lemmas about single steps start from.                          *)
Before == DescInv /\ DescInv' /\ SG_num' = SG_num /\ Typed /\ Ordered

LEMMA CurClient == ASSUME Typed PROVE cur \in Clients /\ cur \in Channels
  BY OrderFacts DEF Typed, cur

(* Steps that neither touch an engine nor a configuration.                 *)
LEMMA StillInStep ==
  ASSUME SG_num' = SG_num, NEW c \in Clients, InStep(c), hw'[c] = hw[c], cl'[c] = cl[c]
  PROVE  InStep(c)'
  BY DEF InStep, Working

LEMMA Engine_setup == ASSUME Before, setup PROVE Typed' /\ Ordered'
<1>1. /\ CfgType' = CfgType /\ FullChain' = FullChain /\ cur \in Clients /\ cur \in Channels
      /\ Typed /\ SG_num' = SG_num
  BY ChainFixed, CurClient DEF Before
<1>2. PICK got \in BOOLEAN :
        /\ got \/ orderly
        /\ cfg' = [cfg EXCEPT ![cur].SG = SG_num, ![cur].data = got]
        /\ orderly' = (orderly /\ got)
  BY DEF setup
<1>3. /\ step = "setup" /\ step' = "poll_read"
      /\ UNCHANGED <<n, tmp, hw, cl, starts, handle, astray>>
  BY DEF setup, clientVars
<1>4. /\ cfg' = [cfg EXCEPT ![cur] = [cfg[cur] EXCEPT !.SG = SG_num, !.data = got]]
      /\ cfg[cur] \in CfgType
  BY <1>1, <1>2 DEF Typed
<1>5. [cfg[cur] EXCEPT !.SG = SG_num, !.data = got] \in CfgType
  BY <1>4 DEF CfgType
<1>6. orderly' \in BOOLEAN
  BY <1>2
<1>7. cfg' \in [Channels -> CfgType]
  BY <1>1, <1>4, <1>5 DEF Typed
<1>8. Typed'
  BY <1>1, <1>3, <1>6, <1>7 DEF Typed, Steps
<1>9. ASSUME orderly' PROVE Ordered'
  <2>1. orderly /\ got
    BY <1>2, <1>9
  <2>2. /\ ~astray /\ Setup /\ AllIdle /\ (\A c \in Clients : InStep(c))
        /\ \A c \in Channels \ Clients : ~hw[c].run /\ hw[c].st = "idle"
    BY <1>3, <2>1 DEF Before, Ordered
  <2>3. cfg'[cur].data = TRUE
    <3>1. cfg'[cur].data = got
      BY <1>1, <1>4 DEF Typed, CfgType
    <3> QED
      BY <2>1, <3>1
  <2>4. \A c \in Channels \ {cur} : cfg'[c] = cfg[c]
    BY <1>1, <1>4 DEF Typed
  <2>5. Setup'
    <3>1. \A k \in 1 .. 3 : k < n => InitOrder[k] \in Channels \ {cur}
      BY <1>1, OrderFacts DEF Typed, cur
    <3>2. \A k \in 1 .. 3 : k < n => Programmed(InitOrder[k])
      BY <1>3, <2>2 DEF Setup
    <3>3. \A k \in 1 .. 3 : k < n => Programmed(InitOrder[k])'
      BY <1>1, <1>3, <2>4, <3>1, <3>2 DEF Programmed
    <3>4. cur' = cur
      BY <1>3 DEF cur
    <3> QED
      BY <1>3, <2>3, <3>3, <3>4 DEF Setup
  <2>6. AllIdle' /\ \A c \in Clients : InStep(c)'
    BY <1>1, <1>3, <2>2, StillInStep DEF AllIdle
  <2> QED
    BY <1>3, <2>2, <2>5, <2>6 DEF Ordered
<1> QED
  BY <1>8, <1>9 DEF Ordered

(* What an orderly state offers, in one line for the steps that follow.    *)
LEMMA OrderedFacts ==
  ASSUME Before, orderly
  PROVE  /\ ~astray /\ Setup /\ (step # "live" \/ ~handle => AllIdle)
         /\ \A c \in Clients : InStep(c)
         /\ \A c \in Channels \ Clients : ~hw[c].run /\ hw[c].st = "idle"
  BY DEF Before, Ordered

LEMMA Engine_still ==
  ASSUME Before, UNCHANGED engineVars
  PROVE  Typed' /\ Ordered'
<1>1. CfgType' = CfgType /\ FullChain' = FullChain /\ SG_num' = SG_num
  BY ChainFixed DEF Before
<1>2. UNCHANGED <<step, n, tmp, cfg, hw, cl, starts, handle, orderly, astray>>
  BY DEF engineVars
<1>3. Typed'
  BY <1>1, <1>2 DEF Before, Typed
<1>4. Setup' = Setup /\ AllIdle' = AllIdle
  BY <1>1, <1>2 DEF Setup, Programmed, AllIdle, cur
<1>5. \A c \in Clients : InStep(c) => InStep(c)'
  BY <1>1, <1>2, StillInStep
<1> QED
  BY <1>2, <1>3, <1>4, <1>5 DEF Before, Ordered

LEMMA Engine_poll_read == ASSUME Before, poll_read PROVE Typed' /\ Ordered'
<1>1. /\ CfgType' = CfgType /\ FullChain' = FullChain /\ SG_num' = SG_num
      /\ Typed /\ cur \in Clients /\ cur \in Channels
  BY ChainFixed, CurClient DEF Before
<1>2. /\ step = "poll_read" /\ step' = "poll_write" /\ tmp' = hw[cur].run
      /\ UNCHANGED <<n, cfg, hw, cl, starts, handle, orderly, astray>>
  BY DEF poll_read, clientVars
<1>3. tmp' \in BOOLEAN
  BY <1>1, <1>2 DEF Typed, HwType
<1>4. Typed'
  BY <1>1, <1>2, <1>3 DEF Typed, Steps
<1>5. ASSUME orderly' PROVE Ordered'
  <2>1. orderly
    BY <1>2, <1>5
  <2>2. /\ ~astray /\ Setup /\ AllIdle /\ (\A c \in Clients : InStep(c))
        /\ \A c \in Channels \ Clients : ~hw[c].run /\ hw[c].st = "idle"
    BY <1>2, <2>1, OrderedFacts
  <2>3. ~tmp'
    BY <1>1, <1>2, <2>2 DEF InStep, AllIdle
  <2>4. Setup' /\ AllIdle'
    BY <1>1, <1>2, <2>2, <2>3 DEF Setup, Programmed, AllIdle, cur
  <2>5. \A c \in Clients : InStep(c)'
    BY <1>1, <1>2, <2>2, StillInStep
  <2> QED
    BY <1>2, <2>2, <2>4, <2>5 DEF Ordered
<1> QED
  BY <1>4, <1>5 DEF Ordered

(* Writing a cleared run bit to an engine that does not run.               *)
LEMMA ControlIdle ==
  ASSUME Typed, NEW c \in Channels, NEW r \in BOOLEAN, ~r, ~hw[c].run,
         hw' = [hw EXCEPT ![c] = WriteControl(@, r)]
  PROVE  hw' = hw
<1>1. hw[c] \in HwType
  BY DEF Typed
<1>2. WriteControl(hw[c], r) = hw[c]
  BY <1>1, ControlFacts
<1> QED
  BY <1>2 DEF Typed

LEMMA Engine_poll_stop == ASSUME Before, poll_write \/ init_stop PROVE Typed' /\ Ordered'
<1>1. /\ CfgType' = CfgType /\ FullChain' = FullChain /\ SG_num' = SG_num
      /\ Typed /\ cur \in Clients /\ cur \in Channels
  BY ChainFixed, CurClient DEF Before
<1>2. PICK r \in BOOLEAN :
        /\ hw' = [hw EXCEPT ![cur] = WriteControl(@, r)]
        /\ step = "poll_write" => r = tmp
        /\ step = "init_stop" => r = FALSE
  BY <1>1 DEF poll_write, init_stop, Typed
<1>3. /\ \/ step = "poll_write" /\ step' = "init_stop"
         \/ step = "init_stop" /\ step' = "create"
      /\ UNCHANGED <<n, tmp, cfg, cl, starts, handle, orderly, astray>>
  BY DEF poll_write, init_stop, clientVars
<1>4. hw' \in [Channels -> HwType]
  <2>1. hw[cur] \in HwType
    BY <1>1 DEF Typed
  <2>2. WriteControl(hw[cur], r) \in HwType
    BY <2>1, ControlFacts
  <2> QED
    BY <1>1, <1>2, <2>2 DEF Typed
<1>5. Typed'
  BY <1>1, <1>3, <1>4 DEF Typed, Steps
<1>6. ASSUME orderly' PROVE Ordered'
  <2>1. orderly
    BY <1>3, <1>6
  <2>2. /\ ~astray /\ Setup /\ AllIdle /\ (\A c \in Clients : InStep(c))
        /\ \A c \in Channels \ Clients : ~hw[c].run /\ hw[c].st = "idle"
    BY <1>3, <2>1, OrderedFacts
  <2>3. ~r
    BY <1>2, <1>3, <2>2 DEF Setup
  <2>4. hw' = hw
    BY <1>1, <1>2, <2>2, <2>3, ControlIdle DEF InStep, AllIdle
  <2>5. Setup' /\ AllIdle'
    BY <1>1, <1>3, <2>2, <2>4 DEF Setup, Programmed, AllIdle, cur
  <2>6. \A c \in Clients : InStep(c)'
    BY <1>1, <1>3, <2>2, <2>4, StillInStep
  <2> QED
    BY <1>3, <2>2, <2>4, <2>5, <2>6 DEF Ordered
<1> QED
  BY <1>5, <1>6 DEF Ordered

LEMMA Engine_create_transfer == ASSUME Before, create_transfer PROVE Typed' /\ Ordered'
<1>1. /\ CfgType' = CfgType /\ FullChain' = FullChain /\ SG_num' = SG_num
      /\ Typed /\ cur \in Clients /\ cur \in Channels
  BY ChainFixed, CurClient DEF Before
<1>2. CASE pc' # "done"
  BY <1>2, Engine_still DEF create_transfer, engineVars, clientVars
<1>3. CASE pc' = "done"
  <2>1. /\ step = "create" /\ step' = "next"
        /\ cfg' = [cfg EXCEPT ![cur].chain = desc]
        /\ hw' = [hw EXCEPT ![cur].first = regs'.first, ![cur].mode = @ \/ SG_num > 1,
                            ![cur].credits = @ + regs'.ADD]
        /\ orderly' = (orderly /\ regs'.first # NoNext)
        /\ UNCHANGED <<n, tmp, cl, starts, handle, astray>>
    BY <1>3 DEF create_transfer, clientVars
  <2>2. cofg_desc
    <3>1. Next /\ step = "create"
      BY DEF create_transfer
    <3> QED
      BY <1>3, <3>1 DEF Next, desc_alloc, link, finish
  <2>3. /\ regs'.first \in {NoNext, At(0)} /\ regs'.ADD \in Nat
        /\ regs'.first # NoNext => pc = "cofg"
    <3>1. Regs' /\ MAX_DESC_NUM \in Nat
      BY DescAssumption DEF Before, DescInv, Inv
    <3> QED
      BY <2>2, <3>1 DEF Regs, cofg_desc
  <2>4. /\ desc \in {NoMem, FullChain} /\ (pc = "cofg" => desc = FullChain)
    <3>1. DescInv /\ Chain /\ pc \in {"cofg", "cofg_null"}
      BY <2>2 DEF Before, DescInv, Inv, cofg_desc
    <3> QED
      BY <3>1, CompleteChain DEF Chain
  <2>5. cfg[cur] \in CfgType /\ hw[cur] \in HwType
    BY <1>1 DEF Typed
  <2>6. /\ cfg' = [cfg EXCEPT ![cur] = [cfg[cur] EXCEPT !.chain = desc]]
        /\ [cfg[cur] EXCEPT !.chain = desc] \in CfgType
        /\ [cfg[cur] EXCEPT !.chain = desc].chain = desc
        /\ [cfg[cur] EXCEPT !.chain = desc].data = cfg[cur].data
    BY <1>1, <2>1, <2>4, <2>5 DEF Typed, CfgType
  <2> DEFINE e == [hw[cur] EXCEPT !.first = regs'.first, !.mode = @ \/ SG_num > 1,
                                  !.credits = @ + regs'.ADD]
  <2>7. hw' = [hw EXCEPT ![cur] = e]
    BY <1>1, <2>1 DEF Typed
  <2>8. e \in HwType /\ e.first = regs'.first /\ e.run = hw[cur].run /\ e.st = hw[cur].st
        /\ e.at = hw[cur].at
    <3>1. hw[cur].credits + regs'.ADD \in Nat
      BY <2>3, <2>5 DEF HwType
    <3>2. (hw[cur].mode \/ SG_num > 1) \in BOOLEAN
      OBVIOUS
    <3>3. [hw[cur] EXCEPT !.first = regs'.first] \in HwType
      BY <2>3, <2>5, HwUpdate
    <3>4. [[hw[cur] EXCEPT !.first = regs'.first] EXCEPT !.mode = (hw[cur].mode \/ SG_num > 1)] \in HwType
      BY <3>2, <3>3, HwUpdate
    <3>5. e \in HwType
      BY <3>1, <3>4, HwUpdate
    <3>6. e.first = regs'.first /\ e.run = hw[cur].run /\ e.st = hw[cur].st /\ e.at = hw[cur].at
      BY <2>5 DEF HwType
    <3> QED
      BY <3>5, <3>6
  <2> HIDE DEF e
  <2>9. cfg' \in [Channels -> CfgType] /\ hw' \in [Channels -> HwType]
    BY <1>1, <2>6, <2>7, <2>8 DEF Typed
  <2>10. orderly' \in BOOLEAN
    BY <2>1
  <2>11. Typed'
    BY <1>1, <2>1, <2>9, <2>10 DEF Typed, Steps
  <2>12. ASSUME orderly' PROVE Ordered'
    <3>1. orderly /\ regs'.first = At(0) /\ desc = FullChain
      <4>1. orderly /\ regs'.first # NoNext
        BY <2>1, <2>12
      <4> QED
        BY <2>3, <2>4, <4>1
    <3>2. /\ ~astray /\ Setup /\ AllIdle /\ (\A c \in Clients : InStep(c))
          /\ \A c \in Channels \ Clients : ~hw[c].run /\ hw[c].st = "idle"
      BY <2>1, <3>1, OrderedFacts
    <3>3. \A c \in Channels \ {cur} : cfg'[c] = cfg[c] /\ hw'[c] = hw[c]
      BY <1>1, <2>6, <2>7 DEF Typed
    <3>4. Programmed(cur)'
      <4>1. cur' = cur
        BY <2>1 DEF cur
      <4>2. cfg[cur].data
        BY <2>1, <3>2 DEF Setup
      <4>3. cfg'[cur].data /\ cfg'[cur].chain = FullChain
        BY <1>1, <2>6, <3>1, <4>2 DEF Typed
      <4>4. hw'[cur].first = At(0)
        BY <1>1, <2>7, <2>8, <3>1 DEF Typed
      <4> QED
        BY <1>1, <4>1, <4>3, <4>4 DEF Programmed
    <3>5. ASSUME NEW k \in 1 .. 3, k <= n PROVE Programmed(InitOrder[k])'
      <4>1. CASE k = n
        BY <2>1, <3>4, <4>1 DEF cur
      <4>2. CASE k # n
        <5>1. k < n /\ InitOrder[k] \in Channels \ {cur}
          BY <1>1, <3>5, <4>2, OrderFacts DEF Typed, cur
        <5>2. Programmed(InitOrder[k])
          BY <2>1, <3>2, <5>1 DEF Setup
        <5> QED
          BY <1>1, <3>3, <5>1, <5>2 DEF Programmed
      <4> QED
        BY <4>1, <4>2
    <3>6. Setup'
      BY <2>1, <3>5 DEF Setup
    <3>7. ASSUME NEW c \in Clients PROVE InStep(c)'
      <4>1. hw'[c].run = hw[c].run /\ hw'[c].st = hw[c].st /\ hw'[c].at = hw[c].at
        BY <1>1, <2>7, <2>8, <3>3, OrderFacts DEF Typed
      <4> QED
        BY <1>1, <2>1, <3>2, <4>1 DEF InStep, Working
    <3>8. \A c \in Channels \ Clients : ~hw'[c].run /\ hw'[c].st = "idle"
      BY <1>1, <3>2, <3>3
    <3>9. AllIdle'
      BY <2>1, <3>2 DEF AllIdle
    <3> QED
      BY <2>1, <3>2, <3>6, <3>7, <3>8, <3>9 DEF Ordered
  <2> QED
    BY <2>11, <2>12 DEF Ordered
<1> QED
  BY <1>2, <1>3

LEMMA Engine_next_channel == ASSUME Before, next_channel PROVE Typed' /\ Ordered'
<1>1. /\ CfgType' = CfgType /\ FullChain' = FullChain /\ SG_num' = SG_num /\ Typed
  BY ChainFixed DEF Before
<1>2. /\ step = "next"
      /\ \/ n < 3 /\ step' = "setup" /\ n' = n + 1
         \/ n = 3 /\ step' = "live" /\ n' = n
      /\ UNCHANGED <<tmp, cfg, hw, cl, starts, handle, orderly, astray>>
  BY <1>1, OrderFacts DEF next_channel, clientVars, Typed
<1>3. Typed'
  BY <1>1, <1>2 DEF Typed, Steps
<1>4. ASSUME orderly' PROVE Ordered'
  <2>1. orderly
    BY <1>2, <1>4
  <2>2. /\ ~astray /\ Setup /\ AllIdle /\ (\A c \in Clients : InStep(c))
        /\ \A c \in Channels \ Clients : ~hw[c].run /\ hw[c].st = "idle"
    BY <1>2, <2>1, OrderedFacts
  <2>3. \A k \in 1 .. 3 : k <= n => Programmed(InitOrder[k])'
    BY <1>1, <1>2, <2>2 DEF Setup, Programmed
  <2>4. Setup'
    BY <1>1, <1>2, <2>3 DEF Setup, Typed
  <2>5. AllIdle' /\ \A c \in Clients : InStep(c)'
    BY <1>1, <1>2, <2>2, StillInStep DEF AllIdle
  <2> QED
    BY <1>2, <2>2, <2>4, <2>5 DEF Ordered
<1> QED
  BY <1>3, <1>4 DEF Ordered
-----------------------------------------------------------------------------
(* While clients are about, the configuration stays.                       *)
LEMMA SetupKept ==
  ASSUME Setup, SG_num' = SG_num, UNCHANGED <<step, n, tmp, cfg>>,
         \A c \in Clients : hw'[c].first = hw[c].first
  PROVE  Setup'
<1>1. FullChain' = FullChain
  BY ChainFixed
<1>2. \A k \in 1 .. 3 : Programmed(InitOrder[k]) => Programmed(InitOrder[k])'
  BY <1>1, OrderFacts DEF Programmed
<1> QED
  BY <1>2 DEF Setup, cur

LEMMA Engine_client_start_desc ==
  ASSUME Before, NEW c \in Clients, client_start_desc(c) PROVE Typed' /\ Ordered'
<1>1. /\ CfgType' = CfgType /\ SG_num' = SG_num /\ Typed
  BY ChainFixed DEF Before
<1>2. /\ handle /\ cl[c] = "idle" /\ starts < MAX_STARTS
      /\ start_desc(c)
      /\ cl' = [cl EXCEPT ![c] = "starting"] /\ starts' = starts + 1
      /\ orderly' = (orderly /\ step = "live")
      /\ UNCHANGED <<step, n, tmp, cfg, handle, astray>>
  BY DEF client_start_desc
<1> DEFINE k == cfg[StartCfg(c)].SG
           d == <<StartCfg(c)[1], c[2]>>
<1>3. StartCfg(c) \in Channels /\ d \in Channels
  BY OrderFacts DEF StartCfg, H2C_DIR, C2H_DIR, CH1, CH2
<1>4. k \in Nat
  BY <1>1, <1>3, DescAssumption DEF Typed, CfgType, Before, DescInv, Inv, Counters
<1>5. hw[d] \in HwType /\ hw[d].credits + k \in Nat
  BY <1>1, <1>3, <1>4 DEF Typed, HwType
<1>6. \/ hw' = hw
      \/ hw' = [hw EXCEPT ![d] = [hw[d] EXCEPT !.credits = hw[d].credits + k]]
  BY <1>1, <1>2, <1>3 DEF start_desc, Typed
<1> HIDE DEF k, d
<1>7. hw' \in [Channels -> HwType]
  <2>1. [hw[d] EXCEPT !.credits = hw[d].credits + k] \in HwType
    BY <1>5, HwUpdate
  <2> QED
    BY <1>1, <1>3, <1>6, <2>1 DEF Typed
<1>8. \A x \in Channels : /\ hw'[x].run = hw[x].run /\ hw'[x].st = hw[x].st
                          /\ hw'[x].at = hw[x].at /\ hw'[x].first = hw[x].first
  <2>1. CASE hw' = hw
    BY <2>1
  <2>2. CASE hw' = [hw EXCEPT ![d] = [hw[d] EXCEPT !.credits = hw[d].credits + k]]
    BY <1>1, <1>3, <1>5, <2>2 DEF Typed, HwType
  <2> QED
    BY <1>6, <2>1, <2>2
<1>9. cl' \in [Clients -> {"idle", "starting", "running", "stopped"}]
  BY <1>1, <1>2 DEF Typed
<1>10. orderly' \in BOOLEAN /\ starts' \in 0 .. MAX_STARTS
  BY <1>1, <1>2, EngineAssumption DEF Typed
<1>11. Typed'
  BY <1>1, <1>2, <1>7, <1>9, <1>10 DEF Typed
<1>12. ASSUME orderly' PROVE Ordered'
  <2>1. orderly /\ step = "live"
    BY <1>2, <1>12
  <2>2. /\ ~astray /\ Setup /\ (\A x \in Clients : InStep(x))
        /\ \A x \in Channels \ Clients : ~hw[x].run /\ hw[x].st = "idle"
    BY <2>1, OrderedFacts
  <2>3. Setup'
    BY <1>1, <1>2, <1>8, <2>2, SetupKept, OrderFacts
  <2>4. ASSUME NEW x \in Clients PROVE InStep(x)'
    <3>1. cl'[x] = cl[x] \/ (cl[x] = "idle" /\ cl'[x] = "starting")
      BY <1>1, <1>2 DEF Typed
    <3>2. hw'[x].run = hw[x].run /\ hw'[x].st = hw[x].st /\ hw'[x].at = hw[x].at
      BY <1>8, OrderFacts
    <3> QED
      BY <1>1, <2>2, <3>1, <3>2 DEF InStep, Working
  <2>5. \A x \in Channels \ Clients : ~hw'[x].run /\ hw'[x].st = "idle"
    BY <1>8, <2>2
  <2> QED
    BY <1>2, <2>1, <2>2, <2>3, <2>4, <2>5 DEF Ordered
<1> QED
  BY <1>11, <1>12 DEF Ordered

(* The run bit of c is written by its client and by nobody else.           *)
LEMMA ClientControl ==
  ASSUME Before, NEW c \in Clients, NEW run \in BOOLEAN,
         hw' = [hw EXCEPT ![c] = WriteControl(@, run)]
  PROVE  /\ hw' \in [Channels -> HwType] /\ hw'[c] = WriteControl(hw[c], run)
         /\ hw[c] \in HwType
         /\ \A x \in Channels : hw'[x].first = hw[x].first
         /\ \A x \in Channels \ {c} : hw'[x] = hw[x]
<1>1. Typed /\ c \in Channels
  BY OrderFacts DEF Before
<1>2. hw[c] \in HwType
  BY <1>1 DEF Typed
<1>3. WriteControl(hw[c], run) \in HwType /\ WriteControl(hw[c], run).first = hw[c].first
  BY <1>2, ControlFacts
<1>4. hw' \in [Channels -> HwType] /\ hw'[c] = WriteControl(hw[c], run)
      /\ \A x \in Channels \ {c} : hw'[x] = hw[x]
  BY <1>1, <1>3 DEF Typed
<1> QED
  BY <1>2, <1>3, <1>4

LEMMA Engine_client_start ==
  ASSUME Before, NEW c \in Clients, client_start(c) PROVE Typed' /\ Ordered'
<1>1. /\ CfgType' = CfgType /\ SG_num' = SG_num /\ Typed
  BY ChainFixed DEF Before
<1>2. /\ cl[c] = "starting" /\ hw' = [hw EXCEPT ![c] = WriteControl(@, TRUE)]
      /\ cl' = [cl EXCEPT ![c] = "running"]
      /\ UNCHANGED <<step, n, tmp, cfg, starts, handle, orderly, astray>>
  BY DEF client_start
<1>3. /\ hw' \in [Channels -> HwType] /\ hw'[c] = WriteControl(hw[c], TRUE) /\ hw[c] \in HwType
      /\ \A x \in Channels : hw'[x].first = hw[x].first
      /\ \A x \in Channels \ {c} : hw'[x] = hw[x]
  BY <1>2, ClientControl
<1>4. cl' \in [Clients -> {"idle", "starting", "running", "stopped"}]
  BY <1>1, <1>2 DEF Typed
<1>5. Typed'
  BY <1>1, <1>2, <1>3, <1>4 DEF Typed
<1>6. ASSUME orderly' PROVE Ordered'
  <2>1. orderly /\ ~AllIdle
    BY <1>2, <1>6 DEF AllIdle
  <2>2. /\ ~astray /\ Setup /\ step = "live" /\ handle /\ (\A x \in Clients : InStep(x))
        /\ \A x \in Channels \ Clients : ~hw[x].run /\ hw[x].st = "idle"
    BY <2>1, OrderedFacts
  <2>3. Setup'
    BY <1>1, <1>2, <1>3, <2>2, SetupKept, OrderFacts
  <2>4. hw[c].first = At(0)
    <3>1. \E k \in 1 .. 3 : c = InitOrder[k]
      BY DEF Clients, InitOrder
    <3> QED
      BY <2>2, <3>1 DEF Setup, Programmed
  <2>5. ~hw[c].run
    BY <1>2, <2>2 DEF InStep
  <2>6. hw'[c].run /\ hw'[c].st = "busy" /\ hw'[c].at = At(0)
    <3>1. /\ WriteControl(hw[c], TRUE).run /\ WriteControl(hw[c], TRUE).st = "busy"
          /\ WriteControl(hw[c], TRUE).at = hw[c].first
      BY <1>3, <2>5, RunFacts
    <3> QED
      BY <1>3, <2>4, <3>1
  <2>7. InStep(c)'
    <3>1. hw'[c].at[1] = "desc" /\ hw'[c].at[2] = 0
      BY <2>6 DEF At
    <3>2. 0 \in 0 .. SG_num - 1
      BY DescAssumption DEF Before, DescInv, Inv, Counters
    <3>3. cl'[c] = "running"
      BY <1>1, <1>2 DEF Typed
    <3> QED
      BY <1>1, <2>6, <3>1, <3>2, <3>3 DEF InStep
  <2>8. \A x \in Clients \ {c} : InStep(x)'
    <3>1. \A x \in Clients \ {c} : hw'[x] = hw[x] /\ cl'[x] = cl[x]
      BY <1>1, <1>2, <1>3, OrderFacts DEF Typed
    <3> QED
      BY <1>1, <2>2, <3>1, StillInStep
  <2>9. \A x \in Channels \ Clients : ~hw'[x].run /\ hw'[x].st = "idle"
    BY <1>3, <2>2
  <2> QED
    BY <1>2, <2>2, <2>3, <2>7, <2>8, <2>9 DEF Ordered
<1> QED
  BY <1>5, <1>6 DEF Ordered

LEMMA Engine_client_stop ==
  ASSUME Before, NEW c \in Clients, client_stop(c) PROVE Typed' /\ Ordered'
<1>1. /\ CfgType' = CfgType /\ SG_num' = SG_num /\ Typed
  BY ChainFixed DEF Before
<1>2. /\ cl[c] = "running"
      /\ hw' = IF handle THEN [hw EXCEPT ![c] = WriteControl(@, FALSE)] ELSE hw
      /\ cl' = [cl EXCEPT ![c] = "stopped"]
      /\ UNCHANGED <<step, n, tmp, cfg, starts, handle, orderly, astray>>
  BY DEF client_stop
<1>3. ASSUME handle
      PROVE  /\ hw' \in [Channels -> HwType] /\ hw'[c] = WriteControl(hw[c], FALSE) /\ hw[c] \in HwType
             /\ \A x \in Channels : hw'[x].first = hw[x].first
             /\ \A x \in Channels \ {c} : hw'[x] = hw[x]
  BY <1>2, <1>3, ClientControl
<1>4. cl' \in [Clients -> {"idle", "starting", "running", "stopped"}]
  BY <1>1, <1>2 DEF Typed
<1>5. Typed'
  <2>1. hw' \in [Channels -> HwType]
    BY <1>1, <1>2, <1>3 DEF Typed
  <2> QED
    BY <1>1, <1>2, <1>4, <2>1 DEF Typed
<1>6. ASSUME orderly' PROVE Ordered'
  <2>1. orderly /\ ~AllIdle
    BY <1>2, <1>6 DEF AllIdle
  <2>2. /\ ~astray /\ Setup /\ step = "live" /\ handle /\ (\A x \in Clients : InStep(x))
        /\ \A x \in Channels \ Clients : ~hw[x].run /\ hw[x].st = "idle"
    BY <2>1, OrderedFacts
  <2>3. Setup'
    BY <1>1, <1>2, <1>3, <2>2, SetupKept, OrderFacts
  <2>4. hw[c].run /\ hw[c].st \in {"busy", "done"}
    BY <1>2, <2>2 DEF InStep
  <2>5. /\ ~hw'[c].run /\ hw'[c].at = hw[c].at
        /\ hw'[c].st = IF hw[c].st = "busy" THEN "ending" ELSE "idle"
    <3>1. /\ ~WriteControl(hw[c], FALSE).run /\ WriteControl(hw[c], FALSE).at = hw[c].at
          /\ WriteControl(hw[c], FALSE).st = IF hw[c].st = "busy" THEN "ending" ELSE "idle"
      BY <1>3, <2>2, <2>4, RunFacts
    <3> QED
      BY <1>3, <2>2, <3>1
  <2>6. InStep(c)'
    <3>1. hw[c].st = "busy" => hw[c].at[1] = "desc" /\ hw[c].at[2] \in 0 .. SG_num - 1
      BY <2>2 DEF InStep, Working
    <3>2. cl'[c] = "stopped"
      BY <1>1, <1>2 DEF Typed
    <3> QED
      BY <1>1, <2>5, <3>1, <3>2 DEF InStep, Working
  <2>7. \A x \in Clients \ {c} : InStep(x)'
    <3>1. \A x \in Clients \ {c} : hw'[x] = hw[x] /\ cl'[x] = cl[x]
      BY <1>1, <1>2, <1>3, <2>2, OrderFacts DEF Typed
    <3> QED
      BY <1>1, <2>2, <3>1, StillInStep
  <2>8. \A x \in Channels \ Clients : ~hw'[x].run /\ hw'[x].st = "idle"
    BY <1>3, <2>2
  <2> QED
    BY <1>2, <2>2, <2>3, <2>6, <2>7, <2>8 DEF Ordered
<1> QED
  BY <1>5, <1>6 DEF Ordered

(* A client that no longer sees its engine busy may rely on that: while it *)
(* has not been idle, nobody closed the handle.                            *)
LEMMA Engine_client_poll ==
  ASSUME Before, NEW c \in Clients, client_poll(c) PROVE Typed' /\ Ordered'
<1>1. /\ CfgType' = CfgType /\ SG_num' = SG_num /\ Typed
  BY ChainFixed DEF Before
<1>2. /\ cl[c] = "stopped" /\ ~BusySeen(c) /\ cl' = [cl EXCEPT ![c] = "idle"]
      /\ UNCHANGED <<step, n, tmp, cfg, hw, starts, handle, orderly, astray>>
  BY DEF client_poll
<1>3. cl' \in [Clients -> {"idle", "starting", "running", "stopped"}]
  BY <1>1, <1>2 DEF Typed
<1>4. Typed'
  BY <1>1, <1>2, <1>3 DEF Typed
<1>5. ASSUME orderly' PROVE Ordered'
  <2>1. orderly /\ ~AllIdle
    BY <1>2, <1>5 DEF AllIdle
  <2>2. /\ ~astray /\ Setup /\ step = "live" /\ handle /\ (\A x \in Clients : InStep(x))
        /\ \A x \in Channels \ Clients : ~hw[x].run /\ hw[x].st = "idle"
    BY <2>1, OrderedFacts
  <2>3. Setup'
    BY <1>1, <1>2, <2>2, SetupKept
  <2>4. ~hw[c].run /\ hw[c].st = "idle"
    BY <1>2, <2>2 DEF BusySeen, Working, InStep
  <2>5. InStep(c)'
    <3>1. cl'[c] = "idle"
      BY <1>1, <1>2 DEF Typed
    <3> QED
      BY <1>2, <2>4, <3>1 DEF InStep, Working
  <2>6. \A x \in Clients \ {c} : InStep(x)'
    <3>1. \A x \in Clients \ {c} : hw'[x] = hw[x] /\ cl'[x] = cl[x]
      BY <1>1, <1>2 DEF Typed
    <3> QED
      BY <1>1, <2>2, <3>1, StillInStep
  <2> QED
    BY <1>2, <2>2, <2>3, <2>5, <2>6 DEF Ordered
<1> QED
  BY <1>4, <1>5 DEF Ordered

LEMMA Engine_client_close == ASSUME Before, client_close PROVE Typed' /\ Ordered'
<1>1. /\ CfgType' = CfgType /\ SG_num' = SG_num /\ Typed
  BY ChainFixed DEF Before
<1>2. /\ handle' = FALSE /\ orderly' = (orderly /\ AllIdle)
      /\ UNCHANGED <<step, n, tmp, cfg, hw, cl, starts, astray>>
  BY DEF client_close
<1>3. orderly' \in BOOLEAN /\ handle' \in BOOLEAN
  BY <1>2
<1>4. Typed'
  BY <1>1, <1>2, <1>3 DEF Typed
<1>5. ASSUME orderly' PROVE Ordered'
  <2>1. orderly /\ AllIdle
    BY <1>2, <1>5
  <2>2. /\ ~astray /\ Setup /\ (\A x \in Clients : InStep(x))
        /\ \A x \in Channels \ Clients : ~hw[x].run /\ hw[x].st = "idle"
    BY <2>1, OrderedFacts
  <2>3. Setup'
    BY <1>1, <1>2, <2>2, SetupKept
  <2>4. AllIdle' /\ \A x \in Clients : InStep(x)'
    BY <1>1, <1>2, <2>1, <2>2, StillInStep DEF AllIdle
  <2> QED
    BY <1>2, <2>2, <2>3, <2>4 DEF Ordered
<1> QED
  BY <1>4, <1>5 DEF Ordered

(* The hardware: a working engine has a client, so the board is live and   *)
(* the chain it walks is complete.                                         *)
LEMMA Engine_engine ==
  ASSUME Before, NEW c \in Channels, engine(c) PROVE Typed' /\ Ordered'
<1>1. /\ CfgType' = CfgType /\ SG_num' = SG_num /\ Typed /\ DescInv
  BY ChainFixed DEF Before
<1> DEFINE e == hw[c]
           found == e.at[1] = "desc" /\ e.at[2] \in DOMAIN cfg[c].chain
           d == cfg[c].chain[e.at[2]]
           waits == e.mode /\ e.credits = 0
           new == IF waits THEN [e EXCEPT !.st = "idle"]
                  ELSE IF ~found THEN [e EXCEPT !.st = "error"]
                  ELSE [e EXCEPT !.credits = IF e.mode THEN @ - 1 ELSE @,
                                 !.at = d.next,
                                 !.st = IF e.st = "ending" THEN "idle"
                                        ELSE IF d.stop THEN "done" ELSE "busy"]
<1>2. /\ Working(e) /\ (e.st = "busy" => ~waits)
      /\ hw' = [hw EXCEPT ![c] = new]
      /\ astray' = (astray \/ (~waits /\ ~(found /\ cfg[c].data)))
      /\ UNCHANGED <<step, n, tmp, cfg, cl, starts, handle, orderly>>
  BY DEF engine, clientVars
<1>3. e \in HwType /\ cfg[c] \in CfgType
  BY <1>1 DEF Typed
<1>4. found => /\ cfg[c].chain = FullChain /\ e.at[2] \in 0 .. SG_num - 1
               /\ DOMAIN FullChain = 0 .. SG_num - 1
  <2>1. DOMAIN NoMem = {} /\ DOMAIN FullChain = 0 .. SG_num - 1
    BY DEF NoMem, FullChain
  <2> QED
    BY <1>3, <2>1 DEF CfgType
<1>5. found => /\ d.next \in {"none", "desc"} \X Nat
               /\ ~d.stop => d.next[1] = "desc" /\ d.next[2] \in 0 .. SG_num - 1
  BY <1>1, <1>4, ChainWalk
<1> DEFINE credits == IF e.mode THEN e.credits - 1 ELSE e.credits
           st == IF e.st = "ending" THEN "idle" ELSE IF d.stop THEN "done" ELSE "busy"
<1>6. ~waits => credits \in Nat
  BY <1>3 DEF HwType
<1>7. st \in {"idle", "busy", "ending", "done", "error"}
  OBVIOUS
<1>8. ~waits /\ found => new = [e EXCEPT !.credits = credits, !.at = d.next, !.st = st]
  OBVIOUS
<1>9. (waits => new = [e EXCEPT !.st = "idle"]) /\ (~waits /\ ~found => new = [e EXCEPT !.st = "error"])
  OBVIOUS
<1> HIDE DEF e, found, d, waits, new, credits, st
<1>10. new \in HwType
  <2>1. CASE waits
    BY <1>3, <1>9, <2>1, HwUpdate
  <2>2. CASE ~waits /\ ~found
    BY <1>3, <1>9, <2>2, HwUpdate
  <2>3. CASE ~waits /\ found
    <3>1. [e EXCEPT !.credits = credits] \in HwType
      BY <1>3, <1>6, <2>3, HwUpdate
    <3>2. [[e EXCEPT !.credits = credits] EXCEPT !.at = d.next] \in HwType
      BY <1>5, <2>3, <3>1, HwUpdate
    <3>3. [[[e EXCEPT !.credits = credits] EXCEPT !.at = d.next] EXCEPT !.st = st] \in HwType
      BY <1>7, <3>2, HwUpdate
    <3> QED
      BY <1>8, <2>3, <3>3
  <2> QED
    BY <2>1, <2>2, <2>3
<1>11. hw' \in [Channels -> HwType] /\ hw'[c] = new /\ \A x \in Channels \ {c} : hw'[x] = hw[x]
  BY <1>1, <1>2, <1>10 DEF Typed
<1>12. astray' \in BOOLEAN
  BY <1>2
<1>13. Typed'
  BY <1>1, <1>2, <1>11, <1>12 DEF Typed
<1>14. new.run = e.run /\ new.first = e.first
  <2>1. CASE waits
    BY <1>3, <1>9, <2>1 DEF HwType
  <2>2. CASE ~waits /\ ~found
    BY <1>3, <1>9, <2>2 DEF HwType
  <2>3. CASE ~waits /\ found
    BY <1>3, <1>8, <2>3 DEF HwType
  <2> QED
    BY <2>1, <2>2, <2>3
<1>15. ASSUME orderly' PROVE Ordered'
  <2>1. orderly
    BY <1>2, <1>15
  <2>2. /\ ~astray /\ Setup /\ (step # "live" \/ ~handle => AllIdle)
        /\ (\A x \in Clients : InStep(x))
        /\ \A x \in Channels \ Clients : ~hw[x].run /\ hw[x].st = "idle"
    BY <2>1, OrderedFacts
  <2>3. c \in Clients
    BY <1>2, <2>2 DEF Working, e
  <2>4. cl[c] \in {"running", "stopped"} /\ cl[c] # "idle"
    <3>1. cl[c] \in {"idle", "starting", "running", "stopped"}
      BY <1>1, <2>3 DEF Typed
    <3> QED
      BY <1>2, <2>2, <2>3, <3>1 DEF InStep, Working, e
  <2>5. step = "live" /\ handle
    BY <2>2, <2>3, <2>4 DEF AllIdle
  <2>6. cfg[c].data /\ cfg[c].chain = FullChain
    <3>1. \E k \in 1 .. 3 : c = InitOrder[k]
      BY <2>3 DEF Clients, InitOrder
    <3> QED
      BY <2>2, <2>5, <3>1 DEF Setup, Programmed
  <2>7. e.at[1] = "desc" /\ e.at[2] \in 0 .. SG_num - 1
    BY <1>2, <2>2, <2>3 DEF InStep, e
  <2>8. found
    BY <1>1, <2>6, <2>7, ChainWalk DEF found
  <2>9. ~astray'
    BY <1>2, <2>2, <2>6, <2>8
  <2>10. Setup'
    <3>1. \A x \in Clients : hw'[x].first = hw[x].first
      BY <1>11, <1>14, OrderFacts DEF e
    <3> QED
      BY <1>1, <1>2, <2>2, <3>1, SetupKept
  <2>11. InStep(c)'
    <3>1. /\ cl[c] = "running" => hw[c].run /\ hw[c].st \in {"busy", "done"}
          /\ cl[c] = "stopped" => ~hw[c].run /\ hw[c].st \in {"idle", "ending"}
      BY <2>2, <2>3 DEF InStep
    <3>2. CASE waits
      <4>1. new.st = "idle"
        BY <1>3, <1>9, <3>2 DEF HwType
      <4>2. e.st = "ending"
        BY <1>2, <3>2 DEF Working
      <4>3. cl[c] = "stopped" /\ ~hw[c].run
        BY <2>4, <3>1, <4>2 DEF e
      <4> QED
        BY <1>2, <1>11, <1>14, <4>1, <4>3 DEF InStep, Working, e
    <3>3. CASE ~waits
      <4>1. new.st = st /\ new.at = d.next
        BY <1>3, <1>8, <2>8, <3>3 DEF HwType
      <4>2. CASE e.st = "ending"
        <5>1. cl[c] = "stopped" /\ ~hw[c].run /\ st = "idle"
          BY <2>4, <3>1, <4>2 DEF e, st
        <5> QED
          BY <1>2, <1>11, <1>14, <4>1, <5>1 DEF InStep, Working, e
      <4>3. CASE e.st = "busy"
        <5>1. cl[c] = "running" /\ hw[c].run /\ st = IF d.stop THEN "done" ELSE "busy"
          BY <2>4, <3>1, <4>3 DEF e, st
        <5>2. CASE d.stop
          BY <1>2, <1>11, <1>14, <4>1, <5>1, <5>2 DEF InStep, Working, e
        <5>3. CASE ~d.stop
          <6>1. new.at[1] = "desc" /\ new.at[2] \in 0 .. SG_num - 1
            BY <1>5, <2>8, <4>1, <5>3
          <6> QED
            BY <1>1, <1>2, <1>11, <1>14, <4>1, <5>1, <5>3, <6>1 DEF InStep, Working, e
        <5> QED
          BY <5>2, <5>3
      <4> QED
        BY <1>2, <4>2, <4>3 DEF Working
    <3> QED
      BY <3>2, <3>3
  <2>12. \A x \in Clients \ {c} : InStep(x)'
    <3>1. \A x \in Clients \ {c} : hw'[x] = hw[x] /\ cl'[x] = cl[x]
      BY <1>2, <1>11, OrderFacts
    <3> QED
      BY <1>1, <2>2, <3>1, StillInStep
  <2>13. \A x \in Channels \ Clients : ~hw'[x].run /\ hw'[x].st = "idle"
    BY <1>11, <2>2, <2>3
  <2> QED
    BY <1>2, <2>5, <2>9, <2>10, <2>11, <2>12, <2>13 DEF Ordered
<1> QED
  BY <1>13, <1>15 DEF Ordered
-----------------------------------------------------------------------------
(* xdma_remove(): nothing is programmed any more, so nobody may be busy.   *)
LEMMA Engine_remove ==
  ASSUME Before, remove \/ free_resource \/ device_umap PROVE Typed' /\ Ordered'
<1>1. /\ CfgType' = CfgType /\ SG_num' = SG_num /\ Typed
  BY ChainFixed DEF Before
<1>2. /\ step \in {"live", "free_pdata", "free_desc", "umap"}
      /\ step' \in {"free_pdata", "free_desc", "umap", "gone"}
      /\ UNCHANGED <<tmp, hw, cl, starts, handle, astray>>
  BY DEF remove, free_resource, device_umap, clientVars
<1>3. n' \in 1 .. 3
  BY <1>1, OrderFacts DEF remove, free_resource, device_umap, Typed
<1>4. cfg' \in [Channels -> CfgType]
  <2>1. CASE free_resource
    <3>1. DescOrder[n] \in Channels /\ cur \in Channels
      BY <1>1, OrderFacts, CurClient DEF Typed
    <3>2. cfg[cur] \in CfgType /\ cfg[DescOrder[n]] \in CfgType
      BY <1>1, <3>1 DEF Typed
    <3>3. /\ [cfg[cur] EXCEPT !.data = FALSE] \in CfgType
          /\ [cfg[DescOrder[n]] EXCEPT !.chain = NoMem] \in CfgType
      BY <3>2 DEF CfgType
    <3>4. \/ cfg' = [cfg EXCEPT ![cur] = [cfg[cur] EXCEPT !.data = FALSE]]
          \/ cfg' = [cfg EXCEPT ![DescOrder[n]] = [cfg[DescOrder[n]] EXCEPT !.chain = NoMem]]
      BY <2>1 DEF free_resource
    <3> QED
      BY <1>1, <3>1, <3>3, <3>4 DEF Typed
  <2>2. CASE cfg' = cfg
    BY <1>1, <2>2 DEF Typed
  <2> QED
    BY <2>1, <2>2 DEF remove, device_umap
<1>5. orderly' \in BOOLEAN /\ (orderly' => orderly /\ (step = "live" => AllIdle))
  <2>1. CASE remove
    BY <2>1 DEF remove
  <2>2. CASE free_resource \/ device_umap
    BY <1>1, <2>2 DEF free_resource, device_umap, Typed
  <2> QED
    BY <2>1, <2>2
<1>6. Typed'
  BY <1>1, <1>2, <1>3, <1>4, <1>5 DEF Typed, Steps
<1>7. ASSUME orderly' PROVE Ordered'
  <2>1. orderly /\ (step = "live" => AllIdle)
    BY <1>5, <1>7
  <2>2. /\ ~astray /\ (step # "live" => AllIdle) /\ (\A x \in Clients : InStep(x))
        /\ \A x \in Channels \ Clients : ~hw[x].run /\ hw[x].st = "idle"
    BY <2>1, OrderedFacts
  <2>3. Setup'
    BY <1>2 DEF Setup
  <2>4. AllIdle' /\ \A x \in Clients : InStep(x)'
    BY <1>1, <1>2, <2>1, <2>2, StillInStep DEF AllIdle
  <2> QED
    BY <1>2, <2>2, <2>3, <2>4 DEF Ordered
<1> QED
  BY <1>6, <1>7 DEF Ordered

LEMMA StepEngine == EngineInv /\ [EngineNext]_allVars => EngineInv'
<1> SUFFICES ASSUME EngineInv, [EngineNext]_allVars PROVE EngineInv'
  OBVIOUS
<1>1. Before
  BY StepDesc DEF EngineInv, Before
<1>2. Typed' /\ Ordered'
  <2>1. CASE probe
    BY <1>1, <2>1, Engine_setup, Engine_poll_read, Engine_poll_stop, Engine_create_transfer,
       Engine_next_channel DEF probe
  <2>2. CASE \E c \in Clients : client(c)
    BY <1>1, <2>2, Engine_client_start_desc, Engine_client_start, Engine_client_stop,
       Engine_client_poll DEF client
  <2>3. CASE UNCHANGED allVars
    BY <1>1, <2>3, Engine_still DEF allVars
  <2> QED
    BY <1>1, <2>1, <2>2, <2>3, Engine_client_close, Engine_engine, Engine_remove DEF EngineNext
<1> QED
  BY <1>1, <1>2 DEF EngineInv, Before

LEMMA EngineAlways == EngineSpec => []EngineInv
  BY InitEngine, StepEngine, PTL DEF EngineSpec

(* The registers, configurations and clients of a board keep their types;  *)
(* no engine's credits go below zero and every chain is whole or absent.   *)
THEOREM EngineTypeTheorem == EngineSpec => []EngineTypeOK
<1>1. EngineInv => EngineTypeOK
  <2> SUFFICES ASSUME EngineInv PROVE EngineTypeOK
    OBVIOUS
  <2>1. Inv /\ Typed /\ SG_num \in 1 .. MAX_DESC_NUM /\ MAX_DESC_NUM \in 1 .. 255
    BY DescAssumption DEF EngineInv, DescInv, Inv, Counters
  <2>2. TypeOK
    <3>1. ASSUME NEW j \in DOMAIN desc
          PROVE  j \in 0 .. MAX_DESC_NUM - 1 /\ desc[j] \in Descriptor
      <4>1. j \in 0 .. SG_num - 1 /\ desc[j] = IF desc[j].stop THEN Last ELSE Linked(j)
        BY <2>1, <3>1, WrittenDesc
      <4>2. Last \in Descriptor
        <5>1. SG_num - 1 \in Nat
          BY <2>1
        <5>2. data_len(SG_num - 1) \in Nat /\ (SG_num - 1) * EP_STRIDE \in Nat
          BY <5>1, DataTyped
        <5> QED
          BY <5>1, <5>2 DEF Last, Descriptor, NoNext
      <4>3. CASE desc[j] = Last
        BY <2>1, <4>1, <4>2, <4>3
      <4>4. CASE ~desc[j].stop /\ desc[j] = Linked(j)
        <5>1. Left(j) \in Nat
          <6>1. j <= SG_num - 2 /\ SG_num - 2 - j \in Nat /\ MAX_EXTRA_ADJ \in Nat
            BY <2>1, <3>1, <4>1, <4>4, WrittenDesc, DescAssumption
          <6> QED
            BY <6>1 DEF Left
        <5>2. j \in Nat /\ data_len(j) \in Nat /\ j * EP_STRIDE \in Nat
          BY <2>1, <4>1, DataTyped
        <5> QED
          BY <2>1, <4>1, <4>4, <5>1, <5>2 DEF Linked, Descriptor, At
      <4> QED
        BY <4>1, <4>3, <4>4
    <3>2. DOMAIN desc \subseteq 0 .. MAX_DESC_NUM - 1 /\ \A j \in DOMAIN desc : desc[j] \in Descriptor
      BY <3>1
    <3>3. /\ pc \in {"alloc", "loop", "cofg", "cofg_null", "done"}
          /\ i \in 0 .. SG_num - 1 /\ adj \in 0 .. 255 /\ extra_adj \in 0 .. MAX_EXTRA_ADJ
      BY <2>1 DEF Inv, Counters
    <3> QED
      BY <2>1, <3>2, <3>3 DEF Inv, Regs, TypeOK
  <2>3. ASSUME NEW c \in Channels
        PROVE  /\ cfg[c].SG \in {0, SG_num} /\ DOMAIN cfg[c].chain \in {{}, 0 .. SG_num - 1}
               /\ hw[c].st \in {"idle", "busy", "ending", "done", "error"}
               /\ hw[c].first \in {NoNext, At(0)} /\ hw[c].credits \in Nat
    <3>1. cfg[c] \in CfgType /\ hw[c] \in HwType
      BY <2>1 DEF Typed
    <3>2. DOMAIN NoMem = {} /\ DOMAIN FullChain = 0 .. SG_num - 1
      BY DEF NoMem, FullChain
    <3> QED
      BY <3>1, <3>2 DEF CfgType, HwType
  <2>4. /\ step \in Steps /\ n \in 1 .. Len(InitOrder) /\ starts \in 0 .. MAX_STARTS
        /\ cl \in [Clients -> {"idle", "starting", "running", "stopped"}]
    BY <2>1, OrderFacts DEF Typed
  <2> QED
    BY <2>2, <2>3, <2>4 DEF EngineTypeOK, Steps
<1> QED
  BY <1>1, EngineAlways, PTL

(* With clients that wait for the probe and stop and poll before the close *)
(* or the remove, no engine halts or leaves its channel's memory, for      *)
(* chains of every length and however the clients interleave.              *)
THEOREM HomeTheorem == EngineSpec => []DmaStaysHome
<1>1. EngineInv => DmaStaysHome
  <2> SUFFICES ASSUME EngineInv, orderly, NEW c \in Channels
               PROVE  ~astray /\ hw[c].st # "error"
    BY OrderFacts DEF DmaStaysHome
  <2>1. ~astray
    BY DEF EngineInv, Ordered
  <2>2. CASE c \in Clients
    <3>1. InStep(c) /\ cl[c] \in {"idle", "starting", "running", "stopped"}
      BY <2>2 DEF EngineInv, Ordered, Typed
    <3> QED
      BY <2>1, <3>1 DEF InStep
  <2>3. CASE c \notin Clients
    BY <2>1, <2>3 DEF EngineInv, Ordered
  <2> QED
    BY <2>2, <2>3
<1> QED
  BY <1>1, EngineAlways, PTL

(* No command of a client touches the engine of another client, whatever   *)
(* the length of the chains, although START reads another channel's        *)
(* configuration.                                                          *)
THEOREM OwnEngineTheorem == EngineSpec => OwnEngineOnly
<1> DEFINE Own == \A c \in Clients : cl'[c] # cl[c] => \A d \in Clients \ {c} : hw'[d] = hw[d]
<1>1. EngineInv /\ [EngineNext]_allVars => [Own]_allVars
  <2> SUFFICES ASSUME EngineInv, EngineNext, NEW c \in Clients, cl'[c] # cl[c],
                      NEW d \in Clients \ {c}
               PROVE  hw'[d] = hw[d]
    OBVIOUS
  <2>1. Typed /\ c \in Channels /\ d \in Channels
    BY ClientsHaveChannels DEF EngineInv
  <2>2. PICK x \in Clients : client(x)
    <3>1. probe => UNCHANGED clientVars
      <4>1. create_transfer => UNCHANGED clientVars
        BY DEF create_transfer
      <4> QED
        BY <4>1 DEF probe, setup, poll_read, poll_write, init_stop, next_channel
    <3>2. client_close => cl' = cl
      BY DEF client_close
    <3>3. \A e \in Channels : engine(e) => UNCHANGED clientVars
      BY DEF engine
    <3>4. remove \/ free_resource \/ device_umap => UNCHANGED clientVars
      BY DEF remove, free_resource, device_umap
    <3>5. UNCHANGED clientVars => cl' = cl
      BY DEF clientVars
    <3> QED
      BY <3>1, <3>2, <3>3, <3>4, <3>5 DEF EngineNext
  <2>3. x = c
    BY <2>1, <2>2 DEF client, client_start_desc, client_start, client_stop, client_poll, Typed
  <2>4. CASE client_start_desc(c)
    <3> DEFINE got == <<StartCfg(c)[1], c[2]>>
    <3>1. got # d
      <4>1. c \in {<<1, 1>>, <<0, 1>>, <<1, 2>>} /\ <<0, 2>> \notin Clients
        BY OrderFacts
      <4>2. got = IF c = <<1, 2>> THEN <<0, 2>> ELSE c
        BY <4>1 DEF StartCfg, H2C_DIR, C2H_DIR, CH1, CH2
      <4> QED
        BY <4>1, <4>2
    <3>2. hw' = hw \/ \E k \in {cfg[StartCfg(c)].SG} : hw' = [hw EXCEPT ![got].credits = @ + k]
      BY <2>4 DEF client_start_desc, start_desc
    <3> HIDE DEF got
    <3> QED
      BY <2>1, <3>1, <3>2 DEF Typed
  <2>5. CASE client_start(c) \/ client_stop(c) \/ client_poll(c)
    BY <2>1, <2>5 DEF client_start, client_stop, client_poll, Typed
  <2> QED
    BY <2>2, <2>3, <2>4, <2>5 DEF client
<1> QED
  BY <1>1, EngineAlways, PTL DEF EngineSpec, OwnEngineOnly

(* The chains stay right when one is built for channel after channel while *)
(* clients, engines and a later remove run.                                *)
THEOREM EngineChainsTheorem == EngineSpec => [](PrefetchInBounds /\ ChainComplete /\ BurstsMaximal)
<1>1. EngineInv => PrefetchInBounds /\ ChainComplete /\ BurstsMaximal
  BY PrefetchInv, ChainInv, BurstInv DEF EngineInv, DescInv
<1> QED
  BY <1>1, EngineAlways, PTL
=============================================================================
