------------------------------ MODULE XdmaDesc ------------------------------
(***************************************************************************)
(* xdma_create_transfer() of libxdma.c for one channel: the loop of        *)
(* xdma_desc_alloc() that links SG_num descriptors into a chain, and       *)
(* xdma_cofg_desc(), which tells the engine where the chain starts.        *)
(*                                                                         *)
(* The engine fetches descriptors ahead: a descriptor's Nxt_adj field (the *)
(* first one's is in the DESC_ADJA register) says how many descriptors     *)
(* follow the next one contiguously in memory, to be read in one burst.    *)
(* Descriptors are numbered from 0 as in desc_virt[]; the bus address of   *)
(* number j is first_desc_phy plus j sizes, written <<"desc", j>>.         *)
(* vi53xx_info_init() sets SG_desc_num to DESC_NUM, which a build chooses; *)
(* the tables of xdma_cfg_info have room for MAX_DESC_NUM.                 *)
(***************************************************************************)
EXTENDS Integers

CONSTANTS
  MAX_DESC_NUM, MAX_EXTRA_ADJ,
  SIZE        \* cfg->size: bytes of one data buffer of the channel

ASSUME DescAssumption ==
  /\ MAX_DESC_NUM \in 1 .. 255
  /\ MAX_EXTRA_ADJ \in Nat
  /\ SIZE \in Nat \ {0}

VARIABLES
  pc,
  SG_num,     \* cfg->SG_desc_num
  i,          \* loop index
  adj,        \* uint8_t adj
  extra_adj,
  desc,       \* descriptors written so far: j |-> Descriptor
  regs        \* what xdma_cofg_desc() programmed: [first, ADJA, ADD]

vars == <<pc, SG_num, i, adj, extra_adj, desc, regs>>

uint8(n) == n % 256
NoNext == <<"none", 0>>
At(j) == <<"desc", j>>
Descriptor == [Nxt_adj : Nat, stop : BOOLEAN, bytes : Nat, buf : Nat, ep : Nat,
               next : {"none", "desc"} \X Nat]

(* Each descriptor has a buffer, pData[j] at data_phy_addr[j], and a card  *)
(* address, EP_STRIDE after the one before, counted from cfg->ep_addr.     *)
EP_STRIDE == 8192

(* vi53xx_info_init() sets data_len[0] only; kzalloc() left the others 0.  *)
data_len(j) == IF j = 0 THEN SIZE ELSE 0

Init ==
  /\ pc = "alloc"
  /\ SG_num \in 1 .. MAX_DESC_NUM
  /\ i = 0 /\ adj = uint8(SG_num - 1) /\ extra_adj = 0
  /\ desc = [j \in {} |-> 0]
  /\ regs = [first |-> NoNext, ADJA |-> 0, ADD |-> 0]

(* dma_alloc_coherent() may fail; xdma_create_transfer() does not look at  *)
(* the result and programs the first_desc_phy_addr left from before.       *)
desc_alloc ==
  /\ pc = "alloc"
  /\ pc' \in {"loop", "cofg_null"}
  /\ UNCHANGED <<SG_num, i, adj, extra_adj, desc, regs>>

Written(j, d) == [k \in DOMAIN desc \union {j} |-> IF k = j THEN d ELSE desc[k]]

(* Mutants: no limit; the next descriptor counted in; a limit too low.     *)
ExtraAdjUncapped == adj - 1
ExtraAdjOneMore == IF adj > MAX_EXTRA_ADJ THEN MAX_EXTRA_ADJ ELSE adj
ExtraAdjLowCap == IF adj - 1 > MAX_EXTRA_ADJ - 1 THEN MAX_EXTRA_ADJ - 1 ELSE adj - 1

ExtraAdj == IF adj - 1 > MAX_EXTRA_ADJ THEN MAX_EXTRA_ADJ ELSE adj - 1

link ==
  /\ pc = "loop" /\ i < SG_num - 1
  /\ IF adj > 0 THEN extra_adj' = ExtraAdj /\ adj' = uint8(adj - 1)
                ELSE extra_adj' = 0 /\ adj' = adj
  /\ desc' = Written(i, [Nxt_adj |-> extra_adj', stop |-> FALSE, bytes |-> data_len(i),
                         buf |-> i, ep |-> i * EP_STRIDE, next |-> At(i + 1)])
  /\ i' = i + 1
  /\ UNCHANGED <<pc, SG_num, regs>>

(* Mutant: the last descriptor moves the window after its own.             *)
finish_wrong_window ==
  /\ pc = "loop" /\ i >= SG_num - 1
  /\ desc' = Written(i, [Nxt_adj |-> extra_adj, stop |-> TRUE, bytes |-> data_len(i),
                         buf |-> i, ep |-> SG_num * EP_STRIDE, next |-> NoNext])
  /\ pc' = "cofg"
  /\ UNCHANGED <<SG_num, i, adj, extra_adj, regs>>

(* The last descriptor gets extra_adj as the loop left it and the stop bit *)
(* of final_desc_control.  Its next field stays as allocated.              *)
finish ==
  /\ pc = "loop" /\ i >= SG_num - 1
  /\ desc' = Written(i, [Nxt_adj |-> extra_adj, stop |-> TRUE, bytes |-> data_len(i),
                         buf |-> i, ep |-> (SG_num - 1) * EP_STRIDE, next |-> NoNext])
  /\ pc' = "cofg"
  /\ UNCHANGED <<SG_num, i, adj, extra_adj, regs>>

cofg_desc ==
  /\ pc \in {"cofg", "cofg_null"}
  /\ regs' = [first |-> IF pc = "cofg" THEN At(0) ELSE NoNext, ADJA |-> SG_num - 1,
              ADD |-> IF SG_num > 1 THEN SG_num ELSE 0]
  /\ pc' = "done"
  /\ UNCHANGED <<SG_num, i, adj, extra_adj, desc>>

Next == desc_alloc \/ link \/ finish \/ cofg_desc

Spec == Init /\ [][Next]_vars
-----------------------------------------------------------------------------
TypeOK ==
  /\ pc \in {"alloc", "loop", "cofg", "cofg_null", "done"}
  /\ SG_num \in 1 .. MAX_DESC_NUM
  /\ i \in 0 .. SG_num - 1 /\ adj \in 0 .. 255 /\ extra_adj \in 0 .. MAX_EXTRA_ADJ
  /\ DOMAIN desc \subseteq 0 .. MAX_DESC_NUM - 1
  /\ \A j \in DOMAIN desc : desc[j] \in Descriptor
  /\ regs.first \in {NoNext, At(0)} /\ regs.ADJA \in Nat /\ regs.ADD \in 0 .. MAX_DESC_NUM

(* No prefetch leaves the allocation: the descriptors a Nxt_adj announces  *)
(* (after the next one) exist, for each descriptor as soon as it is        *)
(* written, and so do those the DESC_ADJA register announces after the     *)
(* first one.                                                              *)
PrefetchInBounds ==
  /\ \A j \in DOMAIN desc : IF desc[j].stop THEN desc[j].Nxt_adj = 0
                                            ELSE j + 1 + desc[j].Nxt_adj <= SG_num - 1
  /\ regs.first = At(0) => 0 .. regs.ADJA \subseteq DOMAIN desc

(* When the engine is told about the chain, following next from the first  *)
(* descriptor visits all SG_num of them and stops at the last one only.    *)
(* What the walk moves is the buffer that processes map, pData[0], once,   *)
(* whole, and at the channel's own card address: every other descriptor,   *)
(* for which the code sets a buffer and a card address but no length,      *)
(* moves nothing.  With DESC_NUM = 1 that is all there is to move; a build *)
(* with more descriptors gets a complete chain that leaves pData[1] and    *)
(* the following buffers alone.                                            *)
ChainComplete ==
  regs.first = At(0) =>
    /\ DOMAIN desc = 0 .. SG_num - 1
    /\ desc[0].bytes = SIZE /\ desc[0].buf = 0 /\ desc[0].ep = 0
    /\ \A j \in 0 .. SG_num - 1 : /\ desc[j].stop <=> j = SG_num - 1
                                  /\ j < SG_num - 1 => desc[j].next = At(j + 1)
                                  /\ j > 0 => desc[j].bytes = 0

(* The bursts are as long as the hardware allows: a descriptor whose Nxt_adj*)
(* is not at its limit announces all that is left of the chain.            *)
BurstsMaximal ==
  \A j \in DOMAIN desc : ~desc[j].stop /\ desc[j].Nxt_adj < MAX_EXTRA_ADJ
    => j + 1 + desc[j].Nxt_adj = SG_num - 1
=============================================================================
