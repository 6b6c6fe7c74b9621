----------------------------- MODULE XdmaEngine -----------------------------
(***************************************************************************)
(* Transfers of one board: xdma_channel_init() in the probe, which builds  *)
(* the chains of XdmaDesc channel after channel, the START and STOP        *)
(* commands of the ioctl() that clients of the library give meanwhile and  *)
(* afterwards, the polling of the channel's status, and the remove, which  *)
(* frees what the engines read and write.  The engine itself is hardware.  *)
(*                                                                         *)
(* The character device is live before xdma_channel_init(), so a client    *)
(* may start an engine that is not programmed yet; the remove stops no     *)
(* engine.  Each channel has one client at a time; the clients of          *)
(* different channels run concurrently.  Channels are <<direction,         *)
(* channel>>, numbered as in the API.                                      *)
(*                                                                         *)
(* Bounds: MAX_STARTS starts in all, and one departure from the order      *)
(* below (a failed allocation, a start outside the life of the board, a    *)
(* close while a channel is in use) per behaviour: after the first, the    *)
(* guards on orderly admit no second one.                                  *)
(***************************************************************************)
EXTENDS XdmaDesc, Sequences

CONSTANT MAX_STARTS   \* bound on the number of starts

ASSUME EngineAssumption == MAX_STARTS \in Nat \ {0}

H2C_DIR == 0
C2H_DIR == 1
CH1 == 1
CH2 == 2
Channels == {H2C_DIR, C2H_DIR} \X {CH1, CH2}

(* The loop of xdma_channel_init(): H2C CH2 gets its direction and channel *)
(* only, and keeps the zeros of kzalloc().                                 *)
InitOrder == <<<<C2H_DIR, CH1>>, <<H2C_DIR, CH1>>, <<C2H_DIR, CH2>>>>

(* Each channel that is set up has a client.                               *)
Clients == {InitOrder[k] : k \in DOMAIN InitOrder}

VARIABLES
  step,      \* where xdma_probe() is, then where xdma_remove() is
  n,         \* index in InitOrder of the channel being initialised or freed
  tmp,       \* xdma_poll_init(): the run bit it read
  cfg,       \* each channel's xdma_cfg_info: [SG, data, chain]
  hw,        \* registers and state of each engine
  cl,        \* where the client of each channel is
  starts,    \* number of starts made so far
  handle,    \* the library still holds the board's handle
  orderly,   \* memory was there, and clients called in the intended order
  astray     \* an engine used memory that is not its channel's

engineVars == <<step, n, tmp, cfg, hw, cl, starts, handle, orderly, astray>>
allVars == <<vars, engineVars>>
clientVars == <<cl, starts, handle>>

NoMem == [j \in {} |-> 0]
NoCfg == [SG |-> 0, data |-> FALSE, chain |-> NoMem]
Reset == [run |-> FALSE, st |-> "idle", at |-> NoNext, first |-> NoNext,
          credits |-> 0, mode |-> FALSE]

EngineInit ==
  /\ Init
  /\ step = "setup" /\ n = 1 /\ tmp = FALSE
  /\ cfg = [c \in Channels |-> NoCfg]
  /\ hw = [c \in Channels |-> Reset]
  /\ cl = [c \in Clients |-> "idle"]
  /\ starts = 0
  /\ handle = TRUE /\ orderly = TRUE /\ astray = FALSE
-----------------------------------------------------------------------------
(* A rising run bit makes the engine fetch from the address it was given;  *)
(* a falling one lets it end the descriptor it works on and takes its      *)
(* credits away.                                                           *)
WriteControl(e, run) ==
  CASE run /\ ~e.run  -> [e EXCEPT !.run = TRUE, !.st = "busy", !.at = e.first]
    [] ~run /\ e.run  -> [e EXCEPT !.run = FALSE, !.credits = 0,
                                   !.st = IF e.st = "busy" THEN "ending" ELSE "idle"]
    [] OTHER -> e

Working(e) == e.st \in {"busy", "ending"}

(* The engine works on one descriptor; in credit mode that costs a credit, *)
(* and it waits for one while it has none.  What it finds at an address    *)
(* where there is no descriptor has no DESC_MAGIC: it halts.               *)
engine(c) ==
  LET e == hw[c]
      found == e.at[1] = "desc" /\ e.at[2] \in DOMAIN cfg[c].chain
      d == cfg[c].chain[e.at[2]]
      waits == e.mode /\ e.credits = 0
  IN /\ step # "gone" /\ Working(e)
     /\ e.st = "busy" => ~waits
     /\ hw' = [hw EXCEPT ![c] =
          IF waits THEN [e EXCEPT !.st = "idle"]
          ELSE IF ~found THEN [e EXCEPT !.st = "error"]
          ELSE [e EXCEPT !.credits = IF e.mode THEN @ - 1 ELSE @,
                         !.at = d.next,
                         !.st = IF e.st = "ending" THEN "idle" ELSE IF d.stop THEN "done" ELSE "busy"]]
     /\ astray' = (astray \/ (~waits /\ ~(found /\ cfg[c].data)))
     /\ UNCHANGED <<vars, step, n, tmp, cfg, clientVars, orderly>>
-----------------------------------------------------------------------------
cur == InitOrder[n]

(* vi53xx_info_init(): the result of xdma_physical_address_init(), which   *)
(* fails when dma_alloc_coherent() does, is not looked at.                 *)
setup ==
  /\ step = "setup" /\ step' = "poll_read"
  /\ \E got \in BOOLEAN :
       /\ got \/ orderly
       /\ cfg' = [cfg EXCEPT ![cur].SG = SG_num, ![cur].data = got]
       /\ orderly' = (orderly /\ got)
  /\ UNCHANGED <<vars, n, tmp, hw, clientVars, astray>>

poll_read ==
  /\ step = "poll_read" /\ step' = "poll_write"
  /\ tmp' = hw[cur].run
  /\ UNCHANGED <<vars, n, cfg, hw, clientVars, orderly, astray>>

poll_write ==
  /\ step = "poll_write" /\ step' = "init_stop"
  /\ hw' = [hw EXCEPT ![cur] = WriteControl(@, tmp)]
  /\ UNCHANGED <<vars, n, tmp, cfg, clientVars, orderly, astray>>

init_stop ==
  /\ step = "init_stop" /\ step' = "create"
  /\ hw' = [hw EXCEPT ![cur] = WriteControl(@, FALSE)]
  /\ UNCHANGED <<vars, n, tmp, cfg, clientVars, orderly, astray>>

(* xdma_create_transfer(): the steps of XdmaDesc.  The last one writes the *)
(* registers; the descriptors written belong to the channel from then on.  *)
create_transfer ==
  /\ step = "create" /\ Next
  /\ pc' = "cofg_null" => orderly
  /\ IF pc' = "done"
       THEN /\ step' = "next"
            /\ cfg' = [cfg EXCEPT ![cur].chain = desc]
            /\ hw' = [hw EXCEPT ![cur].first = regs'.first, ![cur].mode = @ \/ SG_num > 1,
                                ![cur].credits = @ + regs'.ADD]
            /\ orderly' = (orderly /\ regs'.first # NoNext)
       ELSE UNCHANGED <<step, cfg, hw, orderly>>
  /\ UNCHANGED <<n, tmp, clientVars, astray>>

next_channel ==
  /\ step = "next"
  /\ IF n < Len(InitOrder)
       THEN /\ step' = "setup" /\ n' = n + 1
            /\ pc' = "alloc" /\ i' = 0 /\ adj' = uint8(SG_num - 1) /\ extra_adj' = 0
            /\ desc' = NoMem /\ regs' = [first |-> NoNext, ADJA |-> 0, ADD |-> 0]
       ELSE step' = "live" /\ UNCHANGED <<n, pc, i, adj, extra_adj, desc, regs>>
  /\ UNCHANGED <<SG_num, tmp, cfg, hw, clientVars, orderly, astray>>
-----------------------------------------------------------------------------
(* The xdma_cfg_info that vi53xx_xdma_start() of the driver copies: index  *)
(* channel where the others use channel - 1.  In struct xdma_dev the       *)
(* element after C2H_dma_cfg[1] is H2C_dma_cfg[0].                         *)
StartCfg(c) == IF c = <<C2H_DIR, CH2>> THEN <<H2C_DIR, CH1>> ELSE <<c[1], c[2] + 1>>

(* Mutants: credits to the engine of the copied element; none at a start.  *)
start_desc_copied(c) ==
  LET k == cfg[StartCfg(c)].SG
  IN hw' = IF k > 1 THEN [hw EXCEPT ![StartCfg(c)].credits = @ + k] ELSE hw
start_desc_never(c) == hw' = hw

(* xdma_start_desc() adds credits to the engine of the client's channel    *)
(* number and of the copied element's direction.                           *)
start_desc(c) ==
  LET k == cfg[StartCfg(c)].SG
      d == <<StartCfg(c)[1], c[2]>>
  IN hw' = IF k > 1 THEN [hw EXCEPT ![d].credits = @ + k] ELSE hw

(* CMD_XDMA_START, first part.  Without a handle the library gives up.     *)
client_start_desc(c) ==
  /\ step # "gone" /\ handle
  /\ cl[c] = "idle" /\ starts < MAX_STARTS
  /\ step = "live" \/ orderly
  /\ start_desc(c)
  /\ cl' = [cl EXCEPT ![c] = "starting"]
  /\ starts' = starts + 1
  /\ orderly' = (orderly /\ step = "live")
  /\ UNCHANGED <<vars, step, n, tmp, cfg, handle, astray>>

client_start(c) ==
  /\ step # "gone" /\ cl[c] = "starting"
  /\ hw' = [hw EXCEPT ![c] = WriteControl(@, TRUE)]
  /\ cl' = [cl EXCEPT ![c] = "running"]
  /\ UNCHANGED <<vars, step, n, tmp, cfg, starts, handle, orderly, astray>>

(* CMD_XDMA_STOP; without a handle it returns -1 and the engine runs on.   *)
client_stop(c) ==
  /\ step # "gone" /\ cl[c] = "running"
  /\ hw' = IF handle THEN [hw EXCEPT ![c] = WriteControl(@, FALSE)] ELSE hw
  /\ cl' = [cl EXCEPT ![c] = "stopped"]
  /\ UNCHANGED <<vars, step, n, tmp, cfg, starts, handle, orderly, astray>>

(* Mutant: the status register of the channel after the client's.          *)
BusySeenNext(c) == handle /\ Working(hw[StartCfg(c)])

(* vi53xx_get_xdma_poll_status(): the initial 0 of val, which is what an   *)
(* idle engine shows, is also what a failed read returns.                  *)
BusySeen(c) == handle /\ Working(hw[c])

client_poll(c) ==
  /\ cl[c] = "stopped" /\ ~BusySeen(c)
  /\ cl' = [cl EXCEPT ![c] = "idle"]
  /\ UNCHANGED <<vars, step, n, tmp, cfg, hw, starts, handle, orderly, astray>>

AllIdle == \A c \in Clients : cl[c] = "idle"

client_close ==
  /\ handle /\ handle' = FALSE
  /\ AllIdle \/ orderly
  /\ orderly' = (orderly /\ AllIdle)
  /\ UNCHANGED <<vars, step, n, tmp, cfg, hw, cl, starts, astray>>
-----------------------------------------------------------------------------
remove ==
  /\ step = "live" /\ step' = "free_pdata" /\ n' = 1
  /\ orderly' = (orderly /\ AllIdle)
  /\ UNCHANGED <<vars, tmp, cfg, hw, clientVars, astray>>

(* xdma_free_pci_bus_addr() goes through the channels as the probe does,   *)
(* xdma_free_desc() takes H2C first.                                       *)
DescOrder == <<<<H2C_DIR, CH1>>, <<C2H_DIR, CH1>>, <<C2H_DIR, CH2>>>>

free_resource ==
  /\ step \in {"free_pdata", "free_desc"}
  /\ cfg' = IF step = "free_pdata" THEN [cfg EXCEPT ![cur].data = FALSE]
                                   ELSE [cfg EXCEPT ![DescOrder[n]].chain = NoMem]
  /\ IF n < Len(InitOrder) THEN n' = n + 1 /\ step' = step
       ELSE n' = 1 /\ step' = IF step = "free_pdata" THEN "free_desc" ELSE "umap"
  /\ UNCHANGED <<vars, tmp, hw, clientVars, orderly, astray>>

(* xdma_device_umap(): pci_disable_device() ends the engines' bus access.  *)
device_umap ==
  /\ step = "umap" /\ step' = "gone"
  /\ UNCHANGED <<vars, n, tmp, cfg, hw, clientVars, orderly, astray>>
-----------------------------------------------------------------------------
probe == setup \/ poll_read \/ poll_write \/ init_stop \/ create_transfer \/ next_channel
client(c) == client_start_desc(c) \/ client_start(c) \/ client_stop(c) \/ client_poll(c)

EngineNext ==
  \/ probe
  \/ \E c \in Clients : client(c)
  \/ client_close
  \/ \E c \in Channels : engine(c)
  \/ remove \/ free_resource \/ device_umap

(* The hardware works on; probe, clients and remove need not.              *)
EngineSpec == EngineInit /\ [][EngineNext]_allVars /\ \A c \in Channels : WF_allVars(engine(c))
-----------------------------------------------------------------------------
EngineTypeOK ==
  /\ TypeOK
  /\ step \in {"setup", "poll_read", "poll_write", "init_stop", "create", "next", "live",
               "free_pdata", "free_desc", "umap", "gone"}
  /\ n \in 1 .. Len(InitOrder)
  /\ \A c \in Channels :
       /\ cfg[c].SG \in {0, SG_num} /\ DOMAIN cfg[c].chain \in {{}, 0 .. SG_num - 1}
       /\ hw[c].st \in {"idle", "busy", "ending", "done", "error"}
       /\ hw[c].first \in {NoNext, At(0)} /\ hw[c].credits \in Nat
  /\ cl \in [Clients -> {"idle", "starting", "running", "stopped"}]
  /\ starts \in 0 .. MAX_STARTS

(* xdma_remove() stops no engine and START is accepted before the channel  *)
(* is programmed.  Yet when all memory could be allocated, every client    *)
(* waited for the probe, and each one stopped its channel and saw it idle  *)
(* before the handle was closed or the board removed, no engine ever       *)
(* halts, nor reads a descriptor or moves data outside its channel's       *)
(* memory.                                                                 *)
DmaStaysHome ==
  orderly => ~astray /\ \A c \in Channels : hw[c].st # "error"

(* vi53xx_xdma_start() takes the wrong element of the configuration, and   *)
(* the engine it gives credits to is made of that element's direction and  *)
(* the client's channel number.  No client disturbs the engine of another  *)
(* client nevertheless, for chains of every length: the credits that C2H   *)
(* CH2 gives away go to H2C CH2, which nobody uses.                        *)
OwnEngineOnly ==
  [][\A c \in Clients : cl'[c] # cl[c] => \A d \in Clients \ {c} : hw'[d] = hw[d]]_allVars

(* The channels whose START gives the engine the credits it needs.         *)
Credited(c) == SG_num = 1 \/ c = <<C2H_DIR, CH1>>

(* A started transfer ends, again and again: with one descriptor on every  *)
(* channel, with more on C2H CH1, whose credits each START renews.         *)
TransferEnds ==
  \A c \in Clients :
    Credited(c) /\ orderly /\ hw[c].st = "busy" ~> ~orderly \/ hw[c].st # "busy"
=============================================================================
