------------------------------ MODULE XdmaMmap ------------------------------
(***************************************************************************)
(* Mapping a DMA buffer into a process.  The library's vi53xx_xdma_mmap()  *)
(* first passes direction and channel with the SETTING ioctl, which the    *)
(* driver keeps in the global xdma_setting (vi53xx_xdma_ctrl.c), and then  *)
(* calls mmap(2) on the board's descriptor; the driver's xdma_mmap()       *)
(* (libxdma.c) makes the buffer uncached on its first mapping only, which  *)
(* it remembers in xpdev->fmap, and maps it.                               *)
(*                                                                         *)
(* Callers are threads of different processes, so nothing serialises them  *)
(* and each step of either call is an action.  The character device of a   *)
(* board is live before xdma_channel_init() allocates its buffers and      *)
(* before the last statement of xdma_probe(), dev_set_drvdata(); and a     *)
(* descriptor that is open survives xdma_remove().  Neither the library's  *)
(* result of SETTING, nor that of set_memory_uc() or of the allocations is *)
(* looked at by the code, so each of them may fail here.                   *)
(***************************************************************************)
EXTENDS Integers

CONSTANTS Callers, Boards, NoBuf,
          Asked,    \* channel numbers that callers ask for, valid or not
          Plugged,  \* boards that are bound from the start and stay so
          MaxCalls  \* bound: calls made in all

ASSUME MmapAssumption == MaxCalls \in Nat /\ Plugged \subseteq Boards /\ Asked \subseteq Nat

VARIABLES
  xdma_setting,  \* the driver's global <<dir, channel>>
  fmap,          \* xpdev->fmap[dir][channel] # 0, as triples <<b, dir, channel>>
  uncached,      \* buffers that set_memory_uc() was applied to
  uc_failed,     \* buffers that it was applied to without success
  pc,            \* pc[t]: next step of the call t is in
  calls,         \* number of calls made so far
  req,           \* req[t]: the board, direction and channel t asked for
  cfg,           \* cfg[t]: the copy of xdma_cfg_info its mmap works on
  maps,          \* user mappings: [by, req, got]
  raced,         \* history: a SETTING came while another call had yet to read its own
  life,          \* life[b]: how far probe and remove of the board are
  alloc,         \* buffers that are allocated
  no_mem,        \* buffers that dma_alloc_coherent() failed for
  astray,        \* history: somebody asked for a channel that has no buffer
  orderly        \* history: boards were bound, and not removed, while used

callVars == <<xdma_setting, fmap, uncached, uc_failed, pc, calls, req, cfg, maps, raced, astray>>
boardVars == <<life, alloc, no_mem, orderly>>
vars == <<callVars, boardVars>>

H2C_DIR == 0
C2H_DIR == 1
Channels == {H2C_DIR, C2H_DIR} \X (1 .. 2)
Elems == {<<b, c[1], c[2]>> : b \in Boards, c \in Channels}
Bufs == {f \in Elems : <<f[2], f[3]>> # <<H2C_DIR, 2>>}  \* H2C CH2 has no buffer
Requests == {<<b, d, ch>> : b \in Boards, d \in {H2C_DIR, C2H_DIR}, ch \in Asked}

ASSUME NoBufAssumption == NoBuf \notin Elems

(* struct xdma_dev: C2H_dma_cfg[0], [1], then H2C_dma_cfg[0], [1].         *)
dma_cfg(b) == [p \in 0 .. 3 |-> IF p < 2 THEN <<b, C2H_DIR, p + 1>> ELSE <<b, H2C_DIR, p - 1>>]

(* Mutants: the direction is not looked at; it is taken the wrong way.     *)
get_xdma_cfg_no_dir(b, info) ==
  LET p == 2 + info[2] - 1 IN IF p \in 0 .. 3 THEN dma_cfg(b)[p] ELSE NoBuf
get_xdma_cfg_swapped(b, info) ==
  LET p == (IF info[1] = H2C_DIR THEN 0 ELSE 2) + info[2] - 1
  IN IF p \in 0 .. 3 THEN dma_cfg(b)[p] ELSE NoBuf

(* cfg[channel - 1] of the direction, the channel untested: channel 0 and  *)
(* 3 and 4 may be an element of the other direction, or none at all.       *)
get_xdma_cfg(b, info) ==
  LET p == (IF info[1] = H2C_DIR THEN 2 ELSE 0) + info[2] - 1
  IN IF p \in 0 .. 3 THEN dma_cfg(b)[p] ELSE NoBuf

(* xdma_setting is a zeroed global until the first SETTING.                *)
Init ==
  /\ xdma_setting = <<0, 0>>
  /\ fmap = {} /\ uncached = {} /\ uc_failed = {}
  /\ pc = [t \in Callers |-> "idle"]
  /\ req = [t \in Callers |-> NoBuf]
  /\ cfg = [t \in Callers |-> NoBuf]
  /\ calls = 0 /\ maps = {} /\ raced = FALSE /\ astray = FALSE
  /\ life = [b \in Boards |-> IF b \in Plugged THEN "bound" ELSE "live"]
  /\ alloc = {f \in Bufs : f[1] \in Plugged} /\ no_mem = {} /\ orderly = TRUE

(* xdma_probe() from "bring character device live" on, that is             *)
(* xdma_channel_init() and then list_add() and dev_set_drvdata().  A buffer*)
(* that cannot be allocated leaves pData[0] NULL and stops nothing.        *)
channel_init(b) ==
  /\ life[b] = "live" /\ life' = [life EXCEPT ![b] = "listed"]
  /\ LET mine == {f \in Bufs : f[1] = b}
     IN \E got \in SUBSET mine : alloc' = alloc \union got /\ no_mem' = no_mem \union (mine \ got)
  /\ UNCHANGED <<callVars, orderly>>

set_drvdata(b) ==
  /\ life[b] = "listed" /\ life' = [life EXCEPT ![b] = "bound"]
  /\ UNCHANGED <<callVars, alloc, no_mem, orderly>>

(* xdma_free_c2h_pdata() and xdma_free_h2c_pdata() take the array index for*)
(* the channel: of index i they look at fmap[dir][i], which xdma_mmap()    *)
(* sets for channel i, the buffer of index i - 1.                          *)
WrittenBack(b) == {f \in Bufs : f[1] = b /\ <<b, f[2], f[3] - 1>> \in fmap}

(* xdma_remove() as far as it frees the buffers, which no call is told of. *)
free_pdata(b) ==
  /\ life[b] = "bound" /\ life' = [life EXCEPT ![b] = "freed"]
  /\ alloc' = {f \in alloc : f[1] # b}
  /\ uncached' = uncached \ (WrittenBack(b) \intersect alloc)
  /\ orderly' = (orderly /\ \A t \in Callers : pc[t] \notin {"idle", "oops"} => req[t][1] # b)
  /\ UNCHANGED <<xdma_setting, fmap, uc_failed, pc, calls, req, cfg, maps, raced, astray, no_mem>>

(* xpdev_free(): xdev, xpdev and with it fmap are freed.                   *)
xpdev_free(b) ==
  /\ life[b] = "freed" /\ life' = [life EXCEPT ![b] = "gone"]
  /\ UNCHANGED <<callVars, alloc, no_mem, orderly>>
-----------------------------------------------------------------------------
Goto(t, from, to) == pc[t] = from /\ pc' = [pc EXCEPT ![t] = to]

Return(t) == req' = [req EXCEPT ![t] = NoBuf] /\ cfg' = [cfg EXCEPT ![t] = NoBuf]

(* What _vi53xx_xdma_mmap_setting() in the library lets through.           *)
Admitted(r) == r[3] <= 4

(* vi53xx_xdma_mmap() in the library, up to the ioctl, and CMD_XDMA_SETTING*)
(* (which of the calls of a caller fail for lack of a handle is left to    *)
(* BoardRegistry).  A request that is not admitted leaves the setting as   *)
(* it is; the mmap(2) follows all the same.                                *)
mmap_setting(t) ==
  /\ calls < MaxCalls /\ calls' = calls + 1
  /\ Goto(t, "idle", "mmap")
  /\ \E r \in Requests :
       /\ req' = [req EXCEPT ![t] = r]
       /\ xdma_setting' = IF Admitted(r) THEN <<r[2], r[3]>> ELSE xdma_setting
       /\ raced' = (raced \/ (Admitted(r) /\ \E u \in Callers : pc[u] = "mmap" /\ Admitted(req[u])))
       /\ orderly' = (orderly /\ life[r[1]] = "bound")
       /\ astray' = (astray \/ r \notin Bufs)
  /\ UNCHANGED <<fmap, uncached, uc_failed, cfg, maps, life, alloc, no_mem>>

(* Without driver data, or with what it pointed to freed, the call ends in *)
(* an oops instead of reaching fmap.                                       *)
Reaches(t) == pc[t] \notin {"idle", "oops"} /\ life[req[t][1]] \in {"bound", "freed"}

(* Mutant: fmap is set before the pages are made uncached.                 *)
xdma_mmap_flag_first(t) ==
  /\ pc[t] = "mmap" /\ Reaches(t)
  /\ LET c == get_xdma_cfg(req[t][1], xdma_setting)
     IN /\ c # NoBuf
        /\ cfg' = [cfg EXCEPT ![t] = c]
        /\ IF c \in fmap THEN Goto(t, "mmap", "map") ELSE Goto(t, "mmap", "set_memory_uc")
        /\ fmap' = fmap \union {c}
  /\ UNCHANGED <<xdma_setting, uncached, uc_failed, calls, req, maps, raced, astray, boardVars>>

(* _xdma_mmap() copies the configuration that xdma_setting selects on the  *)
(* board of the descriptor; xdma_mmap() tests fmap.                        *)
xdma_mmap(t) ==
  /\ pc[t] = "mmap" /\ Reaches(t)
  /\ LET c == get_xdma_cfg(req[t][1], xdma_setting)
     IN /\ c # NoBuf
        /\ cfg' = [cfg EXCEPT ![t] = c]
        /\ IF c \in fmap THEN Goto(t, "mmap", "map") ELSE Goto(t, "mmap", "set_memory_uc")
  /\ UNCHANGED <<xdma_setting, fmap, uncached, uc_failed, calls, req, maps, raced, astray, boardVars>>

(* What lies outside the four elements is copied just the same, and its    *)
(* direction, channel and pData are whatever was there: the call ends in an*)
(* oops, fails, or maps memory that is no buffer.                          *)
xdma_mmap_garbage(t) ==
  /\ pc[t] = "mmap" /\ Reaches(t)
  /\ get_xdma_cfg(req[t][1], xdma_setting) = NoBuf
  /\ \/ Goto(t, "mmap", "oops") /\ maps' = maps
     \/ /\ Goto(t, "mmap", "idle")
        /\ maps' \in {maps, maps \union {[by |-> t, req |-> req[t], got |-> NoBuf]}}
  /\ Return(t)
  /\ UNCHANGED <<xdma_setting, fmap, uncached, uc_failed, calls, raced, astray, boardVars>>

mmap_oops(t) ==
  /\ pc[t] \notin {"idle", "oops"} /\ ~Reaches(t)
  /\ pc' = [pc EXCEPT ![t] = "oops"] /\ Return(t)
  /\ UNCHANGED <<xdma_setting, fmap, uncached, uc_failed, calls, maps, raced, astray, boardVars>>

(* set_memory_uc() may fail; the code goes on, and never tries again.      *)
set_memory_uc(t) ==
  /\ Reaches(t)
  /\ Goto(t, "set_memory_uc", "set_fmap")
  /\ \/ uncached' = uncached \union {cfg[t]} /\ uc_failed' = uc_failed
     \/ uc_failed' = uc_failed \union {cfg[t]} /\ uncached' = uncached
  /\ UNCHANGED <<xdma_setting, fmap, calls, req, cfg, maps, raced, astray, boardVars>>

set_fmap(t) ==
  /\ Reaches(t)
  /\ Goto(t, "set_fmap", "map")
  /\ fmap' = fmap \union {cfg[t]}
  /\ UNCHANGED <<xdma_setting, uncached, uc_failed, calls, req, cfg, maps, raced, astray, boardVars>>

(* dma_common_mmap() may refuse, after fmap was set; the library passes on *)
(* MAP_FAILED, which it does not recognise, and nothing is mapped.         *)
dma_common_mmap(t) ==
  /\ Reaches(t)
  /\ Goto(t, "map", "idle")
  /\ maps' \in {maps, maps \union {[by |-> t, req |-> req[t], got |-> cfg[t]]}}
  /\ Return(t)
  /\ UNCHANGED <<xdma_setting, fmap, uncached, uc_failed, calls, raced, astray, boardVars>>

(* vi53xx_xdma_unmap(): the EXIT ioctl does nothing; fmap stays set.       *)
xdma_unmap(m) ==
  /\ maps' = maps \ {m}
  /\ UNCHANGED <<xdma_setting, fmap, uncached, uc_failed, pc, calls, req, cfg, raced, astray, boardVars>>

board(b) == channel_init(b) \/ set_drvdata(b) \/ free_pdata(b) \/ xpdev_free(b)

Next ==
  \/ \E b \in Boards \ Plugged : board(b)
  \/ \E t \in Callers :
       mmap_setting(t) \/ xdma_mmap(t) \/ set_memory_uc(t) \/ set_fmap(t) \/ dma_common_mmap(t)
       \/ xdma_mmap_garbage(t) \/ mmap_oops(t)
  \/ \E m \in maps : xdma_unmap(m)

Spec == Init /\ [][Next]_vars
-----------------------------------------------------------------------------
TypeOK ==
  /\ xdma_setting \in {H2C_DIR, C2H_DIR} \X Nat
  /\ fmap \subseteq Elems /\ uncached \subseteq Elems /\ uc_failed \subseteq Elems
  /\ pc \in [Callers -> {"idle", "mmap", "set_memory_uc", "set_fmap", "map", "oops"}]
  /\ req \in [Callers -> Requests \union {NoBuf}] /\ cfg \in [Callers -> Elems \union {NoBuf}]
  /\ maps \subseteq [by : Callers, req : Requests, got : Elems \union {NoBuf}]
  /\ calls \in 0 .. MaxCalls /\ raced \in BOOLEAN /\ astray \in BOOLEAN
  /\ life \in [Boards -> {"live", "listed", "bound", "freed", "gone"}]
  /\ alloc \subseteq Bufs /\ no_mem \subseteq Bufs /\ orderly \in BOOLEAN

(* fmap makes a second mapping skip set_memory_uc(), also while the first  *)
(* is still under way in another process, and after a failure that nobody  *)
(* noticed.  Still, a process sees a cached view of a buffer the device    *)
(* writes to only if set_memory_uc() itself failed for that very buffer.   *)
MappedIsUncached ==
  \A m \in maps : m.got \in alloc => m.got \in uncached \union uc_failed

(* mmap() of a board whose probe has not reached dev_set_drvdata()         *)
(* dereferences NULL, although the device is live and the board listed;    *)
(* the channel is not tested, failed allocations are not looked at and a   *)
(* remove frees what is mapped.  Those are the only ways, also if calls    *)
(* race for the setting: memory that is mapped is a buffer of a board that *)
(* is still there, unless its own allocation failed or somebody asked for  *)
(* a channel that has none; and a call ends in an oops only after such a   *)
(* request or on a board not bound, or removed, at the time.               *)
MappedIsAllocated ==
  /\ \A m \in maps : \/ m.got \in alloc \union no_mem
                     \/ m.got \in Elems /\ life[m.got[1]] \in {"freed", "gone"}
                     \/ astray
  /\ \A t \in Callers : orderly /\ ~astray => pc[t] # "oops"

(* The request goes through a global, yet calls that do not overlap between*)
(* SETTING and mmap get the element they asked for, whatever boards and    *)
(* channels, existing ones or not, were asked for before.                  *)
RequestKept == ~raced => \A m \in maps : m.req \in Elems => m.got = m.req

(* "mmap channel to userspace": the buffer a process gets is that of the   *)
(* direction and the channel it asked for.                                 *)
MappedAsRequested == \A m \in maps : m.req \in Elems => m.got = m.req
=============================================================================
