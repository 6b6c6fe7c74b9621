--------------------------- MODULE XdmaMmapProofs ---------------------------
(***************************************************************************)
(* What XdmaMmap promises, for any number of callers, boards and calls, and*)
(* any channel numbers asked for.                                          *)
(***************************************************************************)
EXTENDS XdmaMmap, TLAPS

InCall(t) == pc[t] \in {"mmap", "set_memory_uc", "set_fmap", "map"}
HasCfg(t) == pc[t] \in {"set_memory_uc", "set_fmap", "map"}

(* A call that reached xdma_mmap() works on an element of the board it was *)
(* made on.                                                                *)
CallsOK ==
  /\ \A t \in Callers : InCall(t) => req[t] \in Requests
  /\ \A t \in Callers : HasCfg(t) => cfg[t] \in Elems /\ cfg[t][1] = req[t][1]

Types == TypeOK /\ CallsOK

(* The channels of ch_addr, which have a buffer.                           *)
Backed == {<<H2C_DIR, 1>>, <<C2H_DIR, 1>>, <<C2H_DIR, 2>>}

LEMMA ElemParts ==
  ASSUME NEW f \in Elems
  PROVE  /\ f[1] \in Boards /\ <<f[2], f[3]>> \in Channels /\ f = <<f[1], f[2], f[3]>>
         /\ f[2] \in {0, 1} /\ f[3] \in {1, 2} /\ Admitted(f)
         /\ f \in Bufs <=> <<f[2], f[3]>> \in Backed
<1>1. PICK b \in Boards, d \in {0, 1}, ch \in 1 .. 2 : f = <<b, d, ch>>
  BY DEF Elems, Channels, H2C_DIR, C2H_DIR
<1>2. f[1] = b /\ f[2] = d /\ f[3] = ch /\ ch \in {1, 2}
  BY <1>1
<1> QED
  BY <1>1, <1>2 DEF Channels, Admitted, Bufs, Backed, H2C_DIR, C2H_DIR

LEMMA ElemOf ==
  ASSUME NEW b \in Boards, NEW c \in Channels
  PROVE  <<b, c[1], c[2]>> \in Elems
  BY DEF Elems

LEMMA RequestParts ==
  ASSUME NEW r \in Requests
  PROVE  /\ r[1] \in Boards /\ <<r[2], r[3]>> \in {H2C_DIR, C2H_DIR} \X Nat
         /\ r = <<r[1], r[2], r[3]>>
  BY MmapAssumption DEF Requests

(* Where the untested index of get_xdma_cfg() leads.                       *)
LEMMA CfgIsElem ==
  ASSUME NEW b \in Boards, NEW c \in {H2C_DIR, C2H_DIR} \X Nat
  PROVE  /\ get_xdma_cfg(b, c) # NoBuf => get_xdma_cfg(b, c) \in Elems /\ get_xdma_cfg(b, c)[1] = b
         /\ c \in Channels => get_xdma_cfg(b, c) = <<b, c[1], c[2]>>
         /\ c \in Backed => get_xdma_cfg(b, c) \in Bufs
<1> DEFINE p == (IF c[1] = H2C_DIR THEN 2 ELSE 0) + c[2] - 1
<1>1. get_xdma_cfg(b, c) = IF p \in 0 .. 3 THEN dma_cfg(b)[p] ELSE NoBuf
  BY DEF get_xdma_cfg
<1>2. c[1] \in {0, 1} /\ c[2] \in Nat /\ p \in Int
  BY DEF H2C_DIR, C2H_DIR
<1>3. ASSUME p \in 0 .. 3 PROVE dma_cfg(b)[p] \in Elems /\ dma_cfg(b)[p][1] = b
  <2>1. p \in {0, 1, 2, 3}
    BY <1>3
  <2>2. dma_cfg(b)[p] = IF p < 2 THEN <<b, 1, p + 1>> ELSE <<b, 0, p - 1>>
    BY <1>3 DEF dma_cfg, H2C_DIR, C2H_DIR
  <2> HIDE DEF p
  <2>3. \E x \in {0, 1}, y \in 1 .. 2 : dma_cfg(b)[p] = <<b, x, y>>
    <3>1. CASE p < 2
      <4>1. dma_cfg(b)[p] = <<b, 1, p + 1>> /\ p + 1 \in 1 .. 2
        BY <2>1, <2>2, <3>1
      <4> QED
        BY <4>1
    <3>2. CASE ~(p < 2)
      <4>1. dma_cfg(b)[p] = <<b, 0, p - 1>> /\ p - 1 \in 1 .. 2
        BY <2>1, <2>2, <3>2
      <4> QED
        BY <4>1
    <3> QED
      BY <3>1, <3>2
  <2>4. PICK x \in {0, 1}, y \in 1 .. 2 : dma_cfg(b)[p] = <<b, x, y>>
    BY <2>3
  <2>5. <<x, y>> \in Channels /\ <<x, y>>[1] = x /\ <<x, y>>[2] = y
    BY DEF Channels, H2C_DIR, C2H_DIR
  <2>6. <<b, x, y>> \in Elems
    BY <2>5, ElemOf
  <2> QED
    BY <2>4, <2>6
<1>4. ASSUME c \in Channels PROVE get_xdma_cfg(b, c) = <<b, c[1], c[2]>>
  <2>1. c[1] \in {0, 1} /\ c[2] \in {1, 2}
    BY <1>4 DEF Channels, H2C_DIR, C2H_DIR
  <2>2. p = (IF c[1] = 0 THEN 1 + c[2] ELSE c[2] - 1) /\ p \in 0 .. 3
    BY <2>1 DEF H2C_DIR
  <2>3. dma_cfg(b)[p] = IF p < 2 THEN <<b, 1, p + 1>> ELSE <<b, 0, p - 1>>
    BY <2>2 DEF dma_cfg, H2C_DIR, C2H_DIR
  <2> QED
    BY <1>1, <2>1, <2>2, <2>3
<1>5. ASSUME c \in Backed PROVE get_xdma_cfg(b, c) \in Bufs
  <2>1. c \in Channels
    BY <1>5 DEF Backed, Channels
  <2>2. <<b, c[1], c[2]>> \in Elems
    BY <2>1, ElemOf
  <2>3. <<c[1], c[2]>> = c
    OBVIOUS
  <2> QED
    BY <1>4, <1>5, <2>1, <2>2, <2>3, ElemParts
<1> QED
  BY <1>1, <1>3, <1>4, <1>5

LEMMA BufsAreElems == Bufs \subseteq Elems
  BY DEF Bufs

LEMMA InitTypes == Init => Types
<1> SUFFICES ASSUME Init PROVE Types
  OBVIOUS
<1>1. TypeOK
  <2>1. life \in [Boards -> {"live", "listed", "bound", "freed", "gone"}]
    BY DEF Init
  <2>2. alloc \subseteq Bufs
    BY DEF Init
  <2>3. xdma_setting \in {H2C_DIR, C2H_DIR} \X Nat /\ calls \in 0 .. MaxCalls
    BY MmapAssumption DEF Init, H2C_DIR, C2H_DIR
  <2> QED
    BY <2>1, <2>2, <2>3 DEF Init, TypeOK
<1>2. CallsOK
  BY DEF Init, CallsOK, InCall, HasCfg
<1> QED
  BY <1>1, <1>2 DEF Types

(* The steps of a call and of a board, as far as types go.                 *)
LEMMA StepTypes == Types /\ [Next]_vars => Types'
<1> SUFFICES ASSUME Types, [Next]_vars PROVE Types'
  OBVIOUS
<1> USE DEF Types, TypeOK, CallsOK, InCall, HasCfg, callVars, boardVars
<1>1. ASSUME NEW b \in Boards, channel_init(b) PROVE Types'
  BY <1>1 DEF channel_init
<1>2. ASSUME NEW b \in Boards, set_drvdata(b) PROVE Types'
  BY <1>2 DEF set_drvdata
<1>3. ASSUME NEW b \in Boards, free_pdata(b) PROVE Types'
  BY <1>3 DEF free_pdata
<1>4. ASSUME NEW b \in Boards, xpdev_free(b) PROVE Types'
  BY <1>4 DEF xpdev_free
<1>5. ASSUME NEW t \in Callers, mmap_setting(t) PROVE Types'
  <2>1. PICK r \in Requests :
          /\ req' = [req EXCEPT ![t] = r]
          /\ xdma_setting' = IF Admitted(r) THEN <<r[2], r[3]>> ELSE xdma_setting
          /\ raced' = (raced \/ (Admitted(r) /\ \E u \in Callers : pc[u] = "mmap" /\ Admitted(req[u])))
          /\ orderly' = (orderly /\ life[r[1]] = "bound")
          /\ astray' = (astray \/ r \notin Bufs)
    BY <1>5 DEF mmap_setting
  <2>2. xdma_setting' \in {H2C_DIR, C2H_DIR} \X Nat
    BY <2>1, RequestParts
  <2>3. calls' \in 0 .. MaxCalls
    BY <1>5, MmapAssumption DEF mmap_setting
  <2>4. raced' \in BOOLEAN /\ astray' \in BOOLEAN /\ orderly' \in BOOLEAN
    BY <2>1
  <2>5. req' \in [Callers -> Requests \union {NoBuf}]
    BY <2>1
  <2> QED
    BY <1>5, <2>1, <2>2, <2>3, <2>4, <2>5 DEF mmap_setting, Goto
<1>6. ASSUME NEW t \in Callers, xdma_mmap(t) PROVE Types'
  <2> DEFINE c == get_xdma_cfg(req[t][1], xdma_setting)
  <2>1. req[t] \in Requests
    BY <1>6 DEF xdma_mmap
  <2>2. req[t][1] \in Boards
    BY <2>1, RequestParts
  <2>3. /\ c # NoBuf /\ pc[t] = "mmap" /\ cfg' = [cfg EXCEPT ![t] = c]
        /\ pc' = [pc EXCEPT ![t] = IF c \in fmap THEN "map" ELSE "set_memory_uc"]
    BY <1>6 DEF xdma_mmap, Goto
  <2>4. c \in Elems /\ c[1] = req[t][1]
    BY <2>2, <2>3, CfgIsElem
  <2> HIDE DEF c
  <2> QED
    BY <1>6, <2>3, <2>4 DEF xdma_mmap
<1>7. ASSUME NEW t \in Callers, set_memory_uc(t) PROVE Types'
  BY <1>7 DEF set_memory_uc, Goto
<1>8. ASSUME NEW t \in Callers, set_fmap(t) PROVE Types'
  BY <1>8 DEF set_fmap, Goto
<1>9. ASSUME NEW t \in Callers, dma_common_mmap(t) \/ xdma_mmap_garbage(t) PROVE Types'
  <2> DEFINE Maps == [by : Callers, req : Requests, got : Elems \union {NoBuf}]
  <2>1. /\ req[t] \in Requests
        /\ \E g \in {cfg[t], NoBuf} : maps' \in {maps, maps \union {[by |-> t, req |-> req[t], got |-> g]}}
    BY <1>9 DEF dma_common_mmap, xdma_mmap_garbage, Goto
  <2>2. \A g \in {cfg[t], NoBuf} : [by |-> t, req |-> req[t], got |-> g] \in Maps
    BY <2>1
  <2>3. maps' \subseteq Maps
    <3> HIDE DEF Maps
    <3>1. maps \subseteq Maps
      BY DEF Maps
    <3> QED
      BY <2>1, <2>2, <3>1
  <2>4. /\ pc' \in [Callers -> {"idle", "mmap", "set_memory_uc", "set_fmap", "map", "oops"}]
        /\ req' \in [Callers -> Requests \union {NoBuf}] /\ cfg' \in [Callers -> Elems \union {NoBuf}]
        /\ pc'[t] \in {"idle", "oops"}
        /\ \A u \in Callers \ {t} : pc'[u] = pc[u] /\ req'[u] = req[u] /\ cfg'[u] = cfg[u]
    BY <1>9 DEF dma_common_mmap, xdma_mmap_garbage, Goto, Return
  <2>5. UNCHANGED <<xdma_setting, fmap, uncached, uc_failed, calls, raced, astray, boardVars>>
    BY <1>9 DEF dma_common_mmap, xdma_mmap_garbage
  <2>6. TypeOK'
    BY <2>3, <2>4, <2>5
  <2>7. CallsOK'
    BY <2>4
  <2> QED
    BY <2>6, <2>7
<1>10. ASSUME NEW t \in Callers, mmap_oops(t) PROVE Types'
  BY <1>10 DEF mmap_oops, Return
<1>11. ASSUME NEW m \in maps, xdma_unmap(m) PROVE Types'
  BY <1>11 DEF xdma_unmap
<1>12. CASE UNCHANGED vars
  BY <1>12 DEF vars
<1> QED
  BY <1>1, <1>2, <1>3, <1>4, <1>5, <1>6, <1>7, <1>8, <1>9, <1>10, <1>11, <1>12 DEF Next, board
-----------------------------------------------------------------------------
Started == {"bound", "freed", "gone"}

(* Only boards whose probe ended are known to fmap, calls and mappings, so *)
(* that the buffers a probe allocates are new to all of them.              *)
FreshInv ==
  /\ \A f \in fmap : life[f[1]] \in Started
  /\ \A t \in Callers : HasCfg(t) => life[req[t][1]] \in Started
  /\ \A m \in maps : m.got \in Elems => life[m.got[1]] \in Started

Tried == uncached \union uc_failed

(* fmap says that set_memory_uc() was called, and so does being past it.   *)
UncachedInv ==
  /\ \A f \in fmap : f \in alloc => f \in Tried
  /\ \A t \in Callers : pc[t] \in {"set_fmap", "map"} /\ cfg[t] \in alloc => cfg[t] \in Tried
  /\ \A m \in maps : m.got \in alloc => m.got \in Tried

(* Without a race, the global is that of the one call about to read it.    *)
KeptInv ==
  ~raced =>
    /\ \A t \in Callers : pc[t] = "mmap" /\ Admitted(req[t]) => xdma_setting = <<req[t][2], req[t][3]>>
    /\ \A t \in Callers : HasCfg(t) /\ req[t] \in Elems => cfg[t] = req[t]
    /\ \A m \in maps : m.req \in Elems => m.got = m.req

(* Each buffer of a board that is listed or bound was allocated, or not.   *)
AllocInv == \A f \in Bufs : life[f[1]] \in {"listed", "bound"} => f \in alloc \union no_mem

(* As long as everybody asks for channels with a buffer, everybody gets one*)
BackedInv ==
  ~astray =>
    /\ \A t \in Callers : pc[t] = "mmap" => xdma_setting \in Backed
    /\ \A t \in Callers : HasCfg(t) => cfg[t] \in Bufs
    /\ \A m \in maps : m.got \in Bufs

(* Used in order, every board in use is bound.                             *)
OrderlyInv ==
  orderly =>
    /\ \A t \in Callers : ~astray => pc[t] # "oops"
    /\ \A t \in Callers : InCall(t) => life[req[t][1]] = "bound"

Inv == Types /\ FreshInv /\ UncachedInv /\ KeptInv /\ AllocInv /\ BackedInv /\ OrderlyInv

LEMMA InitInv == Init => Inv
<1> SUFFICES ASSUME Init PROVE Inv
  OBVIOUS
<1>1. Types
  BY InitTypes
<1>2. FreshInv /\ UncachedInv /\ KeptInv /\ BackedInv /\ OrderlyInv
  BY DEF Init, FreshInv, UncachedInv, KeptInv, BackedInv, OrderlyInv, InCall, HasCfg
<1>3. AllocInv
  BY BufsAreElems, ElemParts DEF Init, AllocInv
<1> QED
  BY <1>1, <1>2, <1>3 DEF Inv
-----------------------------------------------------------------------------
(* One lemma per action; each disturbs few parts of Inv.                   *)
LEMMA ChannelInit ==
  ASSUME Inv, Types', NEW b \in Boards, channel_init(b)
  PROVE  Inv'
<1> USE DEF Inv, Types, TypeOK, CallsOK, InCall, HasCfg, callVars, boardVars, Started
<1>1. FreshInv' /\ KeptInv' /\ OrderlyInv' /\ BackedInv'
  BY DEF channel_init, FreshInv, KeptInv, OrderlyInv, BackedInv
<1>2. \A f \in alloc' : f \in alloc \/ f[1] = b
  BY DEF channel_init
<1>3. \A f \in alloc' : f \in Elems
  BY BufsAreElems
<1>4. UncachedInv'
  BY <1>2, <1>3 DEF channel_init, UncachedInv, FreshInv, Tried
<1>5. AllocInv'
  <2>1. \A f \in Bufs : f[1] \in Boards
    BY BufsAreElems, ElemParts
  <2>2. \A f \in Bufs : f[1] = b => f \in alloc' \union no_mem'
    BY DEF channel_init
  <2>3. alloc \subseteq alloc' /\ no_mem \subseteq no_mem'
    BY DEF channel_init
  <2> QED
    BY <2>1, <2>2, <2>3 DEF channel_init, AllocInv
<1> QED
  BY <1>1, <1>4, <1>5

LEMMA BoardMoves ==
  ASSUME Inv, Types', NEW b \in Boards, set_drvdata(b) \/ xpdev_free(b)
  PROVE  Inv'
<1> USE DEF Inv, Types, TypeOK, CallsOK, InCall, HasCfg, callVars, boardVars, Started
<1>1. /\ UNCHANGED <<callVars, alloc, no_mem, orderly>>
      /\ \A x \in Boards \ {b} : life'[x] = life[x]
      /\ \/ life[b] = "listed" /\ life'[b] = "bound"
         \/ life[b] = "freed" /\ life'[b] = "gone"
  BY DEF set_drvdata, xpdev_free
<1>2. KeptInv' /\ BackedInv'
  BY <1>1 DEF KeptInv, BackedInv, Admitted
<1>3. UncachedInv'
  BY <1>1 DEF UncachedInv, Tried
<1>4. \A f \in Elems : f[1] \in Boards
  BY ElemParts
<1>5. \A t \in Callers : InCall(t) => req[t][1] \in Boards
  BY RequestParts
<1>6. FreshInv'
  BY <1>1, <1>4, <1>5 DEF FreshInv
<1>7. OrderlyInv'
  BY <1>1, <1>5 DEF OrderlyInv
<1>8. AllocInv'
  BY <1>1, <1>4, BufsAreElems DEF AllocInv
<1> QED
  BY <1>2, <1>3, <1>6, <1>7, <1>8

(* Removal: the buffers of the board leave alloc, whatever becomes of their*)
(* page attributes; used in order, no call is left on it.                  *)
LEMMA FreePdata ==
  ASSUME Inv, Types', NEW b \in Boards, free_pdata(b)
  PROVE  Inv'
<1> USE DEF Inv, Types, TypeOK, CallsOK, InCall, HasCfg, callVars, boardVars, Started
<1>1. FreshInv' /\ KeptInv' /\ BackedInv'
  BY DEF free_pdata, FreshInv, KeptInv, BackedInv
<1>2. /\ \A f \in alloc' : f \in alloc /\ f[1] # b
      /\ \A f \in alloc' : f \in Tried => f \in Tried'
  BY DEF free_pdata, WrittenBack, Tried
<1>3. UncachedInv'
  BY <1>2 DEF free_pdata, UncachedInv
<1>4. AllocInv'
  BY BufsAreElems, ElemParts DEF free_pdata, AllocInv
<1>5. OrderlyInv'
  <2>1. orderly' => orderly /\ \A t \in Callers : InCall(t) => req[t][1] # b
    BY DEF free_pdata
  <2> QED
    BY <2>1 DEF free_pdata, OrderlyInv
<1> QED
  BY <1>1, <1>3, <1>4, <1>5
-----------------------------------------------------------------------------
LEMMA MmapSetting ==
  ASSUME Inv, Types', NEW t \in Callers, mmap_setting(t)
  PROVE  Inv'
<1> USE DEF Inv, Types, TypeOK, CallsOK, InCall, HasCfg, callVars, boardVars, Started
<1>1. PICK r \in Requests :
        /\ req' = [req EXCEPT ![t] = r]
        /\ xdma_setting' = IF Admitted(r) THEN <<r[2], r[3]>> ELSE xdma_setting
        /\ raced' = (raced \/ (Admitted(r) /\ \E u \in Callers : pc[u] = "mmap" /\ Admitted(req[u])))
        /\ orderly' = (orderly /\ life[r[1]] = "bound")
        /\ astray' = (astray \/ r \notin Bufs)
  BY DEF mmap_setting
<1>2. /\ pc' = [pc EXCEPT ![t] = "mmap"] /\ pc[t] = "idle"
      /\ UNCHANGED <<fmap, uncached, uc_failed, cfg, maps, life, alloc, no_mem>>
  BY DEF mmap_setting, Goto
<1>3. /\ req'[t] = r /\ pc'[t] = "mmap"
      /\ \A u \in Callers \ {t} : req'[u] = req[u] /\ pc'[u] = pc[u]
  BY <1>1, <1>2
<1>4. FreshInv' /\ UncachedInv' /\ AllocInv'
  BY <1>2, <1>3 DEF FreshInv, UncachedInv, AllocInv, Tried
<1>5. KeptInv'
  <2> SUFFICES ASSUME ~raced' PROVE KeptInv'
    BY DEF KeptInv
  <2>1. ~raced /\ (Admitted(r) => \A u \in Callers : pc[u] = "mmap" => ~Admitted(req[u]))
    BY <1>1
  <2>2. ASSUME NEW u \in Callers, pc'[u] = "mmap", Admitted(req'[u])
        PROVE  xdma_setting' = <<req'[u][2], req'[u][3]>>
    <3>1. CASE u = t
      BY <1>1, <1>3, <2>2, <3>1
    <3>2. CASE u # t
      BY <1>1, <1>3, <2>1, <2>2, <3>2 DEF KeptInv
    <3> QED
      BY <3>1, <3>2
  <2>3. \A u \in Callers : HasCfg(u)' /\ req'[u] \in Elems => cfg'[u] = req'[u]
    BY <1>2, <1>3, <2>1 DEF KeptInv
  <2> QED
    BY <1>2, <2>1, <2>2, <2>3 DEF KeptInv, Admitted
<1>6. BackedInv'
  <2> SUFFICES ASSUME ~astray' PROVE BackedInv'
    BY DEF BackedInv
  <2>1. ~astray /\ r \in Bufs
    BY <1>1
  <2>2. Admitted(r) /\ <<r[2], r[3]>> \in Backed
    BY <2>1, BufsAreElems, ElemParts
  <2>3. xdma_setting' \in Backed
    BY <1>1, <2>2
  <2> QED
    BY <1>2, <1>3, <2>1, <2>3 DEF BackedInv
<1>7. OrderlyInv'
  <2> SUFFICES ASSUME orderly' PROVE OrderlyInv'
    BY DEF OrderlyInv
  <2>1. orderly /\ life[r[1]] = "bound" /\ (~astray' => ~astray)
    BY <1>1
  <2> QED
    BY <1>2, <1>3, <2>1 DEF OrderlyInv
<1> QED
  BY <1>4, <1>5, <1>6, <1>7

LEMMA XdmaMmapStep ==
  ASSUME Inv, Types', NEW t \in Callers, xdma_mmap(t)
  PROVE  Inv'
<1> USE DEF Inv, Types, TypeOK, CallsOK, InCall, HasCfg, callVars, boardVars, Started
<1> DEFINE c == get_xdma_cfg(req[t][1], xdma_setting)
<1>1. req[t] \in Requests /\ req[t][1] \in Boards
  BY RequestParts DEF xdma_mmap
<1>2. /\ pc[t] = "mmap" /\ life[req[t][1]] \in {"bound", "freed"} /\ c # NoBuf
      /\ cfg' = [cfg EXCEPT ![t] = c]
      /\ pc' = [pc EXCEPT ![t] = IF c \in fmap THEN "map" ELSE "set_memory_uc"]
      /\ UNCHANGED <<xdma_setting, fmap, uncached, uc_failed, req, maps, raced, astray, boardVars>>
  BY DEF xdma_mmap, Goto, Reaches
<1>3. /\ c \in Elems /\ c[1] = req[t][1]
      /\ xdma_setting \in Channels => c = <<req[t][1], xdma_setting[1], xdma_setting[2]>>
      /\ xdma_setting \in Backed => c \in Bufs
  BY <1>1, <1>2, CfgIsElem
<1> HIDE DEF c
<1>4. /\ cfg'[t] = c /\ pc'[t] = IF c \in fmap THEN "map" ELSE "set_memory_uc"
      /\ \A u \in Callers \ {t} : cfg'[u] = cfg[u] /\ pc'[u] = pc[u]
  BY <1>2
<1>5. FreshInv' /\ AllocInv' /\ OrderlyInv'
  BY <1>2, <1>4 DEF FreshInv, AllocInv, OrderlyInv
<1>6. UncachedInv'
  BY <1>2, <1>4 DEF UncachedInv, Tried
<1>7. KeptInv'
  <2> SUFFICES ASSUME ~raced PROVE KeptInv'
    BY <1>2 DEF KeptInv
  <2>1. ASSUME req[t] \in Elems PROVE c = req[t]
    <3>1. Admitted(req[t]) /\ <<req[t][2], req[t][3]>> \in Channels
      BY <2>1, ElemParts
    <3>2. xdma_setting = <<req[t][2], req[t][3]>>
      BY <1>2, <3>1 DEF KeptInv
    <3>3. req[t] = <<req[t][1], req[t][2], req[t][3]>>
      BY <2>1, ElemParts
    <3> QED
      BY <1>3, <3>1, <3>2, <3>3
  <2>2. \A u \in Callers : HasCfg(u)' /\ req'[u] \in Elems => cfg'[u] = req'[u]
    BY <1>2, <1>4, <2>1 DEF KeptInv
  <2>3. \A u \in Callers : pc'[u] = "mmap" => pc[u] = "mmap" /\ req'[u] = req[u]
    BY <1>2, <1>4
  <2> QED
    BY <1>2, <2>2, <2>3 DEF KeptInv, Admitted
<1>8. BackedInv'
  BY <1>2, <1>3, <1>4 DEF BackedInv
<1> QED
  BY <1>5, <1>6, <1>7, <1>8

LEMMA SetMemoryUc ==
  ASSUME Inv, Types', NEW t \in Callers, set_memory_uc(t) \/ set_fmap(t)
  PROVE  Inv'
<1> USE DEF Inv, Types, TypeOK, CallsOK, InCall, HasCfg, callVars, boardVars, Started
<1>1. /\ pc[t] \in {"set_memory_uc", "set_fmap"} /\ pc' = [pc EXCEPT ![t] = pc'[t]]
      /\ pc'[t] \in {"set_fmap", "map"}
      /\ Tried \subseteq Tried' /\ cfg[t] \in Tried' \union (Elems \ alloc) /\ fmap \subseteq fmap'
      /\ \A f \in fmap' : f \in fmap \/ f = cfg[t]
      /\ UNCHANGED <<xdma_setting, req, cfg, maps, raced, astray, boardVars>>
      /\ life[req[t][1]] \in {"bound", "freed"} /\ cfg[t] \in Elems /\ cfg[t][1] = req[t][1]
  BY DEF set_memory_uc, set_fmap, Goto, Reaches, Tried, UncachedInv
<1>2. \A u \in Callers : u # t => pc'[u] = pc[u]
  BY <1>1
<1>3. FreshInv' /\ AllocInv' /\ OrderlyInv'
  BY <1>1, <1>2 DEF FreshInv, AllocInv, OrderlyInv
<1>4. UncachedInv'
  BY <1>1, <1>2 DEF UncachedInv
<1>5. KeptInv' /\ BackedInv'
  BY <1>1, <1>2 DEF KeptInv, BackedInv, Admitted
<1> QED
  BY <1>3, <1>4, <1>5

(* The end of a call, with a new mapping or without.                       *)
LEMMA CallEnds ==
  ASSUME Inv, Types', NEW t \in Callers,
         dma_common_mmap(t) \/ xdma_mmap_garbage(t) \/ mmap_oops(t)
  PROVE  Inv'
<1> USE DEF Inv, Types, TypeOK, CallsOK, InCall, HasCfg, callVars, boardVars, Started
<1>1. /\ InCall(t) /\ pc'[t] \in {"idle", "oops"}
      /\ \A u \in Callers \ {t} : pc'[u] = pc[u] /\ req'[u] = req[u] /\ cfg'[u] = cfg[u]
      /\ UNCHANGED <<xdma_setting, fmap, uncached, uc_failed, raced, astray, boardVars>>
  BY DEF dma_common_mmap, xdma_mmap_garbage, mmap_oops, Goto, Return
<1>2. ASSUME NEW m \in maps', m \notin maps
      PROVE  /\ m.req = req[t]
             /\ m.got \in Elems => life[m.got[1]] \in Started
             /\ m.got \in alloc => m.got \in Tried
             /\ ~raced /\ m.req \in Elems => m.got = m.req
             /\ ~astray => m.got \in Bufs
  <2>1. CASE dma_common_mmap(t)
    <3>1. m.req = req[t] /\ m.got = cfg[t] /\ pc[t] = "map"
      BY <1>2, <2>1 DEF dma_common_mmap, Goto
    <3> QED
      BY <3>1 DEF FreshInv, UncachedInv, KeptInv, BackedInv
  <2>2. CASE xdma_mmap_garbage(t)
    <3>1. /\ m.req = req[t] /\ m.got = NoBuf /\ pc[t] = "mmap" /\ req[t] \in Requests
          /\ get_xdma_cfg(req[t][1], xdma_setting) = NoBuf
      BY <1>2, <2>2 DEF xdma_mmap_garbage
    <3>2. req[t][1] \in Boards
      BY <3>1, RequestParts
    <3>3. xdma_setting \notin Channels /\ xdma_setting \notin Backed
      <4>1. xdma_setting \in Channels => <<req[t][1], xdma_setting[1], xdma_setting[2]>> \in Elems
        BY <3>2, ElemOf
      <4>2. xdma_setting \in {H2C_DIR, C2H_DIR} \X Nat
        OBVIOUS
      <4>3. Backed \subseteq Channels
        BY DEF Backed, Channels
      <4>4. xdma_setting \notin Channels
        <5>1. xdma_setting \in Channels =>
                get_xdma_cfg(req[t][1], xdma_setting) = <<req[t][1], xdma_setting[1], xdma_setting[2]>>
          BY <3>2, <4>2, CfgIsElem
        <5> QED
          BY <3>1, <4>1, <5>1, NoBufAssumption
      <4> QED
        BY <4>3, <4>4
    <3>4. m.got \notin Elems /\ m.got \notin alloc
      BY <3>1, NoBufAssumption, BufsAreElems
    <3>5. ~raced => req[t] \notin Elems
      BY <3>1, <3>3, ElemParts DEF KeptInv
    <3>6. astray
      BY <3>1, <3>3 DEF BackedInv
    <3> QED
      BY <3>1, <3>4, <3>5, <3>6
  <2>3. CASE mmap_oops(t)
    BY <1>2, <2>3 DEF mmap_oops
  <2> QED
    BY <2>1, <2>2, <2>3
<1>3. FreshInv' /\ AllocInv'
  BY <1>1, <1>2 DEF FreshInv, AllocInv
<1>4. UncachedInv'
  BY <1>1, <1>2 DEF UncachedInv, Tried
<1>5. KeptInv' /\ BackedInv'
  BY <1>1, <1>2 DEF KeptInv, BackedInv, Admitted
<1>6. OrderlyInv'
  <2>1. ASSUME orderly, ~astray PROVE pc'[t] # "oops"
    <3>1. CASE dma_common_mmap(t)
      BY <3>1 DEF dma_common_mmap, Goto
    <3>2. CASE xdma_mmap_garbage(t)
      <4>1. /\ pc[t] = "mmap" /\ req[t] \in Requests
            /\ get_xdma_cfg(req[t][1], xdma_setting) = NoBuf
        BY <3>2 DEF xdma_mmap_garbage
      <4>2. xdma_setting \in Backed /\ req[t][1] \in Boards
        BY <2>1, <4>1, RequestParts DEF BackedInv
      <4> QED
        BY <4>1, <4>2, CfgIsElem, NoBufAssumption, BufsAreElems
    <3>3. CASE mmap_oops(t)
      BY <1>1, <2>1, <3>3 DEF mmap_oops, Reaches, OrderlyInv
    <3> QED
      BY <3>1, <3>2, <3>3
  <2> QED
    BY <1>1, <2>1 DEF OrderlyInv
<1> QED
  BY <1>3, <1>4, <1>5, <1>6

LEMMA XdmaUnmap ==
  ASSUME Inv, Types', NEW m \in maps, xdma_unmap(m)
  PROVE  Inv'
  BY DEF xdma_unmap, Inv, Types, TypeOK, CallsOK, InCall, HasCfg, boardVars, FreshInv, OrderlyInv,
         KeptInv, UncachedInv, Tried, AllocInv, BackedInv

LEMMA StepInv == Inv /\ [Next]_vars => Inv'
<1> SUFFICES ASSUME Inv, [Next]_vars PROVE Inv'
  OBVIOUS
<1>1. Types'
  BY StepTypes DEF Inv
<1>2. CASE UNCHANGED vars
  BY <1>2 DEF vars, callVars, boardVars, Inv, Types, TypeOK, CallsOK, InCall, HasCfg, FreshInv,
              OrderlyInv, KeptInv, UncachedInv, Tried, AllocInv, BackedInv
<1>3. ASSUME NEW b \in Boards, board(b) PROVE Inv'
  BY <1>1, <1>3, ChannelInit, BoardMoves, FreePdata DEF board
<1>4. ASSUME NEW t \in Callers,
             \/ mmap_setting(t) \/ xdma_mmap(t) \/ set_memory_uc(t) \/ set_fmap(t)
             \/ dma_common_mmap(t) \/ xdma_mmap_garbage(t) \/ mmap_oops(t)
      PROVE Inv'
  BY <1>1, <1>4, MmapSetting, XdmaMmapStep, SetMemoryUc, CallEnds
<1>5. ASSUME NEW m \in maps, xdma_unmap(m) PROVE Inv'
  BY <1>1, <1>5, XdmaUnmap
<1> QED
  BY <1>2, <1>3, <1>4, <1>5 DEF Next

LEMMA SpecInv == Spec => []Inv
  BY InitInv, StepInv, PTL DEF Spec
-----------------------------------------------------------------------------
(* Only where set_memory_uc() itself failed does a process see a cached    *)
(* view of an allocated DMA buffer, for any number of processes that test  *)
(* and set xpdev->fmap without a lock, of boards and of removals meanwhile.*)
THEOREM UncachedTheorem == Spec => []MappedIsUncached
<1>1. Inv => MappedIsUncached
  BY DEF Inv, UncachedInv, MappedIsUncached, Tried
<1> QED
  BY <1>1, SpecInv, PTL

(* Calls that do not race between SETTING and mmap get the channel they    *)
(* asked for, if there is one of that number.                              *)
THEOREM RequestTheorem == Spec => []RequestKept
<1>1. Inv => RequestKept
  BY DEF Inv, KeptInv, RequestKept
<1> QED
  BY <1>1, SpecInv, PTL

(* A mapping is of an allocated buffer unless that allocation failed, the  *)
(* board was removed, or somebody asked for a channel without a buffer;    *)
(* and no mmap of a bound board ends in an oops before such a request.     *)
THEOREM AllocatedTheorem == Spec => []MappedIsAllocated
<1>1. Inv => MappedIsAllocated
  <2> SUFFICES ASSUME Inv PROVE MappedIsAllocated
    OBVIOUS
  <2>1. ASSUME NEW m \in maps, ~astray
        PROVE  \/ m.got \in alloc \union no_mem
               \/ m.got \in Elems /\ life[m.got[1]] \in {"freed", "gone"}
    <3>1. m.got \in Bufs /\ m.got \in Elems
      BY <2>1, BufsAreElems DEF Inv, BackedInv
    <3>2. life[m.got[1]] \in Started
      BY <3>1 DEF Inv, FreshInv
    <3> QED
      BY <3>1, <3>2 DEF Inv, AllocInv, Started
  <2>2. \A t \in Callers : orderly /\ ~astray => pc[t] # "oops"
    BY DEF Inv, OrderlyInv
  <2> QED
    BY <2>1, <2>2 DEF MappedIsAllocated
<1> QED
  BY <1>1, SpecInv, PTL
=============================================================================
