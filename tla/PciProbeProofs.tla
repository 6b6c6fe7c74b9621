--------------------------- MODULE PciProbeProofs ---------------------------
(***************************************************************************)
(* Resource safety of PciProbe for any number of devices, BARs, channels   *)
(* and board types, with probes running concurrently or not.               *)
(*                                                                         *)
(* The properties speak of a few labels each; what makes them inductive is *)
(* Shape(d), which says for every label of the probe, of its error ladder  *)
(* and of the remove what device d holds there and what its flags say.     *)
(***************************************************************************)
EXTENDS PciProbe, FiniteSetTheorems, TLAPS

(* Nothing is held but the enables left behind on purpose.                 *)
Bare(d) ==
  /\ kern[d].enabled = kern[d].refused /\ ~kern[d].regions /\ kern[d].iomap = {}
  /\ kern[d].data = {} /\ kern[d].desc = {} /\ ~kern[d].cdev /\ kern[d].node = NoName

(* Regions are owned, and so recorded; BARs and DMA memory agree.          *)
Owned(d) ==
  /\ mem[d] = {"xpdev", "xdev"}
  /\ kern[d].enabled = kern[d].refused + 1 /\ kern[d].regions
  /\ drv[d].got_regions /\ ~drv[d].regions_in_use
  /\ drv[d].bar = kern[d].iomap /\ drv[d].pData = kern[d].data /\ drv[d].desc = kern[d].desc

(* The device is mapped by a finished xdma_device_map().                   *)
Mapped(d) == Owned(d) /\ drv[d].xdev /\ kern[d].iomap = Present

NoDma(d) == kern[d].data = {} /\ kern[d].desc = {}
Hidden(d) == ~kern[d].cdev /\ kern[d].node = NoName

(* The BARs a map_bars() loop at index n has been through.                 *)
Below(n) == {b \in Present : b < n}

Acquiring(d) ==
  /\ pc[d] = "device_map" => Bare(d) /\ mem[d] = {"xpdev"} /\ drv[d] = ZeroDrv
  /\ pc[d] = "enable" => Bare(d) /\ mem[d] = {"xpdev", "xdev"} /\ drv[d] = ZeroDrv
  /\ pc[d] = "regions" =>
       /\ mem[d] = {"xpdev", "xdev"} /\ drv[d] = ZeroDrv
       /\ kern[d].enabled = kern[d].refused + 1 /\ ~kern[d].regions
       /\ kern[d].iomap = {} /\ NoDma(d) /\ Hidden(d)
  /\ pc[d] = "map_bars" =>
       /\ Owned(d) /\ NoDma(d) /\ Hidden(d) /\ ~drv[d].xdev /\ ~drv[d].CDEV_CTRL
       /\ idx[d] \in 0 .. BarNum /\ kern[d].iomap = Below(idx[d])
  /\ pc[d] \in {"dma_mask", "err_mask"} =>
       Owned(d) /\ NoDma(d) /\ Hidden(d) /\ ~drv[d].xdev /\ ~drv[d].CDEV_CTRL
                /\ kern[d].iomap = Present

Unwinding(d) ==
  /\ pc[d] = "err_map" =>
       Owned(d) /\ NoDma(d) /\ Hidden(d) /\ ~drv[d].xdev /\ kern[d].iomap = {}
  /\ pc[d] = "err_regions" =>
       /\ mem[d] = {"xpdev", "xdev"} /\ ~drv[d].xdev
       /\ ~kern[d].regions /\ kern[d].iomap = {} /\ NoDma(d) /\ Hidden(d)
       /\ kern[d].enabled = IF drv[d].regions_in_use THEN kern[d].refused ELSE kern[d].refused + 1
  /\ pc[d] = "free_xdev" => Bare(d) /\ mem[d] = {"xpdev", "xdev"} /\ ~drv[d].xdev
  /\ pc[d] = "err_out" => IF drv[d].xdev THEN Mapped(d) /\ NoDma(d) /\ Hidden(d)
                                         ELSE Bare(d) /\ mem[d] = {"xpdev"}

Publishing(d) ==
  /\ pc[d] \in {"create_cdev", "count", "name", "cdev_add"} =>
       Mapped(d) /\ NoDma(d) /\ Hidden(d) /\ ~drv[d].CDEV_CTRL
  /\ pc[d] = "sys_device" => Mapped(d) /\ NoDma(d) /\ kern[d].cdev /\ kern[d].node = NoName
  /\ pc[d] \in {"channel_init", "list_add", "set_drvdata", "bound"} =>
       Mapped(d) /\ kern[d].cdev /\ drv[d].CDEV_CTRL
  /\ pc[d] \in {"count", "name", "cdev_add", "sys_device"} => drv[d].type \in KnownTypes
  /\ pc[d] = "channel_init" => idx[d] >= 1

Removing(d) ==
  /\ pc[d] = "free_resource" => Mapped(d) /\ Hidden(d)
  /\ pc[d] = "xpdev_free" => Mapped(d) /\ NoDma(d) /\ Hidden(d)
  /\ pc[d] \in {"unbound", "list_del", "clear_drvdata"} => Bare(d) /\ mem[d] = {}

Linked(d) ==
  /\ d \in listed <=> pc[d] \in {"set_drvdata", "bound", "free_resource", "xpdev_free", "list_del"}
  /\ d \in drvdata <=> pc[d] \in {"bound", "free_resource", "xpdev_free", "list_del", "clear_drvdata"}

Shape(d) == Acquiring(d) /\ Unwinding(d) /\ Publishing(d) /\ Removing(d) /\ Linked(d)

Inv == TypeOK /\ \A d \in Devs : Shape(d)

(* A device whose components do not change keeps its shape.                *)
Same(e) ==
  /\ pc'[e] = pc[e] /\ idx'[e] = idx[e] /\ mem'[e] = mem[e] /\ drv'[e] = drv[e]
  /\ kern'[e] = kern[e] /\ (e \in listed' <=> e \in listed) /\ (e \in drvdata' <=> e \in drvdata)

LEMMA Frame == ASSUME NEW e \in Devs, Shape(e), Same(e) PROVE Shape(e)'
  BY DEF Same, Shape, Acquiring, Unwinding, Publishing, Removing, Linked, Bare, Owned, Mapped,
         NoDma, Hidden

LEMMA BufFields ==
  ASSUME NEW r \in DrvType, NEW k \in KernType
  PROVE  {r.pData, r.desc, k.data, k.desc} \subseteq SUBSET (1 .. ChanNum)
  BY DEF DrvType, KernType

LEMMA ConstantsTyped == ZeroDrv \in DrvType /\ OnlyEnabled(0) \in KernType /\ NoName \in Names
  BY PciAssumption DEF ZeroDrv, OnlyEnabled, DrvType, KernType, NoName, Types, Names

(* What map_bars() has mapped when it starts, goes on and ends.            *)
LEMMA BelowFacts ==
  /\ Below(0) = {} /\ Below(BarNum) = Present
  /\ \A n \in Nat : Below(n + 1) = IF n \in Present THEN Below(n) \union {n} ELSE Below(n)
<1>1. \A b \in Present : b \in Nat /\ b < BarNum
  BY PciAssumption
<1> QED
  BY <1>1 DEF Below

LEMMA InitInv == Init => Inv
<1> USE PciAssumption DEF Init
<1>1. Init => TypeOK
  BY ConstantsTyped DEF TypeOK, Labels, LeftType
<1>2. Init => \A d \in Devs : Shape(d)
  BY DEF Shape, Acquiring, Unwinding, Publishing, Removing, Linked, Bare, OnlyEnabled, Hidden, NoDma
<1> QED
  BY <1>1, <1>2 DEF Inv

(* One lemma per action: what it does to the components of d (<1>1), that  *)
(* types and the shape of d are kept, and that no other device is touched. *)
LEMMA Step_xpdev_alloc ==
  ASSUME TypeOK, NEW d \in Devs, Shape(d), xpdev_alloc(d)
  PROVE  TypeOK' /\ Shape(d)' /\ \A e \in Devs \ {d} : Same(e)
<1> USE PciAssumption
<1>1. kern[d] \in KernType /\ drv[d] \in DrvType
  BY DEF TypeOK
<1>2. /\ pc[d] = "unbound"
      /\ idx'[d] = idx[d] /\ kern'[d] = kern[d] /\ listed' = listed /\ drvdata' = drvdata
      /\ \/ pc'[d] = "device_map" /\ mem'[d] = mem[d] \union {"xpdev"} /\ drv'[d] = ZeroDrv
         \/ pc'[d] = "unbound" /\ mem'[d] = mem[d] /\ drv'[d] = drv[d]
  BY DEF TypeOK, xpdev_alloc, Goto
<1>3. drv'[d] \in DrvType
  BY <1>1, <1>2, ConstantsTyped
<1>4. TypeOK'
  BY <1>2, <1>3 DEF TypeOK, xpdev_alloc, Goto, Labels, ProbeLabels, RemoveLabels
<1>5. Shape(d)'
  BY <1>1, <1>2 DEF Shape, Acquiring, Unwinding, Publishing, Removing, Linked, Bare, Owned, Mapped,
     NoDma, Hidden, DrvType, ZeroDrv
<1>6. \A e \in Devs \ {d} : Same(e)
  BY DEF TypeOK, Same, xpdev_alloc, Goto
<1> QED
  BY <1>4, <1>5, <1>6

LEMMA Step_alloc_dev_instance ==
  ASSUME TypeOK, NEW d \in Devs, Shape(d), alloc_dev_instance(d)
  PROVE  TypeOK' /\ Shape(d)' /\ \A e \in Devs \ {d} : Same(e)
<1> USE PciAssumption
<1>1. kern[d] \in KernType /\ drv[d] \in DrvType
  BY DEF TypeOK
<1>2. /\ pc[d] = "device_map"
      /\ idx'[d] = idx[d] /\ drv'[d] = drv[d] /\ kern'[d] = kern[d] /\ listed' = listed
      /\ drvdata' = drvdata
      /\ \/ pc'[d] = "enable" /\ mem'[d] = mem[d] \union {"xdev"}
         \/ pc'[d] = "err_out" /\ mem'[d] = mem[d]
  BY DEF TypeOK, alloc_dev_instance, Goto
<1>3. TypeOK'
  BY <1>2 DEF TypeOK, alloc_dev_instance, Goto, Labels, ProbeLabels, RemoveLabels
<1>4. Shape(d)'
  BY <1>1, <1>2 DEF Shape, Acquiring, Unwinding, Publishing, Removing, Linked, Bare, Owned, Mapped,
     NoDma, Hidden, ZeroDrv
<1>5. \A e \in Devs \ {d} : Same(e)
  BY DEF TypeOK, Same, alloc_dev_instance, Goto
<1> QED
  BY <1>3, <1>4, <1>5

LEMMA Step_pci_enable_device ==
  ASSUME TypeOK, NEW d \in Devs, Shape(d), pci_enable_device(d)
  PROVE  TypeOK' /\ Shape(d)' /\ \A e \in Devs \ {d} : Same(e)
<1> USE PciAssumption
<1>1. kern[d] \in KernType /\ drv[d] \in DrvType
  BY DEF TypeOK
<1>2. /\ pc[d] = "enable"
      /\ idx'[d] = idx[d] /\ mem'[d] = mem[d] /\ drv'[d] = drv[d] /\ listed' = listed
      /\ drvdata' = drvdata
      /\ \/ pc'[d] = "regions" /\ kern'[d] = [kern[d] EXCEPT !.enabled = @ + 1]
         \/ pc'[d] = "free_xdev" /\ kern'[d] = kern[d]
  BY DEF TypeOK, pci_enable_device, Goto
<1>3. kern'[d] \in KernType
  BY <1>1, <1>2 DEF KernType
<1>4. TypeOK'
  BY <1>2, <1>3 DEF TypeOK, pci_enable_device, Goto, Labels, ProbeLabels, RemoveLabels
<1>5. Shape(d)'
  BY <1>1, <1>2 DEF Shape, Acquiring, Unwinding, Publishing, Removing, Linked, Bare, Owned, Mapped,
     NoDma, Hidden, KernType, ZeroDrv
<1>6. \A e \in Devs \ {d} : Same(e)
  BY DEF TypeOK, Same, pci_enable_device, Goto
<1> QED
  BY <1>4, <1>5, <1>6

LEMMA Step_request_regions ==
  ASSUME TypeOK, NEW d \in Devs, Shape(d), request_regions(d)
  PROVE  TypeOK' /\ Shape(d)' /\ \A e \in Devs \ {d} : Same(e)
<1> USE PciAssumption
<1>1. kern[d] \in KernType /\ drv[d] \in DrvType
  BY DEF TypeOK
<1>2. /\ pc[d] = "regions"
      /\ mem'[d] = mem[d] /\ listed' = listed /\ drvdata' = drvdata
      /\ \/ /\ pc'[d] = "map_bars" /\ idx'[d] = 0
            /\ drv'[d] = [drv[d] EXCEPT !.got_regions = TRUE]
            /\ kern'[d] = [kern[d] EXCEPT !.regions = TRUE]
         \/ /\ pc'[d] = "err_regions"
            /\ drv'[d] = [drv[d] EXCEPT !.regions_in_use = TRUE]
            /\ kern'[d] = [kern[d] EXCEPT !.refused = @ + 1]
  BY DEF TypeOK, request_regions, Goto
<1>3. drv'[d] \in DrvType
  BY <1>1, <1>2 DEF DrvType
<1>4. kern'[d] \in KernType
  <2>1. CASE kern'[d] = [kern[d] EXCEPT !.regions = TRUE]
    BY <1>1, <2>1 DEF KernType
  <2>2. CASE kern'[d] = [kern[d] EXCEPT !.refused = @ + 1]
    BY <1>1, <2>2 DEF KernType
  <2> QED
    BY <1>2, <2>1, <2>2
<1>5. TypeOK'
  BY <1>2, <1>3, <1>4 DEF TypeOK, request_regions, Goto, Labels, ProbeLabels, RemoveLabels
<1>6. Shape(d)'
  <2>1. /\ mem[d] = {"xpdev", "xdev"} /\ drv[d] = ZeroDrv /\ d \notin listed /\ d \notin drvdata
        /\ kern[d].enabled = kern[d].refused + 1 /\ ~kern[d].regions
        /\ kern[d].iomap = {} /\ NoDma(d) /\ Hidden(d)
    BY <1>2 DEF Shape, Acquiring, Linked
  <2>2. CASE pc'[d] = "map_bars"
    <3>1. /\ idx'[d] = 0
          /\ drv'[d].got_regions /\ ~drv'[d].regions_in_use /\ ~drv'[d].xdev /\ ~drv'[d].CDEV_CTRL
          /\ drv'[d].bar = {} /\ drv'[d].pData = {} /\ drv'[d].desc = {}
      BY <1>2, <2>1, <2>2 DEF ZeroDrv
    <3>2. /\ kern'[d].regions /\ kern'[d].enabled = kern'[d].refused + 1
          /\ kern'[d].iomap = {} /\ NoDma(d)' /\ Hidden(d)'
      BY <1>1, <1>2, <2>1, <2>2 DEF KernType, NoDma, Hidden
    <3> QED
      BY <1>2, <2>1, <2>2, <3>1, <3>2, BelowFacts
      DEF Shape, Acquiring, Unwinding, Publishing, Removing, Linked, Owned, NoDma
  <2>3. CASE pc'[d] = "err_regions"
    <3>1. drv'[d].regions_in_use /\ ~drv'[d].xdev
      BY <1>2, <2>1, <2>3 DEF ZeroDrv
    <3>2. /\ ~kern'[d].regions /\ kern'[d].enabled = kern'[d].refused
          /\ kern'[d].iomap = {} /\ NoDma(d)' /\ Hidden(d)'
      BY <1>1, <1>2, <2>1, <2>3 DEF KernType, NoDma, Hidden
    <3> QED
      BY <1>2, <2>1, <2>3, <3>1, <3>2
      DEF Shape, Acquiring, Unwinding, Publishing, Removing, Linked
  <2> QED
    BY <1>2, <2>2, <2>3
<1>7. \A e \in Devs \ {d} : Same(e)
  BY DEF TypeOK, Same, request_regions, Goto
<1> QED
  BY <1>5, <1>6, <1>7

LEMMA Step_map_single_bar ==
  ASSUME TypeOK, NEW d \in Devs, Shape(d), map_single_bar(d)
  PROVE  TypeOK' /\ Shape(d)' /\ \A e \in Devs \ {d} : Same(e)
<1> USE PciAssumption
<1>1. kern[d] \in KernType /\ drv[d] \in DrvType
  BY DEF TypeOK
<1>2. /\ pc[d] = "map_bars"
      /\ mem'[d] = mem[d] /\ listed' = listed /\ drvdata' = drvdata
      /\ idx[d] < BarNum
      /\ \/ /\ pc'[d] = "map_bars" /\ idx'[d] = idx[d] + 1 /\ idx[d] \in Present
            /\ drv'[d] = [drv[d] EXCEPT !.bar = @ \union {idx[d]}]
            /\ kern'[d] = [kern[d] EXCEPT !.iomap = @ \union {idx[d]}]
         \/ /\ pc'[d] = "map_bars" /\ idx'[d] = idx[d] + 1 /\ idx[d] \notin Present
            /\ drv'[d] = drv[d] /\ kern'[d] = kern[d]
         \/ /\ pc'[d] = "err_map"
            /\ drv'[d] = [drv[d] EXCEPT !.bar = {}]
            /\ kern'[d] = [kern[d] EXCEPT !.iomap = @ \ drv[d].bar]
  BY DEF TypeOK, map_single_bar, Goto, unmap_bars
<1>3. drv'[d] \in DrvType
  BY <1>1, <1>2 DEF DrvType, Acquiring, Shape
<1>4. kern'[d] \in KernType
  BY <1>1, <1>2 DEF KernType, Acquiring, Shape
<1>5. TypeOK'
  BY <1>2, <1>3, <1>4 DEF TypeOK, map_single_bar, Goto, Labels, ProbeLabels, RemoveLabels, unmap_bars
<1>6. Shape(d)'
  <2>1. /\ Owned(d) /\ NoDma(d) /\ Hidden(d) /\ ~drv[d].xdev /\ ~drv[d].CDEV_CTRL
        /\ idx[d] \in 0 .. BarNum /\ kern[d].iomap = Below(idx[d]) /\ idx[d] < BarNum
        /\ d \notin listed /\ d \notin drvdata
    BY <1>2 DEF Shape, Acquiring, Linked
  <2>2. Below(idx[d] + 1) = IF idx[d] \in Present THEN Below(idx[d]) \union {idx[d]} ELSE Below(idx[d])
    <3>1. idx[d] \in Nat
      BY DEF TypeOK
    <3> QED
      BY <3>1, BelowFacts
  <2>3. CASE pc'[d] = "map_bars" /\ idx[d] \in Present
    <3>1. /\ drv'[d] = [drv[d] EXCEPT !.bar = @ \union {idx[d]}]
          /\ kern'[d] = [kern[d] EXCEPT !.iomap = @ \union {idx[d]}]
          /\ idx'[d] = idx[d] + 1 /\ mem'[d] = mem[d]
      BY <1>2, <2>3
    <3>2. /\ drv'[d].bar = drv[d].bar \union {idx[d]} /\ drv'[d].pData = drv[d].pData
          /\ drv'[d].desc = drv[d].desc /\ drv'[d].got_regions /\ ~drv'[d].regions_in_use
          /\ ~drv'[d].xdev /\ ~drv'[d].CDEV_CTRL
      BY <1>1, <2>1, <3>1 DEF Owned, DrvType
    <3>3. /\ kern'[d].enabled = kern'[d].refused + 1 /\ kern'[d].regions
          /\ kern'[d].iomap = kern[d].iomap \union {idx[d]}
          /\ kern'[d].data = kern[d].data /\ kern'[d].desc = kern[d].desc
          /\ NoDma(d)' /\ Hidden(d)'
      BY <1>1, <2>1, <3>1 DEF Owned, KernType, NoDma, Hidden
    <3>4. Owned(d)'
      BY <2>1, <3>1, <3>2, <3>3 DEF Owned
    <3>5. kern'[d].iomap = Below(idx'[d]) /\ idx'[d] \in 0 .. BarNum
      BY <1>1, <2>1, <2>2, <2>3, <3>1 DEF KernType
    <3> QED
      BY <1>2, <2>1, <2>3, <3>2, <3>5, <3>3, <3>4
      DEF Shape, Acquiring, Unwinding, Publishing, Removing, Linked
  <2>4. CASE pc'[d] = "map_bars" /\ idx[d] \notin Present
    <3>1. /\ drv'[d] = drv[d] /\ kern'[d] = kern[d]
          /\ idx'[d] = idx[d] + 1 /\ mem'[d] = mem[d]
      BY <1>2, <2>4
    <3>2. kern'[d].iomap = Below(idx'[d]) /\ idx'[d] \in 0 .. BarNum
      BY <2>1, <2>2, <2>4, <3>1
    <3> QED
      BY <1>2, <2>1, <2>4, <3>1, <3>2
      DEF Shape, Acquiring, Unwinding, Publishing, Removing, Linked, Owned, NoDma, Hidden
  <2>5. CASE pc'[d] = "err_map"
    <3>1. /\ drv'[d] = [drv[d] EXCEPT !.bar = {}]
          /\ kern'[d] = [kern[d] EXCEPT !.iomap = @ \ drv[d].bar] /\ mem'[d] = mem[d]
      BY <1>2, <2>5
    <3>2. Owned(d)' /\ NoDma(d)' /\ Hidden(d)' /\ ~drv'[d].xdev /\ kern'[d].iomap = {}
      BY <1>1, <2>1, <3>1 DEF Owned, NoDma, Hidden, DrvType, KernType
    <3> QED
      BY <1>2, <2>1, <2>5, <3>2 DEF Shape, Acquiring, Unwinding, Publishing, Removing, Linked
  <2> QED
    BY <1>2, <2>3, <2>4, <2>5
<1>7. \A e \in Devs \ {d} : Same(e)
  BY DEF TypeOK, Same, map_single_bar, Goto, unmap_bars
<1> QED
  BY <1>5, <1>6, <1>7

LEMMA Step_map_bars_done ==
  ASSUME TypeOK, NEW d \in Devs, Shape(d), map_bars_done(d)
  PROVE  TypeOK' /\ Shape(d)' /\ \A e \in Devs \ {d} : Same(e)
<1> USE PciAssumption
<1>1. kern[d] \in KernType /\ drv[d] \in DrvType
  BY DEF TypeOK
<1>2. /\ pc[d] = "map_bars"
      /\ idx'[d] = idx[d] /\ mem'[d] = mem[d] /\ drv'[d] = drv[d] /\ kern'[d] = kern[d]
      /\ listed' = listed /\ drvdata' = drvdata
      /\ pc'[d] = "dma_mask" /\ idx[d] = BarNum
  BY DEF TypeOK, map_bars_done, Goto
<1>3. TypeOK'
  BY <1>2 DEF TypeOK, map_bars_done, Goto, Labels, ProbeLabels, RemoveLabels
<1>4. Shape(d)'
  BY <1>1, <1>2, BelowFacts DEF Shape, Acquiring, Unwinding, Publishing, Removing, Linked, Bare, Owned, Mapped,
     NoDma, Hidden
<1>5. \A e \in Devs \ {d} : Same(e)
  BY DEF TypeOK, Same, map_bars_done, Goto
<1> QED
  BY <1>3, <1>4, <1>5

LEMMA Step_set_dma_mask ==
  ASSUME TypeOK, NEW d \in Devs, Shape(d), set_dma_mask(d)
  PROVE  TypeOK' /\ Shape(d)' /\ \A e \in Devs \ {d} : Same(e)
<1> USE PciAssumption
<1>1. kern[d] \in KernType /\ drv[d] \in DrvType
  BY DEF TypeOK
<1>2. /\ pc[d] = "dma_mask"
      /\ idx'[d] = idx[d] /\ mem'[d] = mem[d] /\ kern'[d] = kern[d] /\ listed' = listed
      /\ drvdata' = drvdata
      /\ \/ pc'[d] = "create_cdev" /\ drv'[d] = [drv[d] EXCEPT !.xdev = TRUE]
         \/ pc'[d] = "err_mask" /\ drv'[d] = drv[d]
  BY DEF TypeOK, set_dma_mask, Goto
<1>3. drv'[d] \in DrvType
  BY <1>1, <1>2 DEF DrvType
<1>4. TypeOK'
  BY <1>2, <1>3 DEF TypeOK, set_dma_mask, Goto, Labels, ProbeLabels, RemoveLabels
<1>5. Shape(d)'
  BY <1>1, <1>2 DEF Shape, Acquiring, Unwinding, Publishing, Removing, Linked, Bare, Owned, Mapped,
     NoDma, Hidden, DrvType
<1>6. \A e \in Devs \ {d} : Same(e)
  BY DEF TypeOK, Same, set_dma_mask, Goto
<1> QED
  BY <1>4, <1>5, <1>6

LEMMA Step_err_mask ==
  ASSUME TypeOK, NEW d \in Devs, Shape(d), err_mask(d)
  PROVE  TypeOK' /\ Shape(d)' /\ \A e \in Devs \ {d} : Same(e)
<1> USE PciAssumption
<1>1. kern[d] \in KernType /\ drv[d] \in DrvType
  BY DEF TypeOK
<1>2. /\ pc[d] = "err_mask"
      /\ idx'[d] = idx[d] /\ mem'[d] = mem[d] /\ listed' = listed /\ drvdata' = drvdata
      /\ pc'[d] = "err_map"
      /\ drv'[d] = [drv[d] EXCEPT !.bar = {}]
      /\ kern'[d] = [kern[d] EXCEPT !.iomap = @ \ drv[d].bar]
  BY DEF TypeOK, err_mask, Goto, unmap_bars
<1>3. drv'[d] \in DrvType
  BY <1>1, <1>2 DEF DrvType
<1>4. kern'[d] \in KernType
  BY <1>1, <1>2 DEF KernType
<1>5. TypeOK'
  BY <1>2, <1>3, <1>4 DEF TypeOK, err_mask, Goto, Labels, ProbeLabels, RemoveLabels, unmap_bars
<1>6. Shape(d)'
  BY <1>1, <1>2 DEF Shape, Acquiring, Unwinding, Publishing, Removing, Linked, Bare, Owned, Mapped,
     NoDma, Hidden, DrvType, KernType
<1>7. \A e \in Devs \ {d} : Same(e)
  BY DEF TypeOK, Same, err_mask, Goto, unmap_bars
<1> QED
  BY <1>5, <1>6, <1>7

LEMMA Step_err_map ==
  ASSUME TypeOK, NEW d \in Devs, Shape(d), err_map(d)
  PROVE  TypeOK' /\ Shape(d)' /\ \A e \in Devs \ {d} : Same(e)
<1> USE PciAssumption
<1>1. kern[d] \in KernType /\ drv[d] \in DrvType
  BY DEF TypeOK
<1>2. /\ pc[d] = "err_map"
      /\ idx'[d] = idx[d] /\ mem'[d] = mem[d] /\ drv'[d] = drv[d] /\ listed' = listed
      /\ drvdata' = drvdata
      /\ pc'[d] = "err_regions"
      /\ kern'[d] = IF drv[d].got_regions THEN [kern[d] EXCEPT !.regions = FALSE] ELSE kern[d]
  BY DEF TypeOK, err_map, Goto
<1>3. kern'[d] \in KernType
  BY <1>1, <1>2 DEF KernType
<1>4. TypeOK'
  BY <1>2, <1>3 DEF TypeOK, err_map, Goto, Labels, ProbeLabels, RemoveLabels
<1>5. Shape(d)'
  BY <1>1, <1>2 DEF Shape, Acquiring, Unwinding, Publishing, Removing, Linked, Bare, Owned, Mapped,
     NoDma, Hidden, KernType
<1>6. \A e \in Devs \ {d} : Same(e)
  BY DEF TypeOK, Same, err_map, Goto
<1> QED
  BY <1>4, <1>5, <1>6

LEMMA Step_err_regions ==
  ASSUME TypeOK, NEW d \in Devs, Shape(d), err_regions(d)
  PROVE  TypeOK' /\ Shape(d)' /\ \A e \in Devs \ {d} : Same(e)
<1> USE PciAssumption
<1>1. kern[d] \in KernType /\ drv[d] \in DrvType
  BY DEF TypeOK
<1>2. /\ pc[d] = "err_regions"
      /\ idx'[d] = idx[d] /\ mem'[d] = mem[d] /\ drv'[d] = drv[d] /\ listed' = listed
      /\ drvdata' = drvdata
      /\ pc'[d] = "free_xdev"
      /\ kern'[d] = IF drv[d].regions_in_use THEN kern[d] ELSE [kern[d] EXCEPT !.enabled = @ - 1]
  BY DEF TypeOK, err_regions, Goto
<1>3. kern'[d] \in KernType
  BY <1>1, <1>2 DEF KernType
<1>4. TypeOK'
  BY <1>2, <1>3 DEF TypeOK, err_regions, Goto, Labels, ProbeLabels, RemoveLabels
<1>5. Shape(d)'
  BY <1>1, <1>2 DEF Shape, Acquiring, Unwinding, Publishing, Removing, Linked, Bare, Owned, Mapped,
     NoDma, Hidden, KernType
<1>6. \A e \in Devs \ {d} : Same(e)
  BY DEF TypeOK, Same, err_regions, Goto
<1> QED
  BY <1>4, <1>5, <1>6

LEMMA Step_free_xdev ==
  ASSUME TypeOK, NEW d \in Devs, Shape(d), free_xdev(d)
  PROVE  TypeOK' /\ Shape(d)' /\ \A e \in Devs \ {d} : Same(e)
<1> USE PciAssumption
<1>1. kern[d] \in KernType /\ drv[d] \in DrvType
  BY DEF TypeOK
<1>2. /\ pc[d] = "free_xdev"
      /\ idx'[d] = idx[d] /\ drv'[d] = drv[d] /\ kern'[d] = kern[d] /\ listed' = listed
      /\ drvdata' = drvdata
      /\ pc'[d] = "err_out" /\ mem'[d] = mem[d] \ {"xdev"}
  BY DEF TypeOK, free_xdev, Goto
<1>3. TypeOK'
  BY <1>2 DEF TypeOK, free_xdev, Goto, Labels, ProbeLabels, RemoveLabels
<1>4. Shape(d)'
  BY <1>1, <1>2 DEF Shape, Acquiring, Unwinding, Publishing, Removing, Linked, Bare, Owned, Mapped,
     NoDma, Hidden
<1>5. \A e \in Devs \ {d} : Same(e)
  BY DEF TypeOK, Same, free_xdev, Goto
<1> QED
  BY <1>3, <1>4, <1>5

LEMMA Step_err_out ==
  ASSUME TypeOK, NEW d \in Devs, Shape(d), err_out(d)
  PROVE  TypeOK' /\ Shape(d)' /\ \A e \in Devs \ {d} : Same(e)
<1> USE PciAssumption
<1>1. kern[d] \in KernType /\ drv[d] \in DrvType
  BY DEF TypeOK
<1>2. /\ pc[d] = "err_out"
      /\ idx'[d] = idx[d] /\ listed' = listed /\ drvdata' = drvdata
      /\ pc'[d] = "unbound"
      /\ mem'[d] = IF drv[d].xdev THEN {} ELSE mem[d] \ {"xpdev"}
      /\ drv'[d] = ZeroDrv
      /\ kern'[d] = IF drv[d].xdev
                   THEN [kern[d] EXCEPT !.iomap = @ \ drv[d].bar,
                                        !.regions = @ /\ ~drv[d].got_regions,
                                        !.enabled = IF drv[d].regions_in_use THEN @ ELSE @ - 1]
                   ELSE kern[d]
  BY DEF TypeOK, err_out, Goto, xpdev_free
<1>3. drv'[d] \in DrvType
  BY <1>1, <1>2, ConstantsTyped
<1>4. kern'[d] \in KernType
  <2>1. CASE drv[d].xdev
    <3>1. kern[d].iomap \ drv[d].bar \in SUBSET (0 .. BarNum - 1)
      BY <1>1 DEF KernType
    <3>2. (kern[d].regions /\ ~drv[d].got_regions) \in BOOLEAN
      OBVIOUS
    <3>3. (IF drv[d].regions_in_use THEN kern[d].enabled ELSE kern[d].enabled - 1) \in Int
      BY <1>1 DEF KernType
    <3> QED
      BY <1>1, <1>2, <2>1, <3>1, <3>2, <3>3 DEF KernType
  <2>2. CASE ~drv[d].xdev
    BY <1>1, <1>2, <2>2
  <2> QED
    BY <2>1, <2>2
<1>5. TypeOK'
  BY <1>2, <1>3, <1>4 DEF TypeOK, err_out, Goto, Labels, ProbeLabels, RemoveLabels, xpdev_free
<1>6. Shape(d)'
  BY <1>1, <1>2 DEF Shape, Acquiring, Unwinding, Publishing, Removing, Linked, Bare, Owned, Mapped,
     NoDma, Hidden, DrvType, KernType, ZeroDrv
<1>7. \A e \in Devs \ {d} : Same(e)
  BY DEF TypeOK, Same, err_out, Goto, xpdev_free
<1> QED
  BY <1>5, <1>6, <1>7

LEMMA Step_create_cdev ==
  ASSUME TypeOK, NEW d \in Devs, Shape(d), create_cdev(d)
  PROVE  TypeOK' /\ Shape(d)' /\ \A e \in Devs \ {d} : Same(e)
<1> USE PciAssumption
<1>1. kern[d] \in KernType /\ drv[d] \in DrvType
  BY DEF TypeOK
<1>2. /\ pc[d] = "create_cdev"
      /\ idx'[d] = idx[d] /\ mem'[d] = mem[d] /\ kern'[d] = kern[d] /\ listed' = listed
      /\ drvdata' = drvdata
      /\ \E t \in Types :
           /\ drv'[d] = [drv[d] EXCEPT !.type = t, !.inst = IF t \in KnownTypes THEN count[t] ELSE @]
           /\ pc'[d] = IF t \in KnownTypes THEN "count" ELSE "err_out"
  BY DEF TypeOK, create_cdev, Goto
<1>3. drv'[d] \in DrvType
  <2>1. PICK t \in Types :
          drv'[d] = [drv[d] EXCEPT !.type = t, !.inst = IF t \in KnownTypes THEN count[t] ELSE @]
    BY <1>2
  <2>2. drv[d].inst \in Nat /\ \A k \in KnownTypes : count[k] \in Nat
    BY <1>1 DEF DrvType, TypeOK
  <2>3. PICK n \in Nat : drv'[d] = [drv[d] EXCEPT !.type = t, !.inst = n]
    BY <2>1, <2>2
  <2> QED
    BY <1>1, <2>3 DEF DrvType
<1>4. TypeOK'
  BY <1>2, <1>3 DEF TypeOK, create_cdev, Goto, Labels, ProbeLabels, RemoveLabels
<1>5. Shape(d)'
  BY <1>1, <1>2 DEF Shape, Acquiring, Unwinding, Publishing, Removing, Linked, Bare, Owned, Mapped,
     NoDma, Hidden, DrvType, Types
<1>6. \A e \in Devs \ {d} : Same(e)
  BY DEF TypeOK, Same, create_cdev, Goto
<1> QED
  BY <1>4, <1>5, <1>6

LEMMA Step_count_store ==
  ASSUME TypeOK, NEW d \in Devs, Shape(d), count_store(d)
  PROVE  TypeOK' /\ Shape(d)' /\ \A e \in Devs \ {d} : Same(e)
<1> USE PciAssumption
<1>1. kern[d] \in KernType /\ drv[d] \in DrvType
  BY DEF TypeOK
<1>2. /\ pc[d] = "count"
      /\ idx'[d] = idx[d] /\ mem'[d] = mem[d] /\ drv'[d] = drv[d] /\ kern'[d] = kern[d]
      /\ listed' = listed /\ drvdata' = drvdata
      /\ pc'[d] = "name"
  BY DEF TypeOK, count_store, Goto
<1>3. drv[d].type \in KnownTypes /\ drv[d].inst + 1 \in Nat
  BY <1>1, <1>2 DEF Shape, Publishing, DrvType
<1>4. TypeOK'
  BY <1>2, <1>3 DEF TypeOK, count_store, Goto, Labels, ProbeLabels, RemoveLabels
<1>5. Shape(d)'
  BY <1>1, <1>2 DEF Shape, Acquiring, Unwinding, Publishing, Removing, Linked, Bare, Owned, Mapped,
     NoDma, Hidden
<1>6. \A e \in Devs \ {d} : Same(e)
  BY DEF TypeOK, Same, count_store, Goto
<1> QED
  BY <1>4, <1>5, <1>6

LEMMA Step_device_name ==
  ASSUME TypeOK, NEW d \in Devs, Shape(d), device_name(d)
  PROVE  TypeOK' /\ Shape(d)' /\ \A e \in Devs \ {d} : Same(e)
<1> USE PciAssumption
<1>1. kern[d] \in KernType /\ drv[d] \in DrvType
  BY DEF TypeOK
<1>2. /\ pc[d] = "name"
      /\ idx'[d] = idx[d] /\ mem'[d] = mem[d] /\ drv'[d] = drv[d] /\ kern'[d] = kern[d]
      /\ listed' = listed /\ drvdata' = drvdata
      /\ pc'[d] = "cdev_add"
  BY DEF TypeOK, device_name, Goto
<1>3. <<drv[d].type, drv[d].inst>> \in Names
  BY <1>1 DEF Names, DrvType
<1>4. TypeOK'
  BY <1>2, <1>3 DEF TypeOK, device_name, Goto, Labels, ProbeLabels, RemoveLabels
<1>5. Shape(d)'
  BY <1>1, <1>2 DEF Shape, Acquiring, Unwinding, Publishing, Removing, Linked, Bare, Owned, Mapped,
     NoDma, Hidden
<1>6. \A e \in Devs \ {d} : Same(e)
  BY DEF TypeOK, Same, device_name, Goto
<1> QED
  BY <1>4, <1>5, <1>6

LEMMA Step_cdev_add ==
  ASSUME TypeOK, NEW d \in Devs, Shape(d), cdev_add(d)
  PROVE  TypeOK' /\ Shape(d)' /\ \A e \in Devs \ {d} : Same(e)
<1> USE PciAssumption
<1>1. kern[d] \in KernType /\ drv[d] \in DrvType
  BY DEF TypeOK
<1>2. /\ pc[d] = "cdev_add"
      /\ idx'[d] = idx[d] /\ mem'[d] = mem[d] /\ drv'[d] = drv[d] /\ listed' = listed
      /\ drvdata' = drvdata
      /\ \/ pc'[d] = "sys_device" /\ kern'[d] = [kern[d] EXCEPT !.cdev = TRUE]
         \/ pc'[d] = "err_out" /\ kern'[d] = kern[d]
  BY DEF TypeOK, cdev_add, Goto
<1>3. kern'[d] \in KernType
  BY <1>1, <1>2 DEF KernType
<1>4. TypeOK'
  <2>1. left' \in [Devs -> LeftType]
    <3>1. left[d] \in LeftType /\ gen[d] \in Nat
      BY DEF TypeOK
    <3>2. [left[d] EXCEPT !.names = @ \union {gen[d]}] \in LeftType
      BY <3>1 DEF LeftType
    <3>3. left' = left \/ left' = [left EXCEPT ![d] = [left[d] EXCEPT !.names = @ \union {gen[d]}]]
      BY DEF cdev_add
    <3> QED
      BY <3>2, <3>3 DEF TypeOK
  <2>2. pc' \in [Devs -> Labels]
    BY DEF TypeOK, cdev_add, Goto, Labels, ProbeLabels
  <2>3. kern' \in [Devs -> KernType]
    BY <1>3 DEF TypeOK, cdev_add
  <2> QED
    BY <2>1, <2>2, <2>3 DEF TypeOK, cdev_add
<1>5. Shape(d)'
  BY <1>1, <1>2 DEF Shape, Acquiring, Unwinding, Publishing, Removing, Linked, Bare, Owned, Mapped,
     NoDma, Hidden, KernType
<1>6. \A e \in Devs \ {d} : Same(e)
  BY DEF TypeOK, Same, cdev_add, Goto
<1> QED
  BY <1>4, <1>5, <1>6

LEMMA Step_create_sys_device ==
  ASSUME TypeOK, NEW d \in Devs, Shape(d), create_sys_device(d)
  PROVE  TypeOK' /\ Shape(d)' /\ \A e \in Devs \ {d} : Same(e)
<1> USE PciAssumption
<1>1. kern[d] \in KernType /\ drv[d] \in DrvType
  BY DEF TypeOK
<1>2. /\ pc[d] = "sys_device"
      /\ mem'[d] = mem[d] /\ listed' = listed /\ drvdata' = drvdata
      /\ pc'[d] = "channel_init" /\ idx'[d] = 1
      /\ \E name \in {scratch, NoName} : kern'[d] = [kern[d] EXCEPT !.node = name]
      /\ drv'[d] = [drv[d] EXCEPT !.CDEV_CTRL = TRUE]
  BY DEF TypeOK, create_sys_device, Goto
<1>3. drv'[d] \in DrvType
  BY <1>1, <1>2 DEF DrvType
<1>4. kern'[d] \in KernType
  <2>1. scratch \in Names /\ NoName \in Names
    BY ConstantsTyped DEF TypeOK
  <2>2. PICK name \in Names : kern'[d] = [kern[d] EXCEPT !.node = name]
    BY <1>2, <2>1
  <2> QED
    BY <1>1, <2>2 DEF KernType
<1>5. TypeOK'
  <2>1. left' \in [Devs -> LeftType]
    <3>1. left[d] \in LeftType /\ gen[d] \in Nat
      BY DEF TypeOK
    <3>2. PICK made \in SUBSET {gen[d]} : left' = [left EXCEPT ![d].proc = @ \union made]
      BY DEF create_sys_device
    <3>3. [left[d] EXCEPT !.proc = @ \union made] \in LeftType
      BY <3>1 DEF LeftType
    <3> QED
      BY <3>2, <3>3 DEF TypeOK
  <2>2. pc' \in [Devs -> Labels]
    BY DEF TypeOK, create_sys_device, Goto, Labels, ProbeLabels
  <2>3. kern' \in [Devs -> KernType] /\ drv' \in [Devs -> DrvType]
    BY <1>3, <1>4 DEF TypeOK, create_sys_device
  <2>4. idx' \in [Devs -> Nat]
    BY DEF TypeOK, create_sys_device
  <2> QED
    BY <2>1, <2>2, <2>3, <2>4 DEF TypeOK, create_sys_device
<1>6. Shape(d)'
  BY <1>1, <1>2 DEF Shape, Acquiring, Unwinding, Publishing, Removing, Linked, Bare, Owned, Mapped,
     NoDma, Hidden, DrvType, KernType
<1>7. \A e \in Devs \ {d} : Same(e)
  BY DEF TypeOK, Same, create_sys_device, Goto
<1> QED
  BY <1>5, <1>6, <1>7

LEMMA Step_channel_init ==
  ASSUME TypeOK, NEW d \in Devs, Shape(d), channel_init(d)
  PROVE  TypeOK' /\ Shape(d)' /\ \A e \in Devs \ {d} : Same(e)
<1> USE PciAssumption
<1>1. kern[d] \in KernType /\ drv[d] \in DrvType
  BY DEF TypeOK
<1>2. /\ pc[d] = "channel_init" /\ pc'[d] = "channel_init"
      /\ mem'[d] = mem[d] /\ listed' = listed /\ drvdata' = drvdata
      /\ idx[d] <= ChanNum /\ idx'[d] = idx[d] + 1 /\ idx[d] \in Nat /\ idx[d] >= 1
  BY DEF TypeOK, channel_init, Goto, Shape, Publishing
<1>3. PICK data, desc \in SUBSET {idx[d]} :
        /\ drv' = [drv EXCEPT ![d].pData = @ \union data, ![d].desc = @ \union desc]
        /\ kern' = [kern EXCEPT ![d].data = @ \union data, ![d].desc = @ \union desc]
  BY Zenon DEF channel_init
<1>4. /\ drv'[d] = [drv[d] EXCEPT !.pData = @ \union data, !.desc = @ \union desc]
      /\ kern'[d] = [kern[d] EXCEPT !.data = @ \union data, !.desc = @ \union desc]
  BY <1>3 DEF TypeOK
<1>5. data \in SUBSET (1 .. ChanNum) /\ desc \in SUBSET (1 .. ChanNum)
  BY <1>2
<1>6. drv'[d] \in DrvType
  <2>1. PICK x, y \in SUBSET (1 .. ChanNum) : drv'[d] = [drv[d] EXCEPT !.pData = x, !.desc = y]
    BY <1>1, <1>4, <1>5, BufFields
  <2> QED
    BY <1>1, <2>1 DEF DrvType
<1>7. kern'[d] \in KernType
  <2>1. PICK x, y \in SUBSET (1 .. ChanNum) : kern'[d] = [kern[d] EXCEPT !.data = x, !.desc = y]
    BY <1>1, <1>4, <1>5, BufFields
  <2> QED
    BY <1>1, <2>1 DEF KernType
<1>8. TypeOK'
  BY <1>2, <1>3, <1>6, <1>7 DEF TypeOK, channel_init, Goto, Labels, ProbeLabels
<1>9. Shape(d)'
  <2>1. Mapped(d) /\ kern[d].cdev /\ drv[d].CDEV_CTRL /\ d \notin listed /\ d \notin drvdata
    BY <1>2 DEF Shape, Publishing, Linked
  <2>2. Mapped(d)' /\ kern'[d].cdev /\ drv'[d].CDEV_CTRL
    BY <1>1, <1>2, <1>4, <2>1 DEF Mapped, Owned, DrvType, KernType
  <2> QED
    BY <1>2, <2>1, <2>2 DEF Shape, Acquiring, Unwinding, Publishing, Removing, Linked
<1>10. \A e \in Devs \ {d} : Same(e)
  BY <1>3 DEF TypeOK, Same, channel_init, Goto
<1> QED
  BY <1>8, <1>9, <1>10

LEMMA Step_channel_init_done ==
  ASSUME TypeOK, NEW d \in Devs, Shape(d), channel_init_done(d)
  PROVE  TypeOK' /\ Shape(d)' /\ \A e \in Devs \ {d} : Same(e)
<1> USE PciAssumption
<1>1. kern[d] \in KernType /\ drv[d] \in DrvType
  BY DEF TypeOK
<1>2. /\ pc[d] = "channel_init"
      /\ idx'[d] = idx[d] /\ mem'[d] = mem[d] /\ drv'[d] = drv[d] /\ kern'[d] = kern[d]
      /\ listed' = listed /\ drvdata' = drvdata
      /\ pc'[d] = "list_add"
  BY DEF TypeOK, channel_init_done, Goto
<1>3. TypeOK'
  BY <1>2 DEF TypeOK, channel_init_done, Goto, Labels, ProbeLabels, RemoveLabels
<1>4. Shape(d)'
  BY <1>1, <1>2 DEF Shape, Acquiring, Unwinding, Publishing, Removing, Linked, Bare, Owned, Mapped,
     NoDma, Hidden
<1>5. \A e \in Devs \ {d} : Same(e)
  BY DEF TypeOK, Same, channel_init_done, Goto
<1> QED
  BY <1>3, <1>4, <1>5

LEMMA Step_list_add ==
  ASSUME TypeOK, NEW d \in Devs, Shape(d), list_add(d)
  PROVE  TypeOK' /\ Shape(d)' /\ \A e \in Devs \ {d} : Same(e)
<1> USE PciAssumption
<1>1. kern[d] \in KernType /\ drv[d] \in DrvType
  BY DEF TypeOK
<1>2. /\ pc[d] = "list_add"
      /\ idx'[d] = idx[d] /\ mem'[d] = mem[d] /\ drv'[d] = drv[d] /\ kern'[d] = kern[d]
      /\ drvdata' = drvdata
      /\ pc'[d] = "set_drvdata" /\ listed' = listed \union {d}
  BY DEF TypeOK, list_add, Goto
<1>3. TypeOK'
  BY <1>2 DEF TypeOK, list_add, Goto, Labels, ProbeLabels, RemoveLabels
<1>4. Shape(d)'
  BY <1>1, <1>2 DEF Shape, Acquiring, Unwinding, Publishing, Removing, Linked, Bare, Owned, Mapped,
     NoDma, Hidden
<1>5. \A e \in Devs \ {d} : Same(e)
  BY DEF TypeOK, Same, list_add, Goto
<1> QED
  BY <1>3, <1>4, <1>5

LEMMA Step_set_drvdata ==
  ASSUME TypeOK, NEW d \in Devs, Shape(d), set_drvdata(d)
  PROVE  TypeOK' /\ Shape(d)' /\ \A e \in Devs \ {d} : Same(e)
<1> USE PciAssumption
<1>1. kern[d] \in KernType /\ drv[d] \in DrvType
  BY DEF TypeOK
<1>2. /\ pc[d] = "set_drvdata"
      /\ idx'[d] = idx[d] /\ mem'[d] = mem[d] /\ drv'[d] = drv[d] /\ kern'[d] = kern[d]
      /\ listed' = listed
      /\ pc'[d] = "bound" /\ drvdata' = drvdata \union {d}
  BY DEF TypeOK, set_drvdata, Goto
<1>3. TypeOK'
  BY <1>2 DEF TypeOK, set_drvdata, Goto, Labels, ProbeLabels, RemoveLabels
<1>4. Shape(d)'
  BY <1>1, <1>2 DEF Shape, Acquiring, Unwinding, Publishing, Removing, Linked, Bare, Owned, Mapped,
     NoDma, Hidden
<1>5. \A e \in Devs \ {d} : Same(e)
  BY DEF TypeOK, Same, set_drvdata, Goto
<1> QED
  BY <1>3, <1>4, <1>5

LEMMA Step_dev_clean ==
  ASSUME TypeOK, NEW d \in Devs, Shape(d), dev_clean(d)
  PROVE  TypeOK' /\ Shape(d)' /\ \A e \in Devs \ {d} : Same(e)
<1> USE PciAssumption
<1>1. kern[d] \in KernType /\ drv[d] \in DrvType
  BY DEF TypeOK
<1>2. /\ pc[d] = "bound"
      /\ idx'[d] = idx[d] /\ mem'[d] = mem[d] /\ drv'[d] = drv[d] /\ listed' = listed
      /\ drvdata' = drvdata
      /\ pc'[d] = "free_resource"
      /\ kern'[d] = IF drv[d].CDEV_CTRL THEN [kern[d] EXCEPT !.cdev = FALSE, !.node = NoName]
                                      ELSE kern[d]
  BY DEF TypeOK, dev_clean, Goto
<1>3. kern'[d] \in KernType
  BY <1>1, <1>2, ConstantsTyped DEF KernType
<1>4. TypeOK'
  BY <1>2, <1>3 DEF TypeOK, dev_clean, Goto, Labels, ProbeLabels, RemoveLabels
<1>5. Shape(d)'
  BY <1>1, <1>2 DEF Shape, Acquiring, Unwinding, Publishing, Removing, Linked, Bare, Owned, Mapped,
     NoDma, Hidden, KernType
<1>6. \A e \in Devs \ {d} : Same(e)
  BY DEF TypeOK, Same, dev_clean, Goto
<1> QED
  BY <1>4, <1>5, <1>6

LEMMA Step_free_resource ==
  ASSUME TypeOK, NEW d \in Devs, Shape(d), free_resource(d)
  PROVE  TypeOK' /\ Shape(d)' /\ \A e \in Devs \ {d} : Same(e)
<1> USE PciAssumption
<1>1. kern[d] \in KernType /\ drv[d] \in DrvType
  BY DEF TypeOK
<1>2. /\ pc[d] = "free_resource"
      /\ idx'[d] = idx[d] /\ mem'[d] = mem[d] /\ listed' = listed /\ drvdata' = drvdata
      /\ pc'[d] = "xpdev_free"
      /\ kern'[d] = [kern[d] EXCEPT !.data = @ \ drv[d].pData, !.desc = @ \ drv[d].desc]
      /\ drv'[d] = [drv[d] EXCEPT !.pData = {}, !.desc = {}]
  BY DEF TypeOK, free_resource, Goto
<1>3. drv'[d] \in DrvType
  BY <1>1, <1>2 DEF DrvType
<1>4. kern'[d] \in KernType
  <2>1. PICK x, y \in SUBSET (1 .. ChanNum) : kern'[d] = [kern[d] EXCEPT !.data = x, !.desc = y]
    BY <1>1, <1>2, BufFields
  <2> QED
    BY <1>1, <2>1 DEF KernType
<1>5. TypeOK'
  BY <1>2, <1>3, <1>4 DEF TypeOK, free_resource, Goto, Labels, ProbeLabels, RemoveLabels
<1>6. Shape(d)'
  BY <1>1, <1>2 DEF Shape, Acquiring, Unwinding, Publishing, Removing, Linked, Bare, Owned, Mapped,
     NoDma, Hidden, DrvType, KernType
<1>7. \A e \in Devs \ {d} : Same(e)
  BY DEF TypeOK, Same, free_resource, Goto
<1> QED
  BY <1>5, <1>6, <1>7

LEMMA Step_remove_free ==
  ASSUME TypeOK, NEW d \in Devs, Shape(d), remove_free(d)
  PROVE  TypeOK' /\ Shape(d)' /\ \A e \in Devs \ {d} : Same(e)
<1> USE PciAssumption
<1>1. kern[d] \in KernType /\ drv[d] \in DrvType
  BY DEF TypeOK
<1>2. /\ pc[d] = "xpdev_free"
      /\ idx'[d] = idx[d] /\ listed' = listed /\ drvdata' = drvdata
      /\ pc'[d] = "list_del"
      /\ mem'[d] = IF drv[d].xdev THEN {} ELSE mem[d] \ {"xpdev"}
      /\ drv'[d] = ZeroDrv
      /\ kern'[d] = IF drv[d].xdev
                   THEN [kern[d] EXCEPT !.iomap = @ \ drv[d].bar,
                                        !.regions = @ /\ ~drv[d].got_regions,
                                        !.enabled = IF drv[d].regions_in_use THEN @ ELSE @ - 1]
                   ELSE kern[d]
  BY DEF TypeOK, remove_free, Goto, xpdev_free
<1>3. drv'[d] \in DrvType
  BY <1>1, <1>2, ConstantsTyped
<1>4. kern'[d] \in KernType
  <2>1. CASE drv[d].xdev
    <3>1. kern[d].iomap \ drv[d].bar \in SUBSET (0 .. BarNum - 1)
      BY <1>1 DEF KernType
    <3>2. (kern[d].regions /\ ~drv[d].got_regions) \in BOOLEAN
      OBVIOUS
    <3>3. (IF drv[d].regions_in_use THEN kern[d].enabled ELSE kern[d].enabled - 1) \in Int
      BY <1>1 DEF KernType
    <3> QED
      BY <1>1, <1>2, <2>1, <3>1, <3>2, <3>3 DEF KernType
  <2>2. CASE ~drv[d].xdev
    BY <1>1, <1>2, <2>2
  <2> QED
    BY <2>1, <2>2
<1>5. TypeOK'
  BY <1>2, <1>3, <1>4 DEF TypeOK, remove_free, Goto, Labels, ProbeLabels, RemoveLabels, xpdev_free
<1>6. Shape(d)'
  BY <1>1, <1>2 DEF Shape, Acquiring, Unwinding, Publishing, Removing, Linked, Bare, Owned, Mapped,
     NoDma, Hidden, DrvType, KernType, ZeroDrv
<1>7. \A e \in Devs \ {d} : Same(e)
  BY DEF TypeOK, Same, remove_free, Goto, xpdev_free
<1> QED
  BY <1>5, <1>6, <1>7

LEMMA Step_list_del ==
  ASSUME TypeOK, NEW d \in Devs, Shape(d), list_del(d)
  PROVE  TypeOK' /\ Shape(d)' /\ \A e \in Devs \ {d} : Same(e)
<1> USE PciAssumption
<1>1. kern[d] \in KernType /\ drv[d] \in DrvType
  BY DEF TypeOK
<1>2. /\ pc[d] = "list_del"
      /\ idx'[d] = idx[d] /\ mem'[d] = mem[d] /\ drv'[d] = drv[d] /\ kern'[d] = kern[d]
      /\ drvdata' = drvdata
      /\ pc'[d] = "clear_drvdata" /\ listed' = listed \ {d}
  BY DEF TypeOK, list_del, Goto
<1>3. TypeOK'
  BY <1>2 DEF TypeOK, list_del, Goto, Labels, ProbeLabels, RemoveLabels
<1>4. Shape(d)'
  BY <1>1, <1>2 DEF Shape, Acquiring, Unwinding, Publishing, Removing, Linked, Bare, Owned, Mapped,
     NoDma, Hidden
<1>5. \A e \in Devs \ {d} : Same(e)
  BY DEF TypeOK, Same, list_del, Goto
<1> QED
  BY <1>3, <1>4, <1>5

LEMMA Step_clear_drvdata ==
  ASSUME TypeOK, NEW d \in Devs, Shape(d), clear_drvdata(d)
  PROVE  TypeOK' /\ Shape(d)' /\ \A e \in Devs \ {d} : Same(e)
<1> USE PciAssumption
<1>1. kern[d] \in KernType /\ drv[d] \in DrvType
  BY DEF TypeOK
<1>2. /\ pc[d] = "clear_drvdata"
      /\ idx'[d] = idx[d] /\ mem'[d] = mem[d] /\ drv'[d] = drv[d] /\ kern'[d] = kern[d]
      /\ listed' = listed
      /\ pc'[d] = "unbound" /\ drvdata' = drvdata \ {d}
  BY DEF TypeOK, clear_drvdata, Goto
<1>3. TypeOK'
  BY <1>2 DEF TypeOK, clear_drvdata, Goto, Labels, ProbeLabels, RemoveLabels
<1>4. Shape(d)'
  BY <1>1, <1>2 DEF Shape, Acquiring, Unwinding, Publishing, Removing, Linked, Bare, Owned, Mapped,
     NoDma, Hidden
<1>5. \A e \in Devs \ {d} : Same(e)
  BY DEF TypeOK, Same, clear_drvdata, Goto
<1> QED
  BY <1>3, <1>4, <1>5

(* Opening or closing a file touches nothing but files.                    *)
LEMMA StepFiles ==
  ASSUME TypeOK, \/ \E d \in Devs : vi53xx_open(d)
                 \/ \E f \in files : close(f)
  PROVE  TypeOK' /\ \A e \in Devs : Same(e)
<1>1. UNCHANGED <<pc, idx, mem, drv, kern, count, scratch, listed, drvdata, gen, left>>
  BY DEF vi53xx_open, close
<1>2. files' \in SUBSET (Devs \X Nat)
  BY DEF TypeOK, vi53xx_open, close
<1> QED
  BY <1>1, <1>2 DEF TypeOK, Same

LEMMA StepInv == Inv /\ [Next]_vars => Inv'
<1> SUFFICES ASSUME Inv, [Next]_vars PROVE Inv'
  OBVIOUS
<1>1. ASSUME NEW d \in Devs, xpdev_alloc(d) \/ Probe(d) \/ dev_clean(d) \/ Remove(d)
      PROVE  Inv'
  <2>1. TypeOK' /\ Shape(d)' /\ \A e \in Devs \ {d} : Same(e)
    BY <1>1, Step_xpdev_alloc, Step_alloc_dev_instance, Step_pci_enable_device,
       Step_request_regions, Step_map_single_bar, Step_map_bars_done, Step_set_dma_mask,
       Step_err_mask, Step_err_map, Step_err_regions, Step_free_xdev, Step_err_out,
       Step_create_cdev, Step_count_store, Step_device_name, Step_cdev_add,
       Step_create_sys_device, Step_channel_init, Step_channel_init_done, Step_list_add,
       Step_set_drvdata, Step_dev_clean, Step_free_resource, Step_remove_free,
       Step_list_del, Step_clear_drvdata
    DEF Inv, Probe, Remove
  <2> QED
    BY <2>1, Frame DEF Inv
<1>2. CASE \/ \E d \in Devs : vi53xx_open(d)
           \/ \E f \in files : close(f)
  BY <1>2, StepFiles, Frame DEF Inv
<1>3. CASE UNCHANGED vars
  <2>1. TypeOK' /\ \A e \in Devs : Same(e)
    BY <1>3 DEF vars, TypeOK, Same, Inv
  <2> QED
    BY <2>1, Frame DEF Inv
<1> QED
  BY <1>1, <1>2, <1>3 DEF Next

LEMMA InvAlways == Spec => []Inv
  BY InitInv, StepInv, PTL DEF Spec

(* xdma_probe() and xdma_remove() keep every counter, pointer set and list *)
(* within its type, however many devices are probed at once.               *)
THEOREM TypeCorrect == Spec => []TypeOK
<1>1. Inv => TypeOK
  BY DEF Inv
<1> QED
  BY <1>1, InvAlways, PTL

-----------------------------------------------------------------------------
(* What is never given back.  A probe that is not decided yet may still be *)
(* refused its regions or leave its name, not both: the counts stay below  *)
(* the number of probes until one of the two has happened.                 *)
Undecided == {"device_map", "enable", "regions", "map_bars", "dma_mask", "create_cdev",
              "count", "name", "cdev_add"}

Counted(d) ==
  /\ IsFiniteSet(left[d].names) /\ left[d].proc \subseteq left[d].names
  /\ kern[d].refused + Cardinality(left[d].names) <= gen[d]
  /\ pc[d] \in Undecided => kern[d].refused + Cardinality(left[d].names) < gen[d]
  /\ pc[d] = "sys_device" => gen[d] \in left[d].names

LeftInv == \A d \in Devs : Counted(d)

LEMMA InitLeft == Init => LeftInv
<1>1. IsFiniteSet({}) /\ Cardinality({}) = 0
  BY FS_EmptySet
<1> SUFFICES ASSUME Init, NEW d \in Devs PROVE Counted(d)
  BY DEF LeftInv
<1>2. /\ pc[d] = "unbound" /\ gen[d] = 0 /\ kern[d].refused = 0
      /\ left[d].names = {} /\ left[d].proc = {}
  BY DEF Init, OnlyEnabled
<1> QED
  BY <1>1, <1>2 DEF Counted, Undecided

(* A step that neither is refused nor leaves anything.                     *)
Tidy(d) ==
  /\ UNCHANGED <<left, gen>> /\ kern'[d].refused = kern[d].refused
  /\ pc'[d] \in Undecided => pc[d] \in Undecided
  /\ pc'[d] # "sys_device"

LEMMA TidySteps ==
  ASSUME TypeOK, NEW d \in Devs,
         \/ alloc_dev_instance(d) \/ pci_enable_device(d) \/ map_single_bar(d) \/ map_bars_done(d)
         \/ set_dma_mask(d) \/ err_mask(d) \/ err_map(d) \/ err_regions(d) \/ free_xdev(d)
         \/ err_out(d) \/ create_cdev(d) \/ count_store(d) \/ device_name(d) \/ channel_init(d)
         \/ channel_init_done(d) \/ list_add(d) \/ set_drvdata(d) \/ dev_clean(d)
         \/ free_resource(d) \/ remove_free(d) \/ list_del(d) \/ clear_drvdata(d)
  PROVE  Tidy(d)
<1>0. kern[d] \in KernType
  BY DEF TypeOK
<1> USE DEF Tidy, Undecided, Goto
<1>1. CASE alloc_dev_instance(d) \/ pci_enable_device(d)
  BY <1>0, <1>1 DEF TypeOK, KernType, alloc_dev_instance, pci_enable_device
<1>2. CASE map_single_bar(d)
  BY <1>0, <1>2 DEF TypeOK, KernType, map_single_bar, unmap_bars
<1>3. CASE map_bars_done(d) \/ set_dma_mask(d)
  BY <1>3 DEF TypeOK, map_bars_done, set_dma_mask
<1>4. CASE err_mask(d) \/ err_map(d) \/ err_regions(d)
  BY <1>0, <1>4 DEF TypeOK, KernType, err_mask, unmap_bars, err_map, err_regions
<1>5. CASE free_xdev(d) \/ err_out(d) \/ remove_free(d)
  BY <1>0, <1>5 DEF TypeOK, KernType, free_xdev, err_out, remove_free, xpdev_free
<1>6. CASE create_cdev(d)
  <2>1. Goto(d, "create_cdev", "count") \/ Goto(d, "create_cdev", "err_out")
    BY <1>6 DEF create_cdev
  <2> QED
    BY <1>6, <2>1 DEF TypeOK, create_cdev
<1>7. CASE count_store(d) \/ device_name(d)
  BY <1>7 DEF TypeOK, count_store, device_name
<1>8. CASE channel_init(d)
  <2>1. PICK data, desc \in SUBSET {idx[d]} :
          kern' = [kern EXCEPT ![d].data = @ \union data, ![d].desc = @ \union desc]
    BY <1>8 DEF channel_init
  <2>2. kern'[d].refused = kern[d].refused
    BY <1>0, <2>1 DEF TypeOK, KernType
  <2> QED
    BY <1>8, <2>2 DEF TypeOK, channel_init
<1>9. CASE channel_init_done(d) \/ list_add(d) \/ set_drvdata(d)
  BY <1>9 DEF TypeOK, channel_init_done, list_add, set_drvdata
<1>10. CASE dev_clean(d) \/ free_resource(d)
  BY <1>0, <1>10 DEF TypeOK, KernType, dev_clean, free_resource
<1>11. CASE list_del(d) \/ clear_drvdata(d)
  BY <1>11 DEF TypeOK, list_del, clear_drvdata
<1> QED
  BY <1>1, <1>2, <1>3, <1>4, <1>5, <1>6, <1>7, <1>8, <1>9, <1>10, <1>11

LEMMA Left_xpdev_alloc ==
  ASSUME TypeOK, NEW d \in Devs, Counted(d), xpdev_alloc(d)
  PROVE  Counted(d)'
<1>1. /\ pc'[d] \in {"device_map", "unbound"} /\ left' = left /\ kern' = kern
      /\ gen'[d] = gen[d] + 1 /\ gen[d] \in Nat /\ kern[d].refused \in Nat
  BY DEF TypeOK, KernType, xpdev_alloc, Goto
<1>2. Cardinality(left[d].names) \in Nat
  BY FS_CardinalityType DEF Counted
<1> QED
  BY <1>1, <1>2 DEF Counted

(* pci_request_regions() refused: the probe is over, its name never set.   *)
LEMMA Left_request_regions ==
  ASSUME TypeOK, NEW d \in Devs, Counted(d), request_regions(d)
  PROVE  Counted(d)'
<1>0. kern[d] \in KernType
  BY DEF TypeOK
<1>1. /\ pc[d] = "regions" /\ left' = left /\ gen' = gen
      /\ gen[d] \in Nat /\ kern[d].refused \in Nat
      /\ \/ pc'[d] = "map_bars" /\ kern'[d].refused = kern[d].refused
         \/ pc'[d] = "err_regions" /\ kern'[d].refused = kern[d].refused + 1
  BY <1>0 DEF TypeOK, KernType, request_regions, Goto
<1>2. Cardinality(left[d].names) \in Nat
  BY FS_CardinalityType DEF Counted
<1> QED
  BY <1>1, <1>2 DEF Counted, Undecided

(* kobject_set_name() succeeded: whatever cdev_add() says, the name stays. *)
LEMMA Left_cdev_add ==
  ASSUME TypeOK, NEW d \in Devs, Counted(d), cdev_add(d)
  PROVE  Counted(d)'
<1>0. kern[d] \in KernType /\ left[d] \in LeftType
  BY DEF TypeOK
<1>1. /\ pc[d] = "cdev_add" /\ gen' = gen /\ gen[d] \in Nat /\ kern[d].refused \in Nat
      /\ kern'[d].refused = kern[d].refused
      /\ pc'[d] \in {"err_out", "sys_device"}
  BY <1>0 DEF TypeOK, KernType, cdev_add, Goto
<1>2. \/ left'[d] = left[d] /\ pc'[d] = "err_out"
      \/ left'[d].names = left[d].names \union {gen[d]} /\ left'[d].proc = left[d].proc
  BY <1>0 DEF TypeOK, LeftType, cdev_add, Goto
<1>3. Cardinality(left[d].names) \in Nat
  BY FS_CardinalityType DEF Counted
<1>4. /\ IsFiniteSet(left[d].names \union {gen[d]})
      /\ Cardinality(left[d].names \union {gen[d]}) <= Cardinality(left[d].names) + 1
      /\ Cardinality(left[d].names \union {gen[d]}) \in Nat
  <2>1. IsFiniteSet(left[d].names)
    BY DEF Counted
  <2>2. Cardinality(left[d].names \union {gen[d]}) =
          IF gen[d] \in left[d].names THEN Cardinality(left[d].names)
                                      ELSE Cardinality(left[d].names) + 1
    BY <2>1, FS_AddElement
  <2>3. IsFiniteSet(left[d].names \union {gen[d]})
    BY <2>1, FS_AddElement
  <2> QED
    BY <1>3, <2>2, <2>3
<1>5. CASE left'[d] = left[d] /\ pc'[d] = "err_out"
  BY <1>1, <1>5 DEF Counted, Undecided
<1>6. CASE /\ left'[d].names = left[d].names \union {gen[d]}
           /\ left'[d].proc = left[d].proc
  <2>1. kern[d].refused + Cardinality(left[d].names) < gen[d]
    BY <1>1 DEF Counted, Undecided
  <2>2. kern'[d].refused + Cardinality(left'[d].names) <= gen'[d]
    BY <1>1, <1>3, <1>4, <1>6, <2>1
  <2> QED
    BY <1>1, <1>4, <1>6, <2>2 DEF Counted, Undecided
<1> QED
  BY <1>2, <1>5, <1>6

LEMMA Left_create_sys_device ==
  ASSUME TypeOK, NEW d \in Devs, Counted(d), create_sys_device(d)
  PROVE  Counted(d)'
<1>0. kern[d] \in KernType /\ left[d] \in LeftType
  BY DEF TypeOK
<1>1. /\ pc[d] = "sys_device" /\ pc'[d] = "channel_init" /\ gen' = gen
      /\ kern'[d].refused = kern[d].refused
  BY <1>0 DEF TypeOK, KernType, create_sys_device, Goto
<1>2. left'[d].names = left[d].names /\ left'[d].proc \subseteq left[d].proc \union {gen[d]}
  BY <1>0 DEF TypeOK, LeftType, create_sys_device
<1> QED
  BY <1>1, <1>2 DEF Counted, Undecided

LEMMA StepLeft == Inv /\ LeftInv /\ [Next]_vars => LeftInv'
<1> SUFFICES ASSUME Inv, LeftInv, [Next]_vars PROVE LeftInv'
  OBVIOUS
<1>0. TypeOK
  BY DEF Inv
<1>1. ASSUME NEW d \in Devs, xpdev_alloc(d) \/ Probe(d) \/ dev_clean(d) \/ Remove(d)
      PROVE  LeftInv'
  <2>1. Counted(d)'
    <3>1. CASE Tidy(d)
      BY <3>1 DEF LeftInv, Counted, Tidy
    <3>2. \/ Tidy(d) \/ xpdev_alloc(d) \/ request_regions(d) \/ cdev_add(d)
          \/ create_sys_device(d)
      BY <1>0, <1>1, TidySteps DEF Probe, Remove
    <3> QED
      BY <1>0, <3>1, <3>2, Left_xpdev_alloc, Left_request_regions, Left_cdev_add,
         Left_create_sys_device DEF LeftInv
  <2>2. \A e \in Devs \ {d} : Same(e)
    BY <1>1, Step_xpdev_alloc, Step_alloc_dev_instance, Step_pci_enable_device,
       Step_request_regions, Step_map_single_bar, Step_map_bars_done, Step_set_dma_mask,
       Step_err_mask, Step_err_map, Step_err_regions, Step_free_xdev, Step_err_out,
       Step_create_cdev, Step_count_store, Step_device_name, Step_cdev_add,
       Step_create_sys_device, Step_channel_init, Step_channel_init_done, Step_list_add,
       Step_set_drvdata, Step_dev_clean, Step_free_resource, Step_remove_free,
       Step_list_del, Step_clear_drvdata
    DEF Inv, Probe, Remove
  <2>3. \A e \in Devs \ {d} : left'[e] = left[e] /\ gen'[e] = gen[e]
    <3>1. CASE Tidy(d)
      BY <3>1 DEF Tidy
    <3>2. CASE xpdev_alloc(d)
      BY <1>0, <3>2 DEF TypeOK, xpdev_alloc
    <3>3. CASE request_regions(d)
      BY <3>3 DEF request_regions
    <3>4. CASE cdev_add(d)
      BY <1>0, <3>4 DEF TypeOK, cdev_add
    <3>5. CASE create_sys_device(d)
      BY <1>0, <3>5 DEF TypeOK, create_sys_device
    <3>6. \/ Tidy(d) \/ xpdev_alloc(d) \/ request_regions(d) \/ cdev_add(d)
          \/ create_sys_device(d)
      BY <1>0, <1>1, TidySteps DEF Probe, Remove
    <3> QED
      BY <3>1, <3>2, <3>3, <3>4, <3>5, <3>6
  <2> QED
    BY <2>1, <2>2, <2>3 DEF LeftInv, Counted, Same
<1>2. ASSUME UNCHANGED <<pc, kern, gen, left>> PROVE LeftInv'
  BY <1>2 DEF LeftInv, Counted
<1>3. CASE \/ \E d \in Devs : vi53xx_open(d)
           \/ \E f \in files : close(f)
  BY <1>2, <1>3 DEF vi53xx_open, close
<1>4. CASE UNCHANGED vars
  BY <1>2, <1>4 DEF vars
<1> QED
  BY <1>1, <1>3, <1>4 DEF Next

LEMMA LeftAlways == Spec => []LeftInv
  BY InitLeft, StepLeft, InvAlways, PTL DEF Spec

(* A failed xdma_probe() and xdma_remove() give back all that the driver   *)
(* keeps track of; what they leave behind is one enable or one kobject name*)
(* per probe, and no more /proc entries than names, for any number of      *)
(* devices and probes.                                                     *)
THEOREM ReturnSound == Spec => []ResourcesReturned
<1>1. Inv /\ LeftInv => ResourcesReturned
  <2> SUFFICES ASSUME Inv, LeftInv, NEW d \in Devs, pc[d] = "unbound"
               PROVE  /\ mem[d] = {}
                      /\ kern[d] = OnlyEnabled(kern[d].refused)
                      /\ kern[d].refused + Cardinality(left[d].names) <= gen[d]
                      /\ left[d].proc \subseteq left[d].names
                      /\ d \notin listed /\ d \notin drvdata
    BY DEF ResourcesReturned
  <2>1. Bare(d) /\ mem[d] = {} /\ d \notin listed /\ d \notin drvdata
    BY DEF Inv, Shape, Removing, Linked
  <2>2. kern[d] \in KernType
    BY DEF Inv, TypeOK
  <2>3. kern[d].regions = FALSE /\ kern[d].cdev = FALSE
    BY <2>1, <2>2 DEF Bare, KernType
  <2>4. kern[d] = [enabled |-> kern[d].enabled, regions |-> kern[d].regions,
                   iomap |-> kern[d].iomap, data |-> kern[d].data, desc |-> kern[d].desc,
                   cdev |-> kern[d].cdev, node |-> kern[d].node, refused |-> kern[d].refused]
    BY <2>2 DEF KernType
  <2>5. kern[d] = OnlyEnabled(kern[d].refused)
    BY <2>1, <2>3, <2>4 DEF Bare, OnlyEnabled
  <2> QED
    BY <2>1, <2>5 DEF LeftInv, Counted
<1> QED
  BY <1>1, InvAlways, LeftAlways, PTL

(* The flags the error ladder and the remove path test tell what is held.  *)
THEOREM FlagsSound == Spec => []FlagsAgree
<1>1. Inv => FlagsAgree
  <2> SUFFICES ASSUME Inv, NEW d \in Devs, "xdev" \in mem[d],
                      pc[d] \notin {"err_regions", "free_xdev"}
               PROVE  /\ drv[d].got_regions = kern[d].regions
                      /\ drv[d].bar = kern[d].iomap
                      /\ drv[d].pData = kern[d].data /\ drv[d].desc = kern[d].desc
                      /\ kern[d].enabled >= kern[d].refused
    BY DEF FlagsAgree
  <2>1. /\ pc[d] \in Labels /\ kern[d].regions \in BOOLEAN /\ drv[d].got_regions \in BOOLEAN
        /\ kern[d].enabled \in Int /\ kern[d].refused \in Nat
    BY DEF Inv, TypeOK, KernType, DrvType
  <2>2. CASE Owned(d)
    BY <2>1, <2>2 DEF Owned
  <2>3. CASE pc[d] \in {"enable", "regions"}
    <3>1. /\ drv[d] = ZeroDrv /\ ~kern[d].regions /\ kern[d].iomap = {}
          /\ kern[d].data = {} /\ kern[d].desc = {} /\ kern[d].enabled >= kern[d].refused
      BY <2>1, <2>3 DEF Inv, Shape, Acquiring, Bare, NoDma
    <3>2. /\ ~drv[d].got_regions /\ drv[d].bar = {} /\ drv[d].pData = {} /\ drv[d].desc = {}
      BY <3>1 DEF ZeroDrv
    <3> QED
      BY <2>1, <3>1, <3>2
  <2>4. Owned(d) \/ pc[d] \in {"enable", "regions"}
    BY <2>1 DEF Inv, Shape, Acquiring, Unwinding, Publishing, Removing, Mapped,
                Labels, ProbeLabels, RemoveLabels
  <2> QED
    BY <2>2, <2>3, <2>4
<1> QED
  BY <1>1, InvAlways, PTL

(* Whenever vi53xx_open() and the ioctls can run, what they use is there.  *)
THEOREM CdevSound == Spec => []LiveCdevUsable
<1>1. Inv => LiveCdevUsable
  <2> SUFFICES ASSUME Inv, NEW d \in Devs, kern[d].cdev
               PROVE  /\ mem[d] = {"xpdev", "xdev"} /\ drv[d].xdev
                      /\ kern[d].iomap = Present /\ kern[d].regions
                      /\ kern[d].enabled > kern[d].refused
    BY DEF LiveCdevUsable
  <2>1. pc[d] \in Labels /\ kern[d].enabled \in Int /\ kern[d].refused \in Nat
    BY DEF Inv, TypeOK, KernType
  <2>2. Mapped(d)
    BY <2>1 DEF Inv, Shape, Acquiring, Unwinding, Publishing, Removing, Bare, Hidden,
                Labels, ProbeLabels, RemoveLabels
  <2> QED
    BY <2>1, <2>2 DEF Mapped, Owned
<1> QED
  BY <1>1, InvAlways, PTL

(* list_del() after kfree() is the only window in which a list node that   *)
(* /proc readers walk is freed memory.                                     *)
THEOREM ListSound == Spec => []ListDanglesOnlyInRemove
<1>1. Inv => ListDanglesOnlyInRemove
  BY DEF Inv, ListDanglesOnlyInRemove, Shape, Publishing, Removing, Linked, Mapped, Owned
<1> QED
  BY <1>1, InvAlways, PTL
-----------------------------------------------------------------------------
(* The lifecycle of BoardLife.  Where a probe or remove is determines what *)
(* a user sees of the board.                                               *)
LiveLabels == {"sys_device", "channel_init", "list_add", "set_drvdata", "bound"}
Phase(label) ==
  IF label \in LiveLabels THEN "live"
  ELSE IF label \in RemoveLabels THEN "teardown"
  ELSE IF label = "unbound" THEN "absent" ELSE "setup"

InPhase == \A d \in Devs : LifeState(d) = Phase(pc[d])

LEMMA LifePhase == Inv => InPhase
<1> SUFFICES ASSUME Inv, NEW d \in Devs PROVE LifeState(d) = Phase(pc[d])
  BY DEF InPhase
<1>1. pc[d] \in Labels /\ Shape(d)
  BY DEF Inv, TypeOK
<1>2. CASE pc[d] \in LiveLabels
  BY <1>1, <1>2 DEF LifeState, Phase, Shape, Publishing, LiveLabels
<1>3. CASE pc[d] \in RemoveLabels
  <2>1. ~kern[d].cdev /\ d \in drvdata
    BY <1>1, <1>3 DEF Shape, Removing, Linked, RemoveLabels, Hidden, Bare
  <2> QED
    BY <1>3, <2>1 DEF LifeState, Phase, LiveLabels, RemoveLabels
<1>4. CASE pc[d] = "unbound"
  <2>1. ~kern[d].cdev /\ d \notin drvdata /\ mem[d] = {}
    BY <1>1, <1>4 DEF Shape, Removing, Linked, Bare
  <2> QED
    BY <1>4, <2>1 DEF LifeState, Phase, LiveLabels, RemoveLabels
<1>5. CASE pc[d] \notin LiveLabels \union RemoveLabels \union {"unbound"}
  <2>1. pc[d] \in ProbeLabels \ LiveLabels
    BY <1>1, <1>5 DEF Labels, LiveLabels
  <2>2. ~kern[d].cdev
    BY <1>1, <2>1 DEF Shape, Acquiring, Unwinding, Publishing, Hidden, Bare, ProbeLabels, LiveLabels
  <2>3. d \notin drvdata
    BY <1>1, <2>1 DEF Shape, Linked, ProbeLabels, LiveLabels
  <2>4. mem[d] # {}
    BY <1>1, <2>1 DEF Shape, Acquiring, Unwinding, Publishing, Mapped, Owned, ProbeLabels, LiveLabels
  <2> QED
    BY <1>5, <2>2, <2>3, <2>4 DEF LifeState, Phase
<1> QED
  BY <1>2, <1>3, <1>4, <1>5

(* The moves of BoardLife, as pairs of phases.                             *)
Moves == {<<"absent", "setup">>, <<"setup", "absent">>, <<"setup", "live">>,
          <<"live", "teardown">>, <<"teardown", "absent">>}

(* Which label follows which.                                              *)
LEMMA PhaseStep ==
  ASSUME TypeOK, NEW d \in Devs, xpdev_alloc(d) \/ Probe(d) \/ dev_clean(d) \/ Remove(d)
  PROVE  \/ Phase(pc'[d]) = Phase(pc[d])
         \/ <<Phase(pc[d]), Phase(pc'[d])>> \in Moves
<1> DEFINE Hop(from, to) == pc[d] = from /\ pc'[d] = to
<1>1. \A from, to : Goto(d, from, to) => Hop(from, to)
  BY DEF Goto, TypeOK
<1> DEFINE SameHop == \/ pc[d] \in LiveLabels /\ pc'[d] \in LiveLabels
                      \/ pc[d] \in RemoveLabels /\ pc'[d] \in RemoveLabels
                      \/ pc[d] = "unbound" /\ pc'[d] = "unbound"
                      \/ /\ pc[d] \in ProbeLabels \ LiveLabels
                         /\ pc'[d] \in ProbeLabels \ LiveLabels
           MoveHop == \/ pc[d] = "unbound" /\ pc'[d] = "device_map"
                      \/ pc[d] = "err_out" /\ pc'[d] = "unbound"
                      \/ pc[d] = "cdev_add" /\ pc'[d] = "sys_device"
                      \/ pc[d] = "bound" /\ pc'[d] = "free_resource"
                      \/ pc[d] = "clear_drvdata" /\ pc'[d] = "unbound"
<1> USE <1>1 DEF ProbeLabels, LiveLabels, RemoveLabels
<1>2. SameHop \/ MoveHop
  <2>1. CASE xpdev_alloc(d)
    BY <2>1 DEF xpdev_alloc
  <2>2. CASE \/ alloc_dev_instance(d) \/ pci_enable_device(d) \/ request_regions(d)
             \/ map_single_bar(d) \/ map_bars_done(d) \/ set_dma_mask(d)
    BY <2>2 DEF alloc_dev_instance, pci_enable_device, request_regions,
       map_single_bar, map_bars_done, set_dma_mask
  <2>3. CASE err_mask(d) \/ err_map(d) \/ err_regions(d) \/ free_xdev(d) \/ err_out(d)
    BY <2>3 DEF err_mask, err_map, err_regions, free_xdev, err_out
  <2>4. CASE create_cdev(d) \/ count_store(d) \/ device_name(d) \/ cdev_add(d)
    <3>1. CASE create_cdev(d)
      <4>1. Goto(d, "create_cdev", "count") \/ Goto(d, "create_cdev", "err_out")
        BY <3>1 DEF create_cdev
      <4> QED
        BY <4>1
    <3> QED
      BY <2>4, <3>1 DEF count_store, device_name, cdev_add
  <2>5. CASE \/ create_sys_device(d) \/ channel_init(d) \/ channel_init_done(d)
             \/ list_add(d) \/ set_drvdata(d)
    BY <2>5 DEF create_sys_device, channel_init, channel_init_done, list_add, set_drvdata
  <2>6. CASE dev_clean(d) \/ Remove(d)
    BY <2>6 DEF dev_clean, Remove, free_resource, remove_free, list_del, clear_drvdata
  <2> HIDE DEF SameHop, MoveHop
  <2> QED
    BY <2>1, <2>2, <2>3, <2>4, <2>5, <2>6 DEF Probe
<1>3. SameHop => Phase(pc'[d]) = Phase(pc[d])
  BY DEF Phase, LiveLabels, RemoveLabels, ProbeLabels
<1>4. MoveHop => <<Phase(pc[d]), Phase(pc'[d])>> \in Moves
  BY DEF Phase, LiveLabels, RemoveLabels, ProbeLabels, Moves
<1> QED
  BY <1>2, <1>3, <1>4

(* Every step of the driver is a step of BoardLife or invisible in it.     *)
LEMMA LifeStep == Inv /\ Inv' /\ [Next]_vars => [Life!Next]_([d \in Devs |-> LifeState(d)])
<1> DEFINE state == [d \in Devs |-> LifeState(d)]
<1> SUFFICES ASSUME Inv, Inv', [Next]_vars PROVE Life!Next \/ state' = state
  OBVIOUS
<1>1. \A e \in Devs : LifeState(e) = Phase(pc[e]) /\ LifeState(e)' = Phase(pc'[e])
  <2>1. InPhase'
    BY LifePhase, PTL
  <2> QED
    BY <2>1, LifePhase DEF InPhase, Phase
<1>2. ASSUME NEW d \in Devs, xpdev_alloc(d) \/ Probe(d) \/ dev_clean(d) \/ Remove(d)
      PROVE  Life!Next \/ state' = state
  <2>1. \A e \in Devs \ {d} : pc'[e] = pc[e]
    <3>1. pc \in [Devs -> Labels]
      BY DEF Inv, TypeOK
    <3>2. \E l : pc' = [pc EXCEPT ![d] = l]
      BY <1>2 DEF Goto, Probe, Remove, xpdev_alloc, alloc_dev_instance, pci_enable_device,
         request_regions, map_single_bar, map_bars_done, set_dma_mask, err_mask, err_map,
         err_regions, free_xdev, err_out, create_cdev, count_store, device_name, cdev_add,
         create_sys_device, channel_init, channel_init_done, list_add, set_drvdata, dev_clean,
         free_resource, remove_free, list_del, clear_drvdata
    <3> QED
      BY <3>1, <3>2
  <2>2. state' = [state EXCEPT ![d] = Phase(pc'[d])] /\ state[d] = Phase(pc[d])
    BY <1>1, <2>1
  <2>3. CASE Phase(pc'[d]) = Phase(pc[d])
    BY <2>2, <2>3
  <2>4. CASE <<Phase(pc[d]), Phase(pc'[d])>> \in Moves
    BY <2>2, <2>4 DEF Moves, Life!Next, Life!Begin, Life!Abort, Life!GoLive, Life!GoDown,
       Life!Finish, Life!Move
  <2> QED
    BY <1>2, <2>3, <2>4, PhaseStep DEF Inv
<1>3. ASSUME pc' = pc PROVE state' = state
  BY <1>1, <1>3
<1>4. CASE \/ \E d \in Devs : vi53xx_open(d)
           \/ \E f \in files : close(f)
  BY <1>3, <1>4 DEF vi53xx_open, close
<1>5. CASE UNCHANGED vars
  BY <1>3, <1>5 DEF vars
<1> QED
  BY <1>2, <1>4, <1>5 DEF Next

(* xdma_probe() and xdma_remove() implement BoardLife, however many boards *)
(* are probed and removed at once: a board is set up before it goes live,  *)
(* goes live once per setup, and is torn down before it is set up again.   *)
THEOREM LifeTheorem == Spec => LifeSpec
<1>1. Init => Life!Init
  BY DEF Init, Life!Init, LifeState, OnlyEnabled
<1> QED
  BY <1>1, LifeStep, InvAlways, PTL DEF Spec, LifeSpec, Life!Spec
=============================================================================
