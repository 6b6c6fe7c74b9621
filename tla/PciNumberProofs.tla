--------------------------- MODULE PciNumberProofs --------------------------
(***************************************************************************)
(* Device numbers and node names of PciProbe.  Neither the instance        *)
(* counters nor the shared name buffer are locked; what keeps them right is*)
(* that the driver core probes one device at a time, SerialProbe.          *)
(***************************************************************************)
EXTENDS PciProbeProofs

(* One probe at a time; removes may overlap it and each other.             *)
OneProbe == \A d, e \in Devs : pc[d] \in ProbeLabels /\ pc[e] \in ProbeLabels => d = e

Numbered(d) == pc[d] \in {"name", "cdev_add", "sys_device", "channel_init", "list_add",
                          "set_drvdata", "bound", "free_resource", "xpdev_free"}
Num(d) == <<drv[d].type, drv[d].inst>>

(* Numbers given out are below the counter, so that the next one is new.   *)
CountInv ==
  /\ \A d \in Devs : Numbered(d) => drv[d].type \in KnownTypes /\ drv[d].inst < count[drv[d].type]
  /\ \A d \in Devs : pc[d] = "count" => drv[d].type \in KnownTypes /\ drv[d].inst = count[drv[d].type]
  /\ \A d, e \in Devs : d # e /\ Numbered(d) /\ Numbered(e) => Num(d) # Num(e)

(* The buffer holds the name of the probe that is about to use it.         *)
NameInv ==
  /\ \A d \in Devs : pc[d] \in {"cdev_add", "sys_device"} => scratch = Num(d)
  /\ \A d \in Devs : kern[d].node \in {NoName, Num(d)}

NumInv == OneProbe /\ CountInv /\ NameInv

LEMMA InitNum == Init => NumInv
  BY DEF Init, NumInv, OneProbe, CountInv, NameInv, Numbered, ProbeLabels, OnlyEnabled

(* A step of d that takes no number and writes no name.                    *)
LEMMA Quiet ==
  ASSUME TypeOK, NumInv, NEW d \in Devs, \A e \in Devs \ {d} : Same(e),
         drv'[d].type = drv[d].type, drv'[d].inst = drv[d].inst,
         kern'[d].node = kern[d].node, count' = count, scratch' = scratch,
         pc'[d] \in ProbeLabels => pc[d] \in ProbeLabels,
         Numbered(d)' => Numbered(d), pc'[d] # "count",
         pc'[d] \in {"cdev_add", "sys_device"} => pc[d] \in {"cdev_add", "sys_device"}
  PROVE  NumInv'
<1>1. \A e \in Devs : Num(e)' = Num(e)
  BY DEF Num, Same
<1>2. OneProbe'
  BY DEF NumInv, OneProbe, Same
<1>3. CountInv'
  <2>1. \A e \in Devs : Numbered(e)' => Numbered(e)
    BY DEF Numbered, Same
  <2>2. \A e \in Devs : drv'[e].type = drv[e].type /\ drv'[e].inst = drv[e].inst
    BY DEF Same
  <2>3. \A e \in Devs : pc'[e] = "count" => pc[e] = "count"
    BY DEF Same
  <2> QED
    BY <1>1, <2>1, <2>2, <2>3 DEF NumInv, CountInv
<1>4. NameInv'
  BY <1>1 DEF NumInv, NameInv, Same
<1> QED
  BY <1>2, <1>3, <1>4 DEF NumInv

(* The components of d that NumInv reads, in a step that leaves them.      *)
Local(d) ==
  /\ drv'[d].type = drv[d].type /\ drv'[d].inst = drv[d].inst
  /\ kern'[d].node = kern[d].node /\ count' = count /\ scratch' = scratch
  /\ pc'[d] \in ProbeLabels => pc[d] \in ProbeLabels
  /\ Numbered(d)' => Numbered(d)
  /\ pc'[d] # "count"
  /\ pc'[d] \in {"cdev_add", "sys_device"} => pc[d] \in {"cdev_add", "sys_device"}

LEMMA QuietSteps ==
  ASSUME TypeOK, NEW d \in Devs,
         \/ alloc_dev_instance(d) \/ pci_enable_device(d) \/ request_regions(d) \/ map_single_bar(d)
         \/ map_bars_done(d) \/ set_dma_mask(d) \/ err_mask(d) \/ err_map(d)
         \/ err_regions(d) \/ free_xdev(d) \/ cdev_add(d) \/ channel_init(d)
         \/ channel_init_done(d) \/ list_add(d) \/ set_drvdata(d) \/ free_resource(d)
         \/ list_del(d) \/ clear_drvdata(d)
  PROVE  Local(d)
<1> USE DEF Goto, Local, Numbered, ProbeLabels
<1>0. kern[d] \in KernType /\ drv[d] \in DrvType
  BY DEF TypeOK
<1> USE DEF KernType, DrvType
<1>1. ASSUME alloc_dev_instance(d) PROVE Local(d)
  BY <1>0, <1>1 DEF TypeOK, alloc_dev_instance
<1>2. ASSUME pci_enable_device(d) PROVE Local(d)
  BY <1>0, <1>2 DEF TypeOK, pci_enable_device
<1>3. ASSUME request_regions(d) PROVE Local(d)
  BY <1>0, <1>3 DEF TypeOK, request_regions
<1>4. ASSUME map_single_bar(d) PROVE Local(d)
  BY <1>0, <1>4 DEF TypeOK, map_single_bar, unmap_bars
<1>5. ASSUME map_bars_done(d) PROVE Local(d)
  BY <1>0, <1>5 DEF TypeOK, map_bars_done
<1>6. ASSUME set_dma_mask(d) PROVE Local(d)
  BY <1>0, <1>6 DEF TypeOK, set_dma_mask
<1>7. ASSUME err_mask(d) PROVE Local(d)
  BY <1>0, <1>7 DEF TypeOK, err_mask, unmap_bars
<1>8. ASSUME err_map(d) PROVE Local(d)
  BY <1>0, <1>8 DEF TypeOK, err_map
<1>9. ASSUME err_regions(d) PROVE Local(d)
  BY <1>0, <1>9 DEF TypeOK, err_regions
<1>10. ASSUME free_xdev(d) PROVE Local(d)
  BY <1>0, <1>10 DEF TypeOK, free_xdev
<1>11. ASSUME cdev_add(d) PROVE Local(d)
  BY <1>0, <1>11 DEF TypeOK, cdev_add
<1>12. ASSUME channel_init(d) PROVE Local(d)
  <2>1. PICK data, desc \in SUBSET {idx[d]} :
          /\ drv' = [drv EXCEPT ![d].pData = @ \union data, ![d].desc = @ \union desc]
          /\ kern' = [kern EXCEPT ![d].data = @ \union data, ![d].desc = @ \union desc]
    BY <1>12 DEF channel_init
  <2>2. drv'[d].type = drv[d].type /\ drv'[d].inst = drv[d].inst /\ kern'[d].node = kern[d].node
    BY <1>0, <2>1 DEF TypeOK
  <2> QED
    BY <1>12, <2>2 DEF TypeOK, channel_init
<1>13. ASSUME channel_init_done(d) PROVE Local(d)
  BY <1>0, <1>13 DEF TypeOK, channel_init_done
<1>14. ASSUME list_add(d) PROVE Local(d)
  BY <1>0, <1>14 DEF TypeOK, list_add
<1>15. ASSUME set_drvdata(d) PROVE Local(d)
  BY <1>0, <1>15 DEF TypeOK, set_drvdata
<1>16. ASSUME free_resource(d) PROVE Local(d)
  BY <1>0, <1>16 DEF TypeOK, free_resource
<1>17. ASSUME list_del(d) PROVE Local(d)
  BY <1>0, <1>17 DEF TypeOK, list_del
<1>18. ASSUME clear_drvdata(d) PROVE Local(d)
  BY <1>0, <1>18 DEF TypeOK, clear_drvdata
<1> QED
  BY <1>1, <1>2, <1>3, <1>4, <1>5, <1>6, <1>7, <1>8, <1>9, <1>10, <1>11, <1>12, <1>13,
     <1>14, <1>15, <1>16, <1>17, <1>18
-----------------------------------------------------------------------------
(* The counter is read: the number is new, and stays so until it is stored *)
(* as no other probe runs.                                                 *)
LEMMA Num_create_cdev ==
  ASSUME Inv, NumInv, NEW d \in Devs, create_cdev(d), \A e \in Devs \ {d} : Same(e)
  PROVE  NumInv'
<1>0. kern[d] \in KernType /\ drv[d] \in DrvType
  BY DEF TypeOK, Inv
<1>1. PICK t \in Types :
        /\ drv' = [drv EXCEPT ![d].type = t, ![d].inst = IF t \in KnownTypes THEN count[t] ELSE @]
        /\ IF t \in KnownTypes THEN Goto(d, "create_cdev", "count")
                               ELSE Goto(d, "create_cdev", "err_out")
  BY DEF create_cdev
<1>2. /\ pc[d] = "create_cdev" /\ pc'[d] \in {"count", "err_out"}
      /\ pc'[d] = "count" => t \in KnownTypes
      /\ drv'[d].type = t /\ (t \in KnownTypes => drv'[d].inst = count[t])
      /\ count' = count /\ scratch' = scratch /\ kern' = kern
  BY <1>0, <1>1 DEF create_cdev, Goto, TypeOK, DrvType, Inv
<1>3. kern'[d].node = NoName
  BY <1>2 DEF Inv, Shape, Publishing, Hidden
<1>4. OneProbe'
  BY <1>2 DEF NumInv, OneProbe, Same, ProbeLabels
<1>5. CountInv'
  <2>1. \A e \in Devs \ {d} : drv'[e] = drv[e] /\ pc'[e] = pc[e] /\ Num(e)' = Num(e)
    BY DEF Same, Num
  <2>2. ~Numbered(d)'
    BY <1>2 DEF Numbered
  <2> QED
    BY <1>2, <2>1, <2>2 DEF NumInv, CountInv, Numbered
<1>6. NameInv'
  BY <1>2, <1>3 DEF NumInv, NameInv, Same, Num
<1> QED
  BY <1>4, <1>5, <1>6 DEF NumInv

LEMMA Num_count_store ==
  ASSUME Inv, NumInv, NEW d \in Devs, count_store(d), \A e \in Devs \ {d} : Same(e)
  PROVE  NumInv'
<1>1. /\ pc[d] = "count" /\ pc'[d] = "name" /\ drv' = drv /\ kern' = kern /\ scratch' = scratch
      /\ count' = [count EXCEPT ![drv[d].type] = drv[d].inst + 1]
  BY DEF count_store, Goto, TypeOK, Inv
<1>2. /\ drv[d].type \in KnownTypes /\ drv[d].inst = count[drv[d].type]
      /\ count \in [KnownTypes -> Nat]
      /\ \A e \in Devs : drv[e].inst \in Nat
  BY <1>1 DEF NumInv, CountInv, TypeOK, Inv, DrvType
<1>3. OneProbe'
  BY <1>1 DEF NumInv, OneProbe, Same, ProbeLabels
<1>4. \A e \in Devs \ {d} : pc'[e] = pc[e] /\ pc[e] # "count"
  BY <1>1 DEF NumInv, OneProbe, Same, ProbeLabels
<1>5. \A e \in Devs : Num(e)' = Num(e)
  BY <1>1 DEF Num
<1>6. CountInv'
  <2>1. ASSUME NEW e \in Devs, Numbered(e)'
        PROVE  drv[e].type \in KnownTypes /\ drv[e].inst < count'[drv[e].type]
    <3>1. CASE e = d
      BY <1>1, <1>2, <3>1
    <3>2. CASE e # d
      <4>1. drv[e].type \in KnownTypes /\ drv[e].inst < count[drv[e].type]
        BY <1>4, <2>1, <3>2 DEF Numbered, NumInv, CountInv
      <4>2. CASE drv[e].type = drv[d].type
        BY <1>1, <1>2, <4>1, <4>2
      <4>3. CASE drv[e].type # drv[d].type
        BY <1>1, <1>2, <4>1, <4>3
      <4> QED
        BY <4>2, <4>3
    <3> QED
      BY <3>1, <3>2
  <2>2. ASSUME NEW e \in Devs, e # d, Numbered(e)' PROVE Num(e) # Num(d)
    <3>1. drv[e].inst < count[drv[e].type]
      BY <1>4, <2>2 DEF Numbered, NumInv, CountInv
    <3> QED
      BY <1>2, <3>1 DEF Num
  <2>3. \A e, f \in Devs : e # f /\ Numbered(e)' /\ Numbered(f)' => Num(e)' # Num(f)'
    BY <1>4, <1>5, <2>2 DEF Numbered, NumInv, CountInv
  <2>4. \A e \in Devs : pc'[e] # "count"
    BY <1>1, <1>4
  <2> QED
    BY <1>1, <2>1, <2>3, <2>4 DEF CountInv
<1>7. NameInv'
  BY <1>1, <1>5, <1>4 DEF NumInv, NameInv
<1> QED
  BY <1>3, <1>6, <1>7 DEF NumInv

(* sprintf() into the shared buffer: no other probe is about to read it.   *)
LEMMA Num_device_name ==
  ASSUME Inv, NumInv, NEW d \in Devs, device_name(d), \A e \in Devs \ {d} : Same(e)
  PROVE  NumInv'
<1>1. /\ pc[d] = "name" /\ pc'[d] = "cdev_add" /\ drv' = drv /\ kern' = kern /\ count' = count
      /\ scratch' = Num(d)
  BY DEF device_name, Goto, TypeOK, Inv, Num
<1>2. \A e \in Devs : Num(e)' = Num(e)
  BY <1>1 DEF Num
<1>3. OneProbe'
  BY <1>1 DEF NumInv, OneProbe, Same, ProbeLabels
<1>4. \A e \in Devs \ {d} : pc'[e] = pc[e] /\ pc[e] \notin {"cdev_add", "sys_device"}
  BY <1>1 DEF NumInv, OneProbe, Same, ProbeLabels
<1>5. CountInv'
  <2>1. \A e \in Devs : /\ Numbered(e)' => Numbered(e)
                        /\ pc'[e] = "count" => pc[e] = "count"
    BY <1>1, <1>4 DEF Numbered
  <2> QED
    BY <1>1, <1>2, <2>1 DEF NumInv, CountInv
<1>6. NameInv'
  BY <1>1, <1>2, <1>4 DEF NumInv, NameInv
<1> QED
  BY <1>3, <1>5, <1>6 DEF NumInv

(* device_create() reads the buffer this probe wrote.                      *)
LEMMA Num_create_sys_device ==
  ASSUME Inv, NumInv, NEW d \in Devs, create_sys_device(d), \A e \in Devs \ {d} : Same(e)
  PROVE  NumInv'
<1>0. kern[d] \in KernType /\ drv[d] \in DrvType
  BY DEF TypeOK, Inv
<1>1. /\ pc[d] = "sys_device" /\ pc'[d] = "channel_init"
      /\ count' = count /\ scratch' = scratch
      /\ drv' = [drv EXCEPT ![d].CDEV_CTRL = TRUE]
  BY DEF create_sys_device, Goto, TypeOK, Inv
<1>2. /\ drv'[d].type = drv[d].type /\ drv'[d].inst = drv[d].inst
  BY <1>0, <1>1 DEF TypeOK, Inv, DrvType
<1>3. kern'[d].node \in {scratch, NoName}
  <2>1. PICK name \in {scratch, NoName} : kern' = [kern EXCEPT ![d].node = name]
    BY DEF create_sys_device
  <2> QED
    BY <1>0, <2>1 DEF TypeOK, Inv, KernType
<1>4. \A e \in Devs : Num(e)' = Num(e) /\ drv'[e].type = drv[e].type /\ drv'[e].inst = drv[e].inst
  BY <1>2 DEF Num, Same
<1>5. OneProbe'
  BY <1>1 DEF NumInv, OneProbe, Same, ProbeLabels
<1>6. CountInv'
  <2>1. \A e \in Devs : /\ Numbered(e)' => Numbered(e)
                        /\ pc'[e] = "count" => pc[e] = "count"
    BY <1>1 DEF Numbered, Same
  <2> QED
    BY <1>1, <1>4, <2>1 DEF NumInv, CountInv
<1>7. NameInv'
  <2>1. scratch = Num(d)
    BY <1>1 DEF NumInv, NameInv
  <2> QED
    BY <1>1, <1>3, <1>4, <2>1 DEF NumInv, NameInv, Same
<1> QED
  BY <1>5, <1>6, <1>7 DEF NumInv

(* A step after which d has neither a number nor a node: it starts a probe,*)
(* alone, or frees the structure the number was kept in.                   *)
LEMMA Num_anonymous ==
  ASSUME NumInv, NEW d \in Devs, \A e \in Devs \ {d} : Same(e),
         count' = count, scratch' = scratch, kern'[d].node = NoName,
         ~Numbered(d)', pc'[d] \notin {"count", "cdev_add", "sys_device"},
         \/ pc'[d] \in ProbeLabels => pc[d] \in ProbeLabels
         \/ \A e \in Devs : pc[e] \notin ProbeLabels
  PROVE  NumInv'
<1>1. OneProbe'
  BY DEF NumInv, OneProbe, Same
<1>2. \A e \in Devs \ {d} : drv'[e] = drv[e] /\ pc'[e] = pc[e] /\ Num(e)' = Num(e)
  BY DEF Same, Num
<1>3. CountInv'
  BY <1>2 DEF NumInv, CountInv, Numbered
<1>4. NameInv'
  BY <1>2 DEF NumInv, NameInv, Same
<1> QED
  BY <1>1, <1>3, <1>4 DEF NumInv

(* The driver core takes the next device only when no probe is running.    *)
LEMMA Num_xpdev_alloc ==
  ASSUME SerialProbe, Inv, NumInv, NEW d \in Devs, xpdev_alloc(d), \A e \in Devs \ {d} : Same(e)
  PROVE  NumInv'
<1>1. /\ pc[d] = "unbound" /\ pc'[d] \in {"device_map", "unbound"}
      /\ count' = count /\ scratch' = scratch /\ kern' = kern
      /\ \A e \in Devs : pc[e] \notin ProbeLabels
  BY DEF xpdev_alloc, Goto, TypeOK, Inv
<1>2. kern'[d].node = NoName
  BY <1>1 DEF Inv, Shape, Removing, Bare
<1> QED
  BY <1>1, <1>2, Num_anonymous DEF Numbered

LEMMA Num_xpdev_free ==
  ASSUME Inv, NumInv, NEW d \in Devs, err_out(d) \/ remove_free(d), \A e \in Devs \ {d} : Same(e)
  PROVE  NumInv'
<1>0. kern[d] \in KernType
  BY DEF TypeOK, Inv
<1>1. /\ pc[d] \in {"err_out", "xpdev_free"} /\ pc'[d] \in {"unbound", "list_del"}
      /\ count' = count /\ scratch' = scratch /\ xpdev_free(d)
  BY DEF err_out, remove_free, Goto, TypeOK, Inv
<1>2. kern[d].node = NoName
  BY <1>1 DEF Inv, Shape, Unwinding, Removing, Bare, Hidden
<1>3. kern'[d].node = NoName
  BY <1>0, <1>1, <1>2 DEF xpdev_free, TypeOK, Inv, KernType
<1> QED
  BY <1>1, <1>3, Num_anonymous DEF Numbered, ProbeLabels

(* vi53xx_dev_clean() takes the node down; the number goes with the xpdev. *)
LEMMA Num_dev_clean ==
  ASSUME Inv, NumInv, NEW d \in Devs, dev_clean(d), \A e \in Devs \ {d} : Same(e)
  PROVE  NumInv'
<1>0. kern[d] \in KernType
  BY DEF TypeOK, Inv
<1>1. /\ pc[d] = "bound" /\ pc'[d] = "free_resource" /\ drv' = drv
      /\ count' = count /\ scratch' = scratch
      /\ kern'[d].node \in {kern[d].node, NoName}
  BY <1>0 DEF dev_clean, Goto, TypeOK, Inv, KernType
<1>2. \A e \in Devs : Num(e)' = Num(e)
  BY <1>1 DEF Num
<1>3. OneProbe'
  BY <1>1 DEF NumInv, OneProbe, Same, ProbeLabels
<1>4. CountInv'
  <2>1. \A e \in Devs : /\ Numbered(e)' => Numbered(e)
                        /\ pc'[e] = "count" => pc[e] = "count"
    BY <1>1 DEF Numbered, Same
  <2> QED
    BY <1>1, <1>2, <2>1 DEF NumInv, CountInv
<1>5. NameInv'
  BY <1>1, <1>2 DEF NumInv, NameInv, Same
<1> QED
  BY <1>3, <1>4, <1>5 DEF NumInv

LEMMA StepNum == SerialProbe /\ Inv /\ NumInv /\ [Next]_vars => NumInv'
<1> SUFFICES ASSUME SerialProbe, Inv, NumInv, [Next]_vars PROVE NumInv'
  OBVIOUS
<1>1. ASSUME NEW d \in Devs, xpdev_alloc(d) \/ Probe(d) \/ dev_clean(d) \/ Remove(d)
      PROVE  NumInv'
  <2>1. \A e \in Devs \ {d} : Same(e)
    BY <1>1, Step_xpdev_alloc, Step_alloc_dev_instance, Step_pci_enable_device,
       Step_request_regions, Step_map_single_bar, Step_map_bars_done, Step_set_dma_mask,
       Step_err_mask, Step_err_map, Step_err_regions, Step_free_xdev, Step_err_out,
       Step_create_cdev, Step_count_store, Step_device_name, Step_cdev_add,
       Step_create_sys_device, Step_channel_init, Step_channel_init_done, Step_list_add,
       Step_set_drvdata, Step_dev_clean, Step_free_resource, Step_remove_free,
       Step_list_del, Step_clear_drvdata
    DEF Inv, Probe, Remove
  <2>2. CASE Local(d)
    <3>1. TypeOK
      BY DEF Inv
    <3> QED
      BY <2>1, <2>2, <3>1, Quiet DEF Local
  <2>3. \/ Local(d)
        \/ create_cdev(d) \/ count_store(d) \/ device_name(d) \/ create_sys_device(d)
        \/ xpdev_alloc(d) \/ err_out(d) \/ remove_free(d) \/ dev_clean(d)
    BY <1>1, QuietSteps DEF Inv, Probe, Remove
  <2> QED
    BY <2>1, <2>2, <2>3, Num_create_cdev, Num_count_store, Num_device_name,
       Num_create_sys_device, Num_xpdev_alloc, Num_xpdev_free, Num_dev_clean
<1>2. ASSUME UNCHANGED <<pc, drv, kern, count, scratch>> PROVE NumInv'
  BY <1>2 DEF NumInv, OneProbe, CountInv, NameInv, Numbered, Num
<1>3. CASE \/ \E d \in Devs : vi53xx_open(d)
           \/ \E f \in files : close(f)
  BY <1>2, <1>3 DEF vi53xx_open, close
<1>4. CASE UNCHANGED vars
  BY <1>2, <1>4 DEF vars
<1> QED
  BY <1>1, <1>3, <1>4 DEF Next

LEMMA NumAlways == ASSUME SerialProbe PROVE Spec => []NumInv
<1>1. Inv /\ NumInv /\ [Next]_vars => NumInv'
  BY StepNum
<1> QED
  BY <1>1, InitNum, InvAlways, PTL DEF Spec

(* get_board_instance() never gives a number twice: as the driver core     *)
(* probes one device at a time, two live cdevs have different numbers,     *)
(* for any number of boards and any history of probes and removes.         *)
THEOREM MinorTheorem == ASSUME SerialProbe PROVE Spec => []MinorUnique
<1>1. Inv /\ NumInv => MinorUnique
  <2> SUFFICES ASSUME Inv, NumInv, NEW d \in Devs, NEW e \in Devs, d # e,
                      kern[d].cdev, kern[e].cdev
               PROVE  <<drv[d].type, drv[d].inst>> # <<drv[e].type, drv[e].inst>>
    BY DEF MinorUnique
  <2>1. \A x \in Devs : kern[x].cdev => Numbered(x)
    BY DEF Inv, TypeOK, Shape, Acquiring, Unwinding, Publishing, Removing, Bare, Hidden,
           Numbered, Labels, ProbeLabels, RemoveLabels
  <2> QED
    BY <2>1 DEF NumInv, CountInv, Num
<1> QED
  BY <1>1, NumAlways, InvAlways, PTL

(* create_sys_device() gives the /dev node the number of its own board,    *)
(* although es_cdev->device_name is one buffer for all of them.            *)
THEOREM NodeTheorem == ASSUME SerialProbe PROVE Spec => []NodeNamedAfterBoard
<1>1. NumInv => NodeNamedAfterBoard
  BY DEF NumInv, NameInv, NodeNamedAfterBoard, Num
<1> QED
  BY <1>1, NumAlways, PTL
=============================================================================
