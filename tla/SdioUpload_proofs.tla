-------------------------- MODULE SdioUpload_proofs --------------------------
(* What SdioUpload guarantees for every number of ports, senders, frames   *)
(* and resets.                                                             *)
EXTENDS SdioUpload, FiniteSetTheorems, TLAPS

USE SdioUploadAssumption

-----------------------------------------------------------------------------
(* The inductive invariant. *)

(* Frames are attached in the order of their numbers. *)
Numbered ==
    /\ \A p \in Ports : desc[p] <= sent /\ dma[p] <= sent
    /\ txpc \in {"wait", "critical"} => sent < MaxFrames

(* A port whose descriptor is used as it should be holds its frame, and no *)
(* frame is in two ports.                                                  *)
DmaInv ==
    /\ \A p, q \in Ports : dma[p] = dma[q] /\ dma[p] # NoFrame => p = q
    /\ \A p \in RdBitMap : dma[p] # NoFrame
    /\ \A p \in Used \cap rd_bitmap_old : dma[p] = desc[p]

(* Before the critical section the port and the descriptor are free; if a  *)
(* reset moved the port, they all are.                                     *)
CriticalInv ==
    txpc = "critical" =>
        /\ curr_upld_port \notin rd_bitmap_old
        /\ desc[target] = NoFrame
        /\ target # curr_upld_port => Used = {} /\ rd_bitmap_old = {}

Inv ==
    /\ TypeOK
    /\ FreedOnce
    /\ AttachedCounts
    /\ LiveWhenRead
    /\ PortTakenWhileUsed
    /\ Numbered
    /\ DmaInv
    /\ CriticalInv
-----------------------------------------------------------------------------
LEMMA PortsFinite ==
    /\ \A S \in SUBSET Ports : IsFiniteSet(S) /\ Cardinality(S) \in Nat
    /\ 0 \in Ports
<1>1. IsFiniteSet(Ports)
  BY FS_Interval DEF Ports
<1>2. \A S \in SUBSET Ports : IsFiniteSet(S)
  BY <1>1, FS_Subset
<1> QED
  BY <1>2, FS_CardinalityType DEF Ports

LEMMA NextPortType ==
    ASSUME NEW p \in Ports PROVE NextPort(p) \in Ports
  BY DEF NextPort, Ports

(* Freeing the frames of some used descriptors keeps the books. *)
LEMMA FreeSome ==
    ASSUME TypeOK, FreedOnce, AttachedCounts, Numbered,
           NEW S \in SUBSET Used,
           desc' = Released(S), freed' = Freed(S), sent' = sent,
           sdio_tx_attached' = sdio_tx_attached - Cardinality(S)
    PROVE  /\ desc' \in [Ports -> Frames \cup {NoFrame}]
           /\ freed' \in [Frames -> Nat]
           /\ sdio_tx_attached' \in Nat
           /\ Used' = Used \ S
           /\ \A p \in Ports \ S : desc'[p] = desc[p]
           /\ \A p \in S : desc'[p] = NoFrame
           /\ FreedOnce' /\ AttachedCounts'
           /\ \A p \in Ports : desc'[p] <= sent'
<1>1. /\ desc \in [Ports -> Frames \cup {NoFrame}]
      /\ freed \in [Frames -> Nat]
      /\ sdio_tx_attached \in Nat /\ sent \in Nat
      /\ S \subseteq Ports
  BY DEF TypeOK, Used
<1>2. /\ desc' = [p \in Ports |-> IF p \in S THEN NoFrame ELSE desc[p]]
      /\ freed' = [f \in Frames |-> IF \E p \in S : desc[p] = f THEN freed[f] + 1
                                                                ELSE freed[f]]
  BY DEF Released, Freed
<1>3. desc' \in [Ports -> Frames \cup {NoFrame}] /\ freed' \in [Frames -> Nat]
  BY <1>1, <1>2
<1>4. /\ \A p \in Ports \ S : desc'[p] = desc[p]
      /\ \A p \in S : desc'[p] = NoFrame
  BY <1>1, <1>2
<1>5. Used' = Used \ S
  BY <1>1, <1>4 DEF Used
<1>6. \A p \in Used : desc[p] \in Frames /\ desc[p] <= sent
  BY <1>1 DEF Used, Numbered
<1>7. \A f \in Frames : freed'[f] <= (IF f <= sent THEN 1 ELSE 0)
  <2> SUFFICES ASSUME NEW f \in Frames PROVE freed'[f] <= (IF f <= sent THEN 1 ELSE 0)
    OBVIOUS
  <2>1. CASE \E p \in S : desc[p] = f
    <3>1. PICK p \in S : desc[p] = f
      BY <2>1
    <3>2. freed[f] = 0 /\ f <= sent
      BY <3>1, <1>6 DEF AttachedCounts
    <3> QED
      BY <2>1, <3>2, <1>2
  <2>2. CASE ~ \E p \in S : desc[p] = f
    BY <2>2, <1>2 DEF FreedOnce
  <2> QED
    BY <2>1, <2>2
<1>8. FreedOnce'
  BY <1>7 DEF FreedOnce
<1>9. sdio_tx_attached' = Cardinality(Used') /\ sdio_tx_attached' \in Nat
  <2>1. Used \subseteq Ports /\ Used' \subseteq Ports
    BY DEF Used
  <2>2. Cardinality(Used \ S) = Cardinality(Used) - Cardinality(Used \cap S)
    BY <2>1, PortsFinite, FS_Difference
  <2>3. Used \cap S = S
    OBVIOUS
  <2>4. Cardinality(Used') \in Nat
    BY <2>1, <1>5, PortsFinite
  <2> QED
    BY <2>2, <2>3, <2>4, <1>5 DEF AttachedCounts
<1>10. \A p \in Used' : freed'[desc'[p]] = 0
  <2> SUFFICES ASSUME NEW p \in Used' PROVE freed'[desc'[p]] = 0
    OBVIOUS
  <2>1. p \in Used /\ p \notin S /\ p \in Ports
    BY <1>5 DEF Used
  <2>2. desc'[p] = desc[p] /\ desc[p] \in Frames /\ freed[desc[p]] = 0
    BY <2>1, <1>4, <1>6 DEF AttachedCounts
  <2>3. ~ \E q \in S : desc[q] = desc[p]
    BY <2>1 DEF AttachedCounts
  <2> QED
    BY <2>2, <2>3, <1>2
<1>11. \A p, q \in Used' : desc'[p] = desc'[q] => p = q
  BY <1>5, <1>4, <1>1 DEF AttachedCounts, Used
<1>12. AttachedCounts'
  BY <1>9, <1>10, <1>11 DEF AttachedCounts
<1>13. \A p \in Ports : desc'[p] <= sent'
  BY <1>1, <1>4 DEF Numbered, NoFrame
<1> QED
  BY <1>3, <1>4, <1>5, <1>8, <1>9, <1>12, <1>13
-----------------------------------------------------------------------------
LEMMA InitInv == Init => Inv
<1> SUFFICES ASSUME Init PROVE Inv
  OBVIOUS
<1> USE DEF Init
<1>1. TypeOK
  <2>1. /\ desc \in [Ports -> Frames \cup {NoFrame}]
        /\ dma \in [Ports -> Frames \cup {NoFrame}]
        /\ freed \in [Frames -> Nat]
    OBVIOUS
  <2>2. /\ sent \in 0..MaxFrames /\ late \in 0..sent
        /\ checked \in 0..Senders /\ resets \in 0..MaxResets
    OBVIOUS
  <2>3. /\ curr_upld_port \in Ports /\ target \in Ports /\ my_curr_rd_port \in Ports
    BY PortsFinite
  <2>4. /\ timer \in BOOLEAN /\ host_present \in BOOLEAN /\ notified \in BOOLEAN
        /\ value \in BOOLEAN /\ UpLdOvr \in BOOLEAN /\ irq \in BOOLEAN
        /\ host_up \in BOOLEAN /\ expired \in BOOLEAN /\ cut \in BOOLEAN
    BY Zenon
  <2>5. sdio_tx_attached \in Nat
    OBVIOUS
  <2> QED
    BY <2>1, <2>2, <2>3, <2>4, <2>5 DEF TypeOK
<1>2. Used = {}
  BY DEF Used
<1>3. FreedOnce /\ LiveWhenRead /\ PortTakenWhileUsed /\ CriticalInv
  BY <1>2 DEF FreedOnce, LiveWhenRead, PortTakenWhileUsed, CriticalInv, Frames
<1>4. AttachedCounts
  BY <1>2, FS_EmptySet DEF AttachedCounts
<1>5. Numbered /\ DmaInv
  BY <1>2 DEF Numbered, DmaInv, NoFrame
<1> QED
  BY <1>1, <1>3, <1>4, <1>5 DEF Inv

(* What a step that touches neither frames, ports nor history keeps. *)
Core == <<desc, sdio_tx_attached, rd_bitmap_old, freed, dma, sent, expired, cut>>

LEMMA SameCore ==
    ASSUME Inv, UNCHANGED Core
    PROVE  /\ FreedOnce' /\ AttachedCounts' /\ PortTakenWhileUsed'
           /\ Used' = Used
           /\ \A p \in Ports : desc'[p] <= sent' /\ dma'[p] <= sent'
<1>1. Used' = Used
  BY DEF Used, Core
<1>2. FreedOnce' /\ PortTakenWhileUsed'
  BY <1>1 DEF Inv, Core, FreedOnce, PortTakenWhileUsed
<1>3. AttachedCounts'
  BY <1>1 DEF Inv, Core, AttachedCounts
<1> QED
  BY <1>1, <1>2, <1>3 DEF Inv, Core, Numbered

(* The sender's steps around the critical section. *)
LEMMA SenderStep ==
    ASSUME Inv,
           \/ bf1b_msg_send_pbuf \/ TakeTxLock \/ SendTimeout \/ DescUsed
           \/ PortFree \/ start_tx_wdt
    PROVE  Inv'
<1> USE DEF bf1b_msg_send_pbuf, TakeTxLock, SendTimeout, DescUsed, PortFree, start_tx_wdt,
            descVars, txVars, workerVars, hwVars, hostVars, histVars
<1>1. UNCHANGED Core /\ RdBitMap' = RdBitMap /\ curr_upld_port' = curr_upld_port
  BY DEF Core
<1>2. wpc' = wpc
  OBVIOUS
<1>3. TypeOK'
  <2> USE DEF Inv, TypeOK
  <2>1. CASE bf1b_msg_send_pbuf
    BY <2>1
  <2>2. CASE TakeTxLock
    BY <2>2
  <2>3. CASE SendTimeout
    BY <2>3
  <2>6. CASE DescUsed
    BY <2>6
  <2>4. CASE PortFree
    BY <2>4
  <2>5. CASE start_tx_wdt
    BY <2>5
  <2> QED
    BY <2>1, <2>2, <2>3, <2>4, <2>5, <2>6
<1>4. LiveWhenRead' /\ DmaInv'
  BY <1>1, <1>2, SameCore DEF Inv, LiveWhenRead, DmaInv, Core
<1>5. txpc' \in {"wait", "critical"} => sent' < MaxFrames
  BY <1>1 DEF Inv, TypeOK, Numbered, Core
<1>6. CriticalInv'
  BY <1>1, SameCore DEF Inv, CriticalInv, Core
<1> QED
  BY <1>1, <1>3, <1>4, <1>5, <1>6, SameCore DEF Inv, Numbered, Core

(* Interrupts, the host and the start of the worker's round only take      *)
(* ports away from those that wait for the host.                           *)
LEMMA AroundStep ==
    ASSUME Inv,
           \/ sdu_interrupt_entry \/ sdio_tx_timer_cb
           \/ sdu_soft_reset_interrupt_entry \/ heartbeat_failure
           \/ WorkerWakes \/ sdio_glb_reset
           \/ ready_cb \/ bl_upload_hdl \/ TimePasses
    PROVE  Inv'
<1> USE DEF sdu_interrupt_entry, sdio_tx_timer_cb, sdu_soft_reset_interrupt_entry,
            heartbeat_failure, WorkerWakes, sdio_glb_reset, ready_cb, bl_upload_hdl, TimePasses,
            descVars, txVars, workerVars, hwVars, hostVars, histVars
<1>1. UNCHANGED Core /\ UNCHANGED <<curr_upld_port, txpc, target>>
  BY DEF Core
<1>2. RdBitMap' \subseteq RdBitMap
  OBVIOUS
<1>3. wpc' # "hardware" => wpc # "hardware" \/ RdBitMap' = {}
  OBVIOUS
<1>4. TypeOK'
  <2> USE DEF Inv, TypeOK
  <2>1. CASE sdu_interrupt_entry
    <3>1. irq' \in BOOLEAN /\ notified' \in BOOLEAN
      BY <2>1, Zenon
    <3>2. UNCHANGED <<Core, timer, txVars, curr_upld_port, RdBitMap, UpLdOvr, hostVars, late,
                      resets, sdu_worker_ev, wpc, value>>
      BY <2>1, <1>1
    <3> HIDE DEF sdu_interrupt_entry
    <3> QED
      BY <3>1, <3>2 DEF Core
  <2>2. CASE sdio_tx_timer_cb
    BY <2>2
  <2>3. CASE sdu_soft_reset_interrupt_entry
    <3>1. /\ irq' \in BOOLEAN /\ notified' \in BOOLEAN
          /\ UpLdOvr' \in BOOLEAN /\ host_up' \in BOOLEAN
      BY <2>3, Zenon
    <3>2. UNCHANGED <<Core, timer, txVars, curr_upld_port, my_curr_rd_port, late, wpc, value>>
      BY <2>3, <1>1
    <3>3. /\ sdu_worker_ev' \in SUBSET {"RESET", "TX_WDT"}
          /\ resets' \in 0..MaxResets /\ RdBitMap' = {}
      BY <2>3
    <3> HIDE DEF sdu_soft_reset_interrupt_entry
    <3> QED
      BY <3>1, <3>2, <3>3 DEF Core
  <2>4. CASE heartbeat_failure
    BY <2>4
  <2>5. CASE WorkerWakes
    <3>1. value' \in BOOLEAN
      BY <2>5 
    <3>2. /\ UNCHANGED <<Core, timer, txVars, curr_upld_port, RdBitMap, irq, hostVars, late, resets>>
          /\ sdu_worker_ev' = sdu_worker_ev
      BY <2>5, <1>1
    <3>3. notified' \in BOOLEAN /\ UpLdOvr' \in BOOLEAN /\ wpc' = "handle"
      BY <2>5
    <3> HIDE DEF WorkerWakes
    <3> QED
      BY <3>1, <3>2, <3>3 DEF Core
  <2>6. CASE sdio_glb_reset
    BY <2>6
  <2>7. CASE ready_cb
    BY <2>7, PortsFinite
  <2>8. CASE bl_upload_hdl
    BY <2>8, NextPortType
  <2>9. CASE TimePasses
    BY <2>9
  <2> QED
    BY <2>1, <2>2, <2>3, <2>4, <2>5, <2>6, <2>7, <2>8, <2>9
<1> HIDE DEF sdu_interrupt_entry, sdio_tx_timer_cb, sdu_soft_reset_interrupt_entry,
            heartbeat_failure, WorkerWakes, sdio_glb_reset, ready_cb, bl_upload_hdl, TimePasses
<1>5. LiveWhenRead'
  BY <1>1, <1>2, <1>3 DEF Inv, LiveWhenRead, Core
<1>6. DmaInv'
  BY <1>1, <1>2, SameCore DEF Inv, DmaInv, Core
<1>7. CriticalInv'
  BY <1>1, SameCore DEF Inv, CriticalInv, Core
<1> QED
  BY <1>1, <1>4, <1>5, <1>6, <1>7, SameCore DEF Inv, Numbered, Core
-----------------------------------------------------------------------------
(* The worker's steps free some frames. *)
LEMMA HandleStep == ASSUME Inv, sdu_interrupt_handle PROVE Inv'
<1> DEFINE done == IF value THEN Read ELSE {}
<1>1. /\ desc' = Released(done) /\ freed' = Freed(done) /\ sent' = sent
      /\ sdio_tx_attached' = sdio_tx_attached - Cardinality(done)
      /\ rd_bitmap_old' = rd_bitmap_old \ done
      /\ UNCHANGED <<curr_upld_port, RdBitMap, dma, expired, cut, txpc, target, late>>
      /\ wpc = "handle"
  BY DEF sdu_interrupt_handle, txVars, hwVars, histVars
<1>2. /\ done \subseteq Used
      /\ done \subseteq rd_bitmap_old \ RdBitMap
  BY DEF Read, Used, Inv, TypeOK
<1> HIDE DEF done
<1>3. /\ desc' \in [Ports -> Frames \cup {NoFrame}]
      /\ freed' \in [Frames -> Nat]
      /\ sdio_tx_attached' \in Nat
      /\ Used' = Used \ done
      /\ \A p \in Ports \ done : desc'[p] = desc[p]
      /\ \A p \in done : desc'[p] = NoFrame
      /\ FreedOnce' /\ AttachedCounts'
      /\ \A p \in Ports : desc'[p] <= sent'
  BY <1>1, <1>2, FreeSome DEF Inv
<1>4. TypeOK'
  <2>1. /\ UNCHANGED <<sdu_worker_ev, timer, host_present, checked, notified, value,
                       UpLdOvr, irq, host_up, my_curr_rd_port, resets>>
        /\ wpc' \in {"reset", "timeouts"}
    BY DEF sdu_interrupt_handle, txVars, hwVars, histVars, workerVars, hostVars
  <2> QED
    BY <1>1, <1>3, <2>1 DEF Inv, TypeOK
<1>5. PortTakenWhileUsed'
  BY <1>1, <1>2, <1>3 DEF Inv, PortTakenWhileUsed
<1>6. LiveWhenRead'
  <2> SUFFICES ASSUME ~expired, NEW q \in RdBitMap PROVE freed'[dma[q]] = 0
    BY <1>1 DEF LiveWhenRead
  <2>1. q \in Ports /\ dma[q] \in Frames /\ freed[dma[q]] = 0
    BY <1>1 DEF Inv, TypeOK, DmaInv, LiveWhenRead
  <2>2. ~ \E p \in done : desc[p] = dma[q]
    <3> SUFFICES ASSUME NEW p \in done, desc[p] = dma[q] PROVE FALSE
      OBVIOUS
    <3>1. p \in Ports /\ p \in Used \cap rd_bitmap_old
      BY <1>2 DEF Used
    <3>2. dma[p] = dma[q] /\ dma[q] # NoFrame
      BY <3>1, <2>1 DEF Inv, DmaInv
    <3>3. p = q
      BY <3>1, <3>2, <2>1 DEF Inv, DmaInv
    <3> QED
      BY <3>3, <1>2
  <2> QED
    BY <1>1, <2>1, <2>2 DEF Freed
<1>7. DmaInv'
  BY <1>1, <1>3 DEF Inv, DmaInv, Used
<1>8. CriticalInv'
  <2>1. target \in Ports
    BY DEF Inv, TypeOK
  <2>2. desc[target] = NoFrame => desc'[target] = NoFrame
    BY <2>1, <1>3
  <2> QED
    BY <1>1, <1>3, <2>2 DEF Inv, CriticalInv
<1>9. Numbered'
  BY <1>1, <1>3 DEF Inv, Numbered
<1> QED
  BY <1>3, <1>4, <1>5, <1>6, <1>7, <1>8, <1>9 DEF Inv

LEMMA ResetStep == ASSUME Inv, sdio_software_reset PROVE Inv'
<1>1. /\ desc' = Released(Used) /\ freed' = Freed(Used) /\ sent' = sent
      /\ sdio_tx_attached' = 0 /\ rd_bitmap_old' = {} /\ curr_upld_port' = 0
      /\ UNCHANGED <<RdBitMap, dma, txpc, target, late>>
      /\ wpc' = "hardware"
  BY DEF sdio_software_reset, ResetPorts, ResetDescs, txVars, hwVars, histVars
<1>2. sdio_tx_attached' = sdio_tx_attached - Cardinality(Used)
  BY <1>1 DEF Inv, TypeOK, AttachedCounts
<1>3. /\ desc' \in [Ports -> Frames \cup {NoFrame}]
      /\ freed' \in [Frames -> Nat]
      /\ sdio_tx_attached' \in Nat
      /\ Used' = {}
      /\ \A p \in Used : desc'[p] = NoFrame
      /\ \A p \in Ports \ Used : desc'[p] = desc[p]
      /\ FreedOnce' /\ AttachedCounts'
      /\ \A p \in Ports : desc'[p] <= sent'
  <2>1. Used \in SUBSET Used
    OBVIOUS
  <2> QED
    BY <1>1, <1>2, <2>1, FreeSome DEF Inv
<1>4. TypeOK'
  <2>1. /\ UNCHANGED <<timer, checked, notified, value, UpLdOvr, irq, host_up,
                       my_curr_rd_port, resets>>
        /\ sdu_worker_ev' \in SUBSET {"RESET", "TX_WDT"}
    BY DEF sdio_software_reset, Inv, TypeOK, hwVars, hostVars
  <2>2. host_present' \in BOOLEAN /\ expired' \in BOOLEAN /\ cut' \in BOOLEAN
    BY Zenon DEF sdio_software_reset
  <2> QED
    BY <1>1, <1>3, <2>1, <2>2, PortsFinite DEF Inv, TypeOK
<1>5. PortTakenWhileUsed' /\ LiveWhenRead'
  BY <1>1, <1>3 DEF PortTakenWhileUsed, LiveWhenRead
<1>6. DmaInv'
  BY <1>1, <1>3 DEF Inv, DmaInv
<1>7. CriticalInv'
  <2>1. desc'[target'] = NoFrame
    BY <1>1, <1>3 DEF Inv, TypeOK, Used
  <2> QED
    BY <1>1, <1>3, <2>1 DEF CriticalInv
<1>8. Numbered'
  BY <1>1, <1>3 DEF Inv, Numbered
<1> QED
  BY <1>3, <1>4, <1>5, <1>6, <1>7, <1>8 DEF Inv

LEMMA EndStep == ASSUME Inv, WorkerEnds PROVE Inv'
<1>1. /\ desc' = Released(Overdue) /\ freed' = Freed(Overdue) /\ sent' = sent
      /\ sdio_tx_attached' = sdio_tx_attached - Cardinality(Overdue)
      /\ UNCHANGED <<rd_bitmap_old, curr_upld_port, RdBitMap, dma, cut, txpc, target, late>>
      /\ wpc' = "wait" /\ wpc # "hardware"
  BY DEF WorkerEnds, txVars, histVars
<1>2. Overdue \in SUBSET Used
  BY DEF Overdue
<1>3. /\ desc' \in [Ports -> Frames \cup {NoFrame}]
      /\ freed' \in [Frames -> Nat]
      /\ sdio_tx_attached' \in Nat
      /\ Used' = Used \ Overdue
      /\ \A p \in Ports \ Overdue : desc'[p] = desc[p]
      /\ \A p \in Overdue : desc'[p] = NoFrame
      /\ FreedOnce' /\ AttachedCounts'
      /\ \A p \in Ports : desc'[p] <= sent'
  BY <1>1, <1>2, FreeSome DEF Inv
<1>4. expired' \in BOOLEAN /\ irq' \in BOOLEAN /\ timer' \in BOOLEAN
  BY Zenon DEF WorkerEnds, TimerStopsIfNone
<1>5. TypeOK'
  <2>1. /\ UNCHANGED <<host_present, checked, notified, value, UpLdOvr, host_up,
                       my_curr_rd_port, resets>>
        /\ sdu_worker_ev' \in SUBSET {"RESET", "TX_WDT"}
    BY DEF WorkerEnds, Inv, TypeOK, txVars, hostVars
  <2> QED
    BY <1>1, <1>3, <1>4, <2>1 DEF Inv, TypeOK
<1>6. ~expired' => ~expired /\ Overdue = {}
  BY Zenon DEF WorkerEnds
<1>7. Overdue = {} => freed' = freed
  BY <1>1 DEF Freed, Inv, TypeOK
<1>8. LiveWhenRead'
  BY <1>1, <1>6, <1>7 DEF Inv, LiveWhenRead
<1>9. PortTakenWhileUsed'
  BY <1>1, <1>3, <1>6 DEF Inv, PortTakenWhileUsed
<1>10. DmaInv'
  BY <1>1, <1>3 DEF Inv, DmaInv, Used
<1>11. CriticalInv'
  <2>1. target \in Ports
    BY DEF Inv, TypeOK
  <2>2. desc[target] = NoFrame => desc'[target] = NoFrame
    BY <2>1, <1>3
  <2> QED
    BY <1>1, <1>3, <2>2 DEF Inv, CriticalInv
<1>12. Numbered'
  BY <1>1, <1>3 DEF Inv, Numbered
<1> QED
  BY <1>3, <1>5, <1>8, <1>9, <1>10, <1>11, <1>12 DEF Inv
-----------------------------------------------------------------------------
(* The critical section puts a new frame into a free descriptor. *)
LEMMA AttachStep == ASSUME Inv, Attach PROVE Inv'
<1>1. /\ txpc = "critical" /\ txpc' = "timer" /\ wpc = "wait"
      /\ sent' = sent + 1
      /\ desc' = [desc EXCEPT ![target] = sent + 1]
      /\ dma' = [dma EXCEPT ![curr_upld_port] = sent + 1]
      /\ RdBitMap' = RdBitMap \cup {curr_upld_port}
      /\ rd_bitmap_old' = rd_bitmap_old \cup {curr_upld_port}
      /\ curr_upld_port' = NextPort(curr_upld_port)
      /\ sdio_tx_attached' = sdio_tx_attached + 1
      /\ UNCHANGED <<freed, expired, late, wpc>>
  BY DEF Attach, Idle, workerVars
<1>2. cut' <=> (cut \/ target # curr_upld_port)
  BY Zenon DEF Attach
<1>3. /\ target \in Ports /\ curr_upld_port \in Ports /\ sent \in Nat /\ sent < MaxFrames
      /\ desc \in [Ports -> Frames \cup {NoFrame}]
      /\ dma \in [Ports -> Frames \cup {NoFrame}]
      /\ freed \in [Frames -> Nat]
  BY <1>1 DEF Inv, TypeOK, Numbered
<1>4. sent + 1 \in Frames /\ freed[sent + 1] = 0
  <2>1. sent + 1 \in Frames
    BY <1>3 DEF Frames
  <2> QED
    BY <2>1, <1>3 DEF Inv, FreedOnce
<1>5. /\ curr_upld_port \notin rd_bitmap_old
      /\ desc[target] = NoFrame
      /\ target # curr_upld_port => Used = {} /\ rd_bitmap_old = {}
  BY <1>1 DEF Inv, CriticalInv
<1>6. /\ desc'[target] = sent + 1
      /\ \A p \in Ports \ {target} : desc'[p] = desc[p]
      /\ dma'[curr_upld_port] = sent + 1
      /\ \A p \in Ports \ {curr_upld_port} : dma'[p] = dma[p]
      /\ desc' \in [Ports -> Frames \cup {NoFrame}]
      /\ dma' \in [Ports -> Frames \cup {NoFrame}]
  BY <1>1, <1>3, <1>4
<1>7. \A p \in Ports : desc[p] <= sent /\ dma[p] <= sent
  BY DEF Inv, Numbered
<1>8. Used' = Used \cup {target} /\ target \notin Used
  BY <1>3, <1>4, <1>5, <1>6 DEF Used, Frames, NoFrame
<1>9. TypeOK'
  <2>1. cut' \in BOOLEAN
    BY Zenon DEF Attach
  <2>2. UNCHANGED <<sdu_worker_ev, timer, host_present, checked, notified, value,
                    UpLdOvr, irq, host_up, my_curr_rd_port, resets, target>>
    BY DEF Attach, workerVars, hostVars
  <2>3. curr_upld_port' \in Ports
    BY <1>1, <1>3, NextPortType
  <2>4. sent' \in 0..MaxFrames /\ late' \in 0..sent'
    BY <1>1, <1>3 DEF Inv, TypeOK
  <2>5. sdio_tx_attached' \in Nat
    BY <1>1 DEF Inv, TypeOK
  <2> QED
    BY <1>1, <1>3, <1>6, <2>1, <2>2, <2>3, <2>4, <2>5 DEF Inv, TypeOK
<1>10. FreedOnce'
  BY <1>1, <1>3 DEF Inv, FreedOnce, Frames
<1>11. AttachedCounts'
  <2>1. IsFiniteSet(Used) /\ Cardinality(Used) \in Nat
    BY PortsFinite DEF Used
  <2>2. Cardinality(Used') = Cardinality(Used) + 1
    BY <1>8, <2>1, FS_AddElement
  <2>3. \A p \in Used : p \in Ports /\ p # target /\ desc'[p] = desc[p]
    BY <1>6, <1>8 DEF Used
  <2>4. \A p \in Used' : freed'[desc'[p]] = 0
    BY <1>1, <1>4, <1>6, <1>8, <2>3 DEF Inv, AttachedCounts
  <2>5. \A p \in Used : desc'[p] # sent + 1
    BY <1>3, <1>7, <2>3
  <2>6. \A p, q \in Used' : desc'[p] = desc'[q] => p = q
    BY <1>6, <1>8, <2>3, <2>5 DEF Inv, AttachedCounts
  <2>7. sdio_tx_attached' = Cardinality(Used')
    BY <1>1, <2>2 DEF Inv, AttachedCounts
  <2> QED
    BY <2>4, <2>6, <2>7 DEF AttachedCounts
<1>12. LiveWhenRead'
  BY <1>1, <1>4, <1>6 DEF Inv, TypeOK, LiveWhenRead
<1>13. PortTakenWhileUsed'
  BY <1>1, <1>2, <1>8 DEF Inv, PortTakenWhileUsed
<1>14. DmaInv'
  <2>1. \A p, q \in Ports : dma'[p] = dma'[q] /\ dma'[p] # NoFrame => p = q
    BY <1>3, <1>6, <1>7 DEF Inv, DmaInv
  <2>2. \A p \in RdBitMap' : dma'[p] # NoFrame
    BY <1>1, <1>3, <1>6 DEF Inv, TypeOK, DmaInv, NoFrame
  <2>3. \A p \in Used' \cap rd_bitmap_old' : dma'[p] = desc'[p]
    BY <1>1, <1>5, <1>6, <1>8 DEF Inv, DmaInv, Used
  <2> QED
    BY <2>1, <2>2, <2>3 DEF DmaInv
<1>15. CriticalInv'
  BY <1>1 DEF CriticalInv
<1>16. Numbered'
  <2>1. \A p \in Ports : desc'[p] <= sent' /\ dma'[p] <= sent'
    <3> SUFFICES ASSUME NEW p \in Ports PROVE desc'[p] <= sent' /\ dma'[p] <= sent'
      OBVIOUS
    <3>1. desc[p] \in Int /\ dma[p] \in Int /\ desc[p] <= sent /\ dma[p] <= sent
      BY <1>3, <1>7 DEF Frames, NoFrame
    <3>2. desc'[p] = desc[p] \/ desc'[p] = sent + 1
      BY <1>6
    <3>3. dma'[p] = dma[p] \/ dma'[p] = sent + 1
      BY <1>6
    <3> QED
      BY <3>1, <3>2, <3>3, <1>1, <1>3
  <2> QED
    BY <1>1, <2>1 DEF Numbered
<1> QED
  BY <1>9, <1>10, <1>11, <1>12, <1>13, <1>14, <1>15, <1>16 DEF Inv
-----------------------------------------------------------------------------
LEMMA StepInv == Inv /\ [Next]_vars => Inv'
<1> SUFFICES ASSUME Inv, [Next]_vars PROVE Inv'
  OBVIOUS
<1>1. CASE UNCHANGED vars
  <2>1. UNCHANGED Core /\ UNCHANGED <<RdBitMap, curr_upld_port, txpc, target, wpc>>
    BY <1>1 DEF vars, descVars, txVars, workerVars, hwVars, hostVars, histVars, Core
  <2>2. TypeOK'
    BY <1>1 DEF vars, descVars, txVars, workerVars, hwVars, hostVars, histVars, Inv, TypeOK
  <2>3. LiveWhenRead' /\ DmaInv' /\ CriticalInv'
    BY <2>1, SameCore DEF Inv, LiveWhenRead, DmaInv, CriticalInv, Core
  <2> QED
    BY <2>1, <2>2, <2>3, SameCore DEF Inv, Numbered, Core
<1>2. CASE bf1b_msg_send_pbuf \/ Sender
  BY <1>2, SenderStep, AttachStep DEF Sender
<1>3. CASE \/ sdu_interrupt_entry \/ sdio_tx_timer_cb
           \/ sdu_soft_reset_interrupt_entry \/ heartbeat_failure
           \/ ready_cb \/ bl_upload_hdl \/ TimePasses
  BY <1>3, AroundStep
<1>4. CASE Worker
  BY <1>4, AroundStep, HandleStep, ResetStep, EndStep DEF Worker
<1> QED
  BY <1>1, <1>2, <1>3, <1>4 DEF Next

LEMMA Invariant == Spec => []Inv
  BY InitInv, StepInv, PTL DEF Spec
-----------------------------------------------------------------------------
(* The frames that wait for the host form a queue in the ring of ports: n  *)
(* of them from the port b on, in order, up to the sender's next port.     *)
Wrap(b, i) == IF b + i < NPorts THEN b + i ELSE b + i - NPorts

Queue(b, n) ==
    /\ RdBitMap = {Wrap(b, i) : i \in 0..(n - 1)}
    /\ Wrap(b, n) = curr_upld_port
    /\ \A i \in 0..(n - 1) : dma[Wrap(b, i)] = sent - n + 1 + i

(* A host that has yet to probe the card will start with the first port.   *)
NextRead == IF host_up THEN my_curr_rd_port ELSE 0

(* The queue starts where the host reads next, unless a reset is on its    *)
(* way to the worker, which then does not wait.                            *)
OrderInv ==
    /\ "RESET" \in sdu_worker_ev => notified \/ wpc \in {"handle", "reset"}
    /\ wpc = "hardware" => curr_upld_port = 0
    /\ wpc # "hardware" => RdBitMap \subseteq rd_bitmap_old
    /\ wpc # "hardware" /\ (host_up \/ "RESET" \notin sdu_worker_ev) =>
          \E n \in 0..NPorts : Queue(NextRead, n)

LEMMA WrapIsRem ==
    ASSUME NEW b \in Ports, NEW i \in 0..NPorts
    PROVE  ((b + i) % NPorts) = Wrap(b, i)
<1> DEFINE x == b + i
<1>1. x \in Nat /\ x < 2 * NPorts /\ NPorts \in Nat \ {0}
  BY DEF Ports, SdioUploadAssumption
<1>2. Wrap(b, i) = IF x < NPorts THEN x ELSE x - NPorts
  BY <1>1 DEF Wrap, Ports
<1> HIDE DEF x
<1>3. CASE x < NPorts
  <2>1. (x % NPorts) = x
    BY <1>1, <1>3
  <2> QED
    BY <2>1, <1>2, <1>3 DEF x
<1>4. CASE x >= NPorts
  <2>1. (x % NPorts) = x - NPorts
    BY <1>1, <1>4
  <2>2. Wrap(b, i) = x - NPorts
    BY <1>1, <1>2, <1>4
  <2>3. (x % NPorts) = Wrap(b, i)
    BY <2>1, <2>2, Zenon
  <2> QED
    BY <2>3, Zenon DEF x
<1> QED
  BY <1>1, <1>3, <1>4

LEMMA WrapPort ==
    ASSUME NEW b \in Ports
    PROVE  /\ Wrap(b, 0) = b
           /\ NextPort(b) = Wrap(b, 1)
           /\ \A i \in 0..NPorts : Wrap(b, i) \in Ports
           /\ \A i \in 0..(NPorts - 1) : Wrap(Wrap(b, i), 1) = Wrap(b, i + 1)
           /\ \A i \in 0..(NPorts - 1) : Wrap(Wrap(b, 1), i) = Wrap(b, i + 1)
<1>1. 1 \in 0..NPorts
  BY DEF SdioUploadAssumption
<1>2. NextPort(b) = Wrap(b, 1)
  BY <1>1, WrapIsRem DEF NextPort
<1> QED
  BY <1>2 DEF Wrap, Ports

LEMMA WrapInjective ==
    ASSUME NEW b \in Ports, NEW i \in 0..(NPorts - 1), NEW j \in 0..(NPorts - 1),
           Wrap(b, i) = Wrap(b, j)
    PROVE  i = j
  BY DEF Wrap, Ports

(* The whole ring is every port. *)
LEMMA WrapAll ==
    ASSUME NEW b \in Ports, NEW p \in Ports
    PROVE  \E i \in 0..(NPorts - 1) : Wrap(b, i) = p
<1>1. CASE p >= b
  <2>1. p - b \in 0..(NPorts - 1) /\ Wrap(b, p - b) = p
    BY <1>1 DEF Wrap, Ports
  <2> QED
    BY <2>1
<1>2. CASE p < b
  <2>1. p + NPorts - b \in 0..(NPorts - 1) /\ Wrap(b, p + NPorts - b) = p
    BY <1>2 DEF Wrap, Ports
  <2> QED
    BY <2>1
<1> QED
  BY <1>1, <1>2 DEF Ports

LEMMA QueueSize ==
    ASSUME NEW b \in Ports, NEW n \in 0..NPorts, Queue(b, n)
    PROVE  Cardinality(RdBitMap) = n
<1> DEFINE f == [i \in 0..(n - 1) |-> Wrap(b, i)]
<1>1. /\ \A i \in 0..(n - 1) : f[i] \in RdBitMap
      /\ \A p \in RdBitMap : \E i \in 0..(n - 1) : f[i] = p
      /\ f \in [0..(n - 1) -> RdBitMap]
  BY DEF Queue
<1>2. \A i, j \in 0..(n - 1) : f[i] = f[j] => i = j
  BY WrapInjective
<1> HIDE DEF f
<1>3. f \in Surjection(0..(n - 1), RdBitMap)
  BY <1>1 DEF Surjection
<1>4. f \in Injection(0..(n - 1), RdBitMap)
  BY <1>1, <1>2 DEF Injection, IsInjective
<1>5. IsFiniteSet(0..(n - 1)) /\ Cardinality(0..(n - 1)) = n
  BY FS_Interval
<1> QED
  BY <1>3, <1>4, <1>5, FS_Surjection

(* A frame is attached behind the last one. *)
LEMMA QueueAppend ==
    ASSUME Inv, Attach, NEW b \in Ports, NEW n \in 0..NPorts, Queue(b, n),
           curr_upld_port \notin RdBitMap
    PROVE  n + 1 \in 0..NPorts /\ Queue(b, n + 1)'
<1>1. /\ RdBitMap' = RdBitMap \cup {curr_upld_port}
      /\ dma' = [dma EXCEPT ![curr_upld_port] = sent + 1]
      /\ sent' = sent + 1
      /\ curr_upld_port' = NextPort(curr_upld_port)
  BY DEF Attach
<1>2. /\ curr_upld_port \in Ports /\ sent \in Nat
      /\ dma \in [Ports -> Frames \cup {NoFrame}]
  BY DEF Inv, TypeOK
<1>3. /\ RdBitMap = {Wrap(b, i) : i \in 0..(n - 1)}
      /\ Wrap(b, n) = curr_upld_port
      /\ \A i \in 0..(n - 1) : dma[Wrap(b, i)] = sent - n + 1 + i
  BY DEF Queue
<1>4. n # NPorts
  <2> SUFFICES ASSUME n = NPorts PROVE FALSE
    OBVIOUS
  <2>1. \E i \in 0..(n - 1) : Wrap(b, i) = curr_upld_port
    BY <1>2, WrapAll
  <2> QED
    BY <2>1, <1>3
<1>5. n \in 0..(NPorts - 1) /\ n + 1 \in 0..NPorts
  BY <1>4 DEF SdioUploadAssumption
<1>6. 0..((n + 1) - 1) = 0..(n - 1) \cup {n}
  OBVIOUS
<1>7. RdBitMap' = {Wrap(b, i) : i \in 0..((n + 1) - 1)}
  BY <1>1, <1>3, <1>6
<1>8. Wrap(b, n + 1) = curr_upld_port'
  BY <1>1, <1>2, <1>3, <1>5, WrapPort
<1>9. \A i \in 0..((n + 1) - 1) : dma'[Wrap(b, i)] = sent' - (n + 1) + 1 + i
  <2> SUFFICES ASSUME NEW i \in 0..((n + 1) - 1)
               PROVE  dma'[Wrap(b, i)] = sent' - (n + 1) + 1 + i
    OBVIOUS
  <2>1. CASE i = n
    <3>1. dma'[Wrap(b, i)] = sent + 1
      BY <2>1, <1>1, <1>2, <1>3
    <3> QED
      BY <3>1, <2>1, <1>1, <1>2
  <2>2. CASE i # n
    <3>1. i \in 0..(n - 1)
      BY <2>2
    <3>2. Wrap(b, i) \in Ports /\ Wrap(b, i) # curr_upld_port
      BY <3>1, <1>3, <1>5, WrapPort
    <3>3. dma'[Wrap(b, i)] = dma[Wrap(b, i)]
      BY <3>2, <1>1, <1>2
    <3> QED
      BY <3>1, <3>3, <1>1, <1>2, <1>3
  <2> QED
    BY <2>1, <2>2
<1> QED
  BY <1>5, <1>7, <1>8, <1>9 DEF Queue

(* The host reads the first one. *)
LEMMA QueueRead ==
    ASSUME Inv, NEW b \in Ports, NEW n \in 0..NPorts, Queue(b, n), RdBitMap # {},
           RdBitMap' = RdBitMap \ {b}, UNCHANGED <<dma, sent, curr_upld_port>>
    PROVE  n - 1 \in 0..NPorts /\ Queue(NextPort(b), n - 1)'
<1>1. /\ RdBitMap = {Wrap(b, i) : i \in 0..(n - 1)}
      /\ Wrap(b, n) = curr_upld_port
      /\ \A i \in 0..(n - 1) : dma[Wrap(b, i)] = sent - n + 1 + i
  BY DEF Queue
<1>2. n \in 1..NPorts
  BY <1>1
<1>3. /\ n - 1 \in 0..(NPorts - 1) /\ NPorts \in Nat \ {0}
      /\ \A i \in 0..((n - 1) - 1) : i + 1 \in 1..(n - 1) /\ i \in 0..(NPorts - 1)
  BY <1>2 DEF SdioUploadAssumption
<1>4. /\ Wrap(b, 0) = b
      /\ NextPort(b) = Wrap(b, 1)
      /\ \A i \in 0..(NPorts - 1) : Wrap(Wrap(b, 1), i) = Wrap(b, i + 1)
  BY WrapPort
<1>5. \A i \in 1..(n - 1) : Wrap(b, i) # b
  <2> SUFFICES ASSUME NEW i \in 1..(n - 1), Wrap(b, i) = b PROVE FALSE
    OBVIOUS
  <2>1. i \in 0..(NPorts - 1) /\ 0 \in 0..(NPorts - 1)
    BY <1>3
  <2>2. i = 0
    BY <2>1, <1>4, WrapInjective
  <2> QED
    BY <2>2
<1>6. RdBitMap' = {Wrap(b, i) : i \in 1..(n - 1)}
  <2>1. 0..(n - 1) = {0} \cup 1..(n - 1)
    BY <1>2
  <2> QED
    BY <2>1, <1>1, <1>4, <1>5
<1>7. {Wrap(b, i) : i \in 1..(n - 1)} = {Wrap(Wrap(b, 1), i) : i \in 0..((n - 1) - 1)}
  <2>1. \A i \in 1..(n - 1) : i - 1 \in 0..((n - 1) - 1) /\ (i - 1) + 1 = i
    BY <1>2
  <2>2. \A i \in 1..(n - 1) : Wrap(b, i) = Wrap(Wrap(b, 1), i - 1)
    BY <2>1, <1>3, <1>4
  <2>3. \A i \in 0..((n - 1) - 1) : Wrap(Wrap(b, 1), i) = Wrap(b, i + 1)
    BY <1>3, <1>4
  <2> QED
    BY <2>1, <2>2, <2>3, <1>3
<1>8. Wrap(Wrap(b, 1), n - 1) = curr_upld_port
  BY <1>1, <1>2, <1>3, <1>4
<1>9. \A i \in 0..((n - 1) - 1) : dma[Wrap(Wrap(b, 1), i)] = sent - (n - 1) + 1 + i
  <2> SUFFICES ASSUME NEW i \in 0..((n - 1) - 1)
               PROVE  dma[Wrap(Wrap(b, 1), i)] = sent - (n - 1) + 1 + i
    OBVIOUS
  <2>1. Wrap(Wrap(b, 1), i) = Wrap(b, i + 1) /\ i + 1 \in 0..(n - 1)
    BY <1>3, <1>4
  <2>2. dma[Wrap(b, i + 1)] = sent - n + 1 + (i + 1)
    BY <2>1, <1>1
  <2> QED
    BY <2>1, <2>2 DEF Inv, TypeOK
<1>10. Queue(Wrap(b, 1), n - 1)'
  BY <1>6, <1>7, <1>8, <1>9 DEF Queue
<1> QED
  BY <1>2, <1>4, <1>10

LEMMA InitOrder == Init => OrderInv
<1> SUFFICES ASSUME Init PROVE OrderInv
  OBVIOUS
<1>1. Queue(NextRead, 0)
  BY DEF Init, Queue, NextRead, Wrap, SdioUploadAssumption
<1>2. 0 \in 0..NPorts
  BY DEF SdioUploadAssumption
<1> QED
  BY <1>1, <1>2 DEF Init, OrderInv

(* Steps that leave the frames and ports alone, and raise no reset but     *)
(* with a notification.                                                    *)
LEMMA SameOrder ==
    ASSUME Inv, OrderInv,
           UNCHANGED <<RdBitMap, rd_bitmap_old, dma, sent, curr_upld_port, hostVars>>,
           (wpc = "hardware" \/ wpc' = "hardware") => wpc' = wpc,
           "RESET" \in sdu_worker_ev => "RESET" \in sdu_worker_ev',
           "RESET" \in sdu_worker_ev' => notified' \/ wpc' \in {"handle", "reset"}
    PROVE  OrderInv'
<1>1. NextRead' = NextRead /\ \A n \in 0..NPorts : Queue(NextRead, n) => Queue(NextRead, n)'
  BY DEF Queue, NextRead, hostVars
<1> QED
  BY <1>1 DEF OrderInv, hostVars

LEMMA StepOrder == Inv /\ Inv' /\ OrderInv /\ [Next]_vars => OrderInv'
<1> SUFFICES ASSUME Inv, Inv', OrderInv, [Next]_vars PROVE OrderInv'
  OBVIOUS
<1> USE DEF descVars, txVars, workerVars, hwVars, hostVars, histVars
<1>1. CASE UNCHANGED vars
  BY <1>1, SameOrder DEF vars, OrderInv
<1>2. CASE bf1b_msg_send_pbuf \/ TakeTxLock \/ SendTimeout \/ PortFree \/ start_tx_wdt \/ TimePasses
  BY <1>2, SameOrder DEF bf1b_msg_send_pbuf, TakeTxLock, SendTimeout, PortFree, start_tx_wdt,
                         TimePasses, OrderInv
<1>3. CASE DescUsed \/ sdu_interrupt_entry \/ sdio_tx_timer_cb \/ heartbeat_failure
  BY <1>3, SameOrder DEF DescUsed, sdu_interrupt_entry, sdio_tx_timer_cb, heartbeat_failure,
                         OrderInv
<1>4. CASE WorkerWakes
  BY <1>4, SameOrder DEF WorkerWakes, OrderInv
<1>5. CASE WorkerEnds
  BY <1>5, SameOrder DEF WorkerEnds, OrderInv
<1>6. CASE sdu_interrupt_handle
  <2>1. /\ UNCHANGED <<RdBitMap, dma, sent, curr_upld_port, host_up, my_curr_rd_port,
                       sdu_worker_ev, notified>>
        /\ wpc = "handle" /\ wpc' = IF "RESET" \in sdu_worker_ev THEN "reset" ELSE "timeouts"
    BY <1>6 DEF sdu_interrupt_handle
  <2>2. RdBitMap \cap rd_bitmap_old \subseteq rd_bitmap_old'
    BY <1>6 DEF sdu_interrupt_handle, Read
  <2>3. NextRead' = NextRead /\ \A n \in 0..NPorts : Queue(NextRead, n) => Queue(NextRead, n)'
    BY <2>1 DEF Queue, NextRead
  <2> QED
    BY <2>1, <2>2, <2>3 DEF OrderInv
<1>7. CASE sdu_soft_reset_interrupt_entry
  BY <1>7 DEF sdu_soft_reset_interrupt_entry, OrderInv
<1>8. CASE sdio_software_reset
  BY <1>8 DEF sdio_software_reset, ResetPorts, OrderInv
<1>9. CASE sdio_glb_reset
  <2>1. /\ RdBitMap' = {} /\ host_up' = FALSE /\ curr_upld_port' = 0 /\ wpc' = "timeouts"
        /\ UNCHANGED <<sdu_worker_ev, notified>> /\ wpc = "hardware"
    BY <1>9 DEF sdio_glb_reset, OrderInv
  <2>2. Queue(NextRead, 0)'
    BY <2>1 DEF Queue, NextRead, Wrap, SdioUploadAssumption
  <2>3. 0 \in 0..NPorts
    BY DEF SdioUploadAssumption
  <2> QED
    BY <2>1, <2>2, <2>3 DEF OrderInv
<1>10. CASE ready_cb
  <2>1. /\ UNCHANGED <<RdBitMap, rd_bitmap_old, dma, sent, curr_upld_port, wpc, sdu_worker_ev>>
        /\ wpc = "wait" /\ ~notified /\ ~host_up /\ host_up' /\ my_curr_rd_port' = 0
    BY <1>10 DEF ready_cb, Idle
  <2>2. "RESET" \notin sdu_worker_ev
    BY <2>1 DEF OrderInv
  <2>3. NextRead = 0 /\ NextRead' = 0
    BY <2>1 DEF NextRead
  <2>4. \A n \in 0..NPorts : Queue(0, n) => Queue(0, n)'
    BY <2>1 DEF Queue
  <2> QED
    BY <2>1, <2>2, <2>3, <2>4 DEF OrderInv
<1>11. CASE bl_upload_hdl
  <2>1. /\ UNCHANGED <<rd_bitmap_old, dma, sent, curr_upld_port, wpc, sdu_worker_ev, notified>>
        /\ host_up /\ host_up' /\ RdBitMap # {} /\ RdBitMap' = RdBitMap \ {my_curr_rd_port}
        /\ my_curr_rd_port' = NextPort(my_curr_rd_port)
    BY <1>11 DEF bl_upload_hdl
  <2>2. PICK b \in Ports : b = my_curr_rd_port
    BY DEF Inv, TypeOK
  <2>3. NextRead = b /\ NextRead' = NextPort(b)
    BY <2>1, <2>2 DEF NextRead
  <2>4. ASSUME wpc # "hardware" PROVE \E n \in 0..NPorts : Queue(NextRead, n)'
    <3>1. PICK n \in 0..NPorts : Queue(b, n)
      BY <2>1, <2>3, <2>4 DEF OrderInv
    <3>2. n - 1 \in 0..NPorts /\ Queue(NextPort(b), n - 1)'
      BY <2>1, <2>2, <3>1, QueueRead
    <3> QED
      BY <2>3, <3>2
  <2> QED
    BY <2>1, <2>4 DEF OrderInv
<1>12. CASE Attach
  <2>1. /\ UNCHANGED <<host_up, my_curr_rd_port, wpc, sdu_worker_ev, notified>>
        /\ wpc = "wait" /\ txpc = "critical"
        /\ RdBitMap' = RdBitMap \cup {curr_upld_port}
        /\ rd_bitmap_old' = rd_bitmap_old \cup {curr_upld_port}
    BY <1>12 DEF Attach, Idle
  <2>2. curr_upld_port \notin RdBitMap
    BY <2>1 DEF Inv, CriticalInv, OrderInv
  <2>3. PICK b \in Ports : b = NextRead
    BY PortsFinite DEF Inv, TypeOK, NextRead
  <2>4. NextRead' = b
    BY <2>1, <2>3 DEF NextRead
  <2>5. ASSUME host_up \/ "RESET" \notin sdu_worker_ev
        PROVE  \E n \in 0..NPorts : Queue(NextRead, n)'
    <3>1. PICK n \in 0..NPorts : Queue(b, n)
      BY <2>1, <2>3, <2>5 DEF OrderInv
    <3>2. n + 1 \in 0..NPorts /\ Queue(b, n + 1)'
      BY <1>12, <2>2, <3>1, QueueAppend
    <3> QED
      BY <2>4, <3>2
  <2> QED
    BY <2>1, <2>5 DEF OrderInv
<1> QED
  BY <1>1, <1>2, <1>3, <1>4, <1>5, <1>6, <1>7, <1>8, <1>9, <1>10, <1>11, <1>12
  DEF Next, Sender, Worker

LEMMA OrderInHost == Inv /\ OrderInv => HostInOrder
<1> SUFFICES ASSUME Inv, OrderInv, host_up, wpc # "hardware"
             PROVE  \A i \in 0..(Cardinality(RdBitMap) - 1) :
                       /\ ((my_curr_rd_port + i) % NPorts) \in RdBitMap
                       /\ dma[(my_curr_rd_port + i) % NPorts]
                             = sent - Cardinality(RdBitMap) + 1 + i
  BY DEF HostInOrder
<1>1. my_curr_rd_port \in Ports
  BY DEF Inv, TypeOK
<1>2. PICK n \in 0..NPorts : Queue(my_curr_rd_port, n)
  BY DEF OrderInv, NextRead
<1>3. Cardinality(RdBitMap) = n
  BY <1>1, <1>2, QueueSize
<1>4. \A i \in 0..(n - 1) :
         /\ Wrap(my_curr_rd_port, i) \in RdBitMap
         /\ dma[Wrap(my_curr_rd_port, i)] = sent - n + 1 + i
  BY <1>2 DEF Queue
<1>5. \A i \in 0..(n - 1) : ((my_curr_rd_port + i) % NPorts) = Wrap(my_curr_rd_port, i)
  <2>1. \A i \in 0..(n - 1) : i \in 0..NPorts
    BY <1>2
  <2> QED
    BY <1>1, <2>1, WrapIsRem
<1> HIDE DEF Wrap
<1> QED
  BY <1>3, <1>4, <1>5, Zenon
-----------------------------------------------------------------------------
(* Every variable keeps its type, however often the ports are used. *)
THEOREM TypeCorrect == Spec => []TypeOK
<1>1. Inv => TypeOK
  BY DEF Inv
<1> QED
  BY <1>1, Invariant, PTL

(* No frame is confirmed twice, or before it was attached, in whatever     *)
(* order the host's reads, the worker, the watchdog and resets fall.       *)
THEOREM FreedCorrect == Spec => []FreedOnce
<1>1. Inv => FreedOnce
  BY DEF Inv
<1> QED
  BY <1>1, Invariant, PTL

(* sdio_tx_attached is the number of used descriptors, which hold          *)
(* different frames nobody has freed.                                      *)
THEOREM AttachedCorrect == Spec => []AttachedCounts
<1>1. Inv => AttachedCounts
  BY DEF Inv
<1> QED
  BY <1>1, Invariant, PTL

(* Between a reset and the first frame the watchdog gives up, no buffer is *)
(* freed while the host may read it.                                       *)
THEOREM LiveCorrect == Spec => []LiveWhenRead
<1>1. Inv => LiveWhenRead
  BY DEF Inv
<1> QED
  BY <1>1, Invariant, PTL

(* rd_bitmap_old and the descriptors agree, unless the watchdog or a reset *)
(* separated them.                                                         *)
THEOREM PortsCorrect == Spec => []PortTakenWhileUsed
<1>1. Inv => PortTakenWhileUsed
  BY DEF Inv
<1> QED
  BY <1>1, Invariant, PTL

(* Whatever the watchdog frees and whenever a reset comes, the ports that  *)
(* wait for the host are those from its own next port on, with the frames  *)
(* it has not read, in order: host and device need no resynchronisation.   *)
THEOREM OrderCorrect == Spec => []HostInOrder
<1>1. Init => Inv /\ OrderInv
  BY InitInv, InitOrder
<1>2. (Inv /\ OrderInv) /\ [Next]_vars => (Inv /\ OrderInv)'
  BY StepInv, StepOrder
<1>3. Inv /\ OrderInv => HostInOrder
  BY OrderInHost
<1> QED
  BY <1>1, <1>2, <1>3, PTL DEF Spec
=============================================================================
