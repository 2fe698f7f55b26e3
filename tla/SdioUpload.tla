----------------------------- MODULE SdioUpload -----------------------------
(***************************************************************************)
(* The frames the device hands to its host over SDIO, trcver_sdio.c: a     *)
(* task attaches a frame to the next upload port, the host reads the ports *)
(* in turn, and the sdu worker confirms what was read.  A watchdog frees   *)
(* the frames the host left too long, and either side may reset.           *)
(*                                                                         *)
(* The worker has the highest priority: the sender runs only while the     *)
(* worker waits.  Interrupts and the host run at any time.  The frames are *)
(* numbered in the order they are attached, 0 is none.  The other          *)
(* direction is left out, except for the host's Ready command.             *)
(***************************************************************************)
EXTENDS Integers, FiniteSets

CONSTANTS NPorts,           \* upload ports, 16 in the code
          Senders,          \* tasks that may wait for tx_lock
          MaxFrames,        \* bound on the frames attached
          MaxResets         \* bound on the resets

ASSUME SdioUploadAssumption ==
    /\ NPorts \in Nat \ {0} /\ Senders \in Nat
    /\ MaxFrames \in Nat /\ MaxResets \in Nat

Ports == 0..(NPorts - 1)
Frames == 1..MaxFrames
NoFrame == 0

VARIABLES
    \* trcver_sdio.c
    desc,               \* sdio_tx_descs: the frame of a used descriptor
    sdio_tx_attached,
    rd_bitmap_old,      \* as a set of ports
    curr_upld_port,
    sdu_worker_ev,
    timer,              \* is sdio_tx_wdt_timer active?
    \* net_wifi_transceiver.c
    host_present,
    checked,            \* senders past the look at host_present, before tx_lock
    txpc,               \* the point the holder of tx_lock has reached
    target,             \* the port its desc points to
    \* the sdu worker
    notified,
    wpc,                \* the point the worker has reached
    value,              \* was UpLdOvr in the interrupt status it took?
    \* hardware and host (external)
    RdBitMap, dma,      \* the ports that wait for the host, and their frames
    UpLdOvr,            \* a port was read, in CardIntStatus
    irq,                \* is SDIO_IRQn enabled?
    host_up, my_curr_rd_port,
    \* history and environment
    sent,               \* the number of frames attached
    late,               \* those up to this one are older than SDIO_TX_WDT_TIMEOUT
    freed,              \* how often a frame was confirmed
    expired,            \* did the watchdog free a frame since the last reset?
    cut,                \* did a reset separate a frame from its port?
    resets

descVars == <<desc, sdio_tx_attached, rd_bitmap_old, freed>>
txVars == <<host_present, checked, txpc, target>>
workerVars == <<sdu_worker_ev, notified, wpc, value>>
hwVars == <<RdBitMap, dma, UpLdOvr, irq>>
hostVars == <<host_up, my_curr_rd_port>>
histVars == <<sent, late, expired, cut, resets>>
vars == <<descVars, curr_upld_port, timer, txVars, workerVars, hwVars, hostVars, histVars>>

Used == {p \in Ports : desc[p] # NoFrame}
Idle == wpc = "wait" /\ ~notified       \* the worker leaves the processor
-----------------------------------------------------------------------------
Init ==
    /\ desc = [p \in Ports |-> NoFrame]
    /\ sdio_tx_attached = 0
    /\ rd_bitmap_old = {}
    /\ curr_upld_port = 0
    /\ sdu_worker_ev = {}
    /\ timer = FALSE
    /\ host_present = FALSE
    /\ checked = 0
    /\ txpc = "idle"
    /\ target = 0
    /\ notified = FALSE
    /\ wpc = "wait"
    /\ value = FALSE
    /\ RdBitMap = {}
    /\ dma = [p \in Ports |-> NoFrame]
    /\ UpLdOvr = FALSE
    /\ irq = TRUE
    /\ host_up = FALSE
    /\ my_curr_rd_port = 0
    /\ sent = 0
    /\ late = 0
    /\ freed = [f \in Frames |-> 0]
    /\ expired = FALSE
    /\ cut = FALSE
    /\ resets = 0
-----------------------------------------------------------------------------
(* The sender: bf1b_msg_send_pbuf around sdu_send_data. *)
bf1b_msg_send_pbuf ==
    /\ Idle
    /\ host_present
    /\ checked < Senders
    /\ checked' = checked + 1
    /\ UNCHANGED <<descVars, curr_upld_port, timer, host_present, txpc, target,
                   workerVars, hwVars, hostVars, histVars>>

TakeTxLock ==
    /\ Idle
    /\ txpc = "idle" /\ checked > 0
    /\ sent < MaxFrames
    /\ checked' = checked - 1
    /\ txpc' = "wait"
    /\ UNCHANGED <<descVars, curr_upld_port, timer, host_present, target,
                   workerVars, hwVars, hostVars, histVars>>

(* The port is not free within SDU_SEND_TIME_OUT; the caller keeps the     *)
(* frame.                                                                  *)
SendTimeout ==
    /\ Idle
    /\ txpc = "wait" /\ curr_upld_port \in rd_bitmap_old
    /\ txpc' = "idle"
    /\ UNCHANGED <<descVars, curr_upld_port, timer, host_present, checked, target,
                   workerVars, hwVars, hostVars, histVars>>

(* BF1B_MSG_ERR_DESC_USED makes the caller reset the transceiver. *)
DescUsed ==
    /\ Idle
    /\ txpc = "wait" /\ curr_upld_port \notin rd_bitmap_old
    /\ desc[curr_upld_port] # NoFrame
    /\ txpc' = "idle"
    /\ sdu_worker_ev' = sdu_worker_ev \cup {"RESET"}
    /\ notified' = TRUE
    /\ UNCHANGED <<descVars, curr_upld_port, timer, host_present, checked, target,
                   wpc, value, hwVars, hostVars, histVars>>

PortFree ==
    /\ Idle
    /\ txpc = "wait" /\ curr_upld_port \notin rd_bitmap_old
    /\ desc[curr_upld_port] = NoFrame
    /\ target' = curr_upld_port
    /\ txpc' = "critical"
    /\ UNCHANGED <<descVars, curr_upld_port, timer, host_present, checked,
                   workerVars, hwVars, hostVars, histVars>>

(* Deviation: the port after the last is not the first. *)
NextPortUnbounded(p) == p + 1

NextPort(p) == (p + 1) % NPorts

(* The critical section: the descriptor is the one found before it, the    *)
(* port the current one.                                                   *)
Attach ==
    /\ Idle
    /\ txpc = "critical"
    /\ sent' = sent + 1
    /\ desc' = [desc EXCEPT ![target] = sent + 1]
    /\ RdBitMap' = RdBitMap \cup {curr_upld_port}
    /\ dma' = [dma EXCEPT ![curr_upld_port] = sent + 1]
    /\ rd_bitmap_old' = rd_bitmap_old \cup {curr_upld_port}
    /\ curr_upld_port' = NextPort(curr_upld_port)
    /\ sdio_tx_attached' = sdio_tx_attached + 1
    /\ cut' = (cut \/ target # curr_upld_port)
    /\ txpc' = "timer"
    /\ UNCHANGED <<timer, host_present, checked, target, workerVars, UpLdOvr, irq,
                   hostVars, late, freed, expired, resets>>

start_tx_wdt ==
    /\ Idle
    /\ txpc = "timer"
    /\ timer' = TRUE
    /\ txpc' = "idle"
    /\ UNCHANGED <<descVars, curr_upld_port, host_present, checked, target,
                   workerVars, hwVars, hostVars, histVars>>
-----------------------------------------------------------------------------
(* Interrupts and timers. *)
sdu_interrupt_entry ==
    /\ UpLdOvr /\ irq
    /\ irq' = FALSE
    /\ notified' = TRUE
    /\ UNCHANGED <<descVars, curr_upld_port, timer, txVars, sdu_worker_ev, wpc, value,
                   RdBitMap, dma, UpLdOvr, hostVars, histVars>>

sdio_tx_timer_cb ==
    /\ timer
    /\ sdu_worker_ev' = sdu_worker_ev \cup {"TX_WDT"}
    /\ notified' = TRUE
    /\ UNCHANGED <<descVars, curr_upld_port, timer, txVars, wpc, value,
                   hwVars, hostVars, histVars>>

(* The host resets the card, and with it the hardware. *)
sdu_soft_reset_interrupt_entry ==
    /\ resets < MaxResets
    /\ resets' = resets + 1
    /\ RdBitMap' = {} /\ UpLdOvr' = FALSE
    /\ host_up' = FALSE
    /\ irq' = FALSE
    /\ sdu_worker_ev' = sdu_worker_ev \cup {"RESET"}
    /\ notified' = TRUE
    /\ UNCHANGED <<descVars, curr_upld_port, timer, txVars, wpc, value, dma,
                   my_curr_rd_port, sent, late, expired, cut>>

(* The heartbeat of the host is missing. *)
heartbeat_failure ==
    /\ Idle
    /\ resets < MaxResets
    /\ resets' = resets + 1
    /\ sdu_worker_ev' = sdu_worker_ev \cup {"RESET"}
    /\ notified' = TRUE
    /\ UNCHANGED <<descVars, curr_upld_port, timer, txVars, wpc, value,
                   hwVars, hostVars, sent, late, expired, cut>>
-----------------------------------------------------------------------------
(* The sdu worker. *)
Freed(done) == [f \in Frames |-> IF \E p \in done : desc[p] = f THEN freed[f] + 1
                                                                ELSE freed[f]]

(* Deviation: a descriptor stays used when its frame was confirmed. *)
ReleasedNone(done) == desc

Released(done) == [p \in Ports |-> IF p \in done THEN NoFrame ELSE desc[p]]

WorkerWakes ==
    /\ wpc = "wait" /\ notified
    /\ notified' = FALSE
    /\ value' = UpLdOvr
    /\ UpLdOvr' = FALSE
    /\ wpc' = "handle"
    /\ UNCHANGED <<descVars, curr_upld_port, timer, txVars, sdu_worker_ev, RdBitMap, dma, irq,
                   hostVars, histVars>>

(* Deviation: what the host has not read yet is confirmed, too. *)
ReadOrNot == {p \in rd_bitmap_old : desc[p] # NoFrame}

(* The used descriptors whose bit went from rd_bitmap_old to 0. *)
Read == {p \in rd_bitmap_old \ RdBitMap : desc[p] # NoFrame}

sdu_interrupt_handle ==
    /\ wpc = "handle"
    /\ LET done == IF value THEN Read ELSE {} IN
       /\ freed' = Freed(done)
       /\ desc' = Released(done)
       /\ sdio_tx_attached' = sdio_tx_attached - Cardinality(done)
       /\ rd_bitmap_old' = rd_bitmap_old \ done
    /\ wpc' = IF "RESET" \in sdu_worker_ev THEN "reset" ELSE "timeouts"
    /\ UNCHANGED <<curr_upld_port, timer, txVars, sdu_worker_ev, notified, value,
                   hwVars, hostVars, histVars>>

(* Deviations: the next port, or the bitmap, survives the reset. *)
ResetKeepsPort == curr_upld_port' = curr_upld_port /\ rd_bitmap_old' = {}
ResetKeepsBitmap == curr_upld_port' = 0 /\ rd_bitmap_old' = rd_bitmap_old

ResetPorts == curr_upld_port' = 0 /\ rd_bitmap_old' = {}

(* Deviation: the count of attached frames survives the reset. *)
ResetKeepsCount ==
    /\ freed' = Freed(Used)
    /\ desc' = Released(Used)
    /\ sdio_tx_attached' = sdio_tx_attached

ResetDescs ==
    /\ freed' = Freed(Used)
    /\ desc' = Released(Used)
    /\ sdio_tx_attached' = 0

(* sdio_software_reset up to the reset of the hardware. *)
sdio_software_reset ==
    /\ wpc = "reset"
    /\ sdu_worker_ev' = sdu_worker_ev \ {"RESET"}
    /\ host_present' = FALSE
    /\ ResetPorts
    /\ ResetDescs
    /\ expired' = FALSE /\ cut' = FALSE
    /\ wpc' = "hardware"
    /\ UNCHANGED <<timer, checked, txpc, target, notified, value,
                   hwVars, hostVars, sent, late, resets>>

(* The rest of bl_sdu_reinit: the hardware, unless the host has reset it. *)
sdio_glb_reset ==
    /\ wpc = "hardware"
    /\ RdBitMap' = {} /\ UpLdOvr' = FALSE
    /\ host_up' = FALSE
    /\ irq' = TRUE
    /\ wpc' = "timeouts"
    /\ UNCHANGED <<descVars, curr_upld_port, timer, txVars, sdu_worker_ev, notified, value,
                   dma, my_curr_rd_port, histVars>>

(* check_tx_timeout frees the frames, and leaves rd_bitmap_old alone. *)
Overdue == IF "TX_WDT" \in sdu_worker_ev THEN {p \in Used : desc[p] <= late} ELSE {}

(* Deviation: the watchdog is stopped while frames are attached. *)
TimerStops == timer' = FALSE

TimerStopsIfNone == timer' = (timer /\ sdio_tx_attached' # 0)

WorkerEnds ==
    /\ wpc = "timeouts"
    /\ sdu_worker_ev' = sdu_worker_ev \ {"TX_WDT"}
    /\ freed' = Freed(Overdue)
    /\ desc' = Released(Overdue)
    /\ sdio_tx_attached' = sdio_tx_attached - Cardinality(Overdue)
    /\ expired' = (expired \/ Overdue # {})
    /\ TimerStopsIfNone
    /\ irq' = TRUE
    /\ wpc' = "wait"
    /\ UNCHANGED <<rd_bitmap_old, curr_upld_port, txVars, notified, value,
                   RdBitMap, dma, UpLdOvr, hostVars, sent, late, cut, resets>>
-----------------------------------------------------------------------------
(* The host driver probes the card and sends Ready; ready_cb. *)
ready_cb ==
    /\ Idle
    /\ ~host_up
    /\ host_up' = TRUE
    /\ my_curr_rd_port' = 0
    /\ host_present' = TRUE
    /\ UNCHANGED <<descVars, curr_upld_port, timer, checked, txpc, target,
                   workerVars, hwVars, histVars>>

(* bl_upload_hdl reads its next port, whether its bit is set or not. *)
bl_upload_hdl ==
    /\ host_up
    /\ RdBitMap # {}
    /\ RdBitMap' = RdBitMap \ {my_curr_rd_port}
    /\ UpLdOvr' = TRUE
    /\ my_curr_rd_port' = NextPort(my_curr_rd_port)
    /\ UNCHANGED <<descVars, curr_upld_port, timer, txVars, workerVars, dma, irq,
                   host_up, histVars>>

TimePasses ==
    /\ late' \in (late + 1)..sent
    /\ UNCHANGED <<descVars, curr_upld_port, timer, txVars, workerVars, hwVars, hostVars,
                   sent, expired, cut, resets>>
-----------------------------------------------------------------------------
Sender == TakeTxLock \/ SendTimeout \/ DescUsed \/ PortFree \/ Attach \/ start_tx_wdt
Worker == WorkerWakes \/ sdu_interrupt_handle \/ sdio_software_reset \/ sdio_glb_reset \/ WorkerEnds

Next ==
    \/ bf1b_msg_send_pbuf \/ Sender
    \/ sdu_interrupt_entry \/ sdio_tx_timer_cb
    \/ sdu_soft_reset_interrupt_entry \/ heartbeat_failure
    \/ Worker
    \/ ready_cb \/ bl_upload_hdl \/ TimePasses

Spec == Init /\ [][Next]_vars

(* Time passes, the watchdog fires as long as it is active, the worker     *)
(* runs, and the sender gets the processor between its rounds.  Nothing is *)
(* expected of the host.                                                   *)
FairSpec ==
    /\ Spec
    /\ WF_vars(TimePasses) /\ WF_vars(sdio_tx_timer_cb)
    /\ WF_vars(Worker) /\ SF_vars(Sender)
-----------------------------------------------------------------------------
(* Every variable has its type. *)
TypeOK ==
    /\ desc \in [Ports -> Frames \cup {NoFrame}]
    /\ sdio_tx_attached \in Nat
    /\ rd_bitmap_old \in SUBSET Ports
    /\ curr_upld_port \in Ports
    /\ sdu_worker_ev \in SUBSET {"RESET", "TX_WDT"}
    /\ timer \in BOOLEAN /\ host_present \in BOOLEAN
    /\ checked \in 0..Senders
    /\ txpc \in {"idle", "wait", "critical", "timer"}
    /\ target \in Ports
    /\ notified \in BOOLEAN
    /\ wpc \in {"wait", "handle", "reset", "hardware", "timeouts"}
    /\ value \in BOOLEAN
    /\ RdBitMap \in SUBSET Ports
    /\ dma \in [Ports -> Frames \cup {NoFrame}]
    /\ UpLdOvr \in BOOLEAN /\ irq \in BOOLEAN /\ host_up \in BOOLEAN
    /\ my_curr_rd_port \in Ports
    /\ sent \in 0..MaxFrames /\ late \in 0..sent
    /\ freed \in [Frames -> Nat]
    /\ expired \in BOOLEAN /\ cut \in BOOLEAN
    /\ resets \in 0..MaxResets

(* A frame is confirmed once, by the worker after the host read it, by the *)
(* watchdog or by a reset, and not before it is attached: its callback     *)
(* frees the buffer.                                                       *)
FreedOnce ==
    \A f \in Frames : freed[f] <= (IF f <= sent THEN 1 ELSE 0)

(* sdio_tx_attached, by which the worker decides to stop the watchdog,     *)
(* counts the used descriptors, which hold different frames that nobody    *)
(* has freed.                                                              *)
AttachedCounts ==
    /\ sdio_tx_attached = Cardinality(Used)
    /\ \A p \in Used : freed[desc[p]] = 0
    /\ \A p, q \in Used : desc[p] = desc[q] => p = q

(* The host never reads a buffer that was freed under it, except those the *)
(* watchdog gave up and those of a reset in progress.                      *)
LiveWhenRead ==
    ~expired /\ wpc # "hardware" => \A p \in RdBitMap : freed[dma[p]] = 0

(* The ports that wait for the host are those from its own next port on    *)
(* ("need resync?"), and hold the frames it has not read, in order.        *)
HostInOrder ==
    host_up /\ wpc # "hardware" =>
        LET n == Cardinality(RdBitMap) IN
        \A i \in 0..(n - 1) :
            LET p == (my_curr_rd_port + i) % NPorts IN
            p \in RdBitMap /\ dma[p] = sent - n + 1 + i

(* rd_bitmap_old, by which the sender waits, and the descriptors agree:    *)
(* a port is taken as long as its descriptor is used, and no longer,       *)
(* unless the watchdog freed it or a reset hit the sender.                 *)
PortTakenWhileUsed ==
    /\ ~cut => Used \subseteq rd_bitmap_old
    /\ ~cut /\ ~expired => rd_bitmap_old \subseteq Used

(* Every frame that was attached is confirmed, even if the host dies. *)
EveryFrameFreed == \A f \in Frames : (sent >= f) ~> (freed[f] = 1)

(* "sdio tx desc used!" is an error that does not occur: a port that is    *)
(* free has a free descriptor.                                             *)
DescFreeWhenPortFree ==
    txpc = "wait" /\ curr_upld_port \notin rd_bitmap_old => desc[curr_upld_port] = NoFrame
=============================================================================
