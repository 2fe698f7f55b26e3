---------------------------- MODULE SdioDownload ----------------------------
(***************************************************************************)
(* The frames the host hands to the device over SDIO, and their flow       *)
(* control.  The host (host_linux/bl_sdio_eth.c) may send an Ethernet      *)
(* frame while snd_nxt has not reached seq_clamp; the device keeps a pool  *)
(* of buffers (sdiowifi_tx_buf.c), counts those the Wi-Fi stack has given  *)
(* back in una_seq, and announces una_seq and una_seq + window_size in two *)
(* 8-bit registers.  Commands travel through the same ports without        *)
(* credit.  Frames are numbered in the order of their transfer.            *)
(*                                                                         *)
(* The sdu worker runs above the Wi-Fi stack, interrupts and the host run  *)
(* at any time.  A reset makes the card inaccessible until the host probes *)
(* it again.                                                               *)
(***************************************************************************)
EXTENDS Integers, FiniteSets

CONSTANTS NPorts,       \* download ports, SDIO_RX_MAX_PORT_NUM
          Window,       \* window_size, the number of buffers
          SeqMod,       \* sequence numbers on the bus: 2^8
          StartSeqs,    \* the values of una_seq that earlier sessions left
          MaxFrames,    \* bound on the frames transferred
          MaxFaults,    \* bound on the transfers that fail or time out
          MaxResets     \* bound on the resets

ASSUME SdioDownloadAssumption ==
    /\ NPorts \in Nat \ {0} /\ Window \in Nat \ {0}
    /\ SeqMod \in Nat /\ 4 * Window < SeqMod /\ StartSeqs \subseteq Nat
    /\ MaxFrames \in Nat /\ MaxFaults \in Nat /\ MaxResets \in Nat

Ports == 0..(NPorts - 1)
NoFrame == 0

VARIABLES
    \* sdiowifi_tx_buf.c
    una_seq, free_size,
    crediting,          \* is tx_buf_free between its two register stores?
    \* trcver_sdio.c, the sdu worker
    curr_dnld_port,
    reset_ev,           \* SDU_WORKER_EV_RESET in sdu_worker_ev
    notified, wpc,
    \* hardware (external)
    una_reg, clamp_reg, \* the scratch registers 0x67 and 0x60
    WrBitMap,           \* the ports ready for the host
    dma, credited,      \* the frames in the others; those that took a credit
    DnLdOvr, irq,       \* a transfer has ended; is SDIO_IRQn enabled?
    \* bl_sdio_eth.c
    hpc, got,           \* the point the driver has reached, the registers it has read
    ethernet,           \* is the frame in bl_sdio_write an Ethernet frame?
    seq_clamp, snd_nxt, curr_wr_port, mp_wr_bitmap,
    \* history since the last probe, and environment
    sent,               \* the number of frames transferred
    leaked,             \* credits spent on frames that were never transferred
    owed,               \* buffers in the Wi-Fi stack at the last probe
    dropped,            \* frames that found no buffer
    inStep,             \* has no transfer failed?
    refused,            \* did the worker leave the ports alone at its last interrupt?
    faults, resets

poolVars == <<una_seq, free_size, crediting>>
workVars == <<curr_dnld_port, reset_ev, notified, wpc>>
regVars  == <<una_reg, clamp_reg>>
portVars == <<WrBitMap, dma, credited>>
intVars  == <<DnLdOvr, irq>>
hostVars == <<hpc, got, ethernet, seq_clamp, snd_nxt, curr_wr_port, mp_wr_bitmap>>
histVars == <<leaked, owed, dropped, inStep, refused>>
envVars  == <<sent, faults, resets>>
vars == <<poolVars, workVars, regVars, portVars, intVars, hostVars, histVars, envVars>>

(* Deviation: the port after the last is not the first. *)
NextPortUnbounded(p) == p + 1

NextPort(p) == (p + 1) % NPorts

Idle == wpc = "wait" /\ ~notified       \* the worker leaves the processor
Held == Window - free_size
Up == hpc \in {"idle", "write"}           \* the host has probed the card
-----------------------------------------------------------------------------
(* The device has been up for a while; the host has not probed it.         *)
Init ==
    /\ una_seq \in StartSeqs /\ free_size = Window /\ crediting = FALSE
    /\ curr_dnld_port = 0
    /\ reset_ev = FALSE /\ notified = FALSE /\ wpc = "wait"
    /\ una_reg = una_seq % SeqMod /\ clamp_reg = (una_seq + Window) % SeqMod
    /\ WrBitMap = Ports /\ dma = [p \in Ports |-> NoFrame] /\ credited = {}
    /\ DnLdOvr = FALSE /\ irq = TRUE
    /\ hpc = "down" /\ got = {} /\ ethernet = FALSE
    /\ seq_clamp = 0 /\ snd_nxt = 0 /\ curr_wr_port = 0 /\ mp_wr_bitmap = {}
    /\ sent = 0 /\ leaked = 0 /\ owed = 0 /\ dropped = 0 /\ inStep = TRUE
    /\ refused = FALSE
    /\ faults = 0 /\ resets = 0
-----------------------------------------------------------------------------
(* The host probes the card, once the device has recovered from a reset.   *)
bl_sdio_init ==
    /\ hpc = "down" /\ Idle
    /\ hpc' = "probe" /\ got' = {}
    /\ UNCHANGED <<poolVars, workVars, regVars, portVars, intVars, ethernet, seq_clamp,
                   snd_nxt, curr_wr_port, mp_wr_bitmap, histVars, envVars>>

(* bl_sdio_get_ready: a read that fails is repeated, so that either        *)
(* register may be the first that is read.                                 *)
GetClamp ==
    /\ hpc = "probe" /\ "clamp" \notin got
    /\ seq_clamp' = clamp_reg
    /\ got' = got \cup {"clamp"}
    /\ UNCHANGED <<poolVars, workVars, regVars, portVars, intVars, hpc, ethernet,
                   snd_nxt, curr_wr_port, mp_wr_bitmap, histVars, envVars>>

GetSndNxt ==
    /\ hpc = "probe" /\ "sndnxt" \notin got
    /\ snd_nxt' = una_reg
    /\ got' = got \cup {"sndnxt"}
    /\ owed' = Held
    /\ leaked' = 0 /\ dropped' = 0 /\ inStep' = TRUE
    /\ UNCHANGED <<poolVars, workVars, regVars, portVars, intVars, hpc, ethernet,
                   seq_clamp, curr_wr_port, mp_wr_bitmap, refused, envVars>>

(* "Initialize SDIO variables in card" *)
Probed ==
    /\ hpc = "probe" /\ got = {"clamp", "sndnxt"}
    /\ hpc' = "idle" /\ got' = {}
    /\ mp_wr_bitmap' = {} /\ curr_wr_port' = 0
    /\ UNCHANGED <<poolVars, workVars, regVars, portVars, intVars, ethernet,
                   seq_clamp, snd_nxt, histVars, envVars>>

(* Deviation: the last credit but one is the last. *)
CreditOrNone == LET d == (seq_clamp - snd_nxt) % SeqMod IN 2 * d < SeqMod

(* (s8)(seq_clamp - snd_nxt) > 0 *)
bl_tx_credit_available ==
    LET d == (seq_clamp - snd_nxt) % SeqMod IN 0 < d /\ 2 * d < SeqMod

(* bl_eth_tx_data_process: with credit the frame is sent, without it the   *)
(* register is read again, until the frame is dropped.                     *)
TakeCredit ==
    /\ hpc = "idle" /\ bl_tx_credit_available
    /\ sent < MaxFrames
    /\ hpc' = "write" /\ ethernet' = TRUE
    /\ UNCHANGED <<poolVars, workVars, regVars, portVars, intVars, got, seq_clamp,
                   snd_nxt, curr_wr_port, mp_wr_bitmap, histVars, envVars>>

(* Deviation: the host reads the other register. *)
ReadsUna == seq_clamp' = una_reg

ReadsClamp == seq_clamp' = clamp_reg

ReadCredit ==
    /\ hpc = "idle" /\ ~bl_tx_credit_available
    /\ ReadsClamp
    /\ UNCHANGED <<poolVars, workVars, regVars, portVars, intVars, hpc, got, ethernet,
                   snd_nxt, curr_wr_port, mp_wr_bitmap, histVars, envVars>>

send_cmds ==
    /\ hpc = "idle"
    /\ sent < MaxFrames
    /\ hpc' = "write" /\ ethernet' = FALSE
    /\ UNCHANGED <<poolVars, workVars, regVars, portVars, intVars, got, seq_clamp,
                   snd_nxt, curr_wr_port, mp_wr_bitmap, histVars, envVars>>

(* bl_sdio_write *)
ReadWrBitMap ==
    /\ hpc = "write" /\ curr_wr_port \notin mp_wr_bitmap
    /\ mp_wr_bitmap' = WrBitMap
    /\ UNCHANGED <<poolVars, workVars, regVars, portVars, intVars, hpc, got, ethernet,
                   seq_clamp, snd_nxt, curr_wr_port, histVars, envVars>>

Fault == faults < MaxFaults /\ faults' = faults + 1

(* The caller of bl_sdio_write drops its result, and counts the frame.     *)
Return ==
    /\ hpc' = "idle"
    /\ snd_nxt' = IF ethernet THEN (snd_nxt + 1) % SeqMod ELSE snd_nxt

Leak == leaked' = IF ethernet THEN leaked + 1 ELSE leaked

WriteTimeout ==
    /\ hpc = "write" /\ curr_wr_port \notin mp_wr_bitmap
    /\ Fault
    /\ Return /\ Leak
    /\ UNCHANGED <<poolVars, workVars, regVars, portVars, intVars, got, ethernet, seq_clamp,
                   curr_wr_port, mp_wr_bitmap, owed, dropped, inStep, refused, sent, resets>>

(* Deviation: the host remembers the port as ready. *)
KeepsBit == mp_wr_bitmap' = mp_wr_bitmap

ClearsBit == mp_wr_bitmap' = mp_wr_bitmap \ {curr_wr_port}

bl_write_data_sync ==
    /\ hpc = "write" /\ curr_wr_port \in mp_wr_bitmap
    /\ sent' = sent + 1
    /\ ClearsBit
    /\ dma' = [dma EXCEPT ![curr_wr_port] = sent + 1]
    /\ credited' = IF ethernet THEN credited \cup {curr_wr_port}
                               ELSE credited \ {curr_wr_port}
    /\ WrBitMap' = WrBitMap \ {curr_wr_port}
    /\ DnLdOvr' = TRUE
    /\ curr_wr_port' = NextPort(curr_wr_port)
    /\ Return
    /\ UNCHANGED <<poolVars, workVars, regVars, irq, got, ethernet, seq_clamp,
                   histVars, faults, resets>>

(* The transfer fails three times; the host has left the port nevertheless. *)
TransferFails ==
    /\ hpc = "write" /\ curr_wr_port \in mp_wr_bitmap
    /\ Fault
    /\ ClearsBit
    /\ curr_wr_port' = NextPort(curr_wr_port)
    /\ Return /\ Leak
    /\ inStep' = FALSE
    /\ UNCHANGED <<poolVars, workVars, regVars, portVars, intVars, got, ethernet, seq_clamp,
                   owed, dropped, refused, sent, resets>>
-----------------------------------------------------------------------------
(* The Wi-Fi stack gives a buffer back: tx_buf_free, with interrupts off.  *)
tx_buf_free ==
    /\ Idle /\ ~crediting
    /\ free_size < Window
    /\ free_size' = free_size + 1
    /\ una_seq' = una_seq + 1
    /\ una_reg' = (una_seq + 1) % SeqMod
    /\ crediting' = TRUE
    /\ UNCHANGED <<workVars, clamp_reg, portVars, intVars, hostVars, histVars, envVars>>

sdiowifi_update_tx_credit ==
    /\ crediting
    /\ clamp_reg' = (una_seq + Window) % SeqMod
    /\ crediting' = FALSE
    /\ UNCHANGED <<una_seq, free_size, workVars, una_reg, portVars, intVars, hostVars,
                   histVars, envVars>>
-----------------------------------------------------------------------------
(* Interrupts. *)
sdu_interrupt_entry ==
    /\ ~crediting
    /\ DnLdOvr /\ irq
    /\ irq' = FALSE
    /\ notified' = TRUE
    /\ UNCHANGED <<poolVars, curr_dnld_port, reset_ev, wpc, regVars, portVars, DnLdOvr,
                   hostVars, histVars, envVars>>

(* The hardware after a reset: no port is ready, no frame waits.           *)
CardLost ==
    /\ hpc' = "down"
    /\ dma' = [p \in Ports |-> NoFrame] /\ credited' = {}
    /\ DnLdOvr' = FALSE

sdu_soft_reset_interrupt_entry ==   \* the host resets the card
    /\ ~crediting
    /\ resets < MaxResets /\ resets' = resets + 1
    /\ CardLost /\ WrBitMap' = {}
    /\ irq' = FALSE
    /\ reset_ev' = TRUE /\ notified' = TRUE
    /\ UNCHANGED <<poolVars, curr_dnld_port, wpc, regVars, got, ethernet, seq_clamp,
                   snd_nxt, curr_wr_port, mp_wr_bitmap, histVars, sent, faults>>

(* The heartbeat is missing, or a descriptor was found used.               *)
sdiowifi_mgmr_reinit ==
    /\ Idle /\ ~crediting
    /\ resets < MaxResets /\ resets' = resets + 1
    /\ reset_ev' = TRUE /\ notified' = TRUE
    /\ UNCHANGED <<poolVars, curr_dnld_port, wpc, regVars, portVars, intVars, hostVars,
                   histVars, sent, faults>>
-----------------------------------------------------------------------------
(* The sdu worker. *)
WorkerWakes ==
    /\ wpc = "wait" /\ notified /\ ~crediting
    /\ notified' = FALSE
    /\ DnLdOvr' = FALSE
    /\ wpc' = IF DnLdOvr THEN "receive" ELSE "events"
    /\ refused' = (refused /\ ~DnLdOvr)
    /\ UNCHANGED <<poolVars, curr_dnld_port, reset_ev, regVars, portVars, irq, hostVars,
                   leaked, owed, dropped, inStep, envVars>>

(* HostTransferStatus tells of a CRC error: the interrupt is cleared, and  *)
(* no port is looked at.                                                   *)
DnLdCRC_err ==
    /\ wpc = "wait" /\ notified /\ ~crediting
    /\ DnLdOvr
    /\ notified' = FALSE
    /\ DnLdOvr' = FALSE
    /\ wpc' = "events"
    /\ refused' = TRUE
    /\ UNCHANGED <<poolVars, curr_dnld_port, reset_ev, regVars, portVars, irq, hostVars,
                   leaked, owed, dropped, inStep, envVars>>

(* handle_sta_ap_to_wifi_tx; "no more tx pbuf, flow control not working?"  *)
ToWifi ==
    /\ free_size' = IF free_size > 0 THEN free_size - 1 ELSE free_size
    /\ dropped' = IF free_size > 0 THEN dropped ELSE dropped + 1

(* A port the host emptied by a reset holds what it held before.           *)
MayBeEthernet(p) == IF dma[p] = NoFrame THEN BOOLEAN ELSE {p \in credited}

(* The worker hands the frame on and makes the port ready again.           *)
sdu_receive_data ==
    /\ wpc = "receive" /\ curr_dnld_port \notin WrBitMap
    /\ \E eth \in MayBeEthernet(curr_dnld_port) :
          IF eth THEN ToWifi ELSE UNCHANGED <<free_size, dropped>>
    /\ WrBitMap' = WrBitMap \cup {curr_dnld_port}
    /\ dma' = [dma EXCEPT ![curr_dnld_port] = NoFrame]
    /\ credited' = credited \ {curr_dnld_port}
    /\ curr_dnld_port' = NextPort(curr_dnld_port)
    /\ UNCHANGED <<una_seq, crediting, reset_ev, notified, wpc, regVars, intVars, hostVars,
                   leaked, owed, inStep, refused, envVars>>

(* Deviation: one frame for each interrupt. *)
ReceivedOne == wpc = "receive"

ReceivedAll == wpc = "receive" /\ curr_dnld_port \in WrBitMap

ReceiveEnds ==
    /\ ReceivedAll
    /\ wpc' = "events"
    /\ UNCHANGED <<poolVars, curr_dnld_port, reset_ev, notified, regVars, portVars, intVars,
                   hostVars, histVars, envVars>>

(* Deviation: the device goes on with the port it had. *)
ResetKeepsPort == curr_dnld_port' = curr_dnld_port

ResetPort == curr_dnld_port' = 0

(* The reset, with the frames in the ports; the buffers in the Wi-Fi stack *)
(* stay there, and the credit is announced as it was.                      *)
sdio_software_reset ==
    /\ wpc = "events" /\ reset_ev
    /\ reset_ev' = FALSE
    /\ ResetPort
    /\ CardLost /\ WrBitMap' = Ports
    /\ una_reg' = una_seq % SeqMod /\ clamp_reg' = (una_seq + Window) % SeqMod
    /\ irq' = TRUE
    /\ wpc' = "wait"
    /\ refused' = FALSE
    /\ UNCHANGED <<poolVars, notified, got, ethernet, seq_clamp, snd_nxt, curr_wr_port,
                   mp_wr_bitmap, leaked, owed, dropped, inStep, envVars>>

WorkerEnds ==
    /\ wpc = "events" /\ ~reset_ev
    /\ irq' = TRUE
    /\ wpc' = "wait"
    /\ UNCHANGED <<poolVars, curr_dnld_port, reset_ev, notified, regVars, portVars, DnLdOvr,
                   hostVars, histVars, envVars>>
-----------------------------------------------------------------------------
Host ==
    \/ GetClamp \/ GetSndNxt \/ Probed
    \/ TakeCredit \/ ReadCredit \/ ReadWrBitMap \/ bl_write_data_sync
Worker ==
    \/ WorkerWakes \/ DnLdCRC_err \/ sdu_receive_data \/ ReceiveEnds
    \/ sdio_software_reset \/ WorkerEnds
Wifi == tx_buf_free \/ sdiowifi_update_tx_credit

Next ==
    \/ bl_sdio_init \/ Host \/ send_cmds \/ WriteTimeout \/ TransferFails
    \/ Wifi \/ Worker
    \/ sdu_interrupt_entry \/ sdu_soft_reset_interrupt_entry \/ sdiowifi_mgmr_reinit

Spec == Init /\ [][Next]_vars

(* The device runs, interrupts are served, and the Wi-Fi stack gives its   *)
(* buffers back when the worker leaves it the processor; the host's work   *)
(* queue goes on.                                                          *)
FairSpec ==
    /\ Spec
    /\ WF_vars(Worker) /\ WF_vars(sdu_interrupt_entry) /\ WF_vars(Host)
    /\ SF_vars(tx_buf_free) /\ WF_vars(sdiowifi_update_tx_credit)
-----------------------------------------------------------------------------
(* Every variable has its type. *)
TypeOK ==
    /\ una_seq \in Nat /\ free_size \in 0..Window /\ crediting \in BOOLEAN
    /\ curr_dnld_port \in Ports /\ reset_ev \in BOOLEAN /\ notified \in BOOLEAN
    /\ wpc \in {"wait", "receive", "events"}
    /\ una_reg \in 0..(SeqMod - 1) /\ clamp_reg \in 0..(SeqMod - 1)
    /\ WrBitMap \in SUBSET Ports /\ dma \in [Ports -> 0..MaxFrames]
    /\ credited \in SUBSET Ports
    /\ DnLdOvr \in BOOLEAN /\ irq \in BOOLEAN
    /\ hpc \in {"down", "probe", "idle", "write"}
    /\ got \in SUBSET {"clamp", "sndnxt"} /\ ethernet \in BOOLEAN
    /\ seq_clamp \in 0..(SeqMod - 1) /\ snd_nxt \in 0..(SeqMod - 1)
    /\ curr_wr_port \in Ports /\ mp_wr_bitmap \in SUBSET Ports
    /\ sent \in 0..MaxFrames /\ leaked \in Nat /\ owed \in 0..Window /\ dropped \in Nat
    /\ inStep \in BOOLEAN /\ refused \in BOOLEAN
    /\ faults \in 0..MaxFaults /\ resets \in 0..MaxResets

(* A probe takes the buffers that the Wi-Fi stack holds for free ones; for *)
(* so many frames, and no more, the flow control fails.                    *)
DropsBounded == Up => dropped <= owed

(* Every frame that took a credit finds a buffer when it is its turn: "no  *)
(* more tx pbuf, flow control not working?" does not happen.               *)
NeverOutOfBuffers == Up => dropped = 0

(* snd_nxt never exceeds seq_clamp, modulo 2^8: what is left never passes  *)
(* for a credit when it is none, nor a credit for none.                    *)
CreditInRange ==
    Up => 2 * ((seq_clamp - snd_nxt) % SeqMod) < SeqMod

(* The device takes the frames in the order the host transferred them, and *)
(* waits at the port the host writes next, until a transfer fails.         *)
TakenInStep ==
    Up /\ inStep =>
        LET waiting == Ports \ WrBitMap
            n == Cardinality(waiting) IN
        /\ (curr_dnld_port + n) % NPorts = curr_wr_port
        /\ \A i \in 0..(n - 1) :
              LET p == (curr_dnld_port + i) % NPorts IN
              p \in waiting /\ dma[p] = sent - n + 1 + i

(* A frame in a port raises the interrupt again or has the worker on its   *)
(* way, as long as both sides are in step: the worker leaves full ports    *)
(* behind only when the hardware tells it of a CRC error.                  *)
FramesProcessed ==
    Up /\ inStep /\ WrBitMap # Ports /\ ~DnLdOvr /\ wpc # "receive" => refused

(* A host without credit has it again in the end, as long as it is in      *)
(* step, has lost fewer frames than there are buffers, and the worker has  *)
(* refused none: nobody looks at refused ports before the next transfer.   *)
Reopening == Up /\ inStep /\ leaked < Window /\ ~refused
WindowReopens == Reopening ~> (~Reopening \/ bl_tx_credit_available)
=============================================================================
