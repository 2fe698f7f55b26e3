------------------------- MODULE SdioDownload_proofs -------------------------
(* What SdioDownload guarantees for every number of ports, frames, faults  *)
(* and resets, and for every window that is less than a quarter of the     *)
(* sequence numbers.                                                       *)
EXTENDS SdioDownload, FiniteSetTheorems, TLAPS

-----------------------------------------------------------------------------
(* The inductive invariant, with sequence numbers that do not wrap.        *)

(* What clamp_reg announces, and the number of the host's next frame: the  *)
(* buffers given back, those in the Wi-Fi stack that were not there at the *)
(* probe, the frames in the ports, and the frames that were lost.          *)
Announced == una_seq + Window - (IF crediting THEN 1 ELSE 0)
NextSeq == una_seq + Held - owed + Cardinality(credited) + leaked + dropped

DeviceInv ==
    /\ crediting => wpc = "wait" /\ free_size > 0
    /\ reset_ev => notified \/ wpc # "wait"
    /\ una_reg = una_seq % SeqMod
    /\ clamp_reg = Announced % SeqMod
    /\ hpc = "write" => sent < MaxFrames

(* Before a probe, and after it, the ports are ready; the host believes no *)
(* port ready that is not.                                                 *)
PortInv ==
    /\ credited \subseteq Ports \ WrBitMap
    /\ ~Up => credited = {}
    /\ hpc = "probe" \/ (hpc = "down" /\ ~reset_ev) => WrBitMap = Ports /\ curr_dnld_port = 0
    /\ Up => /\ mp_wr_bitmap \subseteq WrBitMap
             /\ \A p \in Ports \ WrBitMap : dma[p] # NoFrame

SndInv ==
    /\ Up \/ (hpc = "probe" /\ "sndnxt" \in got) => snd_nxt = NextSeq % SeqMod
    /\ hpc = "probe" /\ "sndnxt" \in got => leaked = 0 /\ dropped = 0

(* seq_clamp is the remainder of a number that the device has announced    *)
(* and that the host's frames have not passed.                             *)
Clamp(c) ==
    /\ seq_clamp = c % SeqMod
    /\ c <= Announced
    /\ hpc = "probe" => una_seq + Held <= c
    /\ Up => NextSeq <= c
    /\ hpc = "write" /\ ethernet => NextSeq < c
ClampInv ==
    Up \/ (hpc = "probe" /\ "clamp" \in got) => \E c \in Nat : Clamp(c)

Inv == TypeOK /\ DeviceInv /\ PortInv /\ SndInv /\ ClampInv
-----------------------------------------------------------------------------
LEMMA Bounds ==
    /\ NPorts \in Nat \ {0} /\ Window \in Nat \ {0} /\ SeqMod \in Nat \ {0}
    /\ 4 * Window < SeqMod
    /\ MaxFrames \in Nat /\ MaxFaults \in Nat /\ MaxResets \in Nat
    /\ 0 \in Ports
  BY SdioDownloadAssumption DEF SdioDownloadAssumption, Ports

LEMMA RemType == ASSUME NEW x \in Int PROVE (x % SeqMod) \in 0..(SeqMod - 1)
  BY Bounds

LEMMA NextPortType == ASSUME NEW p \in Ports PROVE NextPort(p) \in Ports
  BY Bounds DEF NextPort, Ports

(* Differences of remainders, as the driver computes them. *)
LEMMA RemDiff ==
    ASSUME NEW M \in Nat \ {0}, NEW a \in Int, NEW b \in Int, 0 <= a - b, a - b < M
    PROVE  (((a % M) - (b % M)) % M) = a - b
<1> DEFINE qa == a \div M
           ra == a % M
           qb == b \div M
           rb == b % M
           k == qa - qb
<1>1. /\ a = M * qa + ra /\ qa \in Int /\ ra \in 0..(M - 1)
      /\ b = M * qb + rb /\ qb \in Int /\ rb \in 0..(M - 1)
  OBVIOUS
<1> HIDE DEF qa, ra, qb, rb
<1>2. k \in Int /\ M * k = (a - b) - (ra - rb)
  BY <1>1
<1> HIDE DEF k
<1>3. -M < M * k /\ M * k < 2 * M
  BY <1>1, <1>2
<1>4. k = 0 \/ k = 1
  <2>1. k <= -1 => M * k <= -M
    BY <1>2
  <2>2. k >= 2 => M * k >= 2 * M
    BY <1>2
  <2> QED
    BY <1>2, <1>3, <2>1, <2>2
<1> DEFINE d == ra - rb
<1>5. d \in Int /\ (d = a - b \/ d = a - b - M)
  BY <1>1, <1>2, <1>4
<1> HIDE DEF d
<1>6. CASE d = a - b
  <2>1. d % M = d
    BY <1>5, <1>6
  <2> QED
    BY <2>1, <1>6 DEF d, ra, rb
<1>7. CASE d = a - b - M
  <2>1. d % M = d + M
    BY <1>5, <1>7
  <2>2. d + M = a - b
    BY <1>5, <1>7
  <2> QED
    BY <2>1, <2>2 DEF d, ra, rb
<1> QED
  BY <1>5, <1>6, <1>7

LEMMA RemUnique ==
    ASSUME NEW M \in Nat \ {0}, NEW x \in Int, NEW q \in Int, NEW r \in 0..(M - 1),
           x = M * q + r
    PROVE  x % M = r
<1> DEFINE q2 == x \div M
           r2 == x % M
           k == q - q2
<1>1. x = M * q2 + r2 /\ q2 \in Int /\ r2 \in 0..(M - 1)
  OBVIOUS
<1> HIDE DEF q2, r2
<1>2. k \in Int /\ M * k = r2 - r
  BY <1>1
<1> HIDE DEF k
<1>3. -M < M * k /\ M * k < M
  BY <1>1, <1>2
<1>4. (k <= -1 => M * k <= -M) /\ (k >= 1 => M * k >= M)
  BY <1>2
<1>5. k = 0
  BY <1>2, <1>3, <1>4
<1>6. r2 = r
  BY <1>1, <1>2, <1>5
<1> QED
  BY <1>6 DEF r2

LEMMA RemNext ==
    ASSUME NEW M \in Nat \ {0}, NEW a \in Int
    PROVE  (((a % M) + 1) % M) = ((a + 1) % M)
<1> DEFINE q == a \div M
           r == a % M
<1>1. a = M * q + r /\ q \in Int /\ r \in 0..(M - 1)
  OBVIOUS
<1> HIDE DEF q, r
<1>2. CASE r + 1 < M
  <2>1. r + 1 = M * 0 + (r + 1) /\ a + 1 = M * q + (r + 1) /\ r + 1 \in 0..(M - 1)
    BY <1>1, <1>2
  <2>2. ((r + 1) % M) = r + 1
    BY <2>1, RemUnique
  <2>3. ((a + 1) % M) = r + 1
    BY <2>1, <1>1, RemUnique
  <2> QED
    BY <2>2, <2>3 DEF r
<1>3. CASE r + 1 = M
  <2>1. r + 1 = M * 1 + 0 /\ a + 1 = M * (q + 1) + 0 /\ q + 1 \in Int /\ 0 \in 0..(M - 1)
    BY <1>1, <1>3
  <2>2. ((r + 1) % M) = 0
    BY <2>1, RemUnique
  <2>3. ((a + 1) % M) = 0
    BY <2>1, RemUnique
  <2> QED
    BY <2>2, <2>3 DEF r
<1> QED
  BY <1>1, <1>2, <1>3

LEMMA CreditedFinite ==
    ASSUME TypeOK
    PROVE  /\ IsFiniteSet(credited) /\ Cardinality(credited) \in Nat
           /\ Held \in 0..Window /\ NextSeq \in Int /\ Announced \in Int
<1>1. IsFiniteSet(Ports)
  BY FS_Interval, Bounds DEF Ports
<1>2. credited \subseteq Ports
  BY DEF TypeOK
<1>3. IsFiniteSet(credited) /\ Cardinality(credited) \in Nat
  BY <1>1, <1>2, FS_Subset, FS_CardinalityType
<1>4. Held \in 0..Window
  BY Bounds DEF Held, TypeOK
<1> QED
  BY <1>3, <1>4, Bounds DEF TypeOK, NextSeq, Announced
-----------------------------------------------------------------------------
LEMMA InitInv == Init => Inv
<1> SUFFICES ASSUME Init PROVE Inv
  OBVIOUS
<1> USE DEF Init
<1>1. una_seq \in Nat
  BY SdioDownloadAssumption DEF SdioDownloadAssumption
<1>2. /\ (una_seq % SeqMod) \in 0..(SeqMod - 1)
      /\ ((una_seq + Window) % SeqMod) \in 0..(SeqMod - 1)
  BY <1>1, RemType, Bounds
<1>3. TypeOK
  <2>1. /\ dma \in [Ports -> 0..MaxFrames] /\ credited \in SUBSET Ports
        /\ WrBitMap \in SUBSET Ports
    BY Bounds DEF NoFrame
  <2>2. /\ seq_clamp \in 0..(SeqMod - 1) /\ snd_nxt \in 0..(SeqMod - 1)
        /\ sent \in 0..MaxFrames /\ owed \in 0..Window /\ free_size \in 0..Window
        /\ faults \in 0..MaxFaults /\ resets \in 0..MaxResets
        /\ leaked \in Nat /\ dropped \in Nat
    BY Bounds
  <2>3. /\ crediting \in BOOLEAN /\ reset_ev \in BOOLEAN /\ notified \in BOOLEAN
        /\ DnLdOvr \in BOOLEAN /\ irq \in BOOLEAN /\ ethernet \in BOOLEAN /\ inStep \in BOOLEAN
        /\ refused \in BOOLEAN
    BY Zenon
  <2> QED
    BY <1>1, <1>2, <2>1, <2>2, <2>3, Bounds DEF TypeOK
<1>4. DeviceInv
  BY <1>1, Bounds DEF DeviceInv, Announced
<1>5. PortInv
  BY DEF PortInv, Up
<1> QED
  BY <1>3, <1>4, <1>5 DEF Inv, SndInv, ClampInv, Up

LEMMA HostType ==
    ASSUME Inv, bl_sdio_init \/ GetClamp \/ GetSndNxt \/ Probed \/ TakeCredit \/ ReadCredit
                \/ send_cmds \/ ReadWrBitMap
    PROVE  TypeOK'
<1> USE DEF Inv, TypeOK, poolVars, workVars, regVars, portVars, intVars, hostVars, histVars, envVars
<1>1. CASE bl_sdio_init
  BY <1>1 DEF bl_sdio_init
<1>2. CASE GetClamp
  BY <1>2 DEF GetClamp
<1>3. CASE GetSndNxt
  BY <1>3, CreditedFinite DEF GetSndNxt
<1>4. CASE Probed
  BY <1>4, Bounds DEF Probed
<1>5. CASE TakeCredit
  BY <1>5 DEF TakeCredit
<1>6. CASE ReadCredit
  BY <1>6 DEF ReadCredit, ReadsClamp
<1>7. CASE send_cmds
  BY <1>7 DEF send_cmds
<1>8. CASE ReadWrBitMap
  BY <1>8 DEF ReadWrBitMap
<1> QED
  BY <1>1, <1>2, <1>3, <1>4, <1>5, <1>6, <1>7, <1>8

LEMMA WriteType ==
    ASSUME Inv, WriteTimeout \/ bl_write_data_sync \/ TransferFails PROVE TypeOK'
<1> USE DEF Inv, TypeOK, poolVars, workVars, regVars, portVars, intVars, hostVars, histVars, envVars
<1>1. ((snd_nxt + 1) % SeqMod) \in 0..(SeqMod - 1)
  BY RemType
<1>2. NextPort(curr_wr_port) \in Ports
  BY NextPortType
<1>3. CASE WriteTimeout
  BY <1>1, <1>3, Bounds DEF WriteTimeout, Fault, Return, Leak
<1>4. CASE bl_write_data_sync
  <2>1. sent + 1 \in 0..MaxFrames
    BY <1>4, Bounds DEF DeviceInv, bl_write_data_sync
  <2>2. dma' \in [Ports -> 0..MaxFrames] /\ credited' \in SUBSET Ports
    BY <1>4, <2>1 DEF bl_write_data_sync
  <2>3. snd_nxt' \in 0..(SeqMod - 1) /\ hpc' = "idle"
    BY <1>1, <1>4 DEF bl_write_data_sync, Return
  <2> QED
    BY <1>2, <1>4, <2>1, <2>2, <2>3 DEF bl_write_data_sync, ClearsBit
<1>5. CASE TransferFails
  <2>1. leaked' \in Nat /\ faults' \in 0..MaxFaults
    BY <1>5, Bounds DEF TransferFails, Fault, Leak
  <2>2. snd_nxt' \in 0..(SeqMod - 1) /\ hpc' = "idle" /\ inStep' = FALSE
    BY <1>1, <1>5 DEF TransferFails, Return
  <2>3. mp_wr_bitmap' \in SUBSET Ports /\ curr_wr_port' \in Ports
    BY <1>2, <1>5 DEF TransferFails, ClearsBit
  <2> QED
    BY <1>5, <2>1, <2>2, <2>3 DEF TransferFails
<1> QED
  BY <1>3, <1>4, <1>5

LEMMA DeviceType ==
    ASSUME Inv, Wifi \/ Worker \/ sdu_interrupt_entry \/ sdu_soft_reset_interrupt_entry
                \/ sdiowifi_mgmr_reinit
    PROVE  TypeOK'
<1> USE DEF Inv, TypeOK, poolVars, workVars, regVars, portVars, intVars, hostVars, histVars, envVars
<1>0. una_seq \in Int /\ una_seq + Window \in Int /\ una_seq + 1 \in Int
  BY Bounds
<1>1. CASE tx_buf_free
  <2>1. ((una_seq + 1) % SeqMod) \in 0..(SeqMod - 1)
    BY <1>0, RemType
  <2>2. free_size' \in 0..Window
    BY <1>1, Bounds DEF tx_buf_free
  <2> QED
    BY <1>1, <2>1, <2>2 DEF tx_buf_free
<1>2. CASE sdiowifi_update_tx_credit
  <2>1. ((una_seq + Window) % SeqMod) \in 0..(SeqMod - 1)
    BY <1>0, RemType
  <2> QED
    BY <1>2, <2>1 DEF sdiowifi_update_tx_credit
<1>3. CASE WorkerWakes \/ DnLdCRC_err
  BY <1>3 DEF WorkerWakes, DnLdCRC_err
<1>4. CASE sdu_receive_data
  <2>1. NextPort(curr_dnld_port) \in Ports
    BY NextPortType
  <2>2. free_size' \in 0..Window /\ dropped' \in Nat
    <3>1. free_size > 0 => free_size - 1 \in 0..Window
      BY Bounds
    <3> QED
      BY <1>4, <3>1 DEF sdu_receive_data, ToWifi
  <2>3. dma' \in [Ports -> 0..MaxFrames]
    BY <1>4, Bounds DEF sdu_receive_data, NoFrame
  <2> QED
    BY <1>4, <2>1, <2>2, <2>3 DEF sdu_receive_data
<1>5. CASE ReceiveEnds \/ WorkerEnds
  <2>1. CASE ReceiveEnds
    BY <2>1 DEF ReceiveEnds
  <2>2. CASE WorkerEnds
    BY <2>2 DEF WorkerEnds
  <2> QED
    BY <1>5, <2>1, <2>2
<1>6. CASE sdio_software_reset
  <2>1. /\ ((una_seq + Window) % SeqMod) \in 0..(SeqMod - 1)
        /\ (una_seq % SeqMod) \in 0..(SeqMod - 1)
    BY <1>0, RemType
  <2>2. dma' \in [Ports -> 0..MaxFrames] /\ hpc' = "down" /\ credited' = {} /\ DnLdOvr' = FALSE
    BY <1>6, Bounds DEF sdio_software_reset, CardLost, NoFrame
  <2> QED
    BY <1>6, <2>1, <2>2, Bounds DEF sdio_software_reset, ResetPort
<1>7. CASE sdu_interrupt_entry
  BY <1>7 DEF sdu_interrupt_entry
<1>8. CASE sdu_soft_reset_interrupt_entry
  <2>1. dma' \in [Ports -> 0..MaxFrames] /\ hpc' = "down" /\ credited' = {} /\ DnLdOvr' = FALSE
    BY <1>8, Bounds DEF sdu_soft_reset_interrupt_entry, CardLost, NoFrame
  <2>2. /\ resets' \in 0..MaxResets /\ WrBitMap' = {}
        /\ irq' = FALSE /\ reset_ev' = TRUE /\ notified' = TRUE
    BY <1>8, Bounds DEF sdu_soft_reset_interrupt_entry
  <2> QED
    BY <1>8, <2>1, <2>2 DEF sdu_soft_reset_interrupt_entry
<1>9. CASE sdiowifi_mgmr_reinit
  BY <1>9, Bounds DEF sdiowifi_mgmr_reinit
<1> QED
  BY <1>1, <1>2, <1>3, <1>4, <1>5, <1>6, <1>7, <1>8, <1>9 DEF Wifi, Worker

LEMMA StepType == Inv /\ [Next]_vars => TypeOK'
<1> SUFFICES ASSUME Inv, [Next]_vars PROVE TypeOK'
  OBVIOUS
<1>1. CASE UNCHANGED vars
  BY <1>1 DEF vars, Inv, TypeOK, poolVars, workVars, regVars, portVars, intVars, hostVars,
              histVars, envVars
<1> QED
  BY <1>1, HostType, WriteType, DeviceType DEF Next, Host
-----------------------------------------------------------------------------
LEMMA StepDevice == Inv /\ [Next]_vars => DeviceInv'
<1> SUFFICES ASSUME Inv, [Next]_vars PROVE DeviceInv'
  OBVIOUS
<1> USE DEF poolVars, workVars, regVars, portVars, intVars, hostVars, histVars, envVars
<1>0. /\ DeviceInv /\ una_seq \in Nat /\ crediting \in BOOLEAN /\ free_size \in 0..Window
      /\ (~crediting => Announced = una_seq + Window)
  BY Bounds DEF Inv, TypeOK, Announced
<1> USE DEF DeviceInv
<1>1. CASE UNCHANGED vars
  BY <1>0, <1>1 DEF vars, Announced
<1>2. CASE bl_sdio_init \/ GetClamp \/ GetSndNxt \/ Probed \/ ReadCredit \/ ReadWrBitMap
  BY <1>0, <1>2 DEF bl_sdio_init, GetClamp, GetSndNxt, Probed, ReadCredit, ReadWrBitMap, Announced
<1>3. CASE TakeCredit \/ send_cmds
  BY <1>0, <1>3 DEF TakeCredit, send_cmds, Announced
<1>4. CASE WriteTimeout \/ bl_write_data_sync \/ TransferFails
  BY <1>0, <1>4 DEF WriteTimeout, bl_write_data_sync, TransferFails, Return, Announced
<1>5. CASE tx_buf_free
  <2>1. /\ una_seq' = una_seq + 1 /\ crediting' = TRUE /\ ~crediting
        /\ free_size' = free_size + 1 /\ una_reg' = (una_seq + 1) % SeqMod
        /\ UNCHANGED <<wpc, reset_ev, notified, clamp_reg, hpc, sent>> /\ wpc = "wait"
    BY <1>5 DEF tx_buf_free, Idle
  <2>2. Announced' = Announced
    BY <1>0, <2>1, Bounds DEF Announced
  <2> QED
    BY <1>0, <2>1, <2>2
<1>6. CASE sdiowifi_update_tx_credit
  <2>1. /\ UNCHANGED <<una_seq, una_reg, wpc, reset_ev, notified, hpc, sent>>
        /\ crediting' = FALSE /\ clamp_reg' = (una_seq + Window) % SeqMod
    BY <1>6 DEF sdiowifi_update_tx_credit
  <2>2. Announced' = una_seq + Window
    BY <1>0, <2>1, Bounds DEF Announced
  <2> QED
    BY <1>0, <2>1, <2>2
<1>7. CASE WorkerWakes \/ DnLdCRC_err \/ ReceiveEnds \/ WorkerEnds
  BY <1>0, <1>7 DEF WorkerWakes, DnLdCRC_err, ReceiveEnds, ReceivedAll, WorkerEnds, Announced
<1>8. CASE sdu_receive_data
  BY <1>0, <1>8 DEF sdu_receive_data, Announced
<1>9. CASE sdio_software_reset
  BY <1>0, <1>9 DEF sdio_software_reset, CardLost, Announced
<1>10. CASE sdu_interrupt_entry \/ sdu_soft_reset_interrupt_entry \/ sdiowifi_mgmr_reinit
  BY <1>0, <1>10 DEF sdu_interrupt_entry, sdu_soft_reset_interrupt_entry, sdiowifi_mgmr_reinit,
                     CardLost, Announced
<1> QED
  BY <1>1, <1>2, <1>3, <1>4, <1>5, <1>6, <1>7, <1>8, <1>9, <1>10 DEF Next, Host, Wifi, Worker

LEMMA StepPorts == Inv /\ [Next]_vars => PortInv'
<1> SUFFICES ASSUME Inv, [Next]_vars PROVE PortInv'
  OBVIOUS
<1> USE DEF poolVars, workVars, regVars, portVars, intVars, hostVars, histVars, envVars
<1>0. /\ PortInv /\ DeviceInv
      /\ curr_wr_port \in Ports /\ curr_dnld_port \in Ports /\ WrBitMap \subseteq Ports
      /\ dma \in [Ports -> 0..MaxFrames] /\ sent \in Nat
      /\ hpc \in {"down", "probe", "idle", "write"}
  BY DEF Inv, TypeOK
<1> USE DEF PortInv, Up
<1>1. CASE UNCHANGED vars
  BY <1>0, <1>1 DEF vars
<1>2. CASE bl_sdio_init
  <2>1. ~reset_ev /\ hpc = "down" /\ hpc' = "probe" /\ UNCHANGED <<curr_dnld_port, portVars>>
    BY <1>0, <1>2 DEF bl_sdio_init, DeviceInv, Idle
  <2> QED
    BY <1>0, <2>1
<1>3. CASE GetClamp \/ GetSndNxt \/ Probed
  BY <1>0, <1>3 DEF GetClamp, GetSndNxt, Probed
<1>4. CASE TakeCredit \/ ReadCredit \/ send_cmds \/ ReadWrBitMap
  BY <1>0, <1>4 DEF TakeCredit, ReadCredit, send_cmds, ReadWrBitMap
<1>5. CASE WriteTimeout \/ TransferFails
  BY <1>0, <1>5 DEF WriteTimeout, TransferFails, Return, ClearsBit
<1>6. CASE bl_write_data_sync
  <2>1. /\ hpc = "write" /\ hpc' = "idle" /\ curr_wr_port \in mp_wr_bitmap
        /\ mp_wr_bitmap' = mp_wr_bitmap \ {curr_wr_port}
        /\ WrBitMap' = WrBitMap \ {curr_wr_port}
        /\ credited' \in {credited \cup {curr_wr_port}, credited \ {curr_wr_port}}
        /\ dma' = [dma EXCEPT ![curr_wr_port] = sent + 1]
    BY <1>6 DEF bl_write_data_sync, Return, ClearsBit
  <2>2. \A p \in Ports \ WrBitMap' : dma'[p] # NoFrame
    BY <1>0, <2>1 DEF NoFrame
  <2> QED
    BY <1>0, <2>1, <2>2
<1>7. CASE Wifi \/ WorkerWakes \/ DnLdCRC_err \/ ReceiveEnds \/ WorkerEnds
  BY <1>0, <1>7 DEF Wifi, tx_buf_free, sdiowifi_update_tx_credit, WorkerWakes, DnLdCRC_err, ReceiveEnds, WorkerEnds
<1>8. CASE sdu_receive_data
  <2>1. /\ curr_dnld_port \notin WrBitMap /\ WrBitMap' = WrBitMap \cup {curr_dnld_port}
        /\ credited' = credited \ {curr_dnld_port}
        /\ dma' = [dma EXCEPT ![curr_dnld_port] = NoFrame]
        /\ UNCHANGED <<hpc, mp_wr_bitmap, reset_ev>>
    BY <1>8 DEF sdu_receive_data
  <2> QED
    BY <1>0, <2>1
<1>9. CASE sdio_software_reset
  BY <1>0, <1>9 DEF sdio_software_reset, CardLost, ResetPort
<1>10. CASE sdu_interrupt_entry \/ sdu_soft_reset_interrupt_entry \/ sdiowifi_mgmr_reinit
  BY <1>0, <1>10 DEF sdu_interrupt_entry, sdu_soft_reset_interrupt_entry, sdiowifi_mgmr_reinit,
                     CardLost
<1> QED
  BY <1>1, <1>2, <1>3, <1>4, <1>5, <1>6, <1>7, <1>8, <1>9, <1>10 DEF Next, Host, Worker
-----------------------------------------------------------------------------
(* What the host has counted, and the number its frames may reach, depend  *)
(* on no other state than this.                                            *)
LEMMA SameCredit ==
    ASSUME Inv, TypeOK',
           UNCHANGED <<snd_nxt, seq_clamp, hpc, ethernet, got, leaked>>,
           NextSeq' = NextSeq, Announced <= Announced',
           hpc = "probe" => una_seq' + Held' = una_seq + Held /\ dropped' = dropped
    PROVE  SndInv' /\ ClampInv'
<1>1. Up' = Up
  BY DEF Up
<1>2. SndInv'
  BY <1>1 DEF Inv, SndInv
<1>3. ASSUME NEW c \in Nat, Clamp(c) PROVE Clamp(c)'
  <2>1. Announced \in Int /\ Announced' \in Int
    BY CreditedFinite, Bounds DEF Inv, TypeOK, Announced
  <2> QED
    BY <1>1, <1>3, <2>1 DEF Clamp
<1> QED
  BY <1>1, <1>2, <1>3 DEF Inv, ClampInv

LEMMA SameSum ==
    ASSUME UNCHANGED <<una_seq, free_size, crediting, owed, credited, leaked, dropped>>
    PROVE  NextSeq' = NextSeq /\ Announced' = Announced /\ Held' = Held
  BY DEF NextSeq, Announced, Held

LEMMA LostCredit == ASSUME hpc' = "down" PROVE SndInv' /\ ClampInv'
  BY DEF SndInv, ClampInv, Up

(* The device: a buffer that is given back, and a frame that is received   *)
(* or dropped, leave the sum as it is.                                     *)
LEMMA DeviceCredit ==
    ASSUME Inv, TypeOK', Wifi \/ Worker \/ sdu_interrupt_entry
                         \/ sdu_soft_reset_interrupt_entry \/ sdiowifi_mgmr_reinit
    PROVE  SndInv' /\ ClampInv'
<1> USE DEF poolVars, workVars, regVars, portVars, intVars, hostVars, histVars, envVars
<1>0. /\ una_seq \in Nat /\ free_size \in 0..Window /\ crediting \in BOOLEAN
      /\ owed \in 0..Window /\ leaked \in Nat /\ dropped \in Nat
      /\ Cardinality(credited) \in Nat /\ IsFiniteSet(credited) /\ Announced \in Int
  BY CreditedFinite DEF Inv, TypeOK
<1>1. CASE tx_buf_free
  <2>1. /\ una_seq' = una_seq + 1 /\ free_size' = free_size + 1 /\ crediting' /\ ~crediting
        /\ UNCHANGED <<snd_nxt, seq_clamp, hpc, ethernet, got, leaked, owed, credited, dropped>>
    BY <1>1 DEF tx_buf_free
  <2>2. NextSeq' = NextSeq /\ Announced' = Announced /\ una_seq' + Held' = una_seq + Held
    BY <1>0, <2>1, Bounds DEF NextSeq, Announced, Held
  <2> QED
    BY <1>0, <2>1, <2>2, SameCredit
<1>2. CASE sdiowifi_update_tx_credit
  <2>1. /\ crediting /\ ~crediting'
        /\ UNCHANGED <<una_seq, free_size, snd_nxt, seq_clamp, hpc, ethernet, got, leaked, owed,
                       credited, dropped>>
    BY <1>2 DEF sdiowifi_update_tx_credit
  <2>2. NextSeq' = NextSeq /\ Announced <= Announced' /\ una_seq' + Held' = una_seq + Held
    BY <1>0, <2>1, Bounds DEF NextSeq, Announced, Held
  <2> QED
    BY <2>1, <2>2, SameCredit
<1>3. CASE WorkerWakes \/ DnLdCRC_err \/ ReceiveEnds \/ WorkerEnds \/ sdu_interrupt_entry \/ sdiowifi_mgmr_reinit
  <2>1. UNCHANGED <<una_seq, free_size, crediting, snd_nxt, seq_clamp, hpc, ethernet, got, leaked,
                    owed, credited, dropped>>
    BY <1>3 DEF WorkerWakes, DnLdCRC_err, ReceiveEnds, WorkerEnds, sdu_interrupt_entry, sdiowifi_mgmr_reinit
  <2> QED
    BY <1>0, <2>1, SameSum, SameCredit
<1>4. CASE sdio_software_reset \/ sdu_soft_reset_interrupt_entry
  BY <1>4, LostCredit DEF sdio_software_reset, sdu_soft_reset_interrupt_entry, CardLost
<1>5. CASE sdu_receive_data
  <2>1. /\ curr_dnld_port \notin WrBitMap
        /\ credited' = credited \ {curr_dnld_port}
        /\ UNCHANGED <<una_seq, crediting, snd_nxt, seq_clamp, hpc, ethernet, got, leaked, owed>>
    BY <1>5 DEF sdu_receive_data
  <2>2. curr_dnld_port \in Ports /\ hpc \in {"down", "probe", "idle", "write"}
    BY DEF Inv, TypeOK
  <2>3. CASE hpc = "down"
    BY <2>1, <2>3, LostCredit
  <2>4. CASE Up
    <3>1. dma[curr_dnld_port] # NoFrame
      BY <2>1, <2>2, <2>4 DEF Inv, PortInv
    <3>2. PICK eth \in {curr_dnld_port \in credited} :
             IF eth THEN ToWifi ELSE UNCHANGED <<free_size, dropped>>
      BY <1>5, <3>1 DEF sdu_receive_data, MayBeEthernet
    <3>3. CASE curr_dnld_port \in credited
      <4>1. ToWifi
        BY <3>2, <3>3, Zenon
      <4>2. Cardinality(credited') = Cardinality(credited) - 1
        BY <1>0, <2>1, <3>3, FS_RemoveElement
      <4>3. \/ free_size' = free_size - 1 /\ dropped' = dropped
            \/ free_size' = free_size /\ dropped' = dropped + 1
        BY <4>1 DEF ToWifi
      <4>4. NextSeq' = NextSeq /\ Announced' = Announced
        BY <1>0, <2>1, <4>2, <4>3, Bounds DEF NextSeq, Announced, Held
      <4> QED
        BY <1>0, <2>1, <2>4, <4>4, SameCredit DEF Up
    <3>4. CASE curr_dnld_port \notin credited
      <4>1. UNCHANGED <<free_size, dropped>>
        BY <3>2, <3>4, Zenon
      <4>2. credited' = credited
        BY <2>1, <3>4
      <4> QED
        BY <1>0, <2>1, <4>1, <4>2, SameSum, SameCredit
    <3> QED
      BY <3>3, <3>4
  <2>5. CASE hpc = "probe"
    BY <2>1, <2>2, <2>5 DEF Inv, PortInv
  <2> QED
    BY <2>2, <2>3, <2>4, <2>5 DEF Up
<1> QED
  BY <1>1, <1>2, <1>3, <1>4, <1>5 DEF Wifi, Worker

(* The driver's view of the credit is that of numbers that do not wrap.    *)
LEMMA CreditLeft ==
    ASSUME Inv, Up, NEW c \in Nat, Clamp(c)
    PROVE  /\ ((seq_clamp - snd_nxt) % SeqMod) = c - NextSeq
           /\ 0 <= c - NextSeq /\ 2 * (c - NextSeq) < SeqMod
<1>1. /\ una_seq \in Nat /\ free_size \in 0..Window /\ crediting \in BOOLEAN
      /\ owed \in 0..Window /\ leaked \in Nat /\ dropped \in Nat
      /\ Cardinality(credited) \in Nat /\ NextSeq \in Int
  BY CreditedFinite DEF Inv, TypeOK
<1>2. una_seq - Window <= NextSeq /\ Announced <= una_seq + Window /\ Announced \in Int
  BY <1>1, Bounds DEF NextSeq, Announced, Held
<1>3. /\ seq_clamp = c % SeqMod /\ snd_nxt = NextSeq % SeqMod
      /\ c <= Announced /\ NextSeq <= c
  BY DEF Clamp, Inv, SndInv
<1>4. 0 <= c - NextSeq /\ c - NextSeq <= 2 * Window
  BY <1>1, <1>2, <1>3, Bounds
<1>5. 2 * (c - NextSeq) < SeqMod /\ c - NextSeq < SeqMod
  BY <1>1, <1>4, Bounds
<1>6. (((c % SeqMod) - (NextSeq % SeqMod)) % SeqMod) = c - NextSeq
  <2>1. \A a, b \in Int :
         0 <= a - b /\ a - b < SeqMod => (((a % SeqMod) - (b % SeqMod)) % SeqMod) = a - b
    BY Bounds, RemDiff
  <2>2. c \in Int /\ NextSeq \in Int
    BY <1>1
  <2> QED
    BY <1>4, <1>5, <2>1, <2>2, Zenon
<1> QED
  BY <1>3, <1>4, <1>5, <1>6

(* A frame that is counted and that was transferred or lost. *)
LEMMA CountFrame ==
    ASSUME Inv, hpc = "write", Return,
           IF ethernet THEN NextSeq' = NextSeq + 1 ELSE NextSeq' = NextSeq,
           Announced' = Announced, seq_clamp' = seq_clamp
    PROVE  SndInv' /\ ClampInv'
<1>1. /\ Up /\ Up' /\ hpc' = "idle" /\ NextSeq \in Int /\ ethernet \in BOOLEAN
      /\ snd_nxt = NextSeq % SeqMod
      /\ snd_nxt' = IF ethernet THEN (snd_nxt + 1) % SeqMod ELSE snd_nxt
  BY CreditedFinite DEF Up, Return, Inv, TypeOK, SndInv
<1>2. snd_nxt' = NextSeq' % SeqMod
  <2>1. (((NextSeq % SeqMod) + 1) % SeqMod) = ((NextSeq + 1) % SeqMod)
    BY <1>1, Bounds, RemNext
  <2> QED
    BY <1>1, <2>1
<1>3. PICK c \in Nat : Clamp(c)
  BY <1>1 DEF Inv, ClampInv
<1>4. NextSeq' <= c
  BY <1>1, <1>3 DEF Clamp
<1>5. Clamp(c)'
  BY <1>1, <1>3, <1>4 DEF Clamp
<1> QED
  BY <1>1, <1>2, <1>5 DEF SndInv, ClampInv

LEMMA WriteCredit ==
    ASSUME Inv, WriteTimeout \/ TransferFails \/ bl_write_data_sync PROVE SndInv' /\ ClampInv'
<1> USE DEF poolVars, workVars, regVars, portVars, intVars, hostVars, histVars, envVars
<1>0. /\ una_seq \in Nat /\ free_size \in 0..Window /\ crediting \in BOOLEAN
      /\ owed \in 0..Window /\ leaked \in Nat /\ dropped \in Nat /\ ethernet \in BOOLEAN
      /\ Cardinality(credited) \in Nat /\ IsFiniteSet(credited)
  BY CreditedFinite DEF Inv, TypeOK
<1>1. CASE WriteTimeout \/ TransferFails
  <2>1. /\ hpc = "write" /\ Return /\ Leak
        /\ UNCHANGED <<una_seq, free_size, crediting, owed, credited, dropped, seq_clamp>>
    BY <1>1 DEF WriteTimeout, TransferFails
  <2>2. /\ IF ethernet THEN NextSeq' = NextSeq + 1 ELSE NextSeq' = NextSeq
        /\ Announced' = Announced
    BY <1>0, <2>1, Bounds DEF NextSeq, Announced, Held, Leak
  <2> QED
    BY <2>1, <2>2, CountFrame
<1>2. CASE bl_write_data_sync
  <2>1. /\ hpc = "write" /\ Return /\ curr_wr_port \in mp_wr_bitmap
        /\ credited' = IF ethernet THEN credited \cup {curr_wr_port}
                                   ELSE credited \ {curr_wr_port}
        /\ UNCHANGED <<una_seq, free_size, crediting, owed, leaked, dropped, seq_clamp>>
    BY <1>2 DEF bl_write_data_sync
  <2>2. curr_wr_port \notin credited
    BY <2>1 DEF Inv, PortInv, Up
  <2>3. Cardinality(credited') = IF ethernet THEN Cardinality(credited) + 1
                                             ELSE Cardinality(credited)
    BY <1>0, <2>1, <2>2, FS_AddElement
  <2>4. /\ IF ethernet THEN NextSeq' = NextSeq + 1 ELSE NextSeq' = NextSeq
        /\ Announced' = Announced
    BY <1>0, <2>1, <2>3, Bounds DEF NextSeq, Announced, Held
  <2> QED
    BY <2>1, <2>4, CountFrame
<1> QED
  BY <1>1, <1>2

LEMMA HostCredit ==
    ASSUME Inv, bl_sdio_init \/ GetClamp \/ GetSndNxt \/ Probed \/ TakeCredit \/ ReadCredit
                \/ send_cmds \/ ReadWrBitMap
    PROVE  SndInv' /\ ClampInv'
<1> USE DEF poolVars, workVars, regVars, portVars, intVars, hostVars, histVars, envVars
<1>0. /\ una_seq \in Nat /\ free_size \in 0..Window /\ crediting \in BOOLEAN
      /\ owed \in 0..Window /\ leaked \in Nat /\ dropped \in Nat
      /\ Cardinality(credited) \in Nat /\ Held \in 0..Window
      /\ Announced \in Nat /\ NextSeq \in Int /\ una_seq + Held <= Announced
      /\ clamp_reg = Announced % SeqMod /\ una_reg = una_seq % SeqMod
  BY CreditedFinite, Bounds DEF Inv, TypeOK, DeviceInv, Announced, Held
<1>1. CASE bl_sdio_init
  BY <1>1 DEF bl_sdio_init, SndInv, ClampInv, Up
<1>2. CASE GetClamp
  <2>1. /\ hpc = "probe" /\ hpc' = "probe" /\ seq_clamp' = clamp_reg /\ got' = got \cup {"clamp"}
        /\ UNCHANGED <<una_seq, free_size, crediting, owed, credited, leaked, dropped, snd_nxt>>
    BY <1>2 DEF GetClamp
  <2>2. SndInv'
    BY <2>1, SameSum DEF Inv, SndInv, Up
  <2>3. Clamp(Announced)'
    BY <1>0, <2>1, SameSum DEF Clamp, Up
  <2>4. Announced' \in Nat
    BY <1>0, <2>1, SameSum
  <2> QED
    BY <2>2, <2>3, <2>4 DEF ClampInv
<1>3. CASE GetSndNxt
  <2>1. /\ hpc = "probe" /\ hpc' = "probe" /\ snd_nxt' = una_reg /\ got' = got \cup {"sndnxt"}
        /\ owed' = Held /\ leaked' = 0 /\ dropped' = 0
        /\ UNCHANGED <<una_seq, free_size, crediting, credited, seq_clamp, ethernet>>
    BY <1>3 DEF GetSndNxt
  <2>2. credited = {}
    BY <2>1 DEF Inv, PortInv, Up
  <2>3. NextSeq' = una_seq
    BY <1>0, <2>1, <2>2, FS_EmptySet, Bounds DEF NextSeq, Held
  <2>4. SndInv'
    BY <1>0, <2>1, <2>3 DEF SndInv
  <2>5. \A c \in Nat : Clamp(c) => Clamp(c)'
    BY <1>0, <2>1 DEF Clamp, Up, Held, Announced
  <2> QED
    BY <2>1, <2>4, <2>5 DEF Inv, ClampInv, Up
<1>4. CASE Probed
  <2>1. /\ hpc = "probe" /\ hpc' = "idle" /\ got = {"clamp", "sndnxt"}
        /\ UNCHANGED <<una_seq, free_size, crediting, owed, credited, leaked, dropped, snd_nxt,
                       seq_clamp>>
    BY <1>4 DEF Probed
  <2>2. credited = {} /\ leaked = 0 /\ dropped = 0 /\ snd_nxt = NextSeq % SeqMod
    BY <2>1 DEF Inv, PortInv, SndInv, Up
  <2>3. NextSeq <= una_seq + Held
    BY <1>0, <2>2, FS_EmptySet, Bounds DEF NextSeq
  <2>4. PICK c \in Nat : Clamp(c)
    BY <2>1 DEF Inv, ClampInv
  <2>5. NextSeq <= c
    BY <1>0, <2>1, <2>3, <2>4 DEF Clamp
  <2>6. Clamp(c)' /\ SndInv'
    BY <2>1, <2>2, <2>4, <2>5, SameSum DEF Clamp, SndInv, Up
  <2> QED
    BY <2>6 DEF ClampInv
<1>5. CASE TakeCredit
  <2>1. /\ hpc = "idle" /\ hpc' = "write" /\ bl_tx_credit_available
        /\ UNCHANGED <<una_seq, free_size, crediting, owed, credited, leaked, dropped, snd_nxt,
                       seq_clamp>>
    BY <1>5 DEF TakeCredit
  <2>2. PICK c \in Nat : Clamp(c)
    BY <2>1 DEF Inv, ClampInv, Up
  <2>3. NextSeq < c
    BY <1>0, <2>1, <2>2, CreditLeft DEF Up, bl_tx_credit_available
  <2>4. Clamp(c)' /\ SndInv'
    BY <1>0, <2>1, <2>2, <2>3, SameSum DEF Inv, Clamp, SndInv, Up
  <2> QED
    BY <2>4 DEF ClampInv
<1>6. CASE ReadCredit
  <2>1. /\ hpc = "idle" /\ hpc' = "idle" /\ seq_clamp' = clamp_reg
        /\ UNCHANGED <<una_seq, free_size, crediting, owed, credited, leaked, dropped, snd_nxt>>
    BY <1>6 DEF ReadCredit, ReadsClamp
  <2>2. PICK c \in Nat : Clamp(c)
    BY <2>1 DEF Inv, ClampInv, Up
  <2>3. NextSeq <= Announced
    BY <1>0, <2>1, <2>2 DEF Clamp, Up
  <2>4. Clamp(Announced)' /\ Announced' \in Nat /\ SndInv'
    BY <1>0, <2>1, <2>3, SameSum DEF Inv, Clamp, SndInv, Up
  <2> QED
    BY <2>4 DEF ClampInv
<1>7. CASE send_cmds
  <2>1. /\ hpc = "idle" /\ hpc' = "write" /\ ethernet' = FALSE
        /\ UNCHANGED <<una_seq, free_size, crediting, owed, credited, leaked, dropped, snd_nxt,
                       seq_clamp>>
    BY <1>7 DEF send_cmds
  <2>2. PICK c \in Nat : Clamp(c)
    BY <2>1 DEF Inv, ClampInv, Up
  <2>3. Clamp(c)' /\ SndInv'
    BY <2>1, <2>2, SameSum DEF Inv, Clamp, SndInv, Up
  <2> QED
    BY <2>3 DEF ClampInv
<1>8. CASE ReadWrBitMap
  <2>1. UNCHANGED <<una_seq, free_size, crediting, owed, credited, leaked, dropped, snd_nxt,
                    seq_clamp, hpc, got, ethernet>>
    BY <1>8 DEF ReadWrBitMap
  <2>2. TypeOK'
    BY <1>8, HostType
  <2> QED
    BY <1>0, <2>1, <2>2, SameSum, SameCredit
<1> QED
  BY <1>1, <1>2, <1>3, <1>4, <1>5, <1>6, <1>7, <1>8

LEMMA StepCredit == Inv /\ [Next]_vars => SndInv' /\ ClampInv'
<1> SUFFICES ASSUME Inv, [Next]_vars PROVE SndInv' /\ ClampInv'
  OBVIOUS
<1>1. TypeOK'
  BY StepType
<1>2. CASE UNCHANGED vars
  <2>1. UNCHANGED <<una_seq, free_size, crediting, owed, credited, leaked, dropped, snd_nxt,
                    seq_clamp, hpc, got, ethernet>>
    BY <1>2 DEF vars, poolVars, portVars, hostVars, histVars
  <2>2. Announced \in Int
    BY CreditedFinite DEF Inv
  <2> QED
    BY <1>1, <2>1, <2>2, SameSum, SameCredit
<1> QED
  BY <1>1, <1>2, HostCredit, WriteCredit, DeviceCredit DEF Next, Host

LEMMA StepInv == Inv /\ [Next]_vars => Inv'
  BY StepType, StepDevice, StepPorts, StepCredit DEF Inv

LEMMA Invariant == Spec => []Inv
  BY InitInv, StepInv, PTL DEF Spec
-----------------------------------------------------------------------------
(* A frame finds no buffer only if the frames on their way are more than   *)
(* the buffers that were free at the probe.                                *)
LEMMA StepDrops == Inv /\ Inv' /\ DropsBounded /\ [Next]_vars => DropsBounded'
<1> SUFFICES ASSUME Inv, Inv', DropsBounded, [Next]_vars, Up' PROVE dropped' <= owed'
  BY DEF DropsBounded
<1> USE DEF poolVars, workVars, regVars, portVars, intVars, hostVars, histVars, envVars
<1>0. /\ una_seq \in Nat /\ free_size \in 0..Window /\ crediting \in BOOLEAN
      /\ owed \in 0..Window /\ leaked \in Nat /\ dropped \in Nat
      /\ Cardinality(credited) \in Nat /\ IsFiniteSet(credited)
      /\ hpc \in {"down", "probe", "idle", "write"}
  BY CreditedFinite DEF Inv, TypeOK
<1>1. CASE sdu_receive_data
  <2>1. Up /\ curr_dnld_port \notin WrBitMap /\ curr_dnld_port \in Ports
    BY <1>1 DEF sdu_receive_data, Up, Inv, TypeOK
  <2>2. dma[curr_dnld_port] # NoFrame
    BY <2>1 DEF Inv, PortInv
  <2>3. PICK eth \in {curr_dnld_port \in credited} :
           IF eth THEN ToWifi ELSE UNCHANGED <<free_size, dropped>>
    BY <1>1, <2>2 DEF sdu_receive_data, MayBeEthernet
  <2>4. owed' = owed
    BY <1>1 DEF sdu_receive_data
  <2>5. CASE dropped' = dropped
    BY <2>1, <2>4, <2>5 DEF DropsBounded
  <2>6. CASE dropped' # dropped
    <3>1. curr_dnld_port \in credited /\ ToWifi
      BY <2>3, <2>6, Zenon
    <3>2. free_size = 0 /\ dropped' = dropped + 1
      BY <1>0, <2>6, <3>1 DEF ToWifi
    <3>3. Cardinality(credited) >= 1
      BY <1>0, <3>1, FS_EmptySet
    <3>4. PICK c \in Nat : Clamp(c)
      BY <2>1 DEF Inv, ClampInv
    <3>5. NextSeq <= una_seq + Window
      <4>1. NextSeq \in Int /\ Announced \in Int /\ Announced <= una_seq + Window
        BY <1>0, CreditedFinite, Bounds DEF Inv, Announced
      <4> QED
        BY <1>0, <2>1, <3>4, <4>1, Bounds DEF Clamp
    <3> QED
      BY <1>0, <2>4, <3>2, <3>3, <3>5, Bounds DEF NextSeq, Held
  <2> QED
    BY <2>5, <2>6
<1>2. CASE Probed
  BY <1>0, <1>2 DEF Probed, Inv, SndInv
<1>3. CASE bl_sdio_init \/ GetClamp \/ GetSndNxt \/ sdio_software_reset
           \/ sdu_soft_reset_interrupt_entry
  BY <1>3 DEF bl_sdio_init, GetClamp, GetSndNxt, sdio_software_reset,
              sdu_soft_reset_interrupt_entry, CardLost, Up
<1>4. CASE TakeCredit \/ ReadCredit \/ send_cmds \/ ReadWrBitMap
  BY <1>4 DEF TakeCredit, ReadCredit, send_cmds, ReadWrBitMap, DropsBounded, Up
<1>5. CASE WriteTimeout \/ TransferFails \/ bl_write_data_sync
  BY <1>5 DEF WriteTimeout, TransferFails, bl_write_data_sync, DropsBounded, Up
<1>6. CASE Wifi \/ WorkerWakes \/ DnLdCRC_err \/ ReceiveEnds \/ WorkerEnds \/ sdu_interrupt_entry
           \/ sdiowifi_mgmr_reinit \/ UNCHANGED vars
  BY <1>6 DEF Wifi, tx_buf_free, sdiowifi_update_tx_credit, WorkerWakes, DnLdCRC_err, ReceiveEnds, WorkerEnds,
              sdu_interrupt_entry, sdiowifi_mgmr_reinit, vars, DropsBounded, Up
<1> QED
  BY <1>1, <1>2, <1>3, <1>4, <1>5, <1>6 DEF Next, Host, Worker
-----------------------------------------------------------------------------
(* The frames that wait for the device form a queue in the ring of ports:  *)
(* n of them, in order, from its next port up to the host's.               *)
Wrap(b, i) == IF b + i < NPorts THEN b + i ELSE b + i - NPorts

Queue(b, n) ==
    /\ Ports \ WrBitMap = {Wrap(b, i) : i \in 0..(n - 1)}
    /\ Wrap(b, n) = curr_wr_port
    /\ \A i \in 0..(n - 1) : dma[Wrap(b, i)] = sent - n + 1 + i

OrderInv == Up /\ inStep => \E n \in 0..NPorts : Queue(curr_dnld_port, n)

LEMMA WrapIsRem ==
    ASSUME NEW b \in Ports, NEW i \in 0..NPorts
    PROVE  ((b + i) % NPorts) = Wrap(b, i)
<1> DEFINE x == b + i
<1>1. x \in Nat /\ x < 2 * NPorts /\ NPorts \in Nat \ {0}
  BY Bounds DEF Ports
<1>2. Wrap(b, i) = IF x < NPorts THEN x ELSE x - NPorts
  BY <1>1 DEF Wrap, Ports
<1> HIDE DEF x
<1>3. CASE x < NPorts
  <2>1. (x % NPorts) = x
    BY <1>1, <1>3
  <2> QED
    BY <2>1, <1>2, <1>3 DEF x
<1>4. CASE x >= NPorts
  <2>1. (x % NPorts) = x - NPorts
    BY <1>1, <1>4
  <2>2. Wrap(b, i) = x - NPorts
    BY <1>1, <1>2, <1>4
  <2>3. (x % NPorts) = Wrap(b, i)
    BY <2>1, <2>2, Zenon
  <2> QED
    BY <2>3, Zenon DEF x
<1> QED
  BY <1>1, <1>3, <1>4

LEMMA WrapPort ==
    ASSUME NEW b \in Ports
    PROVE  /\ Wrap(b, 0) = b
           /\ NextPort(b) = Wrap(b, 1)
           /\ \A i \in 0..NPorts : Wrap(b, i) \in Ports
           /\ \A i \in 0..(NPorts - 1) : Wrap(Wrap(b, i), 1) = Wrap(b, i + 1)
           /\ \A i \in 0..(NPorts - 1) : Wrap(Wrap(b, 1), i) = Wrap(b, i + 1)
<1>1. 1 \in 0..NPorts
  BY Bounds
<1>2. NextPort(b) = Wrap(b, 1)
  BY <1>1, WrapIsRem DEF NextPort
<1> QED
  BY <1>2, Bounds DEF Wrap, Ports

LEMMA WrapInjective ==
    ASSUME NEW b \in Ports, NEW i \in 0..(NPorts - 1), NEW j \in 0..(NPorts - 1),
           Wrap(b, i) = Wrap(b, j)
    PROVE  i = j
  BY Bounds DEF Wrap, Ports

(* The whole ring is every port. *)
LEMMA WrapAll ==
    ASSUME NEW b \in Ports, NEW p \in Ports
    PROVE  \E i \in 0..(NPorts - 1) : Wrap(b, i) = p
<1>1. CASE p >= b
  <2>1. p - b \in 0..(NPorts - 1) /\ Wrap(b, p - b) = p
    BY <1>1, Bounds DEF Wrap, Ports
  <2> QED
    BY <2>1
<1>2. CASE p < b
  <2>1. p + NPorts - b \in 0..(NPorts - 1) /\ Wrap(b, p + NPorts - b) = p
    BY <1>2, Bounds DEF Wrap, Ports
  <2> QED
    BY <2>1
<1> QED
  BY <1>1, <1>2 DEF Ports

LEMMA QueueSize ==
    ASSUME NEW b \in Ports, NEW n \in 0..NPorts, Queue(b, n)
    PROVE  Cardinality((Ports \ WrBitMap)) = n
<1> DEFINE f == [i \in 0..(n - 1) |-> Wrap(b, i)]
<1>1. /\ \A i \in 0..(n - 1) : f[i] \in (Ports \ WrBitMap)
      /\ \A p \in (Ports \ WrBitMap) : \E i \in 0..(n - 1) : f[i] = p
      /\ f \in [0..(n - 1) -> (Ports \ WrBitMap)]
  BY DEF Queue
<1>2. \A i, j \in 0..(n - 1) : f[i] = f[j] => i = j
  BY WrapInjective, Bounds
<1> HIDE DEF f
<1>3. f \in Surjection(0..(n - 1), (Ports \ WrBitMap))
  BY <1>1 DEF Surjection
<1>4. f \in Injection(0..(n - 1), (Ports \ WrBitMap))
  BY <1>1, <1>2 DEF Injection, IsInjective
<1>5. IsFiniteSet(0..(n - 1)) /\ Cardinality(0..(n - 1)) = n
  BY FS_Interval
<1> QED
  BY <1>3, <1>4, <1>5, FS_Surjection

(* The host writes a frame behind the last one. *)
LEMMA QueueAppend ==
    ASSUME Inv, bl_write_data_sync, NEW b \in Ports, NEW n \in 0..NPorts, Queue(b, n)
    PROVE  n + 1 \in 0..NPorts /\ Queue(b, n + 1)'
<1>1. /\ hpc = "write" /\ curr_wr_port \in mp_wr_bitmap
      /\ WrBitMap' = WrBitMap \ {curr_wr_port}
      /\ dma' = [dma EXCEPT ![curr_wr_port] = sent + 1]
      /\ sent' = sent + 1
      /\ curr_wr_port' = NextPort(curr_wr_port)
  BY DEF bl_write_data_sync
<1>2. /\ curr_wr_port \in Ports /\ curr_wr_port \in WrBitMap /\ sent \in Nat
      /\ WrBitMap \subseteq Ports /\ dma \in [Ports -> 0..MaxFrames]
  BY <1>1 DEF Inv, TypeOK, PortInv, Up
<1>3. /\ Ports \ WrBitMap = {Wrap(b, i) : i \in 0..(n - 1)}
      /\ Wrap(b, n) = curr_wr_port
      /\ \A i \in 0..(n - 1) : dma[Wrap(b, i)] = sent - n + 1 + i
  BY DEF Queue
<1>4. n # NPorts
  <2> SUFFICES ASSUME n = NPorts PROVE FALSE
    OBVIOUS
  <2>1. \E i \in 0..(n - 1) : Wrap(b, i) = curr_wr_port
    BY <1>2, WrapAll
  <2> QED
    BY <2>1, <1>2, <1>3
<1>5. n \in 0..(NPorts - 1) /\ n + 1 \in 0..NPorts
  BY <1>4, Bounds
<1>6. 0..((n + 1) - 1) = 0..(n - 1) \cup {n}
  BY <1>5
<1>7. Ports \ WrBitMap' = {Wrap(b, i) : i \in 0..((n + 1) - 1)}
  <2>1. Ports \ WrBitMap' = (Ports \ WrBitMap) \cup {curr_wr_port}
    BY <1>1, <1>2
  <2> QED
    BY <2>1, <1>3, <1>6
<1>8. Wrap(b, n + 1) = curr_wr_port'
  BY <1>1, <1>2, <1>3, <1>5, WrapPort
<1>9. \A i \in 0..((n + 1) - 1) : dma'[Wrap(b, i)] = sent' - (n + 1) + 1 + i
  <2> SUFFICES ASSUME NEW i \in 0..((n + 1) - 1)
               PROVE  dma'[Wrap(b, i)] = sent' - (n + 1) + 1 + i
    OBVIOUS
  <2>1. CASE i = n
    <3>1. dma'[Wrap(b, i)] = sent + 1
      BY <2>1, <1>1, <1>2, <1>3
    <3> QED
      BY <3>1, <2>1, <1>1, <1>2, <1>5
  <2>2. CASE i # n
    <3>1. i \in 0..(n - 1)
      BY <2>2, <1>5
    <3>2. Wrap(b, i) \in Ports /\ Wrap(b, i) # curr_wr_port
      BY <3>1, <1>2, <1>3
    <3>3. dma'[Wrap(b, i)] = dma[Wrap(b, i)]
      BY <3>2, <1>1, <1>2
    <3> QED
      BY <3>1, <3>3, <1>1, <1>2, <1>3, <1>5
  <2> QED
    BY <2>1, <2>2
<1> QED
  BY <1>5, <1>7, <1>8, <1>9 DEF Queue

(* The device receives the first one. *)
LEMMA QueueReceive ==
    ASSUME Inv, sdu_receive_data, NEW b \in Ports, b = curr_dnld_port,
           NEW n \in 0..NPorts, Queue(b, n)
    PROVE  n - 1 \in 0..NPorts /\ Queue(NextPort(b), n - 1)'
<1>1. /\ b \notin WrBitMap /\ WrBitMap' = WrBitMap \cup {b}
      /\ dma' = [dma EXCEPT ![b] = NoFrame]
      /\ UNCHANGED <<sent, curr_wr_port>>
  BY DEF sdu_receive_data, hostVars, envVars
<1>2. /\ Ports \ WrBitMap = {Wrap(b, i) : i \in 0..(n - 1)}
      /\ Wrap(b, n) = curr_wr_port
      /\ \A i \in 0..(n - 1) : dma[Wrap(b, i)] = sent - n + 1 + i
  BY DEF Queue
<1>3. n \in 1..NPorts
  BY <1>1, <1>2
<1>4. /\ n - 1 \in 0..(NPorts - 1) /\ NPorts \in Nat \ {0}
      /\ \A i \in 0..((n - 1) - 1) : i + 1 \in 1..(n - 1) /\ i \in 0..(NPorts - 1)
  BY <1>3, Bounds
<1>5. /\ Wrap(b, 0) = b
      /\ NextPort(b) = Wrap(b, 1)
      /\ \A i \in 0..NPorts : Wrap(b, i) \in Ports
      /\ \A i \in 0..(NPorts - 1) : Wrap(Wrap(b, 1), i) = Wrap(b, i + 1)
  BY WrapPort
<1>6. \A i \in 1..(n - 1) : Wrap(b, i) # b
  <2> SUFFICES ASSUME NEW i \in 1..(n - 1), Wrap(b, i) = b PROVE FALSE
    OBVIOUS
  <2>1. i \in 0..(NPorts - 1) /\ 0 \in 0..(NPorts - 1)
    BY <1>4
  <2>2. i = 0
    BY <2>1, <1>5, WrapInjective
  <2> QED
    BY <2>2
<1>7. Ports \ WrBitMap' = {Wrap(b, i) : i \in 1..(n - 1)}
  <2>1. 0..(n - 1) = {0} \cup 1..(n - 1)
    BY <1>3
  <2>2. Ports \ WrBitMap' = (Ports \ WrBitMap) \ {b}
    BY <1>1
  <2> QED
    BY <2>1, <2>2, <1>2, <1>5, <1>6
<1>8. {Wrap(b, i) : i \in 1..(n - 1)} = {Wrap(Wrap(b, 1), i) : i \in 0..((n - 1) - 1)}
  <2>1. \A i \in 1..(n - 1) : i - 1 \in 0..((n - 1) - 1) /\ (i - 1) + 1 = i
    BY <1>3
  <2>2. \A i \in 1..(n - 1) : Wrap(b, i) = Wrap(Wrap(b, 1), i - 1)
    BY <2>1, <1>4, <1>5
  <2>3. \A i \in 0..((n - 1) - 1) : Wrap(Wrap(b, 1), i) = Wrap(b, i + 1)
    BY <1>4, <1>5
  <2> QED
    BY <2>1, <2>2, <2>3, <1>4
<1>9. Wrap(Wrap(b, 1), n - 1) = curr_wr_port
  BY <1>2, <1>3, <1>4, <1>5
<1>10. \A i \in 0..((n - 1) - 1) : dma'[Wrap(Wrap(b, 1), i)] = sent - (n - 1) + 1 + i
  <2> SUFFICES ASSUME NEW i \in 0..((n - 1) - 1)
               PROVE  dma'[Wrap(Wrap(b, 1), i)] = sent - (n - 1) + 1 + i
    OBVIOUS
  <2>1. Wrap(Wrap(b, 1), i) = Wrap(b, i + 1) /\ i + 1 \in 1..(n - 1) /\ i + 1 \in 0..NPorts
    BY <1>4, <1>5
  <2>2. dma[Wrap(b, i + 1)] = sent - n + 1 + (i + 1)
    BY <2>1, <1>2
  <2>3. Wrap(b, i + 1) # b /\ Wrap(b, i + 1) \in Ports
    BY <2>1, <1>5, <1>6
  <2>4. dma'[Wrap(b, i + 1)] = dma[Wrap(b, i + 1)]
    BY <2>3, <1>1 DEF Inv, TypeOK
  <2> QED
    BY <2>1, <2>2, <2>4, <1>3 DEF Inv, TypeOK
<1>11. Queue(Wrap(b, 1), n - 1)'
  BY <1>1, <1>7, <1>8, <1>9, <1>10 DEF Queue
<1> QED
  BY <1>3, <1>5, <1>11, Bounds

LEMMA StepOrder == Inv /\ OrderInv /\ [Next]_vars => OrderInv'
<1> SUFFICES ASSUME Inv, OrderInv, [Next]_vars, Up', inStep'
             PROVE  \E n \in 0..NPorts : Queue(curr_dnld_port, n)'
  BY DEF OrderInv
<1> USE DEF poolVars, workVars, regVars, portVars, intVars, hostVars, histVars, envVars
<1>1. ASSUME UNCHANGED <<WrBitMap, dma, sent, curr_wr_port, curr_dnld_port, inStep>>, Up
      PROVE  \E n \in 0..NPorts : Queue(curr_dnld_port, n)'
  BY <1>1 DEF OrderInv, Queue
<1>2. CASE Probed
  <2>1. /\ UNCHANGED <<WrBitMap, dma, sent, curr_dnld_port>> /\ curr_wr_port' = 0
        /\ WrBitMap = Ports /\ curr_dnld_port = 0
    BY <1>2 DEF Probed, Inv, PortInv
  <2>2. Wrap(0, 0) = 0 /\ 0 \in 0..NPorts
    BY Bounds DEF Wrap
  <2>3. Queue(curr_dnld_port, 0)'
    BY <2>1, <2>2 DEF Queue
  <2> QED
    BY <2>2, <2>3
<1>3. CASE bl_write_data_sync
  <2>1. Up /\ inStep /\ curr_dnld_port' = curr_dnld_port
    BY <1>3 DEF bl_write_data_sync, Up
  <2>2. PICK b \in Ports : b = curr_dnld_port
    BY DEF Inv, TypeOK
  <2>3. PICK n \in 0..NPorts : Queue(b, n)
    BY <2>1, <2>2 DEF OrderInv
  <2>4. n + 1 \in 0..NPorts /\ Queue(b, n + 1)'
    BY <1>3, <2>3, QueueAppend
  <2> QED
    BY <2>1, <2>2, <2>4
<1>4. CASE sdu_receive_data
  <2>1. Up /\ inStep /\ curr_dnld_port' = NextPort(curr_dnld_port)
    BY <1>4 DEF sdu_receive_data, Up
  <2>2. PICK b \in Ports : b = curr_dnld_port
    BY DEF Inv, TypeOK
  <2>3. PICK n \in 0..NPorts : Queue(b, n)
    BY <2>1, <2>2 DEF OrderInv
  <2>4. n - 1 \in 0..NPorts /\ Queue(NextPort(b), n - 1)'
    BY <1>4, <2>2, <2>3, QueueReceive
  <2> QED
    BY <2>1, <2>2, <2>4
<1>5. CASE bl_sdio_init \/ GetClamp \/ GetSndNxt \/ sdio_software_reset
           \/ sdu_soft_reset_interrupt_entry \/ TransferFails
  BY <1>5 DEF bl_sdio_init, GetClamp, GetSndNxt, sdio_software_reset,
              sdu_soft_reset_interrupt_entry, CardLost, TransferFails, Up
<1>6. CASE TakeCredit \/ ReadCredit \/ send_cmds \/ ReadWrBitMap \/ WriteTimeout
  BY <1>1, <1>6 DEF TakeCredit, ReadCredit, send_cmds, ReadWrBitMap, WriteTimeout, Up
<1>7. CASE Wifi \/ WorkerWakes \/ DnLdCRC_err \/ ReceiveEnds \/ WorkerEnds \/ sdu_interrupt_entry
           \/ sdiowifi_mgmr_reinit \/ UNCHANGED vars
  BY <1>1, <1>7 DEF Wifi, tx_buf_free, sdiowifi_update_tx_credit, WorkerWakes, DnLdCRC_err, ReceiveEnds,
              WorkerEnds, sdu_interrupt_entry, sdiowifi_mgmr_reinit, vars, Up
<1> QED
  BY <1>2, <1>3, <1>4, <1>5, <1>6, <1>7 DEF Next, Host, Worker

LEMMA OrderInStep == Inv /\ OrderInv => TakenInStep
<1> SUFFICES ASSUME Inv, OrderInv, Up, inStep
             PROVE  LET m == Cardinality(Ports \ WrBitMap) IN
                    /\ ((curr_dnld_port + m) % NPorts) = curr_wr_port
                    /\ \A i \in 0..(m - 1) :
                          /\ ((curr_dnld_port + i) % NPorts) \in Ports \ WrBitMap
                          /\ dma[(curr_dnld_port + i) % NPorts] = sent - m + 1 + i
  BY Zenon DEF TakenInStep
<1>1. PICK b \in Ports : b = curr_dnld_port
  BY DEF Inv, TypeOK
<1>2. PICK n \in 0..NPorts : Queue(b, n)
  BY <1>1 DEF OrderInv
<1>3. Cardinality(Ports \ WrBitMap) = n
  BY <1>2, QueueSize
<1>4. \A i \in 0..n : ((b + i) % NPorts) = Wrap(b, i)
  <2>1. \A i \in 0..n : i \in 0..NPorts
    BY <1>2, Bounds
  <2> QED
    BY <2>1, WrapIsRem
<1>5. ((b + n) % NPorts) = curr_wr_port
  BY <1>2, <1>4 DEF Queue
<1>6. \A i \in 0..(n - 1) :
         /\ ((b + i) % NPorts) \in Ports \ WrBitMap
         /\ dma[(b + i) % NPorts] = sent - n + 1 + i
  <2>1. \A i \in 0..(n - 1) : i \in 0..n
    BY <1>2
  <2> QED
    BY <1>2, <1>4, <2>1, Zenon DEF Queue
<1> QED
  BY <1>1, <1>3, <1>5, <1>6, Zenon

LEMMA StepServed ==
    Inv /\ OrderInv /\ FramesProcessed /\ [Next]_vars => FramesProcessed'
<1> SUFFICES ASSUME Inv, OrderInv, FramesProcessed, [Next]_vars, Up', inStep',
                    WrBitMap' # Ports, ~DnLdOvr', wpc' # "receive"
             PROVE  refused'
  BY DEF FramesProcessed
<1> USE DEF poolVars, workVars, regVars, portVars, intVars, hostVars, histVars, envVars
<1>1. CASE ReceiveEnds
  <2>1. /\ Up /\ inStep /\ WrBitMap # Ports /\ curr_dnld_port \in WrBitMap
    BY <1>1 DEF ReceiveEnds, ReceivedAll, Up
  <2>2. PICK b \in Ports : b = curr_dnld_port
    BY DEF Inv, TypeOK
  <2>3. PICK n \in 0..NPorts : Queue(b, n)
    BY <2>1, <2>2 DEF OrderInv
  <2>4. Ports \ WrBitMap # {}
    BY <2>1 DEF Inv, TypeOK
  <2>5. 0 \in 0..(n - 1)
    BY <2>3, <2>4 DEF Queue
  <2>6. Wrap(b, 0) \in Ports \ WrBitMap
    BY <2>3, <2>5 DEF Queue
  <2> QED
    BY <2>1, <2>2, <2>6, WrapPort
<1>2. CASE Probed
  BY <1>2 DEF Probed, Inv, PortInv
<1>3. CASE bl_write_data_sync \/ DnLdCRC_err \/ sdu_receive_data
  BY <1>3 DEF bl_write_data_sync, DnLdCRC_err, sdu_receive_data
<1>4. CASE WorkerWakes
  BY <1>4 DEF WorkerWakes, FramesProcessed, Up
<1>5. CASE bl_sdio_init \/ GetClamp \/ GetSndNxt \/ sdio_software_reset
           \/ sdu_soft_reset_interrupt_entry \/ TransferFails
  BY <1>5 DEF bl_sdio_init, GetClamp, GetSndNxt, sdio_software_reset,
              sdu_soft_reset_interrupt_entry, CardLost, TransferFails, Up
<1>6. CASE TakeCredit \/ ReadCredit \/ send_cmds \/ ReadWrBitMap \/ WriteTimeout
  BY <1>6 DEF TakeCredit, ReadCredit, send_cmds, ReadWrBitMap, WriteTimeout, Return,
              FramesProcessed, Up
<1>7. CASE Wifi \/ WorkerEnds \/ sdu_interrupt_entry \/ sdiowifi_mgmr_reinit
           \/ UNCHANGED vars
  BY <1>7 DEF Wifi, tx_buf_free, sdiowifi_update_tx_credit, WorkerEnds,
              sdu_interrupt_entry, sdiowifi_mgmr_reinit, vars, FramesProcessed, Up
<1> QED
  BY <1>1, <1>2, <1>3, <1>4, <1>5, <1>6, <1>7 DEF Next, Host, Worker
-----------------------------------------------------------------------------
(* Every variable keeps its type, however often ports and sequence numbers *)
(* wrap.                                                                   *)
THEOREM TypeCorrect == Spec => []TypeOK
<1>1. Inv => TypeOK
  BY DEF Inv
<1> QED
  BY <1>1, Invariant, PTL

(* What is left of the credit never passes for none, nor the reverse:      *)
(* whatever fails and whenever either register is read, the host's number  *)
(* stays within half the range behind the announced one.                   *)
THEOREM CreditCorrect == Spec => []CreditInRange
<1>1. Inv => CreditInRange
  <2> SUFFICES ASSUME Inv, Up PROVE 2 * ((seq_clamp - snd_nxt) % SeqMod) < SeqMod
    BY DEF CreditInRange
  <2>1. PICK c \in Nat : Clamp(c)
    BY DEF Inv, ClampInv
  <2> QED
    BY <2>1, CreditLeft
<1> QED
  BY <1>1, Invariant, PTL

(* No more frames are dropped for want of a buffer than there were buffers *)
(* in the Wi-Fi stack when the host probed the card.                       *)
THEOREM DropsCorrect == Spec => []DropsBounded
<1>1. Init => Inv /\ DropsBounded
  BY InitInv DEF Init, DropsBounded, Up
<1>2. (Inv /\ DropsBounded) /\ [Next]_vars => (Inv /\ DropsBounded)'
  BY StepInv, StepDrops
<1> QED
  BY <1>1, <1>2, PTL DEF Spec

(* Until a transfer fails, host and device agree on the next port, and the *)
(* frames between them are in order.                                       *)
THEOREM StepCorrect == Spec => []TakenInStep
<1>1. Init => Inv /\ OrderInv
  BY InitInv DEF Init, OrderInv, Up
<1>2. (Inv /\ OrderInv) /\ [Next]_vars => (Inv /\ OrderInv)'
  BY StepInv, StepOrder
<1>3. Inv /\ OrderInv => TakenInStep
  BY OrderInStep
<1> QED
  BY <1>1, <1>2, <1>3, PTL DEF Spec

(* While both sides are in step, the worker serves every full port on the  *)
(* interrupt that tells of it, except where the hardware told it of a CRC  *)
(* error.                                                                  *)
THEOREM AllServed == Spec => []FramesProcessed
<1>1. Init => Inv /\ OrderInv /\ FramesProcessed
  BY InitInv DEF Init, OrderInv, FramesProcessed, Up
<1>2. (Inv /\ OrderInv /\ FramesProcessed) /\ [Next]_vars
         => (Inv /\ OrderInv /\ FramesProcessed)'
  BY StepInv, StepOrder, StepServed
<1> QED
  BY <1>1, <1>2, PTL DEF Spec
=============================================================================
