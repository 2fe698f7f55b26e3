# Formal model of the Bouffalo SDK's own logic

The repository is the SDK of a family of wireless microcontrollers (BL602, BL616,
BL702, BL702L, BL808).  Most of its ten thousand files are vendored (mbedtls, lwip,
LVGL, FreeRTOS, OpenThread, littlefs, FatFs, CherryUSB, the Zephyr BLE stack), register
definitions, or examples.  What the SDK itself decides, and what these modules are
about, is in `components/utils`, `components/mm`, `components/shell`,
`components/net/netbus` and the ports that glue the vendored stacks together.

## 1. Inventory

### 1.1 Firmware update (modelled)

| part | state | operations |
|---|---|---|
| partition table, `components/utils/partition/partition.c` | two copies in flash (age, entries with `active_index`, two CRCs) | choose the active copy, look an entry up, update an entry (RAM, erase, write), IAP parameters |
| boot-time copy and MTD layer, `components/utils/bflb_mtd` | `boot2_partition_table` in RAM, open MTD handles | `bflb_boot2_init`, `bflb_boot2_update_ptable`, `bflb_mtd_open/erase/erase_all/write/read/close` |
| `components/utils/bflb_ota/bflb_ota.c` | one session `ota_parm` with its erase bitmap | start, update, finish, check, apply, abort |
| `dev_net_mgmr/src/rnm_ota.c` (device) | `rnm->ota` | START, PROGRAM_PART, COMMIT, ABORT |
| `host_linux/userspace/blctl_ota.c` (host) | position in the file, one request in flight | `blctl_ota`, `blctl_ota_abort`, time-outs |

Interaction: the update writes the slot that the *RAM* table calls inactive, and then
stores a new table over the copy that is not active.  The boot loader, after the next
reset, picks the newer valid copy and the slot its `FW` entry names.  Hard: power loss
between any two flash operations, flash operations whose result is dropped, tables in
RAM and in flash that disagree when the caller does not reboot, two hosts, answers that
come too late.  Right means: there is always a table to boot from and it always names
a slot with a whole image; the slot in execution is never touched; what is announced as
installed is what boots next; an update that is retried gets through.

### 1.2 Ring buffer and shell (modelled)

| part | state | operations |
|---|---|---|
| `components/utils/ring_buffer/ring_buffer.c` | read and write end, each an index and a mirror bit; the bytes | init, reset, write, write byte, forced write, forced write byte, read, read byte, peek, peek byte, length, empty length, status |
| `components/shell/shell_freertos.c`, input | `shell_rb`, the semaphore `sem_shell` | `uart_shell_isr`, `shell_task` |
| `shell_freertos.c`, execution, with `shell_exec_cmd` and `shell_signal` of `shell.c` | `shell_exec_end`, `shell_exec_handle`, one copy of the arguments, the Ctrl-C function, one task per command | `shell_start_exec`, `shell_abort_exec`, `shell_exec_task` |

Interaction: the interrupt writes the ring buffer and gives the semaphore; the task
takes the semaphore, samples the length, takes as many bytes and hands each to the line
editor.  Neither side locks.  The end of a line aborts the command before and starts a
task for the new one; Ctrl-C aborts, too; a command ends by itself at any time.  Hard:
the mirror bit, by which a full buffer differs from an empty one, moves together with
the index in two branches of eight functions; an end of the buffer changes in two
stores and is read in two loads, with interrupts between them; the shell and the task of
a command decide by one flag and one handle who deletes whom.  Right means: the buffer
is a queue; every byte that was stored is taken once and in order; a byte is dropped
only when there is no room; the task never sleeps on a byte; a command runs with the
arguments of its own line, is the only one, and is deleted once.

### 1.3 SDIO transceiver (modelled)

| part | state | operations |
|---|---|---|
| `dev_net_sdio/net_wifi_transceiver.c`, `trcver_sdio.c` | sixteen descriptors, `rd_bitmap_old`, `curr_upld_port`, `curr_dnld_port`, `sdio_tx_attached`, `sdu_worker_ev`, the watchdog timer, the registers `RdBitMap` and `WrBitMap` and the ports' addresses | `bf1b_msg_send_pbuf` / `sdu_send_data`, `sdu_receive_data`, the transfer and soft-reset interrupts, the worker `sdu_interrupt_task` (confirm, receive, reset, time out), the watchdog |
| `dev_net_sdio/sdiowifi_tx_buf.c` | the free buffers, `una_seq`, two 8-bit credit registers | take, free, `sdiowifi_update_tx_credit` |
| `dev_net_sdio/sdiowifi_mgmr.c` | `host_present`, heartbeat | ready and heartbeat-failure callbacks |
| `host_linux/bl_sdio_eth.c`, `bl_sdio.c` | the next read and write ports, `mp_wr_bitmap`, `seq_clamp`, `snd_nxt` | `bl_upload_hdl`, `bl_eth_tx_data_process`, `bl_sdio_write`, `send_cmds`, `bl_sdio_get_ready`, probe |

Interaction, upwards: a sending task puts a buffer behind the next port and sets a bit;
the host reads the ports in turn, which clears bits and raises an interrupt; the worker
compares the bits with those it remembers and frees the buffers.  Downwards: the host
spends a credit, writes the next port and goes on; the worker hands the frame to the
Wi-Fi stack and makes the port ready again; the Wi-Fi stack gives the buffer back, which
announces a new credit in two register stores.  Hard: four actors (senders, worker,
interrupts, host) on state of which only part is under a lock; frames that are never
read; 8-bit sequence numbers; transfers that fail; resets from either side at any step.
Right means: every buffer is given back exactly once and not while the host may read it;
both sides agree on the next port, in both directions; the sender's and the watchdog's
bookkeeping agrees with the descriptors; the host never sends a frame for which there is
no buffer, and never waits for a credit that exists.

### 1.4 Block pool (modelled)

`components/utils/bflb_block_pool`: the layout of the memory given to
`bflb_block_pool_create`, a free list with its count, and the mutex and the semaphore
the user registers.  Tasks allocate and free.  Hard: the count is read before the mutex
is taken; the two calls have seven ways out, between two locks; alignment may cost a
block.  Right means: no block is handed out twice or lost; the semaphore counts the
list; every call returns.

### 1.5 Not modelled

| component | why |
|---|---|
| RNM server and client, `dev_net_mgmr/src` | The update commands and their queue are in `RnmOta`, the effect of a missing heartbeat in `SdioUpload` and `SdioDownload`.  The other commands are relayed to lwip and the Wi-Fi manager, which decide what is right. |
| host daemon `blctl` | One request in flight, its time-out and its late answer are in `RnmOta`.  The table of waiting requests matters with several clients at once; its defect needs no search: `alloc_wait_env` returns with the lock held when the table is full (`blctl.c:294`). |
| shell line editor, `shell.c` | A sequential function of the keys.  `ShellSession` keeps what starts and aborts commands. |
| bflog, `utils/log` | Layout and formatting around a queue of records under one mutex; for the mutex see the known divergences. |
| BLE update, `blestack/src/services/oad` | Its peer, the phone's application, is not in the repository. |
| packet filter, network glue, core dump, containers, time stamps, C library shims | Sequential, or pure functions of their inputs. |
| virtual serial line | It passes bytes on between ports and a serial device. |
| heap | A thin layer over the vendored TLSF. |
| peripheral drivers, chip support, boards | Programs of registers whose behaviour the repository does not describe. |
| ports of wireless stacks | Their peers are binary libraries. |
| vendored libraries, examples, tools | Not the SDK's own logic. |

Of the modelled components the following is left out: the partition table's legacy IAP
pair, `pt_table_create` and its RAM cache, and `shell_exe_cmd`, none of which has a
caller in the SDK; commands that install a Ctrl-C handler of their own; aggregation of
several SDIO reads in one transfer; the high-performance buffers; the flags of the
host's work queue; block pools without a mutex or a semaphore.

### 1.6 Hazards

`PROJECT.json` lists what is hard to test, each at its line, with the properties that
would catch it, or the reason why no property does.

## 2. Modules and the code they stand for

```
PartitionTable        operators: copies, validity, choice, update of an entry
  FirmwareSlots       state common to all updates: tables, slots, RAM copy, reset
                                                           -> FirmwareSlots_proofs
    BflbOta           bflb_ota.c with one caller                -> BflbOta_proofs
    RnmOta            rnm_ota.c with blctl_ota.c as its peer    -> RnmOta_proofs
RingOps               operators: ends, mirrors, lengths, moves
  RingBuffer          every call of ring_buffer.c as one step   -> RingBuffer_proofs
    RingQueue         the abstract bounded queue it implements
  ShellInput          interrupt and task, one memory access per step
    ShellSession      keys from the interrupt to the commands; implements ShellExec
                                                           -> ShellSession_proofs
ShellExec             commands and their tasks
SdioUpload            senders, worker, interrupts, timers, host -> SdioUpload_proofs
SdioDownload          host, credit, ports, worker, Wi-Fi stack  -> SdioDownload_proofs
BlockPool             allocation and release by several tasks   -> BlockPool_proofs
MC*                   instances for TLC
```

**PartitionTable, FirmwareSlots.**  A table copy is a record of age and entries, or
`Torn`, which stands for any copy whose CRCs do not match.  A slot is a row of blocks;
a block holds the image its bytes belong to, or is blank, or junk.  A SHA-256 that
matches means that the blocks are those of one image.  `Boot` is a reset:
`bflb_boot2_init` and the boot loader's choice, which is binary and modelled from the
code that prepares the tables for it.

**BflbOta.**  One action per call of the API and one per flash operation inside a call,
so that `Reset` (power loss) falls between any two; a flash operation may also fail,
because `bflb_mtd_erase` and `bflb_mtd_write` drop the driver's result.  `pc` is the
flash operation that comes next.  A session carries the bitmap of erased sectors; a
sector beyond the bitmap may be found erased or not, as the bit lies behind the
structure.  Offsets are any number below `Word`, the blocks of 2^32 bytes, and are added
modulo it, as `uint32_t` is; an operation outside the slot hits anything (`Stray`).
`CallerInFile`, `CallerVerifies` and `CallerReboots` say what the caller of the library
does (the library asks for none of them, and nothing in the repository calls
`bflb_ota_update`); `verified` and `rebootDue` remember it.

**RnmOta.**  The device serves one command at a time from a queue, the hosts are
`blctl` processes with one request in flight.  Lost requests, answers that come after
the time-out, failed allocations, failing flash and resets are faults, counted.
`RebootBeforeRetry` says whether the user reboots a card whose COMMIT was not answered.

**RingOps, RingBuffer, RingQueue.**  `RingOps` has the ends and how a transfer moves
them; `RingBuffer` has every call as the caller with a lock sees it, with the delivered
bytes and the returned length; `RingQueue` is a bounded sequence with the same calls.
The refinement mapping is `Contents`: the bytes from the read end on.  32-bit lengths
are taken modulo `Word`.

**ShellInput.**  The task of `shell_freertos.c` with each load and store of the ring
buffer as a step, in either order where the compiler may choose (`FirstStores`); the
interrupt is one step, as nothing interrupts it.  It stores one byte or none: one that
finds several writes them one by one and gives a binary semaphore, which is as many
interrupts in a row.  A sample of the length keeps all the
values each of its two loads may have seen.  Bytes are numbered in order of arrival.

**SdioUpload.**  Actions bear the names of the functions they are.  The worker has the
highest priority: a sender takes a step only while the worker waits (`Idle`), interrupts
and the timer come at any time.  The critical section of `sdu_send_data` is one step
(`Attach`), and `target` is the descriptor found before it.  A frame is its number; `late`
is the last frame whose time-out has run out.  History variables: `freed` counts
confirmations, `expired` and `cut` remember that since the last reset the watchdog
freed a frame, or a reset hit a sender.

**ShellExec, ShellSession.**  `ShellExec` is what a line and Ctrl-C do to the commands:
the shell has the higher priority, so that all it does for one key is one step, while the
task of a command is interrupted between any two of its own.  Tasks are numbered by the
line that started them, and `args` is the line whose arguments the shared variables
hold.  `crashed` is the end of a system in which a task was deleted twice, fell out of
its function, or was the shell's; the history variable `overtaken` remembers that a line
was handled while the task of an earlier command had returned and not yet deleted
itself.  `ShellSession` joins it to `ShellInput`: each byte is
a key, handled in the step in which the loop takes the byte.  It *implements*
`ShellExec` (`Executes`), so that what is proved of commands and whole keys holds for
keys that arrive byte by byte in interrupts.

**SdioDownload.**  The device's buffers are a count, and frames are numbered in the order
of their transfer.  The host is a program counter with the registers it has read; it may
read the two credit registers in either order, because a read that fails is repeated.
The two stores that announce a credit are two steps, with the host between them.
History variables, since the last probe: `dropped` counts frames that found no buffer,
`owed` the buffers that were with the Wi-Fi stack when the host probed, `leaked` the
credits whose frame was never transferred, `inStep` whether no transfer has failed.
`DnLdCRC_err` is the way out of `sdu_receive_data` that serves no port; the hardware
chooses it at any interrupt, and `refused` remembers it until the ports are served or
reset.

**BlockPool.**  One step per access to the pool and to each lock.  `sem` and `mtx` are
the user's semaphore and mutex (external); a wait for a mutex that another task has may
time out.  `used` are the blocks in the hands of the callers, who free what they own
and, at times, an address that is not in the pool.

`PROJECT.json` maps each definition to its lines.

### Deviations

Operators marked *Deviation* are not used by any specification.  Each is a plausible
mistake in the code, beside the definition it would replace; with it in place the
property it belongs to fails, which shows that the property depends on that code.

## 3. Runs

| run | states | shows |
|---|---|---|
| `ota` | 1,842,488 | with a caller who passes offsets in the file, verifies and reboots, a reset at any step finds a table to boot by and a whole image (`BootImageComplete`); transfers stay in their slot (`WritesInsideSlot`); the running image is untouched (`RunningImageIntact`); a stored update takes effect (`FinishTakesEffect`) |
| `ota_second_update` | violation | `AnnouncedSlotIsWritten` fails when an update follows another without a reboot |
| `rnm_ota` | 66,945 | one host, whole files, four faults: always bootable, and what COMMIT selects is whole (`CommittedImageWhole`) |
| `rnm_ota_retry` | 60,859 | once the faults end, a user who keeps trying is served, with or without a reboot in between (`UpdateGetsThrough`), and no retry touches the running image |
| `rnm_ota_two_hosts` | violation | without any fault, the COMMIT of one `blctl` is executed in the session of another |
| `ring_queue` | 51,682 | the ring buffer implements the queue (`IsQueue`), and its length stays in range |
| `shell_session` | 197,128 | bytes are taken once and in order, no wake-up is lost, every byte is taken in the end; commands run with their own arguments (`OwnArguments`), no two at a time, and can be aborted (`Abortable`); a task is deleted once unless a line overtook it (`DeletedOnce`); the session implements `ShellExec` (`Executes`) |
| `shell_paste` | violation | two lines in one burst: the first command runs with the arguments of the second |
| `sdio_upload` | 108,012 | confirmed once, never under the reader, both sides at the same port, the books agree, and every frame is given back in the end |
| `sdio_upload_reset` | violation | a reset between the two halves of a send leaves a used descriptor behind a free port |
| `sdio_download` | 777,235 | no more frames without a buffer than the probe overlooked (`DropsBounded`); 8-bit differences keep their sign (`CreditInRange`); both sides at the same port (`TakenInStep`); only a CRC error makes the worker leave full ports behind (`FramesProcessed`); a host out of credit gets it back unless frames were left behind (`WindowReopens`) |
| `block_pool` | 26,768 | the layout fits its memory, each block is in one place, the semaphore counts the list, the mutex is put, and every call returns, even when a refused free has kept the mutex |

The passing runs explore their instance completely.  The violations are recorded under
"findings" with the text they contradict.

### Bounds

- Updates: two images of different lengths and two slots of different sizes, so that an
  image may fit one slot only; sectors of two blocks, so that a block is erased together
  with another; a bitmap of two sectors; two ages, hence two finished updates, after
  which both copies and both slots have been the target once; a word of eight blocks,
  just beyond the longest file and buffer, so that sums wrap.  `RnmOta` has an image
  that ends in the middle of a part and one that fills its last part, a queue of three
  commands (the request of this run and two of earlier ones) and four faults, enough for
  a failure in each of START, PART, COMMIT and the run after.
- Retrying: three faults and four ages; `UpdateGetsThrough` needs more ages than faults,
  or the bound on ages would end the retrying.
- Ring: size 3 (each index is first, middle or last) with requests up to 4, longer than
  the buffer; both mirrors and all positions are reached.
- Shell: eight bytes through three slots, so that both ends wrap twice; any
  number of them may come between two steps of the task, so that the buffer fills at
  once; three lines that start a command, so that a
  command meets one before it and one after it.
- SDIO upload: two ports and four frames, so that each port is used twice; one reset at
  any step.  The safety invariants were also explored with three ports, two senders and
  four frames (332,860 states), and the proofs hold for all.  The violation needs two
  resets or a second sender.
- SDIO download: two ports, a window of two, five frames, one transfer that fails or
  times out, one reset, and CRC errors without bound. Sequence numbers are taken modulo
  9, the smallest modulus the code's arithmetic bears with this window, and begin at 7,
  so that the window wraps within the first three frames.
- Block pool: three tasks, and pools of one or two blocks, fewer than there are tasks, in
  layouts where the alignment costs nothing, some bytes or a block.

`CHECK_DEADLOCK FALSE` is set where the system may rest: when no fault is left and every
process has ended (`rnm_ota_retry`); when all bytes have arrived, or the user waits for
a command to begin or a task has fallen out of its function (`shell_session`); when the
host does not come back (`sdio_upload`, `sdio_download`); when a refused free has kept
the mutex and every block is taken (`block_pool`).

### Fairness

- `RnmOta!FairSpec`: the device's tasks serve what is in the queue; the user reads the
  answer, reboots when told to and tries again.  Faults are not fair, and they are
  finitely many: this is the assumption under which the property is stated.
- `ShellSession!SessionSpec`: weak fairness of the shell task.  The interrupt owes
  nothing, and a command may take for ever.
- `SdioUpload!FairSpec`: time passes, an active timer fires, the worker runs when it is
  notified.  The sender has strong fairness because the worker takes the processor away
  again and again, but only once per round of the watchdog or interrupt, with idle time
  in between.  Nothing is expected of the host: `EveryFrameFreed` holds although it may
  stop reading for ever, thanks to the watchdog.
- `SdioDownload!FairSpec`: the worker, the interrupt and the driver's work queue run.
  The Wi-Fi stack gives its buffers back: strong fairness, for the same reason as above.
  No fairness of the probe: `WindowReopens` is about a host that is there.
- `BlockPool!FairSpec`: weak fairness of every task that has begun a call.  The mutex
  needs none, for a call that waits for it may also time out.

### Assumptions that matter

- `BootImageComplete` needs `CallerVerifies` and `CallerReboots`: TLC finds at once that
  a caller who finishes an update of which only a part was written selects an incomplete
  slot, since `bflb_ota_finish` with `check_hash = 0` does not look at the image.
- `WritesInsideSlot`, `BootImageComplete` and `RunningImageIntact` need `CallerInFile`,
  the duty to pass offsets within the announced file.  With `CallerInFile = FALSE` TLC
  finds them violated: the first by a start and an update, the others when that update
  erases its first sector.  See the first divergence below.
- `CommittedImageWhole` needs whole files: with a truncated file, COMMIT is executed
  although the last part and its hash never came.
- `ShellInput` with `Paced = TRUE`: the sender leaves no more unread than the buffer
  holds.
- `ShellExec` and `ShellSession` with `Patient = TRUE`: who ends a line does so when the
  echo of the keys before has come and the command of the line before has begun, and then
  waits for the prompt; `shell_paste` is about the other case.  Nobody waits for a command
  to end: lines and Ctrl-C come while it runs, when it has just returned, and later.
  Commands install no Ctrl-C function of their own.
- `SdioUpload`, `SdioDownload`: the worker runs above all senders and the Wi-Fi stack and
  is not interleaved with them, nor with the timer task, of the same priority, except
  between its steps; a reset by the host does not fall into the middle of a critical
  section; logging does not block; changes of `sdu_worker_ev` are atomic; the reset of
  the card is the register reset of the host or of the worker.  Transfers fail in
  `SdioDownload` only.  The host probes again when the device has recovered.
- `BlockPool`: mutex and semaphore are both registered, and the address just behind the
  last block is not freed.

### Known divergences that no run is about

- `bflb_ota_update` compares `(offset + buf_len) > file_size` in 32 bits
  (`bflb_ota.c:118`).  For an offset just below 2^32 the sum wraps and the transfer is
  accepted; the erase loop of `bflb_ota_erase` (`:25-40`) works on sectors of that offset,
  outside `sector_erased`, and `bflb_mtd_erase` and `bflb_mtd_write` add the offset to the
  slot's address without looking at its size (`bflb_mtd.c:178-215`), so that the write
  lands before the slot.  The model does the same sum; the properties are stated for a
  caller whose offsets lie in the file.
- The erase bitmap of a session covers 1 MiB (`bflb_ota.h:5`), while
  `bflb_ota_start` accepts any file that fits the slot; bits of later sectors lie behind
  the structure (`bflb_ota.c:29`).
- `bflb_boot2_update_ptable` leaves the RAM table as it was (`bflb_boot2.c:31-34`): an
  update retried without a reboot erases the slot that is already active in flash.
- `rnm_ota.c:216`: commands other than START find no session after the device
  restarted; `rnm_ota.c:307`: COMMIT is acknowledged even if the table update failed.
- A forced write that overwrites and wraps inverts both mirrors (`ring_buffer.c:309`), so
  that a buffer just filled reads as empty.
- A byte that arrives between the two stores of the read end, when that end reaches the
  end of the buffer, is dropped although the buffer is empty (`shell_freertos.c:123`,
  `ring_buffer.c:236`); `AcceptsWhatFits` states the promise.
- A torn sample of the length in the shell task may be as large as 2^32; the loop then
  hands its last byte to the line editor again and again until the buffer is empty and
  the count has run down.
- The task of a command stores `shell_exec_end = true` (`shell_freertos.c:21`) and then
  deletes the task that `shell_exec_handle` names (`:23`). A line that is handled in
  between finds nothing to abort and starts a task of its own; the old task then deletes
  that one, whether it has begun or not, and falls out of its function, which FreeRTOS
  forbids: a task "must be implemented to never return"
  (`components/os/freertos/include/task.h:299`). No care on the user's side excludes it,
  since a command returns when it likes. The run explores it: `overtaken` marks it,
  `DeletedOnce` excepts it (without the exception TLC shows this trace), and
  `OwnArguments`, `Abortable` and `Executes` hold in it up to the step in which the old
  task deletes the new one.
- Three lines pasted in one burst and a Ctrl-C can make the shell delete its own task:
  the handle is NULL while the flag says that a command runs (`shell_freertos.c:36`).
- `check_tx_timeout` frees a descriptor and leaves its bit in `rd_bitmap_old`
  (`trcver_sdio.c:484-511`), which only descriptors in use can clear
  (`trcver_sdio.c:452`): the port stays taken until the next reset.
- `sdu_worker_ev` is changed by plain read-modify-write in tasks and in an interrupt
  (`trcver_sdio.c:110,603,609`).
- When `HostTransferStatus` tells of a CRC error, `sdu_receive_data` returns without
  looking at a port (`trcver_sdio.c:209,216-219`), although its caller has cleared the
  interrupt (`:429`) and means to "process the download data" (`:431`).  The frames wait
  for the next transfer to raise it again; if every port is full there is none until a
  reset, and the host's credit does not come back.  `WindowReopens` excepts it
  (`refused`), and `FramesProcessed` says that it is the only such way.
- `bl_sdu_reinit` gives the buffers back (`trcver_sdio.c:528-533`) before `sdio_glb_reset`
  takes them from the hardware (`:539-542`): the host may read a freed buffer in between,
  which `LiveWhenRead` excepts.
- A host that probes while the Wi-Fi stack holds buffers is given credit for those, too
  (`sdiowifi_mgmr.c:43`): `NeverOutOfBuffers` fails, and `DropsBounded` says by how much.
- The host treats a register read that failed as the value 0xFF (`bl_sdio_eth.c:656`,
  `bl_sdio.c:180-195`), stores 0 in the device's credit register when it looks for the
  card (`sdio_port.c:85`), spends a credit on a transfer that failed or timed out, and
  goes on to the next port after a failed one (`bl_sdio_eth.c:395-397`), where the device
  does not wait.  Credits that leak come back with the next probe only.
- A block pool with a mutex but no semaphore calls `sem_put` through a NULL pointer when
  the mutex times out (`bflb_block_pool.c:235`); without a semaphore two tasks may both
  pass the test of `blk_free` when one block is left, and the second takes NULL from the
  list (`:228`); a refused free returns with the mutex held (`:284`, `:293`); the address
  just behind the last block passes the test and is linked (`:293`).
- `bflog_flush` gives the recorder's mutex before each output and takes it again
  afterwards; an output that is suspended or filters the record goes on by `continue`
  (`bflog.c:1282,1287,1294`), without taking it, and the next give is of a mutex that
  another task may hold.

## 4. Proofs

**BflbOta_proofs**, for all slot sizes, images, sector sizes and patterns of flash
failures.  `BootImageComplete` is not inductive: a step of the table update keeps it
only because the update aims at the copy that is *not* the boot copy and names a whole
slot.  The invariant has three layers, by what they ask of the caller.  `Inv = TypeOK /\
CallInv` asks nothing and proves `TypeCorrect`: transfers outside the slot may destroy
tables and images, but tables that are valid have an entry for the firmware.  `SlotInv`
needs `CallerReboots` and `CallerInFile`: the session writes the slot the processor is not
running from, of which the transfer in progress stays inside, because the sum that
`bflb_ota_update` checks does not wrap for an offset in the file (`PlusFacts`,
`FitsInWord`); no session is open while a reboot is due; and an update of the table aims
at the other copy.  It proves `RunningImage` and `InsideSlot`.  `ImageInv` needs
`CallerVerifies`, too: a verified session holds a whole image, and the update in progress
names it.  `IInv`, all three, proves `BootImage` and `FinishEffective`.

**RnmOta_proofs**, for all images, slot lengths, queue lengths and numbers of faults.
`Inv = TypeOK /\ SlotInv` gives `TypeCorrect` and `RunningImage` for any number of
hosts and any files: `boot2.table` is always the table the device booted from, so that
the slot that is opened is never the running one.  `SessionInv`, for any hosts too, says
that the blocks the hash has seen are in the slot.  What COMMIT then needs is that it
meets a session that has seen the last part, and this the device does not check:
`CommittedWhole` holds for one host with complete files, by `HostInv`.  It says that the
request the host waits for is the last in the queue, that a PART or a COMMIT, which
answers caused to be sent, is the first, and that the session, if there still is one, is
where the host believes it to be; so whatever a run that timed out has left in the queue
comes to its end before the next START.  `RebootInv` adds that nothing happens between a
COMMIT and the reboot; with it `BootedImageWhole` holds under `RebootBeforeRetry`.
The facts about tables and slots that both updates rest on are in
**FirmwareSlots_proofs**.

**RingBuffer_proofs**, for all sizes, alphabets and request lengths.  `Inv = TypeOK /\
Ordered`, where `Ordered` says what the mirrors mean: equal, the read index is not
beyond the write index; different, the write index is not beyond the read index.  Lemmas
say what a write appends to `Contents` and what a read drops;
`ImplementsQueue` then maps every step to a step of the queue, for forced writes that
fit.  `LengthCorrect` holds for those that overwrite, too.

**SdioUpload_proofs**, for any number of ports, senders, frames and resets.  The safety
properties but one are proved from one invariant: the properties themselves, that frames
not yet sent are nowhere (`Numbered`), that no two ports hold the same frame and a port
that is taken holds that of its descriptor (`DmaInv`), and what the sender knows inside
its critical section (`CriticalInv`).  The central lemma `FreeSome` says that freeing
any set of used descriptors keeps the books; the confirming worker, the watchdog and the
reset are three uses of it.  `HostInOrder` needs a second invariant, `OrderInv`: the ports
that wait for the host are `n` consecutive ones of the ring, ending at the sender's, with
the last `n` frames.  It holds as long as no reset is on its way to the worker, and a
reset on its way means that the worker does not wait, hence that nobody attaches a frame
and no host is let in.

**SdioDownload_proofs**, for any number of ports, frames, faults and resets, and any
window below a quarter of the sequence numbers, up to 63 buffers for the driver's signed
8-bit difference.  The argument is that of numbers that
do not wrap: `SndInv` says that `snd_nxt` is the remainder of `NextSeq`, the sum of the
buffers given back, those taken since the probe, the credited frames in the ports and
the frames lost or dropped, which every step of the device leaves as it is; `ClampInv`
that `seq_clamp` is the remainder of a number the device has announced and the host's
frames have not passed, even if a probe reads the two registers long after each other.
`CreditLeft` draws the conclusion for the remainders, and `DropsBounded` follows where a
frame finds no buffer.  `TakenInStep` is proved as `HostInOrder` is.  From the same queue
follows `FramesProcessed`: the worker stops at its port only when no port is full.

**ShellSession_proofs**, for any ring, word and number of bytes and lines.  It has three
layers.

- *Input*, under `Paced = TRUE` and for any user.  `InputInv` is `TypeOK` and three
  parts.  `BytesInv`: the bytes of the buffer are the accepted ones from `Removed` on,
  also while the read end is half moved, when `Settled` is the ring with the other store
  done.  `SampleInv`: a read that will find the buffer empty has samples of the length
  that are still right, so that a torn length never ends the loop early.  `WakeInv`:
  while the semaphore is not given, the task knows of every byte, and waits only if there
  is none.  The semaphore is why `WakeInv` needs no more: every interrupt gives it.  The
  facts about the ring come from `RingBuffer_proofs`, instantiated with a caller of
  single bytes.  This proves `TakenInOrder` and `NoLostWakeup`; together with `KeysInv`
  (a key for every unread byte), `SessionTypeOK`.
- *Commands*, under `Patient = TRUE`.  `OwnArguments` is not inductive, since it speaks
  only of tasks that run, and the step to be feared is that of a task that begins.
  `ExecInv` says that there is at most one young task, ready or running, beside any
  number that have returned and not yet deleted themselves (`OneTask`): it is the one the
  handle names, the arguments are its own, the flag is false exactly while it runs, and
  Ctrl-C is armed until it ends.  A task that has returned and that no line overtook is
  the one the handle names (`Leaving`), which is why it deletes itself.  Tasks of lines to
  come do not exist (`Unborn`).  Nothing is assumed about when a command returns.
- *Session*, under both.  The loop hands its last key to `shell_handler` again for every
  round that finds nothing, and if that were the end of a line the line would run twice.
  `LineInv` says that it never is: as long as the end of a line is on its way, or was the
  last key, the task knows of every byte, and no command is still to begin until that
  line is handled.  So every step of the session is a step of `ShellExec` or leaves it alone
  (`SessionImplements`), and what is proved of the commands holds in the session.

`Paced` and `Patient` are hypotheses about who sends.  Without the first a byte may be
lost, without the second `shell_paste` shows that `OwnArguments` is false.

**BlockPool_proofs**, for any tasks, pools, alignments and sizes.  `IInv` has, beside the
properties, what each program point knows of its block (`NodeInv`), how the count differs
from the length of the list while a task is between the two (`ListCounts`), the
semaphore's sum (`SemSum`), and that a refused free keeps the mutex for good
(`RefusedKeeps`).  `OursHasRoom` is a pigeonhole: a block that comes back is not in the
list, so that the list has fewer than all of them.  `OneLessFits` is the arithmetic of
the layout: when the alignment does not fit, one block less always does.

Every invariant, action property and refinement the runs check is proved.  Model-checked
only are the liveness properties (`UpdateGetsThrough`, `EveryByteTaken`,
`EveryFrameFreed`, `WindowReopens`, `EveryCallReturns`): they need fairness, which is out
of the prover's reach.
