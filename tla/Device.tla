------------------------------- MODULE Device -------------------------------
(***************************************************************************)
(* The device side of nrf70_zephyr_shim/source/os/shim.c over the platform *)
(* layer (RpuPower) and the work items (WorkPool): adding and removing the *)
(* device, registering its interrupt, and the way of an event from the     *)
(* interrupt line over the interrupt work queue to the bottom-half work    *)
(* queue.  Four actors: the application's thread, the GPIO interrupt, and  *)
(* the threads of the two queues.  The HAL between the application and the *)
(* shim is not in the repository: it is a caller that asks for a tasklet,  *)
(* adds the device, registers the interrupt and undoes all that again.     *)
(***************************************************************************)
EXTENDS RpuPower, WorkPool

CONSTANTS
  Gens,        \* the HAL contexts there can be, one per bring-up
  MaxEvents    \* bound: events of the chip not yet fetched or not yet handled

ASSUME DeviceAssumption == Gens \subseteq Nat \ {0} /\ MaxEvents \in Nat

VARIABLES
  pins,          \* the supplies
  pc,            \* where the application's thread is
  hal,           \* the HAL context, 0 for none
  tl, tlState,   \* its tasklet: the item, and whether it is still owned
  intrPriv,      \* intr_priv: the interrupt context, named after its HAL context
  alive,         \* interrupt contexts allocated and not freed
  listed,        \* those whose callback is in the list of the GPIO driver
  pinIrq,        \* the interrupt of the host_irq pin is configured
  irqReg,        \* the registration: "none", "reg", "cancel" (waiting), "done"
  irqQueued,     \* contexts whose work is in zep_wifi_intr_q
  irqRunning,    \* the one whose work runs
  irqData,       \* the callbk_data it was called with
  fetched,       \* it has fetched the events of the chip
  drained,       \* the tasklet that runs has found the list empty
  chipEvents,    \* events the chip holds; its line is high while there are some
  events,        \* events in the HAL's list
  removalFailed, \* history: rpu_irq_remove has failed
  raced,         \* history: a tasklet was killed or freed while it ran, or
                 \* scheduled after it was killed
  residue        \* history: what left pins behind since they were last in order

hwVars   == <<pins, residue>>
irqVars  == <<intrPriv, alive, listed, pinIrq, irqReg, irqQueued, irqRunning,
              irqData, fetched, removalFailed>>
halVars  == <<hal, tl, tlState, raced>>
flowVars == <<chipEvents, events, drained>>
vars == <<poolVars, hwVars, irqVars, halVars, flowVars, pc>>

PCs      == {"down", "tasklet", "added", "up", "removing", "undo"}
Contexts == Gens \cup {0}
Reasons  == {"sr", "bus", "wake", "undo"}

TypeOK ==
  /\ inUse \in [Items -> BOOLEAN] /\ type \in [Items -> Types]
  /\ data \in [Items -> Contexts]
  /\ bhQueue \in Seq(Items) /\ running \in Items \cup {NoItem} /\ runData \in Contexts
  /\ pins \in PinStates /\ residue \subseteq Reasons
  /\ pc \in PCs /\ hal \in Contexts
  /\ tl \in Items \cup {NoItem} /\ tlState \in {"none", "owned", "killed", "freed"}
  /\ intrPriv \in Contexts /\ irqRunning \in Contexts /\ irqData \in Contexts
  /\ alive \subseteq Gens /\ listed \subseteq Gens /\ irqQueued \subseteq Gens
  /\ pinIrq \in BOOLEAN /\ irqReg \in {"none", "reg", "cancel", "done"}
  /\ chipEvents \in 0 .. MaxEvents /\ events \in 0 .. MaxEvents
  /\ fetched \in BOOLEAN /\ drained \in BOOLEAN
  /\ removalFailed \in BOOLEAN /\ raced \in BOOLEAN

Init ==
  /\ PoolInit
  /\ pins = AllOff /\ residue = {}
  /\ pc = "down" /\ hal = 0 /\ tl = NoItem /\ tlState = "none"
  /\ intrPriv = 0 /\ alive = {} /\ listed = {} /\ pinIrq = FALSE /\ irqReg = "none"
  /\ irqQueued = {} /\ irqRunning = 0 /\ irqData = 0
  /\ chipEvents = 0 /\ events = 0 /\ fetched = FALSE /\ drained = FALSE
  /\ removalFailed = FALSE /\ raced = FALSE

---------------------------------------------------------------------------
(* Bring-up, on the application's thread.                                  *)

(* The pins are now s; r are the reasons why they may not be off.          *)
PinsNow(s, r) == pins' = s /\ residue' = IF s = AllOff THEN {} ELSE residue \cup r

Reason(o) == ({o.failed} \cap {"sr", "wake"}) \cup (IF o.clean THEN {} ELSE {"undo"})

(* A HAL context, with a tasklet for its events.                           *)
HalAdd ==
  /\ pc = "down" /\ pc' = "tasklet"
  /\ hal' \in Gens \ (alive \cup {irqRunning, irqData, runData})
  /\ tl' = FreeItem /\ tlState' = "owned"
  /\ WorkAlloc(tl', "BH", hal')
  /\ UNCHANGED <<hwVars, irqVars, flowVars, raced>>

(* zep_shim_bus_qspi_dev_add: rpu_init, the bus, rpu_enable.  An error is  *)
(* returned at once, whatever the earlier steps have set up.               *)
DevAddFails ==
  \E o \in RpuInit(pins) :
    \/ ~IsOk(o) /\ PinsNow(o.pins, Reason(o))
    \/ IsOk(o) /\ PinsNow(o.pins, {"bus"})
    \/ IsOk(o) /\ \E e \in RpuEnable(o.pins) : ~IsOk(e) /\ PinsNow(e.pins, Reason(e))

DevAddSucceeds ==
  \E o \in RpuInit(pins) : \E e \in RpuEnable(o.pins) :
    IsOk(o) /\ IsOk(e) /\ pins' = e.pins /\ residue' = {}

(* The HAL boots the firmware of the chip anew: no event is pending.       *)
DevAdd ==
  /\ pc = "tasklet" /\ chipEvents' = 0
  /\ \/ DevAddFails /\ pc' = "undo"
     \/ DevAddSucceeds /\ pc' = "added"
  /\ UNCHANGED <<poolVars, irqVars, halVars, events, drained>>

(* zep_shim_bus_qspi_intr_reg.  On failure the HAL removes the device.     *)
IntrReg ==
  /\ pc = "added"
  /\ \/ /\ intrPriv' = hal /\ irqReg' = "reg" /\ pinIrq' = TRUE
        /\ alive' = alive \cup {hal} /\ listed' = listed \cup {hal}
        /\ pc' = "up"
     \/ /\ intrPriv' = 0 /\ irqReg' = "done" /\ pinIrq' \in {pinIrq, TRUE}
        /\ pc' = "removing"
        /\ UNCHANGED <<alive, listed>>
  /\ UNCHANGED <<poolVars, hwVars, halVars, flowVars, irqQueued, irqRunning, irqData,
                 fetched, removalFailed>>

---------------------------------------------------------------------------
(* Removal, on the application's thread.  The tasklet is given up before   *)
(* or after the interrupt, and before the device.                          *)

RemoveCall ==
  /\ pc = "up" /\ pc' = "removing"
  /\ UNCHANGED <<poolVars, hwVars, irqVars, halVars, flowVars>>

(* Mutant: the callback stays in the list of the GPIO driver.              *)
IrqRemoveKeeps ==
  /\ pc = "removing" /\ irqReg = "reg"
  /\ pinIrq' = FALSE /\ irqQueued' = irqQueued \ {intrPriv} /\ irqReg' = "cancel"
  /\ UNCHANGED <<poolVars, hwVars, halVars, flowVars, pc, intrPriv, alive, irqRunning,
                 irqData, fetched, listed, removalFailed>>

(* zep_shim_bus_qspi_intr_unreg up to the wait for the work in progress:   *)
(* rpu_irq_remove disconnects the pin and takes the callback off the list. *)
(* If either fails, the context stays as it is.                            *)
IrqRemove ==
  /\ pc = "removing" /\ irqReg = "reg"
  /\ \/ /\ pinIrq' = FALSE
        /\ listed' = listed \ {intrPriv}
        /\ irqQueued' = irqQueued \ {intrPriv} /\ irqReg' = "cancel"
        /\ UNCHANGED removalFailed
     \/ /\ pinIrq' \in {pinIrq, FALSE}
        /\ removalFailed' = TRUE /\ irqReg' = "done"
        /\ UNCHANGED <<listed, irqQueued>>
  /\ UNCHANGED <<poolVars, hwVars, halVars, flowVars, pc, intrPriv, alive, irqRunning,
                 irqData, fetched>>

(* Mutant: k_work_cancel_delayable, which does not wait.                   *)
IrqCanceledAtOnce ==
  /\ irqReg = "cancel"
  /\ alive' = alive \ {intrPriv} /\ intrPriv' = 0 /\ irqReg' = "done"
  /\ UNCHANGED <<poolVars, hwVars, halVars, flowVars, pc, listed, pinIrq, irqQueued,
                 irqRunning, irqData, fetched, removalFailed>>

(* The rest, once k_work_cancel_delayable_sync has returned.               *)
IrqCanceled ==
  /\ irqReg = "cancel" /\ irqRunning # intrPriv
  /\ alive' = alive \ {intrPriv} /\ intrPriv' = 0 /\ irqReg' = "done"
  /\ UNCHANGED <<poolVars, hwVars, halVars, flowVars, pc, listed, pinIrq, irqQueued,
                 irqRunning, irqData, fetched, removalFailed>>

Leaving == pc \in {"removing", "undo"}

TaskletKill ==
  /\ Leaving /\ tlState = "owned" /\ tlState' = "killed"
  /\ WorkKill(tl)
  /\ raced' = (raced \/ running = tl)
  /\ UNCHANGED <<hwVars, irqVars, flowVars, pc, hal, tl>>

TaskletFree ==
  /\ Leaving /\ tlState = "killed" /\ tlState' = "freed"
  /\ WorkFree(tl)
  /\ UNCHANGED <<hwVars, irqVars, flowVars, pc, hal, tl, raced>>

(* zep_shim_bus_qspi_dev_rem ignores the status of rpu_disable.            *)
DevRem ==
  /\ pc = "removing" /\ pc' = "undo"
  /\ irqReg = "done" /\ tlState = "freed"
  /\ \E o \in RpuDisable(pins) : PinsNow(o.pins, IF IsOk(o) THEN {} ELSE {"undo"})
  /\ UNCHANGED <<poolVars, irqVars, halVars, flowVars>>

HalFree ==
  /\ pc = "undo" /\ tlState = "freed" /\ pc' = "down"
  /\ hal' = 0 /\ tl' = NoItem /\ tlState' = "none" /\ irqReg' = "none" /\ events' = 0
  /\ UNCHANGED <<poolVars, hwVars, raced, chipEvents, drained, intrPriv, alive, listed, pinIrq,
                 irqQueued, irqRunning, irqData, fetched, removalFailed>>

---------------------------------------------------------------------------
(* The chip, the interrupt and the two work queues.                        *)

(* Mutant: a work that runs is not queued again.                           *)
IrqHandlerIdle ==
  irqQueued' = IF irqReg = "cancel" \/ irqRunning = intrPriv
               THEN irqQueued ELSE irqQueued \cup {intrPriv}

(* zep_shim_irq_handler, once per callback in the list: submits the work   *)
(* of intr_priv, which the kernel refuses while the work is being          *)
(* cancelled.  Without a context the handler faults: not a step.           *)
IrqHandler ==
  irqQueued' = IF irqReg = "cancel" THEN irqQueued ELSE irqQueued \cup {intrPriv}

(* An event; the line rises with the first the chip holds, and the         *)
(* interrupt is edge-triggered.                                            *)
ChipEvent ==
  /\ ChipOn(pins) /\ pinIrq /\ listed # {}
  /\ chipEvents + events < MaxEvents /\ chipEvents' = chipEvents + 1
  /\ IF chipEvents = 0 THEN intrPriv # 0 /\ IrqHandler ELSE UNCHANGED irqQueued
  /\ UNCHANGED <<poolVars, hwVars, halVars, pc, events, drained, intrPriv, alive, listed, pinIrq,
                 irqReg, irqRunning, irqData, fetched, removalFailed>>

(* irq_work_handler takes the callback from intr_priv, whichever context   *)
(* its own work belongs to.                                                *)
IrqWorkBegin ==
  /\ irqRunning = 0 /\ intrPriv # 0
  /\ \E c \in irqQueued : irqRunning' = c /\ irqQueued' = irqQueued \ {c}
  /\ irqData' = intrPriv /\ fetched' = FALSE
  /\ UNCHANGED <<poolVars, hwVars, halVars, flowVars, pc, intrPriv, alive, listed, pinIrq,
                 irqReg, removalFailed>>

(* Mutant: the line is not lowered.                                        *)
IrqWorkFetchAgain ==
  /\ irqRunning # 0 /\ ~fetched /\ fetched' = TRUE
  /\ irqData = hal /\ tl # NoItem
  /\ events' = events + chipEvents
  /\ WorkSchedule(tl)
  /\ UNCHANGED <<hwVars, halVars, pc, chipEvents, drained, intrPriv, alive, listed, pinIrq,
                 irqReg, irqQueued, irqRunning, irqData, removalFailed>>

(* The HAL fetches the events of the chip, which lowers the line, and      *)
(* schedules its tasklet.  The handler returns some time after that.       *)
IrqWorkFetch ==
  /\ irqRunning # 0 /\ ~fetched /\ fetched' = TRUE
  /\ IF irqData = hal /\ tl # NoItem
       THEN /\ events' = events + chipEvents /\ chipEvents' = 0
            /\ WorkSchedule(tl)
            /\ raced' = (raced \/ tlState # "owned")
       ELSE UNCHANGED <<poolVars, chipEvents, events, raced>>
  /\ UNCHANGED <<hwVars, pc, hal, tl, tlState, drained, intrPriv, alive, listed, pinIrq,
                 irqReg, irqQueued, irqRunning, irqData, removalFailed>>

IrqWorkEnd ==
  /\ fetched /\ irqRunning' = 0 /\ irqData' = 0 /\ fetched' = FALSE
  /\ UNCHANGED <<poolVars, hwVars, halVars, flowVars, pc, intrPriv, alive, listed, pinIrq,
                 irqReg, irqQueued, removalFailed>>

(* The tasklet handles the events one by one until it finds the list       *)
(* empty, and returns some time after that.                                *)
TaskletBegin ==
  /\ RunBegin /\ drained' = FALSE
  /\ UNCHANGED <<hwVars, irqVars, halVars, pc, chipEvents, events>>

TaskletEvent ==
  /\ running # NoItem /\ runData = hal /\ ~drained
  /\ events > 0 /\ events' = events - 1
  /\ UNCHANGED <<poolVars, hwVars, irqVars, halVars, pc, chipEvents, drained>>

TaskletEmpty ==
  /\ running # NoItem /\ ~drained /\ drained' = TRUE
  /\ runData = hal => events = 0
  /\ UNCHANGED <<poolVars, hwVars, irqVars, halVars, pc, chipEvents, events>>

TaskletEnd ==
  /\ drained /\ RunEnd /\ drained' = FALSE
  /\ UNCHANGED <<hwVars, irqVars, halVars, pc, chipEvents, events>>

Removal == \/ IrqRemove \/ IrqCanceled \/ TaskletKill \/ TaskletFree \/ DevRem \/ HalFree

Next ==
  \/ HalAdd \/ DevAdd \/ IntrReg \/ RemoveCall
  \/ IrqRemove \/ IrqCanceled \/ TaskletKill \/ TaskletFree \/ DevRem \/ HalFree
  \/ ChipEvent \/ IrqWorkBegin \/ IrqWorkFetch \/ IrqWorkEnd
  \/ TaskletBegin \/ TaskletEvent \/ TaskletEmpty \/ TaskletEnd

Spec == Init /\ [][Next]_vars

(* The kernel runs a queue with work in it, and a thread inside a call.    *)
Fairness ==
  /\ WF_vars(IrqWorkBegin) /\ WF_vars(IrqWorkFetch) /\ WF_vars(IrqWorkEnd)
  /\ WF_vars(TaskletBegin) /\ WF_vars(TaskletEvent)
  /\ WF_vars(TaskletEmpty) /\ WF_vars(TaskletEnd)
  /\ WF_vars(Removal)

FairSpec == Spec /\ Fairness

---------------------------------------------------------------------------
(* While the interrupt can still reach its context, through the list of    *)
(* the GPIO driver, the queue or a handler in progress, the context is     *)
(* allocated and intr_priv is not NULL.  Only a failed rpu_irq_remove ends *)
(* that: shim.c then keeps the context, and a later registration that      *)
(* fails clears intr_priv under a callback still in the list.              *)
ContextReachable ==
  LET reach == listed \cup irqQueued \cup ({irqRunning} \ {0})
  IN  removalFailed \/ (reach \subseteq alive /\ (reach # {} => intrPriv # 0))

(* The interrupt work calls the HAL only for the HAL context there is, and *)
(* on a chip that is supplied: intr_unreg waits for the work in progress   *)
(* before the device is removed.  Again unless rpu_irq_remove has failed.  *)
InterruptOnLiveDevice ==
  removalFailed \/ (irqRunning # 0 => irqData = hal /\ ChipOn(pins))

(* The tasklet runs for the HAL context there is, on a supplied chip.      *)
(* work_kill does not wait (its TODO says so), so the one way out is a     *)
(* tasklet killed while it ran, or scheduled by an interrupt after that.   *)
TaskletOnLiveDevice ==
  raced \/ (running # NoItem => runData = hal /\ ChipOn(pins))

(* Without a device the supplies are off, except that dev_add has failed   *)
(* at the bus, after rpu_init had switched them on, or that a GPIO call    *)
(* that was to undo an earlier one has failed.                             *)
SuppliesOff ==
  pc \in {"undo", "down"} /\ Supplied(pins) => residue \cap {"bus", "undo"} # {}

(* And the pins are disconnected, except for those two cases, a failed     *)
(* wake-up (rpu_enable leaves the GPIOs to no one) and a failed            *)
(* coexistence switch (rpu_init skips rpu_gpio_remove).                    *)
PinsReleased == pc \in {"undo", "down"} /\ ~Released(pins) => residue # {}

(* An event of a chip that is up is fetched, unless the device is removed  *)
(* first: no edge is lost to a work that is already queued, or runs and    *)
(* has already fetched.  A registration that rpu_irq_remove failed to undo *)
(* is the exception.                                                       *)
InterruptServed ==
  (pc = "up" /\ chipEvents > 0) ~> (chipEvents = 0 \/ pc # "up" \/ removalFailed)

(* Fetched events are handled one after the other, unless the device is    *)
(* removed first: a tasklet that is already queued, or runs and is about   *)
(* to return, does not make work_schedule lose the next one.               *)
EventsHandled ==
  <>[](pc = "up" /\ events > 0) => []<><<TaskletEvent>>_vars

(* A device that is gone has given back its work item and its interrupt    *)
(* context, the latter unless rpu_irq_remove has failed: the bring-ups can *)
(* go on for ever with a pool of one item.                                 *)
NothingLeaks ==
  pc = "down" =>
    /\ \A i \in Items : ~inUse[i]
    /\ removalFailed \/ (alive = {} /\ listed = {} /\ intrPriv = 0)
=============================================================================
