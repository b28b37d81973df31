------------------------------- MODULE BmLib -------------------------------
(***************************************************************************)
(* The bare-metal library, nrf70_bm_lib/source: bring-up and shutdown in   *)
(* the system and the radio-test mode of operation, and the scan of the    *)
(* system mode.  The application's thread calls the library; the           *)
(* bottom-half work queue delivers the firmware's events to its handlers,  *)
(* which call the application back.  The FMAC layer and the firmware are   *)
(* external: a request to them succeeds or fails, an accepted scan is      *)
(* reported done, and its results come in batches once asked for.          *)
(***************************************************************************)
EXTENDS Integers, Sequences

CONSTANTS
  Callbacks,   \* the scan result callbacks applications pass
  Params,      \* the max_bss_cnt of scan parameters; NoParams: params is NULL
  DefaultBss,  \* CONFIG_NRF_WIFI_SCAN_MAX_BSS_CNT, 0: no restriction
  NoCallback,
  MaxInits,    \* bound: devices added
  MaxScans,    \* bound: scans accepted
  MaxFound,    \* bound: networks a scan finds
  Batch        \* bound: networks in one event

NoParams == -1

ASSUME LibAssumption ==
  /\ Params \subseteq Nat \cup {NoParams}
  /\ DefaultBss \in Nat
  /\ NoCallback \notin Callbacks
  /\ MaxInits \in Nat /\ MaxScans \in Nat /\ MaxFound \in Nat
  /\ Batch \in Nat \ {0}

Modes == {"sys", "rt"}

VARIABLES
  pc, mode,    \* where the application's thread is, and in a call of which mode
  arg,         \* the parameters of the nrf70_bm_sys_scan_start in progress
  told,        \* history: the last init of the mode returned 0, and no deinit since
  kept,        \* history: nrf70_bm_rt_init has failed without nrf70_bm_rt_fmac_deinit
  fmac, rpu,   \* fmac_priv (TRUE: not NULL) and rpu_ctx (0: NULL) of each mode
  vifIdx, opState, scanCb, maxBss, resCnt, scanDone,  \* the fields of vifs[0]
  made, added, \* FMAC: the devices made so far, and those added and not removed
  ifState,     \* FMAC: the interface in the device
  scanning,    \* firmware: the scans accepted and not yet done
  report,      \* firmware: the results asked for and not yet sent
  events,      \* the events on their way to the bottom-half work queue
  ev,          \* the event its handler is working on
  scans,       \* history: the scans accepted, with what their callers have seen
  overlapped   \* history: scan_start or deinit was called before a scan had ended

appvars == <<pc, mode, arg, told, kept>>
privs   == <<fmac, rpu>>
vif     == <<vifIdx, opState, scanCb, maxBss, resCnt, scanDone>>
devs    == <<made, added, ifState>>
fw      == <<scanning, report, events>>
vars    == <<appvars, privs, vif, devs, fw, ev, scans, overlapped>>

InitPCs   == {"fmac_init", "dev_add", "boot", "add_vif", "set_mac", "chg_vif",
              "err_del_vif", "get_reg", "set_reg", "get_reg_again"}
DeinitPCs == {"del_vif", "dev_rem", "fmac_free"}
PCs       == {"idle", "params", "command", "reg"} \cup InitPCs \cup DeinitPCs

Scan   == [cb : Callbacks, max : Params, found : 0..MaxFound, got : Nat,
           to : SUBSET Callbacks, nulls : Nat, lost : BOOLEAN]
ScanId == 1..MaxScans
Event  == [type : {"done", "results"}, scan : ScanId, n : 0..MaxFound, more : BOOLEAN]

TypeOK ==
  /\ pc \in PCs /\ mode \in Modes
  /\ arg \in [cb : Callbacks \cup {NoCallback}, max : Params \cup {NoParams}]
  /\ told \in [Modes -> BOOLEAN] /\ kept \in BOOLEAN
  /\ fmac \in [Modes -> BOOLEAN] /\ rpu \in [Modes -> 0..made]
  /\ vifIdx \in {"none", "valid"} /\ opState \in {"down", "up"}
  /\ scanCb \in Callbacks \cup {NoCallback}
  /\ maxBss \in Nat /\ resCnt \in Nat /\ scanDone \in BOOLEAN
  /\ made \in 0..MaxInits /\ added \subseteq 1..made
  /\ ifState \in {"none", "down", "up"}
  /\ scanning \in Seq(ScanId)
  /\ report \in Seq([scan : ScanId, left : 0..MaxFound])
  /\ events \in Seq(Event)
  /\ ev \in [pc : {"idle", "done", "results"}, scan : ScanId \cup {0}, n : 0..MaxFound,
             more : BOOLEAN, limit : Nat]
  /\ scans \in Seq(Scan) /\ Len(scans) <= MaxScans
  /\ overlapped \in BOOLEAN

NoArg   == [cb |-> NoCallback, max |-> NoParams]
NoEvent == [pc |-> "idle", scan |-> 0, n |-> 0, more |-> FALSE, limit |-> 0]

Init ==
  /\ pc = "idle" /\ mode = "sys"
  /\ arg = NoArg
  /\ told = [m \in Modes |-> FALSE] /\ kept = FALSE
  /\ fmac = [m \in Modes |-> FALSE] /\ rpu = [m \in Modes |-> 0]
  /\ vifIdx = "valid" /\ opState = "down" /\ scanCb = NoCallback
  /\ maxBss = 0 /\ resCnt = 0 /\ scanDone = FALSE
  /\ made = 0 /\ added = {} /\ ifState = "none"
  /\ scanning = <<>> /\ report = <<>> /\ events = <<>>
  /\ ev = NoEvent /\ scans = <<>> /\ overlapped = FALSE

---------------------------------------------------------------------------
(* Bring-up.  The application initialises a mode when none is up: the      *)
(* samples do, and the library does not check it.                          *)

At(l)   == pc = l
Goto(l) == pc' = l /\ UNCHANGED <<mode, arg>>
Enter(m, l) == pc' = l /\ mode' = m /\ UNCHANGED arg

(* The call returns; its locals are gone.                                  *)
Return == pc' = "idle" /\ mode' = "sys" /\ arg' = NoArg

(* A scan was accepted and its caller still waits for the final NULL.      *)
Unfinished == \E i \in DOMAIN scans : scans[i].nulls = 0 /\ ~scans[i].lost

InitCall(m) ==
  /\ At("idle") /\ made < MaxInits
  /\ \A n \in Modes : rpu[n] = 0
  /\ Enter(m, "fmac_init")
  /\ vifIdx' = IF m = "sys" THEN "none" ELSE vifIdx
  /\ UNCHANGED <<told, kept, privs, opState, scanCb, maxBss, resCnt, scanDone,
                 devs, fw, ev, scans, overlapped>>

(* nrf_wifi_sys_fmac_init or nrf_wifi_rt_fmac_init.                        *)
FmacInit ==
  /\ At("fmac_init")
  /\ \/ fmac' = [fmac EXCEPT ![mode] = TRUE] /\ Goto("dev_add")
     \/ fmac' = [fmac EXCEPT ![mode] = FALSE] /\ Return
  /\ UNCHANGED <<told, kept, rpu, vif, devs, fw, ev, scans, overlapped>>

DevAdd ==
  /\ At("dev_add")
  /\ \/ /\ made' = made + 1
        /\ added' = added \cup {made'}
        /\ rpu' = [rpu EXCEPT ![mode] = made']
        /\ Goto("boot")
     \/ Goto("dev_rem") /\ UNCHANGED <<made, added, rpu>>
  /\ UNCHANGED <<told, kept, fmac, vif, ifState, fw, ev, scans, overlapped>>

(* A request to the device on the way up, without effect on the library.   *)
Request(here, next, err) ==
  /\ At(here)
  /\ Goto(next) \/ Goto(err)
  /\ UNCHANGED <<told, kept, privs, vif, devs, fw, ev, scans, overlapped>>

(* Firmware load, version, TX power and board parameters, dev_init.        *)
Boot == Request("boot", IF mode = "sys" THEN "add_vif" ELSE "get_reg", "dev_rem")

AddVif ==
  /\ At("add_vif")
  /\ \/ vifIdx' = "valid" /\ ifState' = "down" /\ Goto("set_mac")
     \/ vifIdx' = "none" /\ Goto("dev_rem") /\ UNCHANGED ifState
  /\ UNCHANGED <<told, kept, privs, opState, scanCb, maxBss, resCnt, scanDone,
                 made, added, fw, ev, scans, overlapped>>

SetMac == Request("set_mac", "chg_vif", "err_del_vif")

ChgVif ==
  /\ At("chg_vif")
  /\ \/ ifState' = "up" /\ opState' = "up" /\ Goto("get_reg")
     \/ Goto("err_del_vif") /\ UNCHANGED <<ifState, opState>>
  /\ UNCHANGED <<told, kept, privs, vifIdx, scanCb, maxBss, resCnt, scanDone,
                 made, added, fw, ev, scans, overlapped>>

ErrDelVif ==
  /\ At("err_del_vif")
  /\ ifState' = "none" \/ UNCHANGED ifState
  /\ Goto("dev_rem")
  /\ UNCHANGED <<told, kept, privs, vif, made, added, fw, ev, scans, overlapped>>

(* The call returns 0.                                                     *)
InitDone == Return /\ told' = [told EXCEPT ![mode] = TRUE]

(* The current regulatory information is read; without a reg_info that is  *)
(* all.                                                                    *)
GetReg ==
  /\ At("get_reg")
  /\ \/ Goto("set_reg") /\ UNCHANGED told
     \/ InitDone
     \/ Goto("dev_rem") /\ UNCHANGED told
  /\ UNCHANGED <<kept, privs, vif, devs, fw, ev, scans, overlapped>>

SetReg == Request("set_reg", "get_reg_again", "dev_rem")

(* A faulty variant: the system mode returns without cleaning up, too.     *)
GetRegAgainReturns ==
  /\ At("get_reg_again")
  /\ \/ InitDone /\ UNCHANGED kept
     \/ Return /\ kept' = (kept \/ mode = "rt") /\ UNCHANGED told
  /\ UNCHANGED <<privs, vif, devs, fw, ev, scans, overlapped>>

(* It is read again after it was set; here nrf70_bm_rt_init returns        *)
(* without nrf70_bm_rt_fmac_deinit.                                        *)
GetRegAgain ==
  /\ At("get_reg_again")
  /\ \/ InitDone /\ UNCHANGED kept
     \/ mode = "sys" /\ Goto("dev_rem") /\ UNCHANGED <<told, kept>>
     \/ mode = "rt" /\ Return /\ kept' = TRUE /\ UNCHANGED told
  /\ UNCHANGED <<privs, vif, devs, fw, ev, scans, overlapped>>

---------------------------------------------------------------------------
(* Shutdown.                                                               *)

DeinitCall(m) ==
  /\ At("idle")
  /\ Enter(m, IF m = "sys" /\ rpu[m] # 0 THEN "del_vif" ELSE "dev_rem")
  /\ overlapped' = (overlapped \/ (m = "sys" /\ Unfinished))
  /\ UNCHANGED <<told, kept, privs, vif, devs, fw, ev, scans>>

(* The interface is set down, then deleted; op_state is left as it is.     *)
DelVif ==
  /\ At("del_vif")
  /\ ifState' \in {ifState, "down", "none"}
  /\ Goto("dev_rem")
  /\ UNCHANGED <<told, kept, privs, vif, made, added, fw, ev, scans, overlapped>>

(* dev_deinit and dev_rem: the device is stopped, its events are dropped.  *)
DevRem ==
  /\ At("dev_rem")
  /\ IF rpu[mode] # 0
       THEN /\ added' = added \ {rpu[mode]}
            /\ ifState' = "none"
            /\ scanning' = <<>> /\ report' = <<>> /\ events' = <<>>
       ELSE UNCHANGED <<added, ifState, fw>>
  /\ Goto("fmac_free")
  /\ UNCHANGED <<told, kept, privs, vif, made, ev, scans, overlapped>>

(* A faulty variant: rpu_ctx is left pointing to the removed device.       *)
FmacFreeKeepsContext ==
  /\ At("fmac_free")
  /\ fmac' = [fmac EXCEPT ![mode] = FALSE]
  /\ told' = [told EXCEPT ![mode] = FALSE]
  /\ kept' = (kept /\ mode # "rt")
  /\ Return
  /\ UNCHANGED <<rpu, vif, devs, fw, ev, scans, overlapped>>

FmacFree ==
  /\ At("fmac_free")
  /\ fmac' = [fmac EXCEPT ![mode] = FALSE]
  /\ rpu' = [rpu EXCEPT ![mode] = 0]
  /\ told' = [told EXCEPT ![mode] = FALSE]
  /\ kept' = (kept /\ mode # "rt")
  /\ Return
  /\ UNCHANGED <<vif, devs, fw, ev, scans, overlapped>>

---------------------------------------------------------------------------
(* Regulatory requests of a running application.                           *)

RegCall(m) ==
  /\ At("idle") /\ rpu[m] # 0
  /\ Enter(m, "reg")
  /\ UNCHANGED <<told, kept, privs, vif, devs, fw, ev, scans, overlapped>>

RegReturn ==
  /\ At("reg")
  /\ Return
  /\ UNCHANGED <<told, kept, privs, vif, devs, fw, ev, scans, overlapped>>

---------------------------------------------------------------------------
(* nrf70_bm_sys_scan_start.  Its checks read rpu_ctx, fmac_priv and the    *)
(* interface; scan_in_progress is FALSE, nothing in the library sets it.   *)

MayScan == rpu["sys"] # 0 /\ fmac["sys"] /\ vifIdx = "valid" /\ opState = "up"

(* A faulty variant: the callback of an earlier scan is kept.              *)
ScanCallKeepsCallback(c, x) ==
  /\ At("idle") /\ MayScan /\ Len(scans) < MaxScans /\ ~overlapped
  /\ scanCb' = IF scanCb = NoCallback THEN c ELSE scanCb
  /\ overlapped' = Unfinished
  /\ pc' = "params" /\ mode' = "sys" /\ arg' = [cb |-> c, max |-> x]
  /\ UNCHANGED <<told, kept, privs, vifIdx, opState, maxBss, resCnt, scanDone,
                 devs, fw, ev, scans>>

(* The callback is set first; then an unsupported band ends the call.      *)
(* After a first overlap no further scan is started: a bound.              *)
ScanCall(c, x) ==
  /\ At("idle") /\ MayScan /\ Len(scans) < MaxScans /\ ~overlapped
  /\ scanCb' = c
  /\ overlapped' = Unfinished
  /\ \/ pc' = "params" /\ mode' = "sys" /\ arg' = [cb |-> c, max |-> x]
     \/ x # NoParams /\ UNCHANGED <<pc, mode, arg>>
  /\ UNCHANGED <<told, kept, privs, vifIdx, opState, maxBss, resCnt, scanDone,
                 devs, fw, ev, scans>>

(* A faulty variant: scan_res_cnt is not reset.                            *)
ScanParamsKeepsCount ==
  /\ At("params")
  /\ maxBss' = IF arg.max = NoParams THEN maxBss ELSE arg.max
  /\ Goto("command")
  /\ UNCHANGED <<told, kept, privs, vifIdx, opState, scanCb, resCnt, scanDone,
                 devs, fw, ev, scans, overlapped>>

(* max_bss_cnt is stored before the channels are checked; without params   *)
(* it stays as the previous scan left it.                                  *)
ScanParams ==
  /\ At("params")
  /\ maxBss' = IF arg.max = NoParams THEN maxBss ELSE arg.max
  /\ \/ resCnt' = 0 /\ Goto("command")
     \/ arg.max # NoParams /\ Return /\ UNCHANGED resCnt
  /\ UNCHANGED <<told, kept, privs, vifIdx, opState, scanCb, scanDone,
                 devs, fw, ev, scans, overlapped>>

(* nrf_wifi_sys_fmac_scan: the firmware accepts the scan or does not.      *)
ScanCommand ==
  /\ At("command")
  /\ \/ /\ \E f \in 0..MaxFound :
             scans' = Append(scans, [cb |-> arg.cb, max |-> arg.max, found |-> f, got |-> 0,
                                     to |-> {}, nulls |-> 0, lost |-> FALSE])
        /\ scanning' = Append(scanning, Len(scans'))
     \/ UNCHANGED <<scans, scanning>>
  /\ Return
  /\ UNCHANGED <<told, kept, privs, vif, devs, report, events, ev, overlapped>>

---------------------------------------------------------------------------
(* The firmware (external).                                                *)

FwScanDone ==
  /\ scanning # <<>>
  /\ scanning' = Tail(scanning)
  /\ events' = Append(events, [type |-> "done", scan |-> Head(scanning), n |-> 0,
                               more |-> FALSE])
  /\ UNCHANGED <<appvars, privs, vif, devs, report, ev, scans, overlapped>>

FwResults ==
  /\ report # <<>>
  /\ LET r == Head(report) IN
     \E n \in 0..Batch :
       /\ n <= r.left /\ (n = 0 => r.left = 0)
       /\ events' = Append(events, [type |-> "results", scan |-> r.scan, n |-> n,
                                    more |-> n < r.left])
       /\ report' = IF n < r.left THEN <<[r EXCEPT !.left = @ - n]>> \o Tail(report)
                                  ELSE Tail(report)
  /\ UNCHANGED <<appvars, privs, vif, devs, scanning, ev, scans, overlapped>>

---------------------------------------------------------------------------
(* The event handlers, on the bottom-half work queue.                      *)

(* The limit in force while the handler runs is read once, at its start.   *)
EvTake ==
  /\ ev.pc = "idle" /\ events # <<>>
  /\ ev' = LET e == Head(events) IN
           [pc |-> e.type, scan |-> e.scan, n |-> e.n, more |-> e.more,
            limit |-> IF maxBss # 0 THEN maxBss ELSE DefaultBss]
  /\ events' = Tail(events)
  /\ UNCHANGED <<appvars, privs, vif, devs, scanning, report, scans, overlapped>>

(* nrf_wifi_event_proc_scan_done_zep asks for the results; when that fails *)
(* it only logs.                                                           *)
EvScanDone ==
  /\ ev.pc = "done"
  /\ ev' = NoEvent
  /\ \/ /\ rpu["sys"] \in added
        /\ report' = Append(report, [scan |-> ev.scan, left |-> scans[ev.scan].found])
        /\ UNCHANGED scans
     \/ /\ scans' = [scans EXCEPT ![ev.scan].lost = TRUE]
        /\ UNCHANGED report
  /\ UNCHANGED <<appvars, privs, vif, devs, scanning, events, overlapped>>

LimitReached == ev.limit > 0 /\ resCnt >= ev.limit

(* The callback runs and its caller's scan has seen one more result.       *)
Deliver(s) == scans' = [scans EXCEPT ![s].got = @ + 1, ![s].to = @ \cup {scanCb}]

(* A faulty variant: one result too many is read from the event.           *)
EvResultOffByOne ==
  /\ ev.pc = "results" /\ ev.n >= 0 /\ ~LimitReached
  /\ Deliver(ev.scan)
  /\ resCnt' = resCnt + 1
  /\ ev' = [ev EXCEPT !.n = @ - 1]
  /\ UNCHANGED <<appvars, privs, vifIdx, opState, scanCb, maxBss, scanDone, devs, fw,
                 overlapped>>

EvResult ==
  /\ ev.pc = "results" /\ ev.n > 0 /\ ~LimitReached
  /\ Deliver(ev.scan)
  /\ resCnt' = resCnt + 1
  /\ ev' = [ev EXCEPT !.n = @ - 1]
  /\ UNCHANGED <<appvars, privs, vifIdx, opState, scanCb, maxBss, scanDone, devs, fw,
                 overlapped>>

(* A faulty variant: the handler returns when the limit is reached.        *)
EvEndReturns ==
  /\ ev.pc = "results" /\ (ev.n = 0 \/ LimitReached)
  /\ ev' = NoEvent
  /\ IF ev.more \/ LimitReached
       THEN UNCHANGED <<scanDone, scans>>
       ELSE /\ scanDone' = TRUE
            /\ scans' = [scans EXCEPT ![ev.scan].nulls = @ + 1,
                                      ![ev.scan].to = @ \cup {scanCb}]
  /\ UNCHANGED <<appvars, privs, vifIdx, opState, scanCb, maxBss, resCnt, devs, fw,
                 overlapped>>

EvEnd ==
  /\ ev.pc = "results" /\ (ev.n = 0 \/ LimitReached)
  /\ ev' = NoEvent
  /\ IF ev.more
       THEN UNCHANGED <<scanDone, scans>>
       ELSE /\ scanDone' = TRUE
            /\ scans' = [scans EXCEPT ![ev.scan].nulls = @ + 1,
                                      ![ev.scan].to = @ \cup {scanCb}]
  /\ UNCHANGED <<appvars, privs, vifIdx, opState, scanCb, maxBss, resCnt, devs, fw,
                 overlapped>>

---------------------------------------------------------------------------
Calls ==
  \/ \E m \in Modes : InitCall(m) \/ DeinitCall(m) \/ RegCall(m)
  \/ \E c \in Callbacks, x \in Params : ScanCall(c, x)

Application ==
  \/ FmacInit \/ DevAdd \/ Boot \/ AddVif \/ SetMac \/ ChgVif \/ ErrDelVif
  \/ GetReg \/ SetReg \/ GetRegAgain
  \/ DelVif \/ DevRem \/ FmacFree \/ RegReturn
  \/ ScanParams \/ ScanCommand

Handler == EvTake \/ EvScanDone \/ EvResult \/ EvEnd

Next == Calls \/ Application \/ FwScanDone \/ FwResults \/ Handler

Spec == Init /\ [][Next]_vars

(* A call that was started goes on, the firmware answers and the work      *)
(* queue runs; nothing obliges the application to call.                    *)
Fairness ==
  /\ WF_vars(Application) /\ WF_vars(Handler)
  /\ WF_vars(FwScanDone) /\ WF_vars(FwResults)

FairSpec == Spec /\ Fairness

---------------------------------------------------------------------------
(* Properties.                                                             *)

(* The requests of a call reach a device that is there: none is made with  *)
(* an rpu_ctx that was never added or is already removed.  The scan-done   *)
(* handler asks for results with the rpu_ctx of the moment it runs, which  *)
(* is the device's as long as no application gives up on a scan.           *)
RequestPCs == {"boot", "add_vif", "set_mac", "chg_vif", "err_del_vif", "get_reg",
               "set_reg", "get_reg_again", "reg", "command", "del_vif"}
LiveRequests ==
  /\ At("params") \/ pc \in RequestPCs => rpu[mode] \in added
  /\ ev.pc = "done" /\ ~overlapped => rpu["sys"] \in added

(* Between calls the library holds what its return values said: an init    *)
(* that failed, at whatever step, has left no device and no FMAC context   *)
(* behind (but for the path recorded by kept), one that succeeded has left *)
(* exactly one device, in the system mode with its interface up.           *)
Settled ==
  At("idle") =>
    /\ \A m \in Modes : fmac[m] = (rpu[m] # 0)
    /\ added = {rpu[m] : m \in Modes} \ {0}
    /\ told["sys"] = (rpu["sys"] # 0)
    /\ (told["rt"] \/ kept) = (rpu["rt"] # 0)
    /\ told["sys"] => MayScan /\ ifState = "up"

(* Each scan delivers every network found up to its max_bss_cnt, none      *)
(* beyond, then one NULL (nrf70_bm_lib.h:157-163, 238-240), as long as the *)
(* application waits for the NULL before it starts the next scan.          *)
ScanLimit(x) == IF x # 0 THEN x ELSE DefaultBss
Bounded(n, limit) == IF limit > 0 /\ n > limit THEN limit ELSE n
ExactResults ==
  ~overlapped =>
    \A i \in DOMAIN scans :
      LET s == scans[i]
          all == Bounded(s.found, ScanLimit(s.max))
      IN  s.max # NoParams =>
            /\ s.got <= all
            /\ s.nulls = 0 \/ (s.nulls = 1 /\ s.got = all)

(* What a scan finds is delivered to the callback of its own scan_start.   *)
OwnCallback ==
  ~overlapped => \A i \in DOMAIN scans : scans[i].to \subseteq {scans[i].cb}

(* An accepted scan ends with the NULL its caller waits for, unless the    *)
(* results could not be asked for.                                         *)
Ended(i) == i \in DOMAIN scans /\ (scans[i].nulls > 0 \/ scans[i].lost)
FinalNull == \A i \in ScanId : i \in DOMAIN scans ~> Ended(i) \/ overlapped

(* "-EBUSY If the scan is already in progress" (nrf70_bm_lib.h:250): no    *)
(* scan is accepted before the previous one has ended.                     *)
NoSecondScan == [][Len(scans') > Len(scans) => ~Unfinished]_vars

(* "No scan parameters provided, using default values"                     *)
(* (nrf70_bm_lib.c:231): such a scan is limited by the default only.       *)
DefaultLimit ==
  \A i \in DOMAIN scans :
    scans[i].max = NoParams /\ scans[i].nulls = 1 /\ ~overlapped
      => scans[i].got = Bounded(scans[i].found, DefaultBss)

=============================================================================
