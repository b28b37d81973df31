----------------------------- MODULE BmLibProofs -----------------------------
(***************************************************************************)
(* Proofs about BmLib for any callbacks, scan parameters and bounds.       *)
(***************************************************************************)
EXTENDS BmLib, TLAPS

---------------------------------------------------------------------------
(* The devices: what the steps of bring-up and shutdown may rely on.       *)

devvars == <<pc, mode, told, kept, privs, vifIdx, opState, devs>>

DevTypes ==
  /\ pc \in PCs /\ mode \in Modes
  /\ told \in [Modes -> BOOLEAN] /\ kept \in BOOLEAN
  /\ fmac \in [Modes -> BOOLEAN] /\ rpu \in [Modes -> 0..made]
  /\ vifIdx \in {"none", "valid"} /\ opState \in {"down", "up"}
  /\ made \in 0..MaxInits /\ added \subseteq 1..made
  /\ ifState \in {"none", "down", "up"}

(* The devices of FMAC are those the contexts point to; only a shutdown    *)
(* holds, for one step, the pointer to a device that is gone.              *)
Owner(m) == ~(pc = "fmac_free" /\ m = mode)
Owned == added = {rpu[m] : m \in {n \in Modes : Owner(n)}} \ {0}

OneMode == rpu["sys"] = 0 \/ rpu["rt"] = 0

SettledFor(m) ==
  /\ fmac[m] = (rpu[m] # 0)
  /\ m = "sys" => /\ told[m] = (rpu[m] # 0)
                  /\ told[m] => vifIdx = "valid" /\ opState = "up" /\ ifState = "up"
  /\ m = "rt" => (told[m] \/ kept) = (rpu[m] # 0)

(* A mode is settled unless an init or a deinit of it is under way.        *)
Steady ==
  \A m \in Modes : m # mode \/ pc \notin InitPCs \cup DeinitPCs => SettledFor(m)

(* An init is under way: with a context, then with a device, then with an  *)
(* interface.                                                              *)
Rising ==
  /\ pc \in InitPCs =>
       /\ ~told[mode] /\ (mode = "rt" => ~kept)
       /\ \A m \in Modes : m # mode => rpu[m] = 0
       /\ fmac[mode] = (pc # "fmac_init")
       /\ (rpu[mode] # 0) = (pc \notin {"fmac_init", "dev_add"})
  /\ pc \in {"fmac_init", "dev_add"} => made < MaxInits
  /\ pc \in {"add_vif", "set_mac", "chg_vif", "err_del_vif", "del_vif"} => mode = "sys"
  /\ pc \in {"set_mac", "chg_vif"} => vifIdx = "valid"
  /\ pc \in {"get_reg", "set_reg", "get_reg_again"} /\ mode = "sys" =>
       vifIdx = "valid" /\ opState = "up" /\ ifState = "up"
  /\ pc \in {"reg", "del_vif"} => rpu[mode] # 0
  /\ pc \in {"params", "command"} => mode = "sys" /\ rpu["sys"] # 0
  /\ pc = "idle" => mode = "sys"

DevInv == DevTypes /\ Owned /\ OneMode /\ Steady /\ Rising

LEMMA DevInit == Init => DevInv
<1> SUFFICES ASSUME Init PROVE DevInv
  OBVIOUS
<1> USE DEF Modes
<1>1. /\ pc = "idle" /\ mode = "sys" /\ kept = FALSE
      /\ \A m \in Modes : told[m] = FALSE /\ fmac[m] = FALSE /\ rpu[m] = 0
      /\ made = 0 /\ added = {}
  BY DEF Init
<1>2. DevTypes
  <2>1. told \in [Modes -> BOOLEAN] /\ fmac \in [Modes -> BOOLEAN]
    BY DEF Init
  <2>2. rpu \in [Modes -> 0..made]
    BY <1>1 DEF Init
  <2>3. made \in 0..MaxInits /\ added \subseteq 1..made
    BY <1>1, LibAssumption DEF LibAssumption
  <2> QED
    BY <1>1, <2>1, <2>2, <2>3 DEF Init, DevTypes, PCs
<1>3. Owned
  BY <1>1 DEF Owned
<1>4. OneMode /\ Steady /\ Rising
  BY <1>1 DEF OneMode, Steady, SettledFor, Rising, InitPCs
<1> QED
  BY <1>2, <1>3, <1>4 DEF DevInv

LEMMA DevCalls ==
  ASSUME DevInv, Calls
  PROVE  DevInv'
<1> USE DEF DevInv, DevTypes, Owned, Owner, OneMode, Steady, SettledFor, Rising, Modes,
            PCs, InitPCs, DeinitPCs, At, privs, devs
<1>1. ASSUME NEW m \in Modes, InitCall(m) PROVE DevInv'
  BY <1>1 DEF InitCall, Enter
<1>2. ASSUME NEW m \in Modes, DeinitCall(m) PROVE DevInv'
  BY <1>2 DEF DeinitCall, Enter, vif
<1>3. ASSUME NEW m \in Modes, RegCall(m) PROVE DevInv'
  BY <1>3 DEF RegCall, Enter, vif
<1>4. ASSUME NEW c \in Callbacks, NEW x \in Params, ScanCall(c, x) PROVE DevInv'
  BY <1>4 DEF ScanCall, MayScan
<1> QED
  BY <1>1, <1>2, <1>3, <1>4 DEF Calls

LEMMA DevBringUp ==
  ASSUME DevInv,
         FmacInit \/ DevAdd \/ Boot \/ AddVif \/ SetMac \/ ChgVif \/ ErrDelVif
           \/ GetReg \/ SetReg \/ GetRegAgain
  PROVE  DevInv'
<1> USE DEF DevInv, DevTypes, Owned, Owner, OneMode, Steady, SettledFor, Rising, Modes,
            PCs, InitPCs, DeinitPCs, At, Goto, Return, privs, devs, vif
<1>1. CASE FmacInit
  <2>1. DevTypes'
    BY <1>1 DEF FmacInit
  <2>2. Owned' /\ OneMode'
    BY <1>1 DEF FmacInit
  <2>3. Steady'
    BY <1>1 DEF FmacInit
  <2>4. Rising'
    BY <1>1 DEF FmacInit
  <2> QED
    BY <2>1, <2>2, <2>3, <2>4
<1>2. CASE DevAdd
  <2>1. DevTypes'
    <3>1. CASE rpu' = rpu /\ made' = made /\ added' = added
      BY <1>2, <3>1 DEF DevAdd
    <3>2. CASE /\ made' = made + 1 /\ added' = added \cup {made'}
               /\ rpu' = [rpu EXCEPT ![mode] = made'] /\ pc' = "boot"
      <4>1. made' \in 1..MaxInits /\ made \in Nat
        BY <1>2, <3>2, LibAssumption DEF DevAdd, LibAssumption
      <4>2. rpu' \in [Modes -> 0..made']
        BY <3>2, <4>1
      <4>3. added' \subseteq 1..made'
        BY <3>2, <4>1
      <4> QED
        BY <1>2, <3>2, <4>1, <4>2, <4>3 DEF DevAdd
    <3> QED
      BY <1>2, <3>1, <3>2 DEF DevAdd
  <2>2. Owned' /\ OneMode'
    BY <1>2 DEF DevAdd
  <2>3. Steady'
    BY <1>2 DEF DevAdd
  <2>4. Rising'
    BY <1>2 DEF DevAdd
  <2> QED
    BY <2>1, <2>2, <2>3, <2>4
<1>3. CASE Boot
  BY <1>3 DEF Boot, Request
<1>4. CASE AddVif
  BY <1>4 DEF AddVif
<1>5. CASE SetMac
  BY <1>5 DEF SetMac, Request
<1>6. CASE ChgVif
  BY <1>6 DEF ChgVif
<1>7. CASE ErrDelVif
  BY <1>7 DEF ErrDelVif
<1>8. CASE GetReg
  <2>1. DevTypes'
    BY <1>8 DEF GetReg, InitDone
  <2>2. Owned' /\ OneMode'
    BY <1>8 DEF GetReg, InitDone
  <2>3. Steady'
    BY <1>8 DEF GetReg, InitDone
  <2>4. Rising'
    BY <1>8 DEF GetReg, InitDone
  <2> QED
    BY <2>1, <2>2, <2>3, <2>4
<1>9. CASE SetReg
  BY <1>9 DEF SetReg, Request
<1>10. CASE GetRegAgain
  <2>1. DevTypes'
    BY <1>10 DEF GetRegAgain, InitDone
  <2>2. Owned' /\ OneMode'
    BY <1>10 DEF GetRegAgain, InitDone
  <2>3. Steady'
    <3>1. CASE told' = [told EXCEPT ![mode] = TRUE] /\ kept' = kept
      BY <1>10, <3>1 DEF GetRegAgain
    <3>2. CASE told' = told /\ kept' = kept /\ pc' = "dev_rem" /\ mode' = mode
      BY <1>10, <3>2 DEF GetRegAgain
    <3>3. CASE told' = told /\ kept' = TRUE /\ mode = "rt"
      BY <1>10, <3>3 DEF GetRegAgain
    <3> QED
      BY <1>10, <3>1, <3>2, <3>3 DEF GetRegAgain, InitDone
  <2>4. Rising'
    BY <1>10 DEF GetRegAgain, InitDone
  <2> QED
    BY <2>1, <2>2, <2>3, <2>4
<1> QED
  BY <1>1, <1>2, <1>3, <1>4, <1>5, <1>6, <1>7, <1>8, <1>9, <1>10

LEMMA DevFmacFree ==
  ASSUME DevInv, FmacFree
  PROVE  DevInv'
<1> USE DEF Modes
<1>1. /\ pc = "fmac_free" /\ pc' = "idle" /\ mode' = "sys" /\ mode \in Modes
      /\ UNCHANGED <<vifIdx, opState, made, added, ifState>>
  BY DEF FmacFree, At, Return, vif, devs, DevInv, DevTypes
<1>2. /\ fmac' = [fmac EXCEPT ![mode] = FALSE] /\ rpu' = [rpu EXCEPT ![mode] = 0]
      /\ told' = [told EXCEPT ![mode] = FALSE] /\ kept' = (kept /\ mode # "rt")
  BY DEF FmacFree
<1>3. DevTypes
  BY DEF DevInv
<1>4. DevTypes'
  BY <1>1, <1>2, <1>3 DEF DevTypes, PCs
<1>5. fmac'[mode] = FALSE /\ rpu'[mode] = 0 /\ told'[mode] = FALSE
  BY <1>1, <1>2, <1>3 DEF DevTypes
<1>6. ASSUME NEW m \in Modes, m # mode
      PROVE  fmac'[m] = fmac[m] /\ rpu'[m] = rpu[m] /\ told'[m] = told[m]
  BY <1>2, <1>3, <1>6 DEF DevTypes
<1>7. Owned'
  BY <1>1, <1>5, <1>6 DEF DevInv, Owned, Owner
<1>8. OneMode'
  BY <1>1, <1>5, <1>6 DEF DevInv, OneMode
<1>9. Steady'
  <2>1. ASSUME NEW m \in Modes, m # mode PROVE SettledFor(m)'
    <3>1. SettledFor(m)
      BY <2>1 DEF DevInv, Steady
    <3>2. m = "rt" => kept' = kept
      BY <1>1, <1>2, <2>1 DEF DevInv, DevTypes
    <3> QED
      BY <1>1, <1>6, <2>1, <3>1, <3>2 DEF SettledFor
  <2>2. ASSUME NEW m \in Modes, m = mode PROVE SettledFor(m)'
    <3>1. m = "rt" => kept' = FALSE
      BY <1>2, <2>2
    <3>2. fmac'[m] = FALSE /\ rpu'[m] = 0 /\ told'[m] = FALSE
      BY <1>5, <2>2
    <3> QED
      BY <3>1, <3>2 DEF SettledFor
  <2> QED
    BY <2>1, <2>2 DEF Steady
<1>10. Rising'
  BY <1>1 DEF Rising, InitPCs
<1> QED
  BY <1>4, <1>7, <1>8, <1>9, <1>10 DEF DevInv

LEMMA DevOthers ==
  ASSUME DevInv,
         DelVif \/ DevRem \/ FmacFree \/ RegReturn \/ ScanParams \/ ScanCommand
  PROVE  DevInv'
<1> USE DEF DevInv, DevTypes, Owned, Owner, OneMode, Steady, SettledFor, Rising, Modes,
            PCs, InitPCs, DeinitPCs, At, Goto, Return, privs, devs, vif
<1>1. CASE DelVif
  BY <1>1 DEF DelVif
<1>2. CASE DevRem
  BY <1>2 DEF DevRem, fw
<1>3. CASE FmacFree
  BY <1>3, DevFmacFree
<1>4. CASE RegReturn
  BY <1>4 DEF RegReturn
<1>5. CASE ScanParams
  BY <1>5 DEF ScanParams
<1>6. CASE ScanCommand
  BY <1>6 DEF ScanCommand
<1> QED
  BY <1>1, <1>2, <1>3, <1>4, <1>5, <1>6

LEMMA DevUnchanged ==
  ASSUME DevInv, UNCHANGED devvars
  PROVE  DevInv'
  BY DEF DevInv, DevTypes, Owned, Owner, OneMode, Steady, SettledFor, Rising, devvars, privs,
         devs

LEMMA DevNext == DevInv /\ [Next]_vars => DevInv'
<1> SUFFICES ASSUME DevInv, [Next]_vars PROVE DevInv'
  OBVIOUS
<1>1. CASE Calls
  BY <1>1, DevCalls
<1>2. CASE Application
  BY <1>2, DevBringUp, DevOthers DEF Application
<1>3. CASE FwScanDone \/ FwResults \/ Handler \/ UNCHANGED vars
  <2>1. UNCHANGED devvars
    BY <1>3 DEF FwScanDone, FwResults, Handler, EvTake, EvScanDone, EvResult, EvEnd, vars,
                appvars, vif, devvars, privs, devs
  <2> QED
    BY <2>1, DevUnchanged
<1> QED
  BY <1>1, <1>2, <1>3 DEF Next

LEMMA DevInvariance == Spec => []DevInv
  BY DevInit, DevNext, PTL DEF Spec

(* The calls keep what their return values said, and every request of a    *)
(* call reaches a device that is there.                                    *)
LEMMA DevSettled == DevInv => Settled
  BY DEF DevInv, DevTypes, Owned, Owner, Steady, SettledFor, Rising, Settled, Modes, At,
         MayScan, InitPCs, DeinitPCs

LEMMA DevRequests ==
  ASSUME DevInv, At("params") \/ pc \in RequestPCs
  PROVE  rpu[mode] \in added
<1>1. rpu[mode] # 0 /\ Owner(mode)
  BY DEF DevInv, Rising, Owner, At, RequestPCs, InitPCs
<1> QED
  BY <1>1 DEF DevInv, DevTypes, Owned

---------------------------------------------------------------------------
(* Sequences.                                                              *)

LEMMA SeqOfMore ==
  ASSUME NEW S, NEW T, S \subseteq T, NEW s \in Seq(S)
  PROVE  s \in Seq(T)
  OBVIOUS

LEMMA SeqEmpty ==
  ASSUME NEW S, NEW s \in Seq(S), Len(s) = 0
  PROVE  s = <<>>
  OBVIOUS

LEMMA SeqSteps ==
  ASSUME NEW S, NEW s \in Seq(S), NEW e \in S
  PROVE  /\ Append(s, e) \in Seq(S) /\ Len(Append(s, e)) = Len(s) + 1
         /\ \A i \in 1..Len(s) : Append(s, e)[i] = s[i]
         /\ Append(s, e)[Len(s) + 1] = e
         /\ <<e>> \in Seq(S)
  OBVIOUS

LEMMA SeqRest ==
  ASSUME NEW S, NEW s \in Seq(S), s # <<>>
  PROVE  /\ Head(s) \in S /\ Head(s) = s[1] /\ 1 \in DOMAIN s
         /\ Tail(s) \in Seq(S) /\ Len(Tail(s)) = Len(s) - 1
         /\ \A i \in 1..Len(Tail(s)) : Tail(s)[i] = s[i + 1] /\ i + 1 \in DOMAIN s
  OBVIOUS

---------------------------------------------------------------------------
(* The scans: types, and what refers to a scan refers to an accepted one.  *)

scanvars == <<arg, scanCb, maxBss, resCnt, scanDone, fw, ev, scans, overlapped>>

Known   == DOMAIN scans
ReportOf(S) == [scan : S, left : 0..MaxFound]
EventOf(S)  == [type : {"done", "results"}, scan : S, n : 0..MaxFound, more : BOOLEAN]

ScanTypes ==
  /\ arg \in [cb : Callbacks \cup {NoCallback}, max : Params \cup {NoParams}]
  /\ scanCb \in Callbacks \cup {NoCallback}
  /\ maxBss \in Nat /\ resCnt \in Nat /\ scanDone \in BOOLEAN
  /\ scans \in Seq(Scan) /\ Len(scans) <= MaxScans
  /\ scanning \in Seq(Known)
  /\ report \in Seq(ReportOf(Known))
  /\ events \in Seq(EventOf(Known))
  /\ ev \in [pc : {"idle", "done", "results"}, scan : ScanId \cup {0}, n : 0..MaxFound,
             more : BOOLEAN, limit : Nat]
  /\ ev.pc # "idle" => ev.scan \in Known
  /\ overlapped \in BOOLEAN

(* A scan_start under way, and the callback of the interface.              *)
Starting ==
  /\ pc \in {"params", "command"} =>
       arg.cb \in Callbacks /\ arg.max \in Params /\ scanCb = arg.cb /\ Len(scans) < MaxScans
  /\ scans # <<>> => scanCb \in Callbacks

ScanInv == ScanTypes /\ Starting

LEMMA ScanInit == Init => ScanInv
<1> SUFFICES ASSUME Init PROVE ScanInv
  OBVIOUS
<1>1. scans = <<>> /\ scanning = <<>> /\ report = <<>> /\ events = <<>> /\ Len(scans) = 0
  BY DEF Init
<1>2. /\ scans \in Seq(Scan) /\ scanning \in Seq(Known)
      /\ report \in Seq(ReportOf(Known)) /\ events \in Seq(EventOf(Known))
  BY <1>1
<1>3. ev \in [pc : {"idle", "done", "results"}, scan : ScanId \cup {0}, n : 0..MaxFound,
              more : BOOLEAN, limit : Nat]
  BY LibAssumption DEF LibAssumption, Init, NoEvent
<1>4. arg \in [cb : Callbacks \cup {NoCallback}, max : Params \cup {NoParams}]
  BY DEF Init, NoArg
<1>5. /\ scanCb = NoCallback /\ maxBss = 0 /\ resCnt = 0 /\ scanDone = FALSE
      /\ ev.pc = "idle" /\ overlapped = FALSE /\ pc = "idle" /\ MaxScans \in Nat
  BY LibAssumption DEF LibAssumption, Init, NoEvent
<1>6. ScanTypes
  <2>1. Len(scans) <= MaxScans
    BY <1>1, <1>5
  <2>2. scanCb \in Callbacks \cup {NoCallback} /\ maxBss \in Nat /\ resCnt \in Nat
    BY <1>5
  <2>3. /\ scanDone \in BOOLEAN /\ overlapped \in BOOLEAN
        /\ ev.pc # "idle" => ev.scan \in Known
    BY <1>5
  <2> QED
    BY <1>2, <1>3, <1>4, <2>1, <2>2, <2>3, Zenon DEF ScanTypes
<1>7. Starting
  BY <1>1, <1>5 DEF Starting
<1> QED
  BY <1>6, <1>7 DEF ScanInv

(* The history field of one scan changes, or some of its fields.           *)
LEMMA ScansEdit ==
  ASSUME scans \in Seq(Scan), NEW i \in DOMAIN scans, NEW x \in Scan,
         scans' = [scans EXCEPT ![i] = x]
  PROVE  /\ scans' \in Seq(Scan) /\ Len(scans') = Len(scans) /\ Known' = Known
         /\ scans'[i] = x /\ \A j \in Known : j # i => scans'[j] = scans[j]
  BY DEF Known

LEMMA ScanFields ==
  ASSUME scans \in Seq(Scan), NEW i \in DOMAIN scans
  PROVE  /\ scans[i] \in Scan
         /\ scans[i].cb \in Callbacks /\ scans[i].max \in Params
         /\ scans[i].found \in 0..MaxFound /\ scans[i].got \in Nat
         /\ scans[i].to \subseteq Callbacks /\ scans[i].nulls \in Nat
         /\ scans[i].lost \in BOOLEAN
<1>1. scans[i] \in Scan
  OBVIOUS
<1> QED
  BY <1>1 DEF Scan

LEMMA DeliverEffect ==
  ASSUME scans \in Seq(Scan), NEW i \in DOMAIN scans, scanCb \in Callbacks, Deliver(i)
  PROVE  /\ scans' \in Seq(Scan) /\ Len(scans') = Len(scans) /\ Known' = Known
         /\ \A j \in Known : j # i => scans'[j] = scans[j]
         /\ scans'[i].to = scans[i].to \cup {scanCb}
         /\ scans'[i].cb = scans[i].cb /\ scans'[i].nulls = scans[i].nulls
         /\ scans'[i].lost = scans[i].lost
         /\ scans'[i].max = scans[i].max /\ scans'[i].found = scans[i].found
         /\ scans'[i].got = scans[i].got + 1
<1> DEFINE x == [scans[i] EXCEPT !.got = scans[i].got + 1, !.to = scans[i].to \cup {scanCb}]
<1>1. x \in Scan
  <2>1. /\ scans[i] \in Scan /\ scans[i].got + 1 \in Nat /\ scans[i].nulls + 1 \in Nat
        /\ scans[i].to \cup {scanCb} \in SUBSET Callbacks
    BY ScanFields
  <2> QED
    BY <2>1 DEF Scan
<1>2. scans' = [scans EXCEPT ![i] = x]
  BY DEF Deliver
<1>3. /\ x.to = scans[i].to \cup {scanCb} /\ x.cb = scans[i].cb
      /\ x.nulls = scans[i].nulls /\ x.lost = scans[i].lost
      /\ x.max = scans[i].max /\ x.found = scans[i].found /\ x.got = scans[i].got + 1
  BY ScanFields DEF Scan
<1> HIDE DEF x
<1> QED
  BY <1>1, <1>2, <1>3, ScansEdit

FinalCall(i) ==
  scans' = [scans EXCEPT ![i].nulls = @ + 1, ![i].to = @ \cup {scanCb}]

LEMMA FinalEffect ==
  ASSUME scans \in Seq(Scan), NEW i \in DOMAIN scans, scanCb \in Callbacks, FinalCall(i)
  PROVE  /\ scans' \in Seq(Scan) /\ Len(scans') = Len(scans) /\ Known' = Known
         /\ \A j \in Known : j # i => scans'[j] = scans[j]
         /\ scans'[i].to = scans[i].to \cup {scanCb}
         /\ scans'[i].cb = scans[i].cb /\ scans'[i].nulls = scans[i].nulls + 1
         /\ scans'[i].max = scans[i].max /\ scans'[i].found = scans[i].found
         /\ scans'[i].got = scans[i].got
<1> DEFINE x == [scans[i] EXCEPT !.nulls = scans[i].nulls + 1, !.to = scans[i].to \cup {scanCb}]
<1>1. x \in Scan
  <2>1. /\ scans[i] \in Scan /\ scans[i].got + 1 \in Nat /\ scans[i].nulls + 1 \in Nat
        /\ scans[i].to \cup {scanCb} \in SUBSET Callbacks
    BY ScanFields
  <2> QED
    BY <2>1 DEF Scan
<1>2. scans' = [scans EXCEPT ![i] = x]
  BY DEF FinalCall
<1>3. /\ x.to = scans[i].to \cup {scanCb} /\ x.cb = scans[i].cb
      /\ x.nulls = scans[i].nulls + 1
      /\ x.max = scans[i].max /\ x.found = scans[i].found /\ x.got = scans[i].got
  BY ScanFields DEF Scan
<1> HIDE DEF x
<1> QED
  BY <1>1, <1>2, <1>3, ScansEdit

LEMMA LostEffect ==
  ASSUME scans \in Seq(Scan), NEW i \in DOMAIN scans,
         scans' = [scans EXCEPT ![i].lost = TRUE]
  PROVE  /\ scans' \in Seq(Scan) /\ Len(scans') = Len(scans) /\ Known' = Known
         /\ \A j \in Known : j # i => scans'[j] = scans[j]
         /\ scans'[i].to = scans[i].to
         /\ scans'[i].cb = scans[i].cb /\ scans'[i].lost = TRUE
         /\ scans'[i].max = scans[i].max /\ scans'[i].found = scans[i].found
         /\ scans'[i].got = scans[i].got /\ scans'[i].nulls = scans[i].nulls
<1> DEFINE x == [scans[i] EXCEPT !.lost = TRUE]
<1>1. x \in Scan
  <2>1. scans[i] \in Scan
    BY ScanFields
  <2> QED
    BY <2>1 DEF Scan
<1>2. scans' = [scans EXCEPT ![i] = x]
  OBVIOUS
<1>3. /\ x.to = scans[i].to /\ x.cb = scans[i].cb /\ x.lost = TRUE
      /\ x.max = scans[i].max /\ x.found = scans[i].found
      /\ x.got = scans[i].got /\ x.nulls = scans[i].nulls
  BY ScanFields DEF Scan
<1> HIDE DEF x
<1> QED
  BY <1>1, <1>2, <1>3, ScansEdit, ZenonT(60)

(* The steps that leave the scans alone, or drop what is on its way.       *)
Quiet ==
  /\ UNCHANGED <<scanCb, maxBss, resCnt, scanDone, ev, scans>>
  /\ arg' = arg \/ arg' = NoArg
  /\ UNCHANGED fw \/ (scanning' = <<>> /\ report' = <<>> /\ events' = <<>>)
  /\ pc' \notin {"params", "command"} \/ UNCHANGED <<pc, arg>>

LEMMA ScanQuiet ==
  ASSUME ScanInv, Quiet, overlapped' \in BOOLEAN
  PROVE  ScanInv'
<1>1. /\ scanning' \in Seq(Known') /\ report' \in Seq(ReportOf(Known'))
      /\ events' \in Seq(EventOf(Known'))
  <2>1. Known' = Known
    BY DEF Quiet, Known
  <2>2. CASE UNCHANGED fw
    BY <2>1, <2>2 DEF fw, ScanInv, ScanTypes
  <2>3. CASE scanning' = <<>> /\ report' = <<>> /\ events' = <<>>
    BY <2>3
  <2> QED
    BY <2>2, <2>3 DEF Quiet
<1>2. arg' \in [cb : Callbacks \cup {NoCallback}, max : Params \cup {NoParams}]
  BY DEF Quiet, NoArg, ScanInv, ScanTypes
<1>3. ScanTypes'
  BY <1>1, <1>2 DEF Quiet, Known, ScanInv, ScanTypes
<1>4. Starting'
  BY DEF Quiet, ScanInv, Starting
<1> QED
  BY <1>3, <1>4 DEF ScanInv

LEMMA QuietCalls ==
  ASSUME NEW m \in Modes, InitCall(m) \/ DeinitCall(m) \/ RegCall(m)
  PROVE  Quiet
<1>1. CASE InitCall(m)
  BY <1>1 DEF InitCall, Enter, Quiet
<1>2. CASE DeinitCall(m)
  BY <1>2 DEF DeinitCall, Enter, Quiet, vif
<1>3. CASE RegCall(m)
  BY <1>3 DEF RegCall, Enter, Quiet, vif
<1> QED
  BY <1>1, <1>2, <1>3

Unhurried ==
  \/ FmacInit \/ DevAdd \/ Boot \/ AddVif \/ SetMac \/ ChgVif \/ ErrDelVif
  \/ GetReg \/ SetReg \/ GetRegAgain \/ DelVif \/ DevRem \/ FmacFree \/ RegReturn

LEMMA QuietSteps ==
  ASSUME Unhurried
  PROVE  Quiet /\ overlapped' = overlapped
<1> USE DEF Goto, Return, Quiet, vif, At
<1>1. CASE FmacInit \/ DevAdd
  BY <1>1 DEF FmacInit, DevAdd
<1>2. CASE Boot \/ SetMac \/ SetReg
  BY <1>2 DEF Boot, SetMac, SetReg, Request
<1>3. CASE AddVif \/ ChgVif \/ ErrDelVif
  BY <1>3 DEF AddVif, ChgVif, ErrDelVif
<1>4. CASE GetReg \/ GetRegAgain
  BY <1>4 DEF GetReg, GetRegAgain, InitDone
<1>5. CASE DelVif \/ DevRem \/ FmacFree \/ RegReturn
  BY <1>5 DEF DelVif, DevRem, FmacFree, RegReturn, fw
<1> QED
  BY <1>1, <1>2, <1>3, <1>4, <1>5 DEF Unhurried

LEMMA UnfinishedBool == Unfinished \in BOOLEAN
  BY DEF Unfinished

LEMMA ScanStart ==
  ASSUME ScanInv, NEW c \in Callbacks, NEW x \in Params, ScanCall(c, x)
  PROVE  ScanInv'
<1>1. /\ scanCb' = c /\ UNCHANGED <<maxBss, resCnt, scanDone, fw, ev, scans>>
      /\ Len(scans) < MaxScans /\ overlapped' \in BOOLEAN /\ pc = "idle"
      /\ \/ arg' = [cb |-> c, max |-> x] /\ pc' = "params"
         \/ arg' = arg /\ pc' = pc
  BY UnfinishedBool DEF ScanCall, At
<1>2. Known' = Known
  BY <1>1 DEF Known
<1>3. ScanTypes'
  BY <1>1, <1>2 DEF ScanInv, ScanTypes, fw
<1>4. Starting'
  BY <1>1 DEF ScanInv, Starting
<1> QED
  BY <1>3, <1>4 DEF ScanInv

LEMMA ScanLimits ==
  ASSUME ScanInv, ScanParams
  PROVE  ScanInv'
<1>1. /\ UNCHANGED <<scanCb, scanDone, fw, ev, scans, overlapped>>
      /\ pc = "params" /\ arg.cb \in Callbacks /\ arg.max \in Params
      /\ maxBss' = IF arg.max = NoParams THEN maxBss ELSE arg.max
      /\ resCnt' \in {resCnt, 0}
      /\ \/ arg' = arg /\ pc' = "command"
         \/ arg' = NoArg /\ pc' = "idle"
  BY DEF ScanParams, ScanInv, Starting, Goto, Return, At
<1>2. maxBss' \in Nat /\ resCnt' \in Nat
  BY <1>1, LibAssumption DEF LibAssumption, ScanInv, ScanTypes
<1>3. arg' \in [cb : Callbacks \cup {NoCallback}, max : Params \cup {NoParams}]
  BY <1>1 DEF NoArg, ScanInv, ScanTypes
<1>4. ScanTypes'
  BY <1>1, <1>2, <1>3 DEF ScanInv, ScanTypes, Known, fw
<1>5. Starting'
  BY <1>1 DEF ScanInv, Starting
<1> QED
  BY <1>4, <1>5 DEF ScanInv

NewScan(f) == [cb |-> arg.cb, max |-> arg.max, found |-> f, got |-> 0,
               to |-> {}, nulls |-> 0, lost |-> FALSE]

LEMMA CommandAccepted ==
  ASSUME ScanInv, pc = "command", NEW f \in 0..MaxFound, scans' = Append(scans, NewScan(f)),
         scanning' = Append(scanning, Len(scans')),
         UNCHANGED <<report, events, ev>>
  PROVE  /\ scans' \in Seq(Scan) /\ Len(scans') = Len(scans) + 1 /\ Len(scans') <= MaxScans
         /\ Known \subseteq Known' /\ Known' = 1..Len(scans')
         /\ \A i \in Known : scans'[i] = scans[i]
         /\ scans'[Len(scans')] = NewScan(f)
         /\ scanning' \in Seq(Known') /\ report' \in Seq(ReportOf(Known'))
         /\ events' \in Seq(EventOf(Known'))
<1>1. NewScan(f) \in Scan
  BY DEF NewScan, Scan, ScanInv, Starting
<1>2. scans \in Seq(Scan) /\ Len(scans) \in Nat /\ Known = 1..Len(scans)
  BY DEF ScanInv, ScanTypes, Known
<1>3. /\ scans' \in Seq(Scan) /\ Len(scans') = Len(scans) + 1
      /\ \A i \in Known : scans'[i] = scans[i]
      /\ scans'[Len(scans')] = NewScan(f)
  BY <1>1, <1>2, SeqSteps
<1>4. Len(scans') <= MaxScans
  BY <1>2, <1>3, LibAssumption DEF LibAssumption, ScanInv, Starting
<1>5. Known' = 1..Len(scans') /\ Known \subseteq Known' /\ Len(scans') \in Known'
  BY <1>2, <1>3 DEF Known
<1>6. scanning' \in Seq(Known')
  <2>1. scanning \in Seq(Known')
    BY <1>5, SeqOfMore DEF ScanInv, ScanTypes
  <2> QED
    BY <1>5, <2>1, SeqSteps
<1>7. report' \in Seq(ReportOf(Known')) /\ events' \in Seq(EventOf(Known'))
  <2>1. ReportOf(Known) \subseteq ReportOf(Known') /\ EventOf(Known) \subseteq EventOf(Known')
    BY <1>5 DEF ReportOf, EventOf
  <2> QED
    BY <2>1, SeqOfMore DEF ScanInv, ScanTypes
<1> QED
  BY <1>3, <1>4, <1>5, <1>6, <1>7

LEMMA ScanRequested ==
  ASSUME ScanInv, ScanCommand
  PROVE  ScanInv'
<1>1. /\ UNCHANGED <<scanCb, maxBss, resCnt, scanDone, report, events, ev, overlapped>>
      /\ pc = "command" /\ pc' = "idle" /\ arg' = NoArg
  BY DEF ScanCommand, Return, At, vif
<1>2. arg' \in [cb : Callbacks \cup {NoCallback}, max : Params \cup {NoParams}]
  BY <1>1 DEF NoArg
<1>3. CASE UNCHANGED <<scans, scanning>>
  BY <1>1, <1>2, <1>3 DEF ScanInv, ScanTypes, Starting, Known
<1>4. CASE \E f \in 0..MaxFound :
             scans' = Append(scans, NewScan(f)) /\ scanning' = Append(scanning, Len(scans'))
  <2>1. /\ scans' \in Seq(Scan) /\ Len(scans') <= MaxScans /\ Known \subseteq Known'
        /\ scanning' \in Seq(Known') /\ report' \in Seq(ReportOf(Known'))
        /\ events' \in Seq(EventOf(Known'))
    BY <1>1, <1>4, CommandAccepted
  <2>2. ScanTypes'
    BY <1>1, <1>2, <2>1 DEF ScanInv, ScanTypes
  <2>3. Starting'
    BY <1>1 DEF ScanInv, Starting
  <2> QED
    BY <2>2, <2>3 DEF ScanInv
<1> QED
  BY <1>3, <1>4 DEF ScanCommand, NewScan

LEMMA ScanDoneSent ==
  ASSUME ScanInv, FwScanDone
  PROVE  ScanInv'
<1>1. /\ UNCHANGED <<pc, arg, scanCb, maxBss, resCnt, scanDone, report, ev, scans, overlapped>>
      /\ scanning # <<>> /\ scanning' = Tail(scanning)
      /\ events' = Append(events, [type |-> "done", scan |-> Head(scanning), n |-> 0,
                                   more |-> FALSE])
  BY DEF FwScanDone, appvars, vif
<1>2. Head(scanning) \in Known /\ scanning' \in Seq(Known)
  BY <1>1, SeqRest DEF ScanInv, ScanTypes
<1>3. [type |-> "done", scan |-> Head(scanning), n |-> 0, more |-> FALSE] \in EventOf(Known)
  BY <1>2, LibAssumption DEF LibAssumption, EventOf
<1>4. events' \in Seq(EventOf(Known))
  BY <1>1, <1>3, SeqSteps DEF ScanInv, ScanTypes
<1> QED
  BY <1>1, <1>2, <1>4 DEF ScanInv, ScanTypes, Starting, Known

(* What the firmware sends of the results asked for.                       *)
Sent(r, n) ==
  /\ n <= r.left /\ (n = 0 => r.left = 0)
  /\ events' = Append(events, [type |-> "results", scan |-> r.scan, n |-> n,
                               more |-> n < r.left])
  /\ report' = IF n < r.left THEN <<[r EXCEPT !.left = @ - n]>> \o Tail(report)
                             ELSE Tail(report)

LEMMA ResultsSent ==
  ASSUME ScanInv, FwResults
  PROVE  ScanInv'
<1> DEFINE r == Head(report)
<1>1. /\ UNCHANGED <<pc, arg, scanCb, maxBss, resCnt, scanDone, scanning, ev, scans,
                     overlapped>>
      /\ report # <<>>
  BY DEF FwResults, appvars, vif
<1>2. PICK n \in 0..Batch : Sent(r, n)
  BY DEF FwResults, Sent
<1>3. r \in ReportOf(Known) /\ Tail(report) \in Seq(ReportOf(Known))
  BY <1>1, SeqRest DEF ScanInv, ScanTypes
<1>4. r.scan \in Known /\ r.left \in 0..MaxFound
  BY <1>3 DEF ReportOf
<1>5. n \in 0..MaxFound /\ (n < r.left) \in BOOLEAN
  BY <1>2, <1>4, LibAssumption DEF LibAssumption, Sent
<1>6. events' \in Seq(EventOf(Known))
  <2> DEFINE b == n < r.left
  <2>1. b \in BOOLEAN
    OBVIOUS
  <2>2. events' = Append(events, [type |-> "results", scan |-> r.scan, n |-> n, more |-> b])
    BY <1>2 DEF Sent
  <2> HIDE DEF b, r
  <2>3. [type |-> "results", scan |-> r.scan, n |-> n, more |-> b] \in EventOf(Known)
    BY <1>4, <1>5, <2>1 DEF EventOf
  <2> QED
    BY <2>2, <2>3, SeqSteps DEF ScanInv, ScanTypes
<1>7. report' \in Seq(ReportOf(Known))
  <2>1. CASE n < r.left
    <3> DEFINE x == [r EXCEPT !.left = r.left - n]
    <3>1. x \in ReportOf(Known)
      <4>1. r.left - n \in 0..MaxFound
        BY <1>2, <1>4, <1>5, <2>1, LibAssumption DEF LibAssumption
      <4> HIDE DEF r
      <4> QED
        BY <1>3, <4>1 DEF ReportOf
    <3>2. report' = <<x>> \o Tail(report)
      BY <1>2, <2>1 DEF Sent
    <3> HIDE DEF x
    <3> QED
      BY <1>3, <3>1, <3>2
  <2>2. CASE ~(n < r.left)
    BY <1>2, <1>3, <2>2 DEF Sent
  <2> QED
    BY <2>1, <2>2
<1> QED
  BY <1>1, <1>6, <1>7 DEF ScanInv, ScanTypes, Starting, Known

LEMMA KnownIds == ScanInv => Known \subseteq ScanId
  BY LibAssumption DEF LibAssumption, ScanInv, ScanTypes, Known, ScanId

LEMMA EventTaken ==
  ASSUME ScanInv, EvTake
  PROVE  /\ ScanInv'
         /\ ev'.pc = events[1].type /\ ev'.scan = events[1].scan /\ ev'.more = events[1].more
         /\ ev'.n = events[1].n /\ ev'.limit = ScanLimit(maxBss)
         /\ 1 \in DOMAIN events
<1> DEFINE e == Head(events)
<1>1. /\ UNCHANGED <<pc, arg, scanCb, maxBss, resCnt, scanDone, scanning, report, scans,
                     overlapped>>
      /\ events # <<>> /\ events' = Tail(events)
      /\ ev' = [pc |-> e.type, scan |-> e.scan, n |-> e.n, more |-> e.more,
                limit |-> IF maxBss # 0 THEN maxBss ELSE DefaultBss]
  BY DEF EvTake, appvars, vif
<1>2. e \in EventOf(Known) /\ e = events[1] /\ 1 \in DOMAIN events
      /\ Tail(events) \in Seq(EventOf(Known))
  BY <1>1, SeqRest DEF ScanInv, ScanTypes
<1>3. /\ e.type \in {"done", "results"} /\ e.scan \in Known /\ e.n \in 0..MaxFound
      /\ e.more \in BOOLEAN
  BY <1>2 DEF EventOf
<1> HIDE DEF e
<1>4. (IF maxBss # 0 THEN maxBss ELSE DefaultBss) \in Nat
  BY LibAssumption DEF LibAssumption, ScanInv, ScanTypes
<1>5. ev' \in [pc : {"idle", "done", "results"}, scan : ScanId \cup {0}, n : 0..MaxFound,
               more : BOOLEAN, limit : Nat]
  BY <1>1, <1>3, <1>4, KnownIds
<1>6. /\ ev'.pc = e.type /\ ev'.scan = e.scan /\ ev'.more = e.more
      /\ ev'.n = e.n /\ ev'.limit = ScanLimit(maxBss)
  BY <1>1 DEF ScanLimit
<1>7. ScanInv'
  BY <1>1, <1>2, <1>3, <1>5, <1>6 DEF ScanInv, ScanTypes, Starting, Known
<1> QED
  BY <1>2, <1>6, <1>7

LEMMA NoEventType ==
  /\ NoEvent \in [pc : {"idle", "done", "results"}, scan : ScanId \cup {0}, n : 0..MaxFound,
                  more : BOOLEAN, limit : Nat]
  /\ NoEvent.pc = "idle"
  BY LibAssumption DEF LibAssumption, NoEvent

LEMMA ResultsAsked ==
  ASSUME ScanInv, EvScanDone
  PROVE  ScanInv'
<1>1. /\ UNCHANGED <<pc, arg, scanCb, maxBss, resCnt, scanDone, scanning, events, overlapped>>
      /\ ev.pc = "done" /\ ev' = NoEvent /\ ev.scan \in Known
  BY DEF EvScanDone, appvars, vif, ScanInv, ScanTypes
<1>2. CASE /\ report' = Append(report, [scan |-> ev.scan, left |-> scans[ev.scan].found])
           /\ scans' = scans
  <2>1. [scan |-> ev.scan, left |-> scans[ev.scan].found] \in ReportOf(Known)
    BY <1>1, ScanFields DEF ReportOf, Known, ScanInv, ScanTypes
  <2>2. report' \in Seq(ReportOf(Known))
    BY <1>2, <2>1, SeqSteps DEF ScanInv, ScanTypes
  <2> QED
    BY <1>1, <1>2, <2>2, NoEventType DEF ScanInv, ScanTypes, Starting, Known
<1>3. CASE scans' = [scans EXCEPT ![ev.scan].lost = TRUE] /\ report' = report
  <2>1. /\ scans' \in Seq(Scan) /\ Len(scans') = Len(scans) /\ Known' = Known
    BY <1>1, <1>3, LostEffect DEF Known, ScanInv, ScanTypes
  <2>2. scans # <<>>
    BY <1>1 DEF Known
  <2> QED
    BY <1>1, <1>3, <2>1, <2>2, NoEventType DEF ScanInv, ScanTypes, Starting
<1> QED
  BY <1>2, <1>3 DEF EvScanDone

LEMMA ResultDelivered ==
  ASSUME ScanInv, EvResult
  PROVE  /\ ScanInv' /\ scanCb \in Callbacks /\ Deliver(ev.scan)
         /\ ev.scan \in Known /\ ev'.pc = ev.pc /\ ev'.scan = ev.scan /\ ev'.more = ev.more
         /\ ev'.n = ev.n - 1 /\ ev'.limit = ev.limit
<1>1. /\ UNCHANGED <<pc, arg, scanCb, maxBss, scanDone, fw, overlapped>>
      /\ ev.pc = "results" /\ ev.n > 0 /\ ev.scan \in Known /\ resCnt' = resCnt + 1
      /\ ev' = [ev EXCEPT !.n = ev.n - 1] /\ Deliver(ev.scan)
  BY DEF EvResult, appvars, ScanInv, ScanTypes
<1>2. scans # <<>> /\ scanCb \in Callbacks
  BY <1>1 DEF Known, ScanInv, Starting
<1>3. scans' \in Seq(Scan) /\ Len(scans') = Len(scans) /\ Known' = Known
  BY <1>1, <1>2, DeliverEffect DEF Known, ScanInv, ScanTypes
<1>4. /\ ev' \in [pc : {"idle", "done", "results"}, scan : ScanId \cup {0}, n : 0..MaxFound,
                  more : BOOLEAN, limit : Nat]
      /\ ev'.pc = ev.pc /\ ev'.scan = ev.scan /\ ev'.more = ev.more
      /\ ev'.n = ev.n - 1 /\ ev'.limit = ev.limit
  <2>1. ev \in [pc : {"idle", "done", "results"}, scan : ScanId \cup {0}, n : 0..MaxFound,
                more : BOOLEAN, limit : Nat]
    BY DEF ScanInv, ScanTypes
  <2>2. ev.n - 1 \in 0..MaxFound
    <3>1. ev.n \in 0..MaxFound
      BY <2>1
    <3> QED
      BY <1>1, <3>1, LibAssumption DEF LibAssumption
  <2> QED
    BY <1>1, <2>1, <2>2
<1>5. ScanTypes'
  BY <1>1, <1>3, <1>4 DEF ScanInv, ScanTypes, fw
<1>6. Starting'
  BY <1>1, <1>2, <1>3 DEF ScanInv, Starting
<1> QED
  BY <1>1, <1>2, <1>4, <1>5, <1>6 DEF ScanInv

LEMMA EventEnded ==
  ASSUME ScanInv, EvEnd
  PROVE  /\ ScanInv' /\ scanCb \in Callbacks /\ ev.scan \in Known
         /\ ev'.pc = "idle" /\ (ev.more \/ FinalCall(ev.scan))
<1>1. /\ UNCHANGED <<pc, arg, scanCb, maxBss, resCnt, fw, overlapped>>
      /\ ev.pc = "results" /\ ev.scan \in Known /\ ev' = NoEvent
      /\ scanDone' \in {scanDone, TRUE}
      /\ IF ev.more THEN scans' = scans ELSE FinalCall(ev.scan)
  BY DEF EvEnd, FinalCall, appvars, ScanInv, ScanTypes
<1>2. scans # <<>> /\ scanCb \in Callbacks
  BY <1>1 DEF Known, ScanInv, Starting
<1>3. scans' \in Seq(Scan) /\ Len(scans') = Len(scans) /\ Known' = Known
  BY <1>1, <1>2, FinalEffect DEF Known, ScanInv, ScanTypes
<1>4. ScanTypes'
  BY <1>1, <1>3, NoEventType DEF ScanInv, ScanTypes, fw
<1>5. Starting'
  BY <1>1, <1>2, <1>3 DEF ScanInv, Starting
<1> QED
  BY <1>1, <1>2, <1>4, <1>5, NoEventType DEF ScanInv

LEMMA ScanUnchanged ==
  ASSUME ScanInv, UNCHANGED vars
  PROVE  ScanInv'
  BY DEF vars, appvars, vif, fw, ScanInv, ScanTypes, Starting, Known

LEMMA ScanNext == ScanInv /\ [Next]_vars => ScanInv'
<1> SUFFICES ASSUME ScanInv, [Next]_vars PROVE ScanInv'
  OBVIOUS
<1>1. ASSUME NEW m \in Modes, InitCall(m) \/ DeinitCall(m) \/ RegCall(m) PROVE ScanInv'
  <2>1. overlapped' \in BOOLEAN
    BY <1>1, UnfinishedBool DEF InitCall, DeinitCall, RegCall, ScanInv, ScanTypes
  <2> QED
    BY <1>1, <2>1, QuietCalls, ScanQuiet
<1>2. ASSUME NEW c \in Callbacks, NEW x \in Params, ScanCall(c, x) PROVE ScanInv'
  BY <1>2, ScanStart
<1>3. CASE Unhurried
  <2>1. Quiet /\ overlapped' \in BOOLEAN
    BY <1>3, QuietSteps DEF ScanInv, ScanTypes
  <2> QED
    BY <2>1, ScanQuiet
<1>4. CASE ScanParams \/ ScanCommand
  BY <1>4, ScanLimits, ScanRequested
<1>5. CASE FwScanDone \/ FwResults
  BY <1>5, ScanDoneSent, ResultsSent
<1>6. CASE Handler
  BY <1>6, EventTaken, ResultsAsked, ResultDelivered, EventEnded DEF Handler
<1>7. CASE UNCHANGED vars
  BY <1>7, ScanUnchanged
<1> QED
  BY <1>1, <1>2, <1>3, <1>4, <1>5, <1>6, <1>7 DEF Next, Calls, Application, Unhurried

LEMMA ScanInvariance == Spec => []ScanInv
  BY ScanInit, ScanNext, PTL DEF Spec

---------------------------------------------------------------------------
(* As long as the application waits for the NULL, at most one scan is      *)
(* under way, its callback is that of the interface, and what is on its    *)
(* way belongs to it: first its end, then its results, the last batch last.*)

Open(i) == scans[i].nulls = 0 /\ ~scans[i].lost
Up == told["sys"] /\ ~(mode = "sys" /\ pc \in DeinitPCs)

Awaited ==
  \A i \in Known : Open(i) =>
    /\ i = Len(scans) /\ scans[i].cb = scanCb
    /\ pc \notin {"params", "command"} /\ Up

InFlight ==
  /\ \A k \in DOMAIN scanning : Open(scanning[k])
  /\ \A k \in DOMAIN report : Open(report[k].scan)
  /\ \A k \in DOMAIN events : Open(events[k].scan)
  /\ ev.pc # "idle" => Open(ev.scan)

InOrder ==
  /\ scanning # <<>> => Len(scanning) = 1 /\ report = <<>> /\ events = <<>> /\ ev.pc = "idle"
  /\ report # <<>> => Len(report) = 1
  /\ \A k \in DOMAIN events :
       /\ events[k].type = "done" => ~events[k].more
       /\ ~events[k].more => k = Len(events) /\ report = <<>>
  /\ ev.pc = "done" => ~ev.more
  /\ ev.pc # "idle" /\ ~ev.more => events = <<>> /\ report = <<>>

Own == \A i \in Known : scans[i].to \subseteq {scans[i].cb}

Waiting == Awaited /\ InFlight /\ InOrder /\ Own
Pipe == ~overlapped => Waiting

LEMMA NothingOpen ==
  ASSUME ScanInv, Waiting, ~Unfinished
  PROVE  /\ scanning = <<>> /\ report = <<>> /\ events = <<>> /\ ev.pc = "idle"
         /\ \A i \in Known : ~Open(i)
<1>1. \A i \in Known : ~Open(i)
  BY DEF Unfinished, Open, Known
<1>2. ASSUME scanning # <<>> PROVE FALSE
  <2>1. 1 \in DOMAIN scanning /\ scanning[1] \in Known
    BY <1>2, SeqRest DEF ScanInv, ScanTypes
  <2> QED
    BY <1>1, <2>1 DEF Waiting, InFlight
<1>3. ASSUME report # <<>> PROVE FALSE
  <2>1. 1 \in DOMAIN report /\ report[1] \in ReportOf(Known)
    BY <1>3, SeqRest DEF ScanInv, ScanTypes
  <2>2. report[1].scan \in Known
    BY <2>1 DEF ReportOf
  <2> QED
    BY <1>1, <2>1, <2>2 DEF Waiting, InFlight
<1>4. ASSUME events # <<>> PROVE FALSE
  <2>1. 1 \in DOMAIN events /\ events[1] \in EventOf(Known)
    BY <1>4, SeqRest DEF ScanInv, ScanTypes
  <2>2. events[1].scan \in Known
    BY <2>1 DEF EventOf
  <2> QED
    BY <1>1, <2>1, <2>2 DEF Waiting, InFlight
<1>5. ASSUME ev.pc # "idle" PROVE FALSE
  BY <1>1, <1>5 DEF Waiting, InFlight, ScanInv, ScanTypes
<1> QED
  BY <1>1, <1>2, <1>3, <1>4, <1>5

LEMMA OpenUnfinished ==
  ASSUME NEW i \in Known, Open(i)
  PROVE  Unfinished
  BY DEF Unfinished, Open, Known

LEMMA PipeInit == Init => Pipe
<1> SUFFICES ASSUME Init PROVE Waiting
  BY DEF Pipe
<1>1. /\ scans = <<>> /\ scanning = <<>> /\ report = <<>> /\ events = <<>>
      /\ Known = {} /\ ev.pc = "idle"
  BY DEF Init, NoEvent, Known
<1> QED
  BY <1>1 DEF Waiting, Awaited, InFlight, InOrder, Own

(* While the system mode is up and not on its way down, no init is under   *)
(* way and its device is there.                                            *)
LEMMA UpState ==
  ASSUME DevInv, Up
  PROVE  pc \notin InitPCs /\ rpu["sys"] # 0 /\ rpu["sys"] \in added
<1>1. pc \notin InitPCs
  BY DEF DevInv, DevTypes, Steady, SettledFor, Rising, Up, Modes
<1>2. rpu["sys"] # 0
  BY <1>1 DEF DevInv, DevTypes, Steady, SettledFor, Up, Modes
<1>3. Owner("sys")
  BY DEF Up, Owner, DeinitPCs
<1> QED
  BY <1>1, <1>2, <1>3 DEF DevInv, Owned, Modes

LEMMA UpCalls ==
  ASSUME DevInv, Up, NEW m \in Modes,
         InitCall(m) \/ RegCall(m) \/ (m = "rt" /\ DeinitCall(m))
  PROVE  Up' /\ pc' \notin {"params", "command"}
<1>1. CASE InitCall(m)
  BY <1>1, UpState DEF InitCall, Modes
<1>2. CASE RegCall(m)
  BY <1>2 DEF RegCall, Enter, Up, DeinitPCs
<1>3. CASE m = "rt" /\ DeinitCall(m)
  BY <1>3 DEF DeinitCall, Enter, Up, DeinitPCs
<1> QED
  BY <1>1, <1>2, <1>3

LEMMA UpSteps ==
  ASSUME DevInv, Up, Unhurried
  PROVE  Up' /\ pc' \notin {"params", "command"}
<1>1. pc \notin InitPCs
  BY UpState
<1>2. CASE DelVif
  BY <1>2 DEF DelVif, At, DevInv, Rising, Up, DeinitPCs
<1>3. CASE DevRem
  BY <1>3 DEF DevRem, At, Goto, Up, DeinitPCs
<1>4. CASE FmacFree
  BY <1>4 DEF FmacFree, At, Return, Up, DeinitPCs, DevInv, DevTypes, Modes
<1>5. CASE RegReturn
  BY <1>5 DEF RegReturn, Return, Up, DeinitPCs
<1> QED
  BY <1>1, <1>2, <1>3, <1>4, <1>5
     DEF Unhurried, FmacInit, DevAdd, Boot, AddVif, SetMac, ChgVif, ErrDelVif, GetReg, SetReg,
         GetRegAgain, Request, At, InitPCs

LEMMA PipeQuiet ==
  ASSUME ScanInv, Waiting, Quiet, Unfinished => Up' /\ pc' \notin {"params", "command"}
  PROVE  Waiting'
<1>1. Known' = Known /\ scans' = scans /\ scanCb' = scanCb /\ ev' = ev
  BY DEF Quiet, Known
<1>2. Awaited' /\ Own'
  BY <1>1, OpenUnfinished DEF Waiting, Awaited, Own, Open
<1>3. CASE UNCHANGED fw
  BY <1>1, <1>2, <1>3 DEF fw, Waiting, InFlight, InOrder, Open
<1>4. CASE scanning' = <<>> /\ report' = <<>> /\ events' = <<>>
  BY <1>1, <1>2, <1>4 DEF Waiting, InFlight, InOrder, Open
<1> QED
  BY <1>3, <1>4 DEF Quiet

LEMMA PipeCalls ==
  ASSUME DevInv, ScanInv, Pipe, ~overlapped', NEW m \in Modes,
         InitCall(m) \/ DeinitCall(m) \/ RegCall(m)
  PROVE  Waiting'
<1>1. ~overlapped /\ Waiting
  <2>1. overlapped' = overlapped \/ DeinitCall(m)
    BY DEF InitCall, RegCall
  <2>2. DeinitCall(m) => overlapped' = (overlapped \/ (m = "sys" /\ Unfinished))
    BY DEF DeinitCall
  <2>3. ~overlapped
    BY <2>1, <2>2, Zenon
  <2> QED
    BY <2>3 DEF Pipe
<1>2. Unfinished => Up
  BY <1>1 DEF Waiting, Awaited, Unfinished, Open, Known
<1>3. Unfinished => InitCall(m) \/ RegCall(m) \/ (m = "rt" /\ DeinitCall(m))
  <2>1. DeinitCall(m) => overlapped' = (overlapped \/ (m = "sys" /\ Unfinished))
    BY DEF DeinitCall
  <2> QED
    BY <2>1 DEF Modes
<1>4. Unfinished => Up' /\ pc' \notin {"params", "command"}
  BY <1>2, <1>3, UpCalls
<1> QED
  BY <1>1, <1>4, QuietCalls, PipeQuiet

LEMMA PipeSteps ==
  ASSUME DevInv, ScanInv, Pipe, ~overlapped', Unhurried
  PROVE  Waiting'
<1>1. Quiet /\ ~overlapped /\ Waiting
  BY QuietSteps DEF Pipe
<1>2. Unfinished => Up
  BY <1>1 DEF Waiting, Awaited, Unfinished, Open, Known
<1>3. Unfinished => Up' /\ pc' \notin {"params", "command"}
  BY <1>2, UpSteps
<1> QED
  BY <1>1, <1>3, PipeQuiet

LEMMA PipeScanCall ==
  ASSUME ScanInv, Pipe, ~overlapped', NEW c \in Callbacks, NEW x \in Params, ScanCall(c, x)
  PROVE  Waiting'
<1>1. ~Unfinished /\ Waiting /\ UNCHANGED <<fw, ev, scans>>
  BY DEF ScanCall, Pipe
<1>2. /\ scanning = <<>> /\ report = <<>> /\ events = <<>> /\ ev.pc = "idle"
      /\ \A i \in Known : ~Open(i)
  BY <1>1, NothingOpen
<1>3. Known' = Known /\ scans' = scans
  BY <1>1 DEF Known
<1> QED
  BY <1>1, <1>2, <1>3 DEF fw, Waiting, Awaited, InFlight, InOrder, Own, Open

LEMMA PipeParams ==
  ASSUME ScanInv, Pipe, ~overlapped', ScanParams
  PROVE  Waiting'
<1>1. /\ Waiting /\ pc = "params"
      /\ UNCHANGED <<scanCb, fw, ev, scans>> /\ Known' = Known
  BY DEF ScanParams, Pipe, At, Known
<1>2. \A i \in Known : ~Open(i)
  BY <1>1 DEF Waiting, Awaited
<1> QED
  BY <1>1, <1>2 DEF fw, Waiting, Awaited, InFlight, InOrder, Own, Open

LEMMA PipeCommand ==
  ASSUME DevInv, ScanInv, Pipe, ~overlapped', ScanCommand
  PROVE  Waiting'
<1>1. /\ Waiting /\ pc = "command" /\ pc' = "idle"
      /\ UNCHANGED <<scanCb, report, events, ev, told>>
  BY DEF ScanCommand, Pipe, At, Return, vif
<1>2. \A i \in Known : ~Open(i)
  BY <1>1 DEF Waiting, Awaited
<1>3. ~Unfinished
  BY <1>2 DEF Unfinished, Open, Known
<1>4. scanning = <<>> /\ report = <<>> /\ events = <<>> /\ ev.pc = "idle"
  BY <1>1, <1>3, NothingOpen
<1>5. CASE UNCHANGED <<scans, scanning>>
  <2>1. Known' = Known
    BY <1>5 DEF Known
  <2> QED
    BY <1>1, <1>2, <1>4, <1>5, <2>1 DEF Waiting, Awaited, InFlight, InOrder, Own, Open
<1>6. ASSUME NEW f \in 0..MaxFound, scans' = Append(scans, NewScan(f)),
             scanning' = Append(scanning, Len(scans'))
      PROVE  Waiting'
  <2> DEFINE n == Len(scans')
  <2>1. /\ Known' = 1..n /\ n \in Nat /\ n = Len(scans) + 1 /\ Known = 1..Len(scans)
        /\ \A i \in Known : scans'[i] = scans[i]
        /\ scans'[n] = NewScan(f)
    BY <1>1, <1>6, CommandAccepted DEF Known, ScanInv, ScanTypes
  <2>2. scanning' = <<n>> /\ Len(scanning') = 1 /\ DOMAIN scanning' = {1} /\ scanning'[1] = n
    BY <1>4, <1>6
  <2>3. /\ NewScan(f).cb = arg.cb /\ NewScan(f).nulls = 0 /\ ~NewScan(f).lost
        /\ NewScan(f).to = {}
    BY DEF NewScan
  <2>4. \A i \in Known' : i = n \/ (i \in Known /\ scans'[i] = scans[i])
    BY <2>1 DEF ScanInv, ScanTypes
  <2>5. Up'
    BY <1>1 DEF DevInv, Steady, SettledFor, Rising, Up, InitPCs, DeinitPCs, Modes
  <2>6. scanCb = arg.cb
    BY <1>1 DEF ScanInv, Starting
  <2> HIDE DEF n
  <2>7. Awaited'
    BY <1>1, <1>2, <2>1, <2>3, <2>4, <2>5, <2>6 DEF Awaited, Open, n
  <2>8. InFlight' /\ InOrder'
    BY <1>1, <1>4, <2>1, <2>2, <2>3 DEF InFlight, InOrder, Open
  <2>9. Own'
    BY <1>1, <2>1, <2>3, <2>4 DEF Waiting, Own
  <2> QED
    BY <2>7, <2>8, <2>9 DEF Waiting
<1> QED
  BY <1>5, <1>6 DEF ScanCommand, NewScan

LEMMA PipeScanDone ==
  ASSUME ScanInv, Pipe, ~overlapped', FwScanDone
  PROVE  Waiting'
<1>1. /\ Waiting /\ UNCHANGED <<pc, mode, told, scanCb, report, ev, scans>> /\ Known' = Known
      /\ scanning # <<>> /\ scanning' = Tail(scanning)
      /\ events' = Append(events, [type |-> "done", scan |-> Head(scanning), n |-> 0,
                                   more |-> FALSE])
  BY DEF FwScanDone, Pipe, appvars, vif, Known
<1>2. Len(scanning) = 1 /\ report = <<>> /\ events = <<>> /\ ev.pc = "idle"
  BY <1>1 DEF Waiting, InOrder
<1>3. Head(scanning) = scanning[1] /\ 1 \in DOMAIN scanning /\ scanning' = <<>>
  BY <1>1, <1>2, SeqRest DEF ScanInv, ScanTypes
<1>4. Open(scanning[1])
  BY <1>1, <1>3 DEF Waiting, InFlight
<1>5. /\ DOMAIN events' = {1} /\ Len(events') = 1
      /\ events'[1].type = "done" /\ events'[1].scan = scanning[1] /\ ~events'[1].more
  BY <1>1, <1>2, <1>3
<1>6. Awaited' /\ Own'
  BY <1>1 DEF Waiting, Awaited, Own, Open, Up
<1>7. InFlight' /\ InOrder'
  BY <1>1, <1>2, <1>3, <1>4, <1>5 DEF InFlight, InOrder, Open
<1> QED
  BY <1>6, <1>7 DEF Waiting

LEMMA PipeResults ==
  ASSUME ScanInv, Pipe, ~overlapped', FwResults
  PROVE  Waiting'
<1> DEFINE r == Head(report)
<1>1. /\ Waiting /\ UNCHANGED <<pc, mode, told, scanCb, scanning, ev, scans>>
      /\ Known' = Known /\ report # <<>>
  BY DEF FwResults, Pipe, appvars, vif, Known
<1>2. PICK n \in 0..Batch : Sent(r, n)
  BY DEF FwResults, Sent
<1>3. /\ Len(report) = 1 /\ r = report[1] /\ 1 \in DOMAIN report /\ r \in ReportOf(Known)
      /\ Tail(report) = <<>> /\ Open(r.scan)
  <2>1. report \in Seq(ReportOf(Known)) /\ Len(report) = 1
    BY <1>1 DEF Waiting, InOrder, ScanInv, ScanTypes
  <2>2. /\ r \in ReportOf(Known) /\ r = report[1] /\ 1 \in DOMAIN report
        /\ Len(Tail(report)) = 0 /\ Tail(report) \in Seq(ReportOf(Known))
    BY <1>1, <2>1, SeqRest
  <2>3. Open(report[1].scan)
    BY <1>1, <2>2 DEF Waiting, InFlight
  <2>4. Tail(report) = <<>>
    BY <2>2, SeqEmpty
  <2>5. Open(r.scan)
    BY <2>2, <2>3, Zenon
  <2> HIDE DEF r
  <2> QED
    BY <2>1, <2>2, <2>4, <2>5
<1>4. scanning = <<>> /\ (ev.pc = "idle" \/ ev.more)
  BY <1>1 DEF Waiting, InOrder
<1>5. \A k \in DOMAIN events : events[k].more /\ Open(events[k].scan)
  BY <1>1 DEF Waiting, InOrder, InFlight
<1>6. Awaited' /\ Own'
  BY <1>1 DEF Waiting, Awaited, Own, Open, Up
<1> DEFINE b == n < r.left
           e == [type |-> "results", scan |-> r.scan, n |-> n, more |-> b]
<1>7. events' = Append(events, e) /\ events \in Seq(EventOf(Known))
  BY <1>2 DEF Sent, ScanInv, ScanTypes
<1>8. e.type = "results" /\ e.scan = r.scan /\ e.more = b
  OBVIOUS
<1> DEFINE x == [r EXCEPT !.left = r.left - n]
<1>9. /\ b => report' = <<x>>
      /\ ~b => report' = <<>>
  <2>1. report' = IF b THEN <<x>> \o <<>> ELSE <<>>
    BY <1>2, <1>3 DEF Sent
  <2> HIDE DEF x, b
  <2> QED
    BY <2>1
<1>10. x.scan = r.scan
  BY <1>3 DEF ReportOf
<1> HIDE DEF r, b, e, x
<1>11. /\ DOMAIN events' = 1..Len(events') /\ Len(events') = Len(events) + 1
       /\ Len(events) \in Nat
       /\ \A k \in 1..Len(events) : events'[k] = events[k]
       /\ events'[Len(events')] = e
  BY <1>7
<1>12. \A k \in DOMAIN events' : k = Len(events') \/ (k \in DOMAIN events /\ events'[k] = events[k])
  BY <1>7, <1>11
<1>13. \A k \in DOMAIN events' : Open(events'[k].scan)
  BY <1>3, <1>5, <1>8, <1>11, <1>12
<1>14. \A k \in DOMAIN events' :
         /\ events'[k].type = "done" => ~events'[k].more
         /\ ~events'[k].more => k = Len(events') /\ ~b
  <2>1. \A k \in DOMAIN events : events[k].type # "done"
    BY <1>1, <1>5 DEF Waiting, InOrder
  <2> QED
    BY <1>5, <1>8, <1>11, <1>12, <2>1
<1>15. /\ report' # <<>> => Len(report') = 1
       /\ \A k \in DOMAIN report' : Open(report'[k].scan)
  <2>1. CASE b
    BY <1>3, <1>9, <1>10, <2>1
  <2>2. CASE ~b
    BY <1>9, <2>2
  <2> QED
    BY <2>1, <2>2
<1>16. InFlight'
  BY <1>1, <1>4, <1>13, <1>15 DEF Waiting, InFlight, Open
<1>17. InOrder'
  BY <1>1, <1>4, <1>9, <1>14, <1>15 DEF Waiting, InOrder
<1> QED
  BY <1>6, <1>16, <1>17 DEF Waiting

LEMMA PipeTake ==
  ASSUME ScanInv, Pipe, ~overlapped', EvTake
  PROVE  Waiting'
<1>1. /\ Waiting /\ UNCHANGED <<pc, mode, told, scanCb, scanning, report, scans>>
      /\ Known' = Known /\ events # <<>> /\ events' = Tail(events) /\ ev.pc = "idle"
  BY DEF EvTake, Pipe, appvars, vif, Known
<1>2. /\ ev'.pc = events[1].type /\ ev'.scan = events[1].scan /\ ev'.more = events[1].more
      /\ 1 \in DOMAIN events
  BY EventTaken
<1>3. /\ events' \in Seq(EventOf(Known)) /\ Len(events') = Len(events) - 1
      /\ Len(events) \in Nat /\ DOMAIN events' = 1..Len(events')
      /\ \A k \in 1..Len(events') : events'[k] = events[k + 1] /\ k + 1 \in DOMAIN events
  BY <1>1, SeqRest DEF ScanInv, ScanTypes
<1>4. scanning = <<>>
  BY <1>1 DEF Waiting, InOrder
<1>5. Awaited' /\ Own'
  BY <1>1 DEF Waiting, Awaited, Own, Open, Up
<1>6. InFlight'
  BY <1>1, <1>2, <1>3, <1>4 DEF Waiting, InFlight, Open
<1>7. \A k \in DOMAIN events' :
        /\ events'[k].type = "done" => ~events'[k].more
        /\ ~events'[k].more => k = Len(events') /\ report' = <<>>
  BY <1>1, <1>3 DEF Waiting, InOrder
<1>8. /\ ev'.pc = "done" => ~ev'.more
      /\ ~ev'.more => events' = <<>> /\ report' = <<>>
  <2>1. ev'.pc = "done" => ~ev'.more
    BY <1>1, <1>2 DEF Waiting, InOrder
  <2>2. ASSUME ~ev'.more PROVE events' = <<>> /\ report' = <<>>
    <3>1. 1 = Len(events) /\ report = <<>>
      BY <1>1, <1>2, <2>2 DEF Waiting, InOrder
    <3> QED
      BY <1>1, <1>3, <3>1
  <2> QED
    BY <2>1, <2>2
<1>9. InOrder'
  BY <1>1, <1>4, <1>7, <1>8 DEF Waiting, InOrder
<1> QED
  BY <1>5, <1>6, <1>9 DEF Waiting

LEMMA PipeAsk ==
  ASSUME ScanInv, Pipe, ~overlapped', EvScanDone
  PROVE  Waiting'
<1>1. /\ Waiting /\ UNCHANGED <<pc, mode, told, scanCb, scanning, events>>
      /\ ev.pc = "done" /\ ev.scan \in Known /\ ev'.pc = "idle"
  BY NoEventType DEF EvScanDone, Pipe, appvars, vif, ScanInv, ScanTypes
<1>2. events = <<>> /\ report = <<>> /\ scanning = <<>> /\ Open(ev.scan)
  BY <1>1 DEF Waiting, InOrder, InFlight
<1>3. CASE /\ report' = Append(report, [scan |-> ev.scan, left |-> scans[ev.scan].found])
           /\ scans' = scans
  <2>1. /\ DOMAIN report' = {1} /\ Len(report') = 1 /\ report'[1].scan = ev.scan
    BY <1>2, <1>3
  <2>2. Known' = Known
    BY <1>3 DEF Known
  <2> QED
    BY <1>1, <1>2, <1>3, <2>1, <2>2 DEF Waiting, Awaited, InFlight, InOrder, Own, Open, Up
<1>4. CASE scans' = [scans EXCEPT ![ev.scan].lost = TRUE] /\ report' = report
  <2>1. /\ Len(scans') = Len(scans) /\ Known' = Known
        /\ \A j \in Known : j # ev.scan => scans'[j] = scans[j]
        /\ scans'[ev.scan].to = scans[ev.scan].to /\ scans'[ev.scan].cb = scans[ev.scan].cb
        /\ scans'[ev.scan].lost = TRUE
    BY <1>1, <1>4, LostEffect DEF Known, ScanInv, ScanTypes
  <2>2. Awaited' /\ Own'
    BY <1>1, <2>1 DEF Waiting, Awaited, Own, Open, Up
  <2>3. InFlight' /\ InOrder'
    BY <1>1, <1>2, <1>4 DEF InFlight, InOrder
  <2> QED
    BY <2>2, <2>3 DEF Waiting
<1> QED
  BY <1>3, <1>4 DEF EvScanDone

LEMMA PipeResult ==
  ASSUME ScanInv, Pipe, ~overlapped', EvResult
  PROVE  Waiting'
<1>1. /\ Waiting /\ UNCHANGED <<pc, mode, told, scanCb, scanning, report, events>>
      /\ ev.pc = "results"
  BY DEF EvResult, Pipe, appvars, fw
<1>2. /\ scanCb \in Callbacks /\ Deliver(ev.scan) /\ ev.scan \in Known
      /\ ev'.pc = ev.pc /\ ev'.scan = ev.scan /\ ev'.more = ev.more
  BY ResultDelivered
<1>3. /\ Len(scans') = Len(scans) /\ Known' = Known
      /\ \A j \in Known : j # ev.scan => scans'[j] = scans[j]
      /\ scans'[ev.scan].to = scans[ev.scan].to \cup {scanCb}
      /\ scans'[ev.scan].cb = scans[ev.scan].cb
      /\ scans'[ev.scan].nulls = scans[ev.scan].nulls
      /\ scans'[ev.scan].lost = scans[ev.scan].lost
  BY <1>2, DeliverEffect DEF Known, ScanInv, ScanTypes
<1>4. Open(ev.scan) /\ scans[ev.scan].cb = scanCb
  BY <1>1, <1>2 DEF Waiting, InFlight, Awaited
<1>5. \A i \in Known : Open(i)' = Open(i)
  BY <1>3 DEF Open
<1>6. Awaited'
  BY <1>1, <1>3, <1>5 DEF Waiting, Awaited, Up
<1>7. Own'
  BY <1>1, <1>3, <1>4 DEF Waiting, Own
<1>8. InFlight'
  <2>1. /\ \A k \in DOMAIN scanning : scanning[k] \in Known
        /\ \A k \in DOMAIN report : report[k].scan \in Known
        /\ \A k \in DOMAIN events : events[k].scan \in Known
    <3>1. /\ \A k \in DOMAIN report : report[k] \in ReportOf(Known)
          /\ \A k \in DOMAIN events : events[k] \in EventOf(Known)
          /\ \A k \in DOMAIN scanning : scanning[k] \in Known
      BY DEF ScanInv, ScanTypes
    <3> QED
      BY <3>1 DEF ReportOf, EventOf
  <2> QED
    BY <1>1, <1>2, <1>5, <2>1 DEF Waiting, InFlight
<1>9. InOrder'
  BY <1>1, <1>2 DEF Waiting, InOrder
<1> QED
  BY <1>6, <1>7, <1>8, <1>9 DEF Waiting

LEMMA PipeEnd ==
  ASSUME ScanInv, Pipe, ~overlapped', EvEnd
  PROVE  Waiting'
<1>1. /\ Waiting /\ UNCHANGED <<pc, mode, told, scanCb, scanning, report, events>>
      /\ ev.pc = "results" /\ (ev.more => scans' = scans)
  BY DEF EvEnd, Pipe, appvars, fw
<1>2. /\ scanCb \in Callbacks /\ ev.scan \in Known /\ ev'.pc = "idle"
      /\ ev.more \/ FinalCall(ev.scan)
  BY EventEnded
<1>3. CASE ev.more
  <2>1. scans' = scans /\ Known' = Known
    BY <1>1, <1>3 DEF Known
  <2> QED
    BY <1>1, <1>2, <2>1 DEF Waiting, Awaited, InFlight, InOrder, Own, Open, Up
<1>4. CASE ~ev.more
  <2>1. events = <<>> /\ report = <<>> /\ scanning = <<>>
    BY <1>1, <1>4 DEF Waiting, InOrder
  <2>2. /\ Len(scans') = Len(scans) /\ Known' = Known
        /\ \A j \in Known : j # ev.scan => scans'[j] = scans[j]
        /\ scans'[ev.scan].to = scans[ev.scan].to \cup {scanCb}
        /\ scans'[ev.scan].cb = scans[ev.scan].cb
        /\ scans'[ev.scan].nulls = scans[ev.scan].nulls + 1
        /\ scans[ev.scan].nulls \in Nat
    BY <1>2, <1>4, FinalEffect, ScanFields DEF Known, ScanInv, ScanTypes
  <2>3. scans[ev.scan].cb = scanCb
    BY <1>1, <1>2 DEF Waiting, InFlight, Awaited
  <2>5. Awaited' /\ Own'
    BY <1>1, <1>2, <2>2, <2>3 DEF Waiting, Awaited, Own, Open, Up
  <2>6. InFlight' /\ InOrder'
    BY <1>1, <1>2, <2>1 DEF InFlight, InOrder
  <2> QED
    BY <2>5, <2>6 DEF Waiting
<1> QED
  BY <1>3, <1>4

LEMMA PipeUnchanged ==
  ASSUME Pipe, UNCHANGED vars
  PROVE  Pipe'
<1>1. /\ UNCHANGED <<pc, mode, told, scanCb, scanning, report, events, ev, scans, overlapped>>
      /\ Known' = Known
  BY DEF vars, appvars, vif, fw, Known
<1>2. CASE overlapped
  BY <1>1, <1>2 DEF Pipe
<1>3. CASE ~overlapped
  BY <1>1, <1>3 DEF Pipe, Waiting, Awaited, InFlight, InOrder, Own, Open, Up
<1> QED
  BY <1>2, <1>3

LEMMA PipeNext == DevInv /\ ScanInv /\ Pipe /\ [Next]_vars => Pipe'
<1> SUFFICES ASSUME DevInv, ScanInv, Pipe, [Next]_vars, ~overlapped' PROVE Waiting'
  BY DEF Pipe
<1>1. ASSUME NEW m \in Modes, InitCall(m) \/ DeinitCall(m) \/ RegCall(m) PROVE Waiting'
  BY <1>1, PipeCalls
<1>2. ASSUME NEW c \in Callbacks, NEW x \in Params, ScanCall(c, x) PROVE Waiting'
  BY <1>2, PipeScanCall
<1>3. CASE Unhurried
  BY <1>3, PipeSteps
<1>4. CASE ScanParams \/ ScanCommand
  BY <1>4, PipeParams, PipeCommand
<1>5. CASE FwScanDone \/ FwResults
  BY <1>5, PipeScanDone, PipeResults
<1>6. CASE Handler
  BY <1>6, PipeTake, PipeAsk, PipeResult, PipeEnd DEF Handler
<1>7. CASE UNCHANGED vars
  BY <1>7, PipeUnchanged DEF Pipe
<1> QED
  BY <1>1, <1>2, <1>3, <1>4, <1>5, <1>6, <1>7 DEF Next, Calls, Application, Unhurried

LEMMA Invariance == Spec => [](DevInv /\ ScanInv /\ Pipe)
<1>1. Init => DevInv /\ ScanInv /\ Pipe
  BY DevInit, ScanInit, PipeInit
<1>2. DevInv /\ ScanInv /\ Pipe /\ [Next]_vars => (DevInv /\ ScanInv /\ Pipe)'
  BY DevNext, ScanNext, PipeNext
<1> QED
  BY <1>1, <1>2, PTL DEF Spec

---------------------------------------------------------------------------
(* What the scan under way has delivered, what is in hand, in the events   *)
(* and still in the firmware add up to what it found, unless its limit is  *)
(* reached.  A sum over the queue is said by a function on its positions:  *)
(* how much is left behind each event.                                     *)

Everything(i) == Bounded(scans[i].found, ScanLimit(scans[i].max))
Limited(i)    == scans[i].max # NoParams

Exact(i) ==
  /\ scans[i].got <= Everything(i)
  /\ scans[i].nulls = 0 \/ (scans[i].nulls = 1 /\ scans[i].got = Everything(i))

(* The fields of the interface are those of the scan to be requested.      *)
Prepared == pc = "command" => resCnt = 0 /\ (arg.max # NoParams => maxBss = arg.max)

(* Before its end is handled a scan has delivered nothing.                 *)
Announced ==
  \/ scanning # <<>> \/ ev.pc = "done"
  \/ \E k \in DOMAIN events : events[k].type = "done"

Alone == \A k \in DOMAIN events : events[k].type = "done" => Len(events) = 1 /\ ev.pc = "idle"

Full(i) == ScanLimit(scans[i].max) > 0 /\ scans[i].got >= ScanLimit(scans[i].max)
Unsent  == IF report # <<>> THEN report[1].left ELSE 0
InHand  == IF ev.pc = "results" THEN ev.n ELSE 0

Behind(f) ==
  /\ f \in [0 .. Len(events) -> 0 .. MaxFound]
  /\ f[Len(events)] = Unsent
  /\ \A k \in DOMAIN events : f[k - 1] = f[k] + events[k].n

Tallied(i) ==
  /\ maxBss = scans[i].max /\ resCnt = scans[i].got
  /\ ev.pc = "results" => ev.limit = ScanLimit(scans[i].max)
  /\ IF Announced THEN scans[i].got = 0
     ELSE \E f : Behind(f) /\ (Full(i) \/ scans[i].got + InHand + f[0] = scans[i].found)

Counted ==
  /\ \A i \in Known : Limited(i) => Exact(i)
  /\ Prepared /\ Alone
  /\ \A i \in Known : Open(i) /\ Limited(i) => Tallied(i)

Tally == ~overlapped => Counted

LEMMA Limits ==
  ASSUME ScanInv, NEW i \in Known, Limited(i)
  PROVE  /\ scans[i].max \in Nat /\ ScanLimit(scans[i].max) \in Nat
         /\ scans[i].found \in Nat /\ scans[i].got \in Nat /\ scans[i].nulls \in Nat
<1>1. scans[i].max \in Params /\ scans[i].max # NoParams
  BY ScanFields DEF ScanInv, ScanTypes, Known, Limited
<1>2. scans[i].max \in Nat
  BY <1>1, LibAssumption DEF LibAssumption
<1>3. ScanLimit(scans[i].max) \in Nat
  BY <1>2, LibAssumption DEF LibAssumption, ScanLimit
<1>4. scans[i].found \in 0..MaxFound /\ scans[i].got \in Nat /\ scans[i].nulls \in Nat
  BY ScanFields DEF ScanInv, ScanTypes, Known
<1> QED
  BY <1>2, <1>3, <1>4, LibAssumption DEF LibAssumption

LEMMA BoundedIs ==
  ASSUME NEW n \in Nat, NEW l \in Nat
  PROVE  /\ Bounded(n, l) \in Nat /\ Bounded(n, l) <= n
         /\ l > 0 => Bounded(n, l) <= l
         /\ l = 0 \/ n <= l => Bounded(n, l) = n
         /\ l > 0 /\ n >= l => Bounded(n, l) = l
  BY DEF Bounded

LEMMA TallyInit == Init => Tally
<1> SUFFICES ASSUME Init PROVE Counted
  BY DEF Tally
<1>1. Known = {} /\ pc = "idle" /\ events = <<>>
  BY DEF Init, Known
<1> QED
  BY <1>1 DEF Counted, Prepared, Alone

(* No step of the application drops what a scan under way has sent.        *)
LEMMA UpKeeps ==
  ASSUME DevInv, Up, Unhurried
  PROVE  UNCHANGED fw
<1>1. CASE DevRem
  <2>1. pc = "dev_rem" /\ mode = "rt"
    BY <1>1 DEF DevRem, At, Up, DeinitPCs, DevInv, DevTypes, Modes
  <2>2. rpu["rt"] = 0
    BY UpState DEF DevInv, OneMode
  <2> QED
    BY <1>1, <2>1, <2>2 DEF DevRem
<1>2. CASE FmacInit \/ DevAdd \/ FmacFree \/ DelVif \/ RegReturn
  BY <1>2 DEF FmacInit, DevAdd, FmacFree, DelVif, RegReturn
<1>3. CASE Boot \/ SetMac \/ SetReg
  BY <1>3 DEF Boot, SetMac, SetReg, Request
<1>4. CASE AddVif \/ ChgVif \/ ErrDelVif
  BY <1>4 DEF AddVif, ChgVif, ErrDelVif
<1>5. CASE GetReg \/ GetRegAgain
  BY <1>5 DEF GetReg, GetRegAgain
<1> QED
  BY <1>1, <1>2, <1>3, <1>4, <1>5 DEF Unhurried

LEMMA TallyQuiet ==
  ASSUME Counted, Quiet, Unfinished => UNCHANGED fw
  PROVE  Counted'
<1>1. /\ Known' = Known /\ UNCHANGED <<scans, ev, maxBss, resCnt>>
      /\ pc' # "command" \/ UNCHANGED <<pc, arg>>
  BY DEF Quiet, Known
<1>2. Prepared' /\ \A i \in Known' : Limited(i)' => Exact(i)'
  BY <1>1 DEF Counted, Prepared, Limited, Exact, Everything
<1>3. CASE UNCHANGED fw
  BY <1>1, <1>2, <1>3
     DEF fw, Counted, Alone, Open, Limited, Tallied, Announced, Full, Unsent, InHand, Behind
<1>4. CASE ~Unfinished /\ events' = <<>>
  <2>1. \A i \in Known' : ~Open(i)'
    BY <1>1, <1>4 DEF Unfinished, Open, Known
  <2> QED
    BY <1>2, <1>4, <2>1 DEF Counted, Alone
<1> QED
  BY <1>3, <1>4 DEF Quiet

LEMMA TallyCalls ==
  ASSUME Counted, NEW m \in Modes, InitCall(m) \/ DeinitCall(m) \/ RegCall(m)
  PROVE  Counted'
<1>1. UNCHANGED fw
  BY DEF InitCall, DeinitCall, RegCall
<1> QED
  BY <1>1, QuietCalls, TallyQuiet

LEMMA TallySteps ==
  ASSUME DevInv, Waiting, Counted, Unhurried
  PROVE  Counted'
<1>1. Unfinished => Up
  BY DEF Waiting, Awaited, Unfinished, Open, Known
<1> QED
  BY <1>1, UpKeeps, QuietSteps, TallyQuiet

LEMMA TallyScanCall ==
  ASSUME ScanInv, Waiting, Counted, ~overlapped', NEW c \in Callbacks, NEW x \in Params,
         ScanCall(c, x)
  PROVE  Counted'
<1>1. /\ ~Unfinished /\ pc' # "command" /\ UNCHANGED <<events, scans>> /\ Known' = Known
  BY DEF ScanCall, fw, At, Known
<1>2. events = <<>> /\ \A i \in Known : ~Open(i)
  BY <1>1, NothingOpen
<1> QED
  BY <1>1, <1>2 DEF Counted, Prepared, Alone, Open, Limited, Exact, Everything

LEMMA TallyParams ==
  ASSUME ScanInv, Waiting, Counted, ScanParams
  PROVE  Counted'
<1>1. /\ pc = "params" /\ UNCHANGED <<events, ev, scans>> /\ Known' = Known
      /\ maxBss' = IF arg.max = NoParams THEN maxBss ELSE arg.max
      /\ pc' # "command" \/ (resCnt' = 0 /\ arg' = arg)
  BY DEF ScanParams, At, Goto, Return, fw, Known
<1>2. \A i \in Known : ~Open(i)
  BY <1>1 DEF Waiting, Awaited
<1> QED
  BY <1>1, <1>2 DEF Counted, Prepared, Alone, Open, Limited, Exact, Everything

LEMMA TallyCommand ==
  ASSUME ScanInv, Waiting, Counted, ScanCommand
  PROVE  Counted'
<1>1. /\ pc = "command" /\ pc' = "idle" /\ UNCHANGED <<events, ev, maxBss, resCnt>>
  BY DEF ScanCommand, At, Return, vif
<1>2. \A i \in Known : ~Open(i)
  BY <1>1 DEF Waiting, Awaited
<1>3. ~Unfinished
  BY <1>2 DEF Unfinished, Open, Known
<1>4. events = <<>> /\ ev.pc = "idle"
  BY <1>3, NothingOpen
<1>5. CASE UNCHANGED <<scans, scanning>>
  BY <1>1, <1>2, <1>4, <1>5
     DEF Counted, Prepared, Alone, Open, Limited, Exact, Everything, Known
<1>6. ASSUME NEW f \in 0..MaxFound, scans' = Append(scans, NewScan(f)),
             scanning' = Append(scanning, Len(scans'))
      PROVE  Counted'
  <2>1. UNCHANGED <<report, events, ev>>
    BY DEF ScanCommand
  <2>2. /\ Len(scans') \in Nat /\ Known' = 1..Len(scans') /\ Known = 1..Len(scans)
        /\ Len(scans') = Len(scans) + 1 /\ \A i \in Known : scans'[i] = scans[i]
        /\ scans'[Len(scans')] = NewScan(f)
    BY <1>1, <1>6, <2>1, CommandAccepted DEF Known, ScanInv, ScanTypes
  <2>3. PICK n \in Nat : n = Len(scans')
    BY <2>2
  <2>4. /\ Known' = 1..n /\ n = Len(scans) + 1 /\ Known = 1..Len(scans)
        /\ \A i \in Known : scans'[i] = scans[i]
        /\ scans'[n] = NewScan(f)
    BY <2>2, <2>3
  <2>5. /\ scans'[n].max = arg.max /\ scans'[n].got = 0 /\ scans'[n].nulls = 0
        /\ scans'[n].found = f
    BY <2>4 DEF NewScan
  <2>6. scanning' # <<>>
    BY <1>6 DEF ScanInv, ScanTypes
  <2>7. \A i \in Known' : i = n \/ (i \in Known /\ scans'[i] = scans[i])
    BY <2>4 DEF ScanInv, ScanTypes
  <2>8. arg.max # NoParams => Exact(n)' /\ Tallied(n)'
    <3> SUFFICES ASSUME arg.max # NoParams PROVE Exact(n)' /\ Tallied(n)'
      OBVIOUS
    <3>1. arg.max \in Nat
      BY <1>1, LibAssumption DEF LibAssumption, ScanInv, Starting
    <3>2. ScanLimit(arg.max) \in Nat /\ f \in Nat
      BY <3>1, LibAssumption DEF LibAssumption, ScanLimit
    <3>3. Bounded(f, ScanLimit(arg.max)) \in Nat
      BY <3>2, BoundedIs
    <3>4. Exact(n)'
      BY <2>5, <3>3 DEF Exact, Everything
    <3>5. maxBss' = arg.max /\ resCnt' = 0
      BY <1>1 DEF Counted, Prepared
    <3>6. Announced'
      BY <2>6 DEF Announced
    <3> QED
      BY <1>1, <1>4, <2>5, <3>4, <3>5, <3>6 DEF Tallied
  <2>9. \A i \in Known' : Limited(i)' => Exact(i)'
    BY <2>5, <2>7, <2>8 DEF Counted, Limited, Exact, Everything
  <2>10. \A i \in Known' : Open(i)' /\ Limited(i)' => Tallied(i)'
    BY <1>2, <2>5, <2>7, <2>8 DEF Limited, Open
  <2> QED
    BY <1>1, <1>4, <2>9, <2>10 DEF Counted, Prepared, Alone
<1> QED
  BY <1>5, <1>6 DEF ScanCommand, NewScan

LEMMA TallyScanDone ==
  ASSUME ScanInv, Waiting, Counted, FwScanDone
  PROVE  Counted'
<1>1. /\ UNCHANGED <<pc, arg, maxBss, resCnt, ev, scans>> /\ Known' = Known /\ scanning # <<>>
      /\ events' = Append(events, [type |-> "done", scan |-> Head(scanning), n |-> 0,
                                   more |-> FALSE])
  BY DEF FwScanDone, appvars, vif, Known
<1>2. events = <<>> /\ ev.pc = "idle"
  BY <1>1 DEF Waiting, InOrder
<1>3. DOMAIN events' = {1} /\ Len(events') = 1 /\ events'[1].type = "done"
  BY <1>1, <1>2
<1>4. Announced /\ Announced'
  BY <1>1, <1>3 DEF Announced
<1>5. Prepared' /\ Alone' /\ \A i \in Known' : Limited(i)' => Exact(i)'
  BY <1>1, <1>2, <1>3 DEF Counted, Prepared, Alone, Limited, Exact, Everything
<1>6. ASSUME NEW i \in Known', Open(i)', Limited(i)' PROVE Tallied(i)'
  BY <1>1, <1>4, <1>6 DEF Counted, Open, Limited, Tallied
<1> QED
  BY <1>5, <1>6 DEF Counted

LEMMA TallyResults ==
  ASSUME ScanInv, Waiting, Counted, FwResults
  PROVE  Counted'
<1> DEFINE r == Head(report)
<1>1. /\ UNCHANGED <<pc, arg, maxBss, resCnt, scanning, ev, scans>> /\ Known' = Known
      /\ report # <<>>
  BY DEF FwResults, appvars, vif, Known
<1>2. PICK n \in 0..Batch : Sent(r, n)
  BY DEF FwResults, Sent
<1>3. /\ r = report[1] /\ r.left \in 0..MaxFound /\ r.left \in Nat /\ Tail(report) = <<>>
      /\ n \in Nat /\ n <= r.left /\ r \in ReportOf(Known)
  <2>1. report \in Seq(ReportOf(Known)) /\ Len(report) = 1
    BY <1>1 DEF Waiting, InOrder, ScanInv, ScanTypes
  <2>2. /\ r \in ReportOf(Known) /\ r = report[1]
        /\ Len(Tail(report)) = 0 /\ Tail(report) \in Seq(ReportOf(Known))
    BY <1>1, <2>1, SeqRest
  <2>3. Tail(report) = <<>>
    BY <2>2, SeqEmpty
  <2>4. n <= r.left
    BY <1>2 DEF Sent
  <2> HIDE DEF r
  <2> QED
    BY <2>2, <2>3, <2>4, LibAssumption DEF LibAssumption, ReportOf
<1> DEFINE b == n < r.left
           e == [type |-> "results", scan |-> r.scan, n |-> n, more |-> b]
           x == [r EXCEPT !.left = r.left - n]
<1>4. events' = Append(events, e) /\ events \in Seq(EventOf(Known)) /\ e.type = "results" /\ e.n = n
  BY <1>2 DEF Sent, ScanInv, ScanTypes
<1>5. /\ b => report' = <<x>> /\ x.left = r.left - n
      /\ ~b => report' = <<>> /\ r.left = n
  <2>1. report' = IF b THEN <<x>> \o <<>> ELSE <<>>
    BY <1>2, <1>3 DEF Sent
  <2>2. x.left = r.left - n
    BY <1>3 DEF ReportOf
  <2>3. ~b => r.left = n
    BY <1>3
  <2> HIDE DEF x, b
  <2> QED
    BY <2>1, <2>2, <2>3
<1> HIDE DEF r, b, e, x
<1>6. Unsent = r.left /\ Unsent' = r.left - n
  <2>1. CASE b
    BY <1>1, <1>3, <1>5, <2>1, SMTT(40) DEF Unsent
  <2>2. CASE ~b
    BY <1>1, <1>3, <1>5, <2>2 DEF Unsent
  <2> QED
    BY <2>1, <2>2
<1>7. /\ DOMAIN events' = 1..Len(events') /\ Len(events') = Len(events) + 1
      /\ Len(events) \in Nat /\ DOMAIN events = 1..Len(events)
      /\ \A k \in 1..Len(events) : events'[k] = events[k]
      /\ events'[Len(events) + 1] = e
  BY <1>4
<1>8. \A k \in DOMAIN events : events[k].type # "done"
  BY <1>1 DEF Waiting, InOrder
<1>9. ev.pc # "done" /\ scanning = <<>>
  BY <1>1 DEF Waiting, InOrder
<1>10. \A k \in DOMAIN events' : events'[k].type # "done"
  <2>1. \A k \in DOMAIN events' : k \in DOMAIN events \/ k = Len(events) + 1
    BY <1>7
  <2> QED
    BY <1>4, <1>7, <1>8, <2>1
<1>11. ~Announced /\ ~Announced'
  BY <1>1, <1>8, <1>9, <1>10 DEF Announced
<1>12. Prepared' /\ Alone' /\ \A i \in Known' : Limited(i)' => Exact(i)'
  BY <1>1, <1>10 DEF Counted, Prepared, Alone, Limited, Exact, Everything
<1>13. ASSUME NEW i \in Known', Open(i)', Limited(i)' PROVE Tallied(i)'
  <2>1. Tallied(i)
    BY <1>1, <1>13 DEF Counted, Open, Limited
  <2>2. PICK f : Behind(f) /\ (Full(i) \/ scans[i].got + InHand + f[0] = scans[i].found)
    BY <1>11, <2>1 DEF Tallied
  <2>3. PICK l \in Nat : l = Len(events)
    BY <1>7
  <2>5. r.left - n \in 0 .. MaxFound
    BY <1>3, LibAssumption DEF LibAssumption
  <2>4. /\ f \in [0 .. l -> 0 .. MaxFound] /\ f[l] = r.left
        /\ \A k \in 1 .. l : f[k - 1] = f[k] + events[k].n
    BY <1>6, <1>7, <2>2, <2>3 DEF Behind
  <2>6. PICK left \in 0 .. MaxFound : left = r.left - n
    BY <2>5
  <2> DEFINE g == [k \in 0 .. l + 1 |-> IF k = l + 1 THEN left ELSE f[k]]
  <2>7. /\ g \in [0 .. l + 1 -> 0 .. MaxFound] /\ g[l + 1] = left /\ g[0] = f[0]
        /\ \A k \in 0..l : g[k] = f[k]
    BY <2>3, <2>4
  <2> HIDE DEF g
  <2>11. ASSUME NEW k \in 1 .. l + 1 PROVE g[k - 1] = g[k] + events'[k].n
    <3>1. CASE k = l + 1
      <4>1. g[k - 1] = r.left /\ g[k] = r.left - n
        BY <2>3, <2>4, <2>6, <2>7, <3>1
      <4>2. events'[k].n = n
        BY <1>4, <1>7, <2>3, <3>1
      <4> QED
        BY <1>3, <4>1, <4>2
    <3>2. CASE k # l + 1
      <4>1. k \in 1..l /\ k - 1 \in 0..l /\ k \in 0..l
        BY <2>3, <3>2
      <4> QED
        BY <1>7, <2>3, <2>4, <2>7, <4>1
    <3> QED
      BY <3>1, <3>2
  <2>8. Behind(g)'
    BY <1>6, <1>7, <2>3, <2>6, <2>7, <2>11 DEF Behind
  <2>9. Full(i)' = Full(i) /\ InHand' = InHand
    BY <1>1 DEF Full, InHand
  <2>10. Full(i)' \/ scans'[i].got + InHand' + g[0] = scans'[i].found
    BY <1>1, <2>2, <2>7, <2>9
  <2> QED
    BY <1>1, <1>11, <2>1, <2>8, <2>10 DEF Tallied
<1> QED
  BY <1>12, <1>13 DEF Counted

LEMMA TallyTake ==
  ASSUME ScanInv, Waiting, Counted, EvTake
  PROVE  Counted'
<1>1. /\ UNCHANGED <<pc, arg, maxBss, resCnt, scanning, report, scans>> /\ Known' = Known
      /\ events # <<>> /\ events' = Tail(events) /\ ev.pc = "idle"
  BY DEF EvTake, appvars, vif, Known
<1>2. /\ ev'.pc = events[1].type /\ ev'.n = events[1].n /\ ev'.limit = ScanLimit(maxBss)
      /\ 1 \in DOMAIN events
  BY EventTaken
<1>3. PICK l \in Nat : l = Len(events')
  <2>1. events \in Seq(EventOf(Known))
    BY DEF ScanInv, ScanTypes
  <2>2. Tail(events) \in Seq(EventOf(Known))
    BY <1>1, <2>1, SeqRest
  <2> QED
    BY <1>1, <2>2
<1>4. /\ events' \in Seq(EventOf(Known)) /\ Len(events) = l + 1 /\ DOMAIN events' = 1..l
      /\ DOMAIN events = 1 .. l + 1
      /\ \A k \in 1..l : events'[k] = events[k + 1]
      /\ events[1] \in EventOf(Known)
  BY <1>1, <1>3, SeqRest DEF ScanInv, ScanTypes
<1>5. scanning = <<>>
  BY <1>1 DEF Waiting, InOrder
<1>6. Alone'
  <2>1. ASSUME NEW k \in 1..l, events'[k].type = "done" PROVE FALSE
    <3>1. k + 1 \in DOMAIN events /\ events[k + 1].type = "done"
      BY <1>4, <2>1
    <3>2. Len(events) = 1
      BY <3>1 DEF Counted, Alone
    <3>3. Len(events) = l + 1
      BY <1>4
    <3> QED
      BY <3>2, <3>3
  <2> QED
    BY <1>4, <2>1 DEF Alone
<1>7. Prepared' /\ \A i \in Known' : Limited(i)' => Exact(i)'
  BY <1>1 DEF Counted, Prepared, Limited, Exact, Everything
<1>8. ASSUME NEW i \in Known', Open(i)', Limited(i)' PROVE Tallied(i)'
  <2>1. Tallied(i)
    BY <1>1, <1>8 DEF Counted, Open, Limited
  <2>2. ev'.limit = ScanLimit(scans[i].max)
    BY <1>2, <2>1 DEF Tallied
  <2>3. CASE events[1].type = "done"
    <3>1. Announced /\ Announced'
      BY <1>2, <2>3 DEF Announced
    <3> QED
      BY <1>1, <2>1, <2>2, <3>1 DEF Tallied
  <2>4. CASE events[1].type = "results"
    <3>1. \A k \in DOMAIN events : events[k].type # "done"
      BY <1>4, <2>4 DEF Counted, Alone
    <3>2. \A k \in DOMAIN events' : events'[k].type # "done"
      BY <1>4, <3>1
    <3>3. ~Announced /\ ~Announced'
      BY <1>1, <1>2, <1>5, <2>4, <3>1, <3>2 DEF Announced
    <3>4. PICK f : Behind(f) /\ (Full(i) \/ scans[i].got + InHand + f[0] = scans[i].found)
      BY <2>1, <3>3 DEF Tallied
    <3>5. /\ f \in [0 .. l + 1 -> 0 .. MaxFound] /\ f[l + 1] = Unsent
          /\ \A k \in 1 .. l + 1 : f[k - 1] = f[k] + events[k].n
      BY <1>4, <3>4 DEF Behind
    <3> DEFINE g == [k \in 0 .. l |-> f[k + 1]]
    <3>6. /\ g \in [0 .. l -> 0 .. MaxFound] /\ g[l] = Unsent
          /\ \A k \in 0..l : g[k] = f[k + 1]
      BY <3>5
    <3> HIDE DEF g
    <3>7. \A k \in 1..l : g[k - 1] = g[k] + events'[k].n
      <4> TAKE k \in 1..l
      <4>1. k - 1 \in 0..l /\ k \in 0..l /\ k + 1 \in 1 .. l + 1 /\ (k - 1) + 1 = k
            /\ (k + 1) - 1 = k
        OBVIOUS
      <4> QED
        BY <1>4, <3>5, <3>6, <4>1, SMTT(40)
    <3>8. Unsent' = Unsent
      BY <1>1 DEF Unsent
    <3>9. Behind(g)'
      BY <1>3, <1>4, <3>6, <3>7, <3>8 DEF Behind
    <3>10. InHand = 0 /\ InHand' = events[1].n /\ f[0] = g[0] + events[1].n
      BY <1>1, <1>2, <2>4, <3>5, <3>6 DEF InHand
    <3>11. g[0] \in Nat /\ events[1].n \in Nat /\ scans[i].got \in Nat
      BY <1>1, <1>4, <1>8, <3>6, Limits, LibAssumption DEF LibAssumption, EventOf, Limited
    <3>12. Full(i)' \/ scans'[i].got + InHand' + g[0] = scans'[i].found
      BY <1>1, <3>4, <3>10, <3>11 DEF Full
    <3> QED
      BY <1>1, <2>1, <2>2, <3>3, <3>9, <3>12 DEF Tallied
  <2> QED
    BY <1>4, <2>3, <2>4 DEF EventOf
<1> QED
  BY <1>6, <1>7, <1>8 DEF Counted

(* Only one scan is under way: the one the handler works for.              *)
LEMMA InHandIsLast ==
  ASSUME ScanInv, Waiting, ev.pc # "idle"
  PROVE  ev.scan \in Known /\ Open(ev.scan) /\ \A i \in Known : Open(i) => i = ev.scan
<1>1. ev.scan \in Known /\ Open(ev.scan)
  BY DEF Waiting, InFlight, ScanInv, ScanTypes
<1> QED
  BY <1>1 DEF Waiting, Awaited

(* What a results event says of the scan it belongs to.                    *)
LEMMA ResultsTally ==
  ASSUME ScanInv, Waiting, Counted, ev.pc = "results", Limited(ev.scan)
  PROVE  /\ ~Announced /\ Exact(ev.scan) /\ Tallied(ev.scan) /\ Full(ev.scan) = LimitReached
         /\ ev.n \in Nat
<1>1. ev.scan \in Known /\ Open(ev.scan)
  BY InHandIsLast
<1>2. Tallied(ev.scan) /\ Exact(ev.scan)
  BY <1>1 DEF Counted
<1>3. ~Announced
  BY DEF Announced, Counted, Alone, Waiting, InOrder
<1>4. Full(ev.scan) = LimitReached
  BY <1>2 DEF Tallied, Full, LimitReached
<1>5. ev.n \in Nat
  BY LibAssumption DEF LibAssumption, ScanInv, ScanTypes
<1> QED
  BY <1>2, <1>3, <1>4, <1>5

LEMMA TallyAsk ==
  ASSUME ScanInv, Waiting, Counted, EvScanDone
  PROVE  Counted'
<1>1. /\ UNCHANGED <<pc, arg, maxBss, resCnt, scanning, events>>
      /\ ev.pc = "done" /\ ev'.pc = "idle"
  BY NoEventType DEF EvScanDone, appvars, vif
<1>2. events = <<>> /\ report = <<>> /\ scanning = <<>>
  BY <1>1 DEF Waiting, InOrder
<1>3. ev.scan \in Known /\ Open(ev.scan) /\ \A i \in Known : Open(i) => i = ev.scan
  BY <1>1, InHandIsLast
<1>4. Prepared' /\ Alone'
  BY <1>1, <1>2 DEF Counted, Prepared, Alone
<1>5. CASE /\ report' = Append(report, [scan |-> ev.scan, left |-> scans[ev.scan].found])
           /\ scans' = scans
  <2>1. Known' = Known /\ \A i \in Known' : Limited(i)' => Exact(i)'
    BY <1>5 DEF Counted, Known, Limited, Exact, Everything
  <2>2. ~Announced'
    BY <1>1, <1>2 DEF Announced
  <2>3. ASSUME NEW i \in Known', Open(i)', Limited(i)' PROVE Tallied(i)'
    <3>1. i = ev.scan /\ Tallied(i) /\ Announced
      BY <1>1, <1>3, <1>5, <2>1, <2>3 DEF Counted, Open, Limited, Announced
    <3>2. PICK left \in 0 .. MaxFound : left = scans[i].found
      BY <2>1, ScanFields DEF ScanInv, ScanTypes, Known
    <3>3. Unsent' = left /\ InHand' = 0 /\ Len(events') = 0
      BY <1>1, <1>2, <1>5, <3>1, <3>2 DEF Unsent, InHand
    <3> DEFINE g == [k \in 0 .. 0 |-> left]
    <3>4. Behind(g)'
      BY <1>1, <1>2, <3>3 DEF Behind
    <3>5. scans'[i].got = 0 /\ scans'[i].found = left
      BY <1>5, <3>1, <3>2 DEF Tallied
    <3>6. scans'[i].got + InHand' + g[0] = scans'[i].found
      BY <3>3, <3>5
    <3> HIDE DEF g
    <3> QED
      BY <1>1, <1>5, <2>2, <3>1, <3>4, <3>6 DEF Tallied
  <2> QED
    BY <1>4, <2>1, <2>3 DEF Counted
<1>6. CASE scans' = [scans EXCEPT ![ev.scan].lost = TRUE] /\ report' = report
  <2>1. /\ Len(scans') = Len(scans) /\ Known' = Known
        /\ \A j \in Known : j # ev.scan => scans'[j] = scans[j]
        /\ scans'[ev.scan].max = scans[ev.scan].max
        /\ scans'[ev.scan].found = scans[ev.scan].found
        /\ scans'[ev.scan].got = scans[ev.scan].got
        /\ scans'[ev.scan].nulls = scans[ev.scan].nulls
        /\ scans'[ev.scan].lost = TRUE
    BY <1>3, <1>6, LostEffect DEF Known, ScanInv, ScanTypes
  <2>2. \A i \in Known' : Limited(i)' => Exact(i)'
    BY <2>1 DEF Counted, Limited, Exact, Everything
  <2>3. \A i \in Known' : ~Open(i)'
    BY <1>3, <2>1 DEF Open
  <2> QED
    BY <1>4, <2>2, <2>3 DEF Counted
<1> QED
  BY <1>5, <1>6 DEF EvScanDone

LEMMA TallyResult ==
  ASSUME ScanInv, Waiting, Counted, EvResult
  PROVE  Counted'
<1>1. /\ UNCHANGED <<pc, arg, maxBss, scanning, report, events>> /\ resCnt' = resCnt + 1
      /\ ev.pc = "results" /\ ev.n > 0 /\ ~LimitReached
  BY DEF EvResult, appvars, fw
<1>2. /\ scanCb \in Callbacks /\ Deliver(ev.scan) /\ ev'.pc = ev.pc /\ ev'.scan = ev.scan
      /\ ev'.n = ev.n - 1 /\ ev'.limit = ev.limit
  BY ResultDelivered
<1>3. ev.scan \in Known /\ Open(ev.scan) /\ \A i \in Known : Open(i) => i = ev.scan
  BY <1>1, InHandIsLast
<1>4. /\ Len(scans') = Len(scans) /\ Known' = Known
      /\ \A j \in Known : j # ev.scan => scans'[j] = scans[j]
      /\ scans'[ev.scan].max = scans[ev.scan].max
      /\ scans'[ev.scan].found = scans[ev.scan].found
      /\ scans'[ev.scan].got = scans[ev.scan].got + 1
      /\ scans'[ev.scan].nulls = scans[ev.scan].nulls
      /\ scans'[ev.scan].lost = scans[ev.scan].lost
  BY <1>2, <1>3, DeliverEffect DEF Known, ScanInv, ScanTypes
<1>5. PICK j \in Known : j = ev.scan
  BY <1>3
<1>6. Prepared' /\ Alone'
  <2>1. pc # "command"
    BY <1>3 DEF Waiting, Awaited
  <2> QED
    BY <1>1, <1>2, <2>1 DEF Counted, Prepared, Alone
<1>7. Limited(j)' => Exact(j)' /\ Tallied(j)'
  <2> SUFFICES ASSUME Limited(j) PROVE Exact(j)' /\ Tallied(j)'
    BY <1>4, <1>5 DEF Limited
  <2>1. ~Announced /\ Exact(j) /\ Tallied(j) /\ ~Full(j) /\ ev.n \in Nat
    BY <1>1, <1>5, ResultsTally
  <2>2. /\ ScanLimit(scans[j].max) \in Nat /\ scans[j].found \in Nat /\ scans[j].got \in Nat
    BY Limits
  <2>3. PICK f : Behind(f) /\ scans[j].got + InHand + f[0] = scans[j].found
    BY <2>1 DEF Tallied
  <2>4. f[0] \in Nat
    <3>1. Len(events) \in Nat
      BY DEF ScanInv, ScanTypes
    <3>2. f \in [0 .. Len(events) -> 0 .. MaxFound]
      BY <2>3 DEF Behind
    <3> QED
      BY <3>1, <3>2, LibAssumption DEF LibAssumption
  <2>5. InHand = ev.n /\ InHand' = ev.n - 1
    BY <1>1, <1>2 DEF InHand
  <2>6. scans[j].got + 1 <= Everything(j)
    <3>1. scans[j].got + 1 <= scans[j].found
      BY <1>1, <2>1, <2>2, <2>3, <2>4, <2>5
    <3>2. ScanLimit(scans[j].max) = 0 \/ scans[j].got + 1 <= ScanLimit(scans[j].max)
      BY <2>1, <2>2 DEF Full
    <3> QED
      BY <2>2, <3>1, <3>2 DEF Everything, Bounded
  <2>7. Exact(j)'
    BY <1>3, <1>4, <1>5, <2>6 DEF Exact, Everything, Open
  <2>8. ~Announced'
    BY <1>1, <1>2, <2>1 DEF Announced
  <2>9. Behind(f)'
    <3>1. events' = events /\ Unsent' = Unsent
      BY <1>1 DEF Unsent
    <3> QED
      BY <2>3, <3>1 DEF Behind
  <2>10. scans'[j].got + InHand' + f[0] = scans'[j].found
    <3>1. scans'[j].got = scans[j].got + 1 /\ scans'[j].found = scans[j].found
      BY <1>4, <1>5
    <3> QED
      BY <2>1, <2>2, <2>3, <2>4, <2>5, <3>1
  <2>11. /\ maxBss' = scans'[j].max /\ resCnt' = scans'[j].got
         /\ ev'.pc = "results" => ev'.limit = ScanLimit(scans'[j].max)
    BY <1>1, <1>2, <1>4, <1>5, <2>1 DEF Tallied
  <2> QED
    BY <2>7, <2>8, <2>9, <2>10, <2>11 DEF Tallied
<1>8. \A i \in Known' : Limited(i)' => Exact(i)'
  BY <1>4, <1>5, <1>7 DEF Counted, Limited, Exact, Everything
<1>9. \A i \in Known' : Open(i)' /\ Limited(i)' => Tallied(i)'
  BY <1>3, <1>4, <1>5, <1>7 DEF Open
<1> QED
  BY <1>6, <1>8, <1>9 DEF Counted

LEMMA TallyEnd ==
  ASSUME ScanInv, Waiting, Counted, EvEnd
  PROVE  Counted'
<1>1. /\ UNCHANGED <<pc, arg, maxBss, resCnt, scanning, report, events>>
      /\ ev.pc = "results" /\ (ev.n = 0 \/ LimitReached) /\ (ev.more => scans' = scans)
  BY DEF EvEnd, appvars, fw
<1>2. scanCb \in Callbacks /\ ev'.pc = "idle" /\ (ev.more \/ FinalCall(ev.scan))
  BY EventEnded
<1>3. ev.scan \in Known /\ Open(ev.scan) /\ \A i \in Known : Open(i) => i = ev.scan
  BY <1>1, InHandIsLast
<1>4. Prepared' /\ Alone'
  BY <1>1, <1>2 DEF Counted, Prepared, Alone
<1>5. CASE ev.more
  <2>1. Known' = Known /\ scans' = scans /\ \A i \in Known' : Limited(i)' => Exact(i)'
    BY <1>1, <1>5 DEF Counted, Known, Limited, Exact, Everything
  <2>2. ASSUME NEW i \in Known', Open(i)', Limited(i)' PROVE Tallied(i)'
    <3>1. i = ev.scan /\ i \in Known /\ Limited(i)
      BY <1>3, <2>1, <2>2 DEF Open, Limited
    <3>2. ~Announced /\ Tallied(i) /\ (Full(i) = LimitReached)
      BY <1>1, <3>1, ResultsTally
    <3>3. ~Announced'
      BY <1>1, <1>2, <3>2 DEF Announced
    <3>4. PICK f : Behind(f) /\ (Full(i) \/ scans[i].got + InHand + f[0] = scans[i].found)
      BY <3>2 DEF Tallied
    <3>5. Behind(f)'
      BY <1>1, <3>4 DEF Behind, Unsent
    <3>6. InHand' = 0 /\ (InHand = 0 \/ Full(i))
      BY <1>1, <1>2, <3>2 DEF InHand
    <3>7. Full(i)' \/ scans'[i].got + InHand' + f[0] = scans'[i].found
      BY <2>1, <3>4, <3>6 DEF Full
    <3> QED
      BY <1>1, <1>2, <2>1, <3>2, <3>3, <3>5, <3>7 DEF Tallied
  <2> QED
    BY <1>4, <2>1, <2>2 DEF Counted
<1>6. CASE ~ev.more
  <2>1. events = <<>> /\ report = <<>> /\ scanning = <<>>
    BY <1>1, <1>6 DEF Waiting, InOrder
  <2>2. /\ Len(scans') = Len(scans) /\ Known' = Known
        /\ \A j \in Known : j # ev.scan => scans'[j] = scans[j]
        /\ scans'[ev.scan].max = scans[ev.scan].max
        /\ scans'[ev.scan].found = scans[ev.scan].found
        /\ scans'[ev.scan].got = scans[ev.scan].got
        /\ scans'[ev.scan].nulls = 1
    BY <1>2, <1>3, <1>6, FinalEffect, ScanFields DEF Open, Known, ScanInv, ScanTypes
  <2>3. PICK j \in Known : j = ev.scan
    BY <1>3
  <2>4. Limited(j)' => Exact(j)'
    <3> SUFFICES ASSUME Limited(j) PROVE Exact(j)'
      BY <2>2, <2>3 DEF Limited
    <3>1. ~Announced /\ Exact(j) /\ Tallied(j) /\ (Full(j) = LimitReached)
      BY <1>1, <2>3, ResultsTally
    <3>2. /\ ScanLimit(scans[j].max) \in Nat /\ scans[j].found \in Nat /\ scans[j].got \in Nat
      BY Limits
    <3>3. PICK f : Behind(f) /\ (Full(j) \/ scans[j].got + InHand + f[0] = scans[j].found)
      BY <3>1 DEF Tallied
    <3>4. f[0] = 0
      BY <2>1, <3>3 DEF Behind, Unsent
    <3>5. CASE Full(j)
      <4>1. scans[j].got = Everything(j)
        BY <3>1, <3>2, <3>5 DEF Exact, Full, Everything, Bounded
      <4> QED
        BY <2>2, <2>3, <4>1, <3>2 DEF Exact, Everything
    <3>6. CASE ~Full(j)
      <4>1. InHand = 0
        BY <1>1, <3>1, <3>6 DEF InHand
      <4>2. scans[j].got = scans[j].found
        BY <3>2, <3>3, <3>4, <3>6, <4>1
      <4>3. scans[j].got = Everything(j)
        BY <3>2, <3>6, <4>2 DEF Full, Everything, Bounded
      <4> QED
        BY <2>2, <2>3, <4>3, <3>2 DEF Exact, Everything
    <3> QED
      BY <3>5, <3>6
  <2>5. \A i \in Known' : Limited(i)' => Exact(i)'
    BY <2>2, <2>3, <2>4 DEF Counted, Limited, Exact, Everything
  <2>6. \A i \in Known' : ~Open(i)'
    BY <1>3, <2>2 DEF Open
  <2> QED
    BY <1>4, <2>5, <2>6 DEF Counted
<1> QED
  BY <1>5, <1>6

LEMMA TallyUnchanged ==
  ASSUME Counted, UNCHANGED vars
  PROVE  Counted'
  BY DEF vars, appvars, vif, fw, Known, Counted, Prepared, Alone, Open, Limited, Exact,
         Everything, Tallied, Announced, Full, Unsent, InHand, Behind

LEMMA TallyNext == DevInv /\ ScanInv /\ Pipe /\ Tally /\ [Next]_vars => Tally'
<1> SUFFICES ASSUME DevInv, ScanInv, Pipe, Tally, [Next]_vars, ~overlapped' PROVE Counted'
  BY DEF Tally
<1>1. ASSUME NEW m \in Modes, InitCall(m) \/ DeinitCall(m) \/ RegCall(m) PROVE Counted'
  <2>1. ~overlapped
    BY <1>1, UnfinishedBool DEF InitCall, DeinitCall, RegCall, ScanInv, ScanTypes
  <2> QED
    BY <1>1, <2>1, TallyCalls DEF Tally
<1>2. ASSUME NEW c \in Callbacks, NEW x \in Params, ScanCall(c, x) PROVE Counted'
  <2>1. ~overlapped
    BY <1>2 DEF ScanCall
  <2> QED
    BY <1>2, <2>1, TallyScanCall DEF Tally, Pipe
<1>3. CASE Unhurried
  <2>1. ~overlapped
    BY <1>3, QuietSteps
  <2> QED
    BY <1>3, <2>1, TallySteps DEF Tally, Pipe
<1>4. CASE ScanParams \/ ScanCommand
  <2>1. ~overlapped
    BY <1>4 DEF ScanParams, ScanCommand
  <2> QED
    BY <1>4, <2>1, TallyParams, TallyCommand DEF Tally, Pipe
<1>5. CASE FwScanDone \/ FwResults
  <2>1. ~overlapped
    BY <1>5 DEF FwScanDone, FwResults
  <2> QED
    BY <1>5, <2>1, TallyScanDone, TallyResults DEF Tally, Pipe
<1>6. CASE Handler
  <2>1. ~overlapped
    BY <1>6 DEF Handler, EvTake, EvScanDone, EvResult, EvEnd
  <2> QED
    BY <1>6, <2>1, TallyTake, TallyAsk, TallyResult, TallyEnd DEF Handler, Tally, Pipe
<1>7. CASE UNCHANGED vars
  <2>1. ~overlapped
    BY <1>7 DEF vars
  <2> QED
    BY <1>7, <2>1, TallyUnchanged DEF Tally
<1> QED
  BY <1>1, <1>2, <1>3, <1>4, <1>5, <1>6, <1>7 DEF Next, Calls, Application, Unhurried

LEMMA TallyInvariance == Spec => []Tally
<1>1. Init => DevInv /\ ScanInv /\ Pipe /\ Tally
  BY DevInit, ScanInit, PipeInit, TallyInit
<1>2. /\ DevInv /\ ScanInv /\ Pipe /\ Tally /\ [Next]_vars
      => (DevInv /\ ScanInv /\ Pipe /\ Tally)'
  BY DevNext, ScanNext, PipeNext, TallyNext
<1> QED
  BY <1>1, <1>2, PTL DEF Spec

---------------------------------------------------------------------------
(* The theorems.                                                           *)

(* The variables keep their types, for any callbacks, scan parameters and  *)
(* bounds; in particular every event, result and report refers to a scan   *)
(* that was accepted.                                                      *)
THEOREM TypeCorrect == Spec => []TypeOK
<1>1. ASSUME DevInv, ScanInv PROVE TypeOK
  <2>1. Known \subseteq ScanId
    BY <1>1, KnownIds
  <2>2. scanning \in Seq(ScanId)
    BY <1>1, <2>1, SeqOfMore DEF ScanInv, ScanTypes
  <2>3. report \in Seq([scan : ScanId, left : 0..MaxFound])
    <3>1. ReportOf(Known) \subseteq [scan : ScanId, left : 0..MaxFound]
      BY <2>1 DEF ReportOf
    <3>2. report \in Seq(ReportOf(Known))
      BY <1>1 DEF ScanInv, ScanTypes
    <3> QED
      BY <3>1, <3>2, SeqOfMore
  <2>4. events \in Seq(Event)
    <3>1. EventOf(Known) \subseteq Event
      BY <2>1 DEF EventOf, Event
    <3>2. events \in Seq(EventOf(Known))
      BY <1>1 DEF ScanInv, ScanTypes
    <3> QED
      BY <3>1, <3>2, SeqOfMore
  <2> QED
    BY <1>1, <2>2, <2>3, <2>4 DEF TypeOK, DevInv, DevTypes, ScanInv, ScanTypes
<1> QED
  BY <1>1, Invariance, PTL

(* Between calls the library holds what its return values said: whichever  *)
(* step of an init fails (nrf70_bm_core.c), no device and no context is    *)
(* left but on the one path that returns early.                            *)
THEOREM CallsSettle == Spec => []Settled
  BY Invariance, DevSettled, PTL

(* No request of the application's thread is made with an rpu_ctx that was *)
(* never added or is removed, nor does the scan-done handler make one as   *)
(* long as the application waits for the end of its scan.                  *)
THEOREM RequestsReachDevice == Spec => []LiveRequests
<1>1. ASSUME DevInv, ScanInv, Pipe PROVE LiveRequests
  <2>1. At("params") \/ pc \in RequestPCs => rpu[mode] \in added
    BY <1>1, DevRequests
  <2>2. ASSUME ev.pc = "done", ~overlapped PROVE rpu["sys"] \in added
    <3>1. ev.scan \in Known /\ Open(ev.scan)
      BY <1>1, <2>2 DEF ScanInv, ScanTypes, Pipe, Waiting, InFlight
    <3>2. Up
      BY <1>1, <2>2, <3>1 DEF Pipe, Waiting, Awaited
    <3> QED
      BY <1>1, <3>2, UpState
  <2> QED
    BY <2>1, <2>2 DEF LiveRequests
<1> QED
  BY <1>1, Invariance, PTL

(* While the application waits for the NULL of its scan before it starts   *)
(* the next one, the results and the NULL of a scan go to the callback of  *)
(* its own nrf70_bm_sys_scan_start.                                        *)
THEOREM CallbackIsOwn == Spec => []OwnCallback
<1>1. Pipe => OwnCallback
  BY DEF Pipe, Waiting, Own, OwnCallback, Known
<1> QED
  BY <1>1, Invariance, PTL

(* While the application waits for the NULL of its scan before it starts   *)
(* the next one, a scan with parameters delivers every network found up to *)
(* its max_bss_cnt, none beyond, and then NULL once (nrf70_bm_lib.h:       *)
(* 157-163, 238-240), however the results are split over events.           *)
THEOREM ResultsAreExact == Spec => []ExactResults
<1>1. Tally => ExactResults
  BY DEF Tally, Counted, Exact, Limited, Everything, ExactResults, Known
<1> QED
  BY <1>1, TallyInvariance, PTL
=============================================================================
