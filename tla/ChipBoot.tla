------------------------------ MODULE ChipBoot ------------------------------
(***************************************************************************)
(* The diagnostic window of the chip (driver_diag.c) and what the driver   *)
(* task does through it: the boot parameters (Driver_BootComm), the dump   *)
(* of a crashed target, and the programming of the MAC address or the      *)
(* country code, for which the chip is restarted twice.  User tasks ask    *)
(* for the last three through asynchRequest.                               *)
(*                                                                         *)
(* An operation of the driver task is a sequence of steps; a step through  *)
(* the window is a sequence of bus accesses.  Words are strings.  The      *)
(* users run only while the driver task sleeps.                            *)
(***************************************************************************)
EXTENDS Integers, Sequences, FiniteSets

CONSTANTS
  Users,
  BootMode,            \* the mode in ar4XXX_boot_param
  MaxTries,            \* the 100 reads of the device's answer
  Settings             \* of the build and of what happens: a set of records

ASSUME ChipAssumption ==
  /\ BootMode \in {"NORMAL", "BMI"} /\ MaxTries \in Nat \ {0}
  /\ \A s \in Settings :
       /\ s.target \in {"AR4100_REV2", "AR400X_REV1"}
       /\ s.devices \in {1, 2} /\ s.most \in 0 .. 3

VARIABLES
  drv,        \* the driver task: what it runs, the steps and accesses left
  win,        \* the window registers of the chip
  mem,        \* the words of the chip's memory that the driver knows of
  chip,       \* the chip: where it is, its scratch registers, what it keeps
  cxt,        \* of the driver context: asynchRequest, reqBssid, ...
  user,       \* the user tasks
  calls
vars == <<drv, win, mem, chip, cxt, user, calls>>

\* The setting, which a behaviour keeps in cxt.
Target == cxt.set.target          \* ATH_FIRMWARE_TARGET
NumDevices == cxt.set.devices     \* WLAN_NUM_OF_DEVICES
Calls == cxt.set.calls            \* which user makes which call
MaxCalls == cxt.set.most          \* bound: calls in all
Happens == cxt.set.happens        \* what may go wrong, see the actions

-----------------------------------------------------------------------------
\* Addresses, least significant byte first (targaddrs.h, AR4100).
AddressOf ==
  [hi_failure_state    |-> <<4, 6, 20, 0>>,
   hi_flash_is_present |-> <<12, 6, 20, 0>>,
   hi_option_flag      |-> <<16, 6, 20, 0>>,
   hi_refclk_hz        |-> <<120, 6, 20, 0>>,
   hi_reset_flag       |-> <<180, 6, 20, 0>>,
   hi_reset_flag_valid |-> <<184, 6, 20, 0>>,
   hi_pwr_save_flags   |-> <<240, 6, 20, 0>>,
   hi_option_flag3     |-> <<24, 7, 20, 0>>,
   nvram_sample        |-> <<12, 7, 20, 0>>,
   configfound         |-> <<32, 7, 20, 0>>,
   dump1               |-> <<0, 16, 20, 0>>,
   dump2               |-> <<4, 16, 20, 0>>,
   reset_control       |-> <<0, 64, 0, 0>>,
   nothing             |-> <<0, 0, 0, 0>>]
Items == DOMAIN AddressOf
HostInterest == Items \ {"nvram_sample", "configfound", "dump1", "dump2",
                         "reset_control", "nothing"}
ItemAt(addr) == IF \E i \in Items : AddressOf[i] = addr
                THEN CHOOSE i \in Items : AddressOf[i] = addr ELSE "nothing"

Zero == <<"0", "0">>
NoMac == <<"none", "none">>
Values == <<"v1", "v2", "v3">>
Codes == {"1", "2", "4"}

\* The value that a call asks for, and an address made of it.
Mac(v) == <<v, v>>
NoUser == [at |-> "idle", call |-> "none", result |-> "none", v |-> "none"]

\* The steps of an operation.
Poll(i, v) == [op |-> "poll", item |-> i, val |-> v]
Read(i) == [op |-> "read", item |-> i, val |-> "0"]
Dump(i) == [op |-> "dump", item |-> i, val |-> "0"]
Write(i, v) == [op |-> "write", item |-> i, val |-> v]
Do(what) == [op |-> what, item |-> "nothing", val |-> "0"]
IsDiag(s) == s.op \in {"poll", "read", "dump", "write"}

-----------------------------------------------------------------------------
\* The upper bytes of the address, and the lowest, which starts the access.
Driver_SetAddressWindowRegister(reg) ==
  <<<<reg, 2>>, <<reg, 3>>, <<reg, 4>>, <<reg, 1>>>>

Driver_ReadRegDiag ==
  Driver_SetAddressWindowRegister("WINDOW_READ_ADDR") \o <<<<"data_in", 0>>>>
Driver_WriteRegDiag ==
  <<<<"data_out", 0>>>> \o Driver_SetAddressWindowRegister("WINDOW_WRITE_ADDR")

Accesses(s) == CASE s.op \in {"poll", "read", "dump"} -> Driver_ReadRegDiag
                 [] s.op = "write" -> Driver_WriteRegDiag
                 [] OTHER -> <<>>

Goto(d, steps) ==
  [d EXCEPT !.ops = steps,
            !.acc = IF steps = <<>> THEN <<>> ELSE Accesses(Head(steps))]

\* Several words, one after the other.
Driver_ReadDataDiag(area) == [k \in DOMAIN area |-> Dump(area[k])]

-----------------------------------------------------------------------------
\* One pass of Driver_BootComm: wait for the boot ROM, set the parameters.
BootPass ==
  <<Poll("hi_refclk_hz", "CLK"), Write("hi_pwr_save_flags", "0x31"),
    Write("hi_flash_is_present", BootMode)>>
  \o (IF NumDevices = 1 THEN <<Write("hi_option_flag", "one")>>
      ELSE <<Write("hi_option_flag3", "p2p"), Write("hi_option_flag", "two")>>)
  \o <<Do("again")>>

\* Driver_TargReset up to its test, and the warm reset.
Driver_TargReset ==
  <<Poll("nvram_sample", "SAMPLE"), Read("configfound"), Do("found")>>

WarmReset ==
  <<Write("configfound", "NONE"), Write("hi_reset_flag", "PRESERVE"),
    Write("hi_reset_flag_valid", "VALID"), Write("hi_refclk_hz", "0"),
    Write("reset_control", "WARM"), Do("delay")>>

\* The restart that both passes of the programming begin with.
Restart == <<Do("down"), Do("delay"), Do("up"), Do("delay")>>

MUT_program_mac_addr ==
  Restart \o <<Poll("hi_refclk_hz", "CLK"), Do("scratch0"), Do("scratch1"),
               Do("delay"), Write("hi_flash_is_present", "MACPROG"),
               Do("answer"), Do("end")>>

program_mac_addr ==
  Restart \o <<Poll("hi_refclk_hz", "CLK"), Do("scratch0"), Do("scratch1"),
               Do("delay"), Write("hi_flash_is_present", "MACPROG"),
               Do("answer")>>
  \o Restart \o BootPass \o <<Do("end")>>

Program_CountryCode ==
  Restart \o <<Poll("hi_refclk_hz", "CLK"), Do("country"), Do("delay"),
               Write("hi_flash_is_present", "COUNTRY"), Do("answer")>>
  \o Restart \o BootPass \o <<Do("end")>>

Driver_DumpAssertInfo == <<Read("hi_failure_state"), Do("area"), Do("end")>>

Program(name) == CASE name = "mac" -> program_mac_addr
                   [] name = "country" -> Program_CountryCode
                   [] name = "dump" -> Driver_DumpAssertInfo

NoDriver == [run |-> "none", ops |-> <<>>, acc |-> <<>>, word |-> "0",
             pass |-> 0, tries |-> 0, got |-> <<>>]

Init ==
  /\ \E s \in Settings :
       cxt = [asynchRequest |-> "none", reqBssid |-> Zero, wmiReady |-> FALSE,
              macProgramming |-> FALSE, storge |-> "0", result |-> "0",
              set |-> s]
  /\ drv = Goto([NoDriver EXCEPT !.run = "boot"], BootPass \o <<Do("end")>>)
  /\ win = [read |-> <<0, 0, 0, 0>>, write |-> <<0, 0, 0, 0>>,
            data |-> "junk", hit |-> "nothing"]
  /\ mem = [i \in Items |-> "junk"]
  /\ chip = [at |-> "rom", ans |-> "0", a |-> "0", b |-> "0", mac |-> NoMac,
             country |-> "none", resets |-> 0, kept |-> TRUE, conf |-> TRUE]
  /\ user = [u \in Users |-> NoUser]
  /\ calls = 0

At(what) == drv.ops # <<>> /\ Head(drv.ops).op = what
Rest == Tail(drv.ops)

-----------------------------------------------------------------------------
\* What is in the buffer after the read port was emptied.  The status of that
\* transfer is replaced by the one of the access that follows it.
ReadDone ==
  {win.data} \union (IF "read" \in Happens THEN {drv.word} ELSE {})

\* A bus access of the driver task.
BusAccess ==
  /\ drv.acc # <<>>
  /\ LET s == Head(drv.ops)
         what == Head(drv.acc)[1]
         byte == Head(drv.acc)[2]
         Set(addr) == [addr EXCEPT ![byte] = AddressOf[s.item][byte]]
         r == ItemAt(Set(win.read))
         w == ItemAt(Set(win.write))
     IN \/ /\ what = "data_out"
           /\ win' = [win EXCEPT !.data = s.val]
           /\ drv' = [drv EXCEPT !.acc = Tail(@)]
           /\ UNCHANGED <<mem, chip>>
        \/ /\ what = "data_in"
           /\ \E word \in ReadDone :
                drv' = [drv EXCEPT !.acc = Tail(@), !.word = word]
           /\ UNCHANGED <<win, mem, chip>>
        \/ /\ what = "WINDOW_READ_ADDR"
           /\ win' = IF byte = 1
                     THEN [win EXCEPT !.read = Set(@), !.data = mem[r],
                                      !.hit = r]
                     ELSE [win EXCEPT !.read = Set(@)]
           /\ drv' = [drv EXCEPT !.acc = Tail(@)]
           /\ UNCHANGED <<mem, chip>>
        \/ /\ what = "WINDOW_WRITE_ADDR"
           /\ win' = [win EXCEPT !.write = Set(@),
                                 !.hit = IF byte = 1 THEN w ELSE @]
           /\ mem' = IF byte = 1 THEN [mem EXCEPT ![w] = win.data] ELSE mem
           /\ chip' = IF byte = 1 /\ w = "reset_control"
                      THEN [chip EXCEPT !.at = "rom", !.resets = @ + 1]
                      ELSE chip
           /\ drv' = [drv EXCEPT !.acc = Tail(@)]
  /\ UNCHANGED <<cxt, user, calls>>

\* An access fails, which is an A_ASSERT.
BusFails ==
  /\ "bus" \in Happens /\ drv.acc # <<>>
  /\ drv' = [drv EXCEPT !.run = "assert", !.acc = <<>>, !.ops = <<>>]
  /\ UNCHANGED <<win, mem, chip, cxt, user, calls>>

\* The end of a step through the window: the word read is tested or kept.
DiagEnds ==
  /\ drv.ops # <<>> /\ drv.acc = <<>> /\ IsDiag(Head(drv.ops))
  /\ LET s == Head(drv.ops)
     IN drv' = IF s.op = "poll" /\ drv.word # s.val THEN Goto(drv, drv.ops)
               ELSE IF s.op = "dump"
               THEN Goto([drv EXCEPT !.got = Append(@, drv.word)], Rest)
               ELSE Goto(drv, Rest)
  /\ UNCHANGED <<win, mem, chip, cxt, user, calls>>

\* The condition of the loop of Driver_BootComm.
Driver_BootComm ==
  /\ At("again")
  /\ drv' = [Goto(drv, (IF drv.pass < 1 /\ Target = "AR4100_REV2"
                            /\ BootMode = "NORMAL"
                        THEN Driver_TargReset ELSE <<>>) \o Rest)
             EXCEPT !.pass = @ + 1]
  /\ UNCHANGED <<win, mem, chip, cxt, user, calls>>

ConfigFound ==
  /\ At("found")
  /\ drv' = Goto(drv, (IF drv.word = "FOUND" THEN WarmReset \o BootPass
                       ELSE <<>>) \o Rest)
  /\ UNCHANGED <<win, mem, chip, cxt, user, calls>>

\* The pointer to the registers, and the registers.
DumpArea ==
  /\ At("area")
  /\ drv' = Goto(drv, (IF drv.word = "0" THEN <<>>
                       ELSE Driver_ReadDataDiag(<<"dump1", "dump2">>)) \o Rest)
  /\ UNCHANGED <<win, mem, chip, cxt, user, calls>>

\* HW_PowerUpDown, off and on, and what is reset with it.
PowerDown ==
  /\ At("down")
  /\ chip' = [chip EXCEPT !.at = "off", !.conf = FALSE, !.ans = "0",
                          !.a = "0", !.b = "0"]
  /\ cxt' = [cxt EXCEPT !.wmiReady = FALSE]
  /\ drv' = Goto(drv, Rest)
  /\ UNCHANGED <<win, mem, user, calls>>

PowerUp ==
  /\ At("up")
  /\ chip' = [chip EXCEPT !.at = "rom", !.resets = 0]
  /\ mem' = [i \in Items |-> "junk"]
  /\ drv' = [Goto(drv, Rest) EXCEPT !.pass = 0]
  /\ UNCHANGED <<win, cxt, user, calls>>

Delay ==
  /\ At("delay")
  /\ drv' = Goto(drv, Rest)
  /\ UNCHANGED <<win, mem, chip, cxt, user, calls>>

\* The address or code is written into the scratch registers.
WriteScratch ==
  /\ \/ /\ At("scratch0")
        /\ chip' = [chip EXCEPT !.ans = "0", !.a = cxt.reqBssid[1]]
     \/ /\ At("scratch1")
        /\ chip' = [chip EXCEPT !.b = cxt.reqBssid[2]]
     \/ /\ At("country")
        /\ chip' = [chip EXCEPT !.ans = "0", !.a = cxt.storge]
  /\ drv' = [Goto(drv, Rest) EXCEPT !.tries = 0]
  /\ UNCHANGED <<win, mem, cxt, user, calls>>

MUT_ReadAnswer ==
  /\ At("answer")
  /\ chip.ans # "0"
  /\ drv' = Goto([drv EXCEPT !.got = <<chip.ans>>], Rest)
  /\ UNCHANGED <<win, mem, chip, cxt, user, calls>>

\* The device's answer is read again and again, with a delay.
ReadAnswer ==
  /\ At("answer")
  /\ LET d == [drv EXCEPT !.word = chip.ans, !.tries = @ + 1]
     IN drv' = IF chip.ans # "0" \/ d.tries = MaxTries
               THEN Goto([d EXCEPT !.got = <<chip.ans>>], Rest) ELSE d
  /\ UNCHANGED <<win, mem, chip, cxt, user, calls>>

MUT_OperationEnds ==
  /\ At("end")
  /\ cxt' = CASE drv.run = "mac" ->
                   [cxt EXCEPT !.reqBssid[1] = drv.got[1],
                       !.asynchRequest = "none", !.macProgramming = FALSE]
              [] drv.run = "country" ->
                   [cxt EXCEPT !.result = IF drv.got[1] = "1" THEN "1" ELSE @,
                               !.asynchRequest = "none"]
              [] OTHER -> [cxt EXCEPT !.asynchRequest = "none"]
  /\ drv' = NoDriver
  /\ UNCHANGED <<win, mem, chip, user, calls>>

\* The end of each operation: its result, and asynchRequest cleared.
OperationEnds ==
  /\ At("end")
  /\ cxt' = CASE drv.run = "mac" ->
                   [cxt EXCEPT !.reqBssid[1] = drv.got[1],
                       !.asynchRequest = "none", !.macProgramming = FALSE]
              [] drv.run = "country" ->
                   [cxt EXCEPT !.result = drv.got[1],
                               !.asynchRequest = "none"]
              [] OTHER -> [cxt EXCEPT !.asynchRequest = "none"]
  /\ drv' = NoDriver
  /\ UNCHANGED <<win, mem, chip, user, calls>>

\* Driver_Main calls the request; the event of the target makes it ready.
Driver_Main ==
  /\ drv.run = "none"
  /\ \/ /\ cxt.asynchRequest # "none"
        /\ drv' = Goto([NoDriver EXCEPT !.run = cxt.asynchRequest],
                       Program(cxt.asynchRequest))
        /\ UNCHANGED cxt
     \/ /\ cxt.asynchRequest = "none" /\ chip.at = "wlan" /\ ~cxt.wmiReady
        /\ cxt' = [cxt EXCEPT !.wmiReady = TRUE]
        /\ UNCHANGED drv
  /\ UNCHANGED <<win, mem, chip, user, calls>>

\* Strrcl_Recall sleeps in the driver task with the chip off; then
\* asynchRequest is taken for the rest of the recall, and cleared by it
\* (StoreRecall).
Recall ==
  /\ "busy" \in Happens
  /\ \/ /\ drv.run = "none" /\ cxt.asynchRequest = "none" /\ cxt.wmiReady
        /\ drv' = [drv EXCEPT !.run = "busy"]
        /\ cxt' = [cxt EXCEPT !.wmiReady = FALSE]
     \/ /\ drv.run = "busy"
        /\ drv' = [drv EXCEPT !.run = "none"]
        /\ cxt' = [cxt EXCEPT !.asynchRequest = "none"]
  /\ UNCHANGED <<win, mem, chip, user, calls>>

-----------------------------------------------------------------------------
\* The chip.  The boot ROM prepares the host interest area, a reset flag
\* keeps the configuration that was found; then it announces the clock.
RomInit ==
  /\ chip.at = "rom"
  /\ LET keep == mem["hi_reset_flag_valid"] = "VALID"
                 /\ mem["hi_reset_flag"] = "PRESERVE"
     IN /\ mem' = [i \in Items |->
                     IF i \in HostInterest THEN "0"
                     ELSE IF i = "configfound" /\ ~keep THEN "junk" ELSE mem[i]]
        /\ chip' = [chip EXCEPT !.at = "init",
                                !.kept = chip.resets = 0 \/ keep]
  /\ UNCHANGED <<drv, win, cxt, user, calls>>

RomReady ==
  /\ chip.at = "init"
  /\ mem' = [mem EXCEPT !["hi_refclk_hz"] = "CLK",
                        !["hi_flash_is_present"] = "INIT"]
  /\ chip' = [chip EXCEPT !.at = "proxy"]
  /\ UNCHANGED <<drv, win, cxt, user, calls>>

ChipStarts ==
  /\ chip.at = "proxy"
  /\ \/ /\ mem["hi_flash_is_present"] \in {"NORMAL", "BMI"}
        /\ chip' = [chip EXCEPT !.at = "wlan"]
        /\ \E found \in IF chip.resets = 0 THEN {"FOUND", "NOTFOUND"}
                        ELSE {mem["configfound"]} :
             mem' = [mem EXCEPT !["configfound"] = found,
                                !["nvram_sample"] = "SAMPLE"]
     \/ /\ mem["hi_flash_is_present"] = "MACPROG"
        /\ chip' = [chip EXCEPT !.at = "mac"]
        /\ UNCHANGED mem
     \/ /\ mem["hi_flash_is_present"] = "COUNTRY"
        /\ chip' = [chip EXCEPT !.at = "country"]
        /\ UNCHANGED mem
  /\ UNCHANGED <<drv, win, cxt, user, calls>>

ChipPrograms ==
  /\ chip.at \in {"mac", "country"}
  /\ \/ \E code \in Codes :
          chip' = [chip EXCEPT
                     !.at = "done", !.ans = code,
                     !.mac = IF chip.at = "mac" /\ code = "1"
                             THEN <<chip.a, chip.b>> ELSE @,
                     !.country = IF chip.at = "country" /\ code = "1"
                                 THEN chip.a ELSE @]
     \/ /\ "mute" \in Happens
        /\ chip' = [chip EXCEPT !.at = "done"]
  /\ UNCHANGED <<drv, win, mem, cxt, user, calls>>

ChipCrashes ==
  /\ "crash" \in Happens /\ chip.at = "wlan" /\ cxt.wmiReady
  /\ chip' = [chip EXCEPT !.at = "crashed"]
  /\ mem' = [mem EXCEPT !["hi_failure_state"] = "AREA", !["dump1"] = "r1",
                        !["dump2"] = "r2"]
  /\ UNCHANGED <<drv, win, cxt, user, calls>>

-----------------------------------------------------------------------------
\* The users run while the driver task sleeps.
DriverSleeps ==
  \/ drv.run = "busy" \/ At("delay") \/ At("answer")
  \/ drv.run = "none" /\ cxt.asynchRequest = "none"

UserTo(u, place) == user' = [user EXCEPT ![u].at = place]

\* A call of ATH_PROGRAM_MAC_ADDR, ATH_PROGRAM_COUNTRY_CODE or
\* ATH_ASSERT_DUMP, each with a value of its own; Custom_Api_Mediactl lets it
\* in when the target is ready.
Call(u) ==
  /\ user[u].at = "idle" /\ DriverSleeps /\ calls < MaxCalls /\ cxt.wmiReady
  /\ \E c \in {"mac", "country", "dump"} :
       /\ <<u, c>> \in Calls
       /\ user' = [user EXCEPT ![u] = [at |-> "check", call |-> c,
                       result |-> "DRIVER_FAILED", v |-> Values[calls + 1]]]
  /\ calls' = calls + 1
  /\ UNCHANGED <<drv, win, mem, chip, cxt>>

\* The tests of the call, after the driver was let in: no store-recall is
\* under way, no request is pending, the length is right ("length").
Check(u) ==
  /\ user[u].at = "check" /\ DriverSleeps
  /\ \/ /\ drv.run # "busy" /\ cxt.asynchRequest = "none"
        /\ UserTo(u, IF user[u].call = "dump" THEN "post" ELSE "store")
     \/ /\ \/ drv.run = "busy" \/ cxt.asynchRequest # "none"
           \/ "length" \in Happens
        /\ UserTo(u, IF user[u].call = "dump" THEN "idle" ELSE "zero")
  /\ UNCHANGED <<drv, win, mem, chip, cxt, calls>>

\* reqBssid or countryCode_storge is set for the driver task, then the
\* request, and the driver task is woken.
Store(u) ==
  /\ user[u].at = "store" /\ DriverSleeps
  /\ cxt' = IF user[u].call = "mac"
            THEN [cxt EXCEPT !.reqBssid = Mac(user[u].v), !.macProgramming = TRUE]
            ELSE [cxt EXCEPT !.storge = user[u].v]
  /\ UserTo(u, "post")
  /\ UNCHANGED <<drv, win, mem, chip, calls>>

Post(u) ==
  /\ user[u].at = "post" /\ DriverSleeps
  /\ cxt' = [cxt EXCEPT !.asynchRequest = user[u].call]
  /\ UserTo(u, IF user[u].call = "dump" THEN "idle" ELSE "wait")
  /\ UNCHANGED <<drv, win, mem, chip, calls>>

\* The waits: for macProgramming, or for a local that nobody changes, which
\* always takes its 5 seconds; by then the driver task is done, or asleep in
\* Strrcl_Recall.
Wait(u) ==
  /\ user[u].at = "wait" /\ DriverSleeps
  /\ \/ /\ user[u].call = "mac" /\ ~cxt.macProgramming
        /\ UserTo(u, "result")
     \/ /\ user[u].call = "mac" /\ cxt.macProgramming
        /\ drv.run \in {"busy", "none"}
        /\ UserTo(u, "zero")
     \/ /\ user[u].call = "country" /\ drv.run \in {"busy", "none"}
        /\ UserTo(u, "result")
  /\ UNCHANGED <<drv, win, mem, chip, cxt, calls>>

\* The answer of the device as the result of the call.
MacResult(code) == CASE code = "1" -> "SUCCESS" [] code = "2" -> "DEV_FAILED"
                     [] code = "4" -> "DEV_DENIED" [] OTHER -> "DRIVER_FAILED"
CountryResult(code) ==
  CASE code = "1" -> "SUCCESS" [] code = "2" -> "DEV_DENIED"
    [] code = "4" -> "DEV_FAILED" [] OTHER -> "DRIVER_FAILED"

Api_ProgramMacAddress(u) ==
  /\ user[u].call = "mac"
  /\ user' = [user EXCEPT ![u].at = "finish",
                          ![u].result = MacResult(cxt.reqBssid[1])]

Api_ProgramCountryCode(u) ==
  /\ user[u].call = "country"
  /\ user' = [user EXCEPT ![u].at = "finish",
                          ![u].result = CountryResult(cxt.result)]

Result(u) ==
  /\ user[u].at = "result" /\ DriverSleeps
  /\ Api_ProgramMacAddress(u) \/ Api_ProgramCountryCode(u)
  /\ UNCHANGED <<drv, win, mem, chip, cxt, calls>>

\* Api_InitFinish waits for the target, Api_WMIInitFinish configures it.
Finish(u) ==
  /\ user[u].at = "finish" /\ DriverSleeps
  /\ cxt.wmiReady \/ drv.run = "busy"
  /\ chip' = [chip EXCEPT !.conf = @ \/ chip.at = "wlan"]
  /\ UserTo(u, "zero")
  /\ UNCHANGED <<drv, win, mem, cxt, calls>>

\* reqBssid is cleared on every path.
Return(u) ==
  /\ user[u].at = "zero" /\ DriverSleeps
  /\ cxt' = [cxt EXCEPT !.reqBssid = Zero]
  /\ UserTo(u, "idle")
  /\ UNCHANGED <<drv, win, mem, chip, calls>>

-----------------------------------------------------------------------------
DriverStep == BusAccess \/ DiagEnds \/ Driver_BootComm \/ ConfigFound
              \/ DumpArea \/ PowerDown \/ PowerUp \/ Delay \/ WriteScratch
              \/ ReadAnswer \/ OperationEnds \/ Driver_Main
ChipStep == RomInit \/ RomReady \/ ChipStarts \/ ChipPrograms
UserStep(u) == Check(u) \/ Store(u) \/ Post(u) \/ Wait(u) \/ Result(u)
               \/ Finish(u) \/ Return(u)

Next == \/ DriverStep \/ ChipStep \/ BusFails \/ Recall \/ ChipCrashes
        \/ \E u \in Users : Call(u) \/ UserStep(u)

Spec == Init /\ [][Next]_vars

\* The tasks run when they can, and the chip goes on: its ROM ends.
FairSpec == /\ Spec /\ WF_vars(DriverStep) /\ WF_vars(ChipStep)
            /\ \A u \in Users : WF_vars(UserStep(u))

-----------------------------------------------------------------------------
AllIdle == \A u \in Users : user[u].at = "idle"

(* Addresses and words are those of the program, a request is one that     *)
(* Driver_Main can call, and a result is an answer of the device.          *)
TypeOK ==
  /\ DOMAIN mem = Items /\ win.hit \in Items
  /\ drv.run \in {"none", "boot", "mac", "country", "dump", "busy", "assert"}
  /\ drv.acc # <<>> => drv.ops # <<>> /\ IsDiag(Head(drv.ops))
  /\ cxt.asynchRequest \in {"none", "mac", "country", "dump"}
  /\ cxt.result \in Codes \cup {"0"}
  /\ chip.resets \in 0 .. 2

(* "The LSB is written last to initiate the access cycle"                  *)
(* (driver_diag.c): whatever address the window held before, the word the  *)
(* chip reads or writes is the one the driver means.                       *)
WindowExact ==
  (drv.ops # <<>> /\ drv.acc = <<>> /\ IsDiag(Head(drv.ops)))
    => win.hit = Head(drv.ops).item

(* When the driver is done with the boot, also the one after a programming *)
(* or a warm reset, the chip has its parameters: the boot ROM has not      *)
(* overwritten what Driver_BootComm wrote, and will not.                   *)
ParamsStand ==
  drv.run = "none" =>
    /\ chip.at \in {"proxy", "wlan", "crashed"}
    /\ mem["hi_pwr_save_flags"] = "0x31"
    /\ mem["hi_flash_is_present"] = BootMode
    /\ mem["hi_option_flag"] = IF NumDevices = 1 THEN "one" ELSE "two"

(* Driver_TargReset resets the chip once a boot, and when "firmware" is    *)
(* set up "so that it can discover the nvram config structure": the flag   *)
(* that keeps the configuration is valid when the chip comes up.           *)
ResetKeepsConfig == chip.resets <= 1 /\ chip.kept

\* At most one user programs the device; another may ask for a dump.
OneProgrammer ==
  Cardinality({c[1] : c \in {d \in Calls : d[2] # "dump"}}) <= 1

(* "the program_mac_addr function will retrieve this value for use in the  *)
(* operation" (api_ioctl.c): an address that is programmed is one a call   *)
(* gave, never zero, an answer or parts of two.                            *)
AskedIsProgrammed ==
  chip.mac = NoMac \/ \E k \in 1 .. calls : chip.mac = Mac(Values[k])

(* That holds as long as one user at most programs the device, whatever    *)
(* else it calls: reqBssid has one place, which the call stores into after *)
(* it tested asynchRequest, and which a call that is refused clears.       *)
ProgrammedIsAsked == OneProgrammer => AskedIsProgrammed

(* A call returns SUCCESS only when the value of this call is in the       *)
(* device ("successfully programmed", atheros_wifi_api.h), as long as no   *)
(* other call came later and no other user programs the device.            *)
SuccessIsTrue ==
  \A u \in Users :
    (/\ OneProgrammer
     /\ user[u].at = "idle" /\ user[u].result = "SUCCESS"
     /\ user[u].v = Values[calls]) =>
      IF user[u].call = "mac" THEN chip.mac = Mac(user[u].v)
      ELSE chip.country = user[u].v

(* Api_WMIInitFinish sends the default commands to the target: when no     *)
(* call is under way the chip that was restarted is configured again,      *)
(* whatever the result was, unless it crashed.                             *)
Configured ==
  (AllIdle /\ drv.run = "none" /\ cxt.asynchRequest = "none")
    => chip.conf \/ chip.at = "crashed"

(* Driver_DumpAssertInfo collects the registers of the crashed target, one *)
(* after the other, or none when it had not crashed.                       *)
DumpExact == (drv.run = "dump" /\ At("end"))
               => drv.got \in {<<>>, <<"r1", "r2">>}

Steady == Happens \subseteq {"mute"}
(* Every operation of the driver task comes to its end on a bus that works *)
(* and a chip that does not crash, also when the device does not answer.   *)
OperationsEnd ==
  (Steady /\ drv.run # "none") ~> drv.run = "none"

(* Every call returns, also when the device does not answer.               *)
CallsReturn ==
  \A u \in Users : (Steady /\ user[u].at # "idle") ~> user[u].at = "idle"

(***************************************************************************)
(* The chip is driven as the register description asks: window accesses    *)
(* hit their address, the boot parameters stand once the ROM is done, the  *)
(* reset flag holds, and a dump shows the chip's memory.                   *)
(***************************************************************************)
ChipAsAsked ==
  TypeOK /\ WindowExact /\ ParamsStand /\ ResetKeepsConfig /\ DumpExact

(***************************************************************************)
(* A programming that is reported successful has programmed the value its  *)
(* caller gave, where one user programs the device, and with any number of *)
(* them it leaves the chip configured again.                               *)
(***************************************************************************)
ProgrammingTrue == ProgrammedIsAsked /\ SuccessIsTrue /\ Configured

(***************************************************************************)
(* An operation of the driver task on the chip ends and the call for it    *)
(* returns.                                                                *)
(***************************************************************************)
CallsEnd == OperationsEnd /\ CallsReturn
=============================================================================
