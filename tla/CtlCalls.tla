------------------------------ MODULE CtlCalls ------------------------------
(***************************************************************************)
(* The control interface as a table of programs.  An application call      *)
(* (common_src/qapi/qcom_api.c) names a device and becomes an ioctl        *)
(* (custom_src/api_interface/cust_api_ioctl.c): it writes driver state,    *)
(* sends WMI commands and, if they have an answer, waits for the flag that *)
(* the event's handler (common_src/api_interface/api_wmi_rx.c), run by the *)
(* driver task, will change.  Calls and handlers are sequences of the      *)
(* instructions below, in the order of the code; CtlApi runs them, and     *)
(* tasks preempt each other between any two.  Arguments that are only      *)
(* copied into a command are left out.                                     *)
(***************************************************************************)
EXTENDS Integers, Sequences

I(op, arg, val) == [op |-> op, arg |-> arg, val |-> val]

(***************************************************************************)
(* Instructions that may fail: how the caller is told ("error", "any" for  *)
(* an uninitialised result, or not at all, "drop") and how many of the     *)
(* following instructions are skipped.                                     *)
(***************************************************************************)
End == 99
Fails(op, arg, val, report, skip) ==
  [op |-> op, arg |-> arg, val |-> val, report |-> report, skip |-> skip]

\* wmi_cmd_start
Send(cmd)       == Fails("send", cmd, "", "error", End)
TrySend(cmd)    == Fails("send", cmd, "", "drop", 0)
\* f = v, or parameters that are not modelled are valid.
Need(f, v)      == Fails("need", f, v, "error", End)
Check           == Fails("check", "", "", "error", End)
\* Api_DriverAccessCheck, and ATH_SET_DEVICE_ID.
Access          == I("awaitever", "strrclBlock", FALSE)
Device          == Fails("device", "call", 0, "error", End)
DeviceIs(d)     == Fails("device", "this", d, "error", End)
\* Driver state; DeviceFlags are of a device, conn[devId].
Set(f, v)       == I("set", f, v)
DeviceFlags     == {"ssid", "isConnected", "isConnectPending", "wpaPmkValid"}
\* DRIVER_WAIT_FOR_CONDITION, once or in a loop.
Await(f, v)     == I("await", f, v)
AwaitEver(f, v) == I("awaitever", f, v)
\* Skip n instructions if f, unless f, or by data that is not modelled.
SkipIf(f, n)    == I("skip", f, <<TRUE, n>>)
SkipUnless(f, n) == I("skip", f, <<FALSE, n>>)
Maybe(n)        == I("maybe", "", n)
Jump(n)         == I("jump", "", n)
\* Results: a handler writes place p, a call reads it.
Put(p, kind)    == I("put", p, kind)
Take(p, kind)   == I("take", p, kind)
\* DRIVER_WAKE_USER and DRIVER_WAKE_DRIVER.
WakeUser        == I("wake", "userWakeEvent", 0)
WakeDriver      == I("wake", "driverWakeEvent", 0)
\* wpsBuf, the buffer with the result of WPS: forgotten by ATH_START_WPS,
\* read, freed and set to NULL by ATH_AWAIT_WPS_COMPLETION, kept by the event.
Wps(what)       == Fails("wps", what, 0, "error", End)
\* From here on a handler works on the driver's current device, devId.
Current         == I("current", "", 0)

\* A call made for its effect: its result is ignored.
Ignoring(prog) ==
  [k \in DOMAIN prog |->
     IF "skip" \in DOMAIN prog[k] /\ prog[k].skip = End
     THEN [prog[k] EXCEPT !.report = "drop", !.skip = Len(prog) - k]
     ELSE prog[k]]

-----------------------------------------------------------------------------
(***************************************************************************)
(* Ioctls that wait for an answer.                                         *)
(***************************************************************************)
ATH_GET_RX_RSSI == <<Set("rssiFlag", TRUE), TrySend("GET_STATISTICS"),
                     AwaitEver("rssiFlag", FALSE), Take("rssi", "stats")>>

Asked(flag, cmd) == <<Set(flag, FALSE), Send(cmd), Await(flag, TRUE),
                      Need(flag, TRUE)>>

ATH_GET_TEMPERATURE ==
  Asked("temperatureValid", "GET_TEMPERATURE")
  \o <<Take("temperature", "reply"), Set("temperatureValid", FALSE)>>
ATH_GET_COUNTRY_CODE ==
  Asked("countryCodeValid", "GET_COUNTRY_CODE")
  \o <<Take("countryCode", "reply"), Set("countryCodeValid", FALSE)>>
\* A caller may ask not to wait for the status.
ATH_SET_PARAM ==
  <<Set("setparamValid", FALSE), Send("PARAM_SET"), Maybe(3),
    Await("setparamValid", TRUE), Need("setparamValid", TRUE),
    Take("setparamStatus", "set_param")>>
\* A failure to send returns ENET_OK.
ATH_GET_PMK ==
  <<Set("wpaPmkValid", FALSE), Fails("send", "GET_PMK", "", "drop", End),
    Await("wpaPmkValid", TRUE), Need("wpaPmkValid", TRUE),
    Take("wpaPmk", "reply"), Set("wpaPmkValid", FALSE)>>
ATH_PFM_CMD ==
  <<Set("pfmDone", FALSE), TrySend("PFM_GET"), Await("pfmDone", TRUE)>>
\* A data set with a callback is not waited for; the others are also when
\* the command was not sent.
ATH_DSET_OP_CMD ==
  <<Set("dset_op_done", FALSE), Fails("send", "DSET_OP", "", "error", 0),
    Maybe(3),
    Await("dset_op_done", TRUE), Need("dset_op_done", TRUE),
    Take("setparamStatus", "dset_op")>>
\* It waits for A_TRUE where the answer is A_OK.
ATH_WLAN_WPS_INIT_KEY ==
  <<Set("wps_init_key", FALSE), Send("WPS_INIT_KEY"),
    Await("wps_init_key is A_TRUE", TRUE), Need("wps_init_key", TRUE)>>
ATH_HEARTBEAT_CHALLEANGE == Asked("hb_challenge_done", "HB_CHALLENGE")

\* The scan: filter and probed SSID, then the command; later the result.
scan_setup ==
  <<Send("SET_PROBED_SSID"), Send("SET_BSS_FILTER"), Set("scanDone", FALSE),
    Send("START_SCAN")>>
wait_scan_done ==
  <<SkipIf("scanDone", 3), Await("scanDone", TRUE), SkipIf("scanDone", 1),
    TrySend("SET_BSS_FILTER"), Set("scanDone", FALSE)>>
ENET_SET_MEDIACTL_SCAN == <<Set("extended_scan", FALSE)>> \o scan_setup
ENET_GET_MEDIACTL_SCAN == wait_scan_done \o <<Take("pScanOut", "scan")>>
ATH_START_SCAN_EXT     == <<Set("extended_scan", TRUE)>> \o scan_setup
ATH_GET_SCAN_EXT       == wait_scan_done \o <<Take("pScanOut", "scan")>>

\* WPS.  wpsState says a session is under way, wpsBuf holds its result.
ATH_START_WPS ==
  <<Wps("forget"), Check, Maybe(1), Send("SET_SCAN_PARAMS"),
    Send("WPS_START"), Set("wpsState", TRUE), Set("wps_in_progress", TRUE)>>
\* The non-blocking form returns A_PENDING; credentials of an unknown kind
\* are an error; an access point and a P2P device do not disconnect.
ATH_AWAIT_WPS_COMPLETION(dont_block) ==
  <<IF dont_block THEN Need("wpsState", FALSE) ELSE Jump(0), AwaitEver("wpsState", FALSE),
    Set("wps_in_progress", FALSE), Wps("use"), Check, Wps("free"),
    Wps("null"), Maybe(2), SkipIf("p2p_avail", 1), Send("DISCONNECT")>>

-----------------------------------------------------------------------------
(***************************************************************************)
(* Connecting.                                                             *)
(***************************************************************************)
\* WEP keys first.  A station is connecting from here on.
Api_ConnectWiFi ==
  <<Fails("need", "ssid", TRUE, "error", 5),
    Maybe(1), TrySend("ADD_CIPHER_KEY"),
    Fails("send", "SET_SCAN_PARAMS", "", "any", 2),
    Fails("send", "CONNECT", "", "error", 1),
    Set("isConnectPending", TRUE)>>
Api_ConnectAp == <<Maybe(1), TrySend("ADD_CIPHER_KEY"),
                   Fails("send", "AP_CONFIG_COMMIT", "", "error", 0)>>

\* Mutant: the device stays "connecting".
Api_DisconnectWiFiPending == <<SkipUnless("joined", 2), TrySend("DISCONNECT"),
                               Set("isConnectPending", TRUE)>>

Api_DisconnectWiFi == <<SkipUnless("joined", 2), TrySend("DISCONNECT"),
                        Set("isConnectPending", FALSE)>>

ENET_SET_MEDIACTL_COMMIT ==
  <<SkipIf("ssid", 4)>> \o Api_DisconnectWiFi \o <<Jump(6)>>
  \o Api_ConnectWiFi \o <<Set("wps_in_progress", FALSE)>>
ENET_SET_MEDIACTL_COMMIT_AP ==
  Api_ConnectAp \o <<Set("wps_in_progress", FALSE)>>
ENET_SET_MEDIACTL_ESSID(v) == <<Check, Set("ssid", v)>>
ENET_SET_MEDIACTL_PASSPHRASE ==
  <<Check, Need("ssid", TRUE), Send("SET_PASSPHRASE")>>
ENET_SET_MEDIACTL_MODE     == <<Check>>
ENET_SET_MEDIACTL_SEC_TYPE == <<Check>>
ENET_SET_MEDIACTL_FREQ     == <<Check>>
ENET_SET_MEDIACTL_RTS      == <<Send("SET_RTS")>>
ENET_SET_MEDIACTL_POWER    == <<TrySend("SET_POWER_MODE")>>
ENET_GET_MEDIACTL          == <<>>

-----------------------------------------------------------------------------
(***************************************************************************)
(* Ioctls that send a command which has no answer.                         *)
(***************************************************************************)
ATH_SCAN_CTRL          == <<Send("SET_SCAN_PARAMS")>>
ATH_SET_SCAN_PARAM     == <<Send("SET_SCAN_PARAMS")>>
ATH_SET_TXPWR          == <<Send("SET_TX_PWR")>>
ATH_SET_PMPARAMS       == <<Send("SET_POWER_PARAMS")>>
ATH_SET_LISTEN_INT     == <<Send("SET_LISTEN_INT")>>
ATH_SET_PHY_MODE       == <<Send("SET_CHANNEL_PARAMS"), Send("SET_HT_CAP")>>
ATH_ROAM_CTRL          == <<Send("SET_SCAN_PARAMS")>>
ATH_SET_PMK            == <<Send("SET_PMK")>>
ATH_SET_CHANNEL        == <<Send("SET_CHANNEL")>>
ATH_GET_RATE           == <<Send("GET_BITRATE")>>
ATH_SET_PROMISCUOUS_MODE == <<Send("SET_FILTERED_PROMISCUOUS_MODE")>>
ATH_ONOFF_GTX          == <<Send("GREENTX_PARAMS")>>
ATH_ONOFF_LPL          == <<Send("LPL_FORCE_ENABLE")>>
ATH_SET_TX_PWR_SCALE   == <<Send("SET_TX_POWER_SCALE")>>
ATH_SET_PROBEREQ_EV_ENABLE == <<Send("SET_PROBEREQ_ENABLE")>>
ATH_SET_RATE           == <<Send("SET_BITRATE")>>
\* These drop a failure to send: it is kept in status, and error returned.
ATH_SET_AGGREGATION    == <<TrySend("ALLOW_AGGR")>>
ATH_CONFIG_AP          == <<Maybe(1), TrySend("AP_PARAM")>>
ATH_GPIO_CMD           == <<TrySend("EXTENSION")>>
ATH_SET_POWER          == <<TrySend("SET_POWER_MODE")>>
ATH_DSET_READ_CMD      == <<TrySend("HOST_DSET_LARGE_READ")>>
ATH_DSET_WRITE_CMD     == <<TrySend("HOST_DSET_LARGE_WRITE")>>
ATH_SET_APPIE          == <<TrySend("SET_APPIE")>>
\* No command: settings, callbacks and values of the driver.
ATH_SET_CIPHER == <<>>
ATH_SET_SEC_MODE       == <<Check>>
ATH_GET_PHY_MODE == <<>>
ATH_SET_CALLBACK == <<>>
ATH_GET_VERSION == <<>>
ATH_GET_MACADDR == <<>>
ATH_GET_REG_DOMAIN == <<>>
ATH_GET_CHANNEL == <<>>
ATH_GET_CONC_DEV_CHANNEL == <<>>
ATH_SET_WEPKEY         == <<Check>>
ATH_GET_WEPKEY         == <<Check>>
ATH_SET_WEPINDEX       == <<Check>>
ATH_GET_WEPINDEX == <<>>

\* The packet goes through the data path.
ATH_MAC_TX_RAW         == <<Check>>
\* The driver task does it (asynchRequest); nobody changes what is waited for.
ATH_PROGRAM_COUNTRY_CODE ==
  <<Check, Need("strrclBlock", FALSE), Need("asynchRequest", FALSE),
    Set("asynchRequest", TRUE), WakeDriver, Await("countryCodeProgram", TRUE)>>

\* Store and recall.  strrclBlock keeps out every other call.
ATH_DEVICE_SUSPEND_ENABLE ==
  <<SkipIf("strrclInit", 2), Send("STORERECALL_CONFIGURE"),
    Set("strrclInit", TRUE)>>
ATH_DEVICE_SUSPEND_START ==
  <<Maybe(1), Send("SET_POWER_MODE"), Need("strrclInit", TRUE), Check,
    Set("strrclBlock", TRUE),
    Fails("send", "STORERECALL_HOST_READY", "", "error", 0),
    SkipUnless("failed", 1), Set("strrclBlock", FALSE)>>

-----------------------------------------------------------------------------
(***************************************************************************)
(* P2P ioctls.  p2pEvtState: an answer is outstanding; p2pevtflag: an      *)
(* event was not read.  Both leave their data in pScanOut.  All drop a     *)
(* failure to send.                                                        *)
(***************************************************************************)
P2pAsk(cmd) == <<Set("p2pEvtState", TRUE), TrySend(cmd)>>

ATH_P2P_CONNECT_CLIENT  == P2pAsk("P2P_CONNECT")
ATH_P2P_NODE_LIST       == P2pAsk("P2P_GET_NODE_LIST")
ATH_P2P_INVITE_AUTH     == P2pAsk("P2P_INVITE_REQ_RSP")
ATH_P2P_PERSISTENT_LIST == P2pAsk("P2P_LIST_PERSISTENT_NETWORK")
\* Here the flag is set after the command was sent.
ATH_P2P_DISC_REQ ==
  <<TrySend("P2P_FW_PROV_DISC_REQ"), Set("p2pEvtState", TRUE)>>

ATH_SET_P2P_CALLBACK ==
  <<SkipUnless("p2pEvtState", 5), Await("p2pEvtState", FALSE),
    SkipUnless("timed out", 2), Set("p2pEvtState", FALSE), Jump(2),
    Set("p2pEvtState", FALSE), Take("pScanOut", "p2p_answer")>>
ATH_P2P_EVENT_CALLBACK ==
  <<SkipUnless("p2pevtflag", 2), Take("pScanOut", "p2p_event"),
    Set("p2pevtflag", FALSE)>>

ATH_P2P_APMODE      == <<Set("p2p_avail", TRUE), Maybe(1),
                         TrySend("P2P_GRP_INIT")>> \o Ignoring(Api_ConnectAp)
ATH_P2P_APMODE_PP   == <<TrySend("SET_PASSPHRASE")>>
ATH_P2P_FIND        == <<Set("p2p_avail", TRUE), TrySend("P2P_FIND")>>
ATH_P2P_LISTEN      == <<TrySend("P2P_LISTEN")>>
ATH_P2P_CANCEL      == <<TrySend("P2P_CANCEL")>>
ATH_P2P_STOP        == <<TrySend("P2P_STOP_FIND")>>
ATH_P2P_SET_CONFIG  == <<TrySend("P2P_SET_CONFIG")>>
ATH_P2P_WPS_CONFIG  == <<TrySend("WPS_SET_CONFIG")>>
ATH_P2P_AUTH        == <<TrySend("P2P_AUTH_GO_NEG")>>
ATH_P2P_SET         == <<TrySend("P2P_SET")>>
ATH_P2P_INVITE      == <<TrySend("P2P_INVITE")>>
ATH_P2P_JOIN        == <<Check, TrySend("SET_SCAN_PARAMS"),
                         TrySend("WPS_START")>>
ATH_P2P_JOIN_PROFILE == <<TrySend("P2P_SET_JOIN_PROFILE")>>
ATH_P2P_SWITCH      == <<TrySend("P2P_SET_PROFILE"),
                         Set("p2pEvtState", FALSE), Set("p2pevtflag", FALSE)>>
ATH_P2P_SET_NOA     == <<TrySend("P2P_SET_NOA")>>
ATH_P2P_SET_OPPPS   == <<TrySend("P2P_SET_OPPPS")>>
ATH_P2P_SDPD        == <<TrySend("P2P_SDPD_TX")>>
=============================================================================
