----------------------------- MODULE CtlEvents ------------------------------
(***************************************************************************)
(* What the driver task does with WMI events                               *)
(* (common_src/wmi/wmi.c, common_src/api_interface/api_wmi_rx.c).  A       *)
(* handler is a sequence of the instructions of CtlCalls.                  *)
(***************************************************************************)
EXTENDS CtlCalls

(***************************************************************************)
(* Answers: some store the data and then set the flag, some the other way. *)
(***************************************************************************)
Api_TargetStatsEvent ==
  <<Put("rssi", "stats"), Set("rssiFlag", FALSE), WakeUser>>
\* Mutant: the flag is set first.
Api_GetPmkEventEarly ==
  <<Set("wpaPmkValid", TRUE), Put("wpaPmk", "reply"), WakeUser>>

Api_GetPmkEvent ==
  <<Put("wpaPmk", "reply"), Set("wpaPmkValid", TRUE), WakeUser>>
Api_GetTemperatureReply ==
  <<Set("temperatureValid", TRUE), Put("temperature", "reply"), WakeUser>>
Api_GetCountryCodeReply ==
  <<Set("countryCodeValid", TRUE), Put("countryCode", "reply"), WakeUser>>
Api_GetSetParamReply ==
  <<Set("setparamValid", TRUE), Put("setparamStatus", "set_param"), WakeUser>>
Api_GetWpsInitReply    == <<Set("wps_init_key", TRUE), WakeUser>>
\* If its cookie is the one sent.
Api_RxHBChallengeEvent == <<Set("hb_challenge_done", TRUE), WakeUser>>
Api_PFMReportEvent     == <<Set("pfmDone", TRUE), WakeUser>>

\* dset_op_done is set before the status is stored, and again after; then
\* the driver task is woken, not the user.
Api_DsetOPEvent ==
  <<Set("dset_op_done", TRUE), Put("setparamStatus", "dset_op"),
    Set("dset_op_done", TRUE), WakeDriver>>

Custom_Api_BssInfoEvent == <<Put("pScanOut", "scan")>>
Api_BssInfoEvent        == Custom_Api_BssInfoEvent \o <<WakeUser>>
Api_ScanCompleteEvent ==
  <<TrySend("SET_BSS_FILTER"), Set("scanDone", TRUE), WakeUser>>

\* Under the driver's lock, as is Wps("forget") of ATH_START_WPS.
Api_WpsProfileEvent == <<Wps("keep")>>

P2pAnswer == <<Put("pScanOut", "p2p_answer"), Set("p2pEvtState", FALSE),
               WakeUser>>
P2pEvent  == <<Put("pScanOut", "p2p_event"), Set("p2pevtflag", TRUE),
               WakeUser>>

Api_p2p_node_list_event == P2pAnswer
Api_p2p_list_persistent_network_event == P2pAnswer
Api_get_p2p_ctx         == P2pAnswer
Api_p2p_req_auth_event  == P2pEvent
Api_p2p_prov_disc_req   == P2pEvent
Api_p2p_serv_disc_req   == P2pEvent
Api_p2p_invite_req      == P2pEvent
Api_p2p_invite_rcvd_result == P2pEvent
Api_p2p_invite_send_result == P2pEvent
\* An answer if one is outstanding, else an event.
Api_p2p_go_neg_event ==
  <<SkipUnless("p2pEvtState", 3), Put("pScanOut", "p2p_answer"),
    Set("p2pEvtState", FALSE), Jump(2), Put("pScanOut", "p2p_event"),
    Set("p2pevtflag", TRUE), WakeUser>>

Api_TestCmdEventRx == <<Put("pScanOut", "test"), Set("testResp", TRUE),
                        WakeUser>>

(***************************************************************************)
(* The connection.  After a loss the target connects again by itself.      *)
(***************************************************************************)
\* They call the application back.
Custom_Api_ConnectEvent    == <<WakeUser>>
Custom_Api_DisconnectEvent == <<>>
Custom_Api_RSNASuccessEvent == <<>>
Custom_Api_ProbeReq_Event  == <<>>

Api_ConnectEvent ==
  <<Maybe(1), TrySend("ADD_CIPHER_KEY"), Set("isConnected", TRUE),
    Set("isConnectPending", FALSE), SkipUnless("current", 1),
    Set("wps_in_progress", FALSE)>> \o Custom_Api_ConnectEvent
\* reason: DISCONNECT_CMD, or the connection was lost.
Api_DisconnectEvent(reason) ==
  <<Set("isConnectPending", reason # "DISCONNECT_CMD"),
    Set("isConnected", FALSE), SkipUnless("current", 1),
    Set("wps_in_progress", FALSE)>> \o Custom_Api_DisconnectEvent
  \o <<SkipUnless("tkipCountermeasures", 9),
       Set("tkipCountermeasures", FALSE), Current>>
  \o Api_ConnectWiFi \o <<TrySend("SET_POWER_MODE")>>
Api_TkipMicErrorEvent ==
  <<Set("tkipCountermeasures", TRUE), TrySend("SET_POWER_MODE"),
    TrySend("DISCONNECT")>>

\* The end of a store and recall.
Api_StoreRecallEvent == <<Set("strrclBlock", FALSE), WakeUser>>

(***************************************************************************)
(* Events that change nothing a call waits for.                            *)
(***************************************************************************)
Api_RegDomainEvent      == <<>>
Api_BitrateEvent        == <<WakeUser>>
Custom_Api_BitRateEvent_tx == <<>>
Api_GetBitRateEvent     == Custom_Api_BitRateEvent_tx
Api_ChannelListEvent    == <<WakeUser>>
Api_RSNASuccessEvent    == Custom_Api_RSNASuccessEvent
Custom_Api_GpioDataEvent == <<>>
Api_RxGpioDataEvent     == Custom_Api_GpioDataEvent
Api_RxDbglogEvent       == <<>>
Api_ProbeReqEvent       == Custom_Api_ProbeReq_Event

(***************************************************************************)
(* wmi_control_rx: the handler of the event that answers each command.     *)
(***************************************************************************)
Answers ==
  [GET_STATISTICS |-> Api_TargetStatsEvent, GET_PMK |-> Api_GetPmkEvent,
   GET_TEMPERATURE |-> Api_GetTemperatureReply,
   GET_COUNTRY_CODE |-> Api_GetCountryCodeReply,
   PARAM_SET |-> Api_GetSetParamReply, WPS_INIT_KEY |-> Api_GetWpsInitReply,
   START_SCAN |-> Api_BssInfoEvent \o Api_ScanCompleteEvent,
   GET_BITRATE |-> Api_GetBitRateEvent, WPS_START |-> Api_WpsProfileEvent,
   STORERECALL_HOST_READY |-> Api_StoreRecallEvent,
   CONNECT |-> Api_ConnectEvent,
   DISCONNECT |-> Api_DisconnectEvent("DISCONNECT_CMD"),
   P2P_CONNECT |-> Api_p2p_go_neg_event,
   P2P_GET_NODE_LIST |-> Api_p2p_node_list_event,
   P2P_LIST_PERSISTENT_NETWORK |-> Api_p2p_list_persistent_network_event,
   P2P_FW_PROV_DISC_REQ |-> Api_get_p2p_ctx,
   P2P_INVITE_REQ_RSP |-> Api_p2p_invite_rcvd_result,
   P2P_INVITE |-> Api_p2p_invite_send_result]

\* wmi_control_rx_xtnd and the events of WMI_DSET_OP and WMI_PFM_GET.
ExtendedAnswers ==
  [HB_CHALLENGE |-> Api_RxHBChallengeEvent, EXTENSION |-> Api_RxGpioDataEvent,
   PFM_GET |-> Api_PFMReportEvent, DSET_OP |-> Api_DsetOPEvent]

Unasked ==
  {Api_p2p_req_auth_event, Api_p2p_prov_disc_req, Api_p2p_serv_disc_req,
   Api_p2p_invite_req, Api_ChannelListEvent, Api_TestCmdEventRx,
   Api_BitrateEvent, Api_RegDomainEvent, Api_RSNASuccessEvent,
   Api_RxDbglogEvent, Api_ProbeReqEvent}
=============================================================================
