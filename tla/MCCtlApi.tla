------------------------------ MODULE MCCtlApi -------------------------------
(***************************************************************************)
(* CtlApi for TLC: which calls the user tasks make.                        *)
(***************************************************************************)
EXTENDS CtlApi, TLC

CONSTANTS u1, u2      \* the user tasks

OneMakes(calls) == [u \in Users |-> IF u = u1 THEN calls ELSE {}]
TwoMake(first, second) == [u \in Users |-> IF u = u1 THEN first ELSE second]

\* Calls that wait for an answer which is stored before the flag is set.
Ask == {qcom_sta_get_rssi, custom_qapi(ATH_GET_PMK),
        qcom_heartbeat_challenge, custom_qapi(ATH_PFM_CMD),
        custom_qapi(ATH_GPIO_CMD), custom_qapi(ATH_GET_RATE)}

\* Scans and P2P requests, each followed by the call for the result.
ScanAndGet == qcom_set_scan \o qcom_get_scan
ExtScanAndGet == custom_qapi(ATH_START_SCAN_EXT) \o custom_qapi(ATH_GET_SCAN_EXT)
P2pResult == custom_qapi(ATH_SET_P2P_CALLBACK)
Scan == {ScanAndGet, ExtScanAndGet,
         qcom_p2p_func_get_node_list \o P2pResult,
         qcom_p2p_func_get_network_list \o P2pResult,
         qcom_p2p_func_connect \o P2pResult}
P2pStart == {qcom_p2p_func_init, qcom_p2p_func_on_off, qcom_p2p_ap_mode,
             qcom_p2p_func_start_go, qcom_p2p_func_find, qcom_p2p_func_listen,
             qcom_p2p_func_auth, qcom_p2p_func_cancel}
P2pRun == {qcom_p2p_func_stop_find, qcom_p2p_func_wps_config, qcom_p2p_set,
           qcom_p2p_func_join, qcom_p2p_func_join_profile,
           qcom_p2p_func_set_noa, qcom_p2p_func_set_oppps,
           custom_qapi(ATH_P2P_SDPD)}
P2pInvite == {qcom_p2p_func_invite_auth, qcom_p2p_func_invite,
              qcom_p2p_func_prov, qcom_p2p_func_disc_req,
              custom_qapi(ATH_P2P_EVENT_CALLBACK)}

\* Connections.
Link == {qcom_set_ssid(TRUE), qcom_commit("STA"), qcom_disconnect}
Join == qcom_set_ssid(TRUE) \o qcom_commit("STA")
ApLink == {qcom_commit("AP"), qcom_disconnect,
           qcom_set_ssid(TRUE), custom_qapi(ATH_SET_SEC_MODE)}

\* WPS: one session after the other.
WpsSession == qcom_wps_start \o custom_qapi(ATH_AWAIT_WPS_COMPLETION(FALSE))

\* Store and recall.
Store == {qcom_suspend_enable, qcom_suspend_start, qcom_set_channel,
          qcom_sta_get_rssi, qcom_power_set_mode}

\* Calls that report every failure to send.
Report1 == {qcom_enable_probe_req_event, qcom_sta_set_listen_time,
            qcom_set_phy_mode, qcom_set_channel, qcom_set_tx_power,
            qcom_scan_set_mode, qcom_scan_params_set, qcom_sec_set_passphrase,
            qcom_sec_set_pmk, qcom_power_set_parameters,
            custom_qapi(ENET_SET_MEDIACTL_RTS), custom_qapi(ATH_ROAM_CTRL)}
Report2 == {qcom_set_scan, qcom_wps_init_key,
            custom_qapi(ATH_GET_TEMPERATURE)}
Report3 == {qcom_suspend_enable, qcom_suspend_start, qcom_set_ssid(TRUE),
            qcom_raw_mode_send_pkt, custom_qapi(ATH_SET_PROMISCUOUS_MODE),
            custom_qapi(ATH_ONOFF_GTX), custom_qapi(ATH_ONOFF_LPL),
            custom_qapi(ATH_SET_TX_PWR_SCALE), custom_qapi(ATH_SET_RATE)}

\* Calls that do not, some of which then wait for an answer.
Silent == {qcom_sta_get_rssi, custom_qapi(ATH_GET_PMK),
           custom_qapi(ATH_PFM_CMD), custom_qapi(ATH_GPIO_CMD),
           qcom_allow_aggr_set_tid, qcom_ap_set_beacon_interval,
           qcom_set_appie}

\* Two tasks whose calls name either device, or do not set it.
FirstOn  == {qcom_sta_set_listen_time, qcom_p2p_func_disc_req}
SecondOn == {qcom_set_phy_mode}

\* Calls that send nothing, or do not say that they could not send.
Quiet1 == {qcom_set_connect_callback, qcom_set_probe_req_callback,
           qcom_op_get_mode, qcom_op_set_mode, qcom_get_phy_mode,
           qcom_set_country_code, qcom_get_channel, qcom_sec_set_wepkey,
           qcom_sec_get_wepkey, qcom_sec_set_wepkey_index,
           qcom_sec_get_wepkey_index, qcom_sec_set_auth_mode,
           qcom_sec_set_encrypt_mode}
Quiet2 == {qcom_get_country_code, qcom_power_get_mode, qcom_get_bssid,
           qcom_set_appie,
           qcom_ap_set_beacon_interval, qcom_ap_hidden_mode_enable,
           qcom_allow_aggr_set_tid, qcom_power_set_mode,
           custom_qapi(ATH_GET_VERSION), custom_qapi(ATH_GET_REG_DOMAIN),
           custom_qapi(ENET_SET_MEDIACTL_FREQ),
           custom_qapi(ENET_SET_MEDIACTL_POWER), custom_qapi(ATH_DSET_READ_CMD),
           custom_qapi(ATH_DSET_WRITE_CMD), custom_qapi(ATH_DSET_OP_CMD),
           qcom_param_set}

Setting(devices, calls, most, happens) ==
  [devices |-> devices, calls |-> calls, inbox |-> most, happens |-> happens]

\* One task, by the kind of its calls, and two tasks that wait at once.
MCSettings ==
  {Setting(1, OneMakes(Ask), 2, {"tx"}),
   Setting(1, OneMakes(Ask), 1, {"late"}),
   Setting(1, OneMakes(Scan), 1, {"tx"}),
   Setting(1, OneMakes(P2pStart), 1, {"tx"}),
   Setting(1, OneMakes(P2pRun), 1, {"tx"}),
   Setting(1, OneMakes(P2pInvite), 1, {"p2p_events"}),
   Setting(2, OneMakes({Join}), 1, {}),
   Setting(2, TwoMake(FirstOn, SecondOn), 1, {}),
   Setting(1, OneMakes(Link), 1, {"lost_link"}),
   Setting(1, OneMakes(ApLink), 1, {"lost_link"}),
   Setting(1, OneMakes({WpsSession}), 1, {"tx"}),
   Setting(1, OneMakes({qcom_wps_connect}), 1, {"tkip"}),
   Setting(1, OneMakes(Store), 2, {"tx"}),
   Setting(1, OneMakes(Report1), 2, {"send_fails"}),
   Setting(1, OneMakes(Report2), 1, {"send_fails"}),
   Setting(1, OneMakes(Report3), 2, {"send_fails"}),
   Setting(1, OneMakes(Silent), 1, {"send_fails", "tx"}),
   Setting(1, OneMakes(Quiet1), 1, {}),
   Setting(1, OneMakes(Quiet2), 1, {}),
   Setting(1, TwoMake({qcom_sta_get_rssi}, {custom_qapi(ATH_GET_PMK)}),
           2, {"tx"})}
=============================================================================
