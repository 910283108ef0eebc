------------------------------- MODULE QcomApi -------------------------------
(***************************************************************************)
(* The application interface (common_src/qapi/qcom_api.c): most calls name *)
(* a device, which becomes the driver's current one, and are one ioctl     *)
(* passed on by custom_qapi; every ioctl starts with the access check.     *)
(* Calls that do not use Qapi do not set the device.                       *)
(***************************************************************************)
EXTENDS CtlCalls

Custom_Api_Mediactl(prog) == <<Access>> \o prog
custom_qapi(prog)         == Custom_Api_Mediactl(prog)
qcom_set_deviceid         == custom_qapi(<<Device>>)
Qapi(prog)                == qcom_set_deviceid \o custom_qapi(prog)

\* The caller's parameters are copied and then not passed on.
qcom_set_scan   == Qapi(ENET_SET_MEDIACTL_SCAN)
qcom_get_scan   == Qapi(ENET_GET_MEDIACTL_SCAN)
qcom_set_ssid(given) == Qapi(ENET_SET_MEDIACTL_ESSID(given))
qcom_get_ssid   == Qapi(ENET_GET_MEDIACTL)
qcom_set_connect_callback   == Qapi(ATH_SET_CALLBACK)
qcom_set_probe_req_callback == Qapi(ATH_SET_CALLBACK)
qcom_enable_probe_req_event == Qapi(ATH_SET_PROBEREQ_EV_ENABLE)
qcom_get_concurrent_channel == Qapi(ATH_GET_CONC_DEV_CHANNEL)
qcom_get_channelhint        == Qapi(ATH_GET_CHANNEL)
qcom_sta_get_rssi           == Qapi(ATH_GET_RX_RSSI)
qcom_sta_set_listen_time    == Qapi(ATH_SET_LISTEN_INT)
qcom_ap_set_beacon_interval == Qapi(ATH_CONFIG_AP)
qcom_ap_hidden_mode_enable  == Qapi(ATH_CONFIG_AP)
qcom_op_get_mode            == Qapi(ENET_GET_MEDIACTL)
qcom_op_set_mode            == Qapi(ENET_SET_MEDIACTL_MODE)
qcom_get_phy_mode           == Qapi(ATH_GET_PHY_MODE)
qcom_get_country_code       == Qapi(ATH_GET_COUNTRY_CODE)
qcom_set_country_code       == Qapi(ATH_PROGRAM_COUNTRY_CODE)
qcom_set_phy_mode           == Qapi(ATH_SET_PHY_MODE)
qcom_set_channel            == qcom_set_deviceid
                               \o <<Check>> \o custom_qapi(ATH_SET_CHANNEL)
qcom_get_channel            == Qapi(ATH_GET_CHANNEL)
qcom_set_tx_power           == Qapi(ATH_SET_TXPWR)
qcom_allow_aggr_set_tid     == Qapi(ATH_SET_AGGREGATION)
qcom_scan_set_mode          == Qapi(ATH_SCAN_CTRL)
qcom_scan_params_set        == Qapi(ATH_SET_SCAN_PARAM)
qcom_sec_set_wepkey         == custom_qapi(ATH_SET_WEPKEY)
qcom_sec_get_wepkey         == custom_qapi(ATH_GET_WEPKEY)
qcom_sec_set_wepkey_index   == custom_qapi(ATH_SET_WEPINDEX)
                               \o custom_qapi(ENET_SET_MEDIACTL_SEC_TYPE)
qcom_sec_get_wepkey_index   == custom_qapi(ATH_GET_WEPINDEX)
qcom_sec_set_auth_mode      == Qapi(ENET_SET_MEDIACTL_SEC_TYPE)
qcom_sec_set_encrypt_mode   == Qapi(ATH_SET_CIPHER)
qcom_sec_set_passphrase     == Qapi(ENET_SET_MEDIACTL_PASSPHRASE)
qcom_sec_set_pmk            == Qapi(ATH_SET_PMK)
qcom_power_set_mode         == Qapi(ATH_SET_POWER)
qcom_power_get_mode         == custom_qapi(ENET_GET_MEDIACTL)
qcom_suspend_enable         == custom_qapi(ATH_DEVICE_SUSPEND_ENABLE)
qcom_suspend_start          == custom_qapi(ATH_DEVICE_SUSPEND_START)
qcom_power_set_parameters   == Qapi(ATH_SET_PMPARAMS)
qcom_get_bssid              == custom_qapi(ATH_GET_MACADDR)
qcom_wps_start              == Qapi(ATH_START_WPS)
qcom_param_set              == Qapi(ATH_SET_PARAM)
qcom_set_appie              == Qapi(ATH_SET_APPIE)
qcom_wps_init_key           == custom_qapi(ATH_WLAN_WPS_INIT_KEY)
qcom_heartbeat_challenge    == custom_qapi(ATH_HEARTBEAT_CHALLEANGE)
qcom_raw_mode_send_pkt ==
  <<Check, Maybe(Len(qcom_set_channel))>> \o qcom_set_channel
  \o custom_qapi(ATH_MAC_TX_RAW)

-----------------------------------------------------------------------------
\* P2P.
qcom_p2p_enable             == Qapi(ATH_P2P_SWITCH)
qcom_p2p_func_on_off        == Qapi(ATH_P2P_SWITCH)
qcom_p2p_group_init         == Qapi(ATH_P2P_APMODE)
qcom_p2p_ap_mode            == Qapi(ATH_P2P_APMODE)
qcom_set_ap_params          == Qapi(ATH_CONFIG_AP)
qcom_p2p_func_find          == Qapi(ATH_P2P_FIND)
qcom_p2p_func_set_pass_ssid == qcom_set_ssid(TRUE)
                               \o custom_qapi(ATH_P2P_APMODE_PP)
qcom_p2p_func_listen        == Qapi(ATH_P2P_LISTEN)
qcom_p2p_func_connect       == Qapi(ATH_P2P_CONNECT_CLIENT)
qcom_p2p_func_auth          == Qapi(ATH_P2P_AUTH)
qcom_p2p_func_cancel        == Qapi(ATH_P2P_CANCEL)
qcom_p2p_func_stop_find     == Qapi(ATH_P2P_STOP)
qcom_p2p_func_get_node_list == Qapi(ATH_P2P_NODE_LIST)
qcom_p2p_func_set_config    == Qapi(ATH_P2P_SET_CONFIG)
qcom_p2p_func_wps_config    == Qapi(ATH_P2P_WPS_CONFIG)
qcom_p2p_func_disc_req      == custom_qapi(ATH_P2P_DISC_REQ)
qcom_p2p_func_prov          == Qapi(ATH_P2P_DISC_REQ)
qcom_p2p_set                == Qapi(ATH_P2P_SET)
qcom_p2p_func_join          == <<Check>> \o Qapi(ATH_P2P_JOIN)
qcom_p2p_func_invite_auth   == Qapi(ATH_P2P_INVITE_AUTH)
qcom_p2p_func_get_network_list == Qapi(ATH_P2P_PERSISTENT_LIST)
qcom_p2p_func_invite        == Qapi(ATH_P2P_INVITE)
qcom_p2p_func_join_profile  == Qapi(ATH_P2P_JOIN_PROFILE)
qcom_p2p_func_set_noa       == <<Check>> \o Qapi(ATH_P2P_SET_NOA)
qcom_p2p_func_set_oppps     == Qapi(ATH_P2P_SET_OPPPS)
\* It does so if it is not yet initialised.
qcom_p2p_func_init ==
  <<Maybe(99)>> \o Ignoring(qcom_p2p_enable)
  \o Ignoring(qcom_p2p_func_set_config)

-----------------------------------------------------------------------------
\* Calls made of calls.
\* With two devices both are to use one channel: device 0 gives way, and
\* device 1 moves device 0.
QapiOn(d, prog) == custom_qapi(<<DeviceIs(d)>>) \o custom_qapi(prog)
MoveDevice0 ==
  Ignoring(QapiOn(0, <<Check>> \o ATH_SET_CHANNEL))
  \o Ignoring(QapiOn(0, ATH_P2P_CANCEL))
  \o Ignoring(QapiOn(1, <<Check>> \o ATH_SET_CHANNEL))
OneChannel ==
  Ignoring(qcom_get_channelhint) \o Ignoring(qcom_get_concurrent_channel)
  \o <<SkipUnless("device 0", 2), Check, Jump(Len(MoveDevice0) + 1),
       Maybe(Len(MoveDevice0))>> \o MoveDevice0
qcom_commit(mode) ==
  qcom_get_ssid
  \o <<SkipUnless("ssid", Len(OneChannel) + 1),
       SkipUnless("two devices", Len(OneChannel))>> \o OneChannel
  \o Qapi(IF mode = "AP" THEN ENET_SET_MEDIACTL_COMMIT_AP
                                       ELSE ENET_SET_MEDIACTL_COMMIT)
qcom_disconnect == qcom_set_deviceid \o qcom_set_ssid(FALSE)
                   \o qcom_commit("STA")

WpsKeys == Ignoring(qcom_sec_set_wepkey) \o Ignoring(qcom_sec_set_wepkey_index)
WpsAuth == Ignoring(qcom_sec_set_auth_mode)
           \o Ignoring(qcom_sec_set_encrypt_mode)
qcom_wps_connect ==
  Ignoring(qcom_set_ssid(TRUE))
  \o <<Maybe(Len(WpsKeys) + 1)>> \o WpsKeys \o <<Jump(Len(WpsAuth) + 1)>>
  \o <<Maybe(Len(WpsAuth))>> \o WpsAuth \o qcom_commit("STA")

qcom_p2p_func_start_go ==
  Ignoring(qcom_sec_set_auth_mode) \o Ignoring(qcom_sec_set_encrypt_mode)
  \o <<Maybe(Len(qcom_p2p_func_set_pass_ssid))>>
  \o Ignoring(qcom_p2p_func_set_pass_ssid) \o Ignoring(qcom_op_set_mode)
  \o <<Maybe(Len(qcom_set_channel))>> \o Ignoring(qcom_set_channel)
  \o qcom_set_ap_params \o Ignoring(qcom_op_set_mode) \o qcom_p2p_group_init
  \o Ignoring(qcom_power_set_mode)
=============================================================================
