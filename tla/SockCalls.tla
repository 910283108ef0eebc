----------------------------- MODULE SockCalls ------------------------------
(***************************************************************************)
(* The calls of the socket interface as a table.  Every call that talks to *)
(* the target's TCP/IP stack has one shape                                 *)
(* (common_src/stack_common/api_stack_offload.c): find the context, return *)
(* an error if a task is blocked on it, set the command's bit in           *)
(* sock_st_mask, send the command (on a failure clear the bit and return   *)
(* an error), block until the bit is cleared, use the answer.  A call is a *)
(* record of what it fills in; SockCmd runs it.  The arguments it copies   *)
(* into the command are left out.                                          *)
(***************************************************************************)
(***************************************************************************)
(* The calls.  on: the context is a new one, that of a handle, that of an  *)
(* SSL object (or the global one if no socket has it), or the global one.  *)
(* wait: forever (the limit, 960 s, is an assertion), again (at the limit  *)
(* the caller blocks again), limited (it returns an error), none; mask:    *)
(* the bit is set before the command is sent.  then: what is done with the *)
(* answer.                                                                 *)
(***************************************************************************)
Call(cmd, on, wait, then) ==
  [cmd |-> cmd, on |-> on, wait |-> wait, mask |-> TRUE, then |-> then]
SendOnly(cmd, on, mask, then) ==
  [cmd |-> cmd, on |-> on, wait |-> "none", mask |-> mask, then |-> then]

Api_socket     == Call("SOCK_OPEN", "new", "forever", "open")
Api_shutdown   == SendOnly("SOCK_CLOSE", "handle", FALSE, "clear")
Api_connect    == Call("SOCK_CONNECT", "handle", "forever", "status")
Api_connect_nb == SendOnly("SOCK_CONNECT", "handle", FALSE, "nothing")
Api_bind       == Call("SOCK_BIND", "handle", "forever", "status")
Api_listen     == SendOnly("SOCK_LISTEN", "handle", FALSE, "listen")
Api_accept     == Call("SOCK_ACCEPT", "handle", "forever", "accept")
Api_accept_ver1 == SendOnly("SOCK_ACCEPT", "handle", TRUE,
                            "accept_nb")
Api_errno      == Call("SOCK_ERRNO", "handle", "forever", "status")
Api_setsockopt == Call("SOCK_SETSOCKOPT", "handle", "forever", "status")
Api_getsockopt == Call("SOCK_GETSOCKOPT", "handle", "forever", "getsockopt")

GlobalCall(cmd, wait, then) == Call(cmd, "global", wait, then)
GlobalSend(cmd, mask) == SendOnly(cmd, "global", mask, "nothing")

Api_ipconfig_dhcp       == GlobalCall("SOCK_IPCONFIG", "again", "free")
Api_ipconfig            == GlobalCall("SOCK_IPCONFIG", "limited", "free")
Api_ip6config           == GlobalCall("SOCK_IP6CONFIG", "forever", "free")
Api_ipconfig_dhcp_pool  == GlobalSend("SOCK_IPCONFIG_DHCP_POOL", FALSE)
Api_ip6config_router_prefix ==
  GlobalSend("SOCK_IP6CONFIG_ROUTER_PREFIX", FALSE)
Api_ipbridgemode        == GlobalSend("SOCK_IP_BRIDGEMODE", FALSE)
Api_ipconfig_set_tcp_exponential_backoff_retry ==
  GlobalSend("SOCK_IP_SET_TCP_EXP_BACKOFF_RETRY", FALSE)
Api_ipconfig_set_ip6_status == GlobalSend("SOCK_IP_SET_IP6_STATUS", FALSE)
Api_ipconfig_dhcp_release == GlobalSend("SOCK_IP_DHCP_RELEASE", FALSE)
Api_ipconfig_set_tcp_rx_buffer == GlobalSend("SOCK_IP_SET_TCP_RX_BUF", FALSE)
Api_ip_http_server      == GlobalCall("SOCK_HTTP_SERVER", "forever", "status")
Api_ip_http_server_method ==
  GlobalCall("SOCK_HTTP_SERVER_CMD", "forever", "free")
Api_httpc_method        == GlobalCall("SOCK_HTTPC", "forever", "zero_copy")
Api_ip_resolve_host_name == GlobalCall("SOCK_DNC_CMD", "limited", "free")
Api_ip_dns_client       == GlobalCall("SOCK_DNC_ENABLE", "forever", "status")
Api_ip_dns_server_addr ==
  GlobalCall("SOCK_DNS_SRVR_CFG_ADDR", "forever", "status")
Api_ip_hostname         == GlobalCall("SOCK_IP_HOST_NAME", "forever", "status")
Api_ip_dns_local_domain == GlobalSend("SOCK_DNS_LOCAL_DOMAIN", FALSE)
Api_ipdns               == GlobalCall("SOCK_IP_DNS", "forever", "status")
Api_ip_dns_server       == GlobalSend("SOCK_DNS_SERVER_STATUS", FALSE)
Api_ip_sntp_srvr_addr   == GlobalSend("SOCK_IP_SNTP_SRVR_ADDR", FALSE)
Api_ip_sntp_get_time ==
  GlobalCall("SOCK_IP_SNTP_GET_TIME", "limited", "free")
Api_ip_sntp_get_time_of_day ==
  GlobalCall("SOCK_IP_SNTP_GET_TIME_OF_DAY", "limited", "free")
Api_ip_sntp_modify_zone_dse ==
  GlobalSend("SOCK_IP_SNTP_CONFIG_TIMEZONE_DSE", TRUE)
Api_ip_sntp_query_srvr_address ==
  GlobalCall("SOCK_IP_SNTP_QUERY_SNTP_ADDRESS", "limited", "free")
Api_ip_sntp_client      == GlobalSend("SOCK_IP_SNTP_CLIENT_ENABLE", TRUE)
Api_ipv4_route          == GlobalCall("SOCK_IPV4_ROUTE", "limited", "free")
Api_ipv6_route          == GlobalCall("SOCK_IPV6_ROUTE", "limited", "free")
Api_tcp_connection_timeout == GlobalSend("SOCK_TCP_CONN_TIMEOUT", TRUE)
Api_ota_upgrade         == GlobalCall("SOCK_OTA_UPGRADE", "limited", "free")
Api_ota_read_area       == GlobalCall("SOCK_OTA_READ", "limited", "free")
Api_ota_done            == GlobalCall("SOCK_OTA_DONE", "limited", "free")
Api_ota_session_start ==
  GlobalCall("SOCK_OTA_SESSION_START", "limited", "free")
Api_ota_partition_get_size ==
  GlobalCall("SOCK_OTA_PARTITION_GET_SIZE", "limited", "free")
Api_ota_partition_erase ==
  GlobalCall("SOCK_OTA_PARTITION_ERASE", "limited", "free")
Api_ota_partition_verify_checksum ==
  GlobalCall("SOCK_OTA_PARTITION_VERIFY_CHECKSUM", "limited", "free")
\* With a callback registered (otaCB, set by custom_ota_set_response_cb)
\* these two return A_PENDING at once.
Api_ota_parse_image_hdr ==
  [cb \in BOOLEAN |->
     IF cb THEN GlobalSend("SOCK_OTA_PARSE_IMAGE_HDR", FALSE)
           ELSE GlobalCall("SOCK_OTA_PARSE_IMAGE_HDR", "limited", "free")]
Api_ota_partition_write_data ==
  [cb \in BOOLEAN |->
     IF cb THEN GlobalSend("SOCK_OTA_PARTITION_WRITE_DATA", FALSE)
           ELSE GlobalCall("SOCK_OTA_PARTITION_WRITE_DATA", "limited", "free")]
Api_ping                == GlobalCall("SOCK_PING", "forever", "status")
Api_ping6               == GlobalCall("SOCK_PING6", "forever", "status")

Api_SSL_ctx_new   == GlobalCall("SOCK_SSL_CTX_NEW", "forever", "status")
Api_SSL_ctx_free  == GlobalCall("SOCK_SSL_CTX_FREE", "forever", "status")
Api_SSL_new       == GlobalCall("SOCK_SSL_NEW", "forever", "status")
Api_SSL_set_fd    == Call("SOCK_SSL_SET_FD", "handle", "forever", "set_fd")
Api_SSL_accept    == Call("SOCK_SSL_ACCEPT", "ssl", "forever", "status")
Api_SSL_connect   == Call("SOCK_SSL_CONNECT", "ssl", "forever", "status")
Api_SSL_shutdown  == Call("SOCK_SSL_SHUTDOWN", "sslOrGlobal", "forever",
                          "ssl_shutdown")
Api_SSL_configure == Call("SOCK_SSL_CONFIGURE", "sslOrGlobal", "forever",
                          "status")
Api_SSL_addCert   == GlobalCall("SOCK_SSL_ADD_CERT", "forever", "segments")
Api_SSL_storeCert == GlobalCall("SOCK_SSL_STORE_CERT", "forever", "segments")
Api_SSL_loadCert  == GlobalCall("SOCK_SSL_LOAD_CERT", "forever", "status")
Api_SSL_listCert  == GlobalCall("SOCK_SSL_LIST_CERT", "forever", "free")

-----------------------------------------------------------------------------
(***************************************************************************)
(* What applications call (custom_src/stack_custom/cust_api_stack_offload.c*)
(* ): the driver must exist and admit the caller (Api_DriverAccessCheck    *)
(* waits while the chip is down or a store or recall is under way).        *)
(***************************************************************************)
Checked(call) == [call |-> call, access |-> "ACCESS_REQUEST_IOCTL"]

t_socket == Checked(Api_socket)
t_shutdown == Checked(Api_shutdown)
t_connect == Checked(Api_connect)
t_bind == Checked(Api_bind)
t_listen == Checked(Api_listen)
t_accept == Checked(Api_accept)
t_errno == Checked(Api_errno)
t_setsockopt == Checked(Api_setsockopt)
t_getsockopt == Checked(Api_getsockopt)
t_ipconfig == Checked(Api_ipconfig)
t_ip6config == Checked(Api_ip6config)
t_ping == Checked(Api_ping)
t_ping6 == Checked(Api_ping6)
t_accept_nb == Checked(Api_accept_ver1)
t_ipconfig_dhcp == Checked(Api_ipconfig_dhcp)
t_ipconfig_dhcp_pool == Checked(Api_ipconfig_dhcp_pool)
t_ip6config_router_prefix == Checked(Api_ip6config_router_prefix)
custom_ipbridgemode == Checked(Api_ipbridgemode)
custom_ipconfig_set_tcp_exponential_backoff_retry ==
  Checked(Api_ipconfig_set_tcp_exponential_backoff_retry)
custom_ipconfig_set_ip6_status == Checked(Api_ipconfig_set_ip6_status)
custom_ipconfig_dhcp_release == Checked(Api_ipconfig_dhcp_release)
custom_ipconfig_set_tcp_rx_buffer == Checked(Api_ipconfig_set_tcp_rx_buffer)
custom_ip_http_server == Checked(Api_ip_http_server)
custom_ip_http_server_method == Checked(Api_ip_http_server_method)
custom_httpc_method == Checked(Api_httpc_method)
custom_ip_hostname == Checked(Api_ip_hostname)
custom_ip_dns_local_domain == Checked(Api_ip_dns_local_domain)
custom_ipdns == Checked(Api_ipdns)
custom_ip_dns_server == Checked(Api_ip_dns_server)
custom_ip_dns_server_addr == Checked(Api_ip_dns_server_addr)
custom_ip_dns_client == Checked(Api_ip_dns_client)
custom_ip_sntp_srvr_addr == Checked(Api_ip_sntp_srvr_addr)
custom_ip_sntp_get_time == Checked(Api_ip_sntp_get_time)
custom_ip_sntp_get_time_of_day == Checked(Api_ip_sntp_get_time_of_day)
custom_ip_sntp_modify_zone_dse == Checked(Api_ip_sntp_modify_zone_dse)
custom_ip_sntp_query_srvr_address == Checked(Api_ip_sntp_query_srvr_address)
custom_ip_sntp_client == Checked(Api_ip_sntp_client)
custom_ipv4_route == Checked(Api_ipv4_route)
custom_ipv6_route == Checked(Api_ipv6_route)
custom_tcp_connection_timeout == Checked(Api_tcp_connection_timeout)
custom_ota_upgrade == Checked(Api_ota_upgrade)
custom_ota_read_area == Checked(Api_ota_read_area)
custom_ota_done == Checked(Api_ota_done)
custom_ota_session_start == Checked(Api_ota_session_start)
custom_ota_partition_get_size == Checked(Api_ota_partition_get_size)
custom_ota_partition_erase == Checked(Api_ota_partition_erase)
custom_ota_partition_verify_checksum ==
  Checked(Api_ota_partition_verify_checksum)
custom_ip_resolve_hostname == Checked(Api_ip_resolve_host_name)
SSL_ctx_new == Checked(Api_SSL_ctx_new)
SSL_ctx_free == Checked(Api_SSL_ctx_free)
SSL_new == Checked(Api_SSL_new)
SSL_set_fd == Checked(Api_SSL_set_fd)
SSL_accept == Checked(Api_SSL_accept)
SSL_connect == Checked(Api_SSL_connect)
SSL_shutdown == Checked(Api_SSL_shutdown)
SSL_configure == Checked(Api_SSL_configure)
SSL_addCert == Checked(Api_SSL_addCert)
SSL_storeCert == Checked(Api_SSL_storeCert)
SSL_loadCert == Checked(Api_SSL_loadCert)
SSL_listCert == Checked(Api_SSL_listCert)
SSL_setCaList == Checked(Api_SSL_addCert)
custom_ota_parse_image_hdr ==
  [cb \in BOOLEAN |-> Checked(Api_ota_parse_image_hdr[cb])]
custom_ota_partition_write_data ==
  [cb \in BOOLEAN |-> Checked(Api_ota_partition_write_data[cb])]

=============================================================================
