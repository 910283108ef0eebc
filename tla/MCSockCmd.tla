----------------------------- MODULE MCSockCmd ------------------------------
(***************************************************************************)
(* SockCmd for TLC: which calls the user tasks make.                       *)
(***************************************************************************)
EXTENDS SockCmd, TLC

CONSTANTS u1, u2      \* the user tasks

\* Receive buffers, and user tasks with the same calls, are alike.
Sym == Permutations(Bufs) \cup Permutations(Users)

AllMake(ops) == [u \in Users |-> ops]
OneMakes(ops) == [u \in Users |-> IF u = u1 THEN ops ELSE {}]

ServerOps == {t_socket, t_shutdown, t_listen, t_accept}
ClientOps == {t_socket, t_shutdown, t_connect, t_bind, t_errno, t_setsockopt}
TwoOps == {t_socket, t_shutdown, t_connect}
NonBlockingOps == {t_socket, t_listen, t_accept_nb,
                   custom_ota_parse_image_hdr[TRUE],
                   custom_ota_partition_write_data[TRUE]}
SslOps == {t_socket, t_shutdown, SSL_set_fd, SSL_accept, SSL_connect,
           SSL_shutdown, SSL_configure, SSL_new, Checked(Api_connect_nb)}
IpOps ==
  {t_ipconfig, t_ipconfig_dhcp, t_ip6config, t_ipconfig_dhcp_pool,
   t_ip6config_router_prefix, custom_ipbridgemode,
   custom_ipconfig_set_tcp_exponential_backoff_retry,
   custom_ipconfig_set_ip6_status, custom_ipconfig_dhcp_release,
   custom_ipconfig_set_tcp_rx_buffer, custom_ip_http_server,
   custom_ip_http_server_method, custom_httpc_method, custom_ip_hostname,
   custom_ip_dns_local_domain, custom_ipdns, custom_ip_dns_server,
   custom_ip_dns_server_addr, custom_ip_dns_client,
   custom_ip_resolve_hostname, t_ping, t_ping6}
ServiceOps ==
  {custom_ip_sntp_srvr_addr, custom_ip_sntp_get_time,
   custom_ip_sntp_get_time_of_day, custom_ip_sntp_modify_zone_dse,
   custom_ip_sntp_query_srvr_address, custom_ip_sntp_client,
   custom_ipv4_route, custom_ipv6_route, custom_tcp_connection_timeout,
   custom_ota_upgrade, custom_ota_read_area, custom_ota_done,
   custom_ota_session_start, custom_ota_partition_get_size,
   custom_ota_partition_erase, custom_ota_partition_verify_checksum,
   custom_ota_parse_image_hdr[FALSE],
   custom_ota_partition_write_data[FALSE], SSL_ctx_new, SSL_ctx_free,
   SSL_new, SSL_addCert, SSL_setCaList, SSL_storeCert, SSL_loadCert, SSL_listCert}
MixedOps == {t_socket, t_getsockopt, t_ipconfig_dhcp, SSL_addCert}
LimitedOps == {t_ipconfig, custom_ota_done, SSL_listCert}

\* Two tasks with sockets of their own; a task that accepts connections; a
\* client; one that accepts without blocking; SSL; the calls on the global
\* context, by kind; two tasks and a target that may be late, with calls that
\* wait on and with calls that give up; two tasks that share sockets.
Sound ==
  {[ops |-> AllMake(TwoOps), handles |-> {1, 2}, inbox |-> 2,
    happens |-> {"peer_close"}],
   [ops |-> OneMakes(ServerOps), handles |-> {1, 2}, inbox |-> 1,
    happens |-> {"incoming", "peer_close", "accept_early"}],
   [ops |-> OneMakes(ClientOps), handles |-> {1, 2}, inbox |-> 2,
    happens |-> {"send_fails", "peer_close", "suspend"}],
   [ops |-> OneMakes(NonBlockingOps), handles |-> {1, 2}, inbox |-> 2,
    happens |-> {"send_fails", "incoming", "peer_close"}],
   [ops |-> OneMakes(SslOps), handles |-> {1, 2}, inbox |-> 1,
    happens |-> {"send_fails", "peer_close"}],
   [ops |-> OneMakes(IpOps), handles |-> {}, inbox |-> 1,
    happens |-> {"send_fails"}],
   [ops |-> OneMakes(ServiceOps), handles |-> {}, inbox |-> 1,
    happens |-> {"send_fails"}],
   [ops |-> AllMake(MixedOps), handles |-> {1}, inbox |-> 2,
    happens |-> {"late"}],
   [ops |-> AllMake(LimitedOps), handles |-> {}, inbox |-> 2,
    happens |-> {"late"}],
   [ops |-> AllMake({t_socket, t_listen}), handles |-> {1}, inbox |-> 1,
    happens |-> {"share"}]}

\* Events that come while a call is under way; a peer that closes a
\* connection with data to read; more connections than contexts; a socket
\* that is used, or closed, while the answer to an accept is stored in it.
Hard ==
  {[ops |-> OneMakes({t_socket, t_listen, t_accept}), handles |-> {1, 2},
    inbox |-> 1, happens |-> {"incoming_busy", "accept_error"}],
   [ops |-> OneMakes({t_socket, t_connect, SSL_set_fd, SSL_shutdown,
                      t_shutdown}),
    handles |-> {1}, inbox |-> 1, happens |-> {"peer_close_busy", "ssl_left"}],
   [ops |-> OneMakes(TwoOps \cup {t_bind}), handles |-> {1, 2}, inbox |-> 2,
    happens |-> {"data", "peer_close_busy"}],
   [ops |-> OneMakes(TwoOps), handles |-> {1, 2}, inbox |-> 1,
    happens |-> {"data", "peer_close", "reuse"}],
   [ops |-> OneMakes(ServerOps), handles |-> {1, 2, 3}, inbox |-> 1,
    happens |-> {"peer_close"}],
   [ops |-> OneMakes({t_socket, t_listen, t_accept_nb, t_shutdown}),
    handles |-> {1, 2, 3}, inbox |-> 1, happens |-> {}],
   [ops |-> OneMakes({t_socket, t_listen, t_accept_nb, t_shutdown}),
    handles |-> {1, 2}, inbox |-> 1, happens |-> {"accept_closed"}],
   [ops |-> OneMakes({t_socket, t_listen, t_accept, t_shutdown}),
    handles |-> {1, 2}, inbox |-> 1,
    happens |-> {"accept_error", "accept_closed"}],
   [ops |-> OneMakes({t_socket, t_listen, t_accept_nb}),
    handles |-> {1, 2}, inbox |-> 1, happens |-> {"accept_nb_error"}],
   [ops |-> OneMakes({t_socket, t_listen, t_accept_nb, t_getsockopt}),
    handles |-> {1, 2}, inbox |-> 1, happens |-> {"accept_mixed"}]}

MCSettings == Sound \cup Hard
=============================================================================
