-------------------------- MODULE MCNetworkManager --------------------------
(* Constants for checking NetworkManager.                                    *)
EXTENDS NetworkManager

AllSetups == {"WIFI", "ETH", "ETH_STATIC"}
NoTcp     == {{}}
SomeTcp   == {{}, {"tcp_server"}}
=============================================================================
