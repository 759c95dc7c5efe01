----------------------------- MODULE MCTestPmd -----------------------------
(* Sessions of testpmd for TLC.                                            *)
EXTENDS TestPmd

Launch(n, q, cores, topo, cmds, running) ==
  [ports |-> 0 .. n - 1, rxq |-> q, txq |-> q, nblc |-> cores, topo |-> topo,
   numa |-> FALSE, auto |-> FALSE, faults |-> FALSE, cmds |-> cmds, running |-> running]

\* Ports come and go; the commands typed while packets are forwarded are refused,
\* but for stop, quit and show.
Hotplug ==
  {Launch(2, 1, 2, t, {"port", "attach", "detach", "start", "quit"},
          {"stop", "quit", "show", "port", "attach", "start"}) : t \in {"paired"}}

\* Lists of ports; ports go.
Lists ==
  {Launch(2, 1, 2, t, {"port", "detach", "portlist", "default", "start"}, {"stop"}) :
     t \in {"chained", "loop"}}

\* Numbers of queues, with and without the icmpecho mode.
Queues ==
  {Launch(2, 1, 2, "paired", {"port", "rxtx", "start"}, {"stop", "show", "rxtx", "port"}),
   Launch(1, 1, 2, "paired", {"port", "rxtx", "mode", "start"}, {"stop"})}

\* Numbers of cores, the icmpecho mode, tx_first and the launch option auto-start.
Cores ==
  {[Launch(2, q, 1, t, {"nbcore", "mode", "start", "txfirst", "show"},
           {"stop", "show", "nbcore", "quit"}) EXCEPT !.auto = TRUE] :
     q \in {1, 2}, t \in {"paired", "loop"}}

\* Settings of the ports, with devices that fail.
Sets ==
  {[Launch(2, 2, 3, "paired", {"port", c, "start"}, {"stop", "port", c}) EXCEPT !.faults = TRUE] :
     c \in Kinds \union {"burst", "speed"}}

\* Bonding: slaves taken out while packets are forwarded, changes of the forwarding
\* configuration while it is in use, and a setting changed while slaves are started.
Bonding ==
  {Launch(2, 1, 2, "chained", {"port", "bond", "addslave", "unslave", "start"},
          {"stop", "addslave", "unslave", "quit"}),
   Launch(1, 1, 2, "chained", {"port", "bond", "addslave", "start"},
          {"stop", "nbport", "default"}),
   Launch(1, 2, 2, "chained", {"port", "bond", "addslave", "unslave", "primary", "thresh"}, {})}

\* DCB mode on some or all ports, with lists of cores and of ports, on a port that
\* does not exist, and with a port attached later.
Dcb ==
  {Launch(2, 1, 3, "paired", {"port", "dcb", "corelist", "start"}, {"stop", "show"}),
   Launch(2, 2, 3, "paired", {"port", "dcb", "portlist", "start"}, {"stop"}),
   Launch(1, 1, 3, "paired", {"port", "dcb absent", "start"}, {"stop", "show"}),
   Launch(1, 2, 3, "paired", {"port", "dcb", "attach"}, {})}

PassSessions ==
  Hotplug \union Lists \union Queues \union Cores \union Sets \union Bonding \union Dcb

\* DCB mode, then another number of queues.
DcbThenQueues ==
  {Launch(2, 1, 3, "paired", {"port", "dcb", "rxtx", "start"}, {"stop"})}
=============================================================================
