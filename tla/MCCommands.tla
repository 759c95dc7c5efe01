----------------------------- MODULE MCCommands -----------------------------
(***************************************************************************)
(* The command modules of testpmd side by side.  They share no state; a    *)
(* behaviour exercises one family of commands, chosen at the start, so     *)
(* that the families add up instead of multiplying.                        *)
(***************************************************************************)
EXTENDS TxOffload, FlowControl, Filters, PortSettings, Registers, LaunchArgs, TLC

CONSTANTS Families,
          MaxCmds     \* family -> commands of one behaviour, for the large families

VARIABLES family, typedCmds

vars == <<off, fc_conf, pfc, want, filtvars, dev, glob, typed, regvars, mcvars, qmapvars, txpkts,
          launchvars, family, typedCmds>>

SettingsFamilies ==
  {"receive", "vffilter", "vfmode", "vfrate", "mirror", "rss", "reta", "hash", "tunnel", "bond",
   "bypass", "global"}
LaunchFamilies == {"counts", "numa", "numbers", "words"}

Init == /\ family \in Families /\ typedCmds = 0
        /\ OffloadInit /\ FcInit /\ FiltInit /\ SettingsInit /\ RegInit /\ McInit /\ QmapInit
        /\ TxInit /\ LaunchInit

SettingsNext ==
  \/ (family = "receive" /\ ReceiveNext)   \/ (family = "vffilter" /\ VfFilterNext)
  \/ (family = "vfmode" /\ VfModeNext)     \/ (family = "vfrate" /\ VfRateNext)
  \/ (family = "mirror" /\ MirrorNext)     \/ (family = "rss" /\ RssNext)
  \/ (family = "reta" /\ RetaNext)         \/ (family = "hash" /\ HashNext)
  \/ (family = "tunnel" /\ TunnelNext)     \/ (family = "bond" /\ BondNext)
  \/ (family = "bypass" /\ BypassNext)     \/ (family = "global" /\ GlobalNext)

LaunchNext ==
  \/ (family = "counts" /\ CountOptions)   \/ (family = "numa" /\ NumaOptions)
  \/ (family = "numbers" /\ NumberOptions) \/ (family = "words" /\ WordOptions)
  \/ family \in LaunchFamilies /\ LastOption

SettingsVars == <<dev, glob, typed>>
FcVars == <<fc_conf, pfc, want>>

Next ==
  /\ UNCHANGED family
  /\ IF family \in DOMAIN MaxCmds THEN typedCmds < MaxCmds[family] /\ typedCmds' = typedCmds + 1
                                   ELSE UNCHANGED typedCmds
  /\ \/ /\ \/ (family = "offload" /\ OffloadNext) \/ (family = "insert" /\ InsertNext)
        /\ UNCHANGED <<FcVars, filtvars, SettingsVars, regvars, mcvars, qmapvars, txpkts, launchvars>>
     \/ /\ family = "flow" /\ FcNext
        /\ UNCHANGED <<off, filtvars, SettingsVars, regvars, mcvars, qmapvars, txpkts, launchvars>>
     \/ /\ \/ (family = "request" /\ RequestNext) \/ (family = "fdir" /\ TableNext)
        /\ UNCHANGED <<off, FcVars, SettingsVars, regvars, mcvars, qmapvars, txpkts, launchvars>>
     \/ /\ SettingsNext
        /\ UNCHANGED <<off, FcVars, filtvars, regvars, mcvars, qmapvars, txpkts, launchvars>>
     \/ /\ family = "reg" /\ RegNext
        /\ UNCHANGED <<off, FcVars, filtvars, SettingsVars, mcvars, qmapvars, txpkts, launchvars>>
     \/ /\ family = "mcast" /\ cmd_mcast_addr
        /\ UNCHANGED <<off, FcVars, filtvars, SettingsVars, regvars, qmapvars, txpkts, launchvars>>
     \/ /\ family = "qmap" /\ QmapNext
        /\ UNCHANGED <<off, FcVars, filtvars, SettingsVars, regvars, mcvars, txpkts, launchvars>>
     \/ /\ family = "txpkts" /\ TxNext
        /\ UNCHANGED <<off, FcVars, filtvars, SettingsVars, regvars, mcvars, qmapvars, launchvars>>
     \/ /\ LaunchNext
        /\ UNCHANGED <<off, FcVars, filtvars, SettingsVars, regvars, mcvars, qmapvars, txpkts>>

Spec == Init /\ [][Next]_vars

\* Instances.
AllFamilies == {"offload", "insert", "flow", "request", "fdir", "reg", "mcast", "qmap", "txpkts"}
               \union SettingsFamilies \union LaunchFamilies
Limits == [f \in {"fdir", "qmap"} |-> 5]
          @@ [f \in {"request", "offload"} |-> 2]
          @@ [f \in {"insert"} |-> 4]
          @@ [f \in {"flow"} \union (SettingsFamilies \ {"reta", "vfrate", "bond", "global"}) |-> 3]
CountFamily == {"counts"}
=============================================================================
