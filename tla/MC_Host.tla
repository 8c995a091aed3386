------------------------------ MODULE MC_Host -------------------------------
(* The host side: pictures from the RDP, the choice of fields to show, sound.     *)
EXTENDS Rdp, Screen, AudioRing

VARIABLE part

\* Blank, or pictures of one 16-bit or 32-bit pixel a line, at most two lines, at 2 and 10.
Settings == [r \in ViRegisters |-> CASE r = "origin" -> {2, 10} [] r = "type" -> {0, 2, 3}
                                     [] r = "width" -> {0, 1} [] r = "lines" -> {1, 2} [] OTHER -> {0, 1}]
SettingsAtReset == [origin |-> 0, type |-> 3, width |-> 1, lines |-> 1, other |-> 0]

G(op, a, b, c) == [op |-> op, a |-> a, b |-> b, c |-> c]
Nop == G("Nop", 0, 0, 0)
\* Lists in RDRAM draw to granules 12 and 13, in DMEM to 14 and 15 and load from 15.
RdramLists ==
    [g \in 0 .. 15 |->
        CASE g = 2 -> G("SetColorImage", 96, 2, 4)
          [] g = 3 -> G("SetScissor", 0, 2, 0)
          [] g = 4 -> G("FillRectangle", 0, 0, 0)
          [] g \in {5, 7} -> G("FullSync", 0, 0, 0)
          [] g = 6 -> G("TextureRectangle", 0, 0, 0)
          [] OTHER -> Nop]
DmemLists ==
    [g \in 0 .. 7 |->
        CASE g = 0 -> G("LoadBlock", 16, 20, 0)
          [] g = 2 -> G("SetColorImage", 112, 2, 4)
          [] g = 3 -> G("SetTextureImage", 120, 2, 4)
          [] g = 4 -> G("FillRectangle", 0, 0, 0)
          [] g = 5 -> G("LoadTile", 0, 1, 0)
          [] g = 6 -> G("FullSync", 0, 0, 0)
          [] g = 7 -> G("SetOtherModes", 1, 0, 0)
          [] OTHER -> Nop]

\* The images these lists can set up keep the order that Orderly asks for.
HostImages ==
    {[color |-> c[1], size |-> c[2], width |-> c[3], height |-> h, top |-> 0, depth |-> 0, z |-> z,
      texture |-> t[1], tsize |-> t[2], twidth |-> t[3]] :
        c \in {<<0, 0, 0>>, <<96, 2, 4>>, <<112, 2, 4>>}, h \in {0, 2}, z \in BOOLEAN, t \in {<<0, 0, 0>>, <<120, 2, 4>>}}
ASSUME HostListsAreOrderly == Orderly(HostImages)

HostInit == RdpInit /\ ScreenInit /\ AudioInit /\ part \in {"rdp", "screen", "audio"}
HostNext ==
    /\ UNCHANGED part
    /\ \/ part = "rdp" /\ RdpNext /\ UNCHANGED <<screen, audioVars>>
       \/ part = "screen" /\ ScreenNext /\ UNCHANGED <<rdpVars, audioVars>>
       \/ part = "audio" /\ AudioNext /\ UNCHANGED <<rdpVars, screen>>
HostSpec == HostInit /\ [][HostNext]_<<rdpVars, screen, audioVars, part>>
=============================================================================
