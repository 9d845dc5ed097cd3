------------------------- MODULE MCPacketDissection -------------------------
(* Frames that end inside the first header, just after it, and, for the links
   that are the most common, after some more: Ethernet with a tag, IPv4 and TCP;
   raw IP with TCP or UDP and something in it. *)
EXTENDS PacketDissection

FrameLengthsOf ==
    [link \in LinkTypes |->
        CASE link = "Ethernet" -> {1, 19, 42, 58}
          [] link \in {"RawIp", "RawIp6"} -> {1, 36, 54, 75}
          [] link = "Ppi" -> {7, 18}
          [] link = "Prism" -> {145, 160}
          [] link = "Erf" -> {18, 37}
          [] OTHER -> {1, 30, 42}]

Unset == {-1, 0, 3}
=============================================================================
