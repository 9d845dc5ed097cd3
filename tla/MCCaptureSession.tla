-------------------------- MODULE MCCaptureSession --------------------------
(* One IPv4 address and two IPv6 addresses whose hashes are the same; a frame
   without IP and one with a tunnel. *)
EXTENDS CaptureSession

CONSTANTS a4, a6, b6, p, q

Key(address) == IF address = a4 THEN 4 ELSE 6

Ip(from, to) == [kind |-> "ip", from |-> from, to |-> to]
Transport(kind, from, to) == [kind |-> kind, from |-> from, to |-> to]

Web == <<Ip(a4, a6), Transport("tcp", p, q)>>
Answer == <<Ip(b6, a4), Transport("tcp", q, p)>>
Ping == <<Ip(b6, a6)>>
Tunnel == <<Ip(a4, b6), Transport("udp", p, p), Ip(a6, a6)>>
Arp == << >>

CaptureFiles == {<<Web, Answer>>, <<Ping, Arp>>, <<Tunnel, Ping>>}
=============================================================================
