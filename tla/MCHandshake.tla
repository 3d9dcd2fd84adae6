---------------------------- MODULE MCHandshake -----------------------------
(***************************************************************************)
(* Instances of Handshake: key rotation k1 -> k2 and v2 on and off, with   *)
(* and without Vision; requests of every command and address type.         *)
(***************************************************************************)
EXTENDS Handshake

Config(d, f, s) == [decryption |-> d, flow |-> f, stream |-> s]

\* Rotation, disabling, an unusable setting, Vision on and off by the stream.
RotatingConfigs ==
    {Config("k1", "", "tcp+tls"), Config("k2", "", "tcp+tls"),
     Config("none", XRV, "tcp+reality"), Config("none", XRV, "ws+tls"),
     Config("invalid", XRV, "tcp+tls")}

Request(k, o, f, c, t, d) ==
    [key |-> k, outer |-> o, addons |-> IF f = XRV THEN 18 ELSE 0, flow |-> f,
     cmd |-> c, atype |-> t, domain |-> d, payload |-> 5]

\* Tunnelled and direct clients, with and without Vision, and one whose
\* header is longer than the buffer.
ManyRequests ==
    UNION {{Request(k, o, f, c, "domain", 3) :
              k \in {"k1", Nil}, o \in {"tls13", "tls12", "reality"},
              f \in {XRV, ""}, c \in {"tcp", "udp", "mux", "unsupported"}},
           {Request(Nil, "other", "", "tcp", t, 0) :
              t \in {"ipv4", "ipv6", "domain", "invalid"}},
           {[Request(Nil, "tls13", XRV, "tcp", "domain", 255)
              EXCEPT !.addons = 255]}}

\* One plain TCP request to a domain, one setting.
OneRequest == {Request(Nil, "tls13", "", "tcp", "domain", 3)}
NoConfigs  == {}
=============================================================================
