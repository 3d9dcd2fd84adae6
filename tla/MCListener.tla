----------------------------- MODULE MCListener -----------------------------
(***************************************************************************)
(* Configurations for TLC: two ports and none, equivalent names of the tcp *)
(* transport, TLS blocks that do and do not build, an unknown network,     *)
(* flows with and without security, valid and invalid decryption strings.  *)
(***************************************************************************)
EXTENDS Listener

Config(p, net, sec, set, dec, flow) ==
    [port |-> p, tables |-> IF sec = "none" THEN "t1" ELSE "t2",
     stream |-> [network |-> net, security |-> sec, settings |-> set],
     vless |-> [decryption |-> dec, flow |-> flow]]

AllConfigs ==
    { Config(1, "",        "none", "a",   "",     "vision"),
      Config(1, "tcp",     "tls",  "a",   "",     "vision"),
      Config(1, "tcp",     "tls",  "b",   "",     "vision"),
      Config(1, "tcp",     "tls",  "bad", "none", ""),
      Config(2, "tcp",     "none", "a",   "key",  ""),
      Config(2, "ws",      "tls",  "a",   "key",  "vision"),
      Config(2, "ws",      "tls",  "bad", "junk", ""),
      Config(2, "unknown", "none", "a",   "key",  ""),
      Config(0, "tcp",     "none", "a",   "",     "") }

DecryptionStrings == {"", "none", "junk", "key"}
ValidKeys         == {"key"}
TableValues       == {"", "t1", "t2"}
=============================================================================
