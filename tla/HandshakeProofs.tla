-------------------------- MODULE HandshakeProofs ---------------------------
(***************************************************************************)
(* The invariants of Handshake for any keys, configurations and requests,  *)
(* from HandshakeAssumption.                                               *)
(***************************************************************************)
EXTENDS Handshake, TLAPS

-----------------------------------------------------------------------------
(* The inductive invariant                                                 *)

\* The steps before the header has been read into the buffer, after the user
\* is known, and after the second read.
Early  == {"idle", "accepted"}
Inside == {"lookup", "addons", "flow", "exclusive", "dispatch", "target",
           "setup"} \cup Relays
Parsed == {"flow", "exclusive", "dispatch", "target", "setup"} \cup Relays

\* s.decryption is the instance of s.vless, or nil in the middle of a rebuild;
\* what the handler saw of it is no other unless the settings have changed.
SettingsAgree ==
    /\ decryption \in {Nil, Usable(vless.decryption)}
    /\ ~Locked => decryption = Usable(vless.decryption)
    /\ required => vless.decryption \in Keys
    /\ pc \in Early => seen = Nil
    /\ steady => seen \in {Nil, Usable(vless.decryption)}

\* The handler goes on only inside the client's own tunnel, and without one
\* only for a reason.
LayerRight ==
    /\ pc \in Inside => layer = req.key
    /\ pc \in Inside \cup {"prefix"} => (layer = Nil /\ required => torn)

\* What the steps after the second read rely on.
HeaderRead ==
    /\ flow = XRV => req.flow = XRV
    /\ pc \in Parsed => n >= Needed /\ (flow = req.flow \/ addonsCut)
    /\ pc \in {"exclusive", "setup", "vision"} => isVision
    /\ pc \in {"tcp", "udp", "mux"} => ~isVision
    /\ pc = "target" => req.cmd \in {"tcp", "udp"}
    /\ pc \in Relays \cup {"setup"} => n >= HeaderLen /\ initial = n - HeaderLen

IInv == /\ TypeOK /\ SettingsAgree /\ LayerRight /\ HeaderRead
        /\ PanicHasCause /\ VisionOnlyOnDirectConn /\ SteadyClientsServed

-----------------------------------------------------------------------------
(* The layout of a request                                                 *)

\* The fields of a request that are numbers.
LEMMA RequestFields ==
    ASSUME req \in RequestType
    PROVE  req.addons \in Nat /\ req.domain \in Nat
<1>1. req.addons \in 0..255 /\ req.domain \in 0..255
  BY DEF RequestType
<1> QED  BY <1>1

\* Requests are of their type, and so is what has been read of them.
LEMMA TypedRequest == TypeOK => req \in RequestType /\ n \in Nat
<1> SUFFICES ASSUME TypeOK PROVE req \in RequestType /\ n \in Nat
  OBVIOUS
<1>1. req \in RequestType
  <2>1. req \in Requests
    BY DEF TypeOK
  <2> QED  BY <2>1, HandshakeAssumption
<1>2. n \in 0..BufLen
  BY DEF TypeOK
<1>3. n \in Nat
  BY <1>2 DEF BufLen
<1> QED  BY <1>1, <1>3

\* The positions of a request in the buffer are natural numbers.
LEMMA Positions ==
    ASSUME req \in RequestType
    PROVE  /\ AddrStart \in Nat /\ AddrLen \in Nat /\ HeaderLen \in Nat
           /\ Needed = AddrStart
           /\ req.cmd \in {"tcp", "udp"} => HeaderLen = AddrStart + AddrLen
           /\ req.cmd = "mux" => HeaderLen = Prefix + req.addons + 1
           /\ Prefix + req.addons \in Nat /\ Prefix + req.addons + 1 <= Needed
<1>1. req.addons \in Nat /\ req.domain \in Nat
  BY RequestFields
<1>2. AddrStart \in Nat /\ Needed = AddrStart /\ Prefix + req.addons + 1 <= Needed
  BY <1>1 DEF AddrStart, Needed, Prefix, Tail
<1>3. AddrLen \in Nat
  BY <1>1 DEF AddrLen
<1>4. Prefix + req.addons + 1 \in Nat /\ Prefix + req.addons \in Nat
  BY <1>1 DEF Prefix
<1> QED  BY <1>2, <1>3, <1>4 DEF HeaderLen

\* The parser's end of the address is the layout's, or it is past the bytes
\* that have arrived; it is never past the layout's.
LEMMA AddressEnd ==
    ASSUME req \in RequestType, n \in Nat, n >= Needed,
           req.cmd \in {"tcp", "udp"}
    PROVE  /\ AddrEnd \in Nat
           /\ AddrEnd <= HeaderLen
           /\ AddrEnd <= n => AddrEnd = HeaderLen
<1>1. /\ AddrStart \in Nat /\ AddrLen \in Nat /\ n >= AddrStart
      /\ HeaderLen = AddrStart + AddrLen
  BY Positions
<1>2. CASE req.atype = "domain"
  <2>1. AddrLen = 1 + req.domain /\ req.domain \in Nat
    BY <1>2, RequestFields DEF AddrLen
  <2> QED  BY <1>1, <1>2, <2>1 DEF AddrEnd
<1>3. CASE req.atype # "domain"
  BY <1>1, <1>3 DEF AddrEnd
<1> QED  BY <1>2, <1>3

LEMMA InitIInv == Init => IInv
<1> SUFFICES ASSUME Init PROVE IInv
  OBVIOUS
<1>1. TypeOK
  <2>1. /\ 0 \in 0..BufLen /\ "" \in {XRV, "", "garbled"} /\ "idle" \in Ends
        /\ "none" \in Keys \cup {"none", "invalid"} /\ "" \in {XRV, ""}
    BY DEF BufLen, Ends
  <2> QED  BY <2>1 DEF Init, TypeOK
<1>2. SettingsAgree
  BY HandshakeAssumption DEF Init, SettingsAgree, Usable, Locked
<1>3. LayerRight /\ HeaderRead
  BY DEF Init, LayerRight, HeaderRead, Inside, Parsed, Relays, XRV
<1>4. PanicHasCause /\ VisionOnlyOnDirectConn /\ SteadyClientsServed
  BY DEF Init, PanicHasCause, VisionOnlyOnDirectConn, SteadyClientsServed
<1> QED  BY <1>1, <1>2, <1>3, <1>4 DEF IInv

-----------------------------------------------------------------------------
(* The steps                                                               *)

\* The layout depends on the request alone, and no step changes that.
LEMMA LayoutFixed ==
    req' = req => HeaderLen' = HeaderLen /\ Needed' = Needed
BY DEF HeaderLen, Needed, AddrStart, AddrLen

LEMMA BeginStep ==
    ASSUME IInv, NEW cfg \in Configs, BeginUpdate(cfg)
    PROVE  IInv'
<1> USE DEF IInv, BeginUpdate, parseVars
<1>1. TypeOK'
  BY DEF TypeOK
<1>2. SettingsAgree'
  BY DEF SettingsAgree, Usable, Locked
<1>3. LayerRight'
  BY DEF LayerRight
<1>4. HeaderLen' = HeaderLen /\ Needed' = Needed
  BY LayoutFixed
<1>5. HeaderRead' /\ PanicHasCause'
  BY <1>4 DEF HeaderRead, PanicHasCause, isVision
<1>6. VisionOnlyOnDirectConn' /\ SteadyClientsServed'
  BY DEF VisionOnlyOnDirectConn, SteadyClientsServed, Suits, Usable
<1> QED  BY <1>1, <1>2, <1>3, <1>5, <1>6

LEMMA FinishStep ==
    ASSUME IInv, FinishUpdate
    PROVE  IInv'
<1> USE DEF IInv, FinishUpdate, parseVars
<1> PICK cfg \in applying : /\ decryption' = Rebuilt(cfg.decryption)
                            /\ vless' = Sanitized(cfg)
  OBVIOUS
<1>1. cfg \in ConfigType
  BY HandshakeAssumption DEF TypeOK
<1>2. /\ vless' \in [decryption : Keys \cup {"none", "invalid"}, flow : {XRV, ""}]
      /\ vless'.decryption = cfg.decryption
      /\ decryption' = Usable(vless'.decryption)
  BY <1>1 DEF ConfigType, Sanitized, Rebuilt
<1>3. TypeOK'
  BY <1>2 DEF TypeOK, Usable
<1>4. SettingsAgree'
  BY <1>2 DEF SettingsAgree, Usable, Locked, TypeOK
<1>5. LayerRight'
  BY DEF LayerRight
<1>6. HeaderLen' = HeaderLen /\ Needed' = Needed
  BY LayoutFixed
<1>7. HeaderRead' /\ PanicHasCause'
  BY <1>6 DEF HeaderRead, PanicHasCause, isVision
<1>8. VisionOnlyOnDirectConn' /\ SteadyClientsServed'
  BY DEF VisionOnlyOnDirectConn, SteadyClientsServed
<1> QED  BY <1>3, <1>4, <1>5, <1>7, <1>8

LEMMA AcceptStep ==
    ASSUME IInv, Accept
    PROVE  IInv'
<1> USE DEF IInv, Accept, parseVars, serverVars
<1>1. TypeOK'
  <2>1. required' \in BOOLEAN /\ steady' \in BOOLEAN /\ pc' \in Ends \cup Relays \cup Steps
    BY DEF Locked, Steps
  <2> QED  BY <2>1 DEF TypeOK
<1>2. SettingsAgree'
  BY DEF SettingsAgree, Early, Usable, Locked
<1>3. LayerRight' /\ HeaderRead' /\ PanicHasCause'
  BY DEF LayerRight, HeaderRead, PanicHasCause, Inside, Parsed, Relays
<1>4. VisionOnlyOnDirectConn' /\ SteadyClientsServed'
  BY DEF VisionOnlyOnDirectConn, SteadyClientsServed
<1> QED  BY <1>1, <1>2, <1>3, <1>4

LEMMA CheckStep ==
    ASSUME IInv, CheckDecryption
    PROVE  IInv'
<1> USE DEF IInv, CheckDecryption, Goto, parseVars, serverVars
<1>1. pc' \in {"prefix", "tunnel"}
  OBVIOUS
<1>2. TypeOK'
  BY <1>1 DEF TypeOK, Steps, Locked
<1>3. SettingsAgree'
  BY <1>1 DEF SettingsAgree, Early, Usable, Locked
<1>4. LayerRight'
  <2>1. pc' = "prefix" /\ required' => torn'
    BY HandshakeAssumption DEF SettingsAgree, Usable
  <2> QED  BY <1>1, <2>1 DEF LayerRight, Inside, Relays
<1>5. HeaderRead' /\ PanicHasCause'
  BY <1>1 DEF HeaderRead, PanicHasCause, Parsed, Relays
<1>6. VisionOnlyOnDirectConn' /\ SteadyClientsServed'
  BY <1>1 DEF VisionOnlyOnDirectConn, SteadyClientsServed
<1> QED  BY <1>2, <1>3, <1>4, <1>5, <1>6

LEMMA HandshakeStep ==
    ASSUME IInv, DoHandshake
    PROVE  IInv'
<1> USE DEF IInv, DoHandshake, Goto, parseVars, serverVars
<1> PICK inst \in {seen, decryption} :
      /\ pc' = HandshakeLeadsTo(inst)
      /\ layer' = IF inst = req.key THEN inst ELSE Nil
      /\ torn' = (torn \/ inst = Nil)
  OBVIOUS
<1>1. /\ pc' \in {"panic", "prefix", "refused"}
      /\ pc' = "panic" => inst = Nil
      /\ pc' = "prefix" => inst # Nil /\ inst = req.key
      /\ pc' = "refused" => inst # Nil /\ inst # req.key
  BY DEF HandshakeLeadsTo
<1>2. TypeOK'
  BY <1>1 DEF TypeOK, Steps, Ends
<1>3. SettingsAgree'
  BY <1>1 DEF SettingsAgree, Early, Usable, Locked
<1>4. LayerRight'
  BY <1>1 DEF LayerRight, Inside, Relays
<1>5. HeaderRead' /\ PanicHasCause' /\ VisionOnlyOnDirectConn'
  BY <1>1 DEF HeaderRead, PanicHasCause, VisionOnlyOnDirectConn, Parsed, Relays
<1>6. SteadyClientsServed'
  BY <1>1 DEF SteadyClientsServed, Suits, SettingsAgree, Usable
<1> QED  BY <1>2, <1>3, <1>4, <1>5, <1>6

LEMMA PrefixStep ==
    ASSUME IInv, ReadPrefix
    PROVE  IInv'
<1> USE DEF IInv, ReadPrefix, Goto, serverVars
<1>1. pc' \in {"lookup", "done"} /\ (pc' = "lookup" => layer = req.key)
  OBVIOUS
<1>2. n' \in 0..BufLen
  BY DEF ReadUpTo, Prefix, BufLen
<1>3. TypeOK'
  BY <1>1, <1>2 DEF TypeOK, Steps, Ends
<1>4. SettingsAgree'
  BY <1>1 DEF SettingsAgree, Early, Usable, Locked
<1>5. LayerRight'
  BY <1>1 DEF LayerRight, Inside, Relays
<1>6. HeaderRead' /\ PanicHasCause' /\ VisionOnlyOnDirectConn' /\ SteadyClientsServed'
  BY <1>1 DEF HeaderRead, PanicHasCause, VisionOnlyOnDirectConn, SteadyClientsServed,
     Parsed, Relays
<1> QED  BY <1>3, <1>4, <1>5, <1>6

LEMMA LookupStep ==
    ASSUME IInv, LookupUser
    PROVE  IInv'
<1> USE DEF IInv, LookupUser, Goto, parseVars, serverVars
<1>1. pc' \in {"addons", "done"}
  OBVIOUS
<1>2. TypeOK'
  BY <1>1 DEF TypeOK, Steps, Ends
<1>3. SettingsAgree'
  BY <1>1 DEF SettingsAgree, Early, Usable, Locked
<1>4. LayerRight'
  BY <1>1 DEF LayerRight, Inside, Relays
<1>5. HeaderRead' /\ PanicHasCause' /\ VisionOnlyOnDirectConn' /\ SteadyClientsServed'
  BY <1>1 DEF HeaderRead, PanicHasCause, VisionOnlyOnDirectConn, SteadyClientsServed,
     Parsed, Relays
<1> QED  BY <1>2, <1>3, <1>4, <1>5

LEMMA AddonsStep ==
    ASSUME IInv, ReadAddons
    PROVE  IInv'
<1> USE DEF IInv, ReadAddons, Goto, serverVars
<1>0. req \in RequestType /\ n \in Nat
  BY TypedRequest
<1>1. pc' \in {"flow", "done"}
  OBVIOUS
<1>2. \/ pc' = "done" /\ n' = n /\ flow' = flow
      \/ /\ pc' = "flow" /\ flow' \in Decoded /\ flow' # "error"
         /\ (n' = n /\ n >= Needed) \/ n' \in ReadUpTo(Needed)
  OBVIOUS
<1>3. Needed \in Nat
  BY <1>0, Positions
<1>4. n' \in 0..BufLen /\ (pc' = "flow" => n' >= Needed)
  <2> HIDE DEF ReadAddons
  <2>1. n \in 0..BufLen
    BY DEF TypeOK
  <2> QED  BY <1>2, <1>3, <2>1 DEF ReadUpTo, BufLen
<1>5. /\ flow' \in {XRV, "", "garbled"}
      /\ flow' = XRV => req.flow = XRV
      /\ pc' = "flow" => flow' = req.flow \/ addonsCut'
      /\ addonsCut' \in BOOLEAN
  <2>1. req.flow \in {XRV, ""} /\ req.addons \in Nat
    BY <1>0, RequestFields DEF RequestType
  <2>2. addonsCut' = (n < Prefix + req.addons) /\ addonsCut' \in BOOLEAN
    OBVIOUS
  <2> HIDE DEF ReadAddons
  <2>3. CASE pc' = "done"
    <3>1. flow' = flow
      BY <1>2, <2>3
    <3> QED  BY <2>2, <2>3, <3>1 DEF TypeOK, HeaderRead
  <2>4. CASE pc' = "flow"
    <3>1. flow' \in Decoded /\ flow' # "error"
      BY <1>2, <2>4
    <3>2. flow' \in {req.flow, "garbled"}
      BY <3>1 DEF Decoded
    <3>3. n >= Prefix + req.addons => flow' = req.flow
      BY <3>1 DEF Decoded
    <3>4. ~addonsCut' => n >= Prefix + req.addons
      <4>1. n < Prefix + req.addons \/ n >= Prefix + req.addons
        <5>1. n \in Nat /\ Prefix + req.addons \in Nat
          BY <1>0, Positions
        <5> QED  BY ONLY <5>1
      <4> QED  BY ONLY <2>2, <4>1
    <3> QED  BY <2>1, <2>2, <3>2, <3>3, <3>4 DEF XRV
  <2> QED  BY <1>1, <2>3, <2>4
<1>6. TypeOK'
  BY <1>1, <1>4, <1>5 DEF TypeOK, Steps, Ends
<1>7. SettingsAgree'
  BY <1>1 DEF SettingsAgree, Early, Usable, Locked
<1>8. LayerRight'
  BY <1>1 DEF LayerRight, Inside, Relays
<1>9. HeaderRead'
  BY <1>1, <1>4, <1>5, LayoutFixed DEF HeaderRead, Parsed, Relays
<1>10. PanicHasCause' /\ VisionOnlyOnDirectConn' /\ SteadyClientsServed'
  BY <1>1 DEF PanicHasCause, VisionOnlyOnDirectConn, SteadyClientsServed
<1> QED  BY <1>6, <1>7, <1>8, <1>9, <1>10

LEMMA FlowStep ==
    ASSUME IInv, FlowGate
    PROVE  IInv'
<1> USE DEF IInv, FlowGate, Goto, parseVars, serverVars
<1>1. /\ pc' \in {"dispatch", "exclusive", "refused"}
      /\ pc' = "exclusive" => isVision
      /\ pc' = "refused" => isVision /\ vless.flow # XRV
  OBVIOUS
<1>2. TypeOK'
  BY <1>1 DEF TypeOK, Steps, Ends
<1>3. SettingsAgree'
  BY <1>1 DEF SettingsAgree, Early, Usable, Locked
<1>4. LayerRight'
  BY <1>1 DEF LayerRight, Inside, Relays
<1>5. HeaderRead'
  <2>1. HeaderLen' = HeaderLen /\ Needed' = Needed
    BY LayoutFixed
  <2> QED  BY <1>1, <2>1 DEF HeaderRead, Parsed, Relays, isVision
<1>6. PanicHasCause' /\ VisionOnlyOnDirectConn'
  BY <1>1 DEF PanicHasCause, VisionOnlyOnDirectConn
<1>7. SteadyClientsServed'
  BY <1>1 DEF SteadyClientsServed, Suits, HeaderRead, isVision
<1> QED  BY <1>2, <1>3, <1>4, <1>5, <1>6, <1>7

LEMMA ExclusiveStep ==
    ASSUME IInv, ExclusiveGate
    PROVE  IInv'
<1> USE DEF IInv, ExclusiveGate, Goto, parseVars, serverVars
<1>1. /\ pc' \in {"dispatch", "refused"}
      /\ pc' = "refused" => decryption # Nil
  OBVIOUS
<1>2. TypeOK'
  BY <1>1 DEF TypeOK, Steps, Ends, Locked
<1>3. SettingsAgree'
  BY <1>1 DEF SettingsAgree, Early, Usable, Locked
<1>4. LayerRight'
  BY <1>1 DEF LayerRight, Inside, Relays
<1>5. HeaderRead'
  BY <1>1, LayoutFixed DEF HeaderRead, Parsed, Relays
<1>6. PanicHasCause' /\ VisionOnlyOnDirectConn'
  BY <1>1 DEF PanicHasCause, VisionOnlyOnDirectConn
<1>7. SteadyClientsServed'
  BY <1>1 DEF SteadyClientsServed, Suits, HeaderRead, isVision, SettingsAgree
<1> QED  BY <1>2, <1>3, <1>4, <1>5, <1>6, <1>7

LEMMA DispatchStep ==
    ASSUME IInv, Dispatch
    PROVE  IInv'
<1> USE DEF IInv, Dispatch, Goto, serverVars
<1>0. req \in RequestType /\ n \in Nat /\ n \in 0..BufLen /\ n >= Needed
  BY TypedRequest DEF TypeOK, HeaderRead, Parsed
<1>1. \/ /\ req.cmd = "mux" /\ initial' = n - (Prefix + req.addons + 1)
         /\ pc' = IF isVision THEN "setup" ELSE "mux"
      \/ pc' = "done" /\ initial' = initial
      \/ req.cmd \in {"tcp", "udp"} /\ pc' = "target" /\ initial' = initial
  OBVIOUS
<1>2. pc' \in {"setup", "mux", "done", "target"}
  BY <1>1
<1>3. /\ Needed \in Nat /\ Prefix + req.addons + 1 \in Nat
      /\ Prefix + req.addons + 1 <= Needed
  BY <1>0, Positions, RequestFields DEF Prefix
<1>4. initial' \in 0..BufLen
  <2>1. initial \in 0..BufLen
    BY DEF TypeOK
  <2> DEFINE k == Prefix + req.addons + 1
  <2>2. k \in Nat /\ k <= n /\ n \in 0..512
    BY <1>0, <1>3 DEF BufLen
  <2>3. n - k \in 0..BufLen
    <3> HIDE DEF k
    <3> QED  BY ONLY <2>2 DEF BufLen
  <2> QED  BY <1>1, <2>1, <2>3
<1>5. pc' \in {"setup", "mux"} => n >= HeaderLen /\ initial' = n - HeaderLen
  <2>1. req.cmd = "mux" => HeaderLen = Prefix + req.addons + 1
    BY <1>0, Positions
  <2> HIDE DEF Dispatch
  <2> QED  BY <1>0, <1>1, <1>3, <2>1
<1>6. TypeOK'
  BY <1>2, <1>4 DEF TypeOK, Steps, Ends, Relays
<1>7. SettingsAgree'
  BY <1>2 DEF SettingsAgree, Early, Usable, Locked
<1>8. LayerRight'
  BY <1>2 DEF LayerRight, Inside, Relays
<1>9. HeaderRead'
  BY <1>1, <1>2, <1>5, LayoutFixed DEF HeaderRead, Parsed, Relays, isVision
<1>10. PanicHasCause' /\ VisionOnlyOnDirectConn' /\ SteadyClientsServed'
  BY <1>2 DEF PanicHasCause, VisionOnlyOnDirectConn, SteadyClientsServed
<1> QED  BY <1>6, <1>7, <1>8, <1>9, <1>10

LEMMA TargetStep ==
    ASSUME IInv, ParseTarget
    PROVE  IInv'
<1> USE DEF IInv
<1>0. /\ req \in RequestType /\ n \in Nat /\ n \in 0..BufLen /\ n >= Needed
      /\ req.cmd \in {"tcp", "udp"}
  BY TypedRequest DEF ParseTarget, TypeOK, HeaderRead, Parsed
<1>1. /\ AddrEnd \in Nat /\ AddrEnd <= HeaderLen
      /\ AddrEnd <= n => AddrEnd = HeaderLen
      /\ HeaderLen \in Nat
  BY <1>0, AddressEnd, Positions
<1> DEFINE refusal == req.atype = "invalid" \/ (isVision /\ req.cmd = "udp")
<1>2. \/ pc' = "panic" /\ ~(AddrEnd <= n)
      \/ pc' = "done"
      \/ /\ AddrEnd <= n /\ ~refusal
         /\ pc' = IF isVision THEN "setup" ELSE req.cmd
  <2>1. CASE AddrEnd > BufLen
    <3>1. ~(AddrEnd <= n)
      BY <1>0, <1>1, <2>1 DEF BufLen
    <3> QED  BY <2>1, <3>1 DEF ParseTarget, Goto
  <2>2. CASE AddrEnd <= BufLen /\ refusal
    <3>1. ~(AddrEnd > BufLen)
      BY <1>1, <2>2 DEF BufLen
    <3> QED  BY <2>2, <3>1 DEF ParseTarget, Goto
  <2>3. CASE AddrEnd <= BufLen /\ ~refusal
    <3>1. ~(AddrEnd > BufLen)
      BY <1>1, <2>3 DEF BufLen
    <3> QED  BY <2>3, <3>1 DEF ParseTarget, Goto
  <2> QED  BY <1>1, <2>1, <2>2, <2>3 DEF BufLen
<1>3. initial' = IF AddrEnd <= n /\ ~refusal THEN n - AddrEnd ELSE 0
  BY DEF ParseTarget
<1>4. UNCHANGED <<decryption, vless, applying, req, required, steady, seen, layer,
                  n, flow, addonsCut, torn>> /\ pc = "target"
  BY DEF ParseTarget, Goto, serverVars
<1> HIDE DEF refusal
<1>5. pc' \in {"panic", "done", "setup", "tcp", "udp"}
  BY <1>0, <1>2
<1>6. initial' \in 0..BufLen
  <2>1. initial' = 0 \/ (AddrEnd <= n /\ initial' = n - AddrEnd)
    BY <1>3
  <2>2. 0 \in 0..BufLen
    BY DEF BufLen
  <2>3. AddrEnd <= n => n - AddrEnd \in 0..BufLen
    <3>1. PICK a, b, m \in Nat : a = AddrEnd /\ b = n /\ m = BufLen
      BY <1>0, <1>1 DEF BufLen
    <3>2. b \in 0..m
      BY <1>0, <3>1
    <3>3. a <= b => b - a \in 0..m
      BY <3>2
    <3> QED
      BY <3>1, <3>3
  <2> QED
    BY <2>1, <2>2, <2>3
<1>7. pc' \in {"setup", "tcp", "udp"} => n >= HeaderLen /\ initial' = n - HeaderLen
  BY <1>0, <1>1, <1>2, <1>3
<1>8. pc' = "panic" => n < HeaderLen
  BY <1>0, <1>1, <1>2
<1>9. TypeOK'
  <2>1. pc' \in Ends \cup Relays \cup Steps
    BY <1>5 DEF Steps, Ends, Relays
  <2> QED  BY <1>4, <1>6, <2>1 DEF TypeOK
<1>10. SettingsAgree'
  BY <1>4, <1>5 DEF SettingsAgree, Early, Usable, Locked
<1>11. LayerRight'
  BY <1>4, <1>5 DEF LayerRight, Inside, Relays
<1>12. HeaderRead'
  <2>1. pc' = "setup" => isVision
    BY <1>0, <1>2
  <2>2. pc' \in {"tcp", "udp"} => ~isVision
    BY <1>2
  <2> QED  BY <1>4, <1>5, <1>7, <2>1, <2>2, LayoutFixed DEF HeaderRead, Parsed, Relays, isVision
<1>13. PanicHasCause' /\ VisionOnlyOnDirectConn' /\ SteadyClientsServed'
  BY <1>4, <1>5, <1>8, LayoutFixed DEF PanicHasCause, VisionOnlyOnDirectConn, SteadyClientsServed
<1> QED  BY <1>9, <1>10, <1>11, <1>12, <1>13

LEMMA SetupStep ==
    ASSUME IInv, SetupVision
    PROVE  IInv'
<1> USE DEF IInv, SetupVision, Goto, parseVars, serverVars
<1>1. \/ pc' = "vision" /\ DirectConn
      \/ pc' = "refused" /\ ~DirectConn
  OBVIOUS
<1>2. TypeOK'
  BY <1>1 DEF TypeOK, Ends, Relays
<1>3. SettingsAgree'
  BY <1>1 DEF SettingsAgree, Early, Usable, Locked
<1>4. LayerRight'
  BY <1>1 DEF LayerRight, Inside, Relays
<1>5. HeaderRead'
  BY <1>1, LayoutFixed DEF HeaderRead, Parsed, Relays, isVision
<1>6. PanicHasCause' /\ VisionOnlyOnDirectConn'
  BY <1>1 DEF PanicHasCause, VisionOnlyOnDirectConn, DirectConn, LayerRight, Inside
<1>7. SteadyClientsServed'
  BY <1>1 DEF SteadyClientsServed, Suits, HeaderRead, isVision, LayerRight, Inside,
     DirectConn
<1> QED  BY <1>2, <1>3, <1>4, <1>5, <1>6, <1>7

LEMMA HangupStep ==
    ASSUME IInv, Hangup
    PROVE  IInv'
<1> USE DEF IInv, Hangup, Goto, parseVars, serverVars
<1>1. TypeOK'
  BY DEF TypeOK, Ends
<1>2. SettingsAgree'
  BY DEF SettingsAgree, Early, Usable, Locked
<1>3. LayerRight' /\ HeaderRead'
  BY DEF LayerRight, HeaderRead, Inside, Parsed, Relays
<1>4. PanicHasCause' /\ VisionOnlyOnDirectConn' /\ SteadyClientsServed'
  BY DEF PanicHasCause, VisionOnlyOnDirectConn, SteadyClientsServed
<1> QED  BY <1>1, <1>2, <1>3, <1>4

LEMMA StutterStep ==
    ASSUME IInv, UNCHANGED vars
    PROVE  IInv'
<1> USE DEF IInv, vars, parseVars, serverVars
<1>1. TypeOK'
  BY DEF TypeOK
<1>7. SettingsAgree'
  BY DEF SettingsAgree, Usable, Locked
<1>2. HeaderLen' = HeaderLen /\ Needed' = Needed
  BY LayoutFixed
<1>3. LayerRight'
  BY DEF LayerRight
<1>4. HeaderRead'
  BY <1>2 DEF HeaderRead, isVision
<1>5. PanicHasCause'
  BY <1>2 DEF PanicHasCause
<1>6. VisionOnlyOnDirectConn' /\ SteadyClientsServed'
  BY DEF VisionOnlyOnDirectConn, SteadyClientsServed, Suits, Usable
<1> QED  BY <1>1, <1>3, <1>4, <1>5, <1>6, <1>7

-----------------------------------------------------------------------------
(* The theorems                                                            *)

\* The inductive invariant holds in every reachable state.
THEOREM Invariance == Spec => []IInv
<1>1. IInv /\ [Next]_vars => IInv'
  <2> SUFFICES ASSUME IInv, [Next]_vars PROVE IInv'
    OBVIOUS
  <2>1. CASE Handler
    BY <2>1, AcceptStep, CheckStep, HandshakeStep, PrefixStep, LookupStep, AddonsStep,
       FlowStep, ExclusiveStep, DispatchStep, TargetStep, SetupStep, HangupStep
    DEF Handler
  <2>2. CASE \E cfg \in Configs : BeginUpdate(cfg)
    BY <2>2, BeginStep
  <2>3. CASE FinishUpdate
    BY <2>3, FinishStep
  <2>4. CASE UNCHANGED vars
    BY <2>4, StutterStep
  <2> QED  BY <2>1, <2>2, <2>3, <2>4 DEF Next
<1> QED  BY <1>1, InitIInv, PTL DEF Spec

\* Buffer positions, settings and program counter stay in range, whatever the
\* client sends and however it arrives.
THEOREM TypeCorrect == Spec => []TypeOK
BY Invariance, PTL DEF IInv

\* A relay is entered with the whole header parsed as the wire layout says, for
\* every request and every way it is split into reads.
THEOREM ParsingExact == Spec => []ParsedAsSent
<1>1. IInv => ParsedAsSent
  BY DEF IInv, HeaderRead, ParsedAsSent, Relaying, Relays, Parsed
<1> QED  BY <1>1, Invariance, PTL

\* The handler panics only on a header that has not arrived whole, or when its
\* read of s.decryption falls into a rebuild.
THEOREM PanicsExplained == Spec => []PanicHasCause
BY Invariance, PTL DEF IInv

\* Vision never runs on a v2 tunnel or on a connection it cannot unwrap, although
\* s.decryption may be switched off between the handshake and the check.
THEOREM VisionSafe == Spec => []VisionOnlyOnDirectConn
BY Invariance, PTL DEF IInv

\* Without a v2 tunnel a client is served only when v2 was off at some moment
\* since Accept, or in the gap of a rebuild.
THEOREM PlaintextExplained == Spec => []PlaintextHasCause
<1>1. IInv => PlaintextHasCause
  BY DEF IInv, LayerRight, PlaintextHasCause, Relaying, Inside
<1> QED  BY <1>1, Invariance, PTL

\* s.decryption and s.vless agree after any number of updates: a client that
\* suits the settings is not refused while they stay as they are.
THEOREM SuitedClientsServed == Spec => []SteadyClientsServed
BY Invariance, PTL DEF IInv
=============================================================================
