--------------------------- MODULE ListenerProofs ---------------------------
(***************************************************************************)
(* Proofs, for every set of configurations and decryption keys, that hot   *)
(* reload applies the last configuration and that a served listener is     *)
(* stale only after a reload in the middle of a rebind.                    *)
(***************************************************************************)
EXTENDS Listener, TLAPS

(* The stored VLESS block against the delivered one: change detection      *)
(* compares with a copy whose flow may have been cleared, so the instance  *)
(* has to agree with the copy.                                             *)
VlessFollows ==
    /\ vless.decryption = last.vless.decryption
    /\ decryption = Instance(vless.decryption)

IInv ==
    /\ TypeOK
    /\ VlessFollows
    /\ LastConfigApplied
    /\ StaleOnlyByRace
    /\ NoUnattendedListener

LEMMA InitIInv == Init => IInv
<1> SUFFICES ASSUME Init PROVE IInv
  OBVIOUS
<1>1. TypeOK
  <2>1. ZeroStream \in Streams /\ ZeroVless \in VlessCfg
    BY KeyAssumption DEF ZeroStream, ZeroVless, Streams, Networks, Securities, Settings, VlessCfg
  <2>2. NilListener \in [port : Nat, stream : Streams, open : BOOLEAN]
    BY <2>1 DEF NilListener
  <2> QED
    BY <2>1, <2>2, KeyAssumption DEF Init, TypeOK
<1>2. VlessFollows /\ LastConfigApplied
  BY KeyAssumption
  DEF Init, VlessFollows, LastConfigApplied, Instance, AllowedFlow, streamEqual,
      Network, ZeroStream, ZeroVless
<1>3. StaleOnlyByRace /\ NoUnattendedListener
  BY DEF Init, StaleOnlyByRace, NoUnattendedListener, NilListener
<1> QED
  BY <1>1, <1>2, <1>3 DEF IInv

LEMMA UpdateStep ==
    ASSUME IInv, NEW cfg \in Configs, UpdateConfig(cfg)
    PROVE  IInv'
<1> USE DEF IInv
<1>1. /\ cfg.port \in Nat /\ cfg.stream \in Streams
      /\ cfg.vless \in VlessCfg /\ cfg.tables \in Tables
  BY ConfigAssumption
<1>2. AllowedFlow(cfg) \in {"", cfg.vless.flow}
  BY DEF AllowedFlow
<1>3. /\ vless' \in VlessCfg
      /\ vless'.decryption = cfg.vless.decryption
      /\ vless'.flow \in {AllowedFlow(cfg), cfg.vless.flow}
  BY <1>1, <1>2 DEF UpdateConfig, vlessEqual, VlessCfg, TypeOK
<1>4. decryption' = Instance(cfg.vless.decryption)
  BY DEF UpdateConfig, vlessEqual, VlessFollows
<1>5. stream' \in Streams /\ streamEqual(stream', cfg.stream)
  BY <1>1 DEF UpdateConfig, streamEqual, TypeOK
<1>6. TypeOK'
  BY <1>1, <1>3, <1>4, <1>5 DEF UpdateConfig, TypeOK, Instance, startVars
<1>7. VlessFollows' /\ LastConfigApplied'
  BY <1>2, <1>3, <1>4, <1>5 DEF UpdateConfig, VlessFollows, LastConfigApplied
<1>8. StaleOnlyByRace' /\ NoUnattendedListener'
  BY DEF UpdateConfig, ListenerChanged, StaleOnlyByRace, NoUnattendedListener,
         TypeOK, startVars
<1> QED
  BY <1>6, <1>7, <1>8

(* No step of Start touches the configuration. *)
LEMMA ConfigKept ==
    ASSUME IInv, UNCHANGED configVars, TypeOK', StaleOnlyByRace', NoUnattendedListener'
    PROVE  IInv'
BY DEF IInv, VlessFollows, LastConfigApplied, configVars

LEMMA StepIInv == IInv /\ [Next]_vars => IInv'
<1> SUFFICES ASSUME IInv, [Next]_vars PROVE IInv'
  OBVIOUS
<1>1. CASE \E cfg \in Configs : UpdateConfig(cfg)
  BY <1>1, UpdateStep
<1>2. CASE ReadConfig
  BY <1>2, ConfigKept DEF ReadConfig, IInv, TypeOK, StaleOnlyByRace,
                          NoUnattendedListener, configVars
<1>3. CASE ListenSucceeds
  BY <1>3, ConfigKept DEF ListenSucceeds, IInv, TypeOK, StaleOnlyByRace,
                          NoUnattendedListener, configVars
<1>4. CASE ListenFails
  BY <1>4, ConfigKept DEF ListenFails, IInv, TypeOK, StaleOnlyByRace,
                          NoUnattendedListener, configVars
<1>5. CASE Publish
  <2>1. TypeOK'
    BY <1>5 DEF Publish, IInv, TypeOK, ListenerOn, configVars
  <2>2. StaleOnlyByRace' /\ NoUnattendedListener'
    BY <1>5 DEF Publish, StaleOnlyByRace, NoUnattendedListener, ListenerOn, configVars
  <2> QED
    BY <1>5, <2>1, <2>2, ConfigKept DEF Publish
<1>6. CASE AcceptClosed
  BY <1>6, ConfigKept DEF AcceptClosed, IInv, TypeOK, StaleOnlyByRace,
                          NoUnattendedListener, configVars
<1>7. CASE AcceptFails
  BY <1>7, ConfigKept DEF AcceptFails, IInv, TypeOK, StaleOnlyByRace,
                          NoUnattendedListener, configVars
<1>8. CASE Finalize
  BY <1>8, ConfigKept DEF Finalize, IInv, TypeOK, StaleOnlyByRace,
                          NoUnattendedListener, configVars, startVars
<1>9. CASE UNCHANGED vars
  BY <1>9, ConfigKept DEF vars, IInv, TypeOK, StaleOnlyByRace,
                          NoUnattendedListener, configVars, startVars
<1> QED
  BY <1>1, <1>2, <1>3, <1>4, <1>5, <1>6, <1>7, <1>8, <1>9 DEF Next, StartStep

LEMMA Invariance == Spec => []IInv
BY InitIInv, StepIInv, PTL DEF Spec

(* UpdateConfig and Start keep the fields of the server in their types. *)
THEOREM TypeCorrect == Spec => []TypeOK
<1>1. IInv => TypeOK
  BY DEF IInv
<1> QED
  BY <1>1, Invariance, PTL

(* Whatever configurations came before, the server runs the last one. *)
THEOREM LastConfigWins == Spec => []LastConfigApplied
<1>1. IInv => LastConfigApplied
  BY DEF IInv
<1> QED
  BY <1>1, Invariance, PTL

(* A served listener is outdated only after a reload between Start's read  *)
(* of the configuration and its publication of s.ln.                       *)
THEOREM ServedListenerCurrent == Spec => []StaleOnlyByRace
<1>1. IInv => StaleOnlyByRace
  BY DEF IInv
<1> QED
  BY <1>1, Invariance, PTL

(* Start binds with the previous listener closed, unless Accept failed. *)
THEOREM ListenersAttended == Spec => []NoUnattendedListener
<1>1. IInv => NoUnattendedListener
  BY DEF IInv
<1> QED
  BY <1>1, Invariance, PTL

(* Only a change of port or transport closes the listener. *)
THEOREM RebindJustified == Spec => RebindOnlyOnChange
<1> DEFINE A == ln.open /\ ~ln'.open => port' # port \/ ~streamEqual(stream', stream)
<1>1. IInv /\ [Next]_vars => [A]_vars
  <2> SUFFICES ASSUME IInv, Next, ln.open, ~ln'.open
               PROVE  port' # port \/ ~streamEqual(stream', stream)
    OBVIOUS
  <2>1. PICK cfg \in Configs : UpdateConfig(cfg)
    BY DEF Next, StartStep, ReadConfig, ListenSucceeds, ListenFails, Publish,
           AcceptClosed, AcceptFails, Finalize, ListenerOn
  <2>2. ListenerChanged(cfg)
    BY <2>1 DEF UpdateConfig
  <2> QED
    BY <2>1, <2>2 DEF UpdateConfig, ListenerChanged, streamEqual
<1> QED
  BY <1>1, Invariance, PTL DEF Spec, RebindOnlyOnChange
=============================================================================
