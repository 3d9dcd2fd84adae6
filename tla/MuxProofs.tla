----------------------------- MODULE MuxProofs ------------------------------
(***************************************************************************)
(* Proofs, for any number of sessions in a tunnel and every order of       *)
(* frames, goroutines and targets, that the sessions of a Mux.Cool tunnel  *)
(* do not disturb each other and that an undisturbed upload arrives.       *)
(***************************************************************************)
EXTENDS MuxAlone, SequenceTheorems, FiniteSetTheorems, TLAPS

(* A New frame that is not yet handled names a session without a past, and *)
(* there is one of them for a session.                                     *)
NewFramesFresh ==
    /\ Len(initial) <= 1
    /\ hpc # "start" => initial = <<>>
    /\ \A s \in Sessions : hpc = "start" \/ stage[s] = "none" => ses[s] = "none"
    /\ \A i \in 1..Len(initial) :
        /\ initial[i].op = "new" /\ stage[initial[i].s] # "none"
        /\ \A j \in 1..Len(wire) : wire[j] # initial[i]
    /\ \A i \in 1..Len(wire) : wire[i].op = "new" =>
        /\ ses[wire[i].s] = "none" /\ stage[wire[i].s] # "none"
        /\ \A j \in 1..Len(wire) : wire[j] = wire[i] => j = i

(* A session has pipes, a socket and goroutines only once it is dispatched, *)
(* and while it is open only its own target makes its goroutines stop.      *)
SessionSound(s) ==
    /\ ses[s] \in {"none", "failed"} =>
        /\ ~sock[s] /\ ~upEnd[s] /\ ~downCut[s]
        /\ g1[s] = "off" /\ g2[s] = "off"
    /\ ses[s] = "open" =>
        /\ ~upEnd[s] /\ ~downCut[s]
        /\ ~sock[s] \/ "gone" \in {g1[s], g2[s]} => tFin[s] \/ tFail[s]

(* No chunk of an answer is in two places.                                 *)
AnswerPlaced(s) ==
    /\ taken[s] <= tSent[s]
    /\ down[s] + delivered[s] + (IF g1[s] = "write" THEN 1 ELSE 0) <= taken[s]

SessionsSound == \A s \in Sessions : SessionSound(s) /\ AnswerPlaced(s)

IInv == TypeOK /\ NewFramesFresh /\ SessionsSound

LEMMA Initially == Init => IInv
<1> SUFFICES ASSUME Init PROVE IInv
  OBVIOUS
<1> USE MuxAssumption DEF All
<1>1. /\ stage \in [Sessions -> {"none", "new", "end"}]
      /\ ses \in [Sessions -> {"none", "open", "closed", "failed"}]
      /\ g1 \in [Sessions -> Copies] /\ g2 \in [Sessions -> Copies]
  BY DEF Init, Copies
<1>2. /\ sock \in [Sessions -> BOOLEAN] /\ upEnd \in [Sessions -> BOOLEAN]
      /\ downCut \in [Sessions -> BOOLEAN] /\ tFin \in [Sessions -> BOOLEAN]
      /\ tFail \in [Sessions -> BOOLEAN]
  BY DEF Init
<1>3. /\ sentUp \in [Sessions -> 0..MaxUp] /\ up \in [Sessions -> Nat]
      /\ tGot \in [Sessions -> Nat]
  BY DEF Init
<1>4. /\ down \in [Sessions -> 0..MaxDown] /\ tSent \in [Sessions -> 0..MaxDown]
      /\ taken \in [Sessions -> 0..MaxDown] /\ delivered \in [Sessions -> 0..MaxDown]
  BY DEF Init
<1>5. /\ initial \in Seq(Frames) /\ Len(initial) <= 1
      /\ \A i \in 1..Len(initial) :
            initial[i].op = "new" /\ stage[initial[i].s] = "new"
  <2>1. CASE \E s \in Sessions : stage[s] = "new"
    <3> DEFINE t == CHOOSE s \in Sessions : stage[s] = "new"
    <3>1. t \in Sessions /\ stage[t] = "new"
      BY <2>1
    <3>2. initial = <<Frame("new", t)>>
      BY <2>1 DEF Init
    <3> HIDE DEF t
    <3> QED
      BY <3>1, <3>2 DEF Frame, Frames
  <2>2. CASE ~\E s \in Sessions : stage[s] = "new"
    <3>1. initial = <<>>
      BY <2>2 DEF Init
    <3> QED
      BY <3>1
  <2> QED
    BY <2>1, <2>2
<1>6. wire = <<>> /\ wire \in Seq(Frames) /\ Len(wire) = 0
  BY DEF Init
<1>7. ended \in BOOLEAN /\ hpc = "start" /\ cutShort \in SUBSET Sessions
  BY Zenon DEF Init
<1>8. TypeOK
  BY <1>1, <1>2, <1>3, <1>4, <1>5, <1>6, <1>7 DEF TypeOK
<1>9. NewFramesFresh
  BY <1>5, <1>6, <1>7 DEF NewFramesFresh, Init
<1>10. SessionsSound
  BY DEF SessionsSound, SessionSound, AnswerPlaced, Init
<1> QED
  BY <1>8, <1>9, <1>10 DEF IInv

-----------------------------------------------------------------------------
(* The peers.                                                              *)

LEMMA FrameType ==
    /\ \A f \in Frames : f.op \in {"new", "keep", "end"} /\ f.s \in Sessions
    /\ \A f, h \in Frames : f.op = h.op /\ f.s = h.s => f = h
    /\ \A op \in {"new", "keep", "end"}, s \in Sessions : Frame(op, s) \in Frames
  BY DEF Frame, Frames

LEMMA SendsStep ==
    ASSUME IInv, NEW op \in {"new", "keep", "end"}, NEW s \in Sessions, Sends(op, s),
           op = "new" => stage[s] = "none",
           stage' = [stage EXCEPT ![s] = IF op = "new" THEN "new"
                                         ELSE IF op = "end" THEN "end" ELSE @],
           sentUp' \in [Sessions -> 0..MaxUp]
    PROVE  IInv'
<1> USE MuxAssumption DEF IInv
<1>0. /\ Frame(op, s) \in Frames
      /\ \A i \in 1..Len(wire) : wire[i] \in Frames
      /\ \A i \in 1..Len(initial) : initial[i] \in Frames
  <2>1. Frame(op, s) \in Frames
    BY FrameType
  <2>2. initial \in Seq(Frames) /\ wire \in Seq(Frames)
    BY DEF TypeOK
  <2>3. ASSUME NEW q \in Seq(Frames) PROVE \A i \in 1..Len(q) : q[i] \in Frames
    BY ElementOfSeq
  <2> QED
    BY <2>1, <2>2, <2>3
<1>1. /\ wire' \in Seq(Frames) /\ Len(wire') = Len(wire) + 1 /\ Len(wire) \in Nat
      /\ wire'[Len(wire) + 1] = Frame(op, s)
      /\ \A i \in 1..Len(wire) : wire'[i] = wire[i]
  <2>1. wire \in Seq(Frames) /\ wire' = Append(wire, Frame(op, s))
    BY DEF Sends, TypeOK
  <2>2. Len(wire) \in Nat
    BY <2>1
  <2> QED
    BY <1>0, <2>1, <2>2, AppendProperties
<1>2. stage' \in [Sessions -> {"none", "new", "end"}]
  BY DEF TypeOK
<1>3. TypeOK'
  BY <1>1, <1>2 DEF Sends, TypeOK, tunnelVars, targetVars, copyVars
<1>4. Frame(op, s).op = op /\ Frame(op, s).s = s
  BY DEF Frame
<1>5. ses' = ses /\ hpc' = hpc /\ initial' = initial
  BY DEF Sends, tunnelVars
<1>6. \A t \in Sessions : /\ stage[t] # "none" => stage'[t] # "none"
                         /\ stage'[t] = "none" => stage[t] = "none"
  BY DEF TypeOK
<1>7. op = "new" => /\ ses[s] = "none" /\ stage'[s] = "new"
                    /\ \A i \in 1..Len(wire) : wire[i] # Frame(op, s)
                    /\ \A i \in 1..Len(initial) : initial[i] # Frame(op, s)
  <2> SUFFICES ASSUME op = "new"
               PROVE  /\ ses[s] = "none" /\ stage'[s] = "new"
                      /\ \A i \in 1..Len(wire) : wire[i] # Frame(op, s)
                      /\ \A i \in 1..Len(initial) : initial[i] # Frame(op, s)
    OBVIOUS
  <2>1. stage[s] = "none" /\ stage'[s] = "new" /\ ses[s] = "none"
    BY DEF TypeOK, NewFramesFresh
  <2>2. \A i \in 1..Len(wire) : wire[i].op = "new" => stage[wire[i].s] # "none"
    BY DEF NewFramesFresh
  <2>3. \A i \in 1..Len(initial) : stage[initial[i].s] # "none"
    BY DEF NewFramesFresh
  <2> QED
    BY <1>4, <2>1, <2>2, <2>3
<1>8. \A i \in 1..Len(initial) : initial[i].s \in Sessions
  BY <1>0, FrameType
<1>9. \A i \in 1..Len(wire) : wire[i].s \in Sessions
  BY <1>0, FrameType
<1>10. NewFramesFresh'
  <2>1. \A i \in 1..Len(initial) :
            /\ initial[i].op = "new" /\ stage'[initial[i].s] # "none"
            /\ \A j \in 1..Len(wire') : wire'[j] # initial[i]
    <3> SUFFICES ASSUME NEW i \in 1..Len(initial)
                 PROVE  /\ initial[i].op = "new" /\ stage'[initial[i].s] # "none"
                        /\ \A j \in 1..Len(wire') : wire'[j] # initial[i]
      OBVIOUS
    <3>1. /\ initial[i].op = "new" /\ stage[initial[i].s] # "none"
          /\ \A j \in 1..Len(wire) : wire[j] # initial[i]
      BY DEF NewFramesFresh
    <3>2. stage'[initial[i].s] # "none"
      BY <1>6, <1>8, <3>1
    <3>3. Frame(op, s) # initial[i]
      BY <1>4, <1>7, <3>1
    <3>4. ASSUME NEW j \in 1..Len(wire') PROVE wire'[j] # initial[i]
      <4>1. j = Len(wire) + 1 \/ j \in 1..Len(wire)
        BY <1>1
      <4> QED
        BY <1>1, <3>1, <3>3, <4>1
    <3> QED
      BY <3>1, <3>2, <3>4
  <2>2. \A i \in 1..Len(wire') : wire'[i].op = "new" =>
            /\ ses[wire'[i].s] = "none" /\ stage'[wire'[i].s] # "none"
            /\ \A j \in 1..Len(wire') : wire'[j] = wire'[i] => j = i
    <3> SUFFICES ASSUME NEW i \in 1..Len(wire'), wire'[i].op = "new"
                 PROVE  /\ ses[wire'[i].s] = "none" /\ stage'[wire'[i].s] # "none"
                        /\ \A j \in 1..Len(wire') : wire'[j] = wire'[i] => j = i
      OBVIOUS
    <3>1. CASE i = Len(wire) + 1
      BY <1>1, <1>4, <1>7, <3>1
    <3>2. CASE i \in 1..Len(wire)
      <4>1. /\ ses[wire[i].s] = "none" /\ stage[wire[i].s] # "none"
            /\ \A j \in 1..Len(wire) : wire[j] = wire[i] => j = i
        BY <1>1, <3>2 DEF NewFramesFresh
      <4>2. stage'[wire[i].s] # "none"
        BY <1>6, <1>9, <3>2, <4>1
      <4>3. wire[i] # Frame(op, s)
        BY <1>1, <1>4, <1>7, <3>2
      <4>4. wire'[i] = wire[i]
        BY <1>1, <3>2
      <4>5. ASSUME NEW j \in 1..Len(wire'), wire'[j] = wire'[i] PROVE j = i
        <5>1. j = Len(wire) + 1 \/ j \in 1..Len(wire)
          BY <1>1
        <5>2. CASE j = Len(wire) + 1
          BY <1>1, <4>3, <4>4, <4>5, <5>2
        <5>3. CASE j \in 1..Len(wire)
          BY <1>1, <4>1, <4>4, <4>5, <5>3
        <5> QED
          BY <5>1, <5>2, <5>3
      <4> QED
        BY <4>1, <4>2, <4>4, <4>5
    <3> QED
      BY <1>1, <3>1, <3>2
  <2> QED
    BY <1>5, <1>6, <2>1, <2>2 DEF NewFramesFresh
<1>11. SessionsSound'
  BY DEF Sends, SessionsSound, SessionSound, AnswerPlaced, targetVars, copyVars
<1> QED
  BY <1>3, <1>10, <1>11

LEMMA FramesKept ==
    ASSUME IInv, UNCHANGED <<initial, wire, stage>>,
           hpc' = hpc \/ (hpc # "start" /\ hpc' # "start"),
           \A s \in Sessions : ses[s] = "none" => ses'[s] = "none"
    PROVE  NewFramesFresh'
<1>1. \A i \in 1..Len(wire) : wire[i].s \in Sessions
  BY FrameType DEF IInv, TypeOK
<1> QED
  BY <1>1 DEF IInv, NewFramesFresh

LEMMA ClientStep ==
    ASSUME IInv, NEW s \in Sessions,
           ClientOpens(s) \/ ClientWrites(s) \/ ClientEnds(s)
    PROVE  IInv'
<1> USE MuxAssumption
<1>1. CASE ClientOpens(s)
  <2>1. sentUp' \in [Sessions -> 0..MaxUp]
    BY <1>1 DEF ClientOpens, IInv, TypeOK
  <2> QED
    BY <1>1, <2>1, SendsStep DEF ClientOpens
<1>2. CASE ClientWrites(s)
  <2>1. sentUp' \in [Sessions -> 0..MaxUp]
    <3>1. /\ sentUp \in [Sessions -> 0..MaxUp] /\ sentUp[s] < MaxUp
          /\ sentUp' = [sentUp EXCEPT ![s] = sentUp[s] + 1]
      BY <1>2 DEF ClientWrites, IInv, TypeOK
    <3>2. sentUp[s] + 1 \in 0..MaxUp
      BY <3>1
    <3> QED
      BY <3>1, <3>2
  <2>2. stage' = [stage EXCEPT ![s] = stage[s]]
    BY <1>2 DEF ClientWrites, IInv, TypeOK
  <2> QED
    BY <1>2, <2>1, <2>2, SendsStep DEF ClientWrites
<1>3. CASE ClientEnds(s)
  <2>1. sentUp' \in [Sessions -> 0..MaxUp]
    BY <1>3 DEF ClientEnds, IInv, TypeOK
  <2> QED
    BY <1>3, <2>1, SendsStep DEF ClientEnds
<1> QED
  BY <1>1, <1>2, <1>3

LEMMA TargetAndTunnelStep ==
    ASSUME IInv, TunnelBreaks \/ \E s \in Sessions : TargetStep(s)
    PROVE  IInv'
<1> USE MuxAssumption
    DEF tunnelVars, clientVars, targetVars, copyVars
<1>1. CASE TunnelBreaks
  <2>1. TypeOK'
    BY <1>1 DEF TunnelBreaks, IInv, TypeOK
  <2>2. NewFramesFresh'
    BY <1>1, FramesKept DEF TunnelBreaks
  <2>3. SessionsSound'
    BY <1>1 DEF TunnelBreaks, IInv, SessionsSound, SessionSound, AnswerPlaced
  <2> QED
    BY <2>1, <2>2, <2>3 DEF IInv
<1>2. ASSUME NEW s \in Sessions, TargetStep(s) PROVE IInv'
  <2> DEFINE Grows == /\ tSent' \in [Sessions -> 0..MaxDown]
                      /\ \A t \in Sessions : tSent[t] <= tSent'[t]
             Stays(f, h) == /\ h \in [Sessions -> BOOLEAN]
                            /\ \A t \in Sessions : f[t] => h[t]
  <2>1. TypeOK
    BY DEF IInv
  <2>2. Grows
    <3>1. tSent \in [Sessions -> 0..MaxDown]
      BY <2>1 DEF TypeOK
    <3>2. CASE tSent' = tSent
      BY <3>1, <3>2
    <3>3. CASE tSent[s] < MaxDown /\ tSent' = [tSent EXCEPT ![s] = @ + 1]
      BY <3>1, <3>3
    <3> QED
      BY <1>2, <3>2, <3>3 DEF TargetStep
  <2>3. Stays(tFin, tFin')
    <3>1. tFin \in [Sessions -> BOOLEAN]
      BY <2>1 DEF TypeOK
    <3>2. CASE tFin' = tFin
      BY <3>1, <3>2
    <3>3. CASE tFin' = [tFin EXCEPT ![s] = TRUE]
      BY <3>1, <3>3
    <3> QED
      BY <1>2, <3>2, <3>3 DEF TargetStep
  <2>4. Stays(tFail, tFail')
    <3>1. tFail \in [Sessions -> BOOLEAN]
      BY <2>1 DEF TypeOK
    <3>2. CASE tFail' = tFail
      BY <3>1, <3>2
    <3>3. CASE tFail' = [tFail EXCEPT ![s] = TRUE]
      BY <3>1, <3>3
    <3> QED
      BY <1>2, <3>2, <3>3 DEF TargetStep
  <2>5. UNCHANGED <<tunnelVars, clientVars, wire, ses, sock, up, upEnd, down,
                    downCut, g1, g2, tGot, copyVars>>
    BY <1>2 DEF TargetStep
  <2>6. TypeOK'
    BY <2>1, <2>2, <2>3, <2>4, <2>5 DEF TypeOK
  <2>7. NewFramesFresh'
    BY <2>5, FramesKept
  <2>8. ASSUME NEW t \in Sessions PROVE SessionSound(t)'
    BY <2>3, <2>4, <2>5 DEF IInv, SessionsSound, SessionSound
  <2>9. ASSUME NEW t \in Sessions PROVE AnswerPlaced(t)'
    <3>1. AnswerPlaced(t) /\ tSent[t] \in Nat /\ tSent'[t] \in Nat /\ taken[t] \in Nat
      BY <2>1, <2>2 DEF IInv, TypeOK, SessionsSound
    <3> QED
      BY <2>2, <2>5, <3>1 DEF AnswerPlaced
  <2> QED
    BY <2>6, <2>7, <2>8, <2>9 DEF IInv, SessionsSound
<1> QED
  BY <1>1, <1>2

-----------------------------------------------------------------------------
(* handleMux and the worker.                                               *)

LEMMA SeedStep == ASSUME IInv, handleMux PROVE IInv'
<1> USE MuxAssumption
    DEF tunnelVars, clientVars, targetVars, copyVars
<1>0. /\ initial \in Seq(Frames) /\ wire \in Seq(Frames)
      /\ Len(initial) \in 0..1 /\ Len(wire) \in Nat
      /\ \A i \in 1..Len(initial) : initial[i] \in Frames
      /\ \A i \in 1..Len(wire) : wire[i] \in Frames
  <2>1. initial \in Seq(Frames) /\ wire \in Seq(Frames) /\ Len(initial) <= 1
    BY DEF IInv, TypeOK, NewFramesFresh
  <2>2. Len(initial) \in Nat /\ Len(wire) \in Nat
    BY <2>1
  <2>3. Len(initial) \in 0..1
    <3>1. \A n \in Nat : n <= 1 => n \in 0..1
      OBVIOUS
    <3> QED
      BY <2>1, <2>2, <3>1, Zenon
  <2>4. /\ \A i \in 1..Len(initial) : initial[i] \in Frames
        /\ \A i \in 1..Len(wire) : wire[i] \in Frames
    BY <2>1, ElementOfSeq
  <2> QED
    BY <2>1, <2>2, <2>3, <2>4
<1>1. /\ wire' \in Seq(Frames) /\ Len(wire') = Len(initial) + Len(wire)
      /\ \A i \in 1..Len(initial) : wire'[i] = initial[i]
      /\ \A i \in 1..Len(wire) : wire'[Len(initial) + i] = wire[i]
  <2>1. wire' = initial \o wire
    BY DEF handleMux, Seeded
  <2>2. /\ wire' \in Seq(Frames) /\ Len(wire') = Len(initial) + Len(wire)
        /\ \A i \in 1..(Len(initial) + Len(wire)) :
              wire'[i] = IF i <= Len(initial) THEN initial[i]
                         ELSE wire[i - Len(initial)]
    BY <1>0, <2>1, ConcatProperties
  <2>3. ASSUME NEW i \in 1..Len(initial) PROVE wire'[i] = initial[i]
    BY <1>0, <2>2
  <2>4. ASSUME NEW i \in 1..Len(wire) PROVE wire'[Len(initial) + i] = wire[i]
    <3>1. /\ Len(initial) + i \in 1..(Len(initial) + Len(wire))
          /\ ~(Len(initial) + i <= Len(initial)) /\ Len(initial) + i - Len(initial) = i
      BY <1>0
    <3> QED
      BY <2>2, <3>1
  <2> QED
    BY <2>2, <2>3, <2>4
<1>2. initial' = <<>> /\ initial' \in Seq(Frames) /\ Len(initial') = 0
  BY DEF handleMux
<1>3. TypeOK'
  BY <1>1, <1>2 DEF handleMux, IInv, TypeOK
<1>4. \A s \in Sessions : ses'[s] = "none"
  BY DEF handleMux, IInv, NewFramesFresh
<1>5. ASSUME NEW i \in 1..Len(wire'), wire'[i].op = "new"
      PROVE  /\ ses'[wire'[i].s] = "none" /\ stage'[wire'[i].s] # "none"
             /\ \A j \in 1..Len(wire') : wire'[j] = wire'[i] => j = i
  <2>1. \A j \in 1..Len(wire') : j \in 1..Len(initial)
                                  \/ j - Len(initial) \in 1..Len(wire)
    BY <1>0, <1>1
  <2>2. ASSUME NEW j \in 1..Len(wire'), j - Len(initial) \in 1..Len(wire)
        PROVE  wire'[j] = wire[j - Len(initial)]
    <3>1. Len(initial) + (j - Len(initial)) = j
      BY <1>0, <1>1
    <3> QED
      BY <1>1, <2>2, <3>1
  <2>3. CASE i \in 1..Len(initial)
    <3>1. i = 1 /\ Len(initial) = 1 /\ wire'[i] = initial[1]
      BY <1>0, <1>1, <2>3
    <3>2. /\ stage[initial[1].s] # "none"
          /\ \A j \in 1..Len(wire) : wire[j] # initial[1]
      BY <3>1 DEF IInv, NewFramesFresh
    <3>3. ses'[initial[1].s] = "none"
      BY <1>0, <1>4, <3>1, FrameType
    <3>4. ASSUME NEW j \in 1..Len(wire'), wire'[j] = wire'[i] PROVE j = i
      BY <1>0, <2>1, <2>2, <3>1, <3>2, <3>4
    <3> QED
      BY <3>1, <3>2, <3>3, <3>4 DEF handleMux
  <2>4. CASE i - Len(initial) \in 1..Len(wire)
    <3> DEFINE k == i - Len(initial)
    <3>1. k \in 1..Len(wire) /\ wire'[i] = wire[k]
      BY <2>2, <2>4
    <3>2. /\ ses[wire[k].s] = "none" /\ stage[wire[k].s] # "none"
          /\ \A j \in 1..Len(wire) : wire[j] = wire[k] => j = k
      BY <1>5, <3>1 DEF IInv, NewFramesFresh
    <3>3. \A j \in 1..Len(initial) : initial[j] # wire[k]
      BY <3>1 DEF IInv, NewFramesFresh
    <3> HIDE DEF k
    <3>4. ASSUME NEW j \in 1..Len(wire'), wire'[j] = wire'[i] PROVE j = i
      <4>1. CASE j \in 1..Len(initial)
        BY <1>1, <3>1, <3>3, <3>4, <4>1
      <4>2. CASE j - Len(initial) \in 1..Len(wire)
        <5>1. j - Len(initial) = k
          BY <2>2, <3>1, <3>2, <3>4, <4>2
        <5> QED
          BY <1>0, <5>1 DEF k
      <4> QED
        BY <2>1, <4>1, <4>2
    <3> QED
      BY <3>1, <3>2, <3>4 DEF handleMux
  <2> QED
    BY <2>1, <2>3, <2>4
<1>6. NewFramesFresh'
  BY <1>2, <1>4, <1>5 DEF NewFramesFresh, handleMux
<1>7. SessionsSound'
  BY DEF handleMux, IInv, SessionsSound, SessionSound, AnswerPlaced
<1> QED
  BY <1>3, <1>6, <1>7 DEF IInv

(* What session.Close changes, in an arbitrary set of sessions.            *)
LEMMA CloseSessionsFacts ==
    ASSUME TypeOK, NEW S \in SUBSET Sessions, CloseSessions(S)
    PROVE  /\ ses' \in [Sessions -> {"none", "open", "closed", "failed"}]
           /\ upEnd' \in [Sessions -> BOOLEAN] /\ downCut' \in [Sessions -> BOOLEAN]
           /\ down' \in [Sessions -> 0..MaxDown]
           /\ UNCHANGED <<sock, up, g1, g2>>
           /\ \A s \in Sessions :
                \/ ses'[s] = "closed"
                \/ /\ ses'[s] = ses[s] /\ upEnd'[s] = upEnd[s]
                   /\ downCut'[s] = downCut[s]
           /\ \A s \in Sessions : ses[s] = "none" => ses'[s] = "none"
           /\ \A s \in Sessions : down'[s] <= down[s]
<1> USE MuxAssumption
<1>1. /\ ses' \in [Sessions -> {"none", "open", "closed", "failed"}]
      /\ \A s \in Sessions : ses[s] = "none" => ses'[s] = "none"
  BY DEF CloseSessions, TypeOK
<1>2. upEnd' \in [Sessions -> BOOLEAN] /\ downCut' \in [Sessions -> BOOLEAN]
  BY DEF CloseSessions, TypeOK
<1>3. /\ down' \in [Sessions -> 0..MaxDown]
      /\ \A s \in Sessions : down'[s] <= down[s]
  BY DEF CloseSessions, TypeOK
<1>4. ASSUME NEW s \in Sessions
      PROVE  \/ ses'[s] = "closed"
             \/ /\ ses'[s] = ses[s] /\ upEnd'[s] = upEnd[s]
                /\ downCut'[s] = downCut[s]
  BY DEF CloseSessions, TypeOK
<1> QED
  BY <1>1, <1>2, <1>3, <1>4 DEF CloseSessions

LEMMA CloseSessionsSound ==
    ASSUME IInv, NEW S \in SUBSET Sessions, CloseSessions(S),
           UNCHANGED <<targetVars, taken, delivered>>
    PROVE  SessionsSound'
<1>0. TypeOK /\ SessionsSound
  BY DEF IInv
<1> SUFFICES ASSUME NEW s \in Sessions PROVE (SessionSound(s) /\ AnswerPlaced(s))'
  BY DEF SessionsSound
<1>1. SessionSound(s)'
  BY <1>0, CloseSessionsFacts DEF SessionsSound, SessionSound, targetVars
<1>2. AnswerPlaced(s)'
  <2>1. /\ down[s] \in Nat /\ down'[s] \in Nat /\ down'[s] <= down[s]
        /\ delivered[s] \in Nat /\ taken[s] \in Nat /\ g1' = g1
    <3>1. /\ down' \in [Sessions -> 0..MaxDown] /\ down'[s] <= down[s] /\ g1' = g1
      BY <1>0, CloseSessionsFacts
    <3> QED
      BY <1>0, <3>1, MuxAssumption DEF TypeOK
  <2> QED
    BY <1>0, <2>1 DEF SessionsSound, AnswerPlaced, targetVars
<1> QED
  BY <1>1, <1>2

LEMMA WorkerEndsStep == ASSUME IInv, WorkerEnds PROVE IInv'
<1> USE DEF tunnelVars, clientVars, targetVars, copyVars
<1>0. TypeOK /\ CloseSessions(Sessions) /\ hpc = "wait" /\ hpc' = "done"
  BY DEF IInv, WorkerEnds
<1>1. TypeOK'
  BY <1>0, CloseSessionsFacts DEF WorkerEnds, TypeOK
<1>2. NewFramesFresh'
  BY <1>0, CloseSessionsFacts, FramesKept DEF WorkerEnds
<1>3. SessionsSound'
  BY <1>0, CloseSessionsSound DEF WorkerEnds
<1> QED
  BY <1>1, <1>2, <1>3 DEF IInv

LEMMA RespondStep == ASSUME IInv, NEW s \in Sessions, Respond(s) PROVE IInv'
<1> USE MuxAssumption DEF tunnelVars, clientVars, targetVars, copyVars
<1>0. TypeOK /\ SessionsSound
  BY DEF IInv
<1>1. CASE ended
  <2>1. CloseSessions({s}) /\ UNCHANGED <<delivered, taken, targetVars>>
    BY <1>1 DEF Respond
  <2>2. TypeOK'
    <3>1. /\ ses' \in [Sessions -> {"none", "open", "closed", "failed"}]
          /\ upEnd' \in [Sessions -> BOOLEAN] /\ downCut' \in [Sessions -> BOOLEAN]
          /\ down' \in [Sessions -> 0..MaxDown]
          /\ UNCHANGED <<sock, up, g1, g2>>
      BY <1>0, <2>1, CloseSessionsFacts
    <3>2. UNCHANGED <<hpc, initial, ended, sentUp, stage, tSent, tFin, tFail, wire,
                      tGot, taken, delivered, cutShort>>
      BY <2>1 DEF Respond
    <3> QED
      BY <1>0, <3>1, <3>2 DEF TypeOK
  <2>3. NewFramesFresh'
    BY <1>0, <2>1, CloseSessionsFacts, FramesKept DEF Respond
  <2>4. SessionsSound'
    BY <2>1, CloseSessionsSound
  <2> QED
    BY <2>2, <2>3, <2>4 DEF IInv
<1>2. CASE ~ended
  <2>1. /\ down' = [down EXCEPT ![s] = @ - 1] /\ down[s] > 0
        /\ delivered' = [delivered EXCEPT ![s] = @ + 1]
        /\ UNCHANGED <<ses, sock, up, upEnd, downCut, g1, g2>>
    BY <1>2 DEF Respond
  <2>2. down[s] + delivered[s] <= taken[s] /\ taken[s] <= MaxDown
    <3>1. AnswerPlaced(s) /\ down[s] \in Nat /\ delivered[s] \in Nat
      BY <1>0 DEF TypeOK, SessionsSound
    <3>2. taken[s] \in 0..MaxDown
      BY <1>0 DEF TypeOK
    <3> QED
      BY <3>1, <3>2 DEF AnswerPlaced
  <2>3. /\ down' \in [Sessions -> 0..MaxDown]
        /\ delivered' \in [Sessions -> 0..MaxDown]
    <3>1. /\ down \in [Sessions -> 0..MaxDown]
          /\ delivered \in [Sessions -> 0..MaxDown]
      BY <1>0 DEF TypeOK
    <3>2. down[s] - 1 \in 0..MaxDown /\ delivered[s] + 1 \in 0..MaxDown
      <4>1. down[s] \in 0..MaxDown /\ delivered[s] \in 0..MaxDown /\ taken[s] \in Nat
        BY <1>0, <3>1 DEF TypeOK
      <4> QED
        BY <2>1, <2>2, <4>1
    <3> QED
      BY <2>1, <3>1, <3>2
  <2>4. TypeOK'
    BY <1>0, <2>1, <2>3 DEF Respond, TypeOK
  <2>5. NewFramesFresh'
    BY <2>1, FramesKept DEF Respond
  <2>6. \A t \in Sessions : SessionSound(t)'
    BY <1>0, <2>1 DEF Respond, SessionsSound, SessionSound
  <2>7. ASSUME NEW t \in Sessions PROVE AnswerPlaced(t)'
    <3>1. AnswerPlaced(t) /\ down[t] \in Nat /\ delivered[t] \in Nat /\ taken[t] \in Nat
      BY <1>0 DEF TypeOK, SessionsSound
    <3>2. down'[t] + delivered'[t] = down[t] + delivered[t]
      BY <1>0, <2>1, <3>1 DEF TypeOK
    <3>3. down'[t] \in Nat /\ delivered'[t] \in Nat
      BY <2>3
    <3> QED
      BY <2>1, <3>1, <3>2, <3>3 DEF Respond, AnswerPlaced
  <2> QED
    BY <2>4, <2>5, <2>6, <2>7 DEF IInv, SessionsSound
<1> QED
  BY <1>1, <1>2

LEMMA HandleFrameStep == ASSUME IInv, HandleFrame PROVE IInv'
<1> USE DEF tunnelVars, clientVars, targetVars, copyVars
<1> DEFINE f == Head(wire)
<1>0. TypeOK /\ NewFramesFresh /\ SessionsSound
  BY DEF IInv
<1>1. /\ wire \in Seq(Frames) /\ wire # <<>> /\ wire' = Tail(wire)
      /\ UNCHANGED <<hpc, initial, ended, sentUp, stage, tSent, tFin, tFail, tGot,
                     taken, delivered, cutShort>>
  BY <1>0 DEF HandleFrame, TypeOK
<1>2. /\ f \in Frames /\ f = wire[1] /\ Len(wire) \in Nat /\ Len(wire) > 0
      /\ wire' \in Seq(Frames) /\ Len(wire') = Len(wire) - 1
      /\ \A i \in 1..Len(wire') : wire'[i] = wire[i + 1]
  BY <1>1
<1>3. /\ f.s \in Sessions
      /\ \A i \in 1..Len(wire) : wire[i] \in Frames /\ wire[i].s \in Sessions
  BY <1>1, <1>2, FrameType, ElementOfSeq
<1>4. \/ f.op = "new" /\ (Dispatch(f.s) \/ DispatchFails(f.s))
      \/ /\ f.op = "keep"
         /\ up' = IF ses[f.s] = "open" THEN [up EXCEPT ![f.s] = @ + 1] ELSE up
         /\ UNCHANGED <<ses, sock, upEnd, down, downCut, g1, g2>>
      \/ f.op = "end" /\ CloseSessions({f.s})
  BY DEF HandleFrame
<1> HIDE DEF f
<1>5. f.op = "new" =>
        /\ ses[f.s] = "none" /\ stage[f.s] # "none"
        /\ \A i \in 1..Len(wire) : wire[i] = f => i = 1
  <2>1. 1 \in 1..Len(wire)
    BY <1>2
  <2> QED
    BY <1>0, <1>2, <2>1 DEF NewFramesFresh
<1>6. ASSUME \A s \in Sessions : ses'[s] = ses[s] \/ ses[s] = "open"
                                \/ (s = f.s /\ f.op = "new")
      PROVE  NewFramesFresh'
  <2>0. hpc # "start" /\ initial = <<>> /\ Len(initial) = 0
    BY <1>0 DEF HandleFrame, NewFramesFresh
  <2>1. ASSUME NEW i \in 1..Len(wire'), wire'[i].op = "new"
        PROVE  /\ ses'[wire'[i].s] = "none" /\ stage'[wire'[i].s] # "none"
               /\ \A j \in 1..Len(wire') : wire'[j] = wire'[i] => j = i
    <3>1. i + 1 \in 1..Len(wire) /\ wire'[i] = wire[i + 1]
      BY <1>2
    <3>2. /\ ses[wire[i + 1].s] = "none" /\ stage[wire[i + 1].s] # "none"
          /\ \A j \in 1..Len(wire) : wire[j] = wire[i + 1] => j = i + 1
      BY <1>0, <2>1, <3>1 DEF NewFramesFresh
    <3>3. f.op = "new" => wire[i + 1].s # f.s
      <4> SUFFICES ASSUME f.op = "new", wire[i + 1].s = f.s PROVE FALSE
        OBVIOUS
      <4>1. wire[i + 1] = f
        BY <1>2, <1>3, <2>1, <3>1, FrameType
      <4>2. i + 1 = 1
        BY <1>5, <3>1, <4>1
      <4> QED
        BY <4>2
    <3>4. ses'[wire[i + 1].s] = "none"
      BY <1>3, <1>6, <3>1, <3>2, <3>3
    <3>5. ASSUME NEW j \in 1..Len(wire'), wire'[j] = wire'[i] PROVE j = i
      <4>1. j + 1 \in 1..Len(wire) /\ wire'[j] = wire[j + 1]
        BY <1>2
      <4>2. j + 1 = i + 1
        BY <3>1, <3>2, <3>5, <4>1
      <4> QED
        BY <4>2
    <3> QED
      BY <1>1, <3>1, <3>2, <3>4, <3>5
  <2>2. \A s \in Sessions : stage[s] = "none" => ses'[s] = "none"
    BY <1>0, <1>5, <1>6 DEF NewFramesFresh
  <2> QED
    BY <1>1, <2>0, <2>1, <2>2 DEF NewFramesFresh
<1>7. CASE f.op = "new" /\ Dispatch(f.s)
  <2>1. TypeOK'
    BY <1>0, <1>1, <1>2, <1>3, <1>7 DEF Dispatch, TypeOK, Copies
  <2>2. NewFramesFresh'
    BY <1>0, <1>6, <1>7 DEF Dispatch, TypeOK
  <2>3. ASSUME NEW s \in Sessions PROVE (SessionSound(s) /\ AnswerPlaced(s))'
    <3>1. SessionSound(s) /\ AnswerPlaced(s) /\ SessionSound(f.s)
      BY <1>0, <1>3 DEF SessionsSound
    <3>2. SessionSound(s)'
      BY <1>0, <1>1, <1>3, <1>5, <1>7, <3>1 DEF Dispatch, TypeOK, SessionSound
    <3>3. g1'[s] = "write" => g1[s] = "write"
      BY <1>0, <1>3, <1>7 DEF Dispatch, TypeOK
    <3>4. down[s] \in Nat /\ delivered[s] \in Nat /\ taken[s] \in Nat
      BY <1>0, MuxAssumption DEF TypeOK
    <3>5. AnswerPlaced(s)'
      BY <1>1, <1>7, <3>1, <3>3, <3>4 DEF Dispatch, AnswerPlaced
    <3> QED
      BY <3>2, <3>5
  <2> QED
    BY <2>1, <2>2, <2>3 DEF IInv, SessionsSound
<1>8. CASE f.op = "new" /\ DispatchFails(f.s)
  <2>1. TypeOK'
    BY <1>0, <1>1, <1>2, <1>3, <1>8 DEF DispatchFails, TypeOK
  <2>2. NewFramesFresh'
    BY <1>0, <1>6, <1>8 DEF DispatchFails, TypeOK
  <2>3. ASSUME NEW s \in Sessions PROVE SessionSound(s)' /\ AnswerPlaced(s)'
    <3>1. SessionSound(s) /\ AnswerPlaced(s)
      BY <1>0 DEF SessionsSound
    <3>2. UNCHANGED <<sock, up, upEnd, down, downCut, g1, g2, tSent, tFin, tFail, taken,
                      delivered>>
      BY <1>1, <1>8 DEF DispatchFails
    <3>3. ses'[s] = ses[s] \/ (ses[s] = "none" /\ ses'[s] = "failed")
      BY <1>0, <1>5, <1>8 DEF DispatchFails, TypeOK
    <3>4. SessionSound(s)'
      BY <3>1, <3>2, <3>3 DEF SessionSound
    <3>5. AnswerPlaced(s)'
      BY <3>1, <3>2 DEF AnswerPlaced
    <3> QED
      BY <3>4, <3>5
  <2> QED
    BY <2>1, <2>2, <2>3 DEF IInv, SessionsSound
<1>9. CASE /\ f.op = "keep"
           /\ up' = IF ses[f.s] = "open" THEN [up EXCEPT ![f.s] = @ + 1] ELSE up
           /\ UNCHANGED <<ses, sock, upEnd, down, downCut, g1, g2>>
  <2>0. up' \in [Sessions -> Nat]
    <3>1. up \in [Sessions -> Nat]
      BY <1>0 DEF TypeOK
    <3> QED
      BY <1>3, <1>9, <3>1
  <2>1. TypeOK'
    BY <1>0, <1>1, <1>2, <1>9, <2>0 DEF TypeOK
  <2>2. NewFramesFresh'
    BY <1>6, <1>9
  <2>3. SessionsSound'
    BY <1>0, <1>1, <1>9 DEF SessionsSound, SessionSound, AnswerPlaced
  <2> QED
    BY <2>1, <2>2, <2>3 DEF IInv
<1>10. CASE f.op = "end" /\ CloseSessions({f.s})
  <2>0. {f.s} \in SUBSET Sessions
    BY <1>3
  <2>1. TypeOK'
    BY <1>0, <1>1, <1>2, <1>10, <2>0, CloseSessionsFacts DEF TypeOK
  <2>2. NewFramesFresh'
    <3>1. \A s \in Sessions : ses'[s] = ses[s] \/ ses[s] = "open"
      BY <1>0, <1>10 DEF CloseSessions, TypeOK
    <3> QED
      BY <1>6, <3>1
  <2>3. SessionsSound'
    BY <1>1, <1>10, <2>0, CloseSessionsSound
  <2> QED
    BY <2>1, <2>2, <2>3 DEF IInv
<1> QED
  BY <1>4, <1>7, <1>8, <1>9, <1>10

-----------------------------------------------------------------------------
(* The goroutines of Dispatch.                                             *)

LEMMA DownstreamStep ==
    ASSUME IInv, NEW s \in Sessions, Downstream(s) PROVE IInv'
<1> USE MuxAssumption DEF tunnelVars, clientVars, targetVars, copyVars
<1>0. TypeOK /\ SessionsSound
  BY DEF IInv
<1>1. UNCHANGED <<hpc, initial, ended, sentUp, stage, tSent, tFin, tFail, wire, ses,
                  up, upEnd, downCut, g2, tGot, delivered>>
  BY DEF Downstream, ReadTarget, WriteResponse
<1>2. NewFramesFresh'
  BY <1>1, FramesKept
<1>3. AnswerPlaced(s) /\ SessionSound(s)
  BY <1>0 DEF SessionsSound
<1>4. /\ taken[s] \in 0..MaxDown /\ tSent[s] \in 0..MaxDown
      /\ down[s] \in 0..MaxDown /\ delivered[s] \in 0..MaxDown
  BY <1>0 DEF TypeOK
<1>5. CASE /\ ResponseEnds(s)
           /\ UNCHANGED taken
           /\ ses[s] = "open" => tFin[s] \/ tFail[s]
           /\ cutShort' \in SUBSET Sessions
           /\ g1[s] # "off"
  <2>1. TypeOK'
    BY <1>0, <1>1, <1>5 DEF ResponseEnds, TypeOK, Copies
  <2>2. ASSUME NEW t \in Sessions PROVE SessionSound(t)'
    <3>1. SessionSound(t)
      BY <1>0 DEF SessionsSound
    <3>2. CASE t = s
      BY <1>0, <1>1, <1>5, <3>1, <3>2 DEF ResponseEnds, TypeOK, SessionSound
    <3>3. CASE t # s
      BY <1>0, <1>1, <1>5, <3>1, <3>3 DEF ResponseEnds, TypeOK, SessionSound
    <3> QED
      BY <3>2, <3>3
  <2>3. ASSUME NEW t \in Sessions PROVE AnswerPlaced(t)'
    <3>1. AnswerPlaced(t) /\ down[t] \in Nat /\ delivered[t] \in Nat /\ taken[t] \in Nat
      BY <1>0 DEF TypeOK, SessionsSound
    <3>2. g1'[t] = "write" => g1[t] = "write"
      BY <1>0, <1>5 DEF ResponseEnds, TypeOK
    <3> QED
      BY <1>1, <1>5, <3>1, <3>2 DEF ResponseEnds, AnswerPlaced
  <2> QED
    BY <1>2, <2>1, <2>2, <2>3 DEF IInv, SessionsSound
<1>6. CASE /\ g1[s] = "read" /\ taken[s] < tSent[s]
           /\ taken' = [taken EXCEPT ![s] = @ + 1]
           /\ g1' = [g1 EXCEPT ![s] = "write"]
           /\ UNCHANGED <<sock, down, cutShort>>
  <2>0. taken' \in [Sessions -> 0..MaxDown]
    <3>1. taken \in [Sessions -> 0..MaxDown]
      BY <1>0 DEF TypeOK
    <3>2. taken[s] + 1 \in 0..MaxDown
      BY <1>4, <1>6
    <3> QED
      BY <1>6, <3>1, <3>2
  <2>1. TypeOK'
    BY <1>0, <1>1, <1>6, <2>0 DEF TypeOK, Copies
  <2>2. ASSUME NEW t \in Sessions PROVE SessionSound(t)'
    BY <1>0, <1>1, <1>6 DEF TypeOK, SessionsSound, SessionSound
  <2>3. ASSUME NEW t \in Sessions PROVE AnswerPlaced(t)'
    <3>1. AnswerPlaced(t)
      BY <1>0 DEF SessionsSound
    <3>2. CASE t = s
      <4>1. taken'[s] = taken[s] + 1 /\ g1'[s] = "write"
        BY <1>0, <1>6 DEF TypeOK
      <4> QED
        BY <1>1, <1>3, <1>4, <1>6, <3>2, <4>1 DEF AnswerPlaced
    <3>3. CASE t # s
      <4>1. taken'[t] = taken[t] /\ g1'[t] = g1[t]
        BY <1>0, <1>6, <3>3 DEF TypeOK
      <4> QED
        BY <1>1, <1>6, <3>1, <4>1 DEF AnswerPlaced
    <3> QED
      BY <3>2, <3>3
  <2> QED
    BY <1>2, <2>1, <2>2, <2>3 DEF IInv, SessionsSound
<1>7. CASE /\ g1[s] = "write"
           /\ down' = [down EXCEPT ![s] = @ + 1]
           /\ g1' = [g1 EXCEPT ![s] = "read"]
           /\ UNCHANGED <<sock, cutShort, taken>>
  <2>0. down[s] + 1 <= MaxDown
    BY <1>3, <1>4, <1>7 DEF AnswerPlaced
  <2>1. TypeOK'
    <3>1. down \in [Sessions -> 0..MaxDown]
      BY <1>0 DEF TypeOK
    <3>2. down' \in [Sessions -> 0..MaxDown]
      <4>1. down[s] + 1 \in 0..MaxDown
        BY <1>4, <2>0
      <4> QED
        BY <1>7, <3>1, <4>1
    <3>3. g1' \in [Sessions -> Copies]
      BY <1>0, <1>7 DEF TypeOK, Copies
    <3> QED
      BY <1>0, <1>1, <1>7, <3>2, <3>3 DEF TypeOK
  <2>2. ASSUME NEW t \in Sessions PROVE SessionSound(t)'
    BY <1>0, <1>1, <1>7 DEF TypeOK, SessionsSound, SessionSound
  <2>3. ASSUME NEW t \in Sessions PROVE AnswerPlaced(t)'
    <3>1. AnswerPlaced(t)
      BY <1>0 DEF SessionsSound
    <3>2. CASE t = s
      <4>1. down'[s] = down[s] + 1 /\ g1'[s] = "read"
        BY <1>0, <1>7 DEF TypeOK
      <4> QED
        BY <1>1, <1>3, <1>4, <1>7, <3>2, <4>1 DEF AnswerPlaced
    <3>3. CASE t # s
      <4>1. down'[t] = down[t] /\ g1'[t] = g1[t]
        BY <1>0, <1>7, <3>3 DEF TypeOK
      <4> QED
        BY <1>1, <1>7, <3>1, <4>1 DEF AnswerPlaced
    <3> QED
      BY <3>2, <3>3
  <2> QED
    BY <1>2, <2>1, <2>2, <2>3 DEF IInv, SessionsSound
<1>8. CASE ReadTarget(s)
  <2>1. g1[s] = "read" /\ UNCHANGED cutShort /\ cutShort \in SUBSET Sessions
    BY <1>0, <1>8 DEF ReadTarget, TypeOK
  <2>2. ~Usable(s) \/ tFin[s] => (ses[s] = "open" => tFin[s] \/ tFail[s])
    BY <1>3 DEF Usable, SessionSound
  <2> QED
    BY <1>5, <1>6, <1>8, <2>1, <2>2 DEF ReadTarget
<1>9. CASE WriteResponse(s)
  <2>1. CASE downCut[s]
    <3>1. cutShort' \in SUBSET Sessions /\ ses[s] # "open"
      BY <1>0, <1>3, <1>9, <2>1 DEF WriteResponse, TypeOK, SessionSound
    <3> QED
      BY <1>5, <1>9, <2>1, <3>1 DEF WriteResponse
  <2>2. CASE ~downCut[s]
    BY <1>7, <1>9, <2>2 DEF WriteResponse
  <2> QED
    BY <2>1, <2>2
<1> QED
  BY <1>8, <1>9 DEF Downstream

LEMMA UpstreamStep ==
    ASSUME IInv, NEW s \in Sessions, Upstream(s) PROVE IInv'
<1> USE MuxAssumption DEF tunnelVars, clientVars, targetVars, copyVars
<1>0. TypeOK /\ SessionsSound
  BY DEF IInv
<1>1. /\ UNCHANGED <<hpc, initial, ended, sentUp, stage, tSent, tFin, tFail, wire, ses,
                     upEnd, down, downCut, g1, taken, delivered, cutShort>>
      /\ g2[s] \in {"read", "write"}
  BY DEF Upstream, ReadRequest, WriteTarget
<1>2. NewFramesFresh'
  BY <1>1, FramesKept
<1>3. SessionSound(s)
  BY <1>0 DEF SessionsSound
<1>4. \A t \in Sessions : AnswerPlaced(t)'
  BY <1>0, <1>1 DEF SessionsSound, AnswerPlaced
<1>5. CASE /\ RequestEnds(s)
           /\ UNCHANGED <<up, tGot>>
           /\ ses[s] = "open" => tFin[s] \/ tFail[s]
  <2>1. TypeOK'
    BY <1>0, <1>1, <1>5 DEF RequestEnds, TypeOK, Copies
  <2>2. ASSUME NEW t \in Sessions PROVE SessionSound(t)'
    <3>1. SessionSound(t)
      BY <1>0 DEF SessionsSound
    <3>2. CASE t = s
      BY <1>0, <1>1, <1>5, <3>1, <3>2 DEF RequestEnds, TypeOK, SessionSound
    <3>3. CASE t # s
      BY <1>0, <1>1, <1>5, <3>1, <3>3 DEF RequestEnds, TypeOK, SessionSound
    <3> QED
      BY <3>2, <3>3
  <2> QED
    BY <1>2, <1>4, <2>1, <2>2 DEF IInv, SessionsSound
<1>6. CASE /\ up' \in [Sessions -> Nat] /\ tGot' \in [Sessions -> Nat]
           /\ g2' = [g2 EXCEPT ![s] = "write"] \/ g2' = [g2 EXCEPT ![s] = "read"]
           /\ UNCHANGED sock
  <2>1. g2' \in [Sessions -> Copies]
    BY <1>0, <1>6 DEF TypeOK, Copies
  <2>2. TypeOK'
    BY <1>0, <1>1, <1>6, <2>1 DEF TypeOK
  <2>3. ASSUME NEW t \in Sessions PROVE SessionSound(t)'
    <3>1. g2'[t] = g2[t] \/ (t = s /\ g2'[t] \in {"read", "write"})
      <4>1. g2 \in [Sessions -> Copies]
        BY <1>0 DEF TypeOK
      <4> QED
        BY <1>6, <4>1
    <3>2. UNCHANGED <<ses, sock, upEnd, downCut, g1, tFin, tFail>>
      BY <1>1, <1>6
    <3>3. SessionSound(t)
      BY <1>0 DEF SessionsSound
    <3> QED
      BY <1>1, <3>1, <3>2, <3>3 DEF SessionSound
  <2> QED
    BY <1>2, <1>4, <2>2, <2>3 DEF IInv, SessionsSound
<1>7. CASE ReadRequest(s)
  <2>1. CASE up[s] > 0 /\ up' = [up EXCEPT ![s] = @ - 1]
             /\ g2' = [g2 EXCEPT ![s] = "write"] /\ UNCHANGED sock
    <3>1. up \in [Sessions -> Nat]
      BY <1>0 DEF TypeOK
    <3>2. up' \in [Sessions -> Nat]
      <4>1. up[s] - 1 \in Nat
        BY <2>1, <3>1
      <4> QED
        BY <2>1, <3>1, <4>1
    <3>3. tGot' \in [Sessions -> Nat]
      BY <1>0, <1>7 DEF ReadRequest, TypeOK
    <3> QED
      BY <1>6, <2>1, <3>2, <3>3
  <2>2. CASE upEnd[s] /\ RequestEnds(s) /\ UNCHANGED up
    BY <1>3, <1>5, <1>7, <2>2 DEF ReadRequest, SessionSound
  <2> QED
    BY <1>7, <2>1, <2>2 DEF ReadRequest
<1>8. CASE WriteTarget(s)
  <2>1. CASE Usable(s)
    <3>1. /\ tGot' = [tGot EXCEPT ![s] = @ + 1] /\ UNCHANGED <<sock, up>>
          /\ g2' = [g2 EXCEPT ![s] = "read"]
      BY <1>8, <2>1 DEF WriteTarget
    <3>2. tGot \in [Sessions -> Nat] /\ up \in [Sessions -> Nat]
      BY <1>0 DEF TypeOK
    <3>3. tGot' \in [Sessions -> Nat]
      BY <3>1, <3>2
    <3> QED
      BY <1>6, <3>1, <3>2, <3>3
  <2>2. CASE ~Usable(s)
    BY <1>3, <1>5, <1>8, <2>2 DEF WriteTarget, Usable, SessionSound
  <2> QED
    BY <2>1, <2>2
<1> QED
  BY <1>7, <1>8 DEF Upstream

LEMMA Invariance == Spec => []IInv
<1>1. IInv /\ [Next]_vars => IInv'
  <2> SUFFICES ASSUME IInv, [Next]_vars PROVE IInv'
    OBVIOUS
  <2>1. CASE UNCHANGED vars
    <3> USE <2>1 DEF vars, tunnelVars, clientVars, targetVars, copyVars
    <3>1. TypeOK'
      BY DEF IInv, TypeOK
    <3>2. NewFramesFresh'
      BY FramesKept
    <3>3. SessionsSound'
      BY DEF IInv, SessionsSound, SessionSound, AnswerPlaced
    <3> QED
      BY <3>1, <3>2, <3>3 DEF IInv
  <2>2. CASE Worker
    BY <2>2, SeedStep, HandleFrameStep, WorkerEndsStep DEF Worker
  <2>3. CASE Next /\ ~Worker
    BY <2>3, TargetAndTunnelStep, ClientStep, RespondStep, DownstreamStep, UpstreamStep
    DEF Next
  <2> QED
    BY <2>1, <2>2, <2>3
<1> QED
  BY <1>1, Initially, PTL DEF Spec

(* Pipes, sockets and goroutines of all sessions keep their types, and the *)
(* answer a client has received never exceeds what the target sent.        *)
THEOREM TypeCorrect == Spec => []TypeOK
<1>1. IInv => TypeOK
  BY DEF IInv
<1> QED
  BY <1>1, Invariance, PTL

(* Dispatch gives every session its own socket, pipes and goroutines: as   *)
(* long as a session is open, only its own target ends them, whatever      *)
(* happens to the other sessions of the tunnel.                            *)
THEOREM SessionsIsolated == Spec => []SessionsIndependent
<1>1. IInv => SessionsIndependent
  BY DEF IInv, SessionsSound, SessionSound, SessionsIndependent
<1> QED
  BY <1>1, Invariance, PTL

-----------------------------------------------------------------------------
(* Where a frame stands in a stream of frames, and how often.  Sending and *)
(* handling a frame change the count by the frame itself.                  *)
LEMMA PlacesFinite ==
    ASSUME NEW F \in Seq(Frames), NEW x
    PROVE  IsFiniteSet(Places(F, x)) /\ Count(F, x) \in Nat
<1>1. Len(F) \in Nat /\ DOMAIN F = 1..Len(F)
  OBVIOUS
<1>2. IsFiniteSet(1..Len(F))
  BY <1>1, FS_Interval
<1>3. Places(F, x) \in SUBSET (1..Len(F))
  BY <1>1 DEF Places
<1>4. IsFiniteSet(Places(F, x))
  BY <1>2, <1>3, FS_Subset
<1> QED
  BY <1>4, FS_CardinalityType DEF Count

LEMMA CountAppended ==
    ASSUME NEW F \in Seq(Frames), NEW f \in Frames, NEW x
    PROVE  Count(Append(F, f), x) = Count(F, x) + (IF f = x THEN 1 ELSE 0)
<1>1. /\ Len(F) \in Nat /\ DOMAIN F = 1..Len(F)
      /\ DOMAIN Append(F, f) = 1..(Len(F) + 1)
      /\ Append(F, f)[Len(F) + 1] = f
      /\ \A i \in 1..Len(F) : Append(F, f)[i] = F[i]
  OBVIOUS
<1>2. Places(Append(F, f), x) =
        IF f = x THEN Places(F, x) \cup {Len(F) + 1} ELSE Places(F, x)
  <2>1. 1..(Len(F) + 1) = (1..Len(F)) \cup {Len(F) + 1}
    BY <1>1
  <2> QED
    BY <1>1, <2>1 DEF Places
<1>3. Len(F) + 1 \notin Places(F, x)
  BY <1>1 DEF Places
<1>4. Count(F, x) \in Nat
  BY PlacesFinite
<1>5. CASE f = x
  BY <1>2, <1>3, <1>5, PlacesFinite, FS_AddElement DEF Count
<1>6. CASE f # x
  BY <1>2, <1>4, <1>6 DEF Count
<1> QED
  BY <1>5, <1>6

LEMMA CountDropped ==
    ASSUME NEW F \in Seq(Frames), F # <<>>, NEW x
    PROVE  Count(F, x) = Count(Tail(F), x) + (IF Head(F) = x THEN 1 ELSE 0)
<1> DEFINE G == Tail(F)
           S == Places(F, x) \ {1}
           T == Places(G, x)
           b == [i \in S |-> i - 1]
<1>1. /\ G \in Seq(Frames) /\ Len(F) \in Nat \ {0} /\ Len(G) = Len(F) - 1
      /\ DOMAIN F = 1..Len(F) /\ DOMAIN G = 1..Len(G)
      /\ \A i \in 1..Len(G) : G[i] = F[i + 1]
      /\ Head(F) = F[1]
  BY HeadTailProperties
<1> HIDE DEF G
<1>2. S \in SUBSET (2..Len(F)) /\ \A i \in 2..Len(F) : i \in S <=> F[i] = x
  BY <1>1 DEF Places
<1>3. T \in SUBSET (1..Len(G)) /\ \A i \in 1..Len(G) : i \in T <=> F[i + 1] = x
  BY <1>1 DEF Places
<1> HIDE DEF S, T
<1>4. ExistsBijection(S, T)
  <2>1. b \in [S -> T]
    <3>1. ASSUME NEW i \in S PROVE i - 1 \in T
      <4>1. i \in 2..Len(F) /\ F[i] = x
        BY <1>2
      <4>2. i - 1 \in 1..Len(G) /\ (i - 1) + 1 = i
        BY <1>1, <4>1
      <4> QED
        BY <1>3, <4>1, <4>2
    <3> QED
      BY <3>1
  <2>2. \A i, j \in S : b[i] = b[j] => i = j
    <3>1. S \subseteq Int
      BY <1>1, <1>2
    <3> QED
      BY <3>1
  <2>3. \A t \in T : \E i \in S : b[i] = t
    <3> SUFFICES ASSUME NEW t \in T PROVE \E i \in S : b[i] = t
      OBVIOUS
    <3>1. t \in 1..Len(G) /\ F[t + 1] = x
      BY <1>3
    <3>2. t + 1 \in 2..Len(F) /\ (t + 1) - 1 = t
      BY <1>1, <3>1
    <3>3. t + 1 \in S
      BY <1>2, <3>1, <3>2
    <3> QED
      BY <3>2, <3>3
  <2> HIDE DEF b
  <2>4. b \in Bijection(S, T)
    BY <2>1, <2>2, <2>3 DEF Bijection, Injection, Surjection, IsInjective
  <2> QED
    BY <2>4 DEF ExistsBijection
<1>5. IsFiniteSet(Places(F, x)) /\ Count(F, x) \in Nat
  BY PlacesFinite
<1>6. /\ IsFiniteSet(S)
      /\ Cardinality(S) = IF 1 \in Places(F, x) THEN Count(F, x) - 1 ELSE Count(F, x)
  BY <1>5, FS_RemoveElement DEF S, Count
<1>7. Cardinality(T) = Cardinality(S)
  BY <1>4, <1>6, FS_Bijection
<1>8. 1 \in Places(F, x) <=> Head(F) = x
  BY <1>1 DEF Places
<1> QED
  BY <1>5, <1>6, <1>7, <1>8 DEF T, G, Count
-----------------------------------------------------------------------------
(* The frames of a session not handled yet, in F, are in order: nothing    *)
(* before its New, nothing after its End, and nothing of a session that    *)
(* the client has ended and the worker has closed.                         *)
InOrder(F, s) ==
    /\ stage[s] = "none" => \A i \in 1..Len(F) : F[i].s # s
    /\ stage[s] # "none" /\ ses[s] = "none" =>
        \E i \in 1..Len(F) :
            /\ F[i] = Frame("new", s)
            /\ \A j \in 1..Len(F) : F[j].s = s => i <= j
    /\ \A i \in 1..Len(F) : F[i] = Frame("end", s) =>
        /\ stage[s] = "end"
        /\ \A j \in 1..Len(F) : j > i => F[j].s # s
    /\ ~ended /\ ses[s] = "closed" =>
        stage[s] = "end" /\ \A i \in 1..Len(F) : F[i].s # s

(* The chunks the server has taken from the frames of a session and still  *)
(* has or has delivered.                                                   *)
Passed(s) == up[s] + tGot[s] + IF g2[s] = "write" THEN 1 ELSE 0

(* Every chunk of an undisturbed upload is somewhere, and the socket it    *)
(* goes to is open until the second goroutine has returned.                *)
Placed(F, s) ==
    ~Disturbed(s) =>
        /\ sentUp[s] = Count(F, Frame("keep", s)) + Passed(s)
        /\ ses[s] \in {"open", "closed"} /\ g2[s] # "gone" => sock[s]

UploadSound(F) == \A s \in Sessions : InOrder(F, s) /\ Placed(F, s)

(* handleMux puts what came with the header in front of the wire.          *)
Stream == initial \o wire
UInv == UploadSound(Stream)

LEMMA UploadInitially == Init => UInv
<1> SUFFICES ASSUME Init PROVE UInv
  OBVIOUS
<1> USE DEF All
<1>1. wire = <<>> /\ Stream = initial
  <2>1. wire = <<>> /\ initial \in Seq(Frames)
    BY Initially DEF Init, IInv, TypeOK
  <2> QED
    BY <2>1, ConcatEmptySeq DEF Stream
<1>2. ASSUME NEW s \in Sessions
      PROVE  InOrder(initial, s) /\ Count(initial, Frame("keep", s)) = 0
  <2>1. CASE \E t \in Sessions : stage[t] = "new"
    <3> DEFINE t == CHOOSE t \in Sessions : stage[t] = "new"
    <3>1. t \in Sessions /\ stage[t] = "new"
      BY <2>1
    <3>2. initial = <<Frame("new", t)>>
      BY <2>1 DEF Init
    <3> HIDE DEF t
    <3>3. /\ Len(initial) = 1 /\ DOMAIN initial = 1..1 /\ initial[1] = Frame("new", t)
          /\ initial[1].s = t /\ initial[1].op = "new"
      BY <3>2 DEF Frame
    <3>4. stage[s] = "none" => t # s
      BY <3>1
    <3>5. stage[s] # "none" => t = s
      BY <3>1 DEF Init
    <3>6. Places(initial, Frame("keep", s)) = {}
      BY <3>3 DEF Places, Frame
    <3>7. Count(initial, Frame("keep", s)) = 0
      BY <3>6, FS_EmptySet DEF Count
    <3>8. InOrder(initial, s)
      BY <3>3, <3>4, <3>5 DEF InOrder, Frame, Init
    <3> QED
      BY <3>7, <3>8
  <2>2. CASE ~\E t \in Sessions : stage[t] = "new"
    <3>1. initial = <<>> /\ stage[s] = "none"
      BY <2>2 DEF Init
    <3>2. Places(initial, Frame("keep", s)) = {}
      BY <3>1 DEF Places
    <3>3. Count(initial, Frame("keep", s)) = 0
      BY <3>2, FS_EmptySet DEF Count
    <3> QED
      BY <3>1, <3>3 DEF InOrder, Init
  <2> QED
    BY <2>1, <2>2
<1>3. ASSUME NEW s \in Sessions PROVE Placed(initial, s)
  <2>1. sentUp[s] = 0 /\ up[s] = 0 /\ tGot[s] = 0 /\ g2[s] = "off" /\ ses[s] = "none"
    BY DEF Init
  <2>2. Passed(s) = 0 /\ Count(initial, Frame("keep", s)) = 0
    BY <1>2, <2>1 DEF Passed
  <2> QED
    BY <2>1, <2>2 DEF Placed
<1> QED
  BY <1>1, <1>2, <1>3 DEF UInv, UploadSound

LEMMA PassedType == ASSUME TypeOK, NEW s \in Sessions PROVE Passed(s) \in Nat
  BY DEF TypeOK, Passed

LEMMA StreamType ==
    ASSUME IInv
    PROVE  /\ Stream \in Seq(Frames)
           /\ hpc # "start" => Stream = wire
  BY ConcatProperties, ConcatEmptySeq DEF Stream, IInv, TypeOK, NewFramesFresh

(* The invariant after a step, for the stream after it.                    *)
LEMMA UploadSoundNow ==
    ASSUME NEW F, F = Stream' PROVE UploadSound(F)' => UInv'
<1> SUFFICES ASSUME UploadSound(F)', NEW s \in Sessions
             PROVE  InOrder(Stream, s)' /\ Placed(Stream, s)'
  BY DEF UInv, UploadSound
<1>1. InOrder(F, s)' /\ Placed(F, s)'
  BY DEF UploadSound
<1>2. InOrder(Stream, s)'
  BY <1>1 DEF InOrder
<1>3. Placed(Stream, s)'
  BY <1>1 DEF Placed
<1> QED
  BY <1>2, <1>3

(* A frame is sent.                                                        *)
LEMMA SendsUpload ==
    ASSUME IInv, NEW op \in {"new", "keep", "end"}, NEW s \in Sessions, Sends(op, s),
           stage[s] = IF op = "new" THEN "none" ELSE "new",
           stage' = [stage EXCEPT ![s] = IF op = "end" THEN "end" ELSE "new"],
           sentUp' = [sentUp EXCEPT ![s] = IF op = "keep" THEN @ + 1 ELSE @],
           NEW F \in Seq(Frames), UploadSound(F)
    PROVE  UploadSound(Append(F, Frame(op, s)))'
<1> DEFINE f == Frame(op, s)
           G == Append(F, f)
<1>1. /\ f \in Frames /\ f.op = op /\ f.s = s
      /\ \A p, t : f = Frame(p, t) <=> p = op /\ t = s
  BY FrameType DEF Frame
<1>2. /\ Len(F) \in Nat /\ Len(G) = Len(F) + 1
      /\ G[Len(F) + 1] = f /\ \A i \in 1..Len(F) : G[i] = F[i]
      /\ \A i \in 1..Len(G) : i \in 1..Len(F) \/ i = Len(F) + 1
  BY <1>1
<1>3. \A x : Count(G, x) = Count(F, x) + (IF f = x THEN 1 ELSE 0)
  BY <1>1, CountAppended
<1> HIDE DEF f, G
<1>4. /\ UNCHANGED <<ended, tFin, tFail, ses, sock, up, g2, tGot, cutShort>> /\ ~ended
      /\ TypeOK /\ NewFramesFresh
  BY DEF Sends, tunnelVars, targetVars, copyVars, IInv
<1>5. stage[s] = "none" => ses[s] = "none"
  BY <1>4 DEF NewFramesFresh
<1> SUFFICES ASSUME NEW t \in Sessions PROVE InOrder(G, t)' /\ Placed(G, t)'
  BY DEF UploadSound, G, f
<1>6. InOrder(F, t) /\ Placed(F, t)
  BY DEF UploadSound
<1>7. CASE t # s
  <2>1. stage'[t] = stage[t] /\ sentUp'[t] = sentUp[t] /\ f # Frame("keep", t)
    BY <1>1, <1>4, <1>7 DEF TypeOK
  <2>2. Count(G, Frame("keep", t)) = Count(F, Frame("keep", t))
    BY <1>3, <2>1, PlacesFinite
  <2>3. Placed(G, t)'
    BY <1>4, <1>6, <2>1, <2>2 DEF Placed, Disturbed, Passed
  <2>4. f.s # t /\ \A p : f # Frame(p, t)
    BY <1>1, <1>7
  <2>5. \A i \in 1..Len(G) : G[i].s = t \/ (\E p : G[i] = Frame(p, t))
                                => i \in 1..Len(F) /\ G[i] = F[i]
    BY <1>2, <2>4
  <2>6. /\ \A i \in 1..Len(F) : i \in 1..Len(G) /\ G[i] = F[i]
        /\ ses'[t] = ses[t] /\ ended' = ended
    BY <1>2, <1>4
  <2>7. /\ stage'[t] = "none" => \A i \in 1..Len(G) : G[i].s # t
        /\ ~ended' /\ ses'[t] = "closed" =>
             stage'[t] = "end" /\ \A i \in 1..Len(G) : G[i].s # t
    BY <1>6, <2>1, <2>5, <2>6 DEF InOrder
  <2>8. ASSUME stage'[t] # "none", ses'[t] = "none"
        PROVE  \E i \in 1..Len(G) : /\ G[i] = Frame("new", t)
                                    /\ \A j \in 1..Len(G) : G[j].s = t => i <= j
    <3>1. PICK i \in 1..Len(F) : /\ F[i] = Frame("new", t)
                                 /\ \A j \in 1..Len(F) : F[j].s = t => i <= j
      BY <1>6, <2>1, <2>6, <2>8 DEF InOrder
    <3> QED
      BY <2>5, <2>6, <3>1
  <2>9. ASSUME NEW i \in 1..Len(G), G[i] = Frame("end", t)
        PROVE  stage'[t] = "end" /\ \A j \in 1..Len(G) : j > i => G[j].s # t
    <3>1. i \in 1..Len(F) /\ F[i] = Frame("end", t)
      BY <2>5, <2>9
    <3>2. stage[t] = "end" /\ \A j \in 1..Len(F) : j > i => F[j].s # t
      BY <1>6, <3>1 DEF InOrder
    <3> QED
      BY <2>1, <2>5, <3>2
  <2>10. InOrder(G, t)'
    BY <2>7, <2>8, <2>9 DEF InOrder
  <2> QED
    BY <2>3, <2>10
<1>8. CASE t = s
  <2>1. /\ stage'[s] = IF op = "end" THEN "end" ELSE "new"
        /\ sentUp'[s] = IF op = "keep" THEN sentUp[s] + 1 ELSE sentUp[s]
    BY <1>4 DEF TypeOK
  <2>2. Count(G, Frame("keep", s)) = Count(F, Frame("keep", s))
                                     + (IF op = "keep" THEN 1 ELSE 0)
    BY <1>1, <1>3
  <2>3. /\ Count(F, Frame("keep", s)) \in Nat /\ Passed(s) \in Nat
        /\ sentUp[s] \in Nat
    <3>1. Count(F, Frame("keep", s)) \in Nat
      BY PlacesFinite
    <3>2. Passed(s) \in Nat
      BY <1>4, PassedType
    <3>3. sentUp[s] \in Nat
      BY <1>4, MuxAssumption DEF TypeOK
    <3> QED
      BY <3>1, <3>2, <3>3
  <2>4. Placed(G, s)'
    <3>1. Placed(F, s) /\ Passed(s)' = Passed(s) /\ Disturbed(s)' = Disturbed(s)
      BY <1>4, <1>6, <1>8 DEF Disturbed, Passed
    <3>2. PICK c, n \in Nat : c = Count(F, Frame("keep", s)) /\ n = Passed(s)
      BY <2>3
    <3>3. ~Disturbed(s) => sentUp'[s] = Count(G, Frame("keep", s)) + n
      BY <2>1, <2>2, <2>3, <3>1, <3>2 DEF Placed
    <3> QED
      BY <1>4, <3>1, <3>2, <3>3 DEF Placed
  <2>5. InOrder(F, s)
    BY <1>6, <1>8
  <2>6. stage'[s] # "none" /\ (ses[s] = "closed" => FALSE)
    BY <1>4, <1>5, <2>1, <2>5 DEF InOrder
  <2>7. ASSUME ses[s] = "none"
        PROVE  \E i \in 1..Len(G) : /\ G[i] = Frame("new", s)
                                    /\ \A j \in 1..Len(G) : G[j].s = s => i <= j
    <3>1. CASE op = "new"
      <4>1. \A i \in 1..Len(F) : F[i].s # s
        BY <2>5, <3>1 DEF InOrder
      <4>2. G[Len(F) + 1] = Frame("new", s) /\ Len(F) + 1 \in 1..Len(G)
        BY <1>1, <1>2, <3>1
      <4>3. ASSUME NEW j \in 1..Len(G), G[j].s = s PROVE Len(F) + 1 <= j
        BY <1>2, <4>1, <4>3
      <4> QED
        BY <4>2, <4>3
    <3>2. CASE op # "new"
      <4>1. PICK i \in 1..Len(F) : /\ F[i] = Frame("new", s)
                                   /\ \A j \in 1..Len(F) : F[j].s = s => i <= j
        BY <2>5, <2>7, <3>2 DEF InOrder
      <4>2. i \in 1..Len(G) /\ G[i] = Frame("new", s)
        BY <1>2, <4>1
      <4>3. ASSUME NEW j \in 1..Len(G), G[j].s = s PROVE i <= j
        BY <1>2, <4>1, <4>3
      <4> QED
        BY <4>2, <4>3
    <3> QED
      BY <3>1, <3>2
  <2>8. ASSUME NEW i \in 1..Len(G), G[i] = Frame("end", s)
        PROVE  stage'[s] = "end" /\ \A j \in 1..Len(G) : j > i => G[j].s # s
    <3>1. CASE i \in 1..Len(F)
      <4>1. stage[s] = "end"
        BY <1>2, <2>5, <2>8, <3>1 DEF InOrder
      <4> QED
        BY <4>1
    <3>2. CASE i = Len(F) + 1
      <4>1. op = "end"
        BY <1>1, <1>2, <2>8, <3>2
      <4>2. \A j \in 1..Len(G) : ~(j > i)
        BY <1>2, <3>2
      <4> QED
        BY <2>1, <4>1, <4>2
    <3> QED
      BY <1>2, <3>1, <3>2
  <2>9. InOrder(G, s)'
    BY <1>4, <2>6, <2>7, <2>8 DEF InOrder
  <2> QED
    BY <1>8, <2>4, <2>9
<1> QED
  BY <1>7, <1>8

(* Steps that leave the frames alone: it is enough that the session keeps  *)
(* its state or the tunnel is broken, and that the chunks stay in sight.   *)
LEMMA StreamKept ==
    ASSUME NEW F \in Seq(Frames), NEW s \in Sessions, InOrder(F, s),
           ended \in BOOLEAN, ended' \in BOOLEAN, ended => ended', stage' = stage,
           ses'[s] = ses[s] \/ (ended' /\ ses'[s] = "closed")
    PROVE  InOrder(F, s)'
  BY DEF InOrder

LEMMA PlacedKept ==
    ASSUME NEW F \in Seq(Frames), NEW s \in Sessions, Placed(F, s),
           Disturbed(s) => Disturbed(s)',
           ~Disturbed(s)' =>
             /\ UNCHANGED sentUp
             /\ Passed(s)' = Passed(s)
             /\ ses'[s] \in {"open", "closed"} /\ g2'[s] # "gone" =>
                  sock'[s] \/ (~sock[s] /\ g2[s] # "gone" /\ ses[s] \in {"open", "closed"})
    PROVE  Placed(F, s)'
  BY DEF Placed

LEMMA SeedUpload == ASSUME IInv, UInv, handleMux PROVE UInv'
<1> USE DEF tunnelVars, clientVars, targetVars, copyVars
<1>1. Stream' = Stream
  <2>1. initial' = <<>> /\ wire' = Stream
    BY DEF handleMux, Seeded, Stream
  <2> QED
    BY <2>1, StreamType, ConcatEmptySeq DEF Stream
<1>2. PICK F \in Seq(Frames) : F = Stream
  BY StreamType
<1>3. UploadSound(F)
  BY <1>2 DEF UInv
<1>4. UploadSound(F)'
  BY <1>3 DEF handleMux, UploadSound, InOrder, Placed, Disturbed, Passed
<1> QED
  BY <1>1, <1>2, <1>4, UploadSoundNow

LEMMA QuietUpload ==
    ASSUME IInv, UInv,
           TunnelBreaks \/ WorkerEnds \/ \E s \in Sessions : TargetStep(s) \/ Respond(s)
    PROVE  UInv'
<1> USE DEF tunnelVars, clientVars, targetVars, copyVars
<1>0. PICK F \in Seq(Frames) : F = Stream
  BY StreamType
<1>1. TypeOK /\ UploadSound(F)
  BY <1>0 DEF UInv, IInv
<1>2. /\ UNCHANGED <<initial, wire, sentUp, stage, up, tGot, g2, sock, cutShort>>
      /\ ended' \in BOOLEAN /\ (ended => ended')
  BY <1>1, CloseSessionsFacts
  DEF TunnelBreaks, WorkerEnds, TargetStep, Respond, CloseSessions, TypeOK
<1>3. \A s \in Sessions :
        /\ tFin[s] => tFin'[s]
        /\ tFail[s] => tFail'[s]
        /\ ses'[s] = ses[s] \/ (ended' /\ ses'[s] = "closed")
  <2>1. CASE TunnelBreaks
    BY <2>1 DEF TunnelBreaks
  <2>2. CASE WorkerEnds
    BY <1>1, <2>2 DEF WorkerEnds, CloseSessions, TypeOK
  <2>3. CASE \E t \in Sessions : TargetStep(t)
    <3>1. PICK t \in Sessions : TargetStep(t)
      BY <2>3
    <3>2. ses' = ses
      BY <3>1 DEF TargetStep
    <3>3. tFin' = tFin \/ tFin' = [tFin EXCEPT ![t] = TRUE]
      BY <3>1 DEF TargetStep
    <3>4. tFail' = tFail \/ tFail' = [tFail EXCEPT ![t] = TRUE]
      BY <3>1 DEF TargetStep
    <3>5. tFin \in [Sessions -> BOOLEAN] /\ tFail \in [Sessions -> BOOLEAN]
      BY <1>1 DEF TypeOK
    <3>6. \A s \in Sessions : tFin[s] => tFin'[s]
      BY <3>3, <3>5
    <3>7. \A s \in Sessions : tFail[s] => tFail'[s]
      BY <3>4, <3>5
    <3> QED
      BY <3>2, <3>6, <3>7
  <2>4. CASE \E t \in Sessions : Respond(t)
    <3>1. PICK t \in Sessions : Respond(t)
      BY <2>4
    <3>2. tFin' = tFin /\ tFail' = tFail
      BY <3>1 DEF Respond
    <3>3. \A s \in Sessions : ses'[s] = ses[s] \/ (ended' /\ ses'[s] = "closed")
      <4>1. ended' = ended /\ (ended => CloseSessions({t})) /\ (~ended => ses' = ses)
        BY <3>1 DEF Respond
      <4>2. CASE ended
        <5>1. \A s \in Sessions : ses'[s] = ses[s] \/ ses'[s] = "closed"
          BY <1>1, <4>1, <4>2, CloseSessionsFacts
        <5> QED
          BY <4>1, <4>2, <5>1
      <4> QED
        BY <4>1, <4>2
    <3> QED
      BY <3>2, <3>3
  <2> QED
    BY <2>1, <2>2, <2>3, <2>4
<1>4. ASSUME NEW s \in Sessions PROVE InOrder(F, s)' /\ Placed(F, s)'
  <2>1. InOrder(F, s) /\ Placed(F, s)
    BY <1>1 DEF UploadSound
  <2>2. InOrder(F, s)'
    BY <1>1, <1>2, <1>3, <2>1, StreamKept DEF TypeOK
  <2>3. Disturbed(s) => Disturbed(s)'
    BY <1>2, <1>3 DEF Disturbed
  <2>4. ended' => Disturbed(s)'
    BY DEF Disturbed
  <2>5. Passed(s)' = Passed(s)
    BY <1>2 DEF Passed
  <2>6. Placed(F, s)'
    BY <1>2, <1>3, <2>1, <2>3, <2>4, <2>5, PlacedKept
  <2> QED
    BY <2>2, <2>6
<1>5. UploadSound(F)' /\ Stream' = Stream
  BY <1>2, <1>4 DEF UploadSound, Stream
<1> QED
  BY <1>0, <1>5, UploadSoundNow

(* The first goroutine closes the socket of an undisturbed session only    *)
(* when an answer after the end of the session was cut short.              *)
LEMMA DownstreamUpload ==
    ASSUME IInv, UInv, NEW t \in Sessions, Downstream(t) PROVE UInv'
<1> USE DEF tunnelVars, clientVars, targetVars, copyVars
<1>0. PICK F \in Seq(Frames) : F = Stream
  BY StreamType
<1>1. TypeOK /\ SessionsSound /\ UploadSound(F)
  BY <1>0 DEF UInv, IInv
<1>2. /\ UNCHANGED <<hpc, initial, ended, sentUp, stage, tFin, tFail, wire, ses, up,
                     g2, tGot>>
      /\ cutShort \subseteq cutShort'
  BY DEF Downstream, ReadTarget, WriteResponse
<1>3. ASSUME NEW s \in Sessions, sock[s], ~Disturbed(s)' PROVE sock'[s]
  <2>1. CASE ReadTarget(t)
    BY <1>1, <1>2, <1>3, <2>1
    DEF ReadTarget, ResponseEnds, Usable, Disturbed, TypeOK
  <2>2. CASE WriteResponse(t)
    BY <1>1, <1>2, <1>3, <2>2
    DEF WriteResponse, ResponseEnds, Usable, Disturbed, TypeOK
  <2> QED
    BY <2>1, <2>2 DEF Downstream
<1>4. ASSUME NEW s \in Sessions PROVE InOrder(F, s)' /\ Placed(F, s)'
  <2>1. InOrder(F, s) /\ Placed(F, s)
    BY <1>1 DEF UploadSound
  <2>2. InOrder(F, s)'
    BY <1>1, <1>2, <2>1, StreamKept DEF TypeOK
  <2>3. Disturbed(s) => Disturbed(s)'
    BY <1>2 DEF Disturbed
  <2>4. Passed(s)' = Passed(s)
    BY <1>2 DEF Passed
  <2>5. ~Disturbed(s)' => (sock[s] => sock'[s])
    BY <1>3
  <2>6. Placed(F, s)'
    BY <1>2, <2>1, <2>3, <2>4, <2>5, PlacedKept
  <2> QED
    BY <2>2, <2>6
<1>5. UploadSound(F)' /\ Stream' = Stream
  BY <1>2, <1>4 DEF UploadSound, Stream
<1> QED
  BY <1>0, <1>5, UploadSoundNow

(* The second goroutine loses a chunk only with the socket.                *)
LEMMA UpstreamUpload ==
    ASSUME IInv, UInv, NEW t \in Sessions, Upstream(t) PROVE UInv'
<1> USE DEF tunnelVars, clientVars, targetVars, copyVars
<1>0. PICK F \in Seq(Frames) : F = Stream
  BY StreamType
<1>1. TypeOK /\ SessionsSound /\ UploadSound(F)
  BY <1>0 DEF UInv, IInv
<1>2. /\ UNCHANGED <<hpc, initial, ended, sentUp, stage, tFin, tFail, wire, ses,
                     cutShort>>
  BY DEF Upstream, ReadRequest, WriteTarget
<1>3. \A s \in Sessions \ {t} : UNCHANGED <<up[s], tGot[s], g2[s], sock[s]>>
  <2>1. /\ up \in [Sessions -> Nat] /\ tGot \in [Sessions -> Nat]
        /\ g2 \in [Sessions -> Copies] /\ sock \in [Sessions -> BOOLEAN]
    BY <1>1 DEF TypeOK
  <2>2. CASE ReadRequest(t)
    <3>1. /\ up' = up \/ up' = [up EXCEPT ![t] = @ - 1]
          /\ sock' = sock \/ sock' = [sock EXCEPT ![t] = FALSE]
          /\ g2' = [g2 EXCEPT ![t] = "write"] \/ g2' = [g2 EXCEPT ![t] = "gone"]
          /\ tGot' = tGot
      BY <2>2 DEF ReadRequest, RequestEnds
    <3> QED
      BY <2>1, <3>1
  <2>3. CASE WriteTarget(t)
    <3>1. /\ tGot' = tGot \/ tGot' = [tGot EXCEPT ![t] = @ + 1]
          /\ sock' = sock \/ sock' = [sock EXCEPT ![t] = FALSE]
          /\ g2' = [g2 EXCEPT ![t] = "read"] \/ g2' = [g2 EXCEPT ![t] = "gone"]
          /\ up' = up
      BY <2>3 DEF WriteTarget, RequestEnds
    <3> QED
      BY <2>1, <3>1
  <2> QED
    BY <2>2, <2>3 DEF Upstream
<1>4. ASSUME NEW s \in Sessions, s = t, ~Disturbed(s)
      PROVE  /\ Passed(s)' = Passed(s)
             /\ g2'[s] = "gone" \/ (sock'[s] = sock[s] /\ g2[s] # "gone")
  <2>1. up[s] \in Nat /\ tGot[s] \in Nat
    BY <1>1 DEF TypeOK
  <2>0. /\ up \in [Sessions -> Nat] /\ g2 \in [Sessions -> Copies]
        /\ sock \in [Sessions -> BOOLEAN]
    BY <1>1 DEF TypeOK
  <2>2. CASE ReadRequest(s) /\ up[s] > 0
    <3>1. /\ g2[s] = "read" /\ up' = [up EXCEPT ![s] = @ - 1]
          /\ g2' = [g2 EXCEPT ![s] = "write"] /\ sock' = sock /\ tGot' = tGot
      BY <2>1, <2>2 DEF ReadRequest
    <3>2. /\ g2'[s] = "write" /\ up'[s] = up[s] - 1
          /\ tGot'[s] = tGot[s] /\ sock'[s] = sock[s]
      BY <2>0, <3>1
    <3> QED
      BY <2>1, <2>2, <3>1, <3>2 DEF Passed
  <2>3. CASE ReadRequest(s) /\ up[s] = 0
    <3>1. /\ g2[s] = "read" /\ g2' = [g2 EXCEPT ![s] = "gone"] /\ up' = up
          /\ tGot' = tGot
      BY <2>3 DEF ReadRequest, RequestEnds
    <3>2. g2'[s] = "gone"
      BY <2>0, <3>1
    <3> QED
      BY <2>1, <3>1, <3>2 DEF Passed
  <2>4. CASE WriteTarget(s)
    <3>1. g2[s] = "write"
      BY <2>4 DEF WriteTarget
    <3>2. ses[s] \in {"open", "closed"}
      <4>1. SessionSound(s) /\ ses[s] \in {"none", "open", "closed", "failed"}
        BY <1>1 DEF SessionsSound, TypeOK
      <4> QED
        BY <3>1, <4>1 DEF SessionSound
    <3>3. sock[s] /\ ~tFail[s]
      BY <1>1, <1>4, <3>1, <3>2 DEF UploadSound, Placed, Disturbed
    <3>4. /\ g2'[s] = "read" /\ up'[s] = up[s] /\ tGot'[s] = tGot[s] + 1
          /\ sock'[s] = sock[s]
      BY <1>1, <2>4, <3>3 DEF WriteTarget, Usable, TypeOK
    <3> QED
      BY <2>1, <3>1, <3>4 DEF Passed
  <2> QED
    BY <1>4, <2>1, <2>2, <2>3, <2>4 DEF Upstream, ReadRequest
<1>5. ASSUME NEW s \in Sessions PROVE InOrder(F, s)' /\ Placed(F, s)'
  <2>1. InOrder(F, s) /\ Placed(F, s)
    BY <1>1 DEF UploadSound
  <2>2. InOrder(F, s)'
    BY <1>1, <1>2, <2>1, StreamKept DEF TypeOK
  <2>3. Disturbed(s) <=> Disturbed(s)'
    BY <1>2 DEF Disturbed
  <2>4. ~Disturbed(s)' =>
          /\ UNCHANGED sentUp
          /\ Passed(s)' = Passed(s)
          /\ ses'[s] \in {"open", "closed"} /\ g2'[s] # "gone" =>
               sock'[s] \/ (~sock[s] /\ g2[s] # "gone" /\ ses[s] \in {"open", "closed"})
    <3>1. CASE s = t
      BY <1>2, <1>4, <2>3, <3>1
    <3>2. CASE s # t
      <4>1. up'[s] = up[s] /\ tGot'[s] = tGot[s] /\ g2'[s] = g2[s] /\ sock'[s] = sock[s]
        BY <1>3, <3>2
      <4>2. Passed(s)' = Passed(s)
        BY <4>1 DEF Passed
      <4> QED
        BY <1>2, <4>1, <4>2
    <3> QED
      BY <3>1, <3>2
  <2>5. Placed(F, s)'
    BY <2>1, <2>3, <2>4, PlacedKept
  <2> QED
    BY <2>2, <2>5
<1>6. UploadSound(F)' /\ Stream' = Stream
  BY <1>2, <1>5 DEF UploadSound, Stream
<1> QED
  BY <1>0, <1>6, UploadSoundNow

LEMMA ClientUpload ==
    ASSUME IInv, UInv, NEW s \in Sessions,
           ClientOpens(s) \/ ClientWrites(s) \/ ClientEnds(s)
    PROVE  UInv'
<1>0. PICK F \in Seq(Frames) : F = Stream
  BY StreamType
<1>1. UploadSound(F) /\ TypeOK
  BY <1>0 DEF UInv, IInv
<1>2. ASSUME NEW op \in {"new", "keep", "end"}, Sends(op, s),
             stage[s] = IF op = "new" THEN "none" ELSE "new",
             stage' = [stage EXCEPT ![s] = IF op = "end" THEN "end" ELSE "new"],
             sentUp' = [sentUp EXCEPT ![s] = IF op = "keep" THEN @ + 1 ELSE @]
      PROVE  UInv'
  <2>1. Frame(op, s) \in Frames
    BY FrameType
  <2>2. UploadSound(Append(F, Frame(op, s)))'
    BY <1>1, <1>2, SendsUpload
  <2>3. initial \in Seq(Frames) /\ wire \in Seq(Frames)
    BY <1>1 DEF TypeOK
  <2>4. Append(F, Frame(op, s)) = initial \o Append(wire, Frame(op, s))
    <3> DEFINE last == <<Frame(op, s)>>
    <3>1. last \in Seq(Frames)
      BY <2>1
    <3>2. Append(F, Frame(op, s)) = F \o last
      BY <2>1, AppendIsConcat
    <3>3. Append(wire, Frame(op, s)) = wire \o last
      BY <2>1, <2>3, AppendIsConcat
    <3> HIDE DEF last
    <3>4. (initial \o wire) \o last = initial \o (wire \o last)
      BY <2>3, <3>1, ConcatAssociative
    <3>5. F = initial \o wire
      BY <1>0 DEF Stream
    <3> QED
      BY <3>2, <3>3, <3>4, <3>5, Zenon
  <2>5. Stream' = Append(F, Frame(op, s))
    BY <1>2, <2>4 DEF Stream, Sends, tunnelVars
  <2>6. PICK G : G = Append(F, Frame(op, s))
    OBVIOUS
  <2>7. UploadSound(G)' /\ G = Stream'
    BY <2>2, <2>5, <2>6
  <2> QED
    BY <2>7, UploadSoundNow
<1>3. CASE ClientOpens(s)
  <2>1. sentUp' = [sentUp EXCEPT ![s] = @]
    BY <1>1, <1>3 DEF ClientOpens, TypeOK
  <2> QED
    BY <1>2, <1>3, <2>1 DEF ClientOpens
<1>4. CASE ClientWrites(s)
  <2>1. stage' = [stage EXCEPT ![s] = "new"]
    BY <1>1, <1>4 DEF ClientWrites, TypeOK
  <2> QED
    BY <1>2, <1>4, <2>1 DEF ClientWrites
<1>5. CASE ClientEnds(s)
  <2>1. sentUp' = [sentUp EXCEPT ![s] = @]
    BY <1>1, <1>5 DEF ClientEnds, TypeOK
  <2> QED
    BY <1>2, <1>5, <2>1 DEF ClientEnds
<1> QED
  BY <1>3, <1>4, <1>5

(* The worker takes the first frame: a session's data meets an open        *)
(* session, because its New was ahead and its End is behind.               *)
LEMMA HandleFrameUpload == ASSUME IInv, UInv, HandleFrame PROVE UInv'
<1> USE DEF tunnelVars, clientVars, targetVars, copyVars
<1>0. TypeOK /\ NewFramesFresh /\ SessionsSound /\ wire = Stream /\ initial = <<>>
  BY StreamType DEF IInv, HandleFrame, NewFramesFresh
<1>1. PICK F \in Seq(Frames) : F = wire
  BY <1>0 DEF TypeOK
<1>2. UploadSound(F) /\ F # <<>>
  BY <1>0, <1>1 DEF UInv, HandleFrame
<1>3. PICK G \in Seq(Frames) : G = Tail(F)
  BY <1>2, HeadTailProperties
<1>4. PICK f \in Frames : f = Head(F)
  BY <1>2, HeadTailProperties
<1>5. /\ UNCHANGED <<hpc, initial, ended, sentUp, stage, tSent, tFin, tFail, tGot,
                     taken, delivered, cutShort>>
      /\ wire' = G
  BY <1>1, <1>3 DEF HandleFrame
<1>6. Stream' = G
  BY <1>0, <1>5, ConcatEmptySeq DEF Stream
<1>7. /\ Len(F) \in Nat /\ Len(G) = Len(F) - 1 /\ f = F[1] /\ 1 \in 1..Len(F)
      /\ \A i \in 1..Len(G) : i + 1 \in 1..Len(F) /\ G[i] = F[i + 1]
      /\ \A i \in 1..Len(F) : i = 1 \/ (i - 1 \in 1..Len(G) /\ G[i - 1] = F[i])
  <2>1. /\ Len(F) \in Nat /\ Len(G) = Len(F) - 1 /\ f = F[1] /\ Len(F) > 0
        /\ \A i \in 1..Len(G) : G[i] = F[i + 1]
    BY <1>2, <1>3, <1>4, HeadTailProperties
  <2>2. /\ 1 \in 1..Len(F) /\ \A i \in 1..Len(G) : i + 1 \in 1..Len(F)
        /\ \A i \in 1..Len(F) : i = 1 \/ (i - 1 \in 1..Len(G) /\ (i - 1) + 1 = i)
    BY <2>1
  <2> QED
    BY <2>1, <2>2
<1>8. \A x : Count(F, x) = Count(G, x) + (IF f = x THEN 1 ELSE 0)
  BY <1>2, <1>3, <1>4, CountDropped
<1>9. \/ f.op = "new" /\ (Dispatch(f.s) \/ DispatchFails(f.s))
      \/ /\ f.op = "keep"
         /\ up' = IF ses[f.s] = "open" THEN [up EXCEPT ![f.s] = @ + 1] ELSE up
         /\ UNCHANGED <<ses, sock, upEnd, down, downCut, g1, g2>>
      \/ f.op = "end" /\ CloseSessions({f.s})
  BY <1>1, <1>4 DEF HandleFrame
<1>10. /\ f.s \in Sessions /\ f = Frame(f.op, f.s) /\ f.op \in {"new", "keep", "end"}
       /\ \A p, t : f = Frame(p, t) <=> p = f.op /\ t = f.s
  BY DEF Frames, Frame
<1>11. ASSUME NEW s \in Sessions PROVE InOrder(G, s)' /\ Placed(G, s)'
  <2>1. InOrder(F, s) /\ Placed(F, s) /\ SessionSound(s)
    BY <1>0, <1>2 DEF UploadSound, SessionsSound
  <2>2. /\ stage[s] = "none" => \A i \in 1..Len(G) : G[i].s # s
        /\ ~ended /\ ses[s] = "closed" =>
             stage[s] = "end" /\ \A i \in 1..Len(G) : G[i].s # s
    BY <1>7, <2>1 DEF InOrder
  <2>3. ASSUME NEW i \in 1..Len(G), G[i] = Frame("end", s)
        PROVE  stage[s] = "end" /\ \A j \in 1..Len(G) : j > i => G[j].s # s
    <3>1. i + 1 \in 1..Len(F) /\ F[i + 1] = Frame("end", s)
      BY <1>7, <2>3
    <3>2. stage[s] = "end" /\ \A j \in 1..Len(F) : j > i + 1 => F[j].s # s
      BY <2>1, <3>1 DEF InOrder
    <3>3. ASSUME NEW j \in 1..Len(G), j > i PROVE G[j].s # s
      <4>1. j + 1 \in 1..Len(F) /\ j + 1 > i + 1 /\ G[j] = F[j + 1]
        BY <1>7, <3>3
      <4> QED
        BY <3>2, <4>1
    <3> QED
      BY <3>2, <3>3
  <2>4. /\ Count(G, Frame("keep", s)) \in Nat /\ Passed(s) \in Nat
        /\ Count(F, Frame("keep", s)) = Count(G, Frame("keep", s))
             + (IF f = Frame("keep", s) THEN 1 ELSE 0)
    <3>1. Count(G, Frame("keep", s)) \in Nat
      BY PlacesFinite
    <3>2. Passed(s) \in Nat
      BY <1>0, PassedType
    <3> QED
      BY <1>8, <3>1, <3>2
  <2>5. CASE s # f.s
    <3>1. /\ ses'[s] = ses[s] /\ up'[s] = up[s] /\ g2'[s] = g2[s] /\ sock'[s] = sock[s]
      <4>1. ASSUME Dispatch(f.s) \/ DispatchFails(f.s)
            PROVE  /\ ses'[s] = ses[s] /\ up'[s] = up[s]
                   /\ g2'[s] = g2[s] /\ sock'[s] = sock[s]
        BY <1>0, <2>5, <4>1 DEF Dispatch, DispatchFails, TypeOK
      <4>2. ASSUME up' = IF ses[f.s] = "open" THEN [up EXCEPT ![f.s] = @ + 1] ELSE up
            PROVE  up'[s] = up[s]
        BY <1>0, <2>5, <4>2 DEF TypeOK
      <4>3. ASSUME CloseSessions({f.s})
            PROVE  /\ ses'[s] = ses[s] /\ up'[s] = up[s]
                   /\ g2'[s] = g2[s] /\ sock'[s] = sock[s]
        BY <2>5, <4>3 DEF CloseSessions
      <4> QED
        BY <1>9, <4>1, <4>2, <4>3
    <3>2. Count(F, Frame("keep", s)) = Count(G, Frame("keep", s))
      BY <1>10, <2>4, <2>5
    <3>3. Placed(G, s)'
      BY <1>5, <2>1, <3>1, <3>2 DEF Placed, Passed, Disturbed
    <3>4. ASSUME stage[s] # "none", ses[s] = "none"
          PROVE  \E i \in 1..Len(G) : /\ G[i] = Frame("new", s)
                                      /\ \A j \in 1..Len(G) : G[j].s = s => i <= j
      <4>1. PICK i \in 1..Len(F) : /\ F[i] = Frame("new", s)
                                   /\ \A j \in 1..Len(F) : F[j].s = s => i <= j
        BY <2>1, <3>4 DEF InOrder
      <4>2. i # 1
        BY <1>7, <1>10, <2>5, <4>1
      <4>3. i - 1 \in 1..Len(G) /\ G[i - 1] = Frame("new", s)
        BY <1>7, <4>1, <4>2
      <4>4. ASSUME NEW j \in 1..Len(G), G[j].s = s PROVE i - 1 <= j
        <5>1. i <= j + 1
          BY <1>7, <4>1, <4>4
        <5> QED
          BY <5>1
      <4> QED
        BY <4>3, <4>4
    <3>5. InOrder(G, s)'
      BY <1>5, <2>2, <2>3, <3>1, <3>4 DEF InOrder
    <3> QED
      BY <3>3, <3>5
  <2>6. CASE s = f.s /\ f.op = "new"
    <3>1. ses[s] = "none" /\ stage[s] # "none"
      BY <1>0, <1>1, <1>7, <2>6 DEF NewFramesFresh
    <3>2. g2[s] = "off" /\ f # Frame("keep", s)
      BY <1>10, <2>1, <2>6, <3>1 DEF SessionSound
    <3>3. /\ up'[s] = up[s] /\ g2'[s] # "write"
          /\ ses'[s] = "failed" \/ (ses'[s] = "open" /\ sock'[s])
      <4>1. Dispatch(s) \/ DispatchFails(s)
        BY <1>9, <2>6
      <4>2. CASE Dispatch(s)
        BY <1>0, <4>2 DEF Dispatch, TypeOK
      <4>3. CASE DispatchFails(s)
        BY <1>0, <3>2, <4>3 DEF DispatchFails, TypeOK
      <4> QED
        BY <4>1, <4>2, <4>3
    <3>4. Passed(s)' = Passed(s)
      BY <1>5, <3>2, <3>3 DEF Passed
    <3>5. Disturbed(s) => Disturbed(s)'
      BY <1>5, <3>1 DEF Disturbed
    <3>6. ses'[s] = "failed" => Disturbed(s)'
      BY DEF Disturbed
    <3>7. Count(F, Frame("keep", s)) = Count(G, Frame("keep", s))
      BY <2>4, <3>2
    <3>8. Placed(G, s)'
      BY <1>5, <2>1, <3>3, <3>4, <3>5, <3>6, <3>7 DEF Placed
    <3>9. InOrder(G, s)'
      BY <1>5, <2>3, <3>1, <3>3 DEF InOrder
    <3> QED
      BY <3>8, <3>9
  <2>7. CASE s = f.s /\ f.op # "new"
    <3>1. stage[s] # "none" /\ F[1].s = s /\ F[1] # Frame("new", s)
      BY <1>7, <1>10, <2>1, <2>7 DEF InOrder
    <3>2. ses[s] # "none"
      <4> SUFFICES ASSUME ses[s] = "none" PROVE FALSE
        OBVIOUS
      <4>1. PICK i \in 1..Len(F) : /\ F[i] = Frame("new", s)
                                   /\ \A j \in 1..Len(F) : F[j].s = s => i <= j
        BY <2>1, <3>1 DEF InOrder
      <4>2. i <= 1
        BY <1>7, <3>1, <4>1
      <4>3. i = 1
        BY <4>2
      <4> QED
        BY <3>1, <4>1, <4>3
    <3>3. ~ended => ses[s] # "closed"
      BY <1>7, <2>1, <3>1 DEF InOrder
    <3>4. CASE f.op = "keep"
      <4>1. /\ f = Frame("keep", s) /\ UNCHANGED <<ses, sock, g2>>
            /\ up' = IF ses[s] = "open" THEN [up EXCEPT ![s] = @ + 1] ELSE up
        BY <1>9, <1>10, <2>7, <3>4
      <4>2. Disturbed(s) <=> Disturbed(s)'
        BY <1>5, <4>1 DEF Disturbed
      <4>3. ASSUME ~Disturbed(s) PROVE Passed(s)' = Passed(s) + 1
        <5>1. ses[s] = "open"
          BY <1>0, <3>2, <3>3, <4>3 DEF Disturbed, TypeOK
        <5>2. up'[s] = up[s] + 1 /\ up[s] \in Nat /\ tGot[s] \in Nat
          BY <1>0, <4>1, <5>1 DEF TypeOK
        <5> QED
          BY <1>5, <4>1, <5>2 DEF Passed
      <4>4. PICK c, n \in Nat : c = Count(G, Frame("keep", s)) /\ n = Passed(s)
        BY <2>4
      <4>5. ~Disturbed(s) => sentUp[s] = c + (n + 1)
        <5>1. ~Disturbed(s) => sentUp[s] = Count(F, Frame("keep", s)) + n
          BY <2>1, <4>4 DEF Placed
        <5>2. Count(F, Frame("keep", s)) = c + 1
          BY <2>4, <4>1, <4>4
        <5>3. (c + 1) + n = c + (n + 1)
          OBVIOUS
        <5> QED
          BY <5>1, <5>2, <5>3
      <4>6. Placed(G, s)'
        BY <1>5, <2>1, <4>1, <4>2, <4>3, <4>4, <4>5 DEF Placed
      <4>7. InOrder(G, s)'
        BY <1>5, <2>2, <2>3, <3>1, <3>2, <4>1 DEF InOrder
      <4> QED
        BY <4>6, <4>7
    <3>5. CASE f.op = "end"
      <4>1. CloseSessions({s}) /\ f = Frame("end", s) /\ f # Frame("keep", s)
        BY <1>9, <1>10, <2>7, <3>5
      <4>2. /\ UNCHANGED <<sock, up, g2>>
            /\ ses'[s] = IF ses[s] = "open" THEN "closed" ELSE ses[s]
        BY <4>1 DEF CloseSessions
      <4>3. Disturbed(s) <=> Disturbed(s)'
        BY <1>5, <4>2 DEF Disturbed
      <4>4. /\ Passed(s)' = Passed(s)
            /\ Count(F, Frame("keep", s)) = Count(G, Frame("keep", s))
        BY <1>5, <2>4, <4>1, <4>2 DEF Passed
      <4>5. Placed(G, s)'
        BY <1>5, <2>1, <4>2, <4>3, <4>4 DEF Placed
      <4>6. stage[s] = "end" /\ \A j \in 1..Len(F) : j > 1 => F[j].s # s
        BY <1>7, <2>1, <4>1 DEF InOrder
      <4>7. \A i \in 1..Len(G) : G[i].s # s
        <5>1. \A i \in 1..Len(G) : i + 1 > 1
          OBVIOUS
        <5> QED
          BY <1>7, <4>6, <5>1
      <4>8. InOrder(G, s)'
        BY <1>5, <2>3, <3>2, <4>2, <4>6, <4>7 DEF InOrder
      <4> QED
        BY <4>5, <4>8
    <3> QED
      BY <1>10, <2>7, <3>4, <3>5
  <2> QED
    BY <2>5, <2>6, <2>7
<1>12. UploadSound(G)'
  BY <1>11 DEF UploadSound
<1> QED
  BY <1>6, <1>12, UploadSoundNow

LEMMA UploadInvariance == Spec => []UInv
<1>1. IInv /\ UInv /\ [Next]_vars => UInv'
  <2> SUFFICES ASSUME IInv, UInv, [Next]_vars PROVE UInv'
    OBVIOUS
  <2>1. CASE UNCHANGED vars
    <3>1. PICK F : F = Stream
      OBVIOUS
    <3>2. UploadSound(F)' /\ F = Stream'
      BY <2>1, <3>1 DEF UInv, UploadSound, InOrder, Placed, Passed, Disturbed, Stream,
        vars, tunnelVars, clientVars, targetVars, copyVars
    <3> QED
      BY <3>2, UploadSoundNow
  <2>2. CASE Worker
    BY <2>2, SeedUpload, HandleFrameUpload, QuietUpload DEF Worker
  <2>3. CASE Next /\ ~Worker
    BY <2>3, QuietUpload, ClientUpload, DownstreamUpload, UpstreamUpload DEF Next
  <2> QED
    BY <2>1, <2>2, <2>3
<1> QED
  BY <1>1, Invariance, UploadInitially, PTL DEF Spec

(* mux.go carries every chunk of an undisturbed session from the frames,   *)
(* those that came with the header included, through the request pipe to   *)
(* the target: Dispatch creates the pipe before the worker handles the     *)
(* session's data, session.Close lets the second goroutine drain it, and   *)
(* the socket stays open until it has.                                     *)
THEOREM UploadArrives == Spec => []UploadComplete
<1>1. IInv /\ UInv => UploadComplete
  <2> SUFFICES ASSUME IInv, UInv, NEW s \in Sessions, ~Disturbed(s)
               PROVE  sentUp[s] = InWire(s) + up[s] + tGot[s]
                                  + IF g2[s] = "write" THEN 1 ELSE 0
    BY DEF UploadComplete
  <2>1. sentUp[s] = Count(Stream, Frame("keep", s)) + Passed(s)
    BY DEF UInv, UploadSound, Placed
  <2>2. InWire(s) = Count(Stream, Frame("keep", s))
    BY DEF InWire, Count, Places, Stream
  <2>3. InWire(s) \in Nat
    BY <2>2, StreamType, PlacesFinite
  <2>4. up[s] \in Nat /\ tGot[s] \in Nat
    BY DEF IInv, TypeOK
  <2> QED
    BY <2>1, <2>2, <2>3, <2>4 DEF Passed
<1> QED
  BY <1>1, Invariance, UploadInvariance, PTL

-----------------------------------------------------------------------------
(* A session alone.  The frames of the session on their way are its New, its *)
(* data and its End in this order; the lemmas say what sending, handling and *)
(* seeding frames does to them.                                              *)

(* The frames of a tunnel that has this session only.                      *)
OwnFrames == [op : {"new", "keep", "end"}, s : {One}]

(* A sequence is known from its elements.                                  *)
LEMMA AppendEqual ==
    ASSUME NEW S, NEW q \in Seq(S), NEW r \in Seq(S), Len(r) = Len(q) + 1,
           \A i \in 1..Len(q) : r[i] = q[i]
    PROVE  r = Append(q, r[Len(q) + 1])
<1>1. Len(q) \in Nat /\ r[Len(q) + 1] \in S
  BY ElementOfSeq
<1>2. PICK f \in S : f = r[Len(q) + 1]
  BY <1>1
<1>3. /\ Append(q, f) \in Seq(S) /\ Len(Append(q, f)) = Len(q) + 1
      /\ Append(q, f)[Len(q) + 1] = f
      /\ \A i \in 1..Len(q) : Append(q, f)[i] = q[i]
  BY AppendProperties
<1>4. \A i \in 1..Len(r) : i \in 1..Len(q) \/ i = Len(q) + 1
  BY <1>1
<1>5. \A i \in 1..Len(r) : r[i] = Append(q, f)[i]
  BY <1>2, <1>3, <1>4
<1> QED
  BY <1>2, <1>3, <1>5, SeqEqual

LEMMA TailEqual ==
    ASSUME NEW S, NEW q \in Seq(S), NEW r \in Seq(S), Len(r) = Len(q) + 1,
           \A i \in 1..Len(q) : r[i + 1] = q[i]
    PROVE  r # <<>> /\ Head(r) = r[1] /\ Tail(r) = q
<1>1. r # <<>>
  <2>1. Len(r) # 0
    OBVIOUS
  <2> QED
    BY <2>1, EmptySeq
<1>2. /\ Tail(r) \in Seq(S) /\ Len(Tail(r)) = Len(r) - 1 /\ Head(r) = r[1]
      /\ \A i \in 1..Len(Tail(r)) : Tail(r)[i] = r[i + 1]
  BY <1>1, HeadTailProperties
<1>3. Len(Tail(r)) = Len(q) /\ \A i \in 1..Len(q) : Tail(r)[i] = q[i]
  BY <1>2
<1> QED
  BY <1>1, <1>2, <1>3, SeqEqual

LEMMA ConcatEqual ==
    ASSUME NEW S, NEW p \in Seq(S), NEW q \in Seq(S), NEW r \in Seq(S),
           Len(r) = Len(p) + Len(q),
           \A i \in 1..Len(p) : r[i] = p[i],
           \A i \in 1..Len(q) : r[Len(p) + i] = q[i]
    PROVE  r = p \o q
<1>1. /\ p \o q \in Seq(S) /\ Len(p \o q) = Len(p) + Len(q)
      /\ \A i \in 1..(Len(p) + Len(q)) :
            (p \o q)[i] = IF i <= Len(p) THEN p[i] ELSE q[i - Len(p)]
  BY ConcatProperties
<1>2. ASSUME NEW i \in 1..Len(r) PROVE r[i] = (p \o q)[i]
  <2>1. CASE i <= Len(p)
    BY <1>1, <2>1
  <2>2. CASE ~(i <= Len(p))
    <3>1. i - Len(p) \in 1..Len(q) /\ Len(p) + (i - Len(p)) = i
      BY <2>2
    <3> QED
      BY <1>1, <2>2, <3>1
  <2> QED
    BY <2>1, <2>2
<1> QED
  BY <1>1, <1>2, SeqEqual

(* The frames of the session, in turn.                                     *)
LEMMA InTurnType ==
    ASSUME NEW a \in Nat, NEW b \in Nat, NEW c \in Nat
    PROVE  /\ InTurn(a, b, c) \in Seq(OwnFrames) /\ Len(InTurn(a, b, c)) = a + b + c
           /\ \A i \in 1..(a + b + c) : InTurn(a, b, c)[i] = Turn(i, a, b)
<1>1. a + b + c \in Nat
  OBVIOUS
<1>2. \A i \in 1..(a + b + c) : Turn(i, a, b) \in OwnFrames
  BY DEF Frame, Turn, OwnFrames
<1>4. InTurn(a, b, c) \in [1..(a + b + c) -> OwnFrames]
  BY <1>2 DEF InTurn
<1>5. InTurn(a, b, c) \in Seq(OwnFrames)
  BY <1>1, <1>4, SeqDef
<1>6. Len(InTurn(a, b, c)) = a + b + c
  BY <1>1, <1>4, <1>5, LenProperties
<1> QED
  BY <1>5, <1>6 DEF InTurn

LEMMA OnlyType ==
    ASSUME NEW q \in Seq(Frames)
    PROVE  /\ Opens(q) \in Nat /\ Chunks(q) \in Nat /\ Ends(q) \in Nat
           /\ Only(q) \in Seq(OwnFrames)
           /\ Len(Only(q)) = Opens(q) + Chunks(q) + Ends(q)
           /\ \A i \in 1..Len(Only(q)) : Only(q)[i] = Turn(i, Opens(q), Chunks(q))
           /\ Len(Only(q)) <= Len(q)
<1>1. Opens(q) \in Nat /\ Chunks(q) \in Nat /\ Ends(q) \in Nat
  BY PlacesFinite DEF Opens, Chunks, Ends
<1>2. /\ Only(q) \in Seq(OwnFrames)
      /\ Len(Only(q)) = Opens(q) + Chunks(q) + Ends(q)
      /\ \A i \in 1..Len(Only(q)) : Only(q)[i] = Turn(i, Opens(q), Chunks(q))
  BY <1>1, InTurnType, Zenon DEF Only
<1> DEFINE N == Places(q, Frame("new", One))
           K == Places(q, Frame("keep", One))
           E == Places(q, Frame("end", One))
<1>3. N \cap K = {} /\ (N \cup K) \cap E = {} /\ N \cup K \cup E \in SUBSET (1..Len(q))
  <2>1. /\ Frame("new", One) # Frame("keep", One) /\ Frame("new", One) # Frame("end", One)
        /\ Frame("keep", One) # Frame("end", One)
    BY DEF Frame
  <2>2. DOMAIN q = 1..Len(q)
    OBVIOUS
  <2> QED
    BY <2>1, <2>2 DEF Places
<1>4. IsFiniteSet(N) /\ IsFiniteSet(K) /\ IsFiniteSet(E)
  BY PlacesFinite
<1>5. /\ Cardinality(N) = Opens(q) /\ Cardinality(K) = Chunks(q)
      /\ Cardinality(E) = Ends(q)
  BY DEF Opens, Chunks, Ends, Count
<1> HIDE DEF N, K, E
<1>6. /\ IsFiniteSet(N \cup K) /\ Cardinality(N \cup K) = Opens(q) + Chunks(q)
  <2>1. /\ IsFiniteSet(N \cup K)
        /\ Cardinality(N \cup K) = Cardinality(N) + Cardinality(K) - Cardinality(N \cap K)
    BY <1>4, FS_Union, Zenon
  <2>2. Cardinality(N \cap K) = 0
    BY <1>3, FS_EmptySet
  <2> QED
    BY <1>1, <1>5, <2>1, <2>2
<1>7. Cardinality(N \cup K \cup E) = Opens(q) + Chunks(q) + Ends(q)
  <2>1. Cardinality((N \cup K) \cup E)
           = Cardinality(N \cup K) + Cardinality(E) - Cardinality((N \cup K) \cap E)
    BY <1>4, <1>6, FS_Union, Zenon
  <2>2. Cardinality((N \cup K) \cap E) = 0
    BY <1>3, FS_EmptySet
  <2> QED
    BY <1>1, <1>5, <1>6, <2>1, <2>2
<1>8. Len(q) \in Nat /\ IsFiniteSet(1..Len(q)) /\ Cardinality(1..Len(q)) = Len(q)
  <2>1. Len(q) \in Nat
    OBVIOUS
  <2> QED
    BY <2>1, FS_Interval
<1>9. Cardinality(N \cup K \cup E) <= Len(q)
  BY <1>3, <1>8, FS_Subset
<1> QED
  BY <1>1, <1>2, <1>7, <1>9

(* A frame joins those of its own session at their end.                    *)
LEMMA OnlySent ==
    ASSUME NEW q \in Seq(Frames), NEW op \in {"new", "keep", "end"}, NEW s \in Sessions
    PROVE  /\ s # One => Only(Append(q, Frame(op, s))) = Only(q)
           /\ (/\ s = One
               /\ op = "new" => Chunks(q) = 0
               /\ op \in {"new", "keep"} => Ends(q) = 0)
              => Only(Append(q, Frame(op, s))) = Append(Only(q), Frame(op, One))
<1> DEFINE f == Frame(op, s)
           r == Append(q, f)
<1>1. /\ f \in Frames /\ r \in Seq(Frames)
      /\ \A p \in {"new", "keep", "end"} : f = Frame(p, One) <=> p = op /\ s = One
  BY FrameType DEF Frame
<1>2. /\ Opens(r) = Opens(q) + (IF op = "new" /\ s = One THEN 1 ELSE 0)
      /\ Chunks(r) = Chunks(q) + (IF op = "keep" /\ s = One THEN 1 ELSE 0)
      /\ Ends(r) = Ends(q) + (IF op = "end" /\ s = One THEN 1 ELSE 0)
  BY <1>1, CountAppended DEF Opens, Chunks, Ends
<1> HIDE DEF f, r
<1>3. /\ Opens(q) \in Nat /\ Chunks(q) \in Nat /\ Ends(q) \in Nat
      /\ Only(q) \in Seq(OwnFrames) /\ Len(Only(q)) = Opens(q) + Chunks(q) + Ends(q)
      /\ \A i \in 1..Len(Only(q)) : Only(q)[i] = Turn(i, Opens(q), Chunks(q))
  BY OnlyType
<1>4. /\ Only(r) \in Seq(OwnFrames) /\ Len(Only(r)) = Opens(r) + Chunks(r) + Ends(r)
      /\ \A i \in 1..Len(Only(r)) : Only(r)[i] = Turn(i, Opens(r), Chunks(r))
  BY <1>1, OnlyType
<1>5. CASE s # One
  BY <1>2, <1>3, <1>5 DEF Only, f, r
<1>6. ASSUME s = One, op = "new" => Chunks(q) = 0, op \in {"new", "keep"} => Ends(q) = 0
      PROVE  Only(r) = Append(Only(q), Frame(op, One))
  <2> DEFINE n == Len(Only(q))
  <2>1. n \in Nat /\ Len(Only(r)) = n + 1
    BY <1>2, <1>3, <1>4, <1>6
  <2>2. ASSUME NEW i \in 1..n PROVE Only(r)[i] = Only(q)[i]
    <3>1. /\ i <= Opens(r) <=> i <= Opens(q)
          /\ i <= Opens(r) + Chunks(r) <=> i <= Opens(q) + Chunks(q)
      BY <1>2, <1>3, <1>6
    <3>2. Turn(i, Opens(r), Chunks(r)) = Turn(i, Opens(q), Chunks(q))
      BY <3>1 DEF Turn
    <3>3. i \in 1..Len(Only(r))
      BY <2>1
    <3> QED
      BY <1>3, <1>4, <3>2, <3>3
  <2>3. Only(r)[n + 1] = Frame(op, One)
    <3>1. /\ n + 1 <= Opens(r) <=> op = "new"
          /\ n + 1 <= Opens(r) + Chunks(r) <=> op # "end"
      BY <1>2, <1>3, <1>6
    <3>2. Turn(n + 1, Opens(r), Chunks(r)) = Frame(op, One)
      BY <3>1 DEF Turn
    <3>3. n + 1 \in 1..Len(Only(r))
      BY <2>1
    <3> QED
      BY <1>4, <3>2, <3>3
  <2> QED
    BY <1>3, <1>4, <2>1, <2>2, <2>3, AppendEqual
<1> QED
  BY <1>5, <1>6 DEF f, r

(* The first frame is handled: the session's own is its next one.          *)
LEMMA OnlyHandled ==
    ASSUME NEW q \in Seq(Frames), q # <<>>
    PROVE  /\ Head(q).s # One => Only(Tail(q)) = Only(q)
           /\ (/\ Head(q).s = One
               /\ Head(q).op # "new" => Opens(q) = 0
               /\ Head(q).op = "end" => Chunks(q) = 0)
              => Only(q) # <<>> /\ Head(Only(q)) = Head(q) /\ Tail(Only(q)) = Only(Tail(q))
<1> DEFINE f == Head(q)
           r == Tail(q)
<1>1. /\ f \in Frames /\ r \in Seq(Frames)
      /\ \A p \in {"new", "keep", "end"} : f = Frame(p, One) <=> p = f.op /\ f.s = One
  <2>1. f \in Frames /\ r \in Seq(Frames)
    BY HeadTailProperties
  <2> HIDE DEF f
  <2> QED
    BY <2>1 DEF Frame, Frames
<1>2. /\ Opens(q) = Opens(r) + (IF f.op = "new" /\ f.s = One THEN 1 ELSE 0)
      /\ Chunks(q) = Chunks(r) + (IF f.op = "keep" /\ f.s = One THEN 1 ELSE 0)
      /\ Ends(q) = Ends(r) + (IF f.op = "end" /\ f.s = One THEN 1 ELSE 0)
  <2>1. \A p \in {"new", "keep", "end"} :
           Count(q, Frame(p, One)) = Count(r, Frame(p, One))
                                     + (IF f = Frame(p, One) THEN 1 ELSE 0)
    BY CountDropped
  <2> HIDE DEF f, r
  <2> QED
    BY <1>1, <2>1 DEF Opens, Chunks, Ends
<1> HIDE DEF f, r
<1>3. /\ Only(q) \in Seq(OwnFrames) /\ Len(Only(q)) = Opens(q) + Chunks(q) + Ends(q)
      /\ \A i \in 1..Len(Only(q)) : Only(q)[i] = Turn(i, Opens(q), Chunks(q))
  BY OnlyType
<1>4. /\ Opens(r) \in Nat /\ Chunks(r) \in Nat /\ Ends(r) \in Nat
      /\ Only(r) \in Seq(OwnFrames) /\ Len(Only(r)) = Opens(r) + Chunks(r) + Ends(r)
      /\ \A i \in 1..Len(Only(r)) : Only(r)[i] = Turn(i, Opens(r), Chunks(r))
  BY <1>1, OnlyType
<1>5. ASSUME f.s # One PROVE Only(r) = Only(q)
  <2>1. Opens(q) = Opens(r) + 0 /\ Chunks(q) = Chunks(r) + 0 /\ Ends(q) = Ends(r) + 0
    BY <1>2, <1>5
  <2>2. Opens(q) = Opens(r) /\ Chunks(q) = Chunks(r) /\ Ends(q) = Ends(r)
    BY <1>4, <2>1
  <2> QED
    BY <2>2 DEF Only
<1>6. ASSUME f.s = One, f.op # "new" => Opens(q) = 0, f.op = "end" => Chunks(q) = 0
      PROVE  Only(q) # <<>> /\ Head(Only(q)) = f /\ Tail(Only(q)) = Only(r)
  <2> DEFINE n == Len(Only(r))
  <2>0. f.op \in {"new", "keep", "end"}
    BY <1>1, FrameType
  <2>1. n \in Nat /\ Len(Only(q)) = n + 1
    BY <1>2, <1>3, <1>4, <1>6, <2>0
  <2>2. ASSUME NEW i \in 1..n PROVE Only(q)[i + 1] = Only(r)[i]
    <3>1. /\ i + 1 <= Opens(q) <=> i <= Opens(r)
          /\ i + 1 <= Opens(q) + Chunks(q) <=> i <= Opens(r) + Chunks(r)
      BY <1>2, <1>4, <1>6, <2>0
    <3>2. Turn(i + 1, Opens(q), Chunks(q)) = Turn(i, Opens(r), Chunks(r))
      BY <3>1 DEF Turn
    <3>3. i + 1 \in 1..Len(Only(q))
      BY <2>1
    <3> QED
      BY <1>3, <1>4, <3>2, <3>3
  <2>3. Only(q)[1] = f
    <3>1. /\ 1 <= Opens(q) <=> f.op = "new"
          /\ 1 <= Opens(q) + Chunks(q) <=> f.op # "end"
      BY <1>2, <1>4, <1>6, <2>0
    <3>2. Turn(1, Opens(q), Chunks(q)) = Frame(f.op, One)
      BY <2>0, <3>1 DEF Turn
    <3>3. 1 \in 1..Len(Only(q))
      BY <2>1
    <3> QED
      BY <1>1, <1>3, <1>6, <2>0, <3>2, <3>3
  <2> QED
    BY <1>3, <1>4, <2>1, <2>2, <2>3, TailEqual
<1> QED
  BY <1>5, <1>6 DEF f, r

LEMMA OnlyEmpty == Only(<<>>) = <<>>
<1>1. <<>> \in Seq(Frames)
  BY EmptySeq
<1>2. \A x : Places(<<>>, x) = {}
  BY DEF Places
<1>3. Opens(<<>>) = 0 /\ Chunks(<<>>) = 0 /\ Ends(<<>>) = 0
  BY <1>2, FS_EmptySet DEF Count, Opens, Chunks, Ends
<1>4. PICK e \in Seq(Frames) : e = <<>>
  BY <1>1
<1>5. Only(e) \in Seq(OwnFrames) /\ Len(Only(e)) = Opens(e) + Chunks(e) + Ends(e)
  BY OnlyType
<1>6. Opens(e) + Chunks(e) + Ends(e) = 0
  BY <1>3, <1>4
<1>7. Only(e) = <<>>
  BY <1>5, <1>6, EmptySeq
<1> QED
  BY <1>4, <1>7

(* handleMux puts the frames that came with the header first.              *)
LEMMA OnlySeeded ==
    ASSUME IInv
    PROVE  Only(initial \o wire) = Only(initial) \o Only(wire)
<1> DEFINE r == initial \o wire
<1>1. initial \in Seq(Frames) /\ wire \in Seq(Frames) /\ r \in Seq(Frames)
  BY StreamType DEF IInv, TypeOK, Stream
<1>2. CASE initial = <<>>
  <2>1. r = wire
    BY <1>1, <1>2, ConcatEmptySeq
  <2>2. Only(wire) \in Seq(OwnFrames)
    BY <1>1, OnlyType
  <2> QED
    BY <1>2, <2>1, <2>2, OnlyEmpty, ConcatEmptySeq
<1>3. CASE initial # <<>>
  <2>1. Len(initial) = 1 /\ initial[1].op = "new"
    <3>1. Len(initial) \in Nat /\ Len(initial) # 0
      BY <1>1, <1>3, EmptySeq
    <3>2. Len(initial) <= 1
      BY DEF IInv, NewFramesFresh
    <3>3. Len(initial) = 1
      <4>1. PICK n \in Nat : n = Len(initial)
        BY <3>1
      <4>2. n # 0 /\ n <= 1
        BY <3>1, <3>2, <4>1
      <4> QED
        BY <4>1, <4>2
    <3>4. 1 \in 1..Len(initial)
      BY <3>3
    <3>5. \A i \in 1..Len(initial) : initial[i].op = "new"
      BY DEF IInv, NewFramesFresh
    <3> QED
      BY <3>3, <3>4, <3>5
  <2>2. r # <<>> /\ Head(r) = initial[1] /\ Tail(r) = wire
    <3>1. /\ Len(r) = 1 + Len(wire) /\ Len(wire) \in Nat
          /\ \A i \in 1..(1 + Len(wire)) : r[i] = IF i <= 1 THEN initial[1] ELSE wire[i - 1]
      <4>1. /\ Len(r) = Len(initial) + Len(wire)
            /\ \A i \in 1..(Len(initial) + Len(wire)) : r[i] =
                  IF i <= Len(initial) THEN initial[i] ELSE wire[i - Len(initial)]
        BY <1>1, ConcatProperties
      <4>2. Len(wire) \in Nat
        BY <1>1
      <4> HIDE DEF r
      <4> QED
        BY <2>1, <4>1, <4>2
    <3> HIDE DEF r
    <3>2. \A i \in 1..Len(wire) : r[i + 1] = wire[i]
      BY <3>1
    <3>3. r[1] = initial[1]
      BY <3>1
    <3> QED
      BY <1>1, <3>1, <3>2, <3>3, TailEqual
  <2> HIDE DEF r
  <2>3. Head(r).op = "new"
    BY <2>1, <2>2
  <2>4. Tail(initial) = <<>> /\ Head(initial) = initial[1]
    <3>1. <<>> \in Seq(Frames) /\ Len(<<>>) = 0
      BY EmptySeq
    <3>2. Len(initial) = Len(<<>>) + 1 /\ \A i \in 1..Len(<<>>) : initial[i + 1] = <<>>[i]
      BY <2>1, <3>1
    <3> QED
      BY <1>1, <3>1, <3>2, TailEqual
  <2>5. CASE initial[1].s # One
    <3>1. Only(r) = Only(wire)
      BY <1>1, <2>2, <2>5, OnlyHandled
    <3>2. Only(initial) = <<>>
      BY <1>1, <1>3, <2>4, <2>5, OnlyHandled, OnlyEmpty
    <3>3. Only(wire) \in Seq(OwnFrames)
      BY <1>1, OnlyType
    <3> QED
      BY <3>1, <3>2, <3>3, ConcatEmptySeq DEF r
  <2>6. CASE initial[1].s = One
    <3>1. Only(r) # <<>> /\ Head(Only(r)) = initial[1] /\ Tail(Only(r)) = Only(wire)
      BY <1>1, <2>2, <2>3, <2>6, OnlyHandled
    <3>2. /\ Only(initial) # <<>> /\ Head(Only(initial)) = initial[1]
          /\ Tail(Only(initial)) = <<>>
      BY <1>1, <1>3, <2>1, <2>4, <2>6, OnlyHandled, OnlyEmpty
    <3>3. /\ Only(r) \in Seq(OwnFrames) /\ Only(wire) \in Seq(OwnFrames)
          /\ Only(initial) \in Seq(OwnFrames)
      BY <1>1, OnlyType
    <3> DEFINE p == Only(initial)
               w == Only(wire)
               v == Only(r)
    <3>4. /\ p \in Seq(OwnFrames) /\ p # <<>> /\ Head(p) = initial[1] /\ Tail(p) = <<>>
          /\ v \in Seq(OwnFrames) /\ v # <<>> /\ Head(v) = initial[1] /\ Tail(v) = w
      BY <3>1, <3>2, <3>3
    <3> HIDE DEF p, w, v
    <3>5. Len(p) = 1 /\ p[1] = initial[1]
      <4>1. Len(Tail(p)) = Len(p) - 1
        BY <3>4, HeadTailProperties
      <4>2. Len(<<>>) = 0 /\ Len(p) \in Nat
        BY <3>4
      <4>3. Head(p) = p[1]
        BY <3>4
      <4>4. Len(Tail(p)) = Len(<<>>)
        BY <3>4, Zenon
      <4>5. Len(p) = 1
        BY <4>1, <4>2, <4>4
      <4> QED
        BY <3>4, <4>3, <4>5, Zenon
    <3>6. /\ Len(w) = Len(v) - 1 /\ \A i \in 1..Len(w) : w[i] = v[i + 1]
      BY <3>4, HeadTailProperties
    <3>7. v[1] = initial[1]
      <4>1. Head(v) = v[1]
        BY <3>4
      <4> QED
        BY <3>4, <4>1
    <3>8. Len(v) \in Nat /\ Len(w) \in Nat
      BY <3>3 DEF w, v
    <3>9. /\ Len(v) = Len(p) + Len(w)
          /\ \A i \in 1..Len(p) : v[i] = p[i]
      BY <3>5, <3>6, <3>7, <3>8
    <3>10. \A i \in 1..Len(w) : v[Len(p) + i] = w[i]
      <4>1. \A i \in 1..Len(w) : Len(p) + i = i + 1
        BY <3>5, <3>8
      <4> QED
        BY <3>6, <4>1
    <3>11. v = p \o w
      <4>1. /\ p \in Seq(OwnFrames) /\ w \in Seq(OwnFrames) /\ v \in Seq(OwnFrames)
        BY <3>3 DEF p, w, v
      <4> QED
        BY <3>9, <3>10, <4>1, ConcatEqual
    <3> QED
      BY <3>11 DEF p, w, v, r
  <2> QED
    BY <2>5, <2>6 DEF r
<1> QED
  BY <1>2, <1>3

(* The frames of the session on their way, before each of the client's and *)
(* the worker's steps on one.                                              *)
LEMMA WireInStream ==
    ASSUME IInv, NEW i \in 1..Len(wire)
    PROVE  /\ wire[i] \in Frames
           /\ \E j \in 1..Len(Stream) : Stream[j] = wire[i]
<1>1. initial \in Seq(Frames) /\ wire \in Seq(Frames)
  BY DEF IInv, TypeOK
<1>2. /\ Len(Stream) = Len(initial) + Len(wire)
      /\ \A j \in 1..(Len(initial) + Len(wire)) : Stream[j] =
            IF j <= Len(initial) THEN initial[j] ELSE wire[j - Len(initial)]
  BY <1>1, ConcatProperties DEF Stream
<1>3. Len(initial) \in Nat /\ Len(wire) \in Nat
  BY <1>1
<1> DEFINE j == Len(initial) + i
<1>4. j \in 1..(Len(initial) + Len(wire)) /\ ~(j <= Len(initial)) /\ j - Len(initial) = i
  BY <1>3
<1> HIDE DEF j
<1>5. Stream[j] = wire[i]
  BY <1>2, <1>4
<1>6. wire[i] \in Frames
  BY <1>1, ElementOfSeq
<1> QED
  BY <1>2, <1>4, <1>5, <1>6

LEMMA NoPlaces ==
    ASSUME NEW q, NEW x, \A i \in DOMAIN q : q[i] # x
    PROVE  Count(q, x) = 0
<1>1. Places(q, x) = {}
  BY DEF Places
<1> QED
  BY <1>1, FS_EmptySet DEF Count

LEMMA SentInTurn ==
    ASSUME IInv, UInv
    PROVE  /\ stage[One] = "none" => Chunks(wire) = 0 /\ Ends(wire) = 0
           /\ stage[One] = "new" => Ends(wire) = 0
<1>0. InOrder(Stream, One) /\ wire \in Seq(Frames)
  BY OneAssumption DEF UInv, UploadSound, IInv, TypeOK
<1>1. ASSUME stage[One] = "none" PROVE Chunks(wire) = 0 /\ Ends(wire) = 0
  <2>1. \A i \in 1..Len(wire) : wire[i].s # One
    BY <1>0, <1>1, WireInStream DEF InOrder
  <2>2. \A i \in DOMAIN wire : wire[i] # Frame("keep", One) /\ wire[i] # Frame("end", One)
    BY <1>0, <2>1 DEF Frame
  <2> QED
    BY <2>2, NoPlaces DEF Chunks, Ends
<1>2. ASSUME stage[One] = "new" PROVE Ends(wire) = 0
  <2>1. \A i \in 1..Len(wire) : wire[i] # Frame("end", One)
    BY <1>0, <1>2, WireInStream DEF InOrder
  <2>2. \A i \in DOMAIN wire : wire[i] # Frame("end", One)
    BY <1>0, <2>1
  <2> QED
    BY <2>2, NoPlaces DEF Ends
<1> QED
  BY <1>1, <1>2

LEMMA HandledInTurn ==
    ASSUME IInv, UInv, hpc # "start", wire # <<>>, Head(wire).s = One
    PROVE  /\ Head(wire).op # "new" => Opens(wire) = 0
           /\ Head(wire).op = "end" => Chunks(wire) = 0
<1>0. /\ InOrder(wire, One) /\ wire \in Seq(Frames)
      /\ 1 \in 1..Len(wire) /\ Head(wire) = wire[1] /\ Head(wire) \in Frames
  <2>1. Stream = wire /\ wire \in Seq(Frames)
    BY StreamType DEF IInv, TypeOK
  <2>2. InOrder(Stream, One)
    BY OneAssumption DEF UInv, UploadSound
  <2>3. Len(wire) \in Nat /\ Len(wire) # 0
    BY <2>1, EmptySeq
  <2>4. Head(wire) = wire[1] /\ Head(wire) \in Frames
    BY <2>1, HeadTailProperties
  <2> QED
    BY <2>1, <2>2, <2>3, <2>4
<1>1. ASSUME Head(wire).op # "new" PROVE Opens(wire) = 0
  <2>1. ASSUME NEW i \in 1..Len(wire), wire[i] = Frame("new", One) PROVE FALSE
    <3>1. wire[i].op = "new" /\ wire[i].s = One
      BY <2>1 DEF Frame
    <3>2. ses[One] = "none" /\ stage[One] # "none"
      BY <3>1 DEF IInv, NewFramesFresh
    <3>3. PICK j \in 1..Len(wire) :
             wire[j] = Frame("new", One) /\ \A k \in 1..Len(wire) : wire[k].s = One => j <= k
      BY <1>0, <3>2 DEF InOrder
    <3>4. j <= 1
      BY <1>0, <3>3
    <3>5. j = 1
      BY <3>3, <3>4
    <3> QED
      BY <1>0, <1>1, <3>3, <3>5 DEF Frame
  <2>2. \A i \in DOMAIN wire : wire[i] # Frame("new", One)
    BY <1>0, <2>1
  <2> QED
    BY <2>2, NoPlaces DEF Opens
<1>2. ASSUME Head(wire).op = "end" PROVE Chunks(wire) = 0
  <2>1. wire[1] = Frame("end", One)
    BY <1>0, <1>2 DEF Frame, Frames
  <2>2. \A i \in 1..Len(wire) : i > 1 => wire[i].s # One
    BY <1>0, <2>1 DEF InOrder
  <2>3. \A i \in DOMAIN wire : wire[i] # Frame("keep", One)
    BY <1>0, <2>1, <2>2 DEF Frame
  <2> QED
    BY <2>3, NoPlaces DEF Chunks
<1> QED
  BY <1>1, <1>2

-----------------------------------------------------------------------------
(* Every step of the tunnel is a step of the tunnel that has this session  *)
(* only, or is not felt there.                                             *)
LEMMA AloneInitially == Init => Alone!Init
<1> SUFFICES ASSUME Init PROVE Alone!Init
  OBVIOUS
<1>1. initial \in Seq(Frames) /\ wire = <<>>
  BY Initially DEF Init, IInv, TypeOK
<1>2. Of(stage) \in [{One} -> {"none", "new"}] /\ Of(stage)[One] = stage[One]
  BY OneAssumption DEF Init, Of
<1>3. Only(initial) = IF stage[One] = "new" THEN <<Frame("new", One)>> ELSE <<>>
  <2>1. CASE \E s \in Sessions : stage[s] = "new"
    <3> DEFINE t == CHOOSE s \in Sessions : stage[s] = "new"
    <3>1. t \in Sessions /\ stage[t] = "new"
      BY <2>1
    <3>2. initial = <<Frame("new", t)>>
      BY <2>1 DEF Init
    <3> HIDE DEF t
    <3>3. stage[One] = "new" <=> t = One
      BY <3>1, OneAssumption DEF Init
    <3>4. PICK e \in Seq(Frames) : e = <<>> /\ Append(e, Frame("new", t)) = initial
      <4>1. <<>> \in Seq(Frames) /\ <<Frame("new", t)>> = Append(<<>>, Frame("new", t))
        BY EmptySeq
      <4> QED
        BY <3>2, <4>1
    <3>5. Only(e) = <<>> /\ Chunks(e) = 0 /\ Ends(e) = 0
      BY <3>4, OnlyEmpty, NoPlaces DEF Chunks, Ends
    <3>6. Only(initial) = IF t = One THEN Append(Only(e), Frame("new", One)) ELSE Only(e)
      BY <3>1, <3>4, <3>5, OnlySent
    <3> QED
      BY <3>3, <3>5, <3>6
  <2>2. CASE ~\E s \in Sessions : stage[s] = "new"
    BY <2>2, OnlyEmpty, OneAssumption DEF Init
  <2> QED
    BY <2>1, <2>2
<1>4. Only(wire) = <<>>
  BY <1>1, OnlyEmpty
<1>5. \A x : Of(All(x)) = [s \in {One} |-> x]
  BY OneAssumption DEF Of, All
<1>6. cutShort \cap {One} = {}
  BY DEF Init
<1>7. Only(initial) = IF \E s \in {One} : Of(stage)[s] = "new"
                      THEN <<Frame("new", CHOOSE s \in {One} : Of(stage)[s] = "new")>>
                      ELSE <<>>
  BY <1>2, <1>3
<1> QED
  BY <1>2, <1>4, <1>5, <1>6, <1>7 DEF Init, Alone!Init, Alone!All, Alone!Frame, Frame

LEMMA AloneSends ==
    ASSUME IInv, UInv, NEW op \in {"new", "keep", "end"}, Sends(op, One),
           op = "new" => stage[One] = "none", op = "keep" => stage[One] = "new"
    PROVE  Alone!Sends(op, One)
<1>1. wire \in Seq(Frames)
  BY DEF IInv, TypeOK
<1>2. /\ op = "new" => Chunks(wire) = 0
      /\ op \in {"new", "keep"} => Ends(wire) = 0
  BY SentInTurn
<1>3. Only(wire') = Append(Only(wire), Frame(op, One))
  BY <1>1, <1>2, OnlySent, OneAssumption DEF Sends
<1>4. Len(Only(wire)) < MaxWire
  <2>1. Len(Only(wire)) <= Len(wire) /\ Len(Only(wire)) \in Nat /\ Len(wire) \in Nat
    BY <1>1, OnlyType
  <2>2. Len(wire) < MaxWire /\ MaxWire \in Nat
    BY MuxAssumption DEF Sends
  <2> QED
    BY <2>1, <2>2
<1>5. UNCHANGED <<tunnelVars, targetVars, ses, sock, up, upEnd, down, downCut,
                  g1, g2, tGot, copyVars>> /\ ~ended
  BY DEF Sends
<1> QED
  BY <1>3, <1>4, <1>5
  DEF Alone!Sends, Alone!Frame, Frame, tunnelVars, targetVars, copyVars,
      Alone!tunnelVars, Alone!targetVars, Alone!copyVars

LEMMA ClientAlone ==
    ASSUME IInv, UInv, NEW s \in Sessions,
           ClientOpens(s) \/ ClientWrites(s) \/ ClientEnds(s)
    PROVE  [Alone!Next]_(Alone!vars)
<1>0. TypeOK
  BY DEF IInv
<1>1. CASE s = One
  <2>1. CASE ClientOpens(One)
    <3>1. Of(stage') = [Of(stage) EXCEPT ![One] = "new"] /\ Of(stage)[One] = "none"
      BY <1>0, <2>1, OneAssumption DEF Of, ClientOpens, TypeOK
    <3>2. Alone!Sends("new", One)
      BY <2>1, AloneSends DEF ClientOpens
    <3>3. Alone!ClientOpens(One)
      BY <2>1, <3>1, <3>2 DEF ClientOpens, Alone!ClientOpens
    <3> QED
      BY <3>3 DEF Alone!Next
  <2>2. CASE ClientWrites(One)
    <3>1. /\ Of(sentUp') = [Of(sentUp) EXCEPT ![One] = Of(sentUp)[One] + 1]
          /\ Of(sentUp)[One] < MaxUp /\ Of(stage)[One] = "new"
      <4>1. /\ sentUp \in [Sessions -> 0..MaxUp]
            /\ stage \in [Sessions -> {"none", "new", "end"}]
        BY <1>0 DEF TypeOK
      <4>2. Of(sentUp)[One] = sentUp[One] /\ Of(stage)[One] = stage[One]
        BY <4>1, OneAssumption DEF Of
      <4>3. sentUp' = [sentUp EXCEPT ![One] = sentUp[One] + 1]
        BY <2>2 DEF ClientWrites
      <4>4. Of(sentUp') = [Of(sentUp) EXCEPT ![One] = sentUp[One] + 1]
        BY <4>1, <4>3, OneAssumption DEF Of
      <4> QED
        BY <2>2, <4>2, <4>4 DEF ClientWrites
    <3>2. Alone!Sends("keep", One)
      BY <2>2, AloneSends DEF ClientWrites
    <3>3. Alone!ClientWrites(One)
      BY <2>2, <3>1, <3>2 DEF ClientWrites, Alone!ClientWrites
    <3> QED
      BY <3>3 DEF Alone!Next
  <2>3. CASE ClientEnds(One)
    <3>1. Of(stage') = [Of(stage) EXCEPT ![One] = "end"] /\ Of(stage)[One] = "new"
      BY <1>0, <2>3, OneAssumption DEF Of, ClientEnds, TypeOK
    <3>2. Alone!Sends("end", One)
      BY <2>3, AloneSends DEF ClientEnds
    <3>3. Alone!ClientEnds(One)
      BY <2>3, <3>1, <3>2 DEF ClientEnds, Alone!ClientEnds
    <3> QED
      BY <3>3 DEF Alone!Next
  <2> QED
    BY <1>1, <2>1, <2>2, <2>3
<1>2. CASE s # One
  <2>1. PICK op \in {"new", "keep", "end"} : Sends(op, s)
    BY DEF ClientOpens, ClientWrites, ClientEnds
  <2>2. Only(wire') = Only(wire)
    BY <1>0, <1>2, <2>1, OnlySent DEF Sends, TypeOK
  <2>3. Of(stage') = Of(stage) /\ Of(sentUp') = Of(sentUp)
    <3>1. /\ sentUp \in [Sessions -> 0..MaxUp]
          /\ stage \in [Sessions -> {"none", "new", "end"}]
      BY <1>0 DEF TypeOK
    <3>2. \/ sentUp' = sentUp
          \/ sentUp' = [sentUp EXCEPT ![s] = sentUp[s] + 1]
      BY DEF ClientOpens, ClientWrites, ClientEnds
    <3>3. \/ stage' = stage
          \/ stage' = [stage EXCEPT ![s] = "new"]
          \/ stage' = [stage EXCEPT ![s] = "end"]
      BY DEF ClientOpens, ClientWrites, ClientEnds
    <3>4. Of(sentUp') = Of(sentUp)
      BY <1>2, <3>1, <3>2, OneAssumption DEF Of
    <3>5. Of(stage') = Of(stage)
      BY <1>2, <3>1, <3>3, OneAssumption DEF Of
    <3> QED
      BY <3>4, <3>5
  <2>4. UNCHANGED <<tunnelVars, targetVars, ses, sock, up, upEnd, down, downCut,
                    g1, g2, tGot, copyVars>>
    BY <2>1 DEF Sends
  <2>5. UNCHANGED Alone!vars
    BY <2>2, <2>3, <2>4
    DEF tunnelVars, targetVars, copyVars, Alone!vars, Alone!tunnelVars,
        Alone!clientVars, Alone!targetVars, Alone!copyVars
  <2> QED
    BY <2>5
<1> QED
  BY <1>1, <1>2

LEMMA TunnelAlone ==
    ASSUME IInv, TunnelBreaks \/ handleMux
    PROVE  [Alone!Next]_(Alone!vars)
<1> USE DEF tunnelVars, clientVars, targetVars, copyVars, Alone!tunnelVars,
            Alone!clientVars, Alone!targetVars, Alone!copyVars
<1>1. CASE TunnelBreaks
  <2>1. Alone!TunnelBreaks
    BY <1>1 DEF TunnelBreaks, Alone!TunnelBreaks
  <2> QED
    BY <2>1 DEF Alone!Next
<1>2. CASE handleMux
  <2>1. Only(wire') = Only(initial) \o Only(wire) /\ Only(initial') = <<>>
    BY <1>2, OnlySeeded, OnlyEmpty DEF handleMux, Seeded
  <2>2. Alone!handleMux
    BY <1>2, <2>1 DEF handleMux, Alone!handleMux, Alone!Seeded
  <2> QED
    BY <2>2 DEF Alone!Next, Alone!Worker
<1> QED
  BY <1>1, <1>2

LEMMA TargetAlone ==
    ASSUME IInv, NEW s \in Sessions, TargetStep(s)
    PROVE  [Alone!Next]_(Alone!vars)
<1> USE DEF tunnelVars, clientVars, targetVars, copyVars, Alone!tunnelVars,
            Alone!clientVars, Alone!targetVars, Alone!copyVars
<1>0. /\ tSent \in [Sessions -> 0..MaxDown] /\ tFin \in [Sessions -> BOOLEAN]
      /\ tFail \in [Sessions -> BOOLEAN] /\ sock \in [Sessions -> BOOLEAN]
  BY DEF IInv, TypeOK
<1>1. UNCHANGED <<hpc, initial, ended, clientVars, wire, ses, sock, up, upEnd, down,
                  downCut, g1, g2, tGot, copyVars>>
  BY DEF TargetStep
<1>2. CASE s # One
  <2>1. tSent' = tSent \/ tSent' = [tSent EXCEPT ![s] = tSent[s] + 1]
    BY DEF TargetStep
  <2>2. tFin' = tFin \/ tFin' = [tFin EXCEPT ![s] = TRUE]
    BY DEF TargetStep
  <2>3. tFail' = tFail \/ tFail' = [tFail EXCEPT ![s] = TRUE]
    BY DEF TargetStep
  <2>4. Of(tSent') = Of(tSent) /\ Of(tFin') = Of(tFin) /\ Of(tFail') = Of(tFail)
    <3>1. Of(tSent') = Of(tSent)
      BY <1>0, <1>2, <2>1, OneAssumption DEF Of
    <3>2. Of(tFin') = Of(tFin)
      BY <1>0, <1>2, <2>2, OneAssumption DEF Of
    <3>3. Of(tFail') = Of(tFail)
      BY <1>0, <1>2, <2>3, OneAssumption DEF Of
    <3> QED
      BY <3>1, <3>2, <3>3
  <2>5. UNCHANGED Alone!vars
    BY <1>1, <2>4 DEF Alone!vars
  <2> QED
    BY <2>5
<1>3. CASE s = One
  <2>1. /\ Of(sock)[One] = sock[One] /\ Of(tFail)[One] = tFail[One]
        /\ Of(tFin)[One] = tFin[One] /\ Of(tSent)[One] = tSent[One]
    BY <1>0, OneAssumption DEF Of
  <2>2. Of(sock)[One] /\ ~Of(tFail)[One] /\ ~Of(tFin)[One]
    BY <1>3, <2>1 DEF TargetStep
  <2>3. \/ /\ Of(tSent)[One] < MaxDown
           /\ Of(tSent') = [Of(tSent) EXCEPT ![One] = Of(tSent)[One] + 1]
           /\ Of(tFin') = Of(tFin) /\ Of(tFail') = Of(tFail)
        \/ /\ One \notin UDP \cap {One}
           /\ Of(tFin') = [Of(tFin) EXCEPT ![One] = TRUE]
           /\ Of(tSent') = Of(tSent) /\ Of(tFail') = Of(tFail)
        \/ /\ Of(tFail') = [Of(tFail) EXCEPT ![One] = TRUE]
           /\ Of(tSent') = Of(tSent) /\ Of(tFin') = Of(tFin)
    <3>1. CASE /\ tSent[One] < MaxDown
               /\ tSent' = [tSent EXCEPT ![One] = tSent[One] + 1]
               /\ UNCHANGED <<tFin, tFail>>
      <4>1. Of(tSent') = [Of(tSent) EXCEPT ![One] = tSent[One] + 1]
        BY <1>0, <3>1, OneAssumption DEF Of
      <4> QED
        BY <2>1, <3>1, <4>1
    <3>2. CASE /\ One \notin UDP
               /\ tFin' = [tFin EXCEPT ![One] = TRUE]
               /\ UNCHANGED <<tSent, tFail>>
      <4>1. Of(tFin') = [Of(tFin) EXCEPT ![One] = TRUE]
        BY <1>0, <3>2, OneAssumption DEF Of
      <4> QED
        BY <3>2, <4>1
    <3>3. CASE tFail' = [tFail EXCEPT ![One] = TRUE] /\ UNCHANGED <<tSent, tFin>>
      <4>1. Of(tFail') = [Of(tFail) EXCEPT ![One] = TRUE]
        BY <1>0, <3>3, OneAssumption DEF Of
      <4> QED
        BY <3>3, <4>1
    <3> QED
      BY <1>3, <3>1, <3>2, <3>3 DEF TargetStep
  <2>4. Alone!TargetStep(One)
    BY <1>1, <2>2, <2>3 DEF Alone!TargetStep
  <2> QED
    BY <2>4 DEF Alone!Next
<1> QED
  BY <1>2, <1>3

LEMMA CloseAlone ==
    ASSUME IInv, NEW S \in SUBSET Sessions, CloseSessions(S)
    PROVE  /\ One \in S => Alone!CloseSessions({One})
           /\ One \notin S =>
                 UNCHANGED <<Of(ses), Of(sock), Of(up), Of(upEnd), Of(down), Of(downCut),
                             Of(g1), Of(g2)>>
<1>0. /\ ses \in [Sessions -> {"none", "open", "closed", "failed"}]
      /\ upEnd \in [Sessions -> BOOLEAN] /\ downCut \in [Sessions -> BOOLEAN]
      /\ down \in [Sessions -> 0..MaxDown] /\ One \in Sessions
  BY OneAssumption DEF IInv, TypeOK
<1>1. /\ ses'[One] = IF One \in S /\ ses[One] = "open" THEN "closed" ELSE ses[One]
      /\ upEnd'[One] = (upEnd[One] \/ (One \in S /\ ses[One] = "open"))
      /\ downCut'[One] = (downCut[One] \/ (One \in S /\ ses[One] = "open"))
      /\ down'[One] = IF One \in S /\ ses[One] = "open" THEN 0 ELSE down[One]
      /\ UNCHANGED <<sock, up, g1, g2>>
  BY <1>0 DEF CloseSessions
<1>2. CASE One \notin S
  <2>1. /\ ses'[One] = ses[One] /\ upEnd'[One] = upEnd[One]
        /\ downCut'[One] = downCut[One] /\ down'[One] = down[One]
    BY <1>0, <1>1, <1>2
  <2> QED
    BY <1>1, <1>2, <2>1 DEF Of
<1>3. CASE One \in S
  <2>1. /\ Of(ses') = [s \in {One} |->
             IF s \in {r \in {One} : Of(ses)[r] = "open"} THEN "closed" ELSE Of(ses)[s]]
        /\ Of(upEnd') = [s \in {One} |->
             Of(upEnd)[s] \/ s \in {r \in {One} : Of(ses)[r] = "open"}]
    BY <1>1, <1>3 DEF Of
  <2>2. /\ Of(downCut') = [s \in {One} |->
             Of(downCut)[s] \/ s \in {r \in {One} : Of(ses)[r] = "open"}]
        /\ Of(down') = [s \in {One} |->
             IF s \in {r \in {One} : Of(ses)[r] = "open"} THEN 0 ELSE Of(down)[s]]
    BY <1>1, <1>3 DEF Of
  <2>3. Alone!CloseSessions({One})
    BY <1>1, <2>1, <2>2 DEF Alone!CloseSessions
  <2> QED
    BY <1>3, <2>3
<1> QED
  BY <1>2, <1>3

LEMMA WorkerEndsAlone ==
    ASSUME IInv, WorkerEnds PROVE [Alone!Next]_(Alone!vars)
<1>1. Alone!CloseSessions({One})
  BY CloseAlone, OneAssumption DEF WorkerEnds
<1>2. Alone!WorkerEnds
  BY <1>1 DEF WorkerEnds, Alone!WorkerEnds, clientVars, targetVars, copyVars,
              Alone!clientVars, Alone!targetVars, Alone!copyVars
<1> QED
  BY <1>2 DEF Alone!Next, Alone!Worker

LEMMA RespondAlone ==
    ASSUME IInv, NEW s \in Sessions, Respond(s)
    PROVE  [Alone!Next]_(Alone!vars)
<1> USE DEF tunnelVars, clientVars, targetVars, copyVars, Alone!tunnelVars,
            Alone!clientVars, Alone!targetVars, Alone!copyVars
<1>0. /\ ses \in [Sessions -> {"none", "open", "closed", "failed"}]
      /\ down \in [Sessions -> 0..MaxDown] /\ delivered \in [Sessions -> 0..MaxDown]
      /\ One \in Sessions
  BY OneAssumption DEF IInv, TypeOK
<1>1. UNCHANGED <<hpc, initial, ended, clientVars, targetVars, wire, tGot, taken, cutShort>>
  BY DEF Respond
<1>2. CASE ended
  <2>1. CloseSessions({s}) /\ delivered' = delivered
    BY <1>2 DEF Respond
  <2>2. CASE s # One
    <3>1. UNCHANGED <<Of(ses), Of(sock), Of(up), Of(upEnd), Of(down), Of(downCut),
                      Of(g1), Of(g2)>>
      BY <2>1, <2>2, CloseAlone
    <3>2. UNCHANGED Alone!vars
      BY <1>1, <2>1, <3>1 DEF Alone!vars
    <3> QED
      BY <3>2
  <2>3. CASE s = One
    <3>1. Alone!CloseSessions({One})
      BY <1>0, <2>1, <2>3, CloseAlone
    <3>2. Of(ses)[One] = "open" /\ Of(down)[One] > 0
      BY <1>0, <2>3 DEF Respond, Of
    <3>3. Alone!Respond(One)
      BY <1>1, <1>2, <2>1, <3>1, <3>2 DEF Alone!Respond
    <3> QED
      BY <3>3 DEF Alone!Next
  <2> QED
    BY <2>2, <2>3
<1>3. CASE ~ended
  <2>1. /\ down' = [down EXCEPT ![s] = down[s] - 1]
        /\ delivered' = [delivered EXCEPT ![s] = delivered[s] + 1]
        /\ UNCHANGED <<ses, sock, up, upEnd, downCut, g1, g2>>
    BY <1>3 DEF Respond
  <2>2. CASE s # One
    <3>1. Of(down') = Of(down)
      BY <1>0, <2>1, <2>2 DEF Of
    <3>2. Of(delivered') = Of(delivered)
      BY <1>0, <2>1, <2>2 DEF Of
    <3>3. UNCHANGED Alone!vars
      BY <1>1, <2>1, <3>1, <3>2 DEF Alone!vars
    <3> QED
      BY <3>3
  <2>3. CASE s = One
    <3>1. Of(down') = [Of(down) EXCEPT ![One] = Of(down)[One] - 1]
      BY <1>0, <2>1, <2>3 DEF Of
    <3>2. Of(delivered') = [Of(delivered) EXCEPT ![One] = Of(delivered)[One] + 1]
      BY <1>0, <2>1, <2>3 DEF Of
    <3>3. Of(ses)[One] = "open" /\ Of(down)[One] > 0
      BY <1>0, <2>3 DEF Respond, Of
    <3>4. Alone!Respond(One)
      BY <1>1, <1>3, <2>1, <3>1, <3>2, <3>3 DEF Alone!Respond
    <3> QED
      BY <3>4 DEF Alone!Next
  <2> QED
    BY <2>2, <2>3
<1> QED
  BY <1>2, <1>3

LEMMA HandleFrameAlone ==
    ASSUME IInv, UInv, HandleFrame PROVE [Alone!Next]_(Alone!vars)
<1> USE DEF tunnelVars, clientVars, targetVars, copyVars, Alone!tunnelVars,
            Alone!clientVars, Alone!targetVars, Alone!copyVars
<1> DEFINE f == Head(wire)
<1>0. /\ ses \in [Sessions -> {"none", "open", "closed", "failed"}]
      /\ sock \in [Sessions -> BOOLEAN] /\ up \in [Sessions -> Nat]
      /\ g1 \in [Sessions -> Copies] /\ g2 \in [Sessions -> Copies]
      /\ wire \in Seq(Frames) /\ One \in Sessions
  BY OneAssumption DEF IInv, TypeOK
<1>1. /\ UNCHANGED <<hpc, initial, ended, clientVars, targetVars, tGot, copyVars>>
      /\ hpc = "wait" /\ wire # <<>> /\ wire' = Tail(wire)
  BY DEF HandleFrame
<1>2. f \in Frames /\ f.s \in Sessions
  <2>1. f \in Frames
    BY <1>0, <1>1, HeadTailProperties
  <2> QED
    BY <2>1, FrameType
<1>3. CASE f.s # One
  <2>1. Only(wire') = Only(wire)
    BY <1>0, <1>1, <1>3, OnlyHandled
  <2>2. UNCHANGED <<Of(ses), Of(sock), Of(up), Of(upEnd), Of(down), Of(downCut),
                    Of(g1), Of(g2)>>
    <3> HIDE DEF f
    <3>1. CASE Dispatch(f.s)
      <4>1. /\ Of(ses') = Of(ses) /\ Of(sock') = Of(sock) /\ Of(g1') = Of(g1)
            /\ Of(g2') = Of(g2)
        BY <1>0, <1>3, <3>1 DEF Of, Dispatch
      <4> QED
        BY <3>1, <4>1 DEF Dispatch
    <3>2. CASE DispatchFails(f.s)
      <4>1. Of(ses') = Of(ses)
        BY <1>0, <1>3, <3>2 DEF Of, DispatchFails
      <4> QED
        BY <3>2, <4>1 DEF DispatchFails
    <3>3. CASE /\ up' = IF ses[f.s] = "open" THEN [up EXCEPT ![f.s] = @ + 1] ELSE up
               /\ UNCHANGED <<ses, sock, upEnd, down, downCut, g1, g2>>
      <4>1. Of(up') = Of(up)
        BY <1>0, <1>3, <3>3 DEF Of
      <4> QED
        BY <3>3, <4>1
    <3>4. CASE CloseSessions({f.s})
      BY <1>2, <1>3, <3>4, CloseAlone
    <3> QED
      BY <3>1, <3>2, <3>3, <3>4 DEF HandleFrame, f
  <2>3. UNCHANGED Alone!vars
    BY <1>1, <2>1, <2>2 DEF Alone!vars
  <2> QED
    BY <2>3
<1>4. CASE f.s = One
  <2>1. Only(wire) # <<>> /\ Head(Only(wire)) = f /\ Tail(Only(wire)) = Only(wire')
    <3>1. /\ f.op # "new" => Opens(wire) = 0
          /\ f.op = "end" => Chunks(wire) = 0
      BY <1>1, <1>4, HandledInTurn
    <3> QED
      BY <1>0, <1>1, <1>4, <3>1, OnlyHandled
  <2>2. \/ f.op = "new" /\ (Alone!Dispatch(One) \/ Alone!DispatchFails(One))
        \/ /\ f.op = "keep"
           /\ Of(up') = IF Of(ses)[One] = "open"
                        THEN [Of(up) EXCEPT ![One] = Of(up)[One] + 1] ELSE Of(up)
           /\ UNCHANGED <<Of(ses), Of(sock), Of(upEnd), Of(down), Of(downCut), Of(g1), Of(g2)>>
        \/ f.op = "end" /\ Alone!CloseSessions({One})
    <3> HIDE DEF f
    <3>1. CASE f.op = "new" /\ Dispatch(One)
      <4>1. /\ Of(ses') = [Of(ses) EXCEPT ![One] = "open"]
            /\ Of(sock') = [Of(sock) EXCEPT ![One] = TRUE]
            /\ Of(g1') = [Of(g1) EXCEPT ![One] = "read"]
            /\ Of(g2') = [Of(g2) EXCEPT ![One] = "read"]
        BY <1>0, <3>1 DEF Of, Dispatch
      <4> QED
        BY <3>1, <4>1 DEF Dispatch, Alone!Dispatch
    <3>2. CASE f.op = "new" /\ DispatchFails(One)
      <4>1. Of(ses') = [Of(ses) EXCEPT ![One] = "failed"]
        BY <1>0, <3>2 DEF Of, DispatchFails
      <4> QED
        BY <3>2, <4>1 DEF DispatchFails, Alone!DispatchFails
    <3>3. CASE /\ f.op = "keep"
               /\ up' = IF ses[One] = "open" THEN [up EXCEPT ![One] = @ + 1] ELSE up
               /\ UNCHANGED <<ses, sock, upEnd, down, downCut, g1, g2>>
      <4>1. Of(up') = IF Of(ses)[One] = "open"
                      THEN [Of(up) EXCEPT ![One] = Of(up)[One] + 1] ELSE Of(up)
        BY <1>0, <3>3 DEF Of
      <4> QED
        BY <3>3, <4>1
    <3>4. CASE f.op = "end" /\ CloseSessions({One})
      BY <1>0, <3>4, CloseAlone
    <3> QED
      BY <1>4, <3>1, <3>2, <3>3, <3>4 DEF HandleFrame, f
  <2>3. Alone!HandleFrame
    BY <1>1, <1>4, <2>1, <2>2 DEF Alone!HandleFrame
  <2> QED
    BY <2>3 DEF Alone!Next, Alone!Worker
<1> QED
  BY <1>3, <1>4

LEMMA DownstreamAlone ==
    ASSUME IInv, NEW s \in Sessions, Downstream(s)
    PROVE  [Alone!Next]_(Alone!vars)
<1> USE DEF tunnelVars, clientVars, targetVars, copyVars, Alone!tunnelVars,
            Alone!clientVars, Alone!targetVars, Alone!copyVars
<1>0. /\ sock \in [Sessions -> BOOLEAN] /\ g1 \in [Sessions -> Copies]
      /\ down \in [Sessions -> 0..MaxDown] /\ taken \in [Sessions -> 0..MaxDown]
      /\ cutShort \in SUBSET Sessions /\ One \in Sessions
  BY OneAssumption DEF IInv, TypeOK
<1>1. UNCHANGED <<hpc, initial, ended, clientVars, targetVars, wire, ses, up, upEnd,
                  downCut, g2, tGot, delivered>>
  BY DEF Downstream, ReadTarget, WriteResponse
<1>2. CASE s # One
  <2>1. \E v : g1' = [g1 EXCEPT ![s] = v]
    BY DEF Downstream, ReadTarget, WriteResponse, ResponseEnds
  <2>2. sock' = sock \/ sock' = [sock EXCEPT ![s] = FALSE]
    BY DEF Downstream, ReadTarget, WriteResponse, ResponseEnds
  <2>3. down' = down \/ down' = [down EXCEPT ![s] = down[s] + 1]
    BY DEF Downstream, ReadTarget, WriteResponse, ResponseEnds
  <2>4. taken' = taken \/ taken' = [taken EXCEPT ![s] = taken[s] + 1]
    BY DEF Downstream, ReadTarget, WriteResponse, ResponseEnds
  <2>5. cutShort' = cutShort \/ cutShort' = cutShort \cup {s}
    BY DEF Downstream, ReadTarget, WriteResponse
  <2>6. Of(g1') = Of(g1)
    BY <1>0, <1>2, <2>1 DEF Of
  <2>7. Of(sock') = Of(sock)
    BY <1>0, <1>2, <2>2 DEF Of
  <2>8. Of(down') = Of(down)
    BY <1>0, <1>2, <2>3 DEF Of
  <2>9. Of(taken') = Of(taken)
    BY <1>0, <1>2, <2>4 DEF Of
  <2>10. cutShort' \cap {One} = cutShort \cap {One}
    BY <1>2, <2>5
  <2>11. UNCHANGED Alone!vars
    BY <1>1, <2>6, <2>7, <2>8, <2>9, <2>10 DEF Alone!vars
  <2> QED
    BY <2>11
<1>3. CASE s = One
  <2>1. /\ Of(g1)[One] = g1[One] /\ Of(taken)[One] = taken[One]
        /\ Of(tSent)[One] = tSent[One] /\ Of(tFin)[One] = tFin[One]
        /\ Of(downCut)[One] = downCut[One] /\ Of(down)[One] = down[One]
        /\ (Alone!Usable(One) <=> Usable(One))
    BY <1>0 DEF Of, Usable, Alone!Usable
  <2>2. ASSUME ResponseEnds(One) PROVE Alone!ResponseEnds(One)
    <3>1. Of(g1') = [Of(g1) EXCEPT ![One] = "gone"]
      BY <1>0, <2>2 DEF Of, ResponseEnds
    <3>2. Of(sock') = [Of(sock) EXCEPT ![One] = FALSE]
      BY <1>0, <2>2 DEF Of, ResponseEnds
    <3> QED
      BY <2>2, <3>1, <3>2 DEF ResponseEnds, Alone!ResponseEnds
  <2>3. CASE ReadTarget(One)
    <3>1. CASE /\ Usable(One) /\ taken[One] < tSent[One]
               /\ taken' = [taken EXCEPT ![One] = @ + 1]
               /\ g1' = [g1 EXCEPT ![One] = "write"]
               /\ UNCHANGED <<sock, down>>
      <4>1. Of(taken') = [Of(taken) EXCEPT ![One] = Of(taken)[One] + 1]
        BY <1>0, <3>1 DEF Of
      <4>2. Of(g1') = [Of(g1) EXCEPT ![One] = "write"]
        BY <1>0, <3>1 DEF Of
      <4>3. Alone!ReadTarget(One)
        BY <1>1, <2>1, <2>3, <3>1, <4>1, <4>2 DEF ReadTarget, Alone!ReadTarget
      <4> QED
        BY <4>3 DEF Alone!Next, Alone!Downstream
    <3>2. CASE /\ ~Usable(One) \/ (tFin[One] /\ taken[One] = tSent[One])
               /\ ResponseEnds(One)
               /\ UNCHANGED taken
      <4>1. Alone!ReadTarget(One)
        BY <1>1, <2>1, <2>2, <2>3, <3>2 DEF ReadTarget, Alone!ReadTarget
      <4> QED
        BY <4>1 DEF Alone!Next, Alone!Downstream
    <3> QED
      BY <2>3, <3>1, <3>2 DEF ReadTarget
  <2>4. CASE WriteResponse(One)
    <3>1. CASE downCut[One]
      <4>1. cutShort' \cap {One} = IF Usable(One) THEN (cutShort \cap {One}) \cup {One}
                                   ELSE cutShort \cap {One}
        BY <2>4, <3>1 DEF WriteResponse
      <4>2. Alone!ResponseEnds(One)
        BY <2>2, <2>4, <3>1 DEF WriteResponse
      <4>3. Alone!WriteResponse(One)
        BY <1>1, <2>1, <2>4, <3>1, <4>1, <4>2 DEF WriteResponse, Alone!WriteResponse
      <4> QED
        BY <4>3 DEF Alone!Next, Alone!Downstream
    <3>2. CASE ~downCut[One]
      <4>1. Of(down') = [Of(down) EXCEPT ![One] = Of(down)[One] + 1]
        BY <1>0, <2>4, <3>2 DEF Of, WriteResponse
      <4>2. Of(g1') = [Of(g1) EXCEPT ![One] = "read"]
        BY <1>0, <2>4, <3>2 DEF Of, WriteResponse
      <4>3. Alone!WriteResponse(One)
        BY <1>1, <2>1, <2>4, <3>2, <4>1, <4>2 DEF WriteResponse, Alone!WriteResponse
      <4> QED
        BY <4>3 DEF Alone!Next, Alone!Downstream
    <3> QED
      BY <3>1, <3>2
  <2> QED
    BY <1>3, <2>3, <2>4 DEF Downstream
<1> QED
  BY <1>2, <1>3

LEMMA UpstreamAlone ==
    ASSUME IInv, NEW s \in Sessions, Upstream(s)
    PROVE  [Alone!Next]_(Alone!vars)
<1> USE DEF tunnelVars, clientVars, targetVars, copyVars, Alone!tunnelVars,
            Alone!clientVars, Alone!targetVars, Alone!copyVars
<1>0. /\ sock \in [Sessions -> BOOLEAN] /\ g2 \in [Sessions -> Copies]
      /\ up \in [Sessions -> Nat] /\ tGot \in [Sessions -> Nat] /\ One \in Sessions
  BY OneAssumption DEF IInv, TypeOK
<1>1. UNCHANGED <<hpc, initial, ended, clientVars, targetVars, wire, ses, upEnd, down,
                  downCut, g1, copyVars>>
  BY DEF Upstream, ReadRequest, WriteTarget
<1>2. CASE s # One
  <2>1. \E v : g2' = [g2 EXCEPT ![s] = v]
    BY DEF Upstream, ReadRequest, WriteTarget, RequestEnds
  <2>2. sock' = sock \/ sock' = [sock EXCEPT ![s] = FALSE]
    BY DEF Upstream, ReadRequest, WriteTarget, RequestEnds
  <2>3. up' = up \/ up' = [up EXCEPT ![s] = up[s] - 1]
    BY DEF Upstream, ReadRequest, WriteTarget, RequestEnds
  <2>4. tGot' = tGot \/ tGot' = [tGot EXCEPT ![s] = tGot[s] + 1]
    BY DEF Upstream, ReadRequest, WriteTarget, RequestEnds
  <2>5. Of(g2') = Of(g2)
    BY <1>0, <1>2, <2>1 DEF Of
  <2>6. Of(sock') = Of(sock)
    BY <1>0, <1>2, <2>2 DEF Of
  <2>7. Of(up') = Of(up)
    BY <1>0, <1>2, <2>3 DEF Of
  <2>8. Of(tGot') = Of(tGot)
    BY <1>0, <1>2, <2>4 DEF Of
  <2>9. UNCHANGED Alone!vars
    BY <1>1, <2>5, <2>6, <2>7, <2>8 DEF Alone!vars
  <2> QED
    BY <2>9
<1>3. CASE s = One
  <2>1. /\ Of(g2)[One] = g2[One] /\ Of(up)[One] = up[One] /\ Of(upEnd)[One] = upEnd[One]
        /\ Of(tGot)[One] = tGot[One] /\ (Alone!Usable(One) <=> Usable(One))
    BY <1>0 DEF Of, Usable, Alone!Usable
  <2>2. ASSUME RequestEnds(One) PROVE Alone!RequestEnds(One)
    <3>1. Of(g2') = [Of(g2) EXCEPT ![One] = "gone"]
      BY <1>0, <2>2 DEF Of, RequestEnds
    <3>2. Of(sock') = [Of(sock) EXCEPT ![One] = FALSE]
      BY <1>0, <2>2 DEF Of, RequestEnds
    <3> QED
      BY <3>1, <3>2 DEF Alone!RequestEnds
  <2>3. CASE ReadRequest(One)
    <3>1. CASE /\ up[One] > 0
               /\ up' = [up EXCEPT ![One] = @ - 1]
               /\ g2' = [g2 EXCEPT ![One] = "write"]
               /\ UNCHANGED sock
      <4>1. Of(up') = [Of(up) EXCEPT ![One] = Of(up)[One] - 1]
        BY <1>0, <3>1 DEF Of
      <4>2. Of(g2') = [Of(g2) EXCEPT ![One] = "write"]
        BY <1>0, <3>1 DEF Of
      <4>3. Alone!ReadRequest(One)
        BY <1>1, <2>1, <2>3, <3>1, <4>1, <4>2 DEF ReadRequest, Alone!ReadRequest
      <4> QED
        BY <4>3 DEF Alone!Next, Alone!Upstream
    <3>2. CASE up[One] = 0 /\ upEnd[One] /\ RequestEnds(One) /\ UNCHANGED up
      <4>1. Alone!ReadRequest(One)
        BY <1>1, <2>1, <2>2, <2>3, <3>2 DEF ReadRequest, Alone!ReadRequest
      <4> QED
        BY <4>1 DEF Alone!Next, Alone!Upstream
    <3> QED
      BY <2>3, <3>1, <3>2 DEF ReadRequest
  <2>4. CASE WriteTarget(One)
    <3>1. CASE Usable(One)
      <4>1. Of(tGot') = [Of(tGot) EXCEPT ![One] = Of(tGot)[One] + 1]
        BY <1>0, <2>4, <3>1 DEF Of, WriteTarget
      <4>2. Of(g2') = [Of(g2) EXCEPT ![One] = "read"]
        BY <1>0, <2>4, <3>1 DEF Of, WriteTarget
      <4>3. Alone!WriteTarget(One)
        BY <1>1, <2>1, <2>4, <3>1, <4>1, <4>2 DEF WriteTarget, Alone!WriteTarget
      <4> QED
        BY <4>3 DEF Alone!Next, Alone!Upstream
    <3>2. CASE ~Usable(One)
      <4>1. Alone!WriteTarget(One)
        BY <1>1, <2>1, <2>2, <2>4, <3>2 DEF WriteTarget, Alone!WriteTarget
      <4> QED
        BY <4>1 DEF Alone!Next, Alone!Upstream
    <3> QED
      BY <3>1, <3>2
  <2> QED
    BY <1>3, <2>3, <2>4 DEF Upstream
<1> QED
  BY <1>2, <1>3

(* A mux session behaves as if it had the tunnel to itself: with any number *)
(* of other sessions, whatever they, their targets and their goroutines do, *)
(* every behaviour of handleMux, the worker and Dispatch is, seen from one  *)
(* session, a behaviour of a tunnel that never had another.                 *)
THEOREM SessionIsAlone == Spec => SessionAlone
<1>1. IInv /\ UInv /\ [Next]_vars => [Alone!Next]_(Alone!vars)
  <2> SUFFICES ASSUME IInv, UInv, [Next]_vars PROVE [Alone!Next]_(Alone!vars)
    OBVIOUS
  <2>1. CASE UNCHANGED vars
    <3>1. UNCHANGED Alone!vars
      BY <2>1 DEF vars, tunnelVars, clientVars, targetVars, copyVars, Alone!vars,
          Alone!tunnelVars, Alone!clientVars, Alone!targetVars, Alone!copyVars
    <3> QED
      BY <3>1
  <2>2. CASE Worker
    BY <2>2, TunnelAlone, HandleFrameAlone, WorkerEndsAlone DEF Worker
  <2>3. CASE TunnelBreaks
    BY <2>3, TunnelAlone
  <2>4. CASE \E s \in Sessions :
                \/ ClientOpens(s) \/ ClientWrites(s) \/ ClientEnds(s) \/ TargetStep(s)
                \/ Respond(s) \/ Downstream(s) \/ Upstream(s)
    BY <2>4, ClientAlone, TargetAlone, RespondAlone, DownstreamAlone, UpstreamAlone
  <2> QED
    BY <2>1, <2>2, <2>3, <2>4 DEF Next
<1> QED
  BY <1>1, AloneInitially, Invariance, UploadInvariance, PTL
  DEF Spec, SessionAlone, Alone!Spec
=============================================================================
