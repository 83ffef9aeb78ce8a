----------------------------- MODULE IpcProofs -----------------------------
(***************************************************************************)
(* Safety of one connection, for any number of calls on it: a call returns *)
(* its own reply or an error, no request runs twice or from half a frame,  *)
(* and a clean end leaves no request unanswered.                           *)
(***************************************************************************)
EXTENDS Ipc, SequenceTheorems, TLAPS

LEMMA Whole ==
    ASSUME NEW S, NEW s \in Seq(S)
    PROVE  /\ Len(s) \in Nat
           /\ \A i \in 1 .. Len(s) : s[i] \in S
           /\ s = <<>> <=> Len(s) = 0
  OBVIOUS

(* A sequence with one element more, index by index.                       *)
LEMMA Appended ==
    ASSUME NEW S, NEW s \in Seq(S), NEW e \in S
    PROVE  /\ Append(s, e) \in Seq(S)
           /\ Append(s, e) # <<>>
           /\ Len(Append(s, e)) = Len(s) + 1
           /\ Append(s, e)[Len(s) + 1] = e
           /\ \A i \in 1 .. Len(s) : Append(s, e)[i] = s[i]
  BY AppendProperties

(* A sequence without its first element.                                   *)
LEMMA Shortened ==
    ASSUME NEW S, NEW s \in Seq(S), s # <<>>
    PROVE  /\ Tail(s) \in Seq(S)
           /\ Len(s) \in Nat \ {0}
           /\ Len(Tail(s)) = Len(s) - 1
           /\ Head(s) = s[1] /\ s[1] \in S
           /\ \A i \in 1 .. Len(Tail(s)) : Tail(s)[i] = s[i + 1]
           /\ Tail(s) # <<>> <=> Len(s) > 1
  <1>1. /\ Head(s) \in S /\ Tail(s) \in Seq(S)
        /\ Len(Tail(s)) = Len(s) - 1
        /\ \A i \in 1 .. Len(Tail(s)) : Tail(s)[i] = s[i + 1]
    BY HeadTailProperties
  <1>2. Len(s) \in Nat \ {0} /\ Head(s) = s[1]
    OBVIOUS
  <1>3. Tail(s) = <<>> <=> Len(Tail(s)) = 0
    BY <1>1, Whole
  <1> QED
    BY <1>1, <1>2, <1>3

(* The parts under way have ids and kinds.                                 *)
LEMMA StreamTypes ==
    ASSUME TypeOK
    PROVE  /\ c2s \in Seq(Parts) /\ Len(c2s) \in Nat
           /\ c2s = <<>> <=> Len(c2s) = 0
           /\ \A i \in 1 .. Len(c2s) : c2s[i] \in Parts /\ c2s[i].id \in Ids
           /\ s2c \in Seq(Parts) /\ Len(s2c) \in Nat
           /\ \A i \in 1 .. Len(s2c) : s2c[i] \in Parts /\ s2c[i].id \in Ids
           /\ ran \in Seq(Ids) /\ Len(ran) \in Nat
           /\ \A i \in 1 .. Len(ran) : ran[i] \in Ids
  <1>1. c2s \in Seq(Parts) /\ s2c \in Seq(Parts) /\ ran \in Seq(Ids)
    BY DEF TypeOK
  <1>2. /\ Len(c2s) \in Nat /\ (c2s = <<>> <=> Len(c2s) = 0)
        /\ \A i \in 1 .. Len(c2s) : c2s[i] \in Parts
    BY <1>1, Whole
  <1>3. Len(s2c) \in Nat /\ \A i \in 1 .. Len(s2c) : s2c[i] \in Parts
    BY <1>1, Whole
  <1>4. Len(ran) \in Nat /\ \A i \in 1 .. Len(ran) : ran[i] \in Ids
    BY <1>1, Whole
  <1>5. \A p \in Parts : p.id \in Ids
    BY DEF Parts
  <1> QED
    BY <1>1, <1>2, <1>3, <1>4, <1>5

LEMMA IpcInit == Init => IpcInv
  BY MaxCallsAssumption DEF Init, IpcInv, TypeOK, ServeInv, FramesInOrder, BodyFollowsHeader, PlaceInv,
     CallerInv, SentInv, RanInv, OwnReply, RunAtMostOnce, CleanEndAnswered, Ids, Down, InPlace, Ran

-----------------------------------------------------------------------------
(* The stream of frames.                                                   *)

(* The caller adds to it a header, or what follows one.                    *)
LEMMA StreamGrows ==
    ASSUME IpcInv, client \in {"header", "body"}, NEW k \in {"header", "body", "cut"},
           client = "header" <=> k = "header",
           c2s' = Append(c2s, Part(k, calls, "req")),
           UNCHANGED <<server, serverUp, req>>
    PROVE  /\ c2s' \in Seq(Parts) /\ c2s' # <<>>
           /\ Len(c2s') = Len(c2s) + 1
           /\ \A i \in 1 .. Len(c2s) : c2s'[i] = c2s[i]
           /\ c2s'[Len(c2s')].part = k /\ c2s'[Len(c2s')].id = calls
           /\ \A i \in 1 .. Len(c2s') : c2s'[i].id <= calls
           /\ FramesInOrder' /\ BodyFollowsHeader' /\ PlaceInv'
  <1> DEFINE p == Part(k, calls, "req")
  <1> USE MaxCallsAssumption
  <1>1. /\ c2s \in Seq(Parts) /\ Len(c2s) \in Nat
        /\ c2s = <<>> <=> Len(c2s) = 0
        /\ \A i \in 1 .. Len(c2s) : c2s[i].id \in Ids
    BY StreamTypes DEF IpcInv
  <1>2. calls \in Ids
    BY DEF IpcInv, TypeOK, CallerInv, Ids
  <1>3. p \in Parts /\ p.part = k /\ p.id = calls
    BY <1>2 DEF Part, Parts
  <1>4. /\ c2s' \in Seq(Parts) /\ c2s' # <<>>
        /\ Len(c2s') = Len(c2s) + 1
        /\ c2s'[Len(c2s) + 1] = p
        /\ \A i \in 1 .. Len(c2s) : c2s'[i] = c2s[i]
    BY <1>1, <1>3, Appended
  <1> HIDE DEF p
  <1>5. /\ \A i \in 1 .. Len(c2s) : c2s[i].id <= calls
        /\ k = "header" => \A i \in 1 .. Len(c2s) : c2s[i].id < calls
        /\ k # "header" /\ c2s # <<>> => c2s[Len(c2s)].part = "header" /\ c2s[Len(c2s)].id = calls
    BY DEF IpcInv, CallerInv
  <1>6. \A i \in 1 .. Len(c2s') : c2s'[i].id <= calls
    BY <1>1, <1>2, <1>3, <1>4, <1>5 DEF Ids
  <1>7. FramesInOrder'
    <2>1. \A i \in 1 .. Len(c2s) : c2s[i].id < calls \/ (c2s[i].id = calls /\ c2s[i].part = "header" /\ k # "header")
      <3> SUFFICES ASSUME NEW i \in 1 .. Len(c2s), k # "header"
                   PROVE  c2s[i].id < calls \/ (c2s[i].id = calls /\ c2s[i].part = "header")
        BY <1>5
      <3>1. CASE i = Len(c2s)
        BY <1>1, <1>5, <3>1
      <3>2. CASE i < Len(c2s)
        <4>1. \/ c2s[i].id < c2s[Len(c2s)].id
              \/ c2s[i].id = c2s[Len(c2s)].id /\ c2s[i].part = "header"
          BY <1>1, <3>2 DEF IpcInv, FramesInOrder
        <4> QED
          BY <1>1, <1>5, <4>1
      <3> QED
        BY <1>1, <3>1, <3>2
    <2>2. ASSUME NEW i \in 1 .. Len(c2s'), NEW j \in 1 .. Len(c2s'), i < j
          PROVE  \/ c2s'[i].id < c2s'[j].id
                 \/ c2s'[i].id = c2s'[j].id /\ c2s'[i].part = "header" /\ c2s'[j].part # "header"
      <3>1. CASE j = Len(c2s) + 1
        BY <1>1, <1>3, <1>4, <2>1, <2>2, <3>1
      <3>2. CASE j # Len(c2s) + 1
        BY <1>1, <1>4, <2>2, <3>2 DEF IpcInv, FramesInOrder
      <3> QED
        BY <3>1, <3>2
    <2> QED
      BY <2>2 DEF FramesInOrder
  <1>8. BodyFollowsHeader'
    <2> SUFFICES ASSUME NEW i \in 1 .. Len(c2s'), i > 1, c2s'[i].part # "header"
                 PROVE  c2s'[i - 1].part = "header" /\ c2s'[i - 1].id = c2s'[i].id
      BY DEF BodyFollowsHeader
    <2>1. CASE i = Len(c2s) + 1
      BY <1>1, <1>3, <1>4, <1>5, <2>1
    <2>2. CASE i # Len(c2s) + 1
      BY <1>1, <1>4, <2>2 DEF IpcInv, BodyFollowsHeader
    <2> QED
      BY <2>1, <2>2
  <1>9. PlaceInv'
    <2>1. /\ client = "header" => req < calls
          /\ client = "body" /\ InPlace /\ c2s = <<>> => server = "reading" /\ req = calls
          /\ req \in Nat /\ calls \in Nat
      BY DEF IpcInv, CallerInv, TypeOK
    <2>2. ASSUME server \in {"read", "run", "header", "body"}
          PROVE  /\ c2s'[1].part = "header"
                 /\ \A i \in 1 .. Len(c2s') : c2s'[i].id > req
      <3>1. /\ c2s # <<>> => c2s[1].part = "header"
            /\ \A i \in 1 .. Len(c2s) : c2s[i].id > req
        BY <2>2 DEF IpcInv, PlaceInv
      <3>2. InPlace /\ server # "reading"
        BY <2>2 DEF IpcInv, ServeInv, InPlace, Down
      <3>3. calls > req
        BY <1>1, <1>5, <2>1, <3>1, <3>2
      <3> QED
        BY <1>1, <1>3, <1>4, <2>1, <3>1, <3>2, <3>3
    <2>3. ASSUME server = "reading"
          PROVE  /\ c2s'[1].part # "header" => c2s'[1].id = req
                 /\ \A i \in 1 .. Len(c2s') : i > 1 \/ c2s'[1].part = "header" => c2s'[i].id > req
      <3>1. /\ c2s # <<>> /\ c2s[1].part # "header" => c2s[1].id = req
            /\ \A i \in 1 .. Len(c2s) : i > 1 \/ c2s[1].part = "header" => c2s[i].id > req
        BY <2>3 DEF IpcInv, PlaceInv
      <3>2. InPlace
        BY <2>3 DEF IpcInv, ServeInv, InPlace, Down
      <3>3. CASE c2s = <<>>
        BY <1>1, <1>3, <1>4, <2>1, <3>2, <3>3
      <3>4. CASE c2s # <<>>
        <4>1. k # "header" => calls > req
          <5>1. k # "header" => c2s[Len(c2s)].id > req
            BY <1>1, <1>5, <3>1, <3>4
          <5> QED
            BY <1>5, <3>4, <5>1
        <4> QED
          BY <1>1, <1>3, <1>4, <2>1, <3>1, <3>4, <4>1
      <3> QED
        BY <3>3, <3>4
    <2> QED
      BY <2>2, <2>3 DEF PlaceInv
  <1> QED
    BY <1>3, <1>4, <1>6, <1>7, <1>8, <1>9

(* Serve takes the first part from it.                                     *)
LEMMA StreamShrinks ==
    ASSUME IpcInv, c2s # <<>>, c2s' = Tail(c2s)
    PROVE  /\ c2s' \in Seq(Parts) /\ Len(c2s') \in Nat
           /\ Len(c2s) \in Nat \ {0} /\ Len(c2s') = Len(c2s) - 1
           /\ \A i \in 1 .. Len(c2s') : c2s'[i] = c2s[i + 1] /\ c2s'[i].id \in Ids
           /\ c2s' # <<>> <=> Len(c2s) > 1
           /\ c2s' # <<>> => c2s'[Len(c2s')] = c2s[Len(c2s)]
           /\ Head(c2s) = c2s[1] /\ c2s[1].id \in Ids
           /\ FramesInOrder' /\ BodyFollowsHeader'
           /\ c2s[1].part # "header" /\ c2s' # <<>> => c2s'[1].part = "header"
           /\ c2s[1].part # "header" => \A i \in 1 .. Len(c2s') : c2s'[i].id > c2s[1].id
           /\ c2s' # <<>> /\ c2s'[1].part # "header" => c2s'[1].id = c2s[1].id
           /\ \A i \in 1 .. Len(c2s') : i > 1 \/ c2s'[1].part = "header" => c2s'[i].id > c2s[1].id
  <1>1. /\ c2s \in Seq(Parts) /\ Len(c2s) \in Nat
        /\ \A i \in 1 .. Len(c2s) : c2s[i].id \in Ids
    BY StreamTypes DEF IpcInv
  <1>2. /\ c2s' \in Seq(Parts)
        /\ Len(c2s) \in Nat \ {0} /\ Len(c2s') = Len(c2s) - 1
        /\ Head(c2s) = c2s[1]
        /\ \A i \in 1 .. Len(c2s') : c2s'[i] = c2s[i + 1]
        /\ c2s' # <<>> <=> Len(c2s) > 1
    BY <1>1, Shortened
  <1>3. FramesInOrder /\ BodyFollowsHeader
    BY DEF IpcInv
  <1>4. \A i \in 1 .. Len(c2s') : i + 1 \in 1 .. Len(c2s) /\ c2s'[i].id \in Ids
    BY <1>1, <1>2
  <1>5. \A i \in 1 .. Len(c2s') :
           \/ c2s[1].id < c2s'[i].id
           \/ c2s[1].id = c2s'[i].id /\ c2s[1].part = "header" /\ c2s'[i].part # "header"
    BY <1>2, <1>3, <1>4 DEF FramesInOrder
  <1>6. FramesInOrder'
    BY <1>2, <1>3, <1>4 DEF FramesInOrder
  <1>7. BodyFollowsHeader'
    BY <1>2, <1>3, <1>4 DEF BodyFollowsHeader
  <1>8. c2s' # <<>> => 1 \in 1 .. Len(c2s') /\ c2s'[1] = c2s[2] /\ c2s'[Len(c2s')] = c2s[Len(c2s)]
    BY <1>2
  <1>9. c2s' # <<>> /\ c2s'[1].part # "header" => c2s[1].part = "header" /\ c2s'[1].id = c2s[1].id
    BY <1>2, <1>3, <1>8 DEF BodyFollowsHeader
  <1>10. ASSUME NEW i \in 1 .. Len(c2s'), i > 1 \/ c2s'[1].part = "header"
         PROVE  c2s'[i].id > c2s[1].id
    <2>1. CASE i = 1
      BY <1>4, <1>5, <1>10, <2>1
    <2>2. CASE i > 1
      <3>1. 1 \in 1 .. Len(c2s') /\ 1 < i
        BY <1>2, <2>2
      <3>2. \/ c2s'[1].id < c2s'[i].id
            \/ c2s'[1].id = c2s'[i].id /\ c2s'[1].part = "header" /\ c2s'[i].part # "header"
        BY <1>6, <3>1 DEF FramesInOrder
      <3>3. \/ c2s[1].id < c2s'[1].id
            \/ c2s[1].id = c2s'[1].id /\ c2s'[1].part # "header"
        BY <1>5, <3>1
      <3>4. c2s[1].id \in Nat /\ c2s'[1].id \in Nat /\ c2s'[i].id \in Nat
        BY <1>1, <1>2, <1>4, <3>1 DEF Ids
      <3> QED
        BY <3>2, <3>3, <3>4
    <2> QED
      BY <1>2, <2>1, <2>2
  <1>11. c2s[1].id \in Nat /\ \A i \in 1 .. Len(c2s') : c2s'[i].id \in Nat
    BY <1>1, <1>2, <1>4 DEF Ids
  <1>12. c2s[1].part # "header" => \A i \in 1 .. Len(c2s') : c2s'[i].id > c2s[1].id
    BY <1>5, <1>11
  <1> QED
    BY <1>1, <1>2, <1>4, <1>6, <1>7, <1>8, <1>9, <1>10, <1>12

-----------------------------------------------------------------------------
(* The steps of the caller.                                                *)

LEMMA CallStep == IpcInv /\ Call => IpcInv'
  <1> SUFFICES ASSUME IpcInv, Call PROVE IpcInv'
    OBVIOUS
  <1> USE MaxCallsAssumption DEF Call, serverVars
  <1>0. /\ Len(c2s) \in Nat
        /\ \A i \in 1 .. Len(c2s) : c2s[i].id \in Ids
    BY StreamTypes DEF IpcInv
  <1>1. TypeOK'
    BY DEF IpcInv, TypeOK
  <1>2. ServeInv' /\ FramesInOrder' /\ BodyFollowsHeader' /\ PlaceInv'
    BY DEF IpcInv, ServeInv, FramesInOrder, BodyFollowsHeader, PlaceInv
  <1>3. SentInv' /\ RanInv'
    BY DEF IpcInv, SentInv, InPlace, RanInv, Ran
  <1>4. CallerInv'
    BY <1>0 DEF IpcInv, CallerInv, TypeOK, InPlace, Ids
  <1>5. OwnReply' /\ RunAtMostOnce' /\ CleanEndAnswered'
    BY DEF IpcInv, OwnReply, RunAtMostOnce, CleanEndAnswered
  <1> QED
    BY <1>1, <1>2, <1>3, <1>4, <1>5 DEF IpcInv

(* A step that only gives the current call up.                             *)
LEMMA CallFailsStep ==
    ASSUME IpcInv, CallFails, UNCHANGED <<deadline, c2s, serverVars>>,
           s2c' \in Seq(Parts),
           \A i \in 1 .. Len(s2c') : s2c'[i].part = "body" =>
               \E j \in 1 .. Len(s2c) : s2c'[i] = s2c[j]
    PROVE  IpcInv'
  <1> USE DEF CallFails, serverVars
  <1>1. TypeOK'
    BY DEF IpcInv, TypeOK
  <1>2. ServeInv' /\ FramesInOrder' /\ BodyFollowsHeader' /\ PlaceInv'
    BY DEF IpcInv, ServeInv, FramesInOrder, BodyFollowsHeader, PlaceInv
  <1>3. SentInv' /\ CallerInv'
    BY DEF IpcInv, SentInv, InPlace, CallerInv
  <1>4. RanInv'
    BY DEF IpcInv, RanInv, Ran
  <1>5. OwnReply' /\ RunAtMostOnce' /\ CleanEndAnswered'
    BY DEF IpcInv, OwnReply, RunAtMostOnce, CleanEndAnswered
  <1> QED
    BY <1>1, <1>2, <1>3, <1>4, <1>5 DEF IpcInv

(* The caller writes a part of its request while Serve has not returned,   *)
(* or leaves a piece of the body behind.                                   *)
LEMMA WriteStep ==
    ASSUME IpcInv, client \in {"header", "body"}, NEW k \in {"header", "body", "cut"},
           client = "header" <=> k = "header",
           k # "cut" => clientUp' = clientUp,
           c2s' = Append(c2s, Part(k, calls, "req")),
           client' = CASE k = "header" -> "body" [] k = "body" -> "await" [] k = "cut" -> "idle",
           sent' = IF k = "body" THEN sent \cup {calls} ELSE sent,
           clientUp' \in BOOLEAN,
           UNCHANGED <<deadline, s2c, calls, got, serverVars>>
    PROVE  IpcInv'
  <1> USE MaxCallsAssumption DEF serverVars
  <1>1. /\ c2s' \in Seq(Parts) /\ c2s' # <<>>
        /\ Len(c2s') = Len(c2s) + 1
        /\ \A i \in 1 .. Len(c2s) : c2s'[i] = c2s[i]
        /\ c2s'[Len(c2s')].part = k /\ c2s'[Len(c2s')].id = calls
        /\ \A i \in 1 .. Len(c2s') : c2s'[i].id <= calls
        /\ FramesInOrder' /\ BodyFollowsHeader' /\ PlaceInv'
    BY StreamGrows
  <1>2. Len(c2s) \in Nat
    BY StreamTypes DEF IpcInv
  <1>3. calls \in Ids
    BY DEF IpcInv, TypeOK, CallerInv, Ids
  <1>4. client' \in {"idle", "body", "await"} /\ (client' = "body" <=> k = "header")
    OBVIOUS
  <1>5. TypeOK'
    BY <1>1, <1>3, <1>4 DEF IpcInv, TypeOK
  <1>a. clientUp /\ server # "clean"
    BY DEF IpcInv, ServeInv
  <1>6. ServeInv' /\ RanInv' /\ OwnReply'
    BY <1>4, <1>a DEF IpcInv, ServeInv, RanInv, Ran, OwnReply
  <1>7. CallerInv'
    BY <1>1, <1>3, <1>4 DEF IpcInv, CallerInv, InPlace, Ids
  <1>8. SentInv'
    <2>1. sent \subseteq sent' /\ (k = "body" => calls \in sent')
      OBVIOUS
    <2>2. \A i \in 1 .. Len(c2s') : i \in 1 .. Len(c2s) \/ i = Len(c2s')
      BY <1>1, <1>2
    <2>3. \A i \in 1 .. Len(c2s') : c2s'[i].part = "body" => c2s'[i].id \in sent'
      BY <1>1, <2>1, <2>2 DEF IpcInv, SentInv
    <2>4. server \in {"run", "header", "body"} => req \in sent'
      BY <2>1 DEF IpcInv, SentInv
    <2>5. ASSUME InPlace, NEW id \in sent'
          PROVE  \/ id \in answered
                 \/ server \in {"run", "header", "body"} /\ id = req
                 \/ \E i \in 1 .. Len(c2s') : c2s'[i].part = "body" /\ c2s'[i].id = id
      <3>1. CASE id \in sent
        <4>1. \A i \in 1 .. Len(c2s) : i \in 1 .. Len(c2s')
          BY <1>1, <1>2
        <4> QED
          BY <1>1, <2>5, <3>1, <4>1 DEF IpcInv, SentInv
      <3>2. CASE k = "body" /\ id = calls
        <4>1. Len(c2s') \in 1 .. Len(c2s')
          BY <1>1, <1>2
        <4> QED
          BY <1>1, <3>2, <4>1
      <3> QED
        BY <2>5, <3>1, <3>2
    <2> QED
      BY <2>3, <2>4, <2>5 DEF SentInv, InPlace
  <1>9. RunAtMostOnce'
    BY DEF IpcInv, RunAtMostOnce
  <1>10. CleanEndAnswered'
    BY <1>a DEF CleanEndAnswered
  <1> QED
    BY <1>1, <1>5, <1>6, <1>7, <1>8, <1>9, <1>10 DEF IpcInv

LEMMA WriteRequestStep == IpcInv /\ WriteRequest => IpcInv'
  <1> SUFFICES ASSUME IpcInv, WriteRequest PROVE IpcInv'
    OBVIOUS
  <1>1. s2c \in Seq(Parts)
    BY DEF IpcInv, TypeOK
  <1>2. CASE /\ serverUp
             /\ c2s' = Append(c2s, Part(client, calls, "req"))
             /\ client' = IF client = "header" THEN "body" ELSE "await"
             /\ sent' = IF client = "body" THEN sent \cup {calls} ELSE sent
             /\ UNCHANGED <<calls, got, clientUp>>
    <2>1. client \in {"header", "body", "cut"} /\ client \in {"header", "body"}
      BY DEF WriteRequest
    <2>2. clientUp' \in BOOLEAN
      BY <1>2 DEF IpcInv, TypeOK
    <2>3. client' = CASE client = "header" -> "body" [] client = "body" -> "await" [] client = "cut" -> "idle"
      BY <1>2, <2>1
    <2>4. UNCHANGED <<deadline, s2c, calls, got, serverVars>>
      BY <1>2 DEF WriteRequest
    <2> QED
      BY <1>2, <2>1, <2>2, <2>3, <2>4, WriteStep
  <1>3. CASE CallFails /\ UNCHANGED c2s
    <2>1. UNCHANGED <<deadline, c2s, s2c, serverVars>>
      BY <1>3 DEF WriteRequest
    <2> QED
      BY <1>1, <1>3, <2>1, CallFailsStep
  <1> QED
    BY <1>2, <1>3 DEF WriteRequest

LEMMA ReadReplyHeaderStep == IpcInv /\ ReadReplyHeader => IpcInv'
  <1> SUFFICES ASSUME IpcInv, ReadReplyHeader PROVE IpcInv'
    OBVIOUS
  <1>1. s2c \in Seq(Parts) /\ s2c # <<>>
    BY DEF IpcInv, TypeOK, ReadReplyHeader
  <1>2. /\ Tail(s2c) \in Seq(Parts)
        /\ \A i \in 1 .. Len(Tail(s2c)) : \E j \in 1 .. Len(s2c) : Tail(s2c)[i] = s2c[j]
    <2>1. /\ Tail(s2c) \in Seq(Parts)
          /\ Len(s2c) \in Nat \ {0}
          /\ Len(Tail(s2c)) = Len(s2c) - 1
          /\ \A i \in 1 .. Len(Tail(s2c)) : Tail(s2c)[i] = s2c[i + 1]
      BY <1>1, Shortened
    <2>2. \A i \in 1 .. Len(Tail(s2c)) : i + 1 \in 1 .. Len(s2c)
      BY <2>1
    <2> QED
      BY <2>1, <2>2
  <1>3. UNCHANGED <<deadline, c2s, serverVars>> /\ client = "await"
    BY DEF ReadReplyHeader
  <1>4. CASE client' = "reading" /\ s2c' = Tail(s2c) /\ UNCHANGED <<calls, got, sent, clientUp>>
    <2> USE <1>3, <1>4 DEF serverVars
    <2>1. TypeOK'
      BY <1>2 DEF IpcInv, TypeOK
    <2>2. ServeInv' /\ FramesInOrder' /\ BodyFollowsHeader' /\ PlaceInv'
      BY DEF IpcInv, ServeInv, FramesInOrder, BodyFollowsHeader, PlaceInv
    <2>3. SentInv' /\ CallerInv'
      BY DEF IpcInv, SentInv, InPlace, CallerInv
    <2>4. RanInv'
      BY <1>2 DEF IpcInv, RanInv, Ran
    <2>5. OwnReply' /\ RunAtMostOnce' /\ CleanEndAnswered'
      BY DEF IpcInv, OwnReply, RunAtMostOnce, CleanEndAnswered
    <2> QED
      BY <2>1, <2>2, <2>3, <2>4, <2>5 DEF IpcInv
  <1>5. CASE CallFails /\ s2c' = Tail(s2c)
    BY <1>2, <1>3, <1>5, CallFailsStep
  <1>6. CASE CallFails /\ s2c' = s2c
    BY <1>1, <1>3, <1>6, CallFailsStep
  <1> QED
    BY <1>4, <1>5, <1>6 DEF ReadReplyHeader

LEMMA ReadReplyBodyStep == IpcInv /\ ReadReplyBody => IpcInv'
  <1> SUFFICES ASSUME IpcInv, ReadReplyBody PROVE IpcInv'
    OBVIOUS
  <1>1. s2c \in Seq(Parts) /\ s2c # <<>>
    BY DEF IpcInv, TypeOK, ReadReplyBody
  <1>2. /\ s2c' \in Seq(Parts)
        /\ Len(s2c) \in Nat \ {0}
        /\ Len(s2c') = Len(s2c) - 1
        /\ Head(s2c) = s2c[1]
        /\ \A i \in 1 .. Len(s2c') : s2c'[i] = s2c[i + 1]
    BY <1>1, Shortened DEF ReadReplyBody
  <1>3. /\ UNCHANGED <<deadline, c2s, calls, sent, clientUp, serverVars>>
        /\ client = "reading" /\ client' = "idle"
    BY DEF ReadReplyBody
  <1>4. \/ UNCHANGED got
        \/ s2c[1].part = "body" /\ s2c[1].id = calls /\ got' = [got EXCEPT ![calls] = calls]
    BY <1>2 DEF ReadReplyBody, Accept
  <1>5. calls \in Ids /\ got \in [Ids -> 0 .. MaxCalls] /\ Ids \subseteq 0 .. MaxCalls
    BY <1>3, MaxCallsAssumption DEF IpcInv, TypeOK, CallerInv, Ids
  <1> USE <1>3 DEF serverVars
  <1>6. TypeOK'
    BY <1>2, <1>4, <1>5 DEF IpcInv, TypeOK
  <1>7. ServeInv' /\ FramesInOrder' /\ BodyFollowsHeader' /\ PlaceInv'
    BY DEF IpcInv, ServeInv, FramesInOrder, BodyFollowsHeader, PlaceInv
  <1>8. SentInv' /\ CallerInv'
    BY DEF IpcInv, SentInv, InPlace, CallerInv
  <1>9. RanInv'
    <2>1. \A i \in 1 .. Len(s2c') : i + 1 \in 1 .. Len(s2c)
      BY <1>2
    <2> QED
      BY <1>2, <2>1 DEF IpcInv, RanInv, Ran
  <1>10. OwnReply'
    <2>1. s2c[1].part = "body" => Ran(s2c[1].id)
      BY <1>2 DEF IpcInv, RanInv
    <2> QED
      BY <1>4, <1>5, <2>1 DEF IpcInv, OwnReply, Ran
  <1>11. RunAtMostOnce' /\ CleanEndAnswered'
    BY DEF IpcInv, RunAtMostOnce, CleanEndAnswered
  <1> QED
    BY <1>6, <1>7, <1>8, <1>9, <1>10, <1>11 DEF IpcInv

LEMMA ReadReplyEOFStep == IpcInv /\ ReadReplyEOF => IpcInv'
  <1> SUFFICES ASSUME IpcInv, ReadReplyEOF PROVE IpcInv'
    OBVIOUS
  <1>1. s2c' \in Seq(Parts) /\ s2c' = s2c /\ CallFails /\ UNCHANGED <<deadline, c2s, serverVars>>
    BY DEF IpcInv, TypeOK, ReadReplyEOF
  <1> QED
    BY <1>1, CallFailsStep

LEMMA TimeoutStep == IpcInv /\ Timeout => IpcInv'
  <1> SUFFICES ASSUME IpcInv, Timeout PROVE IpcInv'
    OBVIOUS
  <1>1. s2c' \in Seq(Parts) /\ s2c' = s2c /\ CallFails /\ UNCHANGED <<deadline, s2c, serverVars>>
    BY DEF IpcInv, TypeOK, Timeout
  <1>2. CASE UNCHANGED c2s
    BY <1>1, <1>2, CallFailsStep
  <1>3. CASE client = "body" /\ c2s' = Append(c2s, Part("cut", calls, "req"))
    <2>1. client' = "idle" /\ clientUp' \in BOOLEAN /\ sent' = sent /\ UNCHANGED <<calls, got>>
      BY <1>1 DEF CallFails, IpcInv, TypeOK
    <2> QED
      BY <1>1, <1>3, <2>1, WriteStep
  <1> QED
    BY <1>2, <1>3 DEF Timeout, LeaveRequest

LEMMA ClientClosesStep == IpcInv /\ ClientCloses => IpcInv'
  <1> SUFFICES ASSUME IpcInv, ClientCloses PROVE IpcInv'
    OBVIOUS
  <1>1. /\ client' = "idle" /\ clientUp' = FALSE
        /\ UNCHANGED <<deadline, s2c, calls, got, sent, serverVars>>
    BY DEF ClientCloses
  <1>2. CASE UNCHANGED c2s
    <2> USE <1>1, <1>2 DEF serverVars
    <2>1. TypeOK'
      BY DEF IpcInv, TypeOK
    <2>2. ServeInv' /\ FramesInOrder' /\ BodyFollowsHeader' /\ PlaceInv'
      BY DEF IpcInv, ServeInv, FramesInOrder, BodyFollowsHeader, PlaceInv
    <2>3. SentInv' /\ CallerInv' /\ RanInv'
      BY DEF IpcInv, SentInv, InPlace, CallerInv, RanInv, Ran
    <2>4. OwnReply' /\ RunAtMostOnce' /\ CleanEndAnswered'
      BY DEF IpcInv, OwnReply, RunAtMostOnce, CleanEndAnswered
    <2> QED
      BY <2>1, <2>2, <2>3, <2>4 DEF IpcInv
  <1>3. CASE client = "body" /\ c2s' = Append(c2s, Part("cut", calls, "req"))
    BY <1>1, <1>3, WriteStep
  <1> QED
    BY <1>2, <1>3 DEF ClientCloses, LeaveRequest

-----------------------------------------------------------------------------
(* The steps of Serve.                                                     *)

(* Between frames the next part is a header: Serve has its place.          *)
LEMMA ReadRequestHeaderStep == IpcInv /\ ReadRequestHeader => IpcInv'
  <1> SUFFICES ASSUME IpcInv, ReadRequestHeader PROVE IpcInv'
    OBVIOUS
  <1> USE MaxCallsAssumption
  <1>1. /\ c2s' \in Seq(Parts) /\ Len(c2s') \in Nat
        /\ Len(c2s) \in Nat \ {0} /\ Len(c2s') = Len(c2s) - 1
        /\ \A i \in 1 .. Len(c2s') : c2s'[i] = c2s[i + 1] /\ c2s'[i].id \in Ids
        /\ c2s' # <<>> <=> Len(c2s) > 1
        /\ c2s' # <<>> => c2s'[Len(c2s')] = c2s[Len(c2s)]
        /\ Head(c2s) = c2s[1] /\ c2s[1].id \in Ids
        /\ FramesInOrder' /\ BodyFollowsHeader'
        /\ c2s' # <<>> /\ c2s'[1].part # "header" => c2s'[1].id = c2s[1].id
        /\ \A i \in 1 .. Len(c2s') : i > 1 \/ c2s'[1].part = "header" => c2s'[i].id > c2s[1].id
    BY StreamShrinks DEF ReadRequestHeader
  <1>2. c2s # <<>> /\ server = "read" /\ c2s[1].part = "header" /\ c2s[1].id > req
    BY <1>1 DEF IpcInv, PlaceInv, ReadRequestHeader
  <1>3. /\ server' = "reading" /\ req' = c2s[1].id
        /\ UNCHANGED <<serverUp, deadline, s2c, clientVars, reply, ran, answered>>
    BY <1>1, <1>2 DEF ReadRequestHeader
  <1>4. \A i \in 1 .. Len(c2s) : i = 1 \/ (i - 1 \in 1 .. Len(c2s') /\ c2s'[i - 1] = c2s[i])
    BY <1>1
  <1>5. \A i \in 1 .. Len(c2s') : i + 1 \in 1 .. Len(c2s)
    BY <1>1
  <1> USE <1>3 DEF clientVars
  <1>6. TypeOK'
    BY <1>1 DEF IpcInv, TypeOK, Ids
  <1>7. ServeInv'
    BY <1>1, <1>2 DEF IpcInv, ServeInv, Down
  <1>8. PlaceInv'
    BY <1>1 DEF PlaceInv
  <1>9. CallerInv'
    <2>1. /\ client # "idle" => calls > 0
          /\ \A i \in 1 .. Len(c2s) : c2s[i].id <= calls
          /\ client = "header" => \A i \in 1 .. Len(c2s) : c2s[i].id < calls
          /\ client = "body" => c2s[Len(c2s)].part = "header" /\ c2s[Len(c2s)].id = calls
      BY <1>2 DEF IpcInv, CallerInv
    <2>2. 1 \in 1 .. Len(c2s)
      BY <1>1
    <2>3. c2s' = <<>> => Len(c2s) = 1
      BY <1>1
    <2> QED
      BY <1>1, <1>5, <2>1, <2>2, <2>3 DEF CallerInv
  <1>10. SentInv'
    <2>1. InPlace
      BY <1>2 DEF InPlace, IpcInv, ServeInv, Down
    <2>2. \A id \in sent : id \in answered \/ \E i \in 1 .. Len(c2s) : c2s[i].part = "body" /\ c2s[i].id = id
      BY <1>2, <2>1 DEF IpcInv, SentInv
    <2>3. \A id \in sent : id \in answered \/ \E i \in 1 .. Len(c2s') : c2s'[i].part = "body" /\ c2s'[i].id = id
      BY <1>2, <1>4, <2>2
    <2>4. \A i \in 1 .. Len(c2s') : c2s'[i].part = "body" => c2s'[i].id \in sent
      BY <1>1, <1>5 DEF IpcInv, SentInv
    <2> QED
      BY <2>3, <2>4 DEF SentInv
  <1>11. RanInv'
    <2>1. \A i \in 1 .. Len(ran) : ran[i] \in Nat /\ ran[i] <= req
      BY StreamTypes DEF IpcInv, RanInv, Ids
    <2>2. req \in Nat /\ c2s[1].id \in Nat
      BY <1>1 DEF IpcInv, TypeOK, Ids
    <2>3. \A i \in 1 .. Len(ran) : ran[i] < c2s[1].id
      BY <1>2, <2>1, <2>2
    <2>4. \A i \in 1 .. Len(s2c) : s2c[i].part = "body" => Ran(s2c[i].id)
      BY DEF IpcInv, RanInv
    <2> QED
      BY <2>1, <2>2, <2>3, <2>4 DEF RanInv, Ran
  <1>12. OwnReply' /\ RunAtMostOnce' /\ CleanEndAnswered'
    BY DEF IpcInv, OwnReply, RunAtMostOnce, CleanEndAnswered
  <1> QED
    BY <1>1, <1>6, <1>7, <1>8, <1>9, <1>10, <1>11, <1>12 DEF IpcInv

LEMMA ReadRequestBodyStep == IpcInv /\ ReadRequestBody => IpcInv'
  <1> SUFFICES ASSUME IpcInv, ReadRequestBody PROVE IpcInv'
    OBVIOUS
  <1> USE MaxCallsAssumption
  <1>1. /\ c2s' \in Seq(Parts) /\ Len(c2s') \in Nat
        /\ Len(c2s) \in Nat \ {0} /\ Len(c2s') = Len(c2s) - 1
        /\ \A i \in 1 .. Len(c2s') : c2s'[i] = c2s[i + 1] /\ c2s'[i].id \in Ids
        /\ c2s' # <<>> <=> Len(c2s) > 1
        /\ c2s' # <<>> => c2s'[Len(c2s')] = c2s[Len(c2s)]
        /\ Head(c2s) = c2s[1] /\ c2s[1].id \in Ids
        /\ FramesInOrder' /\ BodyFollowsHeader'
        /\ c2s[1].part # "header" /\ c2s' # <<>> => c2s'[1].part = "header"
        /\ c2s[1].part # "header" => \A i \in 1 .. Len(c2s') : c2s'[i].id > c2s[1].id
    BY StreamShrinks DEF ReadRequestBody
  <1>2. /\ c2s # <<>> /\ server \in {"reading", "swallowing"} /\ serverUp
        /\ UNCHANGED <<deadline, s2c, clientVars, req, reply, ran, answered>>
    BY DEF ReadRequestBody, IpcInv, ServeInv, Down
  <1>3. /\ \/ server = "reading" /\ c2s[1].part = "body" /\ server' = "run"
           \/ server' = "error"
           \/ server' = "swallowing"
        /\ serverUp' = serverUp
    BY <1>1 DEF ReadRequestBody, ServeReturns
  <1>4. \A i \in 1 .. Len(c2s) : i = 1 \/ (i - 1 \in 1 .. Len(c2s') /\ c2s'[i - 1] = c2s[i])
    BY <1>1
  <1>5. (1 \in 1 .. Len(c2s)) /\ \A i \in 1 .. Len(c2s') : i + 1 \in 1 .. Len(c2s)
    BY <1>1
  <1>6. server' = "run" => /\ server = "reading" /\ c2s[1].part = "body" /\ req = c2s[1].id
                           /\ req \in Ids /\ req \in sent
    BY <1>2, <1>3, <1>5 DEF IpcInv, PlaceInv, ServeInv, SentInv
  <1> USE <1>2 DEF clientVars
  <1>7. TypeOK'
    BY <1>1, <1>3 DEF IpcInv, TypeOK
  <1>8. ServeInv'
    BY <1>3, <1>6 DEF IpcInv, ServeInv, Down
  <1>9. PlaceInv'
    BY <1>1, <1>3, <1>6 DEF PlaceInv
  <1>10. CallerInv'
    <2>1. /\ client # "idle" => calls > 0
          /\ req <= calls
          /\ \A i \in 1 .. Len(c2s) : c2s[i].id <= calls
          /\ client = "header" => req < calls /\ \A i \in 1 .. Len(c2s) : c2s[i].id < calls
          /\ client = "body" => c2s[Len(c2s)].part = "header" /\ c2s[Len(c2s)].id = calls
      BY DEF IpcInv, CallerInv
    <2>2. client = "body" /\ InPlace' => c2s' # <<>>
      <3>1. InPlace' => server' = "run"
        BY <1>3 DEF InPlace, Down
      <3>2. c2s' = <<>> => Len(c2s) = 1
        BY <1>1
      <3> QED
        BY <1>6, <2>1, <3>1, <3>2
    <2> QED
      BY <1>1, <1>5, <2>1, <2>2 DEF CallerInv
  <1>11. SentInv'
    <2>1. \A i \in 1 .. Len(c2s') : c2s'[i].part = "body" => c2s'[i].id \in sent
      BY <1>1, <1>5 DEF IpcInv, SentInv
    <2>2. ASSUME InPlace', NEW id \in sent
          PROVE  \/ id \in answered
                 \/ server' = "run" /\ id = req
                 \/ \E i \in 1 .. Len(c2s') : c2s'[i].part = "body" /\ c2s'[i].id = id
      <3>1. server' = "run" /\ server = "reading" /\ req = c2s[1].id
        BY <1>3, <1>6, <2>2 DEF InPlace, Down
      <3>2. id \in answered \/ \E i \in 1 .. Len(c2s) : c2s[i].part = "body" /\ c2s[i].id = id
        BY <3>1 DEF IpcInv, SentInv, InPlace, Down
      <3> QED
        BY <1>4, <3>1, <3>2
    <2>3. server' \in {"run", "header", "body"} => req \in sent
      BY <1>3, <1>6
    <2> QED
      BY <2>1, <2>2, <2>3 DEF SentInv
  <1>12. RanInv'
    BY <1>3 DEF IpcInv, RanInv, Ran
  <1>13. OwnReply' /\ RunAtMostOnce' /\ CleanEndAnswered'
    BY <1>3 DEF IpcInv, OwnReply, RunAtMostOnce, CleanEndAnswered
  <1> QED
    BY <1>1, <1>7, <1>8, <1>9, <1>10, <1>11, <1>12, <1>13 DEF IpcInv

(* Nothing is left to read, so every request written whole is answered.    *)
LEMMA ReadRequestEOFStep == IpcInv /\ ReadRequestEOF => IpcInv'
  <1> SUFFICES ASSUME IpcInv, ReadRequestEOF PROVE IpcInv'
    OBVIOUS
  <1>1. /\ c2s = <<>> /\ Len(c2s) = 0 /\ serverUp' = serverUp /\ ~clientUp
        /\ server' \in {"clean", "error"}
        /\ server' = "clean" => server \in {"read", "reading"}
        /\ UNCHANGED <<deadline, c2s, s2c, clientVars, req, reply, ran, answered>>
    BY DEF ReadRequestEOF, ServeReturns, CleanAt
  <1> USE <1>1 DEF clientVars
  <1>2. TypeOK'
    BY DEF IpcInv, TypeOK
  <1>3. ServeInv' /\ FramesInOrder' /\ BodyFollowsHeader' /\ PlaceInv'
    BY DEF IpcInv, ServeInv, FramesInOrder, BodyFollowsHeader, PlaceInv, Down
  <1>4. CallerInv' /\ SentInv' /\ RanInv'
    BY DEF IpcInv, CallerInv, SentInv, RanInv, Ran, InPlace, Down
  <1>5. OwnReply' /\ RunAtMostOnce'
    BY DEF IpcInv, OwnReply, RunAtMostOnce
  <1>6. CleanEndAnswered'
    <2> SUFFICES ASSUME server \in {"read", "reading"}, NEW id \in sent
                 PROVE  id \in answered
      BY DEF CleanEndAnswered
    <2>1. InPlace
      BY DEF IpcInv, ServeInv, InPlace, Down
    <2> QED
      BY <2>1 DEF IpcInv, SentInv
  <1> QED
    BY <1>2, <1>3, <1>4, <1>5, <1>6 DEF IpcInv

(* The request is later than all that ran, and was written whole.          *)
LEMMA DispatchOneStep == IpcInv /\ DispatchOne => IpcInv'
  <1> SUFFICES ASSUME IpcInv, DispatchOne PROVE IpcInv'
    OBVIOUS
  <1>1. /\ server = "run" /\ server' = "header" /\ reply' \in {"reply", "err", "oversize"}
        /\ UNCHANGED <<deadline, c2s, s2c, clientVars, req, serverUp, answered>>
    BY DEF DispatchOne
  <1>2. /\ ran \in Seq(Ids) /\ Len(ran) \in Nat
        /\ \A i \in 1 .. Len(ran) : ran[i] \in Ids
    BY StreamTypes DEF IpcInv
  <1>3. /\ req \in Ids /\ req \in Nat /\ req \in sent /\ serverUp
        /\ \A i \in 1 .. Len(ran) : ran[i] < req
    BY <1>1 DEF IpcInv, TypeOK, ServeInv, SentInv, RanInv, Down
  <1>4. /\ ran' \in Seq(Ids) /\ Len(ran') = Len(ran) + 1 /\ ran'[Len(ran) + 1] = req
        /\ \A i \in 1 .. Len(ran) : ran'[i] = ran[i]
    BY <1>2, <1>3, Appended DEF DispatchOne
  <1>5. \A i \in 1 .. Len(ran') : i \in 1 .. Len(ran) \/ i = Len(ran) + 1
    BY <1>2, <1>4
  <1>6. (Len(ran) + 1 \in 1 .. Len(ran')) /\ \A i \in 1 .. Len(ran) : i \in 1 .. Len(ran')
    BY <1>2, <1>4
  <1>7. \A id : Ran(id) => Ran(id)'
    BY <1>4, <1>6 DEF Ran
  <1> USE <1>1 DEF clientVars
  <1>8. TypeOK'
    BY <1>4 DEF IpcInv, TypeOK
  <1>9. ServeInv' /\ FramesInOrder' /\ BodyFollowsHeader' /\ PlaceInv'
    BY <1>3 DEF IpcInv, ServeInv, FramesInOrder, BodyFollowsHeader, PlaceInv, Down
  <1>10. CallerInv' /\ SentInv'
    BY <1>3 DEF IpcInv, CallerInv, SentInv, InPlace, Down
  <1>11. RanInv'
    <2>1. \A i \in 1 .. Len(ran') : ran'[i] <= req
      BY <1>2, <1>3, <1>4, <1>5 DEF Ids
    <2>2. Ran(req)'
      BY <1>4, <1>6 DEF Ran
    <2>3. \A i \in 1 .. Len(s2c) : s2c[i].part = "body" => Ran(s2c[i].id)'
      BY <1>7 DEF IpcInv, RanInv
    <2> QED
      BY <2>1, <2>2, <2>3 DEF RanInv, Ran
  <1>12. OwnReply'
    BY <1>7 DEF IpcInv, OwnReply, Ran
  <1>13. RunAtMostOnce'
    <2>1. \A i, j \in 1 .. Len(ran') : i < j => ran'[i] < ran'[j]
      <3> SUFFICES ASSUME NEW i \in 1 .. Len(ran'), NEW j \in 1 .. Len(ran'), i < j
                   PROVE  ran'[i] < ran'[j]
        OBVIOUS
      <3>1. i \in 1 .. Len(ran)
        BY <1>2, <1>4
      <3>2. CASE j = Len(ran) + 1
        BY <1>3, <1>4, <3>1, <3>2
      <3>3. CASE j \in 1 .. Len(ran)
        BY <1>4, <3>1, <3>3 DEF IpcInv, RunAtMostOnce
      <3> QED
        BY <1>5, <3>2, <3>3
    <2>2. \A i \in 1 .. Len(ran') : ran'[i] \in sent
      BY <1>3, <1>4, <1>5 DEF IpcInv, RunAtMostOnce
    <2> QED
      BY <2>1, <2>2 DEF RunAtMostOnce
  <1>14. CleanEndAnswered'
    BY DEF CleanEndAnswered
  <1> QED
    BY <1>8, <1>9, <1>10, <1>11, <1>12, <1>13, <1>14 DEF IpcInv

LEMMA WriteReplyStep == IpcInv /\ WriteReply => IpcInv'
  <1> SUFFICES ASSUME IpcInv, WriteReply PROVE IpcInv'
    OBVIOUS
  <1>1. /\ server \in {"header", "body"} /\ serverUp
        /\ req \in Ids /\ req \in sent /\ Ran(req)
        /\ reply \in {"reply", "err", "oversize"}
        /\ UNCHANGED <<deadline, c2s, clientVars, req, serverUp, ran>>
    BY DEF WriteReply, IpcInv, TypeOK, ServeInv, SentInv, RanInv, Down
  <1>2. CASE /\ reply # "oversize"
             /\ s2c' = Append(s2c, Part(server, req, reply))
             /\ IF server = "header" THEN server' = "body" /\ UNCHANGED <<reply, answered>>
                ELSE /\ server' = "read"
                     /\ reply' = "none"
                     /\ answered' = answered \cup {req}
    <2> DEFINE p == Part(server, req, reply)
    <2>1. p \in Parts /\ p.id = req
      BY <1>1, <1>2 DEF Part, Parts
    <2>2. s2c \in Seq(Parts) /\ Len(s2c) \in Nat
      BY StreamTypes DEF IpcInv
    <2>3. /\ s2c' \in Seq(Parts) /\ Len(s2c') = Len(s2c) + 1 /\ s2c'[Len(s2c) + 1] = p
          /\ \A i \in 1 .. Len(s2c) : s2c'[i] = s2c[i]
      BY <1>2, <2>1, <2>2, Appended
    <2>4. \A i \in 1 .. Len(s2c') : i \in 1 .. Len(s2c) \/ i = Len(s2c) + 1
      BY <2>2, <2>3
    <2> HIDE DEF p
    <2>5. /\ server = "header" => server' = "body" /\ UNCHANGED <<reply, answered>>
          /\ server = "body" => server' = "read" /\ reply' = "none" /\ answered' = answered \cup {req}
      BY <1>1, <1>2
    <2> USE <1>1 DEF clientVars
    <2>6. TypeOK'
      BY <2>3, <2>5 DEF IpcInv, TypeOK
    <2>7. ServeInv' /\ FramesInOrder' /\ BodyFollowsHeader' /\ PlaceInv'
      BY <2>5 DEF IpcInv, ServeInv, FramesInOrder, BodyFollowsHeader, PlaceInv, Down
    <2>8. CallerInv'
      BY <2>5 DEF IpcInv, CallerInv, InPlace, Down
    <2>9. SentInv'
      <3>1. \A i \in 1 .. Len(c2s) : c2s[i].part = "body" => c2s[i].id \in sent
        BY DEF IpcInv, SentInv
      <3>2. \A id \in sent : \/ id \in answered \/ id = req
                             \/ \E i \in 1 .. Len(c2s) : c2s[i].part = "body" /\ c2s[i].id = id
        BY DEF IpcInv, SentInv, InPlace, Down
      <3>3. server' \in {"body", "read"} /\ (server' = "read" => req \in answered') /\ answered \subseteq answered'
        BY <2>5
      <3> QED
        BY <3>1, <3>2, <3>3 DEF SentInv
    <2>10. RanInv'
      <3>1. \A i \in 1 .. Len(s2c') : s2c'[i].part = "body" => Ran(s2c'[i].id)
        BY <2>1, <2>3, <2>4 DEF IpcInv, RanInv
      <3>2. server' \in {"body", "read"}
        BY <2>5
      <3> QED
        BY <3>1, <3>2 DEF IpcInv, RanInv, Ran
    <2>11. OwnReply' /\ RunAtMostOnce' /\ CleanEndAnswered'
      BY <2>5 DEF IpcInv, OwnReply, RunAtMostOnce, CleanEndAnswered
    <2> QED
      BY <2>6, <2>7, <2>8, <2>9, <2>10, <2>11 DEF IpcInv
  <1>3. CASE ServeReturns("error") /\ UNCHANGED <<s2c, reply, answered>>
    <2> USE <1>1, <1>3 DEF clientVars, ServeReturns
    <2>1. TypeOK'
      BY DEF IpcInv, TypeOK
    <2>2. ServeInv' /\ FramesInOrder' /\ BodyFollowsHeader' /\ PlaceInv'
      BY DEF IpcInv, ServeInv, FramesInOrder, BodyFollowsHeader, PlaceInv, Down
    <2>3. CallerInv' /\ SentInv' /\ RanInv'
      BY DEF IpcInv, CallerInv, SentInv, RanInv, Ran, InPlace, Down
    <2>4. OwnReply' /\ RunAtMostOnce' /\ CleanEndAnswered'
      BY DEF IpcInv, OwnReply, RunAtMostOnce, CleanEndAnswered
    <2> QED
      BY <2>1, <2>2, <2>3, <2>4 DEF IpcInv
  <1> QED
    BY <1>2, <1>3 DEF WriteReply

(* The end of the connection, before or after the end of Serve.            *)
LEMMA AppEndsStep == IpcInv /\ (AppCloses \/ AppDies) => IpcInv'
  <1> SUFFICES ASSUME IpcInv, AppCloses \/ AppDies PROVE IpcInv'
    OBVIOUS
  <1>1. /\ server' \in {"dead", server} /\ server' \in Down /\ serverUp' = FALSE
        /\ UNCHANGED <<deadline, c2s, s2c, clientVars, req, reply, ran, answered>>
    BY DEF AppCloses, AppDies, Down
  <1> USE <1>1 DEF clientVars, Down
  <1>2. TypeOK'
    BY DEF IpcInv, TypeOK
  <1>3. ServeInv' /\ FramesInOrder' /\ BodyFollowsHeader' /\ PlaceInv'
    BY DEF IpcInv, ServeInv, FramesInOrder, BodyFollowsHeader, PlaceInv
  <1>4. CallerInv' /\ SentInv' /\ RanInv'
    BY DEF IpcInv, CallerInv, SentInv, RanInv, Ran, InPlace
  <1>5. OwnReply' /\ RunAtMostOnce' /\ CleanEndAnswered'
    BY DEF IpcInv, OwnReply, RunAtMostOnce, CleanEndAnswered
  <1> QED
    BY <1>2, <1>3, <1>4, <1>5 DEF IpcInv

-----------------------------------------------------------------------------
LEMMA IpcNext == IpcInv /\ [Next]_vars => IpcInv'
  <1> SUFFICES ASSUME IpcInv, [Next]_vars PROVE IpcInv'
    OBVIOUS
  <1>1. CASE UNCHANGED vars
    <2> USE <1>1 DEF vars, clientVars, serverVars
    <2>1. (TypeOK /\ ServeInv /\ FramesInOrder /\ BodyFollowsHeader /\ PlaceInv)'
      BY DEF IpcInv, TypeOK, ServeInv, FramesInOrder, BodyFollowsHeader, PlaceInv
    <2>2. (CallerInv /\ SentInv /\ RanInv)'
      BY DEF IpcInv, CallerInv, SentInv, RanInv, Ran, InPlace
    <2>3. (OwnReply /\ RunAtMostOnce /\ CleanEndAnswered)'
      BY DEF IpcInv, OwnReply, RunAtMostOnce, CleanEndAnswered
    <2> QED
      BY <2>1, <2>2, <2>3 DEF IpcInv
  <1>2. CASE CallSteps
    BY <1>2, WriteRequestStep, ReadReplyHeaderStep, ReadReplyBodyStep, ReadReplyEOFStep DEF CallSteps
  <1>3. CASE ServeSteps
    BY <1>3, ReadRequestHeaderStep, ReadRequestBodyStep, ReadRequestEOFStep, DispatchOneStep, WriteReplyStep,
       AppEndsStep DEF ServeSteps
  <1> QED
    BY <1>1, <1>2, <1>3, CallStep, TimeoutStep, ClientClosesStep, AppEndsStep DEF Next

(* Whatever breaks, and wherever: the frames under way are in order, Serve *)
(* is in its place in them or never dispatches again, and every request    *)
(* written whole is under way, being served or answered.                   *)
THEOREM IpcInvariant == Spec => []IpcInv
  BY IpcInit, IpcNext, PTL DEF Spec

(* Call never returns another call's reply (client.go compares req_id),    *)
(* however many calls of the same connection failed before it.             *)
THEOREM OwnReplyHolds == Spec => []OwnReply
  <1>1. IpcInv => OwnReply
    BY DEF IpcInv
  <1> QED
    BY <1>1, IpcInvariant, PTL

(* Serve hands each request to a handler at most once, in order, and only  *)
(* when its frame came whole, although ReadFrame cannot tell a cut frame   *)
(* from the start of the next.                                             *)
THEOREM RunAtMostOnceHolds == Spec => []RunAtMostOnce
  <1>1. IpcInv => RunAtMostOnce
    BY DEF IpcInv
  <1> QED
    BY <1>1, IpcInvariant, PTL

(* When Serve returns nil the requests written whole have their replies,   *)
(* also when the end came between the prefix and the body of a frame.      *)
THEOREM CleanEndAnsweredHolds == Spec => []CleanEndAnswered
  <1>1. IpcInv => CleanEndAnswered
    BY DEF IpcInv
  <1> QED
    BY <1>1, IpcInvariant, PTL
=============================================================================
