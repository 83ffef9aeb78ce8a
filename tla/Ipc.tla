-------------------------------- MODULE Ipc --------------------------------
(***************************************************************************)
(* One connection of pkg/ipc: Call (client.go) on the daemon's side, Serve *)
(* (server.go) on the app's, and the frames (frame.go) between them.  A    *)
(* frame is written in two parts, length prefix and body, and read in two; *)
(* the connection can break, a deadline can pass and the app can die       *)
(* between any two of them.  Calls follow one another on the connection,   *)
(* also after one has failed.                                              *)
(*                                                                         *)
(* A request is its number; its req_id is fresh and comes back in the      *)
(* reply.  A reader that lost its place takes four bytes of JSON text for  *)
(* a length, which is more than MaxFrameSize.  An idealization: four bytes *)
(* that straddle two frames can be a small number, and a header can be cut *)
(* after one to three bytes; neither is modelled.                          *)
(***************************************************************************)
EXTENDS Naturals, Sequences, FiniteSets

CONSTANT MaxCalls      \* bound on the calls made on the connection

ASSUME MaxCallsAssumption == MaxCalls \in Nat

Ids == 1 .. MaxCalls

VARIABLES
    deadline,   \* whether the caller's conn has a deadline
    c2s, s2c,   \* the parts of frames under way, each way
    calls,      \* calls begun so far; the last one is the current one
    client,     \* where the current Call is
    got,        \* call -> the request whose reply it returned, or 0
    sent,       \* calls whose request was written whole
    clientUp,   \* the caller has not closed its end
    server,     \* where Serve is, or how it returned
    req,        \* the request Serve is at
    reply,      \* the envelope it answers with: "reply", "err" or "oversize"
    serverUp,   \* the app has not closed its end
    ran,        \* requests dispatched to a handler, in order
    answered    \* requests whose reply was written whole

clientVars == <<calls, client, got, sent, clientUp>>
serverVars == <<server, req, reply, serverUp, ran, answered>>
vars == <<deadline, c2s, s2c, clientVars, serverVars>>

Part(p, id, type) == [part |-> p, id |-> id, type |-> type]
Parts == [part : {"header", "body", "cut"}, id : Ids, type : {"req", "reply", "err"}]

TypeOK == /\ deadline \in BOOLEAN
          /\ c2s \in Seq(Parts) /\ s2c \in Seq(Parts)
          /\ calls \in 0 .. MaxCalls
          /\ client \in {"idle", "header", "body", "await", "reading"}
          /\ got \in [Ids -> 0 .. MaxCalls]
          /\ sent \subseteq Ids
          /\ clientUp \in BOOLEAN
          /\ server \in {"read", "reading", "swallowing", "run", "header", "body",
                         "clean", "error", "dead"}
          /\ req \in 0 .. MaxCalls
          /\ reply \in {"none", "reply", "err", "oversize"}
          /\ serverUp \in BOOLEAN
          /\ ran \in Seq(Ids)
          /\ answered \subseteq Ids

Init == /\ deadline \in BOOLEAN
        /\ c2s = <<>> /\ s2c = <<>>
        /\ calls = 0
        /\ client = "idle"
        /\ got = [id \in Ids |-> 0]
        /\ sent = {}
        /\ clientUp = TRUE
        /\ server = "read"
        /\ req = 0
        /\ reply = "none"
        /\ serverUp = TRUE
        /\ ran = <<>>
        /\ answered = {}

-----------------------------------------------------------------------------
(* The caller.                                                             *)

Call == /\ client = "idle" /\ clientUp /\ calls < MaxCalls
        /\ calls' = calls + 1
        /\ client' = "header"
        /\ UNCHANGED <<deadline, c2s, s2c, got, sent, clientUp, serverVars>>

(* Call returns an error; the connection stays as it is.                   *)
CallFails == client' = "idle" /\ UNCHANGED <<calls, got, sent, clientUp>>

(* WriteFrame: the length prefix, then the body.  A request over           *)
(* MaxFrameSize is not written at all, and writing to a connection the app *)
(* has closed fails.                                                       *)
WriteRequest ==
    /\ client \in {"header", "body"}
    /\ \/ /\ serverUp
          /\ c2s' = Append(c2s, Part(client, calls, "req"))
          /\ client' = IF client = "header" THEN "body" ELSE "await"
          /\ sent' = IF client = "body" THEN sent \cup {calls} ELSE sent
          /\ UNCHANGED <<calls, got, clientUp>>
       \/ (client = "header" \/ ~serverUp) /\ CallFails /\ UNCHANGED c2s
    /\ UNCHANGED <<deadline, s2c, serverVars>>

(* ReadFrame, the length prefix.  At a lost place it is too large, and the *)
(* rest of the body may still be there for the next call to stumble on.    *)
ReadReplyHeader ==
    /\ client = "await" /\ s2c # <<>>
    /\ \/ /\ Head(s2c).part = "header"
          /\ client' = "reading"
          /\ s2c' = Tail(s2c)
          /\ UNCHANGED <<calls, got, sent, clientUp>>
       \/ /\ Head(s2c).part = "body"
          /\ CallFails
          /\ s2c' \in {s2c, Tail(s2c)}
    /\ UNCHANGED <<deadline, c2s, serverVars>>

(* Faulty variant: the req_id of the reply is not looked at.               *)
AcceptAny(id) == id \in Ids

(* The body, and what Call makes of the envelope: a reply to another       *)
(* request is an error.                                                    *)
Accept(id) == id = calls

ReadReplyBody ==
    /\ client = "reading" /\ s2c # <<>>
    /\ s2c' = Tail(s2c)
    /\ client' = "idle"
    /\ got' = IF Head(s2c).part = "body" /\ Accept(Head(s2c).id)
              THEN [got EXCEPT ![calls] = Head(s2c).id] ELSE got
    /\ UNCHANGED <<deadline, c2s, calls, sent, clientUp, serverVars>>

(* Nothing more will come: "server closed before reply", or a cut frame.   *)
ReadReplyEOF ==
    /\ client \in {"await", "reading"} /\ s2c = <<>> /\ ~serverUp
    /\ CallFails
    /\ UNCHANGED <<deadline, c2s, s2c, serverVars>>

(* A call that ends while it writes a body may leave the first bytes.      *)
LeaveRequest == \/ UNCHANGED c2s
                \/ client = "body" /\ c2s' = Append(c2s, Part("cut", calls, "req"))

(* The deadline passes at any point of the call.                           *)
Timeout == /\ deadline /\ client # "idle"
           /\ CallFails
           /\ LeaveRequest
           /\ UNCHANGED <<deadline, s2c, serverVars>>

(* The caller closes the connection after a call, or dies during one.      *)
ClientCloses == /\ clientUp
                /\ clientUp' = FALSE
                /\ client' = "idle"
                /\ LeaveRequest
                /\ UNCHANGED <<deadline, s2c, calls, got, sent, serverVars>>

-----------------------------------------------------------------------------
(* Serve.  It does not close the connection itself, however it returns.    *)

ServeReturns(how) == server' = how

ReadRequestHeader ==
    /\ server = "read" /\ c2s # <<>>
    /\ c2s' = Tail(c2s)
    /\ IF Head(c2s).part = "header"
       THEN server' = "reading" /\ req' = Head(c2s).id
       ELSE ServeReturns("error") /\ UNCHANGED req
    /\ UNCHANGED <<deadline, s2c, clientVars, reply, serverUp, ran, answered>>

(* Faulty variant: whatever comes next is taken for the body.              *)
ReadRequestBodyAny ==
    /\ server \in {"reading", "swallowing"} /\ c2s # <<>>
    /\ c2s' = Tail(c2s)
    /\ server' = "run"
    /\ UNCHANGED <<deadline, s2c, clientVars, serverUp, req, reply, ran, answered>>

(* A body that was never finished is filled up with the bytes of the next  *)
(* frame: it does not parse, or it is still too short.                     *)
ReadRequestBody ==
    /\ server \in {"reading", "swallowing"} /\ c2s # <<>>
    /\ c2s' = Tail(c2s)
    /\ \/ /\ server = "reading" /\ Head(c2s).part = "body"
          /\ server' = "run"
       \/ /\ ~(server = "reading" /\ Head(c2s).part = "body")
          /\ ServeReturns("error") \/ server' = "swallowing"
    /\ UNCHANGED <<deadline, s2c, clientVars, req, reply, serverUp, ran, answered>>

(* Faulty variant: an EOF inside a body counts as clean too.               *)
CleanAtAny(at) == at \in {"read", "reading", "swallowing"}

(* The peer closed.  Between frames that is a clean end.  Before the first *)
(* byte of a body ReadFull returns io.EOF, which ReadFrame wraps, so that  *)
(* Serve takes it for a clean end too; inside a body it is an error.       *)
CleanAt(at) == at \in {"read", "reading"}

ReadRequestEOF ==
    /\ server \in {"read", "reading", "swallowing"} /\ c2s = <<>> /\ ~clientUp
    /\ ServeReturns(IF CleanAt(server) THEN "clean" ELSE "error")
    /\ UNCHANGED <<deadline, c2s, s2c, clientVars, req, reply, serverUp, ran, answered>>

(* Faulty variant: the envelope of an error has no type.                   *)
DispatchOneUntyped ==
    /\ server = "run"
    /\ ran' = Append(ran, req)
    /\ reply' \in {"reply", "none", "oversize"}
    /\ server' = "header"
    /\ UNCHANGED <<deadline, c2s, s2c, clientVars, req, serverUp, answered>>

(* dispatchOne: an unknown method and a failing handler are answered with  *)
(* an error envelope.                                                      *)
DispatchOne ==
    /\ server = "run"
    /\ ran' = Append(ran, req)
    /\ reply' \in {"reply", "err", "oversize"}
    /\ server' = "header"
    /\ UNCHANGED <<deadline, c2s, s2c, clientVars, req, serverUp, answered>>

(* WriteFrame of the reply; one over MaxFrameSize is not written at all.   *)
WriteReply ==
    /\ server \in {"header", "body"}
    /\ \/ /\ clientUp /\ reply # "oversize"
          /\ s2c' = Append(s2c, Part(server, req, reply))
          /\ IF server = "header" THEN server' = "body" /\ UNCHANGED <<reply, answered>>
             ELSE /\ server' = "read"
                  /\ reply' = "none"
                  /\ answered' = answered \cup {req}
       \/ /\ ~clientUp \/ reply = "oversize"
          /\ ServeReturns("error")
          /\ UNCHANGED <<s2c, reply, answered>>
    /\ UNCHANGED <<deadline, c2s, clientVars, req, serverUp, ran>>

(* Faulty variant: the connection stays open after Serve.                  *)
AppClosesNever == FALSE /\ UNCHANGED vars

(* The app's goroutine around Serve: defer c.Close(), in the example app   *)
(* that calls itself "the standard concurrency model for every app".       *)
AppCloses ==
    /\ server \in {"clean", "error"} /\ serverUp
    /\ serverUp' = FALSE
    /\ UNCHANGED <<deadline, c2s, s2c, clientVars, server, req, reply, ran, answered>>

(* The app is killed, or stops on SIGTERM, or Serve's ctx is cancelled.    *)
AppDies == /\ serverUp
           /\ server' = "dead"
           /\ serverUp' = FALSE
           /\ UNCHANGED <<deadline, c2s, s2c, clientVars, req, reply, ran, answered>>

CallSteps == WriteRequest \/ ReadReplyHeader \/ ReadReplyBody \/ ReadReplyEOF
ServeSteps == ReadRequestHeader \/ ReadRequestBody \/ ReadRequestEOF \/ DispatchOne
              \/ WriteReply \/ AppCloses

Next == Call \/ CallSteps \/ Timeout \/ ClientCloses \/ ServeSteps \/ AppDies

Spec == Init /\ [][Next]_vars

(* Both sides are scheduled, handlers return, deadlines pass.              *)
Fairness == WF_vars(CallSteps) /\ WF_vars(ServeSteps) /\ WF_vars(Timeout)

LiveSpec == Spec /\ Fairness

-----------------------------------------------------------------------------
(* A call returns the reply to its own request or an error, whatever late  *)
(* replies, cut frames and lost places earlier calls left behind, and the  *)
(* request of a successful call was dispatched.                            *)
OwnReply == \A id \in Ids : got[id] # 0 =>
    got[id] = id /\ \E i \in 1 .. Len(ran) : ran[i] = id

(* A failed call may have run, but no request runs twice or before an      *)
(* earlier one, and one whose frame was not written whole never runs.      *)
RunAtMostOnce ==
    /\ \A i, j \in 1 .. Len(ran) : i < j => ran[i] < ran[j]
    /\ \A i \in 1 .. Len(ran) : ran[i] \in sent

(* When Serve says the peer closed cleanly, no request that was written    *)
(* whole is left without its reply.                                        *)
CleanEndAnswered == server = "clean" => sent \subseteq answered

(* Every call returns: with a deadline in any case, without one because    *)
(* the two sides cannot come to wait for each other.                       *)
CallReturns == (client # "idle") ~> (client = "idle")

-----------------------------------------------------------------------------
(* The inductive invariant.                                                *)

Down == {"clean", "error", "dead"}

ServeInv ==
    /\ server \notin Down => serverUp
    /\ server = "dead" => ~serverUp
    /\ ~clientUp => client = "idle"
    /\ server = "clean" => ~clientUp
    /\ server \in {"reading", "run", "header", "body"} => req \in Ids
    /\ server \in {"header", "body"} => reply # "none"

(* What the caller has written and Serve has not read yet: frames in the   *)
(* order of their calls, each a header and at most one more part.          *)
FramesInOrder ==
    \A i, j \in 1 .. Len(c2s) : i < j =>
        \/ c2s[i].id < c2s[j].id
        \/ c2s[i].id = c2s[j].id /\ c2s[i].part = "header" /\ c2s[j].part # "header"

BodyFollowsHeader ==
    \A i \in 1 .. Len(c2s) : i > 1 /\ c2s[i].part # "header" =>
        c2s[i - 1].part = "header" /\ c2s[i - 1].id = c2s[i].id

(* Where Serve is in that stream.  Swallowing, it has lost its place and   *)
(* never dispatches again.                                                 *)
InPlace == server \notin Down \union {"swallowing"}

PlaceInv ==
    /\ server \in {"read", "run", "header", "body"} =>
         /\ c2s # <<>> => c2s[1].part = "header"
         /\ \A i \in 1 .. Len(c2s) : c2s[i].id > req
    /\ server = "reading" =>
         /\ c2s # <<>> /\ c2s[1].part # "header" => c2s[1].id = req
         /\ \A i \in 1 .. Len(c2s) : i > 1 \/ c2s[1].part = "header" => c2s[i].id > req

(* The frame the caller is in the middle of.                               *)
CallerInv ==
    /\ client # "idle" => calls > 0
    /\ req <= calls
    /\ \A i \in 1 .. Len(c2s) : c2s[i].id <= calls
    /\ client = "header" => /\ req < calls
                            /\ \A i \in 1 .. Len(c2s) : c2s[i].id < calls
    /\ client = "body" /\ c2s # <<>> => /\ c2s[Len(c2s)].part = "header"
                                        /\ c2s[Len(c2s)].id = calls
    /\ client = "body" /\ InPlace /\ c2s = <<>> => server = "reading" /\ req = calls

(* Requests written whole: under way, being served, or answered.           *)
SentInv ==
    /\ \A i \in 1 .. Len(c2s) : c2s[i].part = "body" => c2s[i].id \in sent
    /\ server \in {"run", "header", "body"} => req \in sent
    /\ InPlace => \A id \in sent :
         \/ id \in answered
         \/ server \in {"run", "header", "body"} /\ id = req
         \/ \E i \in 1 .. Len(c2s) : c2s[i].part = "body" /\ c2s[i].id = id

(* Replies, also those to calls that have given up, are to requests that   *)
(* were dispatched.                                                        *)
Ran(id) == \E i \in 1 .. Len(ran) : ran[i] = id

RanInv ==
    /\ \A i \in 1 .. Len(ran) : ran[i] <= req
    /\ server = "run" => \A i \in 1 .. Len(ran) : ran[i] < req
    /\ server = "reading" => \A i \in 1 .. Len(ran) : ran[i] < req
    /\ server \in {"header", "body"} => Ran(req)
    /\ \A i \in 1 .. Len(s2c) : s2c[i].part = "body" => Ran(s2c[i].id)

(* Between any two reads and writes of either side: the stream of frames,  *)
(* Serve's place in it, and what has become of every request.              *)
IpcInv == /\ TypeOK /\ ServeInv /\ FramesInOrder /\ BodyFollowsHeader
          /\ PlaceInv /\ CallerInv /\ SentInv /\ RanInv
          /\ OwnReply /\ RunAtMostOnce /\ CleanEndAnswered
=============================================================================
