------------------------------ MODULE Delivery -------------------------------
(***************************************************************************)
(* The way of a message from Mailer.Send through a stack of decorators to  *)
(* BaseTransport.Send and back: BeforeSend and AfterSend hooks, the        *)
(* Observability middleware (src/middleware), the Transports router, the   *)
(* failover loop of the composites (src/transport) and the leaf, run by    *)
(* several goroutines that send the same *Message and the same *Envelope.  *)
(*                                                                         *)
(* What matters is who shares which object: address 0 is the caller's own  *)
(* message or envelope, address k the copy layer k has made for this call. *)
(***************************************************************************)
EXTENDS Integers, Sequences, FiniteSets

CONSTANTS
    Senders,        \* goroutines that call Send
    Nobody,         \* holder of a free mutex, not a sender
    Names,          \* transports of the router
    Default,        \* its default transport
    NoName,         \* no X-Transport header
    Headers,        \* X-Transport headers considered, an unknown name among them
    Stacks,         \* decorator stacks considered, the outermost layer first
    Attempts        \* members a composite tries at most

Layer == {"before", "after", "observe", "route", "composite"}

ASSUME SendersAssumption == Nobody \notin Senders
ASSUME NamesAssumption == Default \in Names /\ NoName \notin Names
ASSUME StacksAssumption == Stacks \subseteq Seq(Layer)
ASSUME AttemptsAssumption == Attempts \in Nat \ {0}

\* A RawMessage that is not a *Message; a nil envelope.
Raw == -1
Nil == -1

\* sm; (nil, nil); an error that satisfies ErrTransport; any other error.
Result == {"sent", "rejected", "transport", "other"}

VARIABLES
    stack,      \* layers of this mailer
    message,    \* the caller's *Message
    envelope,   \* the caller's *Envelope
    built,      \* what the caller itself made of the two
    sendMu,     \* holder of the mutex of each composite layer
    at,         \* layer each sender is in: 0 outside, Len(stack) + 1 the leaf
    way,        \* "down" (Send is called) or "up" (Send returns)
    args,       \* arguments each layer was called with
    own,        \* the copies each layer has made
    tries,      \* attempts of each composite layer
    target,     \* transport the router has chosen
    spans,      \* spans the sender has open
    result,     \* what the innermost Send that has returned returned
    wire,       \* the deliveries DoSend acknowledged, in order
    sealed      \* the caller's message had its Message-ID when Send was called

frameVars == <<args, own, tries>>
logVars == <<target, spans, wire, sealed>>
callerVars == <<stack, message, envelope, built>>
vars == <<callerVars, sendMu, at, way, frameVars, logVars, result>>

Leaf == Len(stack) + 1
Layers == 1 .. Leaf

\* A message: its X-Transport header, how often hooks have edited it, and who
\* materialized its Message-ID.  An envelope: how often hooks have edited it.
Message == [route : Headers \cup {NoName}, edits : Nat,
            id : {"none", "caller", "send"}]
Envelope == [edits : Nat]
Blank == [msg |-> [route |-> NoName, edits |-> 0, id |-> "none"],
          env |-> [edits |-> 0]]
NoArgs == [msg |-> Raw, env |-> Nil]

Init ==
    /\ stack \in Stacks
    /\ \E r \in Headers :
          message = [route |-> r, edits |-> 0, id |-> "none"]
    /\ envelope = [edits |-> 0]
    /\ built = [msg |-> message, env |-> envelope]
    /\ sendMu = [k \in Layers |-> Nobody]
    /\ at = [p \in Senders |-> 0] /\ way = [p \in Senders |-> "up"]
    /\ args = [p \in Senders |-> [k \in Layers |-> NoArgs]]
    /\ own = [p \in Senders |-> [k \in Layers |-> Blank]]
    /\ tries = [p \in Senders |-> [k \in Layers |-> 0]]
    /\ target = [p \in Senders |-> Default] /\ spans = [p \in Senders |-> 0]
    /\ result = [p \in Senders |-> "other"] /\ wire = [p \in Senders |-> <<>>]
    /\ sealed = [p \in Senders |-> FALSE]

------------------------------------------------------------------------------
(* Calls, returns and copies.                                              *)

\* Sender p is in a layer of the given kind.
In(p, kind, w) == at[p] \in DOMAIN stack /\ stack[at[p]] = kind /\ way[p] = w

Msg(p) == args[p][at[p]].msg
Env(p) == args[p][at[p]].env

MsgAt(p, a) == IF a = 0 THEN message ELSE own[p][a].msg
EnvAt(p, a) == IF a = 0 THEN envelope ELSE own[p][a].env

\* The layer calls the next one with message m and envelope e.
Forward(p, m, e) ==
    /\ at' = [at EXCEPT ![p] = @ + 1] /\ way' = [way EXCEPT ![p] = "down"]
    /\ args' = [args EXCEPT ![p][at[p] + 1] = [msg |-> m, env |-> e]]

\* The layer returns r to the one above and its frame is gone; Mailer.Send
\* drops the SentMessage.
Return(p, r) ==
    /\ at' = [at EXCEPT ![p] = @ - 1] /\ way' = [way EXCEPT ![p] = "up"]
    /\ result' = [result EXCEPT ![p] = r]
    /\ args' = [args EXCEPT ![p][at[p]] = NoArgs]
    /\ own' = [own EXCEPT ![p][at[p]] = Blank]
    /\ tries' = [tries EXCEPT ![p][at[p]] = 0]

\* Mutation: the copy shares its contents with the original.
Alias(a, k) == a

\* Message.Clone and Envelope.Clone by layer k: the address of the copy.
Clone(a, k) == IF a = Raw THEN Raw ELSE k

\* Mutation: the copy makes a Message-ID of its own.
CopyUnsealed(m) == [m EXCEPT !.id = "none"]

\* Message.Clone keeps a Message-ID that has been materialized.
Copy(m) == m

\* The objects of layer k: copies of the message and of the envelope, which is
\* derived from the message when there is none.
CopyArgs(p) ==
    [msg |-> IF Msg(p) = Raw THEN Blank.msg ELSE Copy(MsgAt(p, Msg(p))),
     env |-> IF Env(p) = Nil THEN Blank.env ELSE EnvAt(p, Env(p))]

\* A RawMessage has no addresses to derive an envelope from.
NoEnvelope(p) == Msg(p) = Raw /\ Env(p) = Nil

------------------------------------------------------------------------------
(* The caller.                                                             *)

\* Mailer.Send, with the message or raw bytes, with or without envelope.
Send(p) ==
    /\ at[p] = 0
    /\ \E m \in {0, Raw}, e \in {0, Nil} :
          args' = [args EXCEPT ![p][1] = [msg |-> m, env |-> e]]
    /\ at' = [at EXCEPT ![p] = 1] /\ way' = [way EXCEPT ![p] = "down"]
    /\ target' = [target EXCEPT ![p] = Default]
    /\ wire' = [wire EXCEPT ![p] = <<>>]
    /\ sealed' = [sealed EXCEPT ![p] = message.id = "caller"]
    /\ UNCHANGED <<callerVars, sendMu, own, tries, spans, result>>

\* The caller asks its message for the Message-ID, at any time.
MessageID ==
    /\ message.id = "none"
    /\ message' = [message EXCEPT !.id = "caller"]
    /\ built' = [built EXCEPT !.msg.id = "caller"]
    /\ UNCHANGED <<stack, envelope, sendMu, at, way, frameVars, logVars, result>>

------------------------------------------------------------------------------
(* Middleware.                                                             *)

\* The hook edits the message it is handed, if there is one, and the envelope.
Edit(p, c, m, e) ==
    LET k == at[p]
        n == [msg |-> IF m = Raw THEN c.msg ELSE [c.msg EXCEPT !.edits = @ + 1],
              env |-> [edits |-> c.env.edits + 1]]
    IN  /\ own' = [own EXCEPT ![p][k] = n]
        /\ message' = IF m = 0 THEN n.msg ELSE message
        /\ envelope' = IF e = 0 THEN n.env ELSE envelope

\* BeforeSend: copy, run the hook, call the next layer.
BeforeForwards(p) ==
    /\ In(p, "before", "down") /\ ~NoEnvelope(p)
    /\ LET m == Clone(Msg(p), at[p])
           e == IF Env(p) = Nil THEN at[p] ELSE Clone(Env(p), at[p])
       IN  Edit(p, CopyArgs(p), m, e) /\ Forward(p, m, e)
    /\ UNCHANGED <<stack, built, sendMu, tries, logVars, result>>

\* The hook rejects the message: (nil, nil).
BeforeRejects(p) ==
    /\ In(p, "before", "down") /\ ~NoEnvelope(p)
    /\ Return(p, "rejected")
    /\ UNCHANGED <<callerVars, sendMu, logVars>>

\* The hook aborts with an error of its own, or no envelope can be derived.
BeforeFails(p) ==
    /\ In(p, "before", "down")
    /\ \/ Return(p, "other")
       \/ ~NoEnvelope(p) /\ Return(p, "transport")
    /\ UNCHANGED <<callerVars, sendMu, logVars>>

AfterForwards(p) ==
    /\ In(p, "after", "down")
    /\ Forward(p, Msg(p), Env(p))
    /\ UNCHANGED <<callerVars, sendMu, own, tries, logVars, result>>

\* obsTransport.Send opens a span.
ObserveForwards(p) ==
    /\ In(p, "observe", "down")
    /\ Forward(p, Msg(p), Env(p))
    /\ spans' = [spans EXCEPT ![p] = @ + 1]
    /\ UNCHANGED <<callerVars, sendMu, own, tries, target, wire, sealed, result>>

\* Mutation: the span of a failed Send is not ended.
ObserveReturnsEarly(p) ==
    /\ In(p, "observe", "up")
    /\ spans' = [spans EXCEPT ![p] = IF result[p] = "transport" THEN @ ELSE @ - 1]
    /\ Return(p, result[p])
    /\ UNCHANGED <<callerVars, sendMu, target, wire, sealed>>

\* obsTransport.Send ends its span whatever the next layer returned.
ObserveReturns(p) ==
    /\ In(p, "observe", "up")
    /\ spans' = [spans EXCEPT ![p] = @ - 1]
    /\ Return(p, result[p])
    /\ UNCHANGED <<callerVars, sendMu, target, wire, sealed>>

\* Decorators without work on the way up: AfterSend only observes.
PassUp(p) ==
    /\ In(p, "before", "up") \/ In(p, "after", "up") \/ In(p, "route", "up")
    /\ Return(p, result[p])
    /\ UNCHANGED <<callerVars, sendMu, logVars>>

------------------------------------------------------------------------------
(* Transports.Send.                                                        *)

\* RemoveHeader on the object at address m.
Strip(p, c, m) ==
    LET n == [c EXCEPT !.msg.route = NoName]
    IN  /\ own' = [own EXCEPT ![p][at[p]] = n]
        /\ message' = IF m = 0 THEN n.msg ELSE message

RouteRaw(p) ==
    /\ In(p, "route", "down") /\ Msg(p) = Raw
    /\ target' = [target EXCEPT ![p] = Default]
    /\ Forward(p, Raw, Env(p))
    /\ UNCHANGED <<callerVars, sendMu, own, tries, spans, wire, sealed, result>>

RouteNamed(p) ==
    /\ In(p, "route", "down") /\ Msg(p) # Raw
    /\ LET name == MsgAt(p, Msg(p)).route
           m == Clone(Msg(p), at[p])
       IN  /\ name \in Names \cup {NoName}
           /\ target' = [target EXCEPT ![p] = IF name = NoName THEN Default
                                              ELSE name]
           /\ Strip(p, CopyArgs(p), m)
           /\ Forward(p, m, Env(p))
    /\ UNCHANGED <<stack, envelope, built, sendMu, tries, spans, wire, sealed,
                   result>>

RouteUnknown(p) ==
    /\ In(p, "route", "down")
    /\ Msg(p) # Raw /\ MsgAt(p, Msg(p)).route \notin Names \cup {NoName}
    /\ Return(p, "other")
    /\ UNCHANGED <<callerVars, sendMu, logVars>>

------------------------------------------------------------------------------
(* RoundRobinTransport.Send and FailoverTransport.Send: which member is     *)
(* tried, and whether one is left, is the subject of TransportPool.        *)

\* The next attempt gets copies of what the composite was given.
Try(p) ==
    /\ own' = [own EXCEPT ![p][at[p]] = CopyArgs(p)]
    /\ tries' = [tries EXCEPT ![p][at[p]] = @ + 1]
    /\ Forward(p, Clone(Msg(p), at[p]),
               IF Env(p) = Nil THEN Nil ELSE Clone(Env(p), at[p]))

CompositeLocks(p) ==
    /\ In(p, "composite", "down") /\ sendMu[at[p]] = Nobody
    /\ sendMu' = [sendMu EXCEPT ![at[p]] = p]
    /\ Try(p)
    /\ UNCHANGED <<callerVars, logVars, result>>

\* Every member is dead already: "No transports found."
CompositeGivesUp(p) ==
    /\ In(p, "composite", "down") /\ sendMu[at[p]] = Nobody
    /\ Return(p, "transport")
    /\ UNCHANGED <<callerVars, sendMu, logVars>>

\* getNextTransport may still find a member that is not dead.
MemberLeft(p) == tries[p][at[p]] < Attempts

\* An attempt failed with a transport error and a member is left.
CompositeFailsOver(p) ==
    /\ In(p, "composite", "up")
    /\ result[p] = "transport" /\ MemberLeft(p)
    /\ Try(p)
    /\ UNCHANGED <<callerVars, sendMu, logVars, result>>

\* Mutation: an error that ends the loop is returned with the mutex held.
KeepLock(p) == UNCHANGED sendMu

Unlock(p) == sendMu' = [sendMu EXCEPT ![at[p]] = Nobody]

\* An attempt succeeded, or failed with another error, or none is left.
CompositeReturns(p) ==
    /\ In(p, "composite", "up")
    /\ Unlock(p)
    /\ Return(p, result[p])
    /\ UNCHANGED <<callerVars, logVars>>

------------------------------------------------------------------------------
(* BaseTransport.Send.                                                     *)

\* NewSentMessage: the Message-ID is materialized in a copy of the copy.
SealedID(m) == IF m.id = "none" THEN "send" ELSE m.id

\* Mutation: success is reported although DoSend failed.
LeafLies(p) ==
    /\ at[p] = Leaf /\ way[p] = "down"
    /\ ~NoEnvelope(p) /\ Return(p, "sent")
    /\ UNCHANGED <<callerVars, sendMu, logVars>>

\* A context or validation error, or an error of DoSend.
LeafFails(p) ==
    /\ at[p] = Leaf /\ way[p] = "down"
    /\ \/ Return(p, "other")
       \/ ~NoEnvelope(p) /\ Return(p, "transport")
    /\ UNCHANGED <<callerVars, sendMu, logVars>>

\* DoSend delivers the SentMessage.
LeafSends(p) ==
    /\ at[p] = Leaf /\ way[p] = "down" /\ ~NoEnvelope(p)
    /\ LET c == CopyArgs(p)
       IN  wire' = [wire EXCEPT ![p] = Append(@,
                      [raw |-> Msg(p) = Raw, to |-> target[p],
                       route |-> c.msg.route, edits |-> c.msg.edits,
                       envEdits |-> c.env.edits, id |-> SealedID(c.msg)])]
    /\ Return(p, "sent")
    /\ UNCHANGED <<callerVars, sendMu, target, spans, sealed>>

------------------------------------------------------------------------------

Step(p) ==
    \/ BeforeForwards(p) \/ BeforeRejects(p) \/ BeforeFails(p)
    \/ AfterForwards(p) \/ ObserveForwards(p) \/ ObserveReturns(p) \/ PassUp(p)
    \/ RouteRaw(p) \/ RouteNamed(p) \/ RouteUnknown(p)
    \/ CompositeFailsOver(p) \/ CompositeReturns(p)
    \/ LeafFails(p) \/ LeafSends(p)

Next ==
    \/ MessageID
    \/ \E p \in Senders : Send(p) \/ CompositeLocks(p) \/ CompositeGivesUp(p)
                          \/ Step(p)

Spec == Init /\ [][Next]_vars

\* Goroutines run, hooks and DoSend return, sync.Mutex does not starve a waiter.
FairSpec ==
    Spec /\ \A p \in Senders : WF_vars(Step(p)) /\ SF_vars(CompositeLocks(p))

------------------------------------------------------------------------------

Count(kind) == Cardinality({k \in DOMAIN stack : stack[k] = kind})

Delivered(p) == {wire[p][i] : i \in DOMAIN wire[p]}

\* Delivery never changes what the caller holds: no hook, router or leaf writes
\* to the caller's message or envelope, not even its lazily made Message-ID.
CallerObjectsKept == built = [msg |-> message, env |-> envelope]

\* A message goes to the transport its X-Transport header names, also when
\* others send the same message and when the router is tried again after a
\* failure, and the header does not reach the wire.
RoutedAsAddressed ==
    Count("route") > 0 =>
       \A p \in Senders : \A d \in Delivered(p) :
          /\ d.route = NoName
          /\ d.to = IF d.raw \/ built.msg.route = NoName THEN Default
                    ELSE built.msg.route

\* Each hook's edits reach the wire exactly once, however often a composite has
\* tried before and however often the message has been sent before.
EditedOnce ==
    \A p \in Senders : \A d \in Delivered(p) :
       /\ d.envEdits = Count("before")
       /\ ~d.raw => d.edits = Count("before")

\* A Message-ID the caller has seen before the call is the one that is sent, on
\* every attempt.
SeenIDIsSent ==
    \A p \in Senders : \A d \in Delivered(p) :
       sealed[p] /\ ~d.raw => d.id = "caller"

\* What Mailer.Send reports is what happened: one acknowledged delivery for
\* success, none for a rejection or an error.  (A delivery whose acknowledgement
\* is lost is the subject of SmtpTransport.)
ReportIsTrue ==
    \A p \in Senders : way[p] = "up" /\ at[p] # Leaf =>
       Len(wire[p]) = IF result[p] = "sent" THEN 1 ELSE 0

\* A Send that has returned has left nothing behind: no span is open and no
\* composite is locked, whichever way the call ended.
NothingHeld ==
    \A p \in Senders : at[p] = 0 =>
       spans[p] = 0 /\ \A k \in Layers : sendMu[k] # p

\* Every Send returns.
SendReturns == \A p \in Senders : at[p] = 1 ~> at[p] = 0
==============================================================================
