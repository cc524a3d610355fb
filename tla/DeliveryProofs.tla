---------------------------- MODULE DeliveryProofs ----------------------------
(***************************************************************************)
(* Proofs about Delivery, for every set of decorator stacks, any number of *)
(* senders and any number of attempts of a composite.                      *)
(***************************************************************************)
EXTENDS Delivery, FiniteSetTheorems, TLAPS

------------------------------------------------------------------------------
(* Types.  The objects a frame refers to are the caller's or were made by   *)
(* a layer above it.                                                       *)

Objects == [msg : Message, env : Envelope]
Frame == [msg : Int, env : Int]

\* A frame of layer k refers to no object of layer k or below.
Above(f, k) == f.msg \in -1 .. k - 1 /\ f.env \in -1 .. k - 1

TypeOK ==
    /\ stack \in Stacks
    /\ message \in Message /\ envelope \in Envelope
    /\ sendMu \in [Layers -> Senders \cup {Nobody}]
    /\ at \in [Senders -> 0 .. Leaf] /\ way \in [Senders -> {"down", "up"}]
    /\ args \in [Senders -> [Layers -> Frame]]
    /\ own \in [Senders -> [Layers -> Objects]]
    /\ tries \in [Senders -> [Layers -> Nat]]
    /\ target \in [Senders -> Names] /\ spans \in [Senders -> Int]
    /\ result \in [Senders -> Result] /\ sealed \in [Senders -> BOOLEAN]
    /\ DOMAIN wire = Senders

FramesAbove == \A p \in Senders : \A k \in Layers : Above(args[p][k], k)

------------------------------------------------------------------------------
(* What calls, returns and copies do, point by point.                      *)

\* The layers of a stack are 1 .. Len(stack), the leaf follows them.
LEMMA StackFacts ==
  ASSUME stack \in Stacks
  PROVE  /\ Len(stack) \in Nat /\ DOMAIN stack = 1 .. Len(stack)
         /\ Leaf \in Nat /\ Leaf = Len(stack) + 1 /\ Layers = 1 .. Leaf
         /\ DOMAIN stack \subseteq Layers
         /\ \A k \in DOMAIN stack : stack[k] \in Layer /\ k + 1 \in Layers /\ k < Leaf
<1>1. stack \in Seq(Layer)
  BY StacksAssumption
<1> QED BY <1>1 DEF Leaf, Layers

\* An update of one entry of a function of functions.
LEMMA Update ==
  ASSUME NEW D, NEW R, NEW f \in [Senders -> [D -> R]],
         NEW p \in Senders, NEW k \in D, NEW x \in R
  PROVE  LET g == [f EXCEPT ![p][k] = x]
         IN  /\ g \in [Senders -> [D -> R]] /\ g[p][k] = x
             /\ \A j \in D \ {k} : g[p][j] = f[p][j]
             /\ \A q \in Senders \ {p} : g[q] = f[q]
OBVIOUS

\* The layer calls the next one: a new frame, and nothing else changes.
LEMMA ForwardEffect ==
  ASSUME TypeOK, NEW p \in Senders, at[p] \in DOMAIN stack, NEW m \in Int,
         NEW e \in Int, Forward(p, m, e)
  PROVE  /\ at'[p] = at[p] + 1 /\ way'[p] = "down"
         /\ \A q \in Senders \ {p} :
               at'[q] = at[q] /\ way'[q] = way[q] /\ args'[q] = args[q]
         /\ args'[p][at[p] + 1].msg = m /\ args'[p][at[p] + 1].env = e
         /\ \A k \in Layers \ {at[p] + 1} : args'[p][k] = args[p][k]
         /\ at' \in [Senders -> 0 .. Leaf] /\ way' \in [Senders -> {"down", "up"}]
         /\ args' \in [Senders -> [Layers -> Frame]]
<1>1. at[p] + 1 \in Layers /\ at[p] + 1 \in 0 .. Leaf
  BY StackFacts DEF TypeOK
<1>2. [msg |-> m, env |-> e] \in Frame
  BY DEF Frame
<1>3. args \in [Senders -> [Layers -> Frame]]
  BY DEF TypeOK
<1>4. args' = [args EXCEPT ![p][at[p] + 1] = [msg |-> m, env |-> e]]
  BY DEF Forward
<1>5. /\ args' \in [Senders -> [Layers -> Frame]]
      /\ args'[p][at[p] + 1] = [msg |-> m, env |-> e]
      /\ \A k \in Layers \ {at[p] + 1} : args'[p][k] = args[p][k]
      /\ \A q \in Senders \ {p} : args'[q] = args[q]
  BY <1>1, <1>2, <1>3, <1>4, Update
<1>6. /\ at'[p] = at[p] + 1 /\ way'[p] = "down"
      /\ \A q \in Senders \ {p} : at'[q] = at[q] /\ way'[q] = way[q]
      /\ at' \in [Senders -> 0 .. Leaf] /\ way' \in [Senders -> {"down", "up"}]
  BY <1>1 DEF Forward, TypeOK
<1> QED BY <1>5, <1>6

\* The layer returns: its frame is gone, those above it are untouched.
LEMMA ReturnEffect ==
  ASSUME TypeOK, NEW p \in Senders, at[p] \in Layers, NEW r \in Result,
         Return(p, r)
  PROVE  /\ at'[p] = at[p] - 1 /\ way'[p] = "up" /\ result'[p] = r
         /\ \A q \in Senders \ {p} :
               /\ at'[q] = at[q] /\ way'[q] = way[q] /\ result'[q] = result[q]
               /\ args'[q] = args[q] /\ own'[q] = own[q]
         /\ args'[p][at[p]] = NoArgs
         /\ \A k \in Layers \ {at[p]} :
               args'[p][k] = args[p][k] /\ own'[p][k] = own[p][k]
         /\ at' \in [Senders -> 0 .. Leaf] /\ way' \in [Senders -> {"down", "up"}]
         /\ result' \in [Senders -> Result]
         /\ args' \in [Senders -> [Layers -> Frame]]
         /\ own' \in [Senders -> [Layers -> Objects]]
         /\ tries' \in [Senders -> [Layers -> Nat]]
<1>1. at[p] - 1 \in 0 .. Leaf
  BY StackFacts DEF TypeOK
<1>2. NoArgs \in Frame
  BY DEF Frame, NoArgs, Raw, Nil
<1>3. Blank \in Objects
  BY DEF Blank, Objects, Message, Envelope
<1>4. /\ args' \in [Senders -> [Layers -> Frame]] /\ args'[p][at[p]] = NoArgs
      /\ \A k \in Layers \ {at[p]} : args'[p][k] = args[p][k]
      /\ \A q \in Senders \ {p} : args'[q] = args[q]
  <2>1. args \in [Senders -> [Layers -> Frame]]
        /\ args' = [args EXCEPT ![p][at[p]] = NoArgs]
    BY DEF TypeOK, Return
  <2> QED BY <1>2, <2>1, Update
<1>5. /\ own' \in [Senders -> [Layers -> Objects]]
      /\ \A k \in Layers \ {at[p]} : own'[p][k] = own[p][k]
      /\ \A q \in Senders \ {p} : own'[q] = own[q]
  <2>1. own \in [Senders -> [Layers -> Objects]]
        /\ own' = [own EXCEPT ![p][at[p]] = Blank]
    BY DEF TypeOK, Return
  <2> QED BY <1>3, <2>1, Update
<1>6. tries' \in [Senders -> [Layers -> Nat]]
  <2>1. tries \in [Senders -> [Layers -> Nat]]
        /\ tries' = [tries EXCEPT ![p][at[p]] = 0]
    BY DEF TypeOK, Return
  <2> QED BY <2>1, Update
<1>7. /\ at'[p] = at[p] - 1 /\ way'[p] = "up" /\ result'[p] = r
      /\ \A q \in Senders \ {p} :
            at'[q] = at[q] /\ way'[q] = way[q] /\ result'[q] = result[q]
      /\ at' \in [Senders -> 0 .. Leaf] /\ way' \in [Senders -> {"down", "up"}]
      /\ result' \in [Senders -> Result]
  BY <1>1 DEF Return, TypeOK
<1> QED BY <1>4, <1>5, <1>6, <1>7

------------------------------------------------------------------------------
(* The three shapes of a step: a call enters the mailer, a layer calls the  *)
(* next one, a layer returns.  All invariants below need only these.       *)

\* The message and the envelope the frame of layer k refers to.
MsgIn(p, k) == MsgAt(p, args[p][k].msg)
EnvIn(p, k) == EnvAt(p, args[p][k].env)

\* How often layer k edits what it forwards.
Hook(k) == IF stack[k] = "before" THEN 1 ELSE 0

\* Nothing a frame of the first n layers of p refers to has changed.
Kept(p, n) ==
    /\ \A k \in 1 .. n : args'[p][k] = args[p][k]
    /\ \A k \in Layers : k < n => own'[p][k] = own[p][k]

OthersKept(p) ==
    /\ \A q \in Senders \ {p} :
          /\ at'[q] = at[q] /\ way'[q] = way[q] /\ result'[q] = result[q]
          /\ args'[q] = args[q] /\ own'[q] = own[q]
          /\ target'[q] = target[q] /\ spans'[q] = spans[q]
          /\ wire'[q] = wire[q] /\ sealed'[q] = sealed[q]
    /\ UNCHANGED callerVars

\* What layer k hands on, compared with what it was handed.
HandedOn(p, k) ==
    /\ args'[p][k + 1].msg = Raw <=> args[p][k].msg = Raw
    /\ args[p][k].msg # Raw =>
          /\ MsgIn(p, k + 1)'.edits = MsgIn(p, k).edits + Hook(k)
          /\ MsgIn(p, k + 1)'.id = MsgIn(p, k).id
          /\ MsgIn(p, k + 1)'.route = IF stack[k] = "route" THEN NoName
                                      ELSE MsgIn(p, k).route
    /\ args'[p][k + 1].env = Nil => args[p][k].env = Nil /\ Hook(k) = 0
    /\ args'[p][k + 1].env # Nil =>
          EnvIn(p, k + 1)'.edits =
             (IF args[p][k].env = Nil THEN 0 ELSE EnvIn(p, k).edits) + Hook(k)

\* The transport router k chooses for p.
Choice(p, k) == IF args[p][k].msg = Raw \/ MsgIn(p, k).route = NoName
                THEN Default ELSE MsgIn(p, k).route

\* Mailer.Send is called.
Starts(p) ==
    /\ at[p] = 0 /\ at'[p] = 1 /\ way'[p] = "down" /\ OthersKept(p)
    /\ args'[p][1].msg \in {0, Raw} /\ args'[p][1].env \in {0, Nil}
    /\ wire'[p] = <<>> /\ sealed'[p] = (message.id = "caller")
    /\ spans'[p] = spans[p] /\ UNCHANGED sendMu

\* Layer k calls the next one: first, or a composite after a failed attempt.
Calls(p, k) ==
    /\ k = at[p] /\ k \in DOMAIN stack /\ at'[p] = k + 1 /\ way'[p] = "down"
    /\ OthersKept(p) /\ Kept(p, k) /\ HandedOn(p, k)
    /\ wire'[p] = wire[p] /\ sealed'[p] = sealed[p]
    /\ way[p] = "up" => stack[k] = "composite" /\ result[p] = "transport"
    /\ target'[p] = IF stack[k] = "route" THEN Choice(p, k) ELSE target[p]
    /\ spans'[p] = spans[p] + (IF stack[k] = "observe" THEN 1 ELSE 0)
    /\ IF stack[k] = "composite" /\ way[p] = "down"
       THEN sendMu[k] = Nobody /\ sendMu' = [sendMu EXCEPT ![k] = p]
       ELSE UNCHANGED sendMu

\* What the leaf delivers for p.
Parcel(p, k) ==
    [raw |-> Msg(p) = Raw, to |-> target[p], route |-> CopyArgs(p).msg.route,
     edits |-> CopyArgs(p).msg.edits, envEdits |-> CopyArgs(p).env.edits,
     id |-> SealedID(CopyArgs(p).msg)]

\* Layer k returns.
Returns(p, k) ==
    /\ k = at[p] /\ k \in Layers /\ at'[p] = k - 1 /\ way'[p] = "up"
    /\ OthersKept(p) /\ Kept(p, k - 1)
    /\ sealed'[p] = sealed[p] /\ target'[p] = target[p]
    /\ \/ way[p] = "up" /\ k # Leaf /\ result'[p] = result[p] /\ wire'[p] = wire[p]
       \/ way[p] = "down" /\ result'[p] # "sent" /\ wire'[p] = wire[p]
       \/ /\ way[p] = "down" /\ k = Leaf /\ result'[p] = "sent"
          /\ ~NoEnvelope(p) /\ wire'[p] = Append(wire[p], Parcel(p, k))
    /\ spans'[p] = spans[p] - (IF k # Leaf /\ stack[k] = "observe" /\ way[p] = "up"
                               THEN 1 ELSE 0)
    /\ IF k # Leaf /\ stack[k] = "composite" /\ way[p] = "up"
       THEN sendMu' = [sendMu EXCEPT ![k] = Nobody] ELSE UNCHANGED sendMu

------------------------------------------------------------------------------
(* The inductive invariants.                                               *)

\* The decorators p has entered and not yet left.
Entered(p) ==
    {k \in DOMAIN stack : k < at[p] \/ (k = at[p] /\ way[p] = "up")}

\* The observers whose spans p has open.
Observers(p) == {k \in Entered(p) : stack[k] = "observe"}

\* A sender holds the mutexes of the composites it has entered, and has open
\* the spans of the observers it has entered.
HeldInv ==
    \A p \in Senders :
       /\ spans[p] = Cardinality(Observers(p))
       /\ \A k \in Layers :
             sendMu[k] = p <=> k \in Entered(p) /\ stack[k] = "composite"

\* Nothing is delivered on the way down, and on the way up what the result says.
ReportInv ==
    \A p \in Senders :
       IF way[p] = "up" /\ result[p] = "sent" THEN wire[p] = <<wire[p][1]>>
       ELSE wire[p] = <<>>

\* The hooks above layer k.
HooksAbove(k) == {j \in DOMAIN stack : j < k /\ stack[j] = "before"}

\* What layer k was handed has been edited once by every hook above it.
EditInv ==
    /\ message.edits = 0 /\ envelope.edits = 0
    /\ \A p \in Senders : \A k \in 1 .. at[p] :
          /\ args[p][k].msg # Raw =>
                MsgIn(p, k).edits = Cardinality(HooksAbove(k))
          /\ Cardinality(HooksAbove(k)) =
                IF args[p][k].env = Nil THEN 0 ELSE EnvIn(p, k).edits
    /\ EditedOnce

\* A Message-ID the caller has seen is that of every copy of its call.
SealInv ==
    /\ \A p \in Senders : sealed[p] =>
          /\ message.id = "caller"
          /\ \A k \in 1 .. at[p] :
                args[p][k].msg # Raw => MsgIn(p, k).id = "caller"
    /\ SeenIDIsSent

\* A router stands above layer k.
Routed(k) == \E j \in DOMAIN stack : j < k /\ stack[j] = "route"

\* The transport the caller has asked for: the default one for raw bytes and
\* for a message without X-Transport header.
Addressed(p) == IF args[p][1].msg = Raw \/ message.route = NoName THEN Default
                ELSE message.route

\* What layer k was handed carries the caller's X-Transport header until a
\* router has read it, and the router has chosen accordingly.
RouteInv ==
    /\ \A p \in Senders :
          /\ \A k \in 1 .. at[p] :
                /\ args[p][k].msg = Raw <=> args[p][1].msg = Raw
                /\ args[p][k].msg # Raw =>
                      MsgIn(p, k).route = IF Routed(k) THEN NoName
                                          ELSE message.route
          /\ \A k \in Entered(p) : stack[k] = "route" => target[p] = Addressed(p)
    /\ RoutedAsAddressed

------------------------------------------------------------------------------
(* Every step has one of the shapes.                                       *)

\* What a layer was handed, and the copies it makes of it.
LEMMA Handed ==
  ASSUME TypeOK, FramesAbove, NEW p \in Senders, at[p] \in Layers
  PROVE  /\ Msg(p) \in -1 .. at[p] - 1 /\ Env(p) \in -1 .. at[p] - 1
         /\ CopyArgs(p) \in Objects
         /\ Msg(p) # Raw => CopyArgs(p).msg = MsgIn(p, at[p])
         /\ CopyArgs(p).env.edits =
               IF Env(p) = Nil THEN 0 ELSE EnvIn(p, at[p]).edits
<1> DEFINE k == at[p]
<1>1. Layers = 1 .. Leaf /\ Leaf \in Nat /\ at[p] \in Int
  BY StackFacts DEF TypeOK
<1>2. Msg(p) \in -1 .. at[p] - 1 /\ Env(p) \in -1 .. at[p] - 1
  BY DEF FramesAbove, Above, Msg, Env
<1>3. \A a \in 0 .. at[p] - 1 : MsgAt(p, a) \in Message /\ EnvAt(p, a) \in Envelope
  <2> TAKE a \in 0 .. at[p] - 1
  <2>1. CASE a = 0
    BY <2>1 DEF TypeOK, MsgAt, EnvAt
  <2>2. CASE a # 0
    <3>1. a \in Layers
      BY <1>1, <2>2
    <3>2. own[p][a] \in Objects
      BY <3>1 DEF TypeOK
    <3> QED BY <2>2, <3>2 DEF MsgAt, EnvAt, Objects
  <2> QED BY <2>1, <2>2
<1>4. Blank.msg \in Message /\ Blank.env \in Envelope /\ Blank.env.edits = 0
  BY DEF Blank, Message, Envelope
<1>5. Msg(p) # Raw => Msg(p) \in 0 .. at[p] - 1
  BY <1>1, <1>2 DEF Raw
<1>6. Env(p) # Nil => Env(p) \in 0 .. at[p] - 1
  BY <1>1, <1>2 DEF Nil
<1>7. CopyArgs(p) \in Objects
  BY <1>3, <1>4, <1>5, <1>6 DEF CopyArgs, Copy, Objects
<1>8. Msg(p) # Raw => CopyArgs(p).msg = MsgIn(p, at[p])
  BY DEF CopyArgs, Copy, MsgIn, Msg
<1>9. CopyArgs(p).env.edits = IF Env(p) = Nil THEN 0 ELSE EnvIn(p, at[p]).edits
  BY <1>4 DEF CopyArgs, EnvIn, Env
<1> QED BY <1>2, <1>7, <1>8, <1>9

\* A layer that calls the next one keeps the types, whatever copies it makes.
LEMMA CallTypes ==
  ASSUME TypeOK, FramesAbove, NEW p \in Senders, at[p] \in DOMAIN stack,
         NEW m \in -1 .. at[p], NEW e \in -1 .. at[p], Forward(p, m, e),
         UNCHANGED callerVars,
         own' \in [Senders -> [Layers -> Objects]],
         tries' \in [Senders -> [Layers -> Nat]],
         sendMu' \in [Layers -> Senders \cup {Nobody}],
         target' \in [Senders -> Names], spans' \in [Senders -> Int],
         UNCHANGED <<wire, sealed, result>>
  PROVE  TypeOK' /\ FramesAbove'
<1>1. Layers' = Layers /\ Leaf' = Leaf
  BY DEF callerVars, Layers, Leaf
<1>2. m \in Int /\ e \in Int /\ at[p] \in Nat
  BY StackFacts DEF TypeOK
<1>3. /\ at'[p] = at[p] + 1 /\ way'[p] = "down"
      /\ \A q \in Senders \ {p} :
            at'[q] = at[q] /\ way'[q] = way[q] /\ args'[q] = args[q]
      /\ args'[p][at[p] + 1].msg = m /\ args'[p][at[p] + 1].env = e
      /\ \A k \in Layers \ {at[p] + 1} : args'[p][k] = args[p][k]
      /\ at' \in [Senders -> 0 .. Leaf] /\ way' \in [Senders -> {"down", "up"}]
      /\ args' \in [Senders -> [Layers -> Frame]]
  BY <1>2, ForwardEffect
<1>4. TypeOK'
  BY <1>1, <1>3 DEF TypeOK, callerVars
<1>5. \A q \in Senders : \A k \in Layers : Above(args'[q][k], k)
  <2> TAKE q \in Senders
  <2> TAKE k \in Layers
  <2>1. Above(args[q][k], k)
    BY DEF FramesAbove
  <2>2. CASE q = p /\ k = at[p] + 1
    BY <1>2, <1>3, <2>2 DEF Above
  <2>3. CASE ~(q = p /\ k = at[p] + 1)
    BY <1>3, <2>1, <2>3
  <2> QED BY <2>2, <2>3
<1> QED BY <1>1, <1>4, <1>5 DEF FramesAbove

\* A layer that calls the next one keeps the frames above it; the copies it
\* makes, if any, are the new values of its own objects.
LEMMA CallKeeps ==
  ASSUME TypeOK, FramesAbove, NEW p \in Senders, at[p] \in DOMAIN stack,
         NEW m \in Int, NEW e \in Int, Forward(p, m, e),
         \/ own' = own
         \/ \E n \in Objects : own' = [own EXCEPT ![p][at[p]] = n]
  PROVE  /\ Kept(p, at[p]) /\ own' \in [Senders -> [Layers -> Objects]]
         /\ \A q \in Senders \ {p} : own'[q] = own[q]
<1>1. at[p] \in Layers /\ Layers = 1 .. Leaf /\ Leaf \in Nat /\ at[p] < Leaf
  BY StackFacts DEF TypeOK
<1>2. own \in [Senders -> [Layers -> Objects]]
  BY DEF TypeOK
<1>3. /\ own' \in [Senders -> [Layers -> Objects]]
      /\ \A j \in Layers \ {at[p]} : own'[p][j] = own[p][j]
      /\ \A q \in Senders \ {p} : own'[q] = own[q]
  <2>1. CASE own' = own
    BY <1>2, <2>1
  <2>2. CASE \E n \in Objects : own' = [own EXCEPT ![p][at[p]] = n]
    <3>1. PICK n \in Objects : own' = [own EXCEPT ![p][at[p]] = n]
      BY <2>2
    <3> QED BY <1>1, <1>2, <3>1, Update
  <2> QED BY <2>1, <2>2
<1>4. \A k \in Layers \ {at[p] + 1} : args'[p][k] = args[p][k]
  BY ForwardEffect
<1>5. \A k \in 1 .. at[p] : k \in Layers \ {at[p] + 1}
  BY <1>1
<1> QED BY <1>1, <1>3, <1>4, <1>5 DEF Kept

\* AfterSend, Observability and the router of raw bytes hand on what they got.
LEMMA PassStep ==
  ASSUME TypeOK, FramesAbove, NEW p \in Senders, NEW k, k = at[p],
         AfterForwards(p) \/ ObserveForwards(p) \/ RouteRaw(p)
  PROVE  TypeOK' /\ FramesAbove' /\ Calls(p, k)
<1>1. k \in DOMAIN stack /\ k \in Layers /\ way[p] = "down"
  BY StackFacts DEF AfterForwards, ObserveForwards, RouteRaw, In, TypeOK
<1>2. Msg(p) \in -1 .. k - 1 /\ Env(p) \in -1 .. k - 1 /\ k \in Nat \ {0}
  BY <1>1, Handed, StackFacts DEF TypeOK
<1>3. /\ Forward(p, Msg(p), Env(p)) /\ own' = own /\ tries' = tries
      /\ UNCHANGED callerVars /\ UNCHANGED sendMu
      /\ UNCHANGED <<wire, sealed, result>>
  BY DEF AfterForwards, ObserveForwards, RouteRaw, logVars
<1>4. /\ spans' = IF stack[k] = "observe" THEN [spans EXCEPT ![p] = @ + 1] ELSE spans
      /\ target' = IF stack[k] = "route" THEN [target EXCEPT ![p] = Default]
                   ELSE target
      /\ stack[k] \in {"after", "observe", "route"}
      /\ stack[k] = "route" => Msg(p) = Raw
  BY DEF AfterForwards, ObserveForwards, RouteRaw, In, logVars
<1>5. spans' \in [Senders -> Int] /\ target' \in [Senders -> Names]
  BY <1>4, NamesAssumption DEF TypeOK
<1>6. Msg(p) \in -1 .. k /\ Env(p) \in -1 .. k /\ Msg(p) \in Int /\ Env(p) \in Int
  BY <1>2
<1>7. TypeOK' /\ FramesAbove'
  BY <1>1, <1>3, <1>5, <1>6, CallTypes DEF TypeOK
<1>8. /\ at'[p] = k + 1 /\ way'[p] = "down"
      /\ \A q \in Senders \ {p} :
            at'[q] = at[q] /\ way'[q] = way[q] /\ args'[q] = args[q]
      /\ args'[p][k + 1].msg = Msg(p) /\ args'[p][k + 1].env = Env(p)
  BY <1>1, <1>3, <1>6, ForwardEffect
<1>9. Kept(p, k)
  BY <1>1, <1>3, <1>6, CallKeeps
<1>10. OthersKept(p)
  BY <1>3, <1>4, <1>8 DEF OthersKept, TypeOK
<1>11. HandedOn(p, k)
  <2>1. Hook(k) = 0
    BY <1>4 DEF Hook
  <2>2. /\ args[p][k].msg = Msg(p) /\ args[p][k].env = Env(p)
        /\ MsgIn(p, k + 1)' = MsgAt(p, Msg(p)) /\ MsgIn(p, k) = MsgAt(p, Msg(p))
        /\ EnvIn(p, k + 1)' = EnvAt(p, Env(p)) /\ EnvIn(p, k) = EnvAt(p, Env(p))
    BY <1>3, <1>8 DEF Msg, Env, MsgIn, EnvIn, MsgAt, EnvAt, callerVars
  <2>3. Msg(p) # Raw => /\ MsgAt(p, Msg(p)) \in Message /\ stack[k] # "route"
    <3>1. Msg(p) # Raw => CopyArgs(p).msg = MsgAt(p, Msg(p))
                          /\ CopyArgs(p) \in Objects
      BY <1>1, Handed DEF MsgIn, Msg
    <3> QED BY <1>4, <3>1 DEF Objects
  <2>4. Env(p) # Nil => EnvAt(p, Env(p)).edits \in Nat
    <3>1. CopyArgs(p) \in Objects
          /\ (Env(p) # Nil => CopyArgs(p).env.edits = EnvAt(p, Env(p)).edits)
      BY <1>1, Handed DEF EnvIn, Env
    <3> QED BY <3>1 DEF Objects, Envelope
  <2> QED BY <1>8, <2>1, <2>2, <2>3, <2>4 DEF HandedOn, Message
<1>12. target'[p] = IF stack[k] = "route" THEN Choice(p, k) ELSE target[p]
  BY <1>4 DEF Choice, Msg, TypeOK
<1>13. spans'[p] = spans[p] + (IF stack[k] = "observe" THEN 1 ELSE 0)
  BY <1>4 DEF TypeOK
<1> QED BY <1>1, <1>3, <1>4, <1>7, <1>8, <1>9, <1>10, <1>11, <1>12, <1>13 DEF Calls

\* Layer k makes the objects n and calls the next layer.
Copies(p, k, n, m, e) ==
    /\ k = at[p] /\ k \in DOMAIN stack /\ n \in Objects
    /\ m \in {Raw, k} /\ e \in {Nil, k, Env(p)} /\ Forward(p, m, e)
    /\ own' = [own EXCEPT ![p][k] = n] /\ UNCHANGED callerVars

\* A layer that hands on copies n of what it was handed (or, if it has no use
\* for a copy of the envelope, the envelope itself): what the next layer sees.
LEMMA CopyEffect ==
  ASSUME TypeOK, FramesAbove, NEW p \in Senders, NEW k, NEW n, NEW m, NEW e,
         Copies(p, k, n, m, e)
  PROVE  /\ at'[p] = k + 1 /\ way'[p] = "down" /\ Kept(p, k)
         /\ \A q \in Senders \ {p} : /\ at'[q] = at[q] /\ way'[q] = way[q]
                                     /\ args'[q] = args[q] /\ own'[q] = own[q]
         /\ m \in -1 .. k /\ e \in -1 .. k /\ k \in Layers /\ k \in Nat \ {0}
         /\ own' \in [Senders -> [Layers -> Objects]]
         /\ args'[p][k + 1].msg = m /\ args'[p][k + 1].env = e
         /\ m = k => MsgIn(p, k + 1)' = n.msg
         /\ e = k => EnvIn(p, k + 1)' = n.env
         /\ e = Env(p) /\ e # Nil => EnvIn(p, k + 1)' = EnvIn(p, k)
<1> USE DEF Copies
<1>1. k \in Layers /\ k \in Nat \ {0} /\ k < Leaf /\ Leaf \in Nat /\ Layers = 1 .. Leaf
  BY StackFacts DEF TypeOK
<1>2. Env(p) \in -1 .. k - 1
  BY <1>1, Handed
<1>3. m \in -1 .. k /\ e \in -1 .. k /\ m \in Int /\ e \in Int
  BY <1>1, <1>2 DEF Raw, Nil
<1>4. Kept(p, k) /\ own' \in [Senders -> [Layers -> Objects]]
      /\ \A q \in Senders \ {p} : own'[q] = own[q]
  BY <1>3, CallKeeps
<1>5. /\ at'[p] = k + 1 /\ way'[p] = "down"
      /\ \A q \in Senders \ {p} :
            at'[q] = at[q] /\ way'[q] = way[q] /\ args'[q] = args[q]
      /\ args'[p][k + 1].msg = m /\ args'[p][k + 1].env = e
  BY <1>3, ForwardEffect
<1>6. own'[p][k] = n /\ \A j \in Layers \ {k} : own'[p][j] = own[p][j]
  <2>1. own \in [Senders -> [Layers -> Objects]]
    BY DEF TypeOK
  <2> QED BY <1>1, <2>1, Update
<1>7. m = k => MsgIn(p, k + 1)' = n.msg
  BY <1>1, <1>5, <1>6 DEF MsgIn, MsgAt
<1>8. e = k => EnvIn(p, k + 1)' = n.env
  BY <1>1, <1>5, <1>6 DEF EnvIn, EnvAt
<1>9. e = Env(p) /\ e # Nil => EnvIn(p, k + 1)' = EnvIn(p, k)
  <2> SUFFICES ASSUME e = Env(p), e # Nil
               PROVE  EnvIn(p, k + 1)' = EnvIn(p, k)
    OBVIOUS
  <2>1. EnvIn(p, k + 1)' = IF e = 0 THEN envelope' ELSE own'[p][e].env
    BY <1>5 DEF EnvIn, EnvAt
  <2>2. EnvIn(p, k) = IF e = 0 THEN envelope ELSE own[p][e].env
    BY DEF EnvIn, EnvAt, Env
  <2>3. e # 0 => e \in Layers \ {k}
    BY <1>1, <1>2 DEF Nil
  <2> QED BY <1>6, <2>1, <2>2, <2>3 DEF callerVars
<1> QED BY <1>1, <1>3, <1>4, <1>5, <1>7, <1>8, <1>9

\* BeforeSend hands on copies that its hook has edited.
LEMMA BeforeStep ==
  ASSUME TypeOK, FramesAbove, NEW p \in Senders, NEW k, k = at[p],
         BeforeForwards(p)
  PROVE  TypeOK' /\ FramesAbove' /\ Calls(p, k)
<1> DEFINE m == Clone(Msg(p), k)
           e == IF Env(p) = Nil THEN k ELSE Clone(Env(p), k)
           c == CopyArgs(p)
           n == [msg |-> IF m = Raw THEN c.msg ELSE [c.msg EXCEPT !.edits = @ + 1],
                 env |-> [edits |-> c.env.edits + 1]]
<1>1. k \in DOMAIN stack /\ k \in Layers /\ stack[k] = "before" /\ way[p] = "down"
      /\ k \in Nat \ {0}
  BY StackFacts DEF BeforeForwards, In, TypeOK
<1>2. /\ Forward(p, m, e) /\ own' = [own EXCEPT ![p][k] = n]
      /\ message' = (IF m = 0 THEN n.msg ELSE message)
      /\ envelope' = (IF e = 0 THEN n.env ELSE envelope)
      /\ UNCHANGED <<stack, built, sendMu, tries, logVars, result>>
  BY DEF BeforeForwards, Edit
<1>3. m \in {Raw, k} /\ (m = Raw <=> Msg(p) = Raw) /\ e = k /\ k # Raw
  BY <1>1 DEF Clone, Raw, Nil
<1>4. UNCHANGED callerVars
  BY <1>1, <1>2, <1>3 DEF callerVars, Raw, Nil
<1>5. /\ c \in Objects /\ c.env.edits = IF Env(p) = Nil THEN 0 ELSE EnvIn(p, k).edits
      /\ Msg(p) # Raw => c.msg = MsgIn(p, k)
  BY <1>1, Handed
<1>6. /\ n \in Objects /\ n.env.edits = c.env.edits + 1
      /\ m # Raw => /\ n.msg.edits = c.msg.edits + 1 /\ n.msg.id = c.msg.id
                    /\ n.msg.route = c.msg.route
  BY <1>5 DEF Objects, Message, Envelope
<1> HIDE DEF m, e, c, n
<1>7. /\ at'[p] = k + 1 /\ way'[p] = "down" /\ Kept(p, k)
      /\ \A q \in Senders \ {p} : /\ at'[q] = at[q] /\ way'[q] = way[q]
                                  /\ args'[q] = args[q] /\ own'[q] = own[q]
      /\ m \in -1 .. k /\ e \in -1 .. k
      /\ own' \in [Senders -> [Layers -> Objects]]
      /\ args'[p][k + 1].msg = m /\ args'[p][k + 1].env = e
      /\ m = k => MsgIn(p, k + 1)' = n.msg
      /\ EnvIn(p, k + 1)' = n.env
  <2>1. Copies(p, k, n, m, e)
    BY <1>1, <1>2, <1>3, <1>4, <1>6 DEF Copies
  <2> QED BY <1>3, <2>1, CopyEffect
<1>8. TypeOK' /\ FramesAbove'
  BY <1>1, <1>2, <1>4, <1>7, CallTypes DEF TypeOK, logVars
<1>9. HandedOn(p, k)
  <2>1. args[p][k].msg = Msg(p) /\ args[p][k].env = Env(p) /\ Hook(k) = 1
    BY <1>1 DEF Msg, Env, Hook
  <2>2. e # Nil
    BY <1>1, <1>3 DEF Nil
  <2> QED BY <1>1, <1>3, <1>5, <1>6, <1>7, <2>1, <2>2 DEF HandedOn
<1>10. OthersKept(p)
  BY <1>2, <1>4, <1>7 DEF OthersKept, logVars
<1>11. spans'[p] = spans[p] + (IF stack[k] = "observe" THEN 1 ELSE 0)
  BY <1>1, <1>2 DEF logVars, TypeOK
<1> QED BY <1>1, <1>2, <1>7, <1>8, <1>9, <1>10, <1>11 DEF Calls, logVars

\* The router hands on a copy without the X-Transport header it has read.
LEMMA NamedStep ==
  ASSUME TypeOK, FramesAbove, NEW p \in Senders, NEW k, k = at[p], RouteNamed(p)
  PROVE  TypeOK' /\ FramesAbove' /\ Calls(p, k)
<1> DEFINE m == Clone(Msg(p), k)
           name == MsgAt(p, Msg(p)).route
           c == CopyArgs(p)
           n == [c EXCEPT !.msg.route = NoName]
<1>1. k \in DOMAIN stack /\ k \in Layers /\ stack[k] = "route" /\ way[p] = "down"
      /\ k \in Nat \ {0} /\ Msg(p) # Raw
  BY StackFacts DEF RouteNamed, In, TypeOK
<1>2. /\ Forward(p, m, Env(p)) /\ own' = [own EXCEPT ![p][k] = n]
      /\ message' = (IF m = 0 THEN n.msg ELSE message)
      /\ name \in Names \cup {NoName}
      /\ target' = [target EXCEPT ![p] = IF name = NoName THEN Default ELSE name]
      /\ UNCHANGED <<stack, envelope, built, sendMu, tries, spans, wire, sealed,
                     result>>
  BY DEF RouteNamed, Strip
<1>3. m = k /\ k # Raw /\ name = MsgIn(p, k).route
  BY <1>1 DEF Clone, Raw, Msg, MsgIn
<1>4. UNCHANGED callerVars
  BY <1>1, <1>2, <1>3 DEF callerVars
<1>5. /\ c \in Objects /\ c.msg = MsgIn(p, k)
      /\ c.env.edits = IF Env(p) = Nil THEN 0 ELSE EnvIn(p, k).edits
  BY <1>1, Handed
<1>6. /\ n \in Objects /\ n.msg.edits = c.msg.edits /\ n.msg.id = c.msg.id
      /\ n.msg.route = NoName /\ n.env = c.env /\ c.msg.edits \in Nat
      /\ c.env.edits \in Nat
  BY <1>5 DEF Objects, Message, Envelope
<1>target. /\ target' \in [Senders -> Names] /\ target'[p] = Choice(p, k)
           /\ \A q \in Senders \ {p} : target'[q] = target[q]
  BY <1>1, <1>2, <1>3, NamesAssumption DEF TypeOK, Choice, Msg
<1> HIDE DEF m, name, c, n
<1>7. /\ at'[p] = k + 1 /\ way'[p] = "down" /\ Kept(p, k)
      /\ \A q \in Senders \ {p} : /\ at'[q] = at[q] /\ way'[q] = way[q]
                                  /\ args'[q] = args[q] /\ own'[q] = own[q]
      /\ m \in -1 .. k /\ Env(p) \in -1 .. k
      /\ own' \in [Senders -> [Layers -> Objects]]
      /\ args'[p][k + 1].msg = m /\ args'[p][k + 1].env = Env(p)
      /\ MsgIn(p, k + 1)' = n.msg
      /\ Env(p) # Nil => EnvIn(p, k + 1)' = EnvIn(p, k)
  <2>1. Copies(p, k, n, m, Env(p))
    BY <1>1, <1>2, <1>3, <1>4, <1>6 DEF Copies
  <2> QED BY <1>3, <2>1, CopyEffect
<1>8. TypeOK' /\ FramesAbove'
  BY <1>1, <1>2, <1>4, <1>7, <1>target, CallTypes DEF TypeOK
<1>9. HandedOn(p, k)
  <2>1. args[p][k].msg = Msg(p) /\ args[p][k].env = Env(p) /\ Hook(k) = 0
    BY <1>1 DEF Msg, Env, Hook
  <2> QED BY <1>1, <1>3, <1>5, <1>6, <1>7, <2>1 DEF HandedOn
<1>10. OthersKept(p)
  BY <1>2, <1>4, <1>7, <1>target DEF OthersKept
<1>11. spans'[p] = spans[p] + (IF stack[k] = "observe" THEN 1 ELSE 0)
  BY <1>1, <1>2 DEF TypeOK
<1> QED BY <1>1, <1>2, <1>7, <1>8, <1>9, <1>10, <1>11, <1>target DEF Calls

\* A composite hands on fresh copies for every attempt.
LEMMA TryStep ==
  ASSUME TypeOK, FramesAbove, NEW p \in Senders, NEW k, k = at[p],
         CompositeLocks(p) \/ CompositeFailsOver(p)
  PROVE  TypeOK' /\ FramesAbove' /\ Calls(p, k)
<1> DEFINE m == Clone(Msg(p), k)
           e == IF Env(p) = Nil THEN Nil ELSE Clone(Env(p), k)
           c == CopyArgs(p)
<1>1. k \in DOMAIN stack /\ k \in Layers /\ stack[k] = "composite" /\ k \in Nat \ {0}
  BY StackFacts DEF CompositeLocks, CompositeFailsOver, In, TypeOK
<1>2. /\ Forward(p, m, e) /\ own' = [own EXCEPT ![p][k] = c]
      /\ tries' = [tries EXCEPT ![p][k] = @ + 1]
      /\ UNCHANGED <<callerVars, logVars, result>>
      /\ \/ way[p] = "down" /\ sendMu[k] = Nobody /\ sendMu' = [sendMu EXCEPT ![k] = p]
         \/ way[p] = "up" /\ result[p] = "transport" /\ sendMu' = sendMu
  BY DEF CompositeLocks, CompositeFailsOver, Try, In
<1>3. /\ m \in {Raw, k} /\ (m = Raw <=> Msg(p) = Raw) /\ k # Raw /\ k # Nil
      /\ e \in {Nil, k} /\ (e = Nil <=> Env(p) = Nil)
  BY <1>1 DEF Clone, Raw, Nil
<1>5. /\ c \in Objects /\ c.env.edits = IF Env(p) = Nil THEN 0 ELSE EnvIn(p, k).edits
      /\ Msg(p) # Raw => c.msg = MsgIn(p, k)
  BY <1>1, Handed
<1>6. c.msg.edits \in Nat /\ c.env.edits \in Nat
  BY <1>5 DEF Objects, Message, Envelope
<1> HIDE DEF m, e, c
<1>7. /\ at'[p] = k + 1 /\ way'[p] = "down" /\ Kept(p, k)
      /\ \A q \in Senders \ {p} : /\ at'[q] = at[q] /\ way'[q] = way[q]
                                  /\ args'[q] = args[q] /\ own'[q] = own[q]
      /\ m \in -1 .. k /\ e \in -1 .. k
      /\ own' \in [Senders -> [Layers -> Objects]]
      /\ args'[p][k + 1].msg = m /\ args'[p][k + 1].env = e
      /\ m = k => MsgIn(p, k + 1)' = c.msg
      /\ e = k => EnvIn(p, k + 1)' = c.env
  <2>1. Copies(p, k, c, m, e)
    BY <1>1, <1>2, <1>3, <1>5 DEF Copies
  <2> QED BY <1>3, <2>1, CopyEffect
<1>8. TypeOK' /\ FramesAbove'
  <2>1. tries' \in [Senders -> [Layers -> Nat]]
    <3>1. tries \in [Senders -> [Layers -> Nat]]
      BY DEF TypeOK
    <3>2. tries[p][k] + 1 \in Nat
      BY <1>1, <3>1
    <3>3. tries' = [tries EXCEPT ![p][k] = tries[p][k] + 1]
      BY <1>1, <1>2, <3>1
    <3> QED BY <1>1, <3>1, <3>2, <3>3, Update
  <2>2. sendMu' \in [Layers -> Senders \cup {Nobody}]
    BY <1>1, <1>2 DEF TypeOK
  <2> QED BY <1>1, <1>2, <1>7, <2>1, <2>2, CallTypes DEF TypeOK, logVars
<1>9. HandedOn(p, k)
  <2>1. args[p][k].msg = Msg(p) /\ args[p][k].env = Env(p) /\ Hook(k) = 0
    BY <1>1 DEF Msg, Env, Hook
  <2> QED BY <1>1, <1>3, <1>5, <1>6, <1>7, <2>1 DEF HandedOn
<1>10. OthersKept(p)
  BY <1>2, <1>7 DEF OthersKept, logVars
<1>11. spans'[p] = spans[p] + (IF stack[k] = "observe" THEN 1 ELSE 0)
  BY <1>1, <1>2 DEF logVars, TypeOK
<1> QED BY <1>1, <1>2, <1>7, <1>8, <1>9, <1>10, <1>11 DEF Calls, logVars

\* A layer that returns keeps the types and the frames above it.
LEMMA ReturnTypes ==
  ASSUME TypeOK, FramesAbove, NEW p \in Senders, NEW k, k = at[p], k \in Layers,
         NEW r \in Result, Return(p, r), UNCHANGED <<callerVars, target, sealed>>,
         sendMu' \in [Layers -> Senders \cup {Nobody}],
         spans' \in [Senders -> Int], DOMAIN wire' = Senders,
         \A q \in Senders \ {p} : spans'[q] = spans[q] /\ wire'[q] = wire[q]
  PROVE  /\ TypeOK' /\ FramesAbove' /\ OthersKept(p) /\ Kept(p, k - 1)
         /\ at'[p] = k - 1 /\ way'[p] = "up" /\ result'[p] = r
<1>1. Layers' = Layers /\ Leaf' = Leaf
  BY DEF callerVars, Layers, Leaf
<1>2. /\ at'[p] = k - 1 /\ way'[p] = "up" /\ result'[p] = r
      /\ \A q \in Senders \ {p} :
            /\ at'[q] = at[q] /\ way'[q] = way[q] /\ result'[q] = result[q]
            /\ args'[q] = args[q] /\ own'[q] = own[q]
      /\ args'[p][k] = NoArgs
      /\ \A j \in Layers \ {k} :
            args'[p][j] = args[p][j] /\ own'[p][j] = own[p][j]
      /\ at' \in [Senders -> 0 .. Leaf] /\ way' \in [Senders -> {"down", "up"}]
      /\ result' \in [Senders -> Result]
      /\ args' \in [Senders -> [Layers -> Frame]]
      /\ own' \in [Senders -> [Layers -> Objects]]
      /\ tries' \in [Senders -> [Layers -> Nat]]
  BY ReturnEffect
<1>3. TypeOK'
  BY <1>1, <1>2 DEF TypeOK, callerVars
<1>4. k \in Nat \ {0} /\ Leaf \in Nat /\ Layers = 1 .. Leaf
  BY StackFacts DEF TypeOK
<1>5. \A q \in Senders : \A j \in Layers : Above(args'[q][j], j)
  <2> TAKE q \in Senders
  <2> TAKE j \in Layers
  <2>1. Above(args[q][j], j)
    BY DEF FramesAbove
  <2>2. Above(NoArgs, k)
    BY <1>4 DEF Above, NoArgs, Raw, Nil
  <2> QED BY <1>2, <2>1, <2>2
<1>6. FramesAbove'
  BY <1>1, <1>5 DEF FramesAbove
<1>7. OthersKept(p)
  BY <1>2 DEF OthersKept
<1>8. Kept(p, k - 1)
  <2>1. \A j \in 1 .. k - 1 : j \in Layers \ {k}
    BY <1>4
  <2>2. \A j \in Layers : j < k - 1 => j \in Layers \ {k}
    BY <1>4
  <2> QED BY <1>2, <2>1, <2>2 DEF Kept
<1> QED BY <1>2, <1>3, <1>6, <1>7, <1>8

\* A layer that returns without having called the next one.
LEMMA FailStep ==
  ASSUME TypeOK, FramesAbove, NEW p \in Senders, NEW k, k = at[p],
         \/ BeforeRejects(p) \/ BeforeFails(p) \/ RouteUnknown(p)
         \/ CompositeGivesUp(p) \/ LeafFails(p)
  PROVE  TypeOK' /\ FramesAbove' /\ Returns(p, k)
<1>1. k \in Layers /\ way[p] = "down"
  BY StackFacts DEF BeforeRejects, BeforeFails, RouteUnknown, CompositeGivesUp,
     LeafFails, In, TypeOK
<1>2. UNCHANGED <<callerVars, sendMu, logVars>>
  BY DEF BeforeRejects, BeforeFails, RouteUnknown, CompositeGivesUp, LeafFails
<1>3. PICK r \in Result \ {"sent"} : Return(p, r)
  <2>1. Return(p, "rejected") \/ Return(p, "other") \/ Return(p, "transport")
    BY DEF BeforeRejects, BeforeFails, RouteUnknown, CompositeGivesUp, LeafFails
  <2> QED BY <2>1 DEF Result
<1>4. UNCHANGED <<target, sealed, sendMu, spans, wire>> /\ UNCHANGED callerVars
  BY <1>2 DEF logVars
<1>5. /\ sendMu' \in [Layers -> Senders \cup {Nobody}]
      /\ spans' \in [Senders -> Int] /\ DOMAIN wire' = Senders
  BY <1>4 DEF TypeOK
<1>6. /\ TypeOK' /\ FramesAbove' /\ OthersKept(p) /\ Kept(p, k - 1)
      /\ at'[p] = k - 1 /\ way'[p] = "up" /\ result'[p] = r
  BY <1>1, <1>3, <1>4, <1>5, ReturnTypes
<1>7. spans[p] - 0 = spans[p]
  BY DEF TypeOK
<1> QED BY <1>1, <1>3, <1>4, <1>6, <1>7 DEF Returns

\* A layer that returns what the next one has returned.
LEMMA UpStep ==
  ASSUME TypeOK, FramesAbove, NEW p \in Senders, NEW k, k = at[p],
         ObserveReturns(p) \/ PassUp(p) \/ CompositeReturns(p)
  PROVE  TypeOK' /\ FramesAbove' /\ Returns(p, k)
<1>1. k \in DOMAIN stack /\ k \in Layers /\ way[p] = "up" /\ k # Leaf
      /\ result[p] \in Result
  BY StackFacts DEF ObserveReturns, PassUp, CompositeReturns, In, TypeOK
<1>2. UNCHANGED <<target, sealed, wire>> /\ UNCHANGED callerVars /\ Return(p, result[p])
  BY DEF ObserveReturns, PassUp, CompositeReturns, logVars
<1>3. /\ spans' = IF stack[k] = "observe" THEN [spans EXCEPT ![p] = @ - 1] ELSE spans
      /\ sendMu' = IF stack[k] = "composite" THEN [sendMu EXCEPT ![k] = Nobody]
                   ELSE sendMu
  BY DEF ObserveReturns, PassUp, CompositeReturns, Unlock, logVars, In
<1>4. /\ spans' \in [Senders -> Int] /\ \A q \in Senders \ {p} : spans'[q] = spans[q]
      /\ spans'[p] = spans[p] - (IF stack[k] = "observe" THEN 1 ELSE 0)
  BY <1>3 DEF TypeOK
<1>5. sendMu' \in [Layers -> Senders \cup {Nobody}] /\ DOMAIN wire' = Senders
  BY <1>1, <1>2, <1>3 DEF TypeOK
<1>6. /\ TypeOK' /\ FramesAbove' /\ OthersKept(p) /\ Kept(p, k - 1)
      /\ at'[p] = k - 1 /\ way'[p] = "up" /\ result'[p] = result[p]
  BY <1>1, <1>2, <1>4, <1>5, ReturnTypes
<1> QED BY <1>1, <1>2, <1>3, <1>4, <1>6 DEF Returns

\* The leaf delivers what it was handed and reports it.
LEMMA SendsStep ==
  ASSUME TypeOK, FramesAbove, NEW p \in Senders, NEW k, k = at[p], LeafSends(p)
  PROVE  TypeOK' /\ FramesAbove' /\ Returns(p, k)
<1>1. k = Leaf /\ k \in Layers /\ way[p] = "down" /\ ~NoEnvelope(p)
  BY StackFacts DEF LeafSends, TypeOK
<1>2. /\ Return(p, "sent") /\ UNCHANGED <<callerVars, sendMu, target, spans, sealed>>
      /\ wire' = [wire EXCEPT ![p] = Append(@, Parcel(p, k))]
  BY DEF LeafSends, Parcel
<1>3. /\ wire'[p] = Append(wire[p], Parcel(p, k)) /\ DOMAIN wire' = Senders
      /\ \A q \in Senders \ {p} : wire'[q] = wire[q]
  <2> HIDE DEF Parcel
  <2> QED BY <1>2 DEF TypeOK
<1>4. /\ sendMu' \in [Layers -> Senders \cup {Nobody}]
      /\ spans' \in [Senders -> Int] /\ "sent" \in Result
  BY <1>2 DEF TypeOK, Result
<1>5. /\ TypeOK' /\ FramesAbove' /\ OthersKept(p) /\ Kept(p, k - 1)
      /\ at'[p] = k - 1 /\ way'[p] = "up" /\ result'[p] = "sent"
  <2>1. /\ Return(p, "sent") /\ UNCHANGED <<callerVars, target, sealed>>
        /\ \A q \in Senders \ {p} : spans'[q] = spans[q] /\ wire'[q] = wire[q]
    BY <1>2, <1>3
  <2>2. k \in Layers /\ DOMAIN wire' = Senders
    BY <1>1, <1>3
  <2> QED BY <1>4, <2>1, <2>2, ReturnTypes
<1>6. spans[p] - 0 = spans[p]
  BY DEF TypeOK
<1> QED BY <1>1, <1>2, <1>3, <1>5, <1>6 DEF Returns

\* Mailer.Send enters the first layer with what the caller passes.
LEMMA StartStep ==
  ASSUME TypeOK, FramesAbove, NEW p \in Senders, Send(p)
  PROVE  TypeOK' /\ FramesAbove' /\ Starts(p)
<1>1. 1 \in Layers /\ 1 \in 0 .. Leaf /\ Layers' = Layers /\ Leaf' = Leaf
  BY StackFacts DEF TypeOK, Send, callerVars, Layers, Leaf
<1>2. PICK m \in {0, Raw}, e \in {0, Nil} :
         args' = [args EXCEPT ![p][1] = [msg |-> m, env |-> e]]
  BY DEF Send
<1>3. /\ args' \in [Senders -> [Layers -> Frame]]
      /\ args'[p][1] = [msg |-> m, env |-> e]
      /\ \A j \in Layers \ {1} : args'[p][j] = args[p][j]
      /\ \A q \in Senders \ {p} : args'[q] = args[q]
  <2>1. args \in [Senders -> [Layers -> Frame]] /\ [msg |-> m, env |-> e] \in Frame
    BY DEF TypeOK, Frame, Raw, Nil
  <2> QED BY <1>1, <1>2, <2>1, Update
<1>4. /\ at[p] = 0 /\ at'[p] = 1 /\ way'[p] = "down" /\ wire'[p] = <<>>
      /\ sealed'[p] = (message.id = "caller") /\ spans' = spans
      /\ UNCHANGED <<callerVars, sendMu, own, tries, result>>
      /\ \A q \in Senders \ {p} :
            /\ at'[q] = at[q] /\ way'[q] = way[q] /\ wire'[q] = wire[q]
            /\ sealed'[q] = sealed[q] /\ target'[q] = target[q]
      /\ at' \in [Senders -> 0 .. Leaf] /\ way' \in [Senders -> {"down", "up"}]
      /\ target' \in [Senders -> Names] /\ sealed' \in [Senders -> BOOLEAN]
      /\ DOMAIN wire' = Senders
  BY <1>1, NamesAssumption DEF Send, TypeOK
<1>5. TypeOK'
  BY <1>1, <1>3, <1>4 DEF TypeOK, callerVars
<1>6. \A q \in Senders : \A j \in Layers : Above(args'[q][j], j)
  <2> TAKE q \in Senders
  <2> TAKE j \in Layers
  <2>1. Above(args[q][j], j)
    BY DEF FramesAbove
  <2>2. Above([msg |-> m, env |-> e], 1)
    BY DEF Above, Raw, Nil
  <2> QED BY <1>3, <2>1, <2>2
<1>7. OthersKept(p)
  BY <1>3, <1>4 DEF OthersKept
<1> QED BY <1>1, <1>3, <1>4, <1>5, <1>6, <1>7 DEF FramesAbove, Starts

\* A step of the specification, as the invariants see it.
Shape ==
    \/ MessageID
    \/ \E p \in Senders : \/ Starts(p)
                          \/ \E k \in Layers : Calls(p, k) \/ Returns(p, k)

\* Every step keeps the types and has one of the shapes.
LEMMA StepShape ==
  ASSUME TypeOK, FramesAbove, [Next]_vars
  PROVE  TypeOK' /\ FramesAbove' /\ (Shape \/ UNCHANGED vars)
<1>1. CASE UNCHANGED vars
  <2>1. Layers' = Layers /\ Leaf' = Leaf
    BY <1>1 DEF vars, callerVars, Layers, Leaf
  <2> QED
    BY <1>1, <2>1 DEF vars, callerVars, frameVars, logVars, TypeOK, FramesAbove
<1>2. CASE MessageID
  <2>1. /\ message' \in Message /\ UNCHANGED <<stack, envelope, sendMu, at, way>>
        /\ UNCHANGED <<args, own, tries, target, spans, wire, sealed, result>>
    BY <1>2 DEF MessageID, TypeOK, Message, frameVars, logVars
  <2>2. Layers' = Layers /\ Leaf' = Leaf
    BY <2>1 DEF Layers, Leaf
  <2> QED BY <1>2, <2>1, <2>2 DEF TypeOK, FramesAbove, Shape
<1>3. ASSUME NEW p \in Senders,
             Send(p) \/ CompositeLocks(p) \/ CompositeGivesUp(p) \/ Step(p)
      PROVE  TypeOK' /\ FramesAbove' /\ Shape
  <2>1. CASE Send(p)
    BY <2>1, StartStep DEF Shape
  <2>2. CASE CompositeLocks(p) \/ CompositeGivesUp(p) \/ Step(p)
    <3>1. PICK k : k = at[p]
      OBVIOUS
    <3>2. TypeOK' /\ FramesAbove' /\ (Calls(p, k) \/ Returns(p, k))
      BY <2>2, <3>1, BeforeStep, NamedStep, PassStep, TryStep, FailStep, UpStep,
         SendsStep DEF Step
    <3>3. k \in Layers
      BY <3>1, <3>2, StackFacts DEF Calls, Returns, TypeOK
    <3> QED BY <3>2, <3>3 DEF Shape
  <2> QED BY <1>3, <2>1, <2>2
<1> QED BY <1>1, <1>2, <1>3 DEF Next

\* Every variable keeps its type, and a frame refers only to the caller's
\* objects and to copies made by the layers above it.
THEOREM TypeCorrect == Spec => [](TypeOK /\ FramesAbove)
<1>1. Init => TypeOK /\ FramesAbove
  <2> SUFFICES ASSUME Init PROVE TypeOK /\ FramesAbove
    OBVIOUS
  <2>1. Layers = 1 .. Leaf /\ Leaf \in Nat
    BY StackFacts DEF Init
  <2>2. NoArgs \in Frame /\ Blank \in Objects
    BY DEF NoArgs, Raw, Nil, Frame, Blank, Objects, Message, Envelope
  <2>3. args \in [Senders -> [Layers -> Frame]] /\ own \in [Senders -> [Layers -> Objects]]
    BY <2>2 DEF Init
  <2>4. message \in Message /\ envelope \in Envelope
    BY DEF Init, Message, Envelope
  <2>5. TypeOK
    <3>1. /\ sendMu \in [Layers -> Senders \cup {Nobody}]
          /\ tries \in [Senders -> [Layers -> Nat]] /\ stack \in Stacks
      BY DEF Init
    <3>2. at \in [Senders -> 0 .. Leaf] /\ way \in [Senders -> {"down", "up"}]
      BY <2>1 DEF Init
    <3>3. /\ target \in [Senders -> Names] /\ spans \in [Senders -> Int]
          /\ result \in [Senders -> Result] /\ sealed \in [Senders -> BOOLEAN]
          /\ DOMAIN wire = Senders
      BY NamesAssumption DEF Init, Result
    <3> QED BY <2>3, <2>4, <3>1, <3>2, <3>3 DEF TypeOK
  <2>6. \A k \in Layers : Above(NoArgs, k)
    BY <2>1 DEF Above, NoArgs, Raw, Nil
  <2> QED BY <2>5, <2>6 DEF Init, FramesAbove
<1>2. TypeOK /\ FramesAbove /\ [Next]_vars => (TypeOK /\ FramesAbove)'
  BY StepShape
<1> QED BY <1>1, <1>2, PTL DEF Spec

------------------------------------------------------------------------------
(* The caller's objects.                                                   *)

\* No layer writes to the caller's message or envelope.
THEOREM CallerIsLeftAlone == Spec => []CallerObjectsKept
<1>1. Init => CallerObjectsKept
  BY DEF Init, CallerObjectsKept
<1>2. TypeOK /\ FramesAbove /\ CallerObjectsKept /\ [Next]_vars => CallerObjectsKept'
  <2> SUFFICES ASSUME TypeOK, FramesAbove, CallerObjectsKept, [Next]_vars
               PROVE  CallerObjectsKept'
    OBVIOUS
  <2>1. CASE MessageID
    BY <2>1 DEF MessageID, CallerObjectsKept, TypeOK, Message
  <2>2. CASE \E p \in Senders :
                Starts(p) \/ \E k \in Layers : Calls(p, k) \/ Returns(p, k)
    <3>1. UNCHANGED callerVars
      BY <2>2 DEF Starts, Calls, Returns, OthersKept
    <3> QED BY <3>1 DEF callerVars, CallerObjectsKept
  <2>3. CASE UNCHANGED vars
    BY <2>3 DEF vars, callerVars, CallerObjectsKept
  <2> QED BY <2>1, <2>2, <2>3, StepShape DEF Shape
<1> QED BY <1>1, <1>2, TypeCorrect, PTL DEF Spec

------------------------------------------------------------------------------
(* What Send reports.                                                      *)

\* A sent result stands for exactly one acknowledged delivery of this call, any
\* other result for none, on every way a call takes through the layers and
\* however often a composite has tried.
THEOREM ReportInvariant == Spec => []ReportInv
<1>1. Init => ReportInv
  BY DEF Init, ReportInv
<1>2. TypeOK /\ FramesAbove /\ ReportInv /\ [Next]_vars => ReportInv'
  <2> SUFFICES ASSUME TypeOK, FramesAbove, ReportInv, [Next]_vars,
                      NEW q \in Senders
               PROVE  IF way'[q] = "up" /\ result'[q] = "sent"
                      THEN wire'[q] = <<wire'[q][1]>> ELSE wire'[q] = <<>>
    BY DEF ReportInv
  <2>q. IF way[q] = "up" /\ result[q] = "sent" THEN wire[q] = <<wire[q][1]>>
        ELSE wire[q] = <<>>
    BY DEF ReportInv
  <2>1. CASE MessageID \/ UNCHANGED vars
    BY <2>1, <2>q DEF MessageID, logVars, vars
  <2>2. ASSUME NEW p \in Senders, p # q,
               Starts(p) \/ \E k \in Layers : Calls(p, k) \/ Returns(p, k)
        PROVE  way'[q] = way[q] /\ wire'[q] = wire[q] /\ result'[q] = result[q]
    BY <2>2 DEF Starts, Calls, Returns, OthersKept
  <2>3. CASE Starts(q)
    BY <2>3 DEF Starts
  <2>4. ASSUME NEW k \in Layers, Calls(q, k)
        PROVE  way'[q] = "down" /\ wire'[q] = <<>>
    BY <2>4, <2>q DEF Calls, TypeOK
  <2>5. ASSUME NEW k \in Layers, Returns(q, k)
        PROVE  IF result'[q] = "sent" THEN wire'[q] = <<wire'[q][1]>>
               ELSE wire'[q] = <<>>
    <3>1. CASE way[q] = "up"
      BY <2>5, <2>q, <3>1 DEF Returns
    <3>2. CASE way[q] = "down" /\ result'[q] # "sent"
      BY <2>5, <2>q, <3>2 DEF Returns
    <3>3. CASE way[q] = "down" /\ result'[q] = "sent"
      <4>1. wire[q] = <<>> /\ wire'[q] = Append(wire[q], Parcel(q, k))
        BY <2>5, <2>q, <3>3 DEF Returns
      <4>2. \A d : Append(<<>>, d) = <<d>> /\ <<d>>[1] = d
        OBVIOUS
      <4> QED BY <3>3, <4>1, <4>2
    <3> QED BY <3>1, <3>2, <3>3 DEF TypeOK
  <2>6. ASSUME NEW k \in Layers, Returns(q, k) PROVE way'[q] = "up"
    BY <2>6 DEF Returns
  <2> QED BY <2>q, <2>1, <2>2, <2>3, <2>4, <2>5, <2>6, StepShape DEF Shape
<1> QED BY <1>1, <1>2, TypeCorrect, PTL DEF Spec

\* Mailer.Send reports success for one acknowledged delivery and failure or
\* rejection for none.
THEOREM ReportsAreTrue == Spec => []ReportIsTrue
<1>1. ReportInv => ReportIsTrue
  <2>1. \A d : Len(<<d>>) = 1
    OBVIOUS
  <2>2. Len(<<>>) = 0
    OBVIOUS
  <2> QED BY <2>1, <2>2 DEF ReportInv, ReportIsTrue
<1> QED BY <1>1, ReportInvariant, PTL

------------------------------------------------------------------------------
(* Mutexes and spans.                                                      *)

\* The layers of a stack can be counted.
LEMMA LayersFinite ==
  ASSUME stack \in Stacks, NEW S \in SUBSET (DOMAIN stack)
  PROVE  IsFiniteSet(S) /\ Cardinality(S) \in Nat
<1>1. IsFiniteSet(DOMAIN stack)
  BY StackFacts, FS_Interval
<1>2. IsFiniteSet(S)
  BY <1>1, FS_Subset
<1> QED BY <1>2, FS_CardinalityType

\* Counting one layer more, or one less.
LEMMA OneMore ==
  ASSUME stack \in Stacks, NEW S \in SUBSET (DOMAIN stack), NEW k \in DOMAIN stack
  PROVE  /\ k \notin S => Cardinality(S \cup {k}) = Cardinality(S) + 1
         /\ k \in S => Cardinality(S \ {k}) = Cardinality(S) - 1
<1>1. IsFiniteSet(S)
  BY LayersFinite
<1> QED BY <1>1, FS_AddElement, FS_RemoveElement

\* The decorators a call has entered, after each shape of a step.
LEMMA EnteredStep ==
  ASSUME TypeOK, NEW p \in Senders
  PROVE  /\ Starts(p) => Entered(p) = {} /\ Entered(p)' = {}
         /\ \A k : Calls(p, k) =>
               /\ Entered(p)' = Entered(p) \cup {k}
               /\ k \in Entered(p) <=> way[p] = "up"
         /\ \A k : Returns(p, k) =>
               /\ Entered(p)' = Entered(p) \ {k}
               /\ k \in Entered(p) <=> k # Leaf /\ way[p] = "up"
         /\ \A q \in Senders \ {p} : OthersKept(p) => Entered(q)' = Entered(q)
<1>1. /\ Len(stack) \in Nat /\ DOMAIN stack = 1 .. Len(stack)
      /\ Leaf \in Nat /\ Leaf = Len(stack) + 1 /\ Layers = 1 .. Leaf
  BY StackFacts DEF TypeOK
<1>2. Starts(p) => Entered(p) = {} /\ Entered(p)' = {}
  BY <1>1 DEF Starts, OthersKept, callerVars, Entered
<1>3. ASSUME NEW k, Calls(p, k)
      PROVE  /\ Entered(p)' = Entered(p) \cup {k}
             /\ k \in Entered(p) <=> way[p] = "up"
  <2>1. stack' = stack /\ k \in 1 .. Len(stack) /\ k = at[p] /\ at'[p] = k + 1
        /\ way'[p] = "down"
    BY <1>1, <1>3 DEF Calls, OthersKept, callerVars
  <2> QED BY <1>1, <2>1 DEF Entered
<1>4. ASSUME NEW k, Returns(p, k)
      PROVE  /\ Entered(p)' = Entered(p) \ {k}
             /\ k \in Entered(p) <=> k # Leaf /\ way[p] = "up"
  <2>1. stack' = stack /\ k \in 1 .. Leaf /\ k = at[p] /\ at'[p] = k - 1
        /\ way'[p] = "up"
    BY <1>1, <1>4 DEF Returns, OthersKept, callerVars
  <2> QED BY <1>1, <2>1 DEF Entered
<1>5. ASSUME NEW q \in Senders \ {p}, OthersKept(p)
      PROVE  Entered(q)' = Entered(q)
  BY <1>5 DEF OthersKept, callerVars, Entered
<1> QED BY <1>2, <1>3, <1>4, <1>5

\* A sender holds exactly the mutexes of the composites it is inside, and has
\* open exactly the spans of the observers it is inside, whichever way the
\* calls below it end.
THEOREM HeldInvariant == Spec => []HeldInv
<1>1. Init => HeldInv
  <2> SUFFICES ASSUME Init, NEW p \in Senders
               PROVE  /\ spans[p] = Cardinality(Observers(p))
                      /\ \A k \in Layers :
                            sendMu[k] = p <=> k \in Entered(p) /\ stack[k] = "composite"
    BY DEF HeldInv
  <2>1. Entered(p) = {}
    BY StackFacts DEF Init, Entered
  <2>2. spans[p] = 0 /\ \A k \in Layers : sendMu[k] # p
    BY SendersAssumption DEF Init
  <2> QED BY <2>1, <2>2, FS_EmptySet DEF Observers
<1>2. TypeOK /\ FramesAbove /\ HeldInv /\ [Next]_vars => HeldInv'
  <2> SUFFICES ASSUME TypeOK, FramesAbove, HeldInv, [Next]_vars PROVE HeldInv'
    OBVIOUS
  <2>1. CASE MessageID \/ UNCHANGED vars
    BY <2>1 DEF MessageID, vars, callerVars, logVars, HeldInv, Entered, Observers,
       Layers, Leaf
  <2>2. ASSUME NEW p \in Senders,
               Starts(p) \/ \E k \in Layers : Calls(p, k) \/ Returns(p, k)
        PROVE  HeldInv'
    <3>1. OthersKept(p) /\ stack' = stack /\ stack \in Stacks /\ Layers' = Layers
      BY <2>2 DEF Starts, Calls, Returns, OthersKept, callerVars, TypeOK, Layers, Leaf
    <3>2. \A q \in Senders \ {p} : Entered(q)' = Entered(q)
      BY <3>1, EnteredStep
    <3>3. \A q \in Senders \ {p} : spans'[q] = Cardinality(Observers(q)')
      BY <3>1, <3>2 DEF HeldInv, OthersKept, Observers
    <3>4. Observers(p) \in SUBSET (DOMAIN stack) /\ spans[p] = Cardinality(Observers(p))
      BY DEF Observers, Entered, HeldInv
    <3>5. spans'[p] = Cardinality(Observers(p)')
      <4>1. CASE Starts(p)
        <5>1. Observers(p)' = Observers(p)
          BY <3>1, <4>1, EnteredStep DEF Observers
        <5> QED BY <3>4, <4>1, <5>1 DEF Starts
      <4>2. ASSUME NEW k \in Layers, Calls(p, k)
            PROVE  spans'[p] = Cardinality(Observers(p)')
        <5>1. /\ Entered(p)' = Entered(p) \cup {k} /\ k \in DOMAIN stack
              /\ k \in Entered(p) <=> way[p] = "up"
          BY <4>2, EnteredStep DEF Calls
        <5>2. CASE stack[k] = "observe"
          <6>1. k \notin Observers(p) /\ Observers(p)' = Observers(p) \cup {k}
            BY <3>1, <4>2, <5>1, <5>2 DEF Observers, Calls
          <6> QED BY <3>1, <3>4, <4>2, <5>1, <5>2, <6>1, OneMore DEF Calls
        <5>3. CASE stack[k] # "observe"
          <6>1. Observers(p)' = Observers(p)
            BY <3>1, <5>1, <5>3 DEF Observers
          <6>2. spans'[p] = spans[p]
            BY <4>2, <5>3 DEF Calls, TypeOK
          <6> QED BY <3>4, <6>1, <6>2
        <5> QED BY <5>2, <5>3
      <4>3. ASSUME NEW k \in Layers, Returns(p, k)
            PROVE  spans'[p] = Cardinality(Observers(p)')
        <5>1. /\ Entered(p)' = Entered(p) \ {k}
              /\ k \in Entered(p) <=> k # Leaf /\ way[p] = "up"
          BY <4>3, EnteredStep
        <5>2. CASE k # Leaf /\ way[p] = "up" /\ stack[k] = "observe"
          <6>1. /\ k \in DOMAIN stack /\ k \in Observers(p)
                /\ Observers(p)' = Observers(p) \ {k}
            BY <3>1, <5>1, <5>2 DEF Observers, Entered
          <6> QED BY <3>1, <3>4, <4>3, <5>2, <6>1, OneMore DEF Returns
        <5>3. CASE ~(k # Leaf /\ way[p] = "up" /\ stack[k] = "observe")
          <6>1. Observers(p)' = Observers(p)
            BY <3>1, <5>1, <5>3 DEF Observers
          <6>2. spans'[p] = spans[p]
            BY <4>3, <5>3 DEF Returns, TypeOK
          <6> QED BY <3>4, <6>1, <6>2
        <5> QED BY <5>2, <5>3
      <4> QED BY <2>2, <4>1, <4>2, <4>3
    <3>6. ASSUME NEW q \in Senders, NEW j \in Layers
          PROVE  sendMu'[j] = q <=> j \in Entered(q)' /\ stack[j] = "composite"
      <4>1. \A r \in Senders :
               sendMu[j] = r <=> j \in Entered(r) /\ stack[j] = "composite"
        BY DEF HeldInv
      <4>2. CASE Starts(p)
        BY <3>2, <4>1, <4>2, EnteredStep DEF Starts
      <4>3. ASSUME NEW k \in Layers, Calls(p, k)
            PROVE  sendMu'[j] = q <=> j \in Entered(q)' /\ stack[j] = "composite"
        <5>1. /\ Entered(p)' = Entered(p) \cup {k}
              /\ k \in Entered(p) <=> way[p] = "up"
          BY <4>3, EnteredStep
        <5>2. CASE stack[k] = "composite" /\ way[p] = "down"
          <6>1. sendMu[k] = Nobody /\ sendMu' = [sendMu EXCEPT ![k] = p]
            BY <4>3, <5>2 DEF Calls
          <6> QED BY <3>2, <4>1, <5>1, <5>2, <6>1, SendersAssumption DEF TypeOK
        <5>3. CASE ~(stack[k] = "composite" /\ way[p] = "down")
          <6>1. sendMu' = sendMu
            BY <4>3, <5>3 DEF Calls
          <6>2. stack[k] = "composite" => k \in Entered(p)
            BY <5>1, <5>3 DEF TypeOK
          <6> QED BY <3>2, <4>1, <5>1, <6>1, <6>2
        <5> QED BY <5>2, <5>3
      <4>4. ASSUME NEW k \in Layers, Returns(p, k)
            PROVE  sendMu'[j] = q <=> j \in Entered(q)' /\ stack[j] = "composite"
        <5>1. /\ Entered(p)' = Entered(p) \ {k}
              /\ k \in Entered(p) <=> k # Leaf /\ way[p] = "up"
          BY <4>4, EnteredStep
        <5>2. CASE k # Leaf /\ stack[k] = "composite" /\ way[p] = "up"
          <6>1. sendMu' = [sendMu EXCEPT ![k] = Nobody]
            BY <4>4, <5>2 DEF Returns
          <6>2. k = j => sendMu[j] = p
            BY <4>1, <5>1, <5>2
          <6> QED BY <3>2, <4>1, <5>1, <5>2, <6>1, <6>2, SendersAssumption DEF TypeOK
        <5>3. CASE ~(k # Leaf /\ stack[k] = "composite" /\ way[p] = "up")
          <6>1. sendMu' = sendMu
            BY <4>4, <5>3 DEF Returns
          <6> QED BY <3>2, <4>1, <5>1, <5>3, <6>1
        <5> QED BY <5>2, <5>3
      <4> QED BY <2>2, <4>2, <4>3, <4>4
    <3> QED BY <3>1, <3>3, <3>5, <3>6 DEF HeldInv
  <2> QED BY <2>1, <2>2, StepShape DEF Shape
<1> QED BY <1>1, <1>2, TypeCorrect, PTL DEF Spec

\* A Send that has returned holds no mutex of a composite and has no span open.
THEOREM NothingStaysHeld == Spec => []NothingHeld
<1>1. TypeOK /\ HeldInv => NothingHeld
  <2> SUFFICES ASSUME TypeOK, HeldInv, NEW p \in Senders, at[p] = 0
               PROVE  spans[p] = 0 /\ \A k \in Layers : sendMu[k] # p
    BY DEF NothingHeld
  <2>1. Entered(p) = {}
    BY StackFacts DEF Entered, TypeOK
  <2>2. Observers(p) = {}
    BY <2>1 DEF Observers
  <2> QED BY <2>1, <2>2, FS_EmptySet DEF HeldInv
<1> QED BY <1>1, HeldInvariant, TypeCorrect, PTL

------------------------------------------------------------------------------
(* Frames and deliveries, before and after a step.                         *)

\* A step of a call of sender p.
CallStep(p) == Starts(p) \/ \E k \in Layers : Calls(p, k) \/ Returns(p, k)

\* The frame of layer k of q was there before the step, with the same contents.
OldFrame(q, k) ==
    /\ k \in 1 .. at[q] /\ args'[q][k] = args[q][k]
    /\ args[q][k].msg # Raw => MsgIn(q, k)' = MsgIn(q, k)
    /\ args[q][k].env # Nil => EnvIn(q, k)' = EnvIn(q, k)

\* Frames whose objects are kept are old frames.
LEMMA KeptFrames ==
  ASSUME TypeOK, FramesAbove, NEW q \in Senders, NEW n \in 0 .. at[q], Kept(q, n),
         UNCHANGED callerVars, NEW k \in 1 .. n
  PROVE  OldFrame(q, k)
<1>1. /\ Leaf \in Nat /\ Layers = 1 .. Leaf /\ at[q] \in 0 .. Leaf /\ k \in Layers
      /\ k \in 1 .. at[q] /\ k \in Nat /\ n \in Nat /\ k <= n
  BY StackFacts DEF TypeOK
<1>2. args[q][k].msg \in -1 .. k - 1 /\ args[q][k].env \in -1 .. k - 1
  BY <1>1 DEF FramesAbove, Above
<1>3. args'[q][k] = args[q][k] /\ message' = message /\ envelope' = envelope
  BY DEF Kept, callerVars
<1>4. \A a \in 1 .. k - 1 : own'[q][a] = own[q][a]
  <2>1. \A a \in 1 .. k - 1 : a \in Layers /\ a < n
    BY <1>1
  <2> QED BY <2>1 DEF Kept
<1>5. args[q][k].msg # Raw => MsgIn(q, k)' = MsgIn(q, k)
  <2> SUFFICES ASSUME args[q][k].msg # Raw PROVE MsgIn(q, k)' = MsgIn(q, k)
    OBVIOUS
  <2>1. args[q][k].msg = 0 \/ args[q][k].msg \in 1 .. k - 1
    BY <1>1, <1>2 DEF Raw
  <2> QED BY <1>3, <1>4, <2>1 DEF MsgIn, MsgAt
<1>6. args[q][k].env # Nil => EnvIn(q, k)' = EnvIn(q, k)
  <2> SUFFICES ASSUME args[q][k].env # Nil PROVE EnvIn(q, k)' = EnvIn(q, k)
    OBVIOUS
  <2>1. args[q][k].env = 0 \/ args[q][k].env \in 1 .. k - 1
    BY <1>1, <1>2 DEF Nil
  <2> QED BY <1>3, <1>4, <2>1 DEF EnvIn, EnvAt
<1> QED BY <1>1, <1>3, <1>5, <1>6 DEF OldFrame

\* Every frame after a step is an old one, the first of a new call, or the one
\* a layer has just handed on.
LEMMA FrameStep ==
  ASSUME TypeOK, FramesAbove, NEW p \in Senders, CallStep(p),
         NEW q \in Senders, NEW k \in 1 .. at'[q]
  PROVE  \/ OldFrame(q, k)
         \/ q = p /\ k = 1 /\ Starts(p)
         \/ q = p /\ \E j \in Layers : k = j + 1 /\ Calls(p, j)
<1>1. OthersKept(p)
  BY DEF CallStep, Starts, Calls, Returns
<1>2. UNCHANGED callerVars
  BY <1>1 DEF OthersKept
<1>3. Leaf \in Nat /\ Layers = 1 .. Leaf /\ \A r \in Senders : at[r] \in 0 .. Leaf
  BY StackFacts DEF TypeOK
<1>4. CASE q # p
  <2>1. at'[q] = at[q] /\ Kept(q, at[q])
    BY <1>1, <1>4 DEF OthersKept, Kept
  <2>2. at[q] \in 0 .. at[q]
    BY <1>3
  <2> QED BY <1>2, <2>1, <2>2, KeptFrames
<1>5. CASE q = p /\ Starts(p)
  <2>1. k \in 1 .. 1
    BY <1>5 DEF Starts
  <2> QED BY <1>5, <2>1
<1>6. ASSUME NEW j \in Layers, Calls(p, j), q = p
      PROVE  OldFrame(q, k) \/ k = j + 1
  <2>1. j = at[p] /\ at'[p] = j + 1 /\ Kept(p, j) /\ j \in 0 .. at[p]
    BY <1>3, <1>6 DEF Calls
  <2>2. k \in 1 .. j \/ k = j + 1
    BY <1>3, <1>6, <2>1
  <2> QED BY <1>2, <1>6, <2>1, <2>2, KeptFrames
<1>7. ASSUME NEW j \in Layers, Returns(p, j), q = p
      PROVE  OldFrame(q, k)
  <2>1. j = at[p] /\ at'[p] = j - 1 /\ Kept(p, j - 1) /\ j - 1 \in 0 .. at[p]
    BY <1>3, <1>7 DEF Returns
  <2> QED BY <1>2, <1>7, <2>1, KeptFrames
<1> QED BY <1>4, <1>5, <1>6, <1>7 DEF CallStep

\* Every delivery after a step is an old one, or that of the leaf that returns.
LEMMA DeliveredStep ==
  ASSUME TypeOK, ReportInv, NEW p \in Senders, CallStep(p),
         NEW q \in Senders, NEW d \in Delivered(q)'
  PROVE  \/ d \in Delivered(q) /\ sealed'[q] = sealed[q]
         \/ /\ q = p /\ at[p] = Leaf /\ ~NoEnvelope(p) /\ d = Parcel(p, Leaf)
            /\ sealed'[q] = sealed[q]
<1>1. CASE q # p
  <2>1. wire'[q] = wire[q] /\ sealed'[q] = sealed[q]
    BY <1>1 DEF CallStep, Starts, Calls, Returns, OthersKept
  <2> QED BY <2>1 DEF Delivered
<1>2. CASE Starts(p) /\ q = p
  <2>1. \A i : i \notin DOMAIN wire'[q]
    BY <1>2 DEF Starts
  <2> QED BY <2>1 DEF Delivered
<1>3. ASSUME NEW k \in Layers, Calls(p, k), q = p
      PROVE  d \in Delivered(q) /\ sealed'[q] = sealed[q]
  BY <1>3 DEF Calls, Delivered
<1>4. ASSUME NEW k \in Layers, Returns(p, k), q = p
      PROVE  \/ d \in Delivered(q) /\ sealed'[q] = sealed[q]
             \/ /\ at[p] = Leaf /\ ~NoEnvelope(p) /\ d = Parcel(p, Leaf)
                /\ sealed'[q] = sealed[q]
  <2>1. CASE wire'[p] = wire[p]
    BY <1>4, <2>1 DEF Returns, Delivered
  <2>2. CASE wire'[p] # wire[p]
    <3>1. /\ way[p] = "down" /\ k = Leaf /\ at[p] = Leaf /\ ~NoEnvelope(p)
          /\ wire'[p] = Append(wire[p], Parcel(p, Leaf)) /\ sealed'[p] = sealed[p]
      BY <1>4, <2>2 DEF Returns
    <3>2. wire[p] = <<>>
      BY <3>1 DEF ReportInv
    <3>3. \A x : Append(<<>>, x) = <<x>> /\ \A i \in DOMAIN <<x>> : <<x>>[i] = x
      OBVIOUS
    <3>4. d = Parcel(p, Leaf)
      BY <1>4, <3>1, <3>2, <3>3 DEF Delivered
    <3> QED BY <1>4, <3>1, <3>4
  <2> QED BY <2>1, <2>2
<1> QED BY <1>1, <1>2, <1>3, <1>4 DEF CallStep

\* What the leaf delivers is what it was handed.
LEMMA ParcelIsHanded ==
  ASSUME TypeOK, FramesAbove, NEW p \in Senders, at[p] = Leaf, ~NoEnvelope(p)
  PROVE  LET d == Parcel(p, Leaf)
             f == args[p][Leaf]
         IN  /\ d.raw = (f.msg = Raw) /\ d.to = target[p]
             /\ f.msg # Raw => /\ d.route = MsgIn(p, Leaf).route
                               /\ d.edits = MsgIn(p, Leaf).edits
                               /\ MsgIn(p, Leaf).id = "caller" => d.id = "caller"
             /\ f.msg = Raw => d.route = NoName
             /\ d.envEdits = IF f.env = Nil THEN 0 ELSE EnvIn(p, Leaf).edits
<1>1. Leaf \in Layers /\ Msg(p) = args[p][Leaf].msg /\ Env(p) = args[p][Leaf].env
  BY StackFacts DEF TypeOK, Msg, Env
<1>2. /\ Msg(p) # Raw => CopyArgs(p).msg = MsgIn(p, Leaf)
      /\ CopyArgs(p).env.edits = IF Env(p) = Nil THEN 0 ELSE EnvIn(p, Leaf).edits
  BY <1>1, Handed
<1>3. Msg(p) = Raw => CopyArgs(p).msg.route = NoName
  BY DEF CopyArgs, Blank
<1> QED BY <1>1, <1>2, <1>3 DEF Parcel, SealedID

\* The caller asks for the Message-ID: frames and deliveries stay, and only the
\* identity of what they refer to may change.
LEMMA MessageIDStep ==
  ASSUME TypeOK, MessageID
  PROVE  /\ message'.edits = message.edits /\ message'.route = message.route
         /\ message'.id = "caller"
         /\ UNCHANGED <<stack, envelope, sendMu, at, way, args, own, tries>>
         /\ UNCHANGED <<target, spans, wire, sealed, result>>
         /\ \A q \in Senders : \A k \in Layers :
               /\ MsgIn(q, k)'.edits = MsgIn(q, k).edits
               /\ MsgIn(q, k)'.route = MsgIn(q, k).route
               /\ MsgIn(q, k)'.id \in {MsgIn(q, k).id, "caller"}
               /\ EnvIn(q, k)' = EnvIn(q, k)
<1>1. message' = [message EXCEPT !.id = "caller"]
  BY DEF MessageID
<1>2. /\ UNCHANGED <<stack, envelope, sendMu, at, way, args, own, tries>>
      /\ UNCHANGED <<target, spans, wire, sealed, result>>
  BY DEF MessageID, frameVars, logVars
<1>3. message'.edits = message.edits /\ message'.route = message.route
      /\ message'.id = "caller"
  BY <1>1 DEF TypeOK, Message
<1> QED BY <1>2, <1>3 DEF MsgIn, EnvIn, MsgAt, EnvAt

------------------------------------------------------------------------------
(* Edits.                                                                  *)

\* The hooks above a layer, from one layer to the next.
LEMMA HooksStep ==
  ASSUME stack \in Stacks
  PROVE  /\ Cardinality(HooksAbove(1)) = 0
         /\ Cardinality(HooksAbove(Leaf)) = Count("before")
         /\ \A k \in DOMAIN stack :
               Cardinality(HooksAbove(k + 1)) = Cardinality(HooksAbove(k)) + Hook(k)
         /\ \A k : Cardinality(HooksAbove(k)) \in Nat
<1>1. /\ Len(stack) \in Nat /\ DOMAIN stack = 1 .. Len(stack)
      /\ Leaf \in Nat /\ Leaf = Len(stack) + 1
  BY StackFacts
<1>2. HooksAbove(1) = {}
  BY <1>1 DEF HooksAbove
<1>3. HooksAbove(Leaf) = {k \in DOMAIN stack : stack[k] = "before"}
  BY <1>1 DEF HooksAbove
<1>4. ASSUME NEW k \in DOMAIN stack
      PROVE  Cardinality(HooksAbove(k + 1)) = Cardinality(HooksAbove(k)) + Hook(k)
  <2>1. k \in Nat /\ k \notin HooksAbove(k) /\ HooksAbove(k) \in SUBSET (DOMAIN stack)
    BY <1>1 DEF HooksAbove
  <2>2. CASE stack[k] = "before"
    <3>1. HooksAbove(k + 1) = HooksAbove(k) \cup {k}
      BY <1>1, <2>2 DEF HooksAbove
    <3> QED BY <2>1, <2>2, <3>1, OneMore DEF Hook
  <2>3. CASE stack[k] # "before"
    <3>1. HooksAbove(k + 1) = HooksAbove(k)
      BY <1>1, <2>3 DEF HooksAbove
    <3>2. Cardinality(HooksAbove(k)) \in Nat
      BY <2>1, LayersFinite
    <3> QED BY <2>3, <3>1, <3>2 DEF Hook
  <2> QED BY <2>2, <2>3
<1>5. ASSUME NEW k PROVE Cardinality(HooksAbove(k)) \in Nat
  <2>1. HooksAbove(k) \in SUBSET (DOMAIN stack)
    BY DEF HooksAbove
  <2> QED BY <2>1, LayersFinite
<1> QED BY <1>2, <1>3, <1>4, <1>5, FS_EmptySet DEF Count

\* What every layer was handed has been edited once by each hook above it, and
\* so has what is delivered, whatever was tried or sent before.
THEOREM EditInvariant == Spec => []EditInv
<1>1. Init => EditInv
  <2> SUFFICES ASSUME Init PROVE EditInv
    OBVIOUS
  <2>1. \A p \in Senders : 1 .. at[p] = {} /\ Delivered(p) = {}
    BY DEF Init, Delivered
  <2>2. message.edits = 0 /\ envelope.edits = 0
    BY DEF Init
  <2> QED BY <2>1, <2>2 DEF EditInv, EditedOnce
<1>2. TypeOK /\ FramesAbove /\ ReportInv /\ EditInv /\ [Next]_vars => EditInv'
  <2> SUFFICES ASSUME TypeOK, FramesAbove, ReportInv, EditInv, [Next]_vars
               PROVE  EditInv'
    OBVIOUS
  <2>0. /\ stack \in Stacks /\ Leaf \in Nat /\ Layers = 1 .. Leaf
        /\ \A q \in Senders : at[q] \in 0 .. Leaf /\ 1 .. at[q] \subseteq Layers
    BY StackFacts DEF TypeOK
  <2>1. CASE MessageID
    <3>1. \A q \in Senders : \A k \in 1 .. at[q] :
             /\ MsgIn(q, k)'.edits = MsgIn(q, k).edits /\ EnvIn(q, k)' = EnvIn(q, k)
      BY <2>0, <2>1, MessageIDStep
    <3>2. /\ message'.edits = message.edits
          /\ UNCHANGED <<stack, envelope, at, args, wire>>
      BY <2>1, MessageIDStep
    <3>3. EditedOnce' /\ \A k : HooksAbove(k)' = HooksAbove(k)
      BY <3>2 DEF EditInv, EditedOnce, Delivered, Count, HooksAbove
    <3> QED BY <3>1, <3>2, <3>3 DEF EditInv
  <2>2. CASE UNCHANGED vars
    <3>1. UNCHANGED <<stack, message, envelope, at, args, own, wire>>
      BY <2>2 DEF vars, callerVars, frameVars, logVars
    <3>2. EditedOnce' /\ \A k : HooksAbove(k)' = HooksAbove(k)
      BY <3>1 DEF EditInv, EditedOnce, Delivered, Count, HooksAbove
    <3>3. \A q, k : MsgIn(q, k)' = MsgIn(q, k) /\ EnvIn(q, k)' = EnvIn(q, k)
      BY <3>1 DEF MsgIn, EnvIn, MsgAt, EnvAt
    <3> QED BY <3>1, <3>2, <3>3 DEF EditInv
  <2>3. ASSUME NEW p \in Senders, CallStep(p) PROVE EditInv'
    <3>1. UNCHANGED callerVars
      BY <2>3 DEF CallStep, Starts, Calls, Returns, OthersKept
    <3>2. /\ message'.edits = 0 /\ envelope'.edits = 0
          /\ Count("before")' = Count("before")
          /\ \A k : HooksAbove(k)' = HooksAbove(k)
      BY <3>1 DEF callerVars, EditInv, Count, HooksAbove
    <3>3. ASSUME NEW q \in Senders, NEW k \in 1 .. at'[q]
          PROVE  /\ args'[q][k].msg # Raw =>
                       MsgIn(q, k)'.edits = Cardinality(HooksAbove(k))
                 /\ Cardinality(HooksAbove(k)) =
                       IF args'[q][k].env = Nil THEN 0 ELSE EnvIn(q, k)'.edits
      <4>1. CASE OldFrame(q, k)
        BY <4>1 DEF OldFrame, EditInv
      <4>2. CASE k = 1 /\ q = p /\ Starts(p)
        <5>1. args'[p][1].msg \in {0, Raw} /\ args'[p][1].env \in {0, Nil}
          BY <4>2 DEF Starts
        <5>2. /\ args'[p][1].msg # Raw => MsgIn(p, 1)' = message'
              /\ args'[p][1].env # Nil => EnvIn(p, 1)' = envelope'
          BY <5>1 DEF MsgIn, EnvIn, MsgAt, EnvAt
        <5> QED BY <2>0, <3>2, <4>2, <5>2, HooksStep
      <4>3. ASSUME NEW j \in Layers, k = j + 1, Calls(p, j), q = p
            PROVE  /\ args'[q][k].msg # Raw =>
                         MsgIn(q, k)'.edits = Cardinality(HooksAbove(k))
                   /\ Cardinality(HooksAbove(k)) =
                         IF args'[q][k].env = Nil THEN 0 ELSE EnvIn(q, k)'.edits
        <5>1. j \in DOMAIN stack /\ j \in 1 .. at[p] /\ HandedOn(p, j)
          BY <2>0, <4>3 DEF Calls
        <5>2. /\ args[p][j].msg # Raw =>
                    MsgIn(p, j).edits = Cardinality(HooksAbove(j))
              /\ Cardinality(HooksAbove(j)) =
                    IF args[p][j].env = Nil THEN 0 ELSE EnvIn(p, j).edits
          BY <5>1 DEF EditInv
        <5>3. Cardinality(HooksAbove(j + 1)) = Cardinality(HooksAbove(j)) + Hook(j)
              /\ Cardinality(HooksAbove(j)) \in Nat
          BY <2>0, <5>1, HooksStep
        <5> QED BY <4>3, <5>1, <5>2, <5>3 DEF HandedOn
      <4> QED BY <2>3, <4>1, <4>2, <4>3, FrameStep
    <3>4. ASSUME NEW q \in Senders, NEW d \in Delivered(q)'
          PROVE  d.envEdits = Count("before") /\ (~d.raw => d.edits = Count("before"))
      <4>1. CASE d \in Delivered(q)
        BY <4>1 DEF EditInv, EditedOnce
      <4>2. CASE q = p /\ at[p] = Leaf /\ ~NoEnvelope(p) /\ d = Parcel(p, Leaf)
        <5>1. Leaf \in 1 .. at[p] /\ Cardinality(HooksAbove(Leaf)) = Count("before")
          BY <2>0, <4>2, StackFacts, HooksStep
        <5>2. /\ args[p][Leaf].msg # Raw =>
                    MsgIn(p, Leaf).edits = Cardinality(HooksAbove(Leaf))
              /\ Cardinality(HooksAbove(Leaf)) =
                    IF args[p][Leaf].env = Nil THEN 0 ELSE EnvIn(p, Leaf).edits
          BY <5>1 DEF EditInv
        <5>3. /\ d.raw = (args[p][Leaf].msg = Raw)
              /\ args[p][Leaf].msg # Raw => d.edits = MsgIn(p, Leaf).edits
              /\ d.envEdits = IF args[p][Leaf].env = Nil THEN 0
                              ELSE EnvIn(p, Leaf).edits
          BY <4>2, ParcelIsHanded
        <5> QED BY <5>1, <5>2, <5>3
      <4> QED BY <2>3, <4>1, <4>2, DeliveredStep
    <3>5. EditedOnce'
      BY <3>2, <3>4 DEF EditedOnce
    <3> QED BY <3>2, <3>3, <3>5 DEF EditInv
  <2> QED BY <2>1, <2>2, <2>3, StepShape DEF Shape, CallStep
<1> QED BY <1>1, <1>2, TypeCorrect, ReportInvariant, PTL DEF Spec

\* Each hook's edits reach the wire exactly once.
THEOREM HooksEditOnce == Spec => []EditedOnce
<1>1. EditInv => EditedOnce
  BY DEF EditInv
<1> QED BY <1>1, EditInvariant, PTL

------------------------------------------------------------------------------
(* Message-IDs.                                                            *)

\* A Message-ID that the caller has seen before the call is that of every copy
\* a layer was handed, and of what is delivered.
THEOREM SealInvariant == Spec => []SealInv
<1>1. Init => SealInv
  <2> SUFFICES ASSUME Init PROVE SealInv
    OBVIOUS
  <2>1. \A p \in Senders : ~sealed[p] /\ Delivered(p) = {}
    BY DEF Init, Delivered
  <2> QED BY <2>1 DEF SealInv, SeenIDIsSent
<1>2. TypeOK /\ FramesAbove /\ ReportInv /\ SealInv /\ [Next]_vars => SealInv'
  <2> SUFFICES ASSUME TypeOK, FramesAbove, ReportInv, SealInv, [Next]_vars
               PROVE  SealInv'
    OBVIOUS
  <2>0. /\ stack \in Stacks /\ Leaf \in Nat /\ Layers = 1 .. Leaf
        /\ \A q \in Senders : at[q] \in 0 .. Leaf /\ 1 .. at[q] \subseteq Layers
    BY StackFacts DEF TypeOK
  <2>1. CASE MessageID
    <3>1. \A q \in Senders : \A k \in 1 .. at[q] :
             MsgIn(q, k)'.id \in {MsgIn(q, k).id, "caller"}
      BY <2>0, <2>1, MessageIDStep
    <3>2. message'.id = "caller" /\ UNCHANGED <<at, args, wire, sealed>>
      BY <2>1, MessageIDStep
    <3>3. SeenIDIsSent'
      BY <3>2 DEF SealInv, SeenIDIsSent, Delivered
    <3> QED BY <3>1, <3>2, <3>3 DEF SealInv
  <2>2. CASE UNCHANGED vars
    <3>1. UNCHANGED <<message, at, args, own, wire, sealed>>
      BY <2>2 DEF vars, callerVars, frameVars, logVars
    <3>2. SeenIDIsSent'
      BY <3>1 DEF SealInv, SeenIDIsSent, Delivered
    <3>3. \A q, k : MsgIn(q, k)' = MsgIn(q, k)
      BY <3>1 DEF MsgIn, MsgAt
    <3> QED BY <3>1, <3>2, <3>3 DEF SealInv
  <2>3. ASSUME NEW p \in Senders, CallStep(p) PROVE SealInv'
    <3>1. message' = message
      BY <2>3 DEF CallStep, Starts, Calls, Returns, OthersKept, callerVars
    <3>2. ASSUME NEW q \in Senders
          PROVE  \/ sealed'[q] = sealed[q]
                 \/ q = p /\ Starts(p) /\ sealed'[q] = (message.id = "caller")
      BY <2>3 DEF CallStep, Starts, Calls, Returns, OthersKept
    <3>3. ASSUME NEW q \in Senders, sealed'[q] PROVE message'.id = "caller"
      BY <3>1, <3>2, <3>3 DEF SealInv
    <3>4. ASSUME NEW q \in Senders, sealed'[q], NEW k \in 1 .. at'[q],
                 args'[q][k].msg # Raw
          PROVE  MsgIn(q, k)'.id = "caller"
      <4>1. CASE q = p /\ Starts(p)
        <5>1. k = 1 /\ args'[p][1].msg = 0
          BY <3>4, <4>1 DEF Starts
        <5>2. MsgIn(p, 1)' = message'
          BY <5>1 DEF MsgIn, MsgAt
        <5> QED BY <3>3, <3>4, <4>1, <5>1, <5>2
      <4>2. CASE ~(q = p /\ Starts(p))
        <5>1. sealed[q]
          BY <3>2, <3>4, <4>2
        <5>2. CASE OldFrame(q, k)
          BY <3>4, <5>1, <5>2 DEF OldFrame, SealInv
        <5>3. ASSUME NEW j \in Layers, k = j + 1, Calls(p, j), q = p
              PROVE  MsgIn(q, k)'.id = "caller"
          <6>1. j \in 1 .. at[p] /\ HandedOn(p, j)
            BY <2>0, <5>3 DEF Calls
          <6>2. args[p][j].msg # Raw
            BY <3>4, <5>3, <6>1 DEF HandedOn
          <6>3. MsgIn(p, j).id = "caller"
            BY <5>1, <5>3, <6>1, <6>2 DEF SealInv
          <6> QED BY <5>3, <6>1, <6>2, <6>3 DEF HandedOn
        <5> QED BY <2>3, <4>2, <5>2, <5>3, FrameStep
      <4> QED BY <4>1, <4>2
    <3>5. ASSUME NEW q \in Senders, NEW d \in Delivered(q)', sealed'[q], ~d.raw
          PROVE  d.id = "caller"
      <4>1. CASE d \in Delivered(q) /\ sealed[q]
        BY <3>5, <4>1 DEF SealInv, SeenIDIsSent
      <4>2. CASE /\ q = p /\ at[p] = Leaf /\ ~NoEnvelope(p) /\ d = Parcel(p, Leaf)
                 /\ sealed[q]
        <5>1. Leaf \in 1 .. at[p]
          BY <2>0, <4>2, StackFacts
        <5>2. /\ d.raw = (args[p][Leaf].msg = Raw)
              /\ args[p][Leaf].msg # Raw /\ MsgIn(p, Leaf).id = "caller" =>
                    d.id = "caller"
          BY <4>2, ParcelIsHanded
        <5> QED BY <3>5, <4>2, <5>1, <5>2 DEF SealInv
      <4> QED BY <2>3, <3>5, <4>1, <4>2, DeliveredStep
    <3>6. SeenIDIsSent'
      BY <3>5 DEF SeenIDIsSent
    <3> QED BY <3>3, <3>4, <3>6 DEF SealInv
  <2> QED BY <2>1, <2>2, <2>3, StepShape DEF Shape, CallStep
<1> QED BY <1>1, <1>2, TypeCorrect, ReportInvariant, PTL DEF Spec

\* A Message-ID the caller has seen before the call is the one that is sent, on
\* every attempt.
THEOREM SeenIDReachesWire == Spec => []SeenIDIsSent
<1>1. SealInv => SeenIDIsSent
  BY DEF SealInv
<1> QED BY <1>1, SealInvariant, PTL

------------------------------------------------------------------------------
(* Routing.                                                                *)

\* A message passes at most one router.  (A router reads and removes the header,
\* so a router behind it sends everything to its own default transport.)
OneRouter ==
    \A s \in Stacks : \A i, j \in DOMAIN s :
       s[i] = "route" /\ s[j] = "route" => i = j

\* The caller's header is what the router reads, whatever was tried before, and
\* its choice is the one the leaf is called for.
THEOREM RouteInvariant == ASSUME OneRouter PROVE Spec => []RouteInv
<1>1. Init => RouteInv
  <2> SUFFICES ASSUME Init PROVE RouteInv
    OBVIOUS
  <2>1. \A p \in Senders : 1 .. at[p] = {} /\ Delivered(p) = {}
    BY DEF Init, Delivered
  <2>2. \A p \in Senders : Entered(p) = {}
    BY StackFacts DEF Init, Entered
  <2> QED BY <2>1, <2>2 DEF RouteInv, RoutedAsAddressed
<1>2. TypeOK /\ FramesAbove /\ ReportInv /\ CallerObjectsKept /\ RouteInv
         /\ [Next]_vars => RouteInv'
  <2> SUFFICES ASSUME TypeOK, FramesAbove, ReportInv, CallerObjectsKept, RouteInv,
                      [Next]_vars
               PROVE  RouteInv'
    OBVIOUS
  <2>0. /\ stack \in Stacks /\ Leaf \in Nat /\ Layers = 1 .. Leaf
        /\ DOMAIN stack = 1 .. Len(stack) /\ Len(stack) \in Nat
        /\ Leaf = Len(stack) + 1
        /\ \A q \in Senders : at[q] \in 0 .. Leaf /\ 1 .. at[q] \subseteq Layers
    BY StackFacts DEF TypeOK
  <2>built. built.msg.route = message.route
    BY DEF CallerObjectsKept
  <2>1. CASE MessageID
    <3>1. \A q \in Senders : \A k \in 1 .. at[q] :
             MsgIn(q, k)'.route = MsgIn(q, k).route
      BY <2>0, <2>1, MessageIDStep
    <3>2. /\ message'.route = message.route
          /\ UNCHANGED <<stack, at, way, args, wire, target>>
      BY <2>1, MessageIDStep
    <3>3. built'.msg.route = built.msg.route
      <4>1. built' = [msg |-> message', env |-> envelope']
        BY <2>1 DEF MessageID, CallerObjectsKept, TypeOK, Message
      <4> QED BY <2>built, <3>2, <4>1
    <3>4. /\ RoutedAsAddressed' /\ \A k : Routed(k)' = Routed(k)
          /\ \A q \in Senders : Entered(q)' = Entered(q) /\ Addressed(q)' = Addressed(q)
      BY <3>2, <3>3 DEF RouteInv, RoutedAsAddressed, Delivered, Count, Routed,
         Entered, Addressed
    <3> QED BY <3>1, <3>2, <3>4 DEF RouteInv
  <2>2. CASE UNCHANGED vars
    <3>1. UNCHANGED <<stack, message, built, at, way, args, own, wire, target>>
      BY <2>2 DEF vars, callerVars, frameVars, logVars
    <3>2. /\ RoutedAsAddressed' /\ \A k : Routed(k)' = Routed(k)
          /\ \A q \in Senders : Entered(q)' = Entered(q) /\ Addressed(q)' = Addressed(q)
      BY <3>1 DEF RouteInv, RoutedAsAddressed, Delivered, Count, Routed, Entered,
         Addressed
    <3>3. \A q, k : MsgIn(q, k)' = MsgIn(q, k)
      BY <3>1 DEF MsgIn, MsgAt
    <3> QED BY <3>1, <3>2, <3>3 DEF RouteInv
  <2>3. ASSUME NEW p \in Senders, CallStep(p) PROVE RouteInv'
    <3>1. OthersKept(p) /\ UNCHANGED callerVars
      BY <2>3 DEF CallStep, Starts, Calls, Returns, OthersKept
    <3>2. /\ stack' = stack /\ message' = message /\ built' = built
          /\ Count("route")' = Count("route") /\ \A k : Routed(k)' = Routed(k)
      BY <3>1 DEF callerVars, Count, Routed
    <3>3. ~Routed(1) /\ \A j \in DOMAIN stack :
             Routed(j + 1) <=> Routed(j) \/ stack[j] = "route"
      BY <2>0 DEF Routed
    <3>4. ASSUME NEW j \in DOMAIN stack, stack[j] = "route" PROVE ~Routed(j)
      BY <2>0, <3>4 DEF OneRouter, Routed
    <3>first. ASSUME NEW q \in Senders, 1 \in 1 .. at'[q], ~Starts(p) \/ q # p
              PROVE  args'[q][1] = args[q][1]
      <4>1. \A j \in Layers : j + 1 # 1
        BY <2>0
      <4> QED BY <2>3, <3>first, <4>1, FrameStep DEF OldFrame
    <3>5. ASSUME NEW q \in Senders, NEW k \in 1 .. at'[q]
          PROVE  /\ args'[q][k].msg = Raw <=> args'[q][1].msg = Raw
                 /\ args'[q][k].msg # Raw =>
                       MsgIn(q, k)'.route = IF Routed(k) THEN NoName
                                            ELSE message.route
      <4>1. CASE q = p /\ Starts(p)
        <5>1. k = 1 /\ args'[p][1].msg \in {0, Raw}
          BY <4>1 DEF Starts
        <5>2. args'[p][1].msg # Raw => MsgIn(p, 1)' = message'
          BY <5>1 DEF MsgIn, MsgAt
        <5> QED BY <3>2, <3>3, <4>1, <5>1, <5>2
      <4>2. CASE ~(q = p /\ Starts(p))
        <5>1. 1 \in 1 .. at'[q] /\ args'[q][1] = args[q][1]
          <6>1. 1 \in 1 .. at'[q]
            <7>1. at'[q] \in Int
              <8>1. at'[q] = at[q] \/ at'[q] = at[q] + 1 \/ at'[q] = at[q] - 1
                    \/ at'[q] = 1
                BY <2>3 DEF CallStep, Starts, Calls, Returns, OthersKept
              <8> QED BY <2>0, <8>1
            <7> QED BY <7>1
          <6> QED BY <3>first, <4>2, <6>1
        <5>2. CASE OldFrame(q, k)
          BY <5>1, <5>2 DEF OldFrame, RouteInv
        <5>3. ASSUME NEW j \in Layers, k = j + 1, Calls(p, j), q = p
              PROVE  /\ args'[q][k].msg = Raw <=> args'[q][1].msg = Raw
                     /\ args'[q][k].msg # Raw =>
                           MsgIn(q, k)'.route = IF Routed(k) THEN NoName
                                                ELSE message.route
          <6>1. j \in DOMAIN stack /\ j \in 1 .. at[p] /\ HandedOn(p, j)
            BY <2>0, <5>3 DEF Calls
          <6>2. /\ args[p][j].msg = Raw <=> args[p][1].msg = Raw
                /\ args[p][j].msg # Raw =>
                      MsgIn(p, j).route = IF Routed(j) THEN NoName ELSE message.route
            BY <6>1 DEF RouteInv
          <6> QED BY <3>3, <5>1, <5>3, <6>1, <6>2 DEF HandedOn
        <5> QED BY <2>3, <4>2, <5>2, <5>3, FrameStep
      <4> QED BY <4>1, <4>2
    <3>6. ASSUME NEW q \in Senders, NEW k \in Entered(q)', stack[k] = "route"
          PROVE  target'[q] = Addressed(q)'
      <4>1. CASE q # p
        <5>1. k \in Entered(q) /\ target'[q] = target[q] /\ args'[q] = args[q]
          BY <3>1, <4>1, EnteredStep, <3>6 DEF OthersKept
        <5> QED BY <3>2, <3>6, <5>1 DEF RouteInv, Addressed
      <4>2. CASE q = p /\ Starts(p)
        BY <3>6, <4>2, EnteredStep
      <4>3. ASSUME NEW j \in Layers, Calls(p, j), q = p
            PROVE  target'[q] = Addressed(q)'
        <5>1. j \in DOMAIN stack /\ j \in 1 .. at[p] /\ 1 \in 1 .. j /\ Kept(p, j)
          BY <2>0, <4>3 DEF Calls
        <5>2. Addressed(p)' = Addressed(p)
          BY <3>2, <5>1 DEF Kept, Addressed
        <5>3. CASE stack[j] = "route"
          <6>1. target'[p] = Choice(p, j)
            BY <4>3, <5>3 DEF Calls
          <6>2. /\ args[p][j].msg = Raw <=> args[p][1].msg = Raw
                /\ args[p][j].msg # Raw => MsgIn(p, j).route = message.route
            BY <3>4, <5>1, <5>3 DEF RouteInv
          <6> QED BY <4>3, <5>2, <6>1, <6>2 DEF Choice, Addressed
        <5>4. CASE stack[j] # "route"
          <6>1. target'[p] = target[p]
            BY <4>3, <5>4 DEF Calls
          <6>2. k \in Entered(p)
            BY <3>6, <4>3, <5>4, EnteredStep
          <6> QED BY <3>6, <4>3, <5>2, <6>1, <6>2 DEF RouteInv
        <5> QED BY <5>3, <5>4
      <4>4. ASSUME NEW j \in Layers, Returns(p, j), q = p
            PROVE  target'[q] = Addressed(q)'
        <5>1. j = at[p] /\ at'[p] = j - 1 /\ Kept(p, j - 1) /\ target'[p] = target[p]
          BY <4>4 DEF Returns
        <5>2. k \in DOMAIN stack /\ (k < at'[p] \/ k = at'[p])
          BY <3>2, <3>6, <4>4 DEF Entered
        <5>3. 1 \in 1 .. j - 1
          BY <2>0, <5>1, <5>2
        <5>4. Addressed(p)' = Addressed(p)
          BY <3>2, <5>1, <5>3 DEF Kept, Addressed
        <5>5. k \in Entered(p)
          BY <3>6, <4>4, EnteredStep
        <5> QED BY <3>6, <4>4, <5>1, <5>4, <5>5 DEF RouteInv
      <4> QED BY <2>3, <4>1, <4>2, <4>3, <4>4 DEF CallStep
    <3>7. ASSUME NEW q \in Senders, NEW d \in Delivered(q)', Count("route") > 0
          PROVE  /\ d.route = NoName
                 /\ d.to = IF d.raw \/ message.route = NoName THEN Default
                           ELSE message.route
      <4>1. CASE d \in Delivered(q)
        BY <2>built, <3>7, <4>1 DEF RouteInv, RoutedAsAddressed
      <4>2. CASE q = p /\ at[p] = Leaf /\ ~NoEnvelope(p) /\ d = Parcel(p, Leaf)
        <5>1. PICK j \in DOMAIN stack : stack[j] = "route"
          <6>1. {k \in DOMAIN stack : stack[k] = "route"} # {}
            BY <3>7, FS_EmptySet DEF Count
          <6> QED BY <6>1
        <5>2. j \in Entered(p) /\ Routed(Leaf) /\ Leaf \in 1 .. at[p]
          BY <2>0, <4>2, <5>1 DEF Entered, Routed
        <5>3. target[p] = Addressed(p)
          BY <5>1, <5>2 DEF RouteInv
        <5>4. /\ args[p][Leaf].msg = Raw <=> args[p][1].msg = Raw
              /\ args[p][Leaf].msg # Raw => MsgIn(p, Leaf).route = NoName
          BY <5>2 DEF RouteInv
        <5>5. /\ d.raw = (args[p][Leaf].msg = Raw) /\ d.to = target[p]
              /\ args[p][Leaf].msg # Raw => d.route = MsgIn(p, Leaf).route
              /\ args[p][Leaf].msg = Raw => d.route = NoName
          BY <4>2, ParcelIsHanded
        <5> QED BY <5>3, <5>4, <5>5 DEF Addressed
      <4> QED BY <2>3, <4>1, <4>2, DeliveredStep
    <3>8. RoutedAsAddressed'
      BY <2>built, <3>2, <3>7 DEF RoutedAsAddressed
    <3> QED BY <3>2, <3>5, <3>6, <3>8 DEF RouteInv
  <2> QED BY <2>1, <2>2, <2>3, StepShape DEF Shape, CallStep
<1> QED BY <1>1, <1>2, TypeCorrect, ReportInvariant, CallerIsLeftAlone, PTL DEF Spec

\* A message goes to the transport its X-Transport header names and the header
\* does not reach the wire, when no second router stands behind the first.
THEOREM MessagesAreRouted == ASSUME OneRouter PROVE Spec => []RoutedAsAddressed
<1>1. RouteInv => RoutedAsAddressed
  BY DEF RouteInv
<1> QED BY <1>1, RouteInvariant, PTL
==============================================================================
