------------------------- MODULE NodeExchangeProofs -------------------------
(***************************************************************************)
(* The exchange with the nodes for any number of nodes, connections and    *)
(* handlers, and any capacity of the buffer: a read loop never waits for a *)
(* channel, the claims and slots of speed tests are those of the sessions  *)
(* under way, and a download loses no frame.                               *)
(*                                                                         *)
(* A question is followed from its registration on.  Its answer has one    *)
(* place at a time: registered, on its way into the channel, or in it.     *)
(* The frames of a download are, in order, what the client was given, what *)
(* is buffered, what the read loop holds, and what is under way.           *)
(***************************************************************************)
EXTENDS NodeExchange, FiniteSetTheorems, SequenceTheorems, TLAPS

Asking == Places \ {"idle", "claim", "register", "http"}
Streaming == {"stream", "write", "drain", "drainwrite"}

\* What c's read loop has in hand.
Delivers(c, q) == loop[c].at = "deliver" /\ loop[c].q = q
Pushes(c, q) == loop[c].at = "push" /\ loop[c].q = q

\* Where a handler is, against what it asked.
HandlerOK(r) ==
    /\ h[r].at \in Asking => h[r].q \in 1 .. asked /\ h[r].c # None
    /\ h[r].at \notin Asking => h[r].q = 0
    /\ h[r].at \in {"claim", "register"} => h[r].c # None
    /\ h[r].at \in {"claim", "register", "send"} => h[r].k = 0
    /\ h[r].at \in {"claim", "nobusy", "noslot"} => h[r].kind \in SpeedKinds
    /\ h[r].at \in Streaming \cup {"nostream"} => h[r].kind = "download"
    /\ h[r].at \in {"claim", "register", "send", "feed", "nobusy", "noslot"} \cup Streaming
       => h[r].then = "idle"
    /\ h[r].then = "http" \/ h[r].at = "http" => h[r].kind \notin SpeedKinds
    /\ h[r].at \in {"send", "nostream"} \cup Streaming /\ h[r].kind = "download"
       => h[r].q \in streams
    /\ h[r].at = "send" => node[h[r].q].c = None

Own == \A r, s \in Req : h[r].at \in Asking /\ h[s].at \in Asking /\ h[r].q = h[s].q => r = s

\* As many questions may still be asked as there are handlers about to ask.
Room == asked + Cardinality({r \in Req : h[r].at \in {"claim", "register"}}) <= MaxAsk

HandlersOK == (\A r \in Req : HandlerOK(r)) /\ Own /\ Room

\* An answer has one place at a time.
AnswerOK(q) ==
    /\ q \in waiters => chan[q] = << >> /\ \A c \in Conns : ~Delivers(c, q)
    /\ \A c \in Conns : Delivers(c, q) => /\ chan[q] = << >>
                                          /\ \A d \in Conns \ {c} : ~Delivers(d, q)
    /\ q > asked => /\ q \notin waiters /\ q \notin streams /\ chan[q] = << >> /\ buf[q] = << >>
                    /\ node[q] = Unknown
    /\ node[q].c = None => node[q].sent = 0 /\ chan[q] = << >> /\ buf[q] = << >>
    /\ chan[q] # << >> => node[q].replies > 0

\* What is under way on c was sent by a node that was asked on c, and no frame
\* follows an answer.
MailOK(c) ==
    /\ \A i \in 1 .. Len(inbox[c]) :
         LET m == inbox[c][i]
         IN  /\ node[m.q].c = c
             /\ m.type = "result" => /\ node[m.q].replies > 0
                                     /\ \A j \in i + 1 .. Len(inbox[c]) :
                                          inbox[c][j].q = m.q => inbox[c][j].type = "result"
    /\ loop[c].at \in {"deliver", "push"} => node[loop[c].q].c = c
    /\ loop[c].at = "deliver" => node[loop[c].q].replies > 0
    /\ loop[c].at = "ended" => link[c] = "down" /\ inbox[c] = << >>

\* What the client was given, and what it will have been given of question q
\* once the buffer is written.
Taken(r) == IF h[r].at \in {"write", "drainwrite"} THEN h[r].k + 1 ELSE h[r].k
Got(r, q) == Taken(r) + Len(buf[q])

IsFrame(c, i, q) == inbox[c][i].type = "frame" /\ inbox[c][i].q = q

\* After the frames up to e, those up to the newest are under way on c.
Coming(c, q, e) ==
    /\ e <= node[q].sent
    /\ \A i \in 1 .. Len(inbox[c]) :
         IsFrame(c, i, q) => e < inbox[c][i].n /\ inbox[c][i].n <= node[q].sent
    /\ \A i, j \in 1 .. Len(inbox[c]) :
         IsFrame(c, i, q) /\ IsFrame(c, j, q) /\ i < j => inbox[c][i].n < inbox[c][j].n
    /\ loop[c].at # "ended"
       => \A n \in e + 1 .. node[q].sent :
            \E i \in 1 .. Len(inbox[c]) : IsFrame(c, i, q) /\ inbox[c][i].n = n

\* ... the first of which the read loop may have in hand; with the answer they
\* are all there.
Follows(c, q, e) ==
    /\ Pushes(c, q) => loop[c].m.n = e + 1 /\ Coming(c, q, e + 1)
    /\ ~Pushes(c, q) => Coming(c, q, e)
    /\ Delivers(c, q) \/ chan[q] # << >> => e = node[q].sent

Carries(r, q, c) ==
    /\ InOrder(buf[q], Taken(r) + 1)
    /\ c = None => Taken(r) = 0
    /\ c # None => Follows(c, q, Got(r, q))
    /\ h[r].at \in {"drain", "drainwrite"}
       => c # None /\ Got(r, q) = node[q].sent /\ node[q].replies > 0

\* A download whose context is not done.
Flow(r) == h[r].at \in Streaming /\ ~done[h[r].q] => Carries(r, h[r].q, node[h[r].q].c)

\* ... and one that ended with the answer.
Whole(r) ==
    LET q == h[r].q
    IN  h[r].kind = "download" /\ h[r].at = "nostream" /\ ~done[q] /\ node[q].c # None
        => h[r].k = node[q].sent /\ node[q].replies > 0

IInv ==
    /\ TypeOK
    /\ HandlersOK
    /\ \A q \in Questions : AnswerOK(q)
    /\ \A c \in Conns : MailOK(c)
    /\ SlotsMatchSessions
    /\ \A r \in Req : Flow(r) /\ Whole(r)

-----------------------------------------------------------------------------
\* What a queue is without its first message, and with one more.
LEMMA TailIs ==
    ASSUME NEW T, NEW s \in Seq(T), s # << >>
    PROVE  /\ Tail(s) \in Seq(T) /\ Len(s) \in Nat /\ Len(s) >= 1
           /\ Len(Tail(s)) = Len(s) - 1 /\ Head(s) = s[1] /\ Head(s) \in T
           /\ \A i \in 1 .. Len(s) - 1 : Tail(s)[i] = s[i + 1]
<1>1. Len(s) \in Nat /\ Len(s) >= 1
  BY EmptySeq, LenProperties
<1>2. /\ Head(s) \in T /\ Tail(s) \in Seq(T) /\ Len(Tail(s)) = Len(s) - 1
      /\ \A i \in 1 .. Len(Tail(s)) : Tail(s)[i] = s[i + 1]
  BY HeadTailProperties
<1>3. Head(s) = s[1]
  OBVIOUS
<1> QED
  BY <1>1, <1>2, <1>3

LEMMA AppendIs ==
    ASSUME NEW T, NEW s \in Seq(T), NEW e \in T
    PROVE  /\ Append(s, e) \in Seq(T) /\ Len(Append(s, e)) = Len(s) + 1 /\ Len(s) \in Nat
           /\ \A i \in 1 .. Len(s) : Append(s, e)[i] = s[i]
           /\ Append(s, e)[Len(s) + 1] = e
BY AppendProperties, LenProperties

\* Records that the variables hold.
LEMMA MessageIs ==
    ASSUME NEW type \in {"result", "frame"}, NEW q \in Questions, NEW n \in Nat,
           NEW m, m = [type |-> type, q |-> q, n |-> n]
    PROVE  m \in Message /\ m.type = type /\ m.q = q /\ m.n = n
BY DEF Message

LEMMA HandIs ==
    ASSUME NEW at \in {"deliver", "push"}, NEW m \in Message,
           NEW l, l = [at |-> at, q |-> m.q, m |-> m]
    PROVE  /\ l \in [at : {"deliver", "push"}, q : Questions, m : Message]
           /\ l.at = at /\ l.q = m.q /\ l.m = m
BY DEF Message

LEMMA LoopTypes ==
    ASSUME TypeOK, NEW c \in Conns
    PROVE  /\ loop[c].at \in {"reading", "ended", "deliver", "push"}
           /\ loop[c].at \in {"deliver", "push"} =>
                loop[c].q \in Questions /\ loop[c].m \in Message
           /\ loop[c].at = "reading" <=> loop[c] = Reading
           /\ inbox[c] \in Seq(Message) /\ Len(inbox[c]) \in Nat
           /\ \A i \in 1 .. Len(inbox[c]) :
                /\ inbox[c][i] \in Message /\ inbox[c][i].q \in Questions
                /\ inbox[c][i].n \in Nat /\ inbox[c][i].type \in {"result", "frame"}
<1>1. inbox[c] \in Seq(Message)
  BY DEF TypeOK
<1>2. loop[c] \in {Reading, [at |-> "ended"]}
               \cup [at : {"deliver", "push"}, q : Questions, m : Message]
  BY DEF TypeOK
<1>3. /\ loop[c].at \in {"reading", "ended", "deliver", "push"}
      /\ loop[c].at \in {"deliver", "push"} =>
           loop[c].q \in Questions /\ loop[c].m \in Message
      /\ loop[c].at = "reading" <=> loop[c] = Reading
  BY <1>2 DEF Reading
<1>4. Len(inbox[c]) \in Nat /\ \A i \in 1 .. Len(inbox[c]) : inbox[c][i] \in Message
  BY <1>1, ElementOfSeq, LenProperties
<1> QED
  BY <1>1, <1>3, <1>4 DEF Message

LEMMA NodeTypes ==
    ASSUME TypeOK, NEW q \in Questions
    PROVE  /\ node[q] \in Known /\ node[q].c \in Conns \cup {None}
           /\ node[q].sent \in Nat /\ node[q].replies \in Nat
           /\ chan[q] \in Seq(Message) /\ buf[q] \in Seq(Nat) /\ Len(buf[q]) \in Nat
           /\ done[q] \in BOOLEAN
<1>1. node[q] \in Known /\ chan[q] \in Seq(Message) /\ buf[q] \in Seq(Nat) /\ done[q] \in BOOLEAN
  BY DEF TypeOK
<1>2. Len(buf[q]) \in Nat
  BY <1>1, LenProperties
<1> QED
  BY <1>1, <1>2 DEF Known

LEMMA HandlerTypes ==
    ASSUME TypeOK, NEW r \in Req
    PROVE  /\ h[r] \in Handler /\ h[r].at \in Places /\ h[r].n \in Nodes \cup {None}
           /\ h[r].c \in Conns \cup {None} /\ h[r].q \in 0 .. MaxAsk /\ h[r].k \in Nat
           /\ h[r].kind \in {"probe", "command", "download", "upload"}
           /\ h[r].then \in {"idle", "http"}
BY DEF TypeOK, Handler

\* The question of a handler that asks.
LEMMA AskingIs ==
    ASSUME TypeOK, HandlersOK, NEW r \in Req, h[r].at \in Asking
    PROVE  h[r].q \in Questions /\ h[r].q \in 1 .. asked
<1>1. asked \in 0 .. MaxAsk /\ MaxAsk \in Nat
  BY ExchangeAssumption DEF TypeOK
<1>2. h[r].q \in 1 .. asked
  BY DEF HandlersOK, HandlerOK
<1> QED
  BY <1>1, <1>2 DEF Questions

-----------------------------------------------------------------------------
\* A step of handler r that touches no question but its own, and of what the
\* node knows of that at most whether it was told to cancel.
Local(r) ==
    LET q == h[r].q
    IN  /\ link' = link /\ inbox' = inbox /\ loop' = loop /\ asked' = asked
        /\ \A x \in Questions : x # q =>
             /\ chan'[x] = chan[x] /\ buf'[x] = buf[x] /\ done'[x] = done[x] /\ node'[x] = node[x]
             /\ x \in waiters' <=> x \in waiters
             /\ x \in streams' <=> x \in streams
        /\ q \in Questions =>
             /\ chan'[q] \in {chan[q], << >>}
             /\ q \in waiters' => q \in waiters
             /\ q \in streams' => q \in streams
             /\ buf[q] = << >> => buf'[q] = << >>
             /\ node'[q].c = node[q].c /\ node'[q].sent = node[q].sent
             /\ node'[q].replies = node[q].replies
        /\ \A s \in Req : s # r => h'[s] = h[s]

LEMMA OwnQuestion ==
    ASSUME TypeOK, HandlersOK, NEW r \in Req, NEW s \in Req, s # r, h[s].at \in Asking
    PROVE  h[s].q # h[r].q
<1>1. h[s].q \in Questions
  BY AskingIs
<1>2. CASE h[r].at \in Asking
  BY <1>2 DEF HandlersOK, Own
<1>3. CASE h[r].at \notin Asking
  BY <1>1, <1>3 DEF HandlersOK, HandlerOK, Questions
<1> QED
  BY <1>2, <1>3

LEMMA LocalAnswers ==
    ASSUME IInv, NEW r \in Req, Local(r), NEW x \in Questions
    PROVE  AnswerOK(x)'
<1>1. AnswerOK(x)
  BY DEF IInv
<1>2. \A c \in Conns : Delivers(c, x)' <=> Delivers(c, x)
  BY DEF Local, Delivers
<1>3. asked' = asked
  BY DEF Local
<1>4. CASE x # h[r].q
  BY <1>1, <1>2, <1>3, <1>4 DEF Local, AnswerOK
<1>5. CASE x = h[r].q
  <2>1. h[r].at \in Asking
    BY <1>5 DEF IInv, HandlersOK, HandlerOK, Questions
  <2>2. x \in 1 .. asked /\ asked \in Nat
    BY <1>5, <2>1, AskingIs DEF IInv, TypeOK
  <2>3. ~(x > asked')
    BY <1>3, <2>2
  <2>4. /\ chan'[x] \in {chan[x], << >>}
        /\ x \in waiters' => x \in waiters
        /\ buf[x] = << >> => buf'[x] = << >>
        /\ node'[x].c = node[x].c /\ node'[x].sent = node[x].sent
        /\ node'[x].replies = node[x].replies
    BY <1>5 DEF Local
  <2>5. /\ x \in waiters' => chan'[x] = << >> /\ \A c \in Conns : ~Delivers(c, x)'
        /\ \A c \in Conns : Delivers(c, x)' => /\ chan'[x] = << >>
                                               /\ \A d \in Conns \ {c} : ~Delivers(d, x)'
    BY <1>1, <1>2, <2>4 DEF AnswerOK
  <2>6. /\ node'[x].c = None => node'[x].sent = 0 /\ chan'[x] = << >> /\ buf'[x] = << >>
        /\ chan'[x] # << >> => node'[x].replies > 0
    BY <1>1, <2>4 DEF AnswerOK
  <2> QED
    BY <2>3, <2>5, <2>6 DEF AnswerOK
<1> QED
  BY <1>4, <1>5

\* What the node knows of a question, as far as the answers go.
SameNode(x) == /\ node'[x].c = node[x].c /\ node'[x].sent = node[x].sent
               /\ node'[x].replies = node[x].replies

LEMMA MailStays ==
    ASSUME TypeOK, NEW c \in Conns, MailOK(c), inbox'[c] = inbox[c], loop'[c] = loop[c],
           link'[c] = link[c], \A x \in Questions : SameNode(x)
    PROVE  MailOK(c)'
<1>1. \A i \in 1 .. Len(inbox[c]) : inbox[c][i].q \in Questions
  BY LoopTypes
<1>2. loop[c].at \in {"deliver", "push"} => loop[c].q \in Questions
  BY LoopTypes
<1> QED
  BY <1>1, <1>2 DEF MailOK, SameNode

LEMMA LocalSame ==
    ASSUME NEW r \in Req, Local(r), NEW x \in Questions
    PROVE  SameNode(x)
BY DEF Local, SameNode

LEMMA LocalMail ==
    ASSUME IInv, NEW r \in Req, Local(r), NEW c \in Conns
    PROVE  MailOK(c)'
BY LocalSame, MailStays DEF IInv, Local

\* What is under way, when nothing of it has changed.
LEMMA FollowsStays ==
    ASSUME NEW c \in Conns, NEW q \in Questions, NEW e \in Nat, Follows(c, q, e),
           inbox'[c] = inbox[c], loop'[c] = loop[c], node'[q].sent = node[q].sent,
           chan'[q] # << >> => chan[q] # << >>
    PROVE  Follows(c, q, e)'
<1>1. \A d \in Nat : Coming(c, q, d)' <=> Coming(c, q, d)
  BY DEF Coming, IsFrame
<1>2. /\ Pushes(c, q)' <=> Pushes(c, q)
      /\ Delivers(c, q)' <=> Delivers(c, q)
  BY DEF Pushes, Delivers
<1> QED
  BY <1>1, <1>2 DEF Follows

\* A download of which nothing has changed.
LEMMA FlowStays ==
    ASSUME TypeOK, HandlersOK, NEW s \in Req, Flow(s), Whole(s), h'[s] = h[s],
           h[s].at \in Asking =>
             LET q == h[s].q
             IN  /\ chan'[q] = chan[q] /\ buf'[q] = buf[q] /\ SameNode(q)
                 /\ (done[q] => done'[q])
                 /\ node[q].c # None => /\ inbox'[node[q].c] = inbox[node[q].c]
                                        /\ loop'[node[q].c] = loop[node[q].c]
    PROVE  Flow(s)' /\ Whole(s)'
<1>1. CASE h[s].at \notin Asking
  BY <1>1 DEF Flow, Whole, Asking, Places, Streaming
<1>2. CASE h[s].at \in Asking
  <2>1. SUFFICES ASSUME NEW q \in Questions, q = h[s].q, NEW c, c = node[q].c
                 PROVE  Flow(s)' /\ Whole(s)'
    BY <1>2, AskingIs
  <2>2. /\ chan'[q] = chan[q] /\ buf'[q] = buf[q]
        /\ node'[q].c = c /\ node'[q].sent = node[q].sent
        /\ node'[q].replies = node[q].replies
        /\ (done[q] => done'[q])
        /\ c # None => inbox'[c] = inbox[c] /\ loop'[c] = loop[c]
        /\ h'[s].q = q
    BY <1>2, <2>1 DEF SameNode
  <2>3. Whole(s)'
    BY <2>1, <2>2 DEF Whole
  <2>4. ASSUME h[s].at \in Streaming, ~done[q]
        PROVE  Carries(s, q, c)'
    <3>1. Carries(s, q, c)
      BY <2>1, <2>4 DEF Flow
    <3>2. Got(s, q) \in Nat /\ Taken(s)' = Taken(s) /\ Got(s, q)' = Got(s, q)
      BY <2>2, HandlerTypes, NodeTypes DEF Got, Taken
    <3>3. ASSUME c # None, NEW e \in Nat, e = Got(s, q)
          PROVE  Follows(c, q, e)'
      <4>1. c \in Conns /\ Follows(c, q, e)
        BY <2>1, <3>1, <3>3, NodeTypes DEF Carries
      <4> QED
        BY <2>2, <3>3, <4>1, FollowsStays
    <3>4. c # None => Follows(c, q, Got(s, q))'
      BY <3>2, <3>3
    <3> QED
      BY <2>2, <3>1, <3>2, <3>4 DEF Carries
  <2>5. Flow(s)'
    BY <2>1, <2>2, <2>4 DEF Flow
  <2> QED
    BY <2>3, <2>5
<1> QED
  BY <1>1, <1>2

-----------------------------------------------------------------------------
\* What a step of a handler makes of its record.
LEMMA GotoIs ==
    ASSUME TypeOK, NEW r \in Req, NEW p \in Places, h' = [h EXCEPT ![r].at = p]
    PROVE  /\ h' \in [Req -> Handler]
           /\ h'[r].at = p /\ h'[r].kind = h[r].kind /\ h'[r].n = h[r].n /\ h'[r].c = h[r].c
           /\ h'[r].q = h[r].q /\ h'[r].k = h[r].k /\ h'[r].then = h[r].then
           /\ \A s \in Req : s # r => h'[s] = h[s]
<1>1. h \in [Req -> Handler] /\ h[r] \in Handler
  BY DEF TypeOK
<1> DEFINE s == [h[r] EXCEPT !.at = p]
<1>2. /\ s \in Handler
      /\ s.at = p /\ s.kind = h[r].kind /\ s.n = h[r].n /\ s.c = h[r].c
      /\ s.q = h[r].q /\ s.k = h[r].k /\ s.then = h[r].then
  BY <1>1 DEF Handler
<1>3. h' = [h EXCEPT ![r] = s]
  OBVIOUS
<1> HIDE DEF s
<1> QED
  BY <1>1, <1>2, <1>3

LEMMA BecomesIs ==
    ASSUME TypeOK, NEW r \in Req, NEW s \in Handler, h' = [h EXCEPT ![r] = s]
    PROVE  /\ h' \in [Req -> Handler] /\ h'[r] = s
           /\ \A x \in Req : x # r => h'[x] = h[x]
BY DEF TypeOK

Begin(p, kind, n, c) == [Idle EXCEPT !.at = p, !.kind = kind, !.n = n, !.c = c]

LEMMA BeginsIs ==
    ASSUME NEW p, NEW kind, NEW n, NEW c
    PROVE  LET s == Begin(p, kind, n, c)
           IN  /\ s.at = p /\ s.kind = kind /\ s.n = n /\ s.c = c /\ s.q = 0 /\ s.k = 0
               /\ s.then = "idle"
               /\ s = [at |-> p, kind |-> kind, n |-> n, c |-> c, q |-> 0, k |-> 0,
                       then |-> "idle"]
<1> DEFINE s == Begin(p, kind, n, c)
<1>1. s = [Idle EXCEPT !.at = p, !.kind = kind, !.n = n, !.c = c]
  BY DEF Begin
<1> HIDE DEF s
<1>2. /\ s.at = p /\ s.kind = kind /\ s.n = n /\ s.c = c /\ s.q = 0 /\ s.k = 0
      /\ s.then = "idle"
      /\ s = [at |-> p, kind |-> kind, n |-> n, c |-> c, q |-> 0, k |-> 0, then |-> "idle"]
  BY <1>1 DEF Idle
<1> QED
  BY <1>2 DEF s

LEMMA BeginsHandler ==
    ASSUME NEW p \in Places, NEW kind \in {"probe", "command", "download", "upload"},
           NEW n \in Nodes \cup {None}, NEW c \in Conns \cup {None}
    PROVE  [at |-> p, kind |-> kind, n |-> n, c |-> c, q |-> 0, k |-> 0, then |-> "idle"]
             \in Handler
BY ExchangeAssumption DEF Handler

LEMMA EndsIs ==
    ASSUME NEW p \in Places, NEW s, s = [Idle EXCEPT !.at = p]
    PROVE  /\ s \in Handler
           /\ s.at = p /\ s.kind = "probe" /\ s.n = None /\ s.c = None /\ s.q = 0 /\ s.k = 0
           /\ s.then = "idle"
BY ExchangeAssumption DEF Idle, Handler

LEMMA IdleIs ==
    /\ Idle \in Handler
    /\ Idle.at = "idle" /\ Idle.kind = "probe" /\ Idle.n = None /\ Idle.c = None /\ Idle.q = 0
    /\ Idle.k = 0 /\ Idle.then = "idle"
BY ExchangeAssumption DEF Idle, Handler, Places

\* What a node knows that was just asked.
Told(c, kind) == [Unknown EXCEPT !.c = c, !.kind = kind]

LEMMA ToldIs ==
    ASSUME NEW c, NEW kind
    PROVE  Told(c, kind) = [c |-> c, kind |-> kind, sent |-> 0, replies |-> 0, off |-> FALSE]
<1> DEFINE k == Told(c, kind)
<1>1. k = [Unknown EXCEPT !.c = c, !.kind = kind]
  BY DEF Told
<1> HIDE DEF k
<1>2. k = [c |-> c, kind |-> kind, sent |-> 0, replies |-> 0, off |-> FALSE]
  BY <1>1 DEF Unknown
<1> QED
  BY <1>2 DEF k

\* A cancel tells the node of the question, and changes nothing else there.
LEMMA CancelIs ==
    ASSUME TypeOK, HandlersOK, NEW r \in Req, h[r].at \in Asking, Cancel(r)
    PROVE  /\ node' \in [Questions -> Known]
           /\ \A x \in Questions : SameNode(x)
           /\ \A x \in Questions : x # h[r].q => node'[x] = node[x]
<1>1. SUFFICES ASSUME NEW q \in Questions, q = h[r].q
               PROVE  /\ node' \in [Questions -> Known]
                      /\ \A x \in Questions : SameNode(x)
                      /\ \A x \in Questions : x # q => node'[x] = node[x]
  BY AskingIs
<1> DEFINE k == [node[q] EXCEPT !.off = (@ \/ link[h[r].c] = "up")]
<1>2. node \in [Questions -> Known] /\ node[q] \in Known
  BY DEF TypeOK
<1>3. k \in Known /\ k.c = node[q].c /\ k.sent = node[q].sent /\ k.replies = node[q].replies
  BY <1>2 DEF Known
<1>4. node' = [node EXCEPT ![q] = k]
  BY <1>1 DEF Cancel
<1> HIDE DEF k
<1> QED
  BY <1>2, <1>3, <1>4 DEF SameNode

-----------------------------------------------------------------------------
\* The handlers after a step that concerns r's own question at most.
LEMMA LocalHandlers ==
    ASSUME IInv, NEW r \in Req, Local(r), HandlerOK(r)', Room',
           h'[r].at \in Asking => h[r].at \in Asking /\ h'[r].q = h[r].q
    PROVE  HandlersOK'
<1>1. asked' = asked /\ asked \in 0 .. MaxAsk /\ TypeOK /\ HandlersOK
  BY DEF Local, IInv, TypeOK
<1>2. ASSUME NEW s \in Req
      PROVE  HandlerOK(s)'
  <2>1. CASE s = r
    BY <2>1
  <2>2. CASE s # r
    <3>1. HandlerOK(s) /\ h'[s] = h[s]
      BY <1>1, <2>2 DEF HandlersOK, Local
    <3>2. CASE h[s].at \notin Asking
      BY <1>1, <3>1, <3>2 DEF HandlerOK, Asking, Places, Streaming
    <3>3. CASE h[s].at \in Asking
      <4>1. h[s].q \in Questions /\ h[s].q # h[r].q
        BY <1>1, <2>2, <3>3, AskingIs, OwnQuestion
      <4>2. node'[h[s].q] = node[h[s].q] /\ (h[s].q \in streams' <=> h[s].q \in streams)
        BY <4>1 DEF Local
      <4> QED
        BY <1>1, <3>1, <4>2 DEF HandlerOK
    <3> QED
      BY <3>2, <3>3
  <2> QED
    BY <2>1, <2>2
<1>3. Own'
  BY <1>1 DEF Own, HandlersOK, Local
<1> QED
  BY <1>2, <1>3 DEF HandlersOK

LEMMA RoomStays ==
    ASSUME IInv, NEW r \in Req, asked' = asked, \A s \in Req : s # r => h'[s] = h[s],
           h'[r].at \in {"claim", "register"} => h[r].at \in {"claim", "register"}
    PROVE  Room'
<1> DEFINE before == {x \in Req : h[x].at \in {"claim", "register"}}
           after  == {x \in Req : h'[x].at \in {"claim", "register"}}
<1>1. after \subseteq before
  OBVIOUS
<1>2. IsFiniteSet(before) /\ Cardinality(before) \in Nat
  BY ExchangeAssumption, FS_Subset, FS_CardinalityType
<1>3. Cardinality(after) <= Cardinality(before) /\ Cardinality(after) \in Nat
  BY <1>1, <1>2, FS_Subset, FS_CardinalityType
<1>4. asked + Cardinality(before) <= MaxAsk /\ asked \in Nat /\ MaxAsk \in Nat
  BY ExchangeAssumption DEF IInv, HandlersOK, Room, TypeOK
<1>5. asked' + Cardinality(after) <= MaxAsk
  <2> HIDE DEF before, after
  <2> QED
    BY <1>2, <1>3, <1>4
<1> QED
  BY <1>5 DEF Room

\* The claims and slots, when no session begins or ends.
LEMMA SessionsStay ==
    ASSUME SlotsMatchSessions, slots' = slots, busy' = busy,
           \A x \in Req : /\ HasSlot(x)' <=> HasSlot(x)
                          /\ Claiming(x)' <=> Claiming(x)
                          /\ Claiming(x) => h'[x].n = h[x].n
    PROVE  SlotsMatchSessions'
<1>1. {x \in Req : HasSlot(x)}' = {x \in Req : HasSlot(x)}
  OBVIOUS
<1>2. {h[r].n : r \in {x \in Req : Claiming(x)}}' = {h[r].n : r \in {x \in Req : Claiming(x)}}
  OBVIOUS
<1>3. \A x, y \in Req : (Claiming(x) /\ Claiming(y) /\ h[x].n = h[y].n)' => x = y
  BY DEF SlotsMatchSessions
<1> QED
  BY <1>1, <1>2, <1>3 DEF SlotsMatchSessions

LEMMA LocalFlow ==
    ASSUME IInv, NEW r \in Req, Local(r), NEW s \in Req, s # r
    PROVE  Flow(s)' /\ Whole(s)'
<1>1. TypeOK /\ HandlersOK /\ Flow(s) /\ Whole(s) /\ h'[s] = h[s]
  BY DEF IInv, Local
<1>2. ASSUME h[s].at \in Asking
      PROVE  LET q == h[s].q
             IN  /\ chan'[q] = chan[q] /\ buf'[q] = buf[q] /\ SameNode(q)
                 /\ (done[q] => done'[q])
                 /\ node[q].c # None => /\ inbox'[node[q].c] = inbox[node[q].c]
                                        /\ loop'[node[q].c] = loop[node[q].c]
  <2>1. h[s].q \in Questions /\ h[s].q # h[r].q
    BY <1>1, <1>2, AskingIs, OwnQuestion
  <2> QED
    BY <2>1 DEF Local, SameNode
<1> QED
  BY <1>1, <1>2, FlowStays

LEMMA LocalKeeps ==
    ASSUME IInv, TypeOK', NEW r \in Req, Local(r), HandlersOK', SlotsMatchSessions',
           Flow(r)', Whole(r)'
    PROVE  IInv'
<1>1. \A q \in Questions : AnswerOK(q)'
  BY LocalAnswers
<1>2. \A c \in Conns : MailOK(c)'
  BY LocalMail
<1>3. \A s \in Req : Flow(s)' /\ Whole(s)'
  BY LocalFlow
<1> QED
  BY <1>1, <1>2, <1>3 DEF IInv

\* A handler that goes on with its question.
Onward(r) ==
    /\ Local(r) /\ slots' = slots /\ busy' = busy
    /\ h[r].at \in Asking \ {"noslot"} /\ h'[r].at \in Asking \ {"noslot"}
    /\ h'[r].kind = h[r].kind /\ h'[r].n = h[r].n /\ h'[r].q = h[r].q

LEMMA OnwardKeeps ==
    ASSUME IInv, TypeOK', NEW r \in Req, Onward(r), HandlerOK(r)', Flow(r)', Whole(r)'
    PROVE  IInv'
<1>1. Local(r) /\ \A s \in Req : s # r => h'[s] = h[s]
  BY DEF Onward, Local
<1>2. Room'
  BY <1>1, RoomStays DEF Onward, Asking, Local
<1>3. HandlersOK'
  BY <1>1, <1>2, LocalHandlers DEF Onward
<1>4. ASSUME NEW x \in Req
      PROVE  /\ HasSlot(x)' <=> HasSlot(x)
             /\ Claiming(x)' <=> Claiming(x)
             /\ Claiming(x) => h'[x].n = h[x].n
  BY <1>1 DEF Onward, HasSlot, Claiming, Holding, Asking
<1>5. SlotsMatchSessions'
  BY <1>4, SessionsStay DEF IInv, Onward
<1> QED
  BY <1>1, <1>3, <1>5, LocalKeeps

-----------------------------------------------------------------------------
\* Steps of a handler towards its end, outside the transfer of frames.
LEMMA PlainOnward ==
    ASSUME IInv, TypeOK', NEW r \in Req, Onward(r), HandlerOK(r)',
           h'[r].at \in {"wait", "nowaiter", "nobusy"}
    PROVE  IInv'
<1>1. Flow(r)' /\ Whole(r)'
  BY DEF Flow, Whole, Streaming
<1> QED
  BY <1>1, OnwardKeeps

LEMMA ReceiveKeeps ==
    ASSUME IInv, NEW r \in Req, Receive(r)
    PROVE  IInv'
<1>1. SUFFICES ASSUME NEW q, q = h[r].q
               PROVE  IInv'
  OBVIOUS
<1>2. TypeOK /\ HandlersOK /\ HandlerOK(r)
  BY DEF IInv, HandlersOK
<1>3. /\ h[r].at = "wait" /\ chan' = [chan EXCEPT ![q] = << >>]
      /\ h' = [h EXCEPT ![r].at = "nowaiter"]
      /\ UNCHANGED <<link, peers, inbox, loop, waiters, streams, buf, done, busy, slots,
                     asked, node>>
  BY <1>1 DEF Receive, Goto
<1>4. q \in Questions /\ q \in 1 .. asked
  BY <1>1, <1>2, <1>3, AskingIs DEF Asking, Places
<1>5. /\ h' \in [Req -> Handler]
      /\ h'[r].at = "nowaiter" /\ h'[r].kind = h[r].kind /\ h'[r].n = h[r].n
      /\ h'[r].c = h[r].c /\ h'[r].q = q /\ h'[r].k = h[r].k /\ h'[r].then = h[r].then
      /\ \A s \in Req : s # r => h'[s] = h[s]
  BY <1>1, <1>2, <1>3, GotoIs DEF Places
<1>6. /\ chan' \in [Questions -> Seq(Message)] /\ chan'[q] = << >>
      /\ \A x \in Questions : x # q => chan'[x] = chan[x]
  BY <1>2, <1>3, <1>4 DEF TypeOK
<1>7. TypeOK'
  BY <1>2, <1>3, <1>5, <1>6 DEF TypeOK
<1>8. Onward(r)
  BY <1>1, <1>3, <1>4, <1>5, <1>6 DEF Onward, Local, Asking, Places
<1>9. HandlerOK(r)'
  BY <1>1, <1>2, <1>3, <1>5 DEF HandlerOK, Asking, Places, Streaming
<1> QED
  BY <1>5, <1>7, <1>8, <1>9, PlainOnward

LEMMA TimesOutKeeps ==
    ASSUME IInv, NEW r \in Req, TimesOut(r)
    PROVE  IInv'
<1>1. SUFFICES ASSUME NEW q, q = h[r].q
               PROVE  IInv'
  OBVIOUS
<1>2. TypeOK /\ HandlersOK /\ HandlerOK(r)
  BY DEF IInv, HandlersOK
<1>3. h[r].at = "wait" /\ h[r].at \in Asking
  BY DEF TimesOut, Asking, Places
<1>4. q \in Questions /\ q \in 1 .. asked
  BY <1>1, <1>2, <1>3, AskingIs
<1> DEFINE then == IF h[r].kind = "command" THEN "http" ELSE "idle"
           s == [h[r] EXCEPT !.at = "nowaiter", !.then = then]
<1>5. /\ s \in Handler
      /\ s.at = "nowaiter" /\ s.kind = h[r].kind /\ s.n = h[r].n /\ s.c = h[r].c
      /\ s.q = q /\ s.k = h[r].k /\ s.then = then
  BY <1>1, <1>2, HandlerTypes DEF Handler, Places
<1>6. h' = [h EXCEPT ![r] = s]
  BY DEF TimesOut
<1>7. then = "http" => h[r].kind \notin SpeedKinds
  BY DEF SpeedKinds
<1> HIDE DEF s, then
<1>8. h' \in [Req -> Handler] /\ h'[r] = s /\ \A x \in Req : x # r => h'[x] = h[x]
  BY <1>2, <1>5, <1>6, BecomesIs
<1>9. UNCHANGED <<link, peers, inbox, loop, waiters, chan, streams, buf, done, busy, slots,
                  asked>>
  BY DEF TimesOut
<1>10. /\ node' \in [Questions -> Known]
       /\ \A x \in Questions : SameNode(x)
       /\ \A x \in Questions : x # q => node'[x] = node[x]
  <2>1. CASE node' = node
    BY <1>2, <2>1 DEF TypeOK, SameNode
  <2>2. CASE Cancel(r)
    BY <1>1, <1>2, <1>3, <2>2, CancelIs
  <2> QED
    BY <2>1, <2>2 DEF TimesOut
<1>11. TypeOK'
  BY <1>2, <1>8, <1>9, <1>10 DEF TypeOK
<1>12. Onward(r)
  BY <1>1, <1>3, <1>4, <1>5, <1>8, <1>9, <1>10 DEF Onward, Local, SameNode, Asking, Places
<1>13. HandlerOK(r)'
  BY <1>1, <1>2, <1>3, <1>4, <1>5, <1>7, <1>8, <1>9 DEF HandlerOK, Asking, Places, Streaming
<1> QED
  BY <1>5, <1>8, <1>11, <1>12, <1>13, PlainOnward

\* The three ways the body of an upload ends.
LEMMA UploadKeeps ==
    ASSUME IInv, NEW r \in Req, UploadEnds(r) \/ UploadStops(r) \/ UploadLinkFails(r)
    PROVE  IInv'
<1>1. SUFFICES ASSUME NEW q, q = h[r].q,
                      NEW p \in {"wait", "nowaiter"}, h' = [h EXCEPT ![r].at = p]
               PROVE  IInv'
  BY DEF UploadEnds, UploadStops, UploadLinkFails, Goto
<1>2. TypeOK /\ HandlersOK /\ HandlerOK(r)
  BY DEF IInv, HandlersOK
<1>3. /\ h[r].at = "feed" /\ h[r].at \in Asking
      /\ UNCHANGED <<link, peers, inbox, loop, waiters, chan, streams, buf, done, busy, slots,
                     asked>>
  BY DEF UploadEnds, UploadStops, UploadLinkFails, Asking, Places
<1>4. q \in Questions /\ q \in 1 .. asked
  BY <1>1, <1>2, <1>3, AskingIs
<1>5. /\ h' \in [Req -> Handler]
      /\ h'[r].at = p /\ h'[r].kind = h[r].kind /\ h'[r].n = h[r].n
      /\ h'[r].c = h[r].c /\ h'[r].q = q /\ h'[r].k = h[r].k /\ h'[r].then = h[r].then
      /\ \A s \in Req : s # r => h'[s] = h[s]
  BY <1>1, <1>2, GotoIs DEF Places
<1>6. /\ node' \in [Questions -> Known]
      /\ \A x \in Questions : SameNode(x)
      /\ \A x \in Questions : x # q => node'[x] = node[x]
  <2>1. CASE node' = node
    BY <1>2, <2>1 DEF TypeOK, SameNode
  <2>2. CASE Cancel(r)
    BY <1>1, <1>2, <1>3, <2>2, CancelIs
  <2> QED
    BY <2>1, <2>2 DEF UploadEnds, UploadStops, UploadLinkFails
<1>7. TypeOK'
  BY <1>2, <1>3, <1>5, <1>6 DEF TypeOK
<1>8. Onward(r)
  BY <1>1, <1>3, <1>4, <1>5, <1>6 DEF Onward, Local, SameNode, Asking, Places
<1>9. HandlerOK(r)'
  BY <1>1, <1>2, <1>3, <1>4, <1>5 DEF HandlerOK, Asking, Places, Streaming
<1> QED
  BY <1>5, <1>7, <1>8, <1>9, PlainOnward

\* The deferred calls of a stream: nobody wants its frames any more.
LEMMA DropStreamKeeps ==
    ASSUME IInv, NEW r \in Req, DropStream(r)
    PROVE  IInv'
<1>1. SUFFICES ASSUME NEW q, q = h[r].q
               PROVE  IInv'
  OBVIOUS
<1>2. TypeOK /\ HandlersOK /\ HandlerOK(r)
  BY DEF IInv, HandlersOK
<1>3. /\ h[r].at = "nostream" /\ h[r].at \in Asking
      /\ streams' = streams \ {q} /\ done' = [done EXCEPT ![q] = TRUE]
      /\ h' = [h EXCEPT ![r].at = "nowaiter"]
      /\ UNCHANGED <<link, peers, inbox, loop, waiters, chan, buf, busy, slots, asked, node>>
  BY <1>1 DEF DropStream, Goto, Asking, Places
<1>4. q \in Questions /\ q \in 1 .. asked
  BY <1>1, <1>2, <1>3, AskingIs
<1>5. /\ h' \in [Req -> Handler]
      /\ h'[r].at = "nowaiter" /\ h'[r].kind = h[r].kind /\ h'[r].n = h[r].n
      /\ h'[r].c = h[r].c /\ h'[r].q = q /\ h'[r].k = h[r].k /\ h'[r].then = h[r].then
      /\ \A s \in Req : s # r => h'[s] = h[s]
  BY <1>1, <1>2, <1>3, GotoIs DEF Places
<1>6. /\ done' \in [Questions -> BOOLEAN]
      /\ \A x \in Questions : x # q => done'[x] = done[x]
  BY <1>2, <1>3, <1>4 DEF TypeOK
<1>7. TypeOK'
  BY <1>2, <1>3, <1>5, <1>6 DEF TypeOK
<1>8. Onward(r)
  BY <1>1, <1>3, <1>4, <1>5, <1>6 DEF Onward, Local, Asking, Places
<1>9. HandlerOK(r)'
  BY <1>1, <1>2, <1>3, <1>5 DEF HandlerOK, Asking, Places, Streaming
<1> QED
  BY <1>5, <1>7, <1>8, <1>9, PlainOnward

-----------------------------------------------------------------------------
\* Steps that begin or end something for a handler.
LEMMA AwayKeeps ==
    ASSUME IInv, TypeOK', NEW r \in Req, Local(r), HandlerOK(r)', Room', SlotsMatchSessions',
           h'[r].at \notin Streaming \cup {"nostream"},
           h'[r].at \in Asking => h[r].at \in Asking /\ h'[r].q = h[r].q
    PROVE  IInv'
<1>1. HandlersOK'
  BY LocalHandlers
<1>2. Flow(r)' /\ Whole(r)'
  BY DEF Flow, Whole
<1> QED
  BY <1>1, <1>2, LocalKeeps

LEMMA RoomGrows ==
    ASSUME IInv, NEW r \in Req, MayAsk, asked' = asked, \A s \in Req : s # r => h'[s] = h[s]
    PROVE  Room'
<1> DEFINE before == {x \in Req : h[x].at \in {"claim", "register"}}
           after  == {x \in Req : h'[x].at \in {"claim", "register"}}
<1>1. after \subseteq before \cup {r}
  OBVIOUS
<1>2. IsFiniteSet(before) /\ Cardinality(before) \in Nat
  BY ExchangeAssumption, FS_Subset, FS_CardinalityType
<1>3. asked + Cardinality(before) < MaxAsk /\ asked \in Nat /\ MaxAsk \in Nat
  BY ExchangeAssumption DEF MayAsk, IInv, TypeOK
<1>4. asked' + Cardinality(after) <= MaxAsk
  <2> HIDE DEF before, after
  <2>1. IsFiniteSet(before \cup {r}) /\ Cardinality(before \cup {r}) <= Cardinality(before) + 1
    <3>1. /\ IsFiniteSet(before \cup {r})
          /\ Cardinality(before \cup {r})
               = IF r \in before THEN Cardinality(before) ELSE Cardinality(before) + 1
      BY <1>2, FS_AddElement, Zenon
    <3> QED
      BY <1>2, <3>1
  <2>2. /\ Cardinality(after) <= Cardinality(before \cup {r})
        /\ Cardinality(after) \in Nat /\ Cardinality(before \cup {r}) \in Nat
    BY <1>1, <2>1, FS_Subset, FS_CardinalityType
  <2> QED
    BY <1>2, <1>3, <2>1, <2>2
<1> QED
  BY <1>4 DEF Room

\* A node that only handler r claimed is given back.
LEMMA ClaimEnds ==
    ASSUME SlotsMatchSessions, NEW r \in Req, Claiming(r), busy' = busy \ {h[r].n},
           slots' = slots, ~Claiming(r)',
           \A x \in Req : HasSlot(x)' <=> HasSlot(x),
           \A x \in Req : x # r => h'[x] = h[x]
    PROVE  SlotsMatchSessions'
<1>1. {x \in Req : HasSlot(x)}' = {x \in Req : HasSlot(x)}
  OBVIOUS
<1>2. \A x \in Req : x # r => (Claiming(x)' <=> Claiming(x))
  BY DEF Claiming, Holding
<1>3. \A x \in Req : Claiming(x) /\ x # r => h[x].n # h[r].n
  BY DEF SlotsMatchSessions
<1>4. {h[x].n : x \in {y \in Req : Claiming(y)}}'
        = {h[x].n : x \in {y \in Req : Claiming(y)}} \ {h[r].n}
  BY <1>2, <1>3
<1>5. \A x, y \in Req : (Claiming(x) /\ Claiming(y) /\ h[x].n = h[y].n)' => x = y
  BY <1>2 DEF SlotsMatchSessions
<1> QED
  BY <1>1, <1>4, <1>5 DEF SlotsMatchSessions

\* One more session, or one less, has a slot; the claims are those of before.
LEMMA SlotsAre ==
    ASSUME IInv, TypeOK', NEW r \in Req, busy' = busy,
           \A x \in Req : x # r => h'[x] = h[x],
           Claiming(r)' <=> Claiming(r), Claiming(r) => h'[r].n = h[r].n,
           \/ slots' = slots + 1 /\ ~HasSlot(r) /\ HasSlot(r)'
           \/ slots' = slots - 1 /\ HasSlot(r) /\ ~HasSlot(r)'
    PROVE  SlotsMatchSessions'
<1> DEFINE before == {x \in Req : HasSlot(x)}
           after  == {x \in Req : HasSlot(x)'}
<1>1. \A x \in Req : x # r => (Claiming(x)' <=> Claiming(x)) /\ (HasSlot(x)' <=> HasSlot(x))
  BY DEF Claiming, HasSlot, Holding
<1>2. {h[x].n : x \in {y \in Req : Claiming(y)}}' = {h[x].n : x \in {y \in Req : Claiming(y)}}
  BY <1>1
<1>3. \A x, y \in Req : (Claiming(x) /\ Claiming(y) /\ h[x].n = h[y].n)' => x = y
  BY <1>1 DEF SlotsMatchSessions, IInv
<1>4. IsFiniteSet(before) /\ Cardinality(before) \in Nat
  BY ExchangeAssumption, FS_Subset, FS_CardinalityType
<1>5. slots = Cardinality(before)
  BY DEF IInv, SlotsMatchSessions
<1>6. slots' = Cardinality(after)
  <2>1. CASE slots' = slots + 1 /\ ~HasSlot(r) /\ HasSlot(r)'
    <3>1. after = before \cup {r} /\ r \notin before
      BY <1>1, <2>1
    <3> HIDE DEF before, after
    <3> QED
      BY <1>4, <1>5, <2>1, <3>1, FS_AddElement
  <2>2. CASE slots' = slots - 1 /\ HasSlot(r) /\ ~HasSlot(r)'
    <3>1. after = before \ {r} /\ r \in before
      BY <1>1, <2>2
    <3> HIDE DEF before, after
    <3> QED
      BY <1>4, <1>5, <2>2, <3>1, FS_RemoveElement
  <2> QED
    BY <2>1, <2>2
<1>7. slots' \in 0 .. Slots /\ Slots \in Nat
  BY ExchangeAssumption DEF TypeOK
<1>8. slots' <= Slots
  BY <1>7
<1> QED
  BY <1>2, <1>3, <1>6, <1>8 DEF SlotsMatchSessions, IInv

LEMMA DropWaiterKeeps ==
    ASSUME IInv, NEW r \in Req, DropWaiter(r)
    PROVE  IInv'
<1>1. SUFFICES ASSUME NEW q, q = h[r].q
               PROVE  IInv'
  OBVIOUS
<1>2. TypeOK /\ HandlersOK /\ HandlerOK(r)
  BY DEF IInv, HandlersOK
<1>3. /\ h[r].at = "nowaiter" /\ h[r].at \in Asking /\ waiters' = waiters \ {q}
      /\ UNCHANGED <<link, peers, inbox, loop, chan, streams, buf, done, busy, slots, asked,
                     node>>
  BY <1>1 DEF DropWaiter, Asking, Places
<1>4. q \in Questions /\ q \in 1 .. asked
  BY <1>1, <1>2, <1>3, AskingIs
<1>5. CASE h[r].kind \in SpeedKinds
  <2>1. h' = [h EXCEPT ![r].at = "nobusy"]
    BY <1>5 DEF DropWaiter, Goto
  <2>2. /\ h' \in [Req -> Handler]
        /\ h'[r].at = "nobusy" /\ h'[r].kind = h[r].kind /\ h'[r].n = h[r].n
        /\ h'[r].c = h[r].c /\ h'[r].q = q /\ h'[r].k = h[r].k /\ h'[r].then = h[r].then
        /\ \A s \in Req : s # r => h'[s] = h[s]
    BY <1>1, <1>2, <2>1, GotoIs DEF Places
  <2>3. TypeOK'
    BY <1>2, <1>3, <2>2 DEF TypeOK
  <2>4. Onward(r)
    BY <1>1, <1>3, <1>4, <2>2 DEF Onward, Local, Asking, Places
  <2>5. h[r].then = "idle"
    BY <1>2, <1>5, HandlerTypes DEF HandlerOK
  <2>6. HandlerOK(r)'
    BY <1>1, <1>2, <1>3, <1>5, <2>2, <2>5 DEF HandlerOK, Asking, Places, Streaming
  <2> QED
    BY <2>2, <2>3, <2>4, <2>6, PlainOnward
<1>6. CASE h[r].kind \notin SpeedKinds
  <2>1. h[r].then \in Places /\ h[r].then \in {"idle", "http"}
    BY <1>2, HandlerTypes DEF Places
  <2> DEFINE s == [Idle EXCEPT !.at = h[r].then]
             p == h[r].then
  <2>2. s = [Idle EXCEPT !.at = p] /\ p \in Places /\ p = h[r].then
    BY <2>1
  <2>3. h' = [h EXCEPT ![r] = s]
    BY <1>6 DEF DropWaiter
  <2> HIDE DEF s, p
  <2>4. /\ s \in Handler
        /\ s.at = h[r].then /\ s.kind = "probe" /\ s.n = None /\ s.c = None /\ s.q = 0
        /\ s.k = 0 /\ s.then = "idle"
    BY <2>2, EndsIs
  <2>5. h' \in [Req -> Handler] /\ h'[r] = s /\ \A x \in Req : x # r => h'[x] = h[x]
    BY <1>2, <2>4, <2>3, BecomesIs
  <2>6. TypeOK'
    BY <1>2, <1>3, <2>5 DEF TypeOK
  <2>7. Local(r)
    BY <1>1, <1>3, <1>4, <2>5 DEF Local
  <2>8. HandlerOK(r)'
    BY <2>1, <2>4, <2>5 DEF HandlerOK, Asking, Places, Streaming, SpeedKinds
  <2>9. Room'
    BY <1>3, <2>1, <2>4, <2>5, RoomStays
  <2>10. ASSUME NEW x \in Req
        PROVE  /\ HasSlot(x)' <=> HasSlot(x)
               /\ Claiming(x)' <=> Claiming(x)
               /\ Claiming(x) => h'[x].n = h[x].n
    BY <1>6, <2>4, <2>5 DEF HasSlot, Claiming, Holding, SpeedKinds
  <2>11. SlotsMatchSessions'
    BY <1>3, <2>10, SessionsStay DEF IInv
  <2>12. h'[r].at \notin Streaming \cup {"nostream"} /\ h'[r].at \notin Asking
    BY <2>1, <2>4, <2>5 DEF Streaming, Asking, Places
  <2> QED
    BY <2>6, <2>7, <2>8, <2>9, <2>11, <2>12, AwayKeeps
<1> QED
  BY <1>5, <1>6

LEMMA HttpKeeps ==
    ASSUME IInv, NEW r \in Req, HttpFallback(r)
    PROVE  IInv'
<1>1. TypeOK /\ HandlersOK /\ HandlerOK(r)
  BY DEF IInv, HandlersOK
<1>2. /\ h[r].at = "http" /\ h' = [h EXCEPT ![r] = Idle]
      /\ UNCHANGED <<link, peers, inbox, loop, waiters, chan, streams, buf, done, busy, slots,
                     asked, node>>
  BY DEF HttpFallback
<1>3. h' \in [Req -> Handler] /\ h'[r] = Idle /\ \A x \in Req : x # r => h'[x] = h[x]
  BY <1>1, <1>2, IdleIs, BecomesIs
<1>4. TypeOK'
  BY <1>1, <1>2, <1>3 DEF TypeOK
<1>5. h[r].q \notin Questions
  BY <1>1, <1>2 DEF HandlerOK, Questions, Asking, Places
<1>6. Local(r)
  BY <1>2, <1>3, <1>5 DEF Local
<1>7. HandlerOK(r)'
  BY <1>3, IdleIs DEF HandlerOK, Asking, Places, Streaming
<1>8. Room'
  BY <1>2, <1>3, IdleIs, RoomStays
<1>9. ASSUME NEW x \in Req
      PROVE  /\ HasSlot(x)' <=> HasSlot(x)
             /\ Claiming(x)' <=> Claiming(x)
             /\ Claiming(x) => h'[x].n = h[x].n
  BY <1>1, <1>2, <1>3, IdleIs DEF HasSlot, Claiming, Holding, HandlerOK
<1>10. SlotsMatchSessions'
  BY <1>2, <1>9, SessionsStay DEF IInv
<1>11. h'[r].at \notin Streaming \cup {"nostream"} /\ h'[r].at \notin Asking
  BY <1>3, IdleIs DEF Streaming, Asking, Places
<1> QED
  BY <1>4, <1>6, <1>7, <1>8, <1>10, <1>11, AwayKeeps

LEMMA FreeNodeKeeps ==
    ASSUME IInv, NEW r \in Req, FreeNode(r)
    PROVE  IInv'
<1>1. SUFFICES ASSUME NEW q, q = h[r].q
               PROVE  IInv'
  OBVIOUS
<1>2. TypeOK /\ HandlersOK /\ HandlerOK(r)
  BY DEF IInv, HandlersOK
<1>3. /\ h[r].at = "nobusy" /\ h[r].at \in Asking /\ busy' = busy \ {h[r].n}
      /\ h' = [h EXCEPT ![r].at = "noslot"]
      /\ UNCHANGED <<link, peers, inbox, loop, waiters, chan, streams, buf, done, slots, asked,
                     node>>
  BY DEF FreeNode, Goto, Asking, Places
<1>4. h[r].kind \in SpeedKinds
  BY <1>2, <1>3 DEF HandlerOK
<1>5. /\ h' \in [Req -> Handler]
      /\ h'[r].at = "noslot" /\ h'[r].kind = h[r].kind /\ h'[r].n = h[r].n
      /\ h'[r].c = h[r].c /\ h'[r].q = q /\ h'[r].k = h[r].k /\ h'[r].then = h[r].then
      /\ \A s \in Req : s # r => h'[s] = h[s]
  BY <1>1, <1>2, <1>3, GotoIs DEF Places
<1>6. TypeOK'
  BY <1>2, <1>3, <1>5 DEF TypeOK
<1>7. Local(r)
  BY <1>1, <1>3, <1>5 DEF Local, SameNode
<1>8. HandlerOK(r)'
  BY <1>1, <1>2, <1>3, <1>5 DEF HandlerOK, Asking, Places, Streaming
<1>9. Room'
  BY <1>3, <1>5, RoomStays
<1>10. SlotsMatchSessions'
  <2>1. Claiming(r) /\ ~Claiming(r)'
    BY <1>3, <1>4, <1>5 DEF Claiming, Holding
  <2>2. \A x \in Req : HasSlot(x)' <=> HasSlot(x)
    BY <1>3, <1>4, <1>5 DEF HasSlot, Holding
  <2> QED
    BY <1>3, <1>5, <2>1, <2>2, ClaimEnds DEF IInv
<1>11. h'[r].at \notin Streaming \cup {"nostream"}
  BY <1>5 DEF Streaming
<1> QED
  BY <1>1, <1>3, <1>5, <1>6, <1>7, <1>8, <1>9, <1>10, <1>11, AwayKeeps

LEMMA FreeSlotKeeps ==
    ASSUME IInv, NEW r \in Req, FreeSlot(r)
    PROVE  IInv'
<1>1. TypeOK /\ HandlersOK /\ HandlerOK(r) /\ SlotsMatchSessions
  BY DEF IInv, HandlersOK
<1>2. /\ h[r].at = "noslot" /\ h[r].at \in Asking /\ slots' = slots - 1
      /\ h' = [h EXCEPT ![r] = Idle]
      /\ UNCHANGED <<link, peers, inbox, loop, waiters, chan, streams, buf, done, busy, asked,
                     node>>
  BY DEF FreeSlot, Asking, Places
<1>3. h' \in [Req -> Handler] /\ h'[r] = Idle /\ \A x \in Req : x # r => h'[x] = h[x]
  BY <1>1, <1>2, IdleIs, BecomesIs
<1>4. HasSlot(r) /\ ~HasSlot(r)' /\ ~Claiming(r) /\ ~Claiming(r)'
  BY <1>1, <1>2, <1>3, IdleIs DEF HandlerOK, HasSlot, Claiming, Holding
<1>5. slots' \in 0 .. Slots
  <2> DEFINE S == {x \in Req : HasSlot(x)}
  <2>1. IsFiniteSet(S) /\ r \in S /\ slots = Cardinality(S)
    BY <1>1, <1>4, ExchangeAssumption, FS_Subset DEF SlotsMatchSessions
  <2>2. slots # 0
    <3> HIDE DEF S
    <3> QED
      BY <2>1, FS_EmptySet
  <2>3. slots \in 0 .. Slots /\ Slots \in Nat
    BY <1>1, ExchangeAssumption DEF TypeOK
  <2> QED
    BY <1>2, <2>2, <2>3
<1>6. TypeOK'
  BY <1>1, <1>2, <1>3, <1>5 DEF TypeOK
<1>7. Local(r)
  BY <1>2, <1>3 DEF Local
<1>8. HandlerOK(r)'
  BY <1>3, IdleIs DEF HandlerOK, Asking, Places, Streaming
<1>9. Room'
  BY <1>2, <1>3, IdleIs, RoomStays
<1>10. SlotsMatchSessions'
  BY <1>2, <1>3, <1>4, <1>6, SlotsAre
<1>11. h'[r].at \notin Streaming \cup {"nostream"} /\ h'[r].at \notin Asking
  BY <1>3, IdleIs DEF Streaming, Asking, Places
<1> QED
  BY <1>6, <1>7, <1>8, <1>9, <1>10, <1>11, AwayKeeps

LEMMA AcquireKeeps ==
    ASSUME IInv, NEW r \in Req, AcquireSlot(r)
    PROVE  IInv'
<1>1. TypeOK /\ HandlersOK /\ HandlerOK(r) /\ SlotsMatchSessions
  BY DEF IInv, HandlersOK
<1>2. /\ h[r].at = "claim"
      /\ UNCHANGED <<link, peers, inbox, loop, waiters, chan, streams, buf, done, asked, node>>
  BY DEF AcquireSlot
<1>3. /\ h[r].kind \in SpeedKinds /\ h[r].q = 0 /\ h[r].k = 0 /\ h[r].then = "idle"
      /\ Claiming(r) /\ ~HasSlot(r) /\ h[r].c \in Conns \cup {None}
  BY <1>1, <1>2, HandlerTypes DEF HandlerOK, Claiming, HasSlot, Holding, Asking
<1>4. h[r].q \notin Questions
  BY <1>3 DEF Questions
<1>5. CASE slots < Slots
  <2>1. slots' = slots + 1 /\ busy' = busy /\ h' = [h EXCEPT ![r].at = "register"]
    BY <1>5 DEF AcquireSlot, Goto
  <2>2. /\ h' \in [Req -> Handler]
        /\ h'[r].at = "register" /\ h'[r].kind = h[r].kind /\ h'[r].n = h[r].n
        /\ h'[r].c = h[r].c /\ h'[r].q = h[r].q /\ h'[r].k = h[r].k /\ h'[r].then = h[r].then
        /\ \A s \in Req : s # r => h'[s] = h[s]
    BY <1>1, <2>1, GotoIs DEF Places
  <2>3. slots' \in 0 .. Slots
    BY <1>1, <1>5, <2>1, ExchangeAssumption DEF TypeOK
  <2>4. TypeOK'
    BY <1>1, <1>2, <2>1, <2>2, <2>3 DEF TypeOK
  <2>5. Local(r)
    BY <1>2, <1>4, <2>2 DEF Local
  <2>6. h[r].c # None
    BY <1>1, <1>2 DEF HandlerOK
  <2>7. HandlerOK(r)'
    BY <1>3, <2>2, <2>6 DEF HandlerOK, Asking, Places, Streaming
  <2>8. Room'
    BY <1>2, <2>2, RoomStays
  <2>9. HasSlot(r)' /\ Claiming(r)'
    BY <1>3, <2>2 DEF HasSlot, Claiming, Holding
  <2>10. SlotsMatchSessions'
    BY <1>3, <2>1, <2>2, <2>4, <2>9, SlotsAre
  <2>11. h'[r].at \notin Streaming \cup {"nostream"} /\ h'[r].at \notin Asking
    BY <2>2 DEF Streaming, Asking, Places
  <2> QED
    BY <2>4, <2>5, <2>7, <2>8, <2>10, <2>11, AwayKeeps
<1>6. CASE ~(slots < Slots)
  <2>1. slots' = slots /\ busy' = busy \ {h[r].n} /\ h' = [h EXCEPT ![r] = Idle]
    BY <1>6 DEF AcquireSlot
  <2>2. h' \in [Req -> Handler] /\ h'[r] = Idle /\ \A x \in Req : x # r => h'[x] = h[x]
    BY <1>1, <2>1, IdleIs, BecomesIs
  <2>3. TypeOK'
    BY <1>1, <1>2, <2>1, <2>2 DEF TypeOK
  <2>4. Local(r)
    BY <1>2, <1>4, <2>2 DEF Local
  <2>5. HandlerOK(r)'
    BY <2>2, IdleIs DEF HandlerOK, Asking, Places, Streaming
  <2>6. Room'
    BY <1>2, <2>2, IdleIs, RoomStays
  <2>7. ~Claiming(r)' /\ \A x \in Req : HasSlot(x)' <=> HasSlot(x)
    BY <1>3, <2>2, IdleIs DEF HasSlot, Claiming, Holding
  <2>8. SlotsMatchSessions'
    BY <1>1, <1>3, <2>1, <2>2, <2>7, ClaimEnds
  <2>9. h'[r].at \notin Streaming \cup {"nostream"} /\ h'[r].at \notin Asking
    BY <2>2, IdleIs DEF Streaming, Asking, Places
  <2> QED
    BY <2>3, <2>4, <2>5, <2>6, <2>8, <2>9, AwayKeeps
<1> QED
  BY <1>5, <1>6

\* A handler begins: on the connection of the node, and with no question yet.
LEMMA BeginKeeps ==
    ASSUME IInv, NEW r \in Req, NEW kind \in Kinds, NEW n \in Nodes,
           NEW p \in {"claim", "register"}, NEW s, s = Begin(p, kind, n, peers[n]),
           h[r].at = "idle", MayAsk, peers[n] # None, h' = [h EXCEPT ![r] = s],
           UNCHANGED <<link, peers, inbox, loop, waiters, chan, streams, buf, done, slots,
                       asked, node>>,
           \/ p = "register" /\ kind \notin SpeedKinds /\ busy' = busy
           \/ p = "claim" /\ kind \in SpeedKinds /\ n \notin busy /\ busy' = busy \cup {n}
    PROVE  IInv'
<1>1. TypeOK /\ HandlersOK /\ HandlerOK(r) /\ SlotsMatchSessions
  BY DEF IInv, HandlersOK
<1>2. /\ peers[n] \in Conns \cup {None} /\ p \in Places
      /\ kind \in {"probe", "command", "download", "upload"} /\ n \in Nodes \cup {None}
  BY <1>1, ExchangeAssumption DEF TypeOK, Places
<1>3. /\ s.at = p /\ s.kind = kind /\ s.n = n /\ s.c = peers[n] /\ s.q = 0 /\ s.k = 0
      /\ s.then = "idle"
      /\ s = [at |-> p, kind |-> kind, n |-> n, c |-> peers[n], q |-> 0, k |-> 0,
              then |-> "idle"]
  BY BeginsIs
<1>4. s \in Handler
  BY <1>2, <1>3, BeginsHandler
<1>5. h' \in [Req -> Handler] /\ h'[r] = s /\ \A x \in Req : x # r => h'[x] = h[x]
  BY <1>1, <1>4, BecomesIs
<1>6. TypeOK'
  BY <1>1, <1>5 DEF TypeOK
<1>7. h[r].q \notin Questions
  BY <1>1 DEF HandlerOK, Questions, Asking, Places
<1>8. Local(r)
  BY <1>3, <1>5, <1>7 DEF Local
<1>9. HandlerOK(r)'
  BY <1>3, <1>5 DEF HandlerOK, Asking, Places, Streaming
<1>10. Room'
  BY <1>3, <1>5, RoomGrows
<1>11. ~Claiming(r) /\ ~HasSlot(r) /\ ~HasSlot(r)'
  BY <1>3, <1>5 DEF Claiming, HasSlot, Holding
<1>12. SlotsMatchSessions'
  <2>1. CASE kind \notin SpeedKinds
    <3>1. ~Claiming(r)' /\ busy' = busy
      BY <1>3, <1>5, <2>1 DEF Claiming, Holding
    <3>2. ASSUME NEW x \in Req
          PROVE  /\ HasSlot(x)' <=> HasSlot(x)
                 /\ Claiming(x)' <=> Claiming(x)
                 /\ Claiming(x) => h'[x].n = h[x].n
      BY <1>3, <1>5, <1>11, <3>1 DEF HasSlot, Claiming, Holding
    <3> QED
      BY <1>1, <3>1, <3>2, SessionsStay
  <2>2. CASE kind \in SpeedKinds
    <3>1. Claiming(r)' /\ h'[r].n = n /\ n \notin busy /\ busy' = busy \cup {n}
      BY <1>3, <1>5, <2>2 DEF Claiming, Holding
    <3>2. \A x \in Req : x # r => (Claiming(x)' <=> Claiming(x)) /\ h'[x].n = h[x].n
      BY <1>3, <1>5 DEF Claiming, Holding
    <3>3. \A x \in Req : HasSlot(x)' <=> HasSlot(x)
      BY <1>3, <1>5, <1>11 DEF HasSlot, Holding
    <3>4. \A x \in Req : Claiming(x) => h[x].n # n
      BY <1>1, <3>1 DEF SlotsMatchSessions
    <3>5. {x \in Req : HasSlot(x)}' = {x \in Req : HasSlot(x)}
      BY <3>3
    <3>6. {h[x].n : x \in {y \in Req : Claiming(y)}}'
            = {h[x].n : x \in {y \in Req : Claiming(y)}} \cup {n}
      BY <1>11, <3>1, <3>2
    <3>7. \A x, y \in Req : (Claiming(x) /\ Claiming(y) /\ h[x].n = h[y].n)' => x = y
      BY <1>1, <3>1, <3>2, <3>4 DEF SlotsMatchSessions
    <3> QED
      BY <1>1, <3>1, <3>5, <3>6, <3>7 DEF SlotsMatchSessions
  <2> QED
    BY <2>1, <2>2
<1>13. h'[r].at \notin Streaming \cup {"nostream"} /\ h'[r].at \notin Asking
  BY <1>3, <1>5 DEF Streaming, Asking, Places
<1> QED
  BY <1>6, <1>8, <1>9, <1>10, <1>12, <1>13, AwayKeeps

LEMMA StartKeeps ==
    ASSUME IInv, NEW r \in Req, NEW kind \in Kinds, NEW n \in Nodes,
           StartRequest(r, kind, n) \/ StartSpeedtest(r, kind, n)
    PROVE  IInv'
<1>1. CASE StartRequest(r, kind, n)
  <2>1. h' = [h EXCEPT ![r] = Begin("register", kind, n, peers[n])]
    BY <1>1 DEF StartRequest, Begin
  <2> QED
    BY <1>1, <2>1, BeginKeeps DEF StartRequest
<1>2. CASE StartSpeedtest(r, kind, n)
  <2>1. h' = [h EXCEPT ![r] = Begin("claim", kind, n, peers[n])]
    BY <1>2 DEF StartSpeedtest, Begin
  <2> QED
    BY <1>2, <2>1, BeginKeeps DEF StartSpeedtest
<1> QED
  BY <1>1, <1>2

-----------------------------------------------------------------------------
\* A fresh question: nothing is known of it, or under way.
LEMMA RegisterKeeps ==
    ASSUME IInv, NEW r \in Req, Register(r)
    PROVE  IInv'
<1>1. TypeOK /\ HandlersOK /\ HandlerOK(r) /\ SlotsMatchSessions
  BY DEF IInv, HandlersOK
<1> DEFINE q == asked + 1
<1>2. /\ h[r].at = "register" /\ asked' = q /\ waiters' = waiters \cup {q}
      /\ streams' = IF h[r].kind = "download" THEN streams \cup {q} ELSE streams
      /\ h' = [h EXCEPT ![r].at = "send", ![r].q = q]
      /\ UNCHANGED <<link, peers, inbox, loop, chan, buf, done, busy, slots, node>>
  BY DEF Register
<1>3. asked \in Nat /\ MaxAsk \in Nat /\ asked \in 0 .. MaxAsk
  BY <1>1, ExchangeAssumption DEF TypeOK
<1> DEFINE before == {x \in Req : h[x].at \in {"claim", "register"}}
           after  == {x \in Req : h'[x].at \in {"claim", "register"}}
<1>4. IsFiniteSet(before) /\ Cardinality(before) \in Nat /\ r \in before
  BY <1>2, ExchangeAssumption, FS_Subset, FS_CardinalityType
<1>5. Cardinality(before) # 0 /\ asked + Cardinality(before) <= MaxAsk
  <2>1. asked + Cardinality(before) <= MaxAsk
    BY <1>1 DEF HandlersOK, Room
  <2> HIDE DEF before
  <2> QED
    BY <1>4, <2>1, FS_EmptySet
<1>6. q \in Questions /\ q \in 1 .. MaxAsk /\ asked < q /\ q \in Nat
  <2> HIDE DEF before
  <2> QED
    BY <1>3, <1>4, <1>5 DEF Questions
<1> HIDE DEF q
<1> DEFINE s == [h[r] EXCEPT !.at = "send", !.q = q]
<1>7. /\ s \in Handler
      /\ s.at = "send" /\ s.kind = h[r].kind /\ s.n = h[r].n /\ s.c = h[r].c
      /\ s.q = q /\ s.k = h[r].k /\ s.then = h[r].then
  <2>1. h[r] \in Handler /\ q \in 0 .. MaxAsk
    BY <1>1, <1>3, <1>6, HandlerTypes
  <2> QED
    BY <2>1 DEF Handler, Places
<1>8. h' = [h EXCEPT ![r] = s]
  BY <1>2
<1> HIDE DEF s
<1>9. h' \in [Req -> Handler] /\ h'[r] = s /\ \A x \in Req : x # r => h'[x] = h[x]
  BY <1>1, <1>7, <1>8, BecomesIs
<1>10. TypeOK'
  <2>1. asked' \in 0 .. MaxAsk
    BY <1>2, <1>3, <1>6
  <2> QED
    BY <1>1, <1>2, <1>6, <1>9, <2>1 DEF TypeOK
<1>11. AnswerOK(q) /\ node[q].c = None /\ chan[q] = << >> /\ buf[q] = << >> /\ q \notin waiters
  <2>1. AnswerOK(q) /\ q > asked
    BY <1>3, <1>6 DEF IInv
  <2>2. node[q] = Unknown /\ chan[q] = << >> /\ buf[q] = << >> /\ q \notin waiters
    BY <2>1 DEF AnswerOK
  <2> QED
    BY <2>1, <2>2 DEF Unknown
<1>12. \A c \in Conns : ~Delivers(c, q)
  BY <1>11, ExchangeAssumption DEF IInv, MailOK, Delivers
<1>13. ASSUME NEW x \in Questions
       PROVE  AnswerOK(x)'
  <2>1. AnswerOK(x) /\ (Delivers(x, x)' <=> Delivers(x, x)) /\ x \in Nat
    BY <1>2 DEF IInv, Delivers, Questions
  <2>2. \A c \in Conns : Delivers(c, x)' <=> Delivers(c, x)
    BY <1>2 DEF Delivers
  <2>3. x > asked' => x > asked /\ x # q
    BY <1>2, <1>3, <1>6, <2>1
  <2>4. CASE x = q
    BY <1>2, <1>11, <1>12, <2>2, <2>3, <2>4 DEF AnswerOK
  <2>5. CASE x # q
    <3>1. x \in waiters' <=> x \in waiters
      BY <1>2, <2>5
    <3>2. x \in streams' <=> x \in streams
      BY <1>2, <2>5
    <3> QED
      BY <1>2, <2>1, <2>2, <2>3, <3>1, <3>2 DEF AnswerOK
  <2> QED
    BY <2>4, <2>5
<1>14. \A c \in Conns : MailOK(c)'
  BY <1>1, <1>2, MailStays DEF IInv, SameNode
<1>15. ASSUME NEW x \in Req
       PROVE  Flow(x)' /\ Whole(x)'
  <2>1. CASE x = r
    BY <1>7, <1>9, <2>1 DEF Flow, Whole, Streaming
  <2>2. CASE x # r
    BY <1>1, <1>2, <1>9, <2>2, FlowStays DEF IInv, SameNode
  <2> QED
    BY <2>1, <2>2
<1>16. HandlersOK'
  <2>1. ASSUME NEW x \in Req
        PROVE  HandlerOK(x)'
    <3>1. CASE x = r
      <4>1. q \in 1 .. asked'
        BY <1>2, <1>6
      <4>2. /\ h[r].c # None /\ h[r].k = 0 /\ h[r].then = "idle"
        BY <1>1, <1>2 DEF HandlerOK
      <4>3. h[r].kind = "download" => q \in streams'
        BY <1>2
      <4> QED
        BY <1>2, <1>7, <1>9, <1>11, <3>1, <4>1, <4>2, <4>3 DEF HandlerOK, Asking, Places, Streaming
    <3>2. CASE x # r
      <4>1. HandlerOK(x) /\ h'[x] = h[x]
        BY <1>1, <1>9, <3>2 DEF HandlersOK
      <4>2. /\ h[x].q \in 1 .. asked => h[x].q \in 1 .. asked'
            /\ h[x].q \in streams => h[x].q \in streams'
        BY <1>2, <1>3, <1>6
      <4> QED
        BY <1>2, <4>1, <4>2 DEF HandlerOK
    <3> QED
      BY <3>1, <3>2
  <2>2. Own'
    <3>1. ASSUME NEW x \in Req, x # r, h[x].at \in Asking
          PROVE  h[x].q # q
      <4>1. h[x].q \in 1 .. asked
        BY <1>1, <3>1, AskingIs
      <4> QED
        BY <1>3, <1>6, <4>1
    <3> QED
      BY <1>1, <1>7, <1>9, <3>1 DEF Own, HandlersOK
  <2>3. Room'
    <3>1. after = before \ {r}
      BY <1>7, <1>9
    <3>2. asked' + Cardinality(after) <= MaxAsk
      <4> HIDE DEF after, before
      <4>1. Cardinality(after) = Cardinality(before) - 1
        BY <1>4, <3>1, FS_RemoveElement
      <4> QED
        BY <1>2, <1>3, <1>4, <1>5, <4>1 DEF q
    <3> QED
      BY <3>2 DEF Room
  <2> QED
    BY <2>1, <2>2, <2>3 DEF HandlersOK
<1>17. ASSUME NEW x \in Req
       PROVE  /\ HasSlot(x)' <=> HasSlot(x)
              /\ Claiming(x)' <=> Claiming(x)
              /\ Claiming(x) => h'[x].n = h[x].n
  BY <1>2, <1>7, <1>9 DEF HasSlot, Claiming, Holding
<1>18. SlotsMatchSessions'
  BY <1>1, <1>2, <1>17, SessionsStay
<1> QED
  BY <1>10, <1>13, <1>14, <1>15, <1>16, <1>18 DEF IInv

\* The question reaches the node, or is lost with the connection.
LEMMA SendKeeps ==
    ASSUME IInv, NEW r \in Req, Send(r)
    PROVE  IInv'
<1>1. TypeOK /\ HandlersOK /\ HandlerOK(r) /\ SlotsMatchSessions
  BY DEF IInv, HandlersOK
<1>2. /\ h[r].at = "send" /\ h[r].at \in Asking
      /\ UNCHANGED <<link, peers, inbox, loop, waiters, chan, streams, buf, done, busy, slots,
                     asked>>
  BY DEF Send, Asking, Places
<1>3. SUFFICES ASSUME NEW q \in Questions, q = h[r].q
               PROVE  IInv'
  BY <1>1, <1>2, AskingIs
<1>4. /\ q \in 1 .. asked /\ h[r].c # None /\ h[r].c \in Conns /\ h[r].k = 0
      /\ h[r].then = "idle" /\ node[q].c = None
      /\ h[r].kind = "download" => q \in streams
  BY <1>1, <1>2, <1>3, HandlerTypes DEF HandlerOK
<1>5. AnswerOK(q) /\ node[q].sent = 0 /\ chan[q] = << >> /\ buf[q] = << >>
  BY <1>4 DEF IInv, AnswerOK
<1>6. asked \in Nat
  BY <1>1 DEF TypeOK
<1>7. /\ node' \in [Questions -> Known] /\ \A x \in Questions : x # q => node'[x] = node[x]
      /\ node'[q].sent = 0 /\ node'[q].c \in Conns \cup {None}
  <2>1. CASE node' = node
    BY <1>1, <1>4, <1>5, <2>1, NodeTypes DEF TypeOK
  <2>2. CASE node' = [node EXCEPT ![h[r].q] = [Unknown EXCEPT !.c = h[r].c, !.kind = h[r].kind]]
    <3> DEFINE k == Told(h[r].c, h[r].kind)
    <3>1. k = [c |-> h[r].c, kind |-> h[r].kind, sent |-> 0, replies |-> 0, off |-> FALSE]
      BY ToldIs
    <3>2. node' = [node EXCEPT ![q] = k]
      BY <1>3, <2>2 DEF Told
    <3> HIDE DEF k
    <3>3. k \in Known /\ k.c = h[r].c /\ k.sent = 0
      BY <1>1, <1>4, <3>1, HandlerTypes DEF Known
    <3> QED
      BY <1>1, <1>4, <3>2, <3>3 DEF TypeOK
  <2> QED
    BY <2>1, <2>2 DEF Send
<1>8. \E p \in Places, then \in {"idle", "http"} :
        /\ h' = [h EXCEPT ![r].at = p, ![r].then = then]
        /\ \/ p \in {"stream", "nostream"} /\ h[r].kind = "download"
           \/ p \in {"feed", "nowaiter"} /\ h[r].kind = "upload"
           \/ p \in {"wait", "nowaiter"} /\ h[r].kind \in {"probe", "command"}
        /\ then = "http" => h[r].kind = "command"
        /\ p = "nostream" => node'[q].c = None
  <2> DEFINE sent == CASE h[r].kind = "download" -> "stream"
                       [] h[r].kind = "upload"   -> "feed"
                       [] OTHER                  -> "wait"
             failed == IF h[r].kind = "download" THEN "nostream" ELSE "nowaiter"
             then == IF h[r].kind = "command" THEN "http" ELSE "idle"
  <2>1. /\ sent \in Places /\ failed \in Places /\ then \in {"idle", "http"}
        /\ \/ sent = "stream" /\ failed = "nostream" /\ h[r].kind = "download"
           \/ sent = "feed" /\ failed = "nowaiter" /\ h[r].kind = "upload"
           \/ sent = "wait" /\ failed = "nowaiter" /\ h[r].kind \in {"probe", "command"}
        /\ then = "http" => h[r].kind = "command"
    <3>1. h[r].kind \in {"probe", "command", "download", "upload"}
      BY <1>1, HandlerTypes
    <3>2. CASE h[r].kind = "download"
      BY <3>2 DEF Places
    <3>3. CASE h[r].kind = "upload"
      BY <3>3 DEF Places
    <3>4. CASE h[r].kind \in {"probe", "command"}
      <4>1. sent = "wait" /\ failed = "nowaiter"
        BY <3>4
      <4> QED
        BY <3>4, <4>1 DEF Places
    <3> QED
      BY <3>1, <3>2, <3>3, <3>4
  <2>2. \/ h' = [h EXCEPT ![r].at = sent]
        \/ h' = [h EXCEPT ![r].at = failed, ![r].then = then] /\ node' = node
    BY DEF Send, Goto
  <2> HIDE DEF sent, failed, then
  <2>3. CASE h' = [h EXCEPT ![r].at = sent]
    <3>1. h' = [h EXCEPT ![r].at = sent, ![r].then = "idle"]
      <4>1. h[r] \in Handler /\ h \in [Req -> Handler]
        BY <1>1 DEF TypeOK
      <4>2. [h[r] EXCEPT !.at = sent] = [h[r] EXCEPT !.at = sent, !.then = "idle"]
        BY <1>4, <4>1 DEF Handler
      <4> QED
        BY <2>3, <4>1, <4>2
    <3> QED
      BY <2>1, <3>1
  <2>4. CASE h' = [h EXCEPT ![r].at = failed, ![r].then = then] /\ node' = node
    BY <1>4, <2>1, <2>4
  <2> QED
    BY <2>2, <2>3, <2>4
<1>9. PICK p \in Places, then \in {"idle", "http"} :
        /\ h' = [h EXCEPT ![r].at = p, ![r].then = then]
        /\ \/ p \in {"stream", "nostream"} /\ h[r].kind = "download"
           \/ p \in {"feed", "nowaiter"} /\ h[r].kind = "upload"
           \/ p \in {"wait", "nowaiter"} /\ h[r].kind \in {"probe", "command"}
        /\ then = "http" => h[r].kind = "command"
        /\ p = "nostream" => node'[q].c = None
  BY <1>8
<1> DEFINE s == [h[r] EXCEPT !.at = p, !.then = then]
<1>10. /\ s \in Handler
       /\ s.at = p /\ s.kind = h[r].kind /\ s.n = h[r].n /\ s.c = h[r].c
       /\ s.q = q /\ s.k = h[r].k /\ s.then = then
  <2>1. h[r] \in Handler
    BY <1>1, HandlerTypes
  <2> QED
    BY <1>3, <2>1 DEF Handler
<1>11. h' = [h EXCEPT ![r] = s]
  BY <1>9
<1> HIDE DEF s
<1>12. h' \in [Req -> Handler] /\ h'[r] = s /\ \A x \in Req : x # r => h'[x] = h[x]
  BY <1>1, <1>10, <1>11, BecomesIs
<1>13. TypeOK'
  BY <1>1, <1>2, <1>7, <1>12 DEF TypeOK
<1>14. \A c \in Conns : /\ ~Delivers(c, q) /\ ~Pushes(c, q)
                        /\ \A i \in 1 .. Len(inbox[c]) : inbox[c][i].q # q
  BY <1>4, ExchangeAssumption DEF IInv, MailOK, Delivers, Pushes
<1>15. ASSUME NEW x \in Questions
       PROVE  AnswerOK(x)'
  <2>1. AnswerOK(x) /\ \A c \in Conns : Delivers(c, x)' <=> Delivers(c, x)
    BY <1>2 DEF IInv, Delivers
  <2>2. CASE x = q
    <3>1. ~(x > asked')
      BY <1>2, <1>4, <1>6, <2>2
    <3> QED
      BY <1>2, <1>5, <1>7, <1>14, <2>1, <2>2, <3>1 DEF AnswerOK
  <2>3. CASE x # q
    BY <1>2, <1>7, <2>1, <2>3 DEF AnswerOK
  <2> QED
    BY <2>2, <2>3
<1>16. ASSUME NEW c \in Conns
       PROVE  MailOK(c)'
  <2>1. MailOK(c)
    BY DEF IInv
  <2>2. ASSUME NEW i \in 1 .. Len(inbox[c])
        PROVE  node'[inbox[c][i].q] = node[inbox[c][i].q]
    BY <1>1, <1>7, <1>14, LoopTypes
  <2>3. loop[c].at \in {"deliver", "push"} => node'[loop[c].q] = node[loop[c].q]
    BY <1>1, <1>7, <1>14, LoopTypes DEF Delivers, Pushes
  <2> QED
    BY <1>2, <2>1, <2>2, <2>3 DEF MailOK
<1>17. Flow(r)' /\ Whole(r)'
  <2>1. CASE p = "stream"
    <3>1. SUFFICES ASSUME NEW c \in Conns \cup {None}, c = node'[q].c
                   PROVE  Carries(r, q, c)'
      BY <1>7, <1>10, <1>12, <2>1 DEF Flow, Whole
    <3>2. buf'[q] = << >> /\ Taken(r)' = 0 /\ Got(r, q)' = 0
      BY <1>2, <1>4, <1>5, <1>10, <1>12, <2>1 DEF Taken, Got
    <3>3. ASSUME c # None
          PROVE  Follows(c, q, 0)'
      <4>1. c \in Conns /\ ~Pushes(c, q)' /\ ~Delivers(c, q)'
        BY <1>2, <1>14, <3>3 DEF Pushes, Delivers
      <4>2. Coming(c, q, 0)'
        BY <1>2, <1>7, <1>14, <4>1 DEF Coming, IsFrame
      <4> QED
        BY <1>2, <1>5, <4>1, <4>2 DEF Follows
    <3>4. InOrder(buf[q], 1)'
      BY <3>2 DEF InOrder
    <3> QED
      BY <1>10, <1>12, <2>1, <3>2, <3>3, <3>4 DEF Carries, InOrder
  <2>2. CASE p # "stream"
    <3>1. p \notin Streaming
      BY <1>9, <2>2 DEF Streaming
    <3>2. Flow(r)'
      BY <1>10, <1>12, <3>1 DEF Flow
    <3>3. Whole(r)'
      BY <1>9, <1>10, <1>12 DEF Whole
    <3> QED
      BY <3>2, <3>3
  <2> QED
    BY <2>1, <2>2
<1>18. HandlersOK'
  <2>1. ASSUME NEW x \in Req
        PROVE  HandlerOK(x)'
    <3>1. CASE x = r
      <4>1. /\ h'[r].at = p /\ h'[r].kind = h[r].kind /\ h'[r].c = h[r].c /\ h'[r].q = q
            /\ h'[r].then = then /\ asked' = asked /\ streams' = streams
        BY <1>2, <1>10, <1>12
      <4>2. h[r].kind # "command" => then = "idle"
        BY <1>9
      <4>3. CASE p \in {"stream", "nostream"} /\ h[r].kind = "download"
        BY <1>4, <3>1, <4>1, <4>2, <4>3 DEF HandlerOK, Asking, Places, Streaming, SpeedKinds
      <4>4. CASE p \in {"feed", "nowaiter"} /\ h[r].kind = "upload"
        BY <1>4, <3>1, <4>1, <4>2, <4>4 DEF HandlerOK, Asking, Places, Streaming, SpeedKinds
      <4>5. CASE p \in {"wait", "nowaiter"} /\ h[r].kind \in {"probe", "command"}
        BY <1>4, <3>1, <4>1, <4>5 DEF HandlerOK, Asking, Places, Streaming, SpeedKinds
      <4> QED
        BY <1>9, <4>3, <4>4, <4>5
    <3>2. CASE x # r
      <4>1. HandlerOK(x) /\ h'[x] = h[x]
        BY <1>1, <1>12, <3>2 DEF HandlersOK
      <4>2. h[x].at = "send" => node'[h[x].q] = node[h[x].q]
        BY <1>1, <1>3, <1>7, <3>2, AskingIs, OwnQuestion DEF Asking, Places
      <4> QED
        BY <1>2, <4>1, <4>2 DEF HandlerOK
    <3> QED
      BY <3>1, <3>2
  <2>2. Own'
    BY <1>1, <1>2, <1>3, <1>10, <1>12 DEF Own, HandlersOK
  <2>3. Room'
    BY <1>2, <1>9, <1>10, <1>12, RoomStays
  <2> QED
    BY <2>1, <2>2, <2>3 DEF HandlersOK
<1>19. ASSUME NEW x \in Req
       PROVE  /\ HasSlot(x)' <=> HasSlot(x)
              /\ Claiming(x)' <=> Claiming(x)
              /\ Claiming(x) => h'[x].n = h[x].n
  BY <1>2, <1>9, <1>10, <1>12 DEF HasSlot, Claiming, Holding
<1>20. SlotsMatchSessions'
  BY <1>1, <1>2, <1>19, SessionsStay
<1>21. ASSUME NEW x \in Req
       PROVE  Flow(x)' /\ Whole(x)'
  <2>1. CASE x = r
    BY <1>17, <2>1
  <2>2. CASE x # r
    <3>1. Flow(x) /\ Whole(x) /\ h'[x] = h[x]
      BY <1>12, <2>2 DEF IInv
    <3>2. ASSUME h[x].at \in Asking
          PROVE  /\ SameNode(h[x].q) /\ h[x].q \in Questions
                 /\ node[h[x].q].c \in Conns \cup {None}
      BY <1>1, <1>3, <1>7, <2>2, <3>2, AskingIs, OwnQuestion, NodeTypes DEF SameNode
    <3> QED
      BY <1>1, <1>2, <3>1, <3>2, FlowStays
  <2> QED
    BY <2>1, <2>2
<1> QED
  BY <1>13, <1>15, <1>16, <1>18, <1>20, <1>21 DEF IInv

-----------------------------------------------------------------------------
\* Steps of a download.
LEMMA FlowIs ==
    ASSUME NEW r \in Req, NEW q \in Questions, NEW c, q = h'[r].q, c = node'[q].c,
           h'[r].at \in Streaming /\ ~done'[q] => Carries(r, q, c)'
    PROVE  Flow(r)'
BY DEF Flow

LEMMA Delivered ==
    ASSUME IInv, NEW r \in Req, h[r].at \in Streaming
    PROVE  /\ h[r].q \in Questions /\ h[r].q \in 1 .. asked /\ h[r].kind = "download"
           /\ h[r].q \in streams /\ h[r].then = "idle" /\ h[r].k \in Nat
           /\ Taken(r) \in Nat /\ Got(r, h[r].q) \in Nat /\ h[r].at \in Asking
           /\ h[r].c # None
           /\ node[h[r].q].c \in Conns \cup {None}
           /\ ~done[h[r].q] => Carries(r, h[r].q, node[h[r].q].c)
<1>1. TypeOK /\ HandlersOK /\ HandlerOK(r) /\ h[r].at \in Asking
  BY DEF IInv, HandlersOK, Streaming, Asking, Places
<1>2. h[r].q \in Questions /\ h[r].q \in 1 .. asked /\ h[r].k \in Nat
  BY <1>1, AskingIs, HandlerTypes
<1>3. Taken(r) \in Nat /\ Got(r, h[r].q) \in Nat
  <2>1. Taken(r) \in Nat
    BY <1>2 DEF Taken
  <2>2. Len(buf[h[r].q]) \in Nat
    BY <1>1, <1>2, NodeTypes
  <2> QED
    BY <2>1, <2>2 DEF Got
<1>4. ~done[h[r].q] => Carries(r, h[r].q, node[h[r].q].c)
  BY DEF IInv, Flow
<1> QED
  BY <1>1, <1>2, <1>3, <1>4, NodeTypes DEF HandlerOK

\* The frame at the head of the buffer is on its way to the client.
LEMMA TakeFrameKeeps ==
    ASSUME IInv, NEW r \in Req, TakeFrame(r)
    PROVE  IInv'
<1>1. TypeOK /\ HandlersOK /\ HandlerOK(r)
  BY DEF IInv, HandlersOK
<1>2. SUFFICES ASSUME NEW q \in Questions, q = h[r].q, NEW c \in Conns \cup {None},
                      c = node[q].c,
                      NEW p, p = IF h[r].at = "stream" THEN "write" ELSE "drainwrite"
               PROVE  IInv'
  BY Delivered DEF TakeFrame, Streaming
<1>3. /\ h[r].at \in {"stream", "drain"} /\ h[r].at \in Streaming /\ buf[q] # << >>
      /\ buf' = [buf EXCEPT ![q] = Tail(@)]
      /\ h' = [h EXCEPT ![r].at = p]
      /\ UNCHANGED <<link, peers, inbox, loop, waiters, chan, streams, done, busy, slots, asked,
                     node>>
  BY <1>2 DEF TakeFrame, Goto, Streaming
<1>4. /\ q \in 1 .. asked /\ h[r].kind = "download" /\ q \in streams /\ h[r].then = "idle"
      /\ h[r].k \in Nat /\ Taken(r) \in Nat /\ h[r].at \in Asking /\ h[r].c # None
      /\ ~done[q] => Carries(r, q, c)
  BY <1>2, <1>3, Delivered
<1>5. p \in {"write", "drainwrite"} /\ (p = "write" <=> h[r].at = "stream")
  BY <1>2
<1>6. /\ h' \in [Req -> Handler]
      /\ h'[r].at = p /\ h'[r].kind = h[r].kind /\ h'[r].n = h[r].n
      /\ h'[r].c = h[r].c /\ h'[r].q = q /\ h'[r].k = h[r].k /\ h'[r].then = h[r].then
      /\ \A s \in Req : s # r => h'[s] = h[s]
  BY <1>1, <1>2, <1>3, <1>5, GotoIs DEF Places
<1>7. /\ buf[q] \in Seq(Nat) /\ Tail(buf[q]) \in Seq(Nat)
      /\ Len(buf[q]) \in Nat /\ Len(buf[q]) >= 1 /\ Len(Tail(buf[q])) = Len(buf[q]) - 1
      /\ \A i \in 1 .. Len(buf[q]) - 1 : Tail(buf[q])[i] = buf[q][i + 1]
  BY <1>1, <1>3, NodeTypes, TailIs
<1>8. /\ buf' \in [Questions -> Seq(Nat)] /\ buf'[q] = Tail(buf[q])
      /\ \A x \in Questions : x # q => buf'[x] = buf[x]
  BY <1>1, <1>3, <1>7 DEF TypeOK
<1>9. TypeOK'
  BY <1>1, <1>3, <1>6, <1>8 DEF TypeOK
<1>10. Onward(r)
  BY <1>2, <1>3, <1>4, <1>5, <1>6, <1>8 DEF Onward, Local, Asking, Places
<1>11. HandlerOK(r)'
  BY <1>2, <1>3, <1>4, <1>5, <1>6 DEF HandlerOK, Asking, Places, Streaming
<1>12. ASSUME ~done[q]
       PROVE  Carries(r, q, c)'
  <2>1. Carries(r, q, c)
    BY <1>4, <1>12
  <2>2. c # None /\ c \in Conns
    BY <1>2, <1>3 DEF IInv, AnswerOK
  <2>3. Taken(r) = h[r].k /\ Taken(r)' = h[r].k + 1
    BY <1>3, <1>5, <1>6 DEF Taken
  <2>4. Got(r, q)' = Got(r, q) /\ Got(r, q) \in Nat
    <3>1. Got(r, q) = h[r].k + Len(buf[q]) /\ Got(r, q)' = h[r].k + 1 + Len(buf'[q])
      BY <2>3 DEF Got
    <3>2. Len(buf'[q]) = Len(buf[q]) - 1
      BY <1>7, <1>8
    <3>3. Got(r, q)' = h[r].k + 1 + (Len(buf[q]) - 1)
      BY <3>1, <3>2
    <3>4. h[r].k \in Nat /\ Len(buf[q]) \in Nat
      BY <1>4, <1>7
    <3>5. h[r].k + 1 + (Len(buf[q]) - 1) = h[r].k + Len(buf[q]) /\ h[r].k + Len(buf[q]) \in Nat
      BY <3>4
    <3> QED
      BY <3>1, <3>3, <3>5
  <2>5. InOrder(buf'[q], h[r].k + 2)
    <3>1. \A i \in 1 .. Len(buf[q]) : buf[q][i] = h[r].k + 1 + i - 1
      BY <1>7, <2>1, <2>3 DEF Carries, InOrder
    <3>2. DOMAIN buf'[q] = 1 .. Len(buf[q]) - 1
      BY <1>7, <1>8
    <3>3. ASSUME NEW i \in 1 .. Len(buf[q]) - 1
          PROVE  buf'[q][i] = h[r].k + 2 + i - 1
      <4>1. i + 1 \in 1 .. Len(buf[q]) /\ i \in Nat
        BY <1>7
      <4>2. buf[q][i + 1] = h[r].k + 1 + (i + 1) - 1
        BY <3>1, <4>1
      <4>3. buf'[q][i] = buf[q][i + 1]
        BY <1>7, <1>8
      <4> QED
        BY <1>4, <4>1, <4>2, <4>3
    <3> QED
      BY <3>2, <3>3 DEF InOrder
  <2>6. Follows(c, q, Got(r, q))
    BY <2>1, <2>2 DEF Carries
  <2>7. ASSUME NEW e \in Nat, e = Got(r, q)
        PROVE  Follows(c, q, e)'
    BY <1>3, <2>2, <2>6, <2>7, FollowsStays
  <2>8. Follows(c, q, Got(r, q))'
    BY <2>4, <2>7
  <2>9. InOrder(buf[q], Taken(r) + 1)'
    BY <1>4, <2>3, <2>5
  <2>10. h'[r].at = "drainwrite" => Got(r, q) = node[q].sent /\ node[q].replies > 0
    BY <1>3, <1>5, <1>6, <2>1 DEF Carries
  <2> QED
    BY <1>3, <1>5, <1>6, <2>2, <2>4, <2>8, <2>9, <2>10 DEF Carries
<1>13. Flow(r)'
  BY <1>2, <1>3, <1>6, <1>12, FlowIs
<1>14. Whole(r)'
  BY <1>5, <1>6 DEF Whole
<1> QED
  BY <1>9, <1>10, <1>11, <1>13, <1>14, OnwardKeeps

\* The client has the frame.
LEMMA ClientTakesKeeps ==
    ASSUME IInv, NEW r \in Req, ClientTakes(r)
    PROVE  IInv'
<1>1. TypeOK /\ HandlersOK /\ HandlerOK(r)
  BY DEF IInv, HandlersOK
<1>2. SUFFICES ASSUME NEW q \in Questions, q = h[r].q, NEW c \in Conns \cup {None},
                      c = node[q].c
               PROVE  IInv'
  BY Delivered DEF ClientTakes, Streaming
<1>3. /\ h[r].at \in {"write", "drainwrite"} /\ h[r].at \in Streaming
      /\ UNCHANGED <<link, peers, inbox, loop, waiters, chan, streams, buf, done, busy, slots,
                     asked, node>>
  BY DEF ClientTakes, Streaming
<1>4. /\ q \in 1 .. asked /\ h[r].kind = "download" /\ q \in streams /\ h[r].then = "idle"
      /\ h[r].k \in Nat /\ Taken(r) \in Nat /\ h[r].at \in Asking /\ h[r].c # None
      /\ Got(r, q) \in Nat
      /\ ~done[q] => Carries(r, q, c)
  BY <1>2, <1>3, Delivered
<1> DEFINE p == IF h[r].at = "write" THEN "stream" ELSE "drain"
           k == h[r].k + 1
           s == [h[r] EXCEPT !.at = p, !.k = k]
<1>5. p \in {"stream", "drain"} /\ (p = "stream" <=> h[r].at = "write")
  OBVIOUS
<1>6. k = h[r].k + 1 /\ k \in Nat /\ h[r] \in Handler
  BY <1>1, <1>4, HandlerTypes
<1>7. h' = [h EXCEPT ![r] = s]
  <2>1. h \in [Req -> Handler]
    BY <1>1 DEF TypeOK
  <2> QED
    BY <2>1 DEF ClientTakes
<1> HIDE DEF p, k
<1>8. /\ s \in Handler
      /\ s.at = p /\ s.kind = h[r].kind /\ s.n = h[r].n /\ s.c = h[r].c
      /\ s.q = q /\ s.k = k /\ s.then = h[r].then
  BY <1>2, <1>5, <1>6 DEF Handler, Places
<1> HIDE DEF s
<1>9. h' \in [Req -> Handler] /\ h'[r] = s /\ \A x \in Req : x # r => h'[x] = h[x]
  BY <1>1, <1>7, <1>8, BecomesIs
<1>10. TypeOK'
  BY <1>1, <1>3, <1>9 DEF TypeOK
<1>11. Onward(r)
  BY <1>2, <1>3, <1>4, <1>5, <1>8, <1>9 DEF Onward, Local, Asking, Places
<1>12. HandlerOK(r)'
  BY <1>2, <1>3, <1>4, <1>5, <1>8, <1>9 DEF HandlerOK, Asking, Places, Streaming
<1>13. ASSUME ~done[q]
       PROVE  Carries(r, q, c)'
  <2>1. Carries(r, q, c)
    BY <1>4, <1>13
  <2>2. Taken(r)' = Taken(r) /\ Got(r, q)' = Got(r, q)
    BY <1>3, <1>5, <1>6, <1>8, <1>9 DEF Taken, Got
  <2>3. Taken(r) # 0
    BY <1>3, <1>4 DEF Taken
  <2>4. c # None /\ c \in Conns /\ Follows(c, q, Got(r, q))
    BY <1>2, <2>1, <2>3 DEF Carries
  <2>5. ASSUME NEW e \in Nat, e = Got(r, q)
        PROVE  Follows(c, q, e)'
    BY <1>3, <2>4, <2>5, FollowsStays
  <2>6. Follows(c, q, Got(r, q))'
    BY <1>4, <2>2, <2>5
  <2>7. h'[r].at = "drain" => Got(r, q) = node[q].sent /\ node[q].replies > 0
    BY <1>3, <1>5, <1>8, <1>9, <2>1 DEF Carries
  <2> QED
    BY <1>3, <1>5, <1>8, <1>9, <2>1, <2>2, <2>4, <2>6, <2>7 DEF Carries
<1>14. Flow(r)'
  BY <1>2, <1>3, <1>8, <1>9, <1>13, FlowIs
<1>15. Whole(r)'
  BY <1>5, <1>8, <1>9 DEF Whole
<1> QED
  BY <1>10, <1>11, <1>12, <1>14, <1>15, OnwardKeeps

\* The result: all frames are buffered.
LEMMA TakeResultKeeps ==
    ASSUME IInv, NEW r \in Req, TakeResult(r)
    PROVE  IInv'
<1>1. TypeOK /\ HandlersOK /\ HandlerOK(r)
  BY DEF IInv, HandlersOK
<1>2. SUFFICES ASSUME NEW q \in Questions, q = h[r].q, NEW c \in Conns \cup {None},
                      c = node[q].c
               PROVE  IInv'
  BY Delivered DEF TakeResult, Streaming
<1>3. /\ h[r].at = "stream" /\ h[r].at \in Streaming /\ chan[q] # << >>
      /\ chan' = [chan EXCEPT ![q] = << >>]
      /\ h' = [h EXCEPT ![r].at = "drain"]
      /\ UNCHANGED <<link, peers, inbox, loop, waiters, streams, buf, done, busy, slots, asked,
                     node>>
  BY <1>2 DEF TakeResult, Goto, Streaming
<1>4. /\ q \in 1 .. asked /\ h[r].kind = "download" /\ q \in streams /\ h[r].then = "idle"
      /\ h[r].k \in Nat /\ Taken(r) \in Nat /\ h[r].at \in Asking /\ h[r].c # None
      /\ Got(r, q) \in Nat
      /\ ~done[q] => Carries(r, q, c)
  BY <1>2, <1>3, Delivered
<1>5. /\ h' \in [Req -> Handler]
      /\ h'[r].at = "drain" /\ h'[r].kind = h[r].kind /\ h'[r].n = h[r].n
      /\ h'[r].c = h[r].c /\ h'[r].q = q /\ h'[r].k = h[r].k /\ h'[r].then = h[r].then
      /\ \A s \in Req : s # r => h'[s] = h[s]
  BY <1>1, <1>2, <1>3, GotoIs DEF Places
<1>6. /\ chan' \in [Questions -> Seq(Message)] /\ chan'[q] = << >>
      /\ \A x \in Questions : x # q => chan'[x] = chan[x]
  BY <1>1, <1>3 DEF TypeOK
<1>7. TypeOK'
  BY <1>1, <1>3, <1>5, <1>6 DEF TypeOK
<1>8. Onward(r)
  BY <1>2, <1>3, <1>4, <1>5, <1>6 DEF Onward, Local, Asking, Places
<1>9. HandlerOK(r)'
  BY <1>2, <1>3, <1>4, <1>5 DEF HandlerOK, Asking, Places, Streaming
<1>10. ASSUME ~done[q]
       PROVE  Carries(r, q, c)'
  <2>1. Carries(r, q, c)
    BY <1>4, <1>10
  <2>2. c # None /\ c \in Conns /\ node[q].replies > 0
    BY <1>2, <1>3 DEF IInv, AnswerOK
  <2>3. Taken(r)' = Taken(r) /\ Got(r, q)' = Got(r, q)
    BY <1>3, <1>5 DEF Taken, Got
  <2>4. Follows(c, q, Got(r, q)) /\ Got(r, q) = node[q].sent
    BY <1>3, <2>1, <2>2 DEF Carries, Follows
  <2>5. ASSUME NEW e \in Nat, e = Got(r, q)
        PROVE  Follows(c, q, e)'
    BY <1>3, <1>6, <2>2, <2>4, <2>5, FollowsStays
  <2>6. Follows(c, q, Got(r, q))'
    BY <1>4, <2>3, <2>5
  <2> QED
    BY <1>3, <1>5, <2>1, <2>2, <2>3, <2>4, <2>6 DEF Carries
<1>11. Flow(r)'
  BY <1>2, <1>3, <1>5, <1>10, FlowIs
<1>12. Whole(r)'
  BY <1>5 DEF Whole
<1> QED
  BY <1>7, <1>8, <1>9, <1>11, <1>12, OnwardKeeps

\* A download ends: its context is done, or the answer and all the frames were
\* taken.
LEMMA StreamEnds ==
    ASSUME IInv, NEW r \in Req, h[r].at \in Streaming, h' = [h EXCEPT ![r].at = "nostream"],
           node' = node \/ Cancel(r),
           done' = done \/ done' = [done EXCEPT ![h[r].q] = TRUE],
           done'[h[r].q] \/ (h[r].at = "drain" /\ buf[h[r].q] = << >>),
           UNCHANGED <<link, peers, inbox, loop, waiters, chan, streams, buf, busy, slots,
                       asked>>
    PROVE  IInv'
<1>1. TypeOK /\ HandlersOK /\ HandlerOK(r)
  BY DEF IInv, HandlersOK
<1>2. SUFFICES ASSUME NEW q \in Questions, q = h[r].q, NEW c \in Conns \cup {None},
                      c = node[q].c
               PROVE  IInv'
  BY Delivered
<1>3. /\ q \in 1 .. asked /\ h[r].kind = "download" /\ q \in streams /\ h[r].then = "idle"
      /\ h[r].k \in Nat /\ h[r].at \in Asking /\ h[r].c # None
      /\ ~done[q] => Carries(r, q, c)
  BY <1>2, Delivered
<1>4. /\ h' \in [Req -> Handler]
      /\ h'[r].at = "nostream" /\ h'[r].kind = h[r].kind /\ h'[r].n = h[r].n
      /\ h'[r].c = h[r].c /\ h'[r].q = q /\ h'[r].k = h[r].k /\ h'[r].then = h[r].then
      /\ \A s \in Req : s # r => h'[s] = h[s]
  BY <1>1, <1>2, GotoIs DEF Places
<1>5. /\ node' \in [Questions -> Known]
      /\ \A x \in Questions : SameNode(x)
      /\ \A x \in Questions : x # q => node'[x] = node[x]
  <2>1. CASE node' = node
    BY <1>1, <2>1 DEF TypeOK, SameNode
  <2>2. CASE Cancel(r)
    BY <1>1, <1>2, <1>3, <2>2, CancelIs
  <2> QED
    BY <2>1, <2>2
<1>6. /\ done' \in [Questions -> BOOLEAN]
      /\ \A x \in Questions : x # q => done'[x] = done[x]
      /\ done[q] => done'[q]
  BY <1>1, <1>2 DEF TypeOK
<1>7. TypeOK'
  BY <1>1, <1>4, <1>5, <1>6 DEF TypeOK
<1>8. Onward(r)
  <2>1. Local(r)
    BY <1>2, <1>4, <1>5, <1>6 DEF Local, SameNode
  <2>2. h[r].at \in Asking \ {"noslot"} /\ h'[r].at \in Asking \ {"noslot"}
    BY <1>3, <1>4 DEF Asking, Places, Streaming
  <2> QED
    BY <1>2, <1>4, <2>1, <2>2 DEF Onward
<1>9. HandlerOK(r)'
  BY <1>2, <1>3, <1>4 DEF HandlerOK, Asking, Places, Streaming
<1>10. Flow(r)'
  BY <1>4 DEF Flow, Streaming
<1>11. Whole(r)'
  <2>1. SUFFICES ASSUME ~done'[q]
                 PROVE  h[r].k = node'[q].sent /\ node'[q].replies > 0
    BY <1>4 DEF Whole
  <2>2. ~done[q] /\ h[r].at = "drain" /\ buf[q] = << >>
    BY <1>2, <1>6, <2>1
  <2>3. Got(r, q) = node[q].sent /\ node[q].replies > 0
    BY <1>3, <2>2 DEF Carries
  <2>4. Got(r, q) = h[r].k + Len(buf[q]) /\ Len(buf[q]) = 0
    BY <2>2 DEF Got, Taken
  <2>5. node'[q].sent = node[q].sent /\ node'[q].replies = node[q].replies
    BY <1>5 DEF SameNode
  <2>6. h[r].k = Got(r, q)
    BY <1>3, <2>4
  <2> QED
    BY <2>3, <2>5, <2>6
<1> QED
  BY <1>7, <1>8, <1>9, <1>10, <1>11, OnwardKeeps

LEMMA EndingKeeps ==
    ASSUME IInv, NEW r \in Req, ClientGone(r) \/ Drained(r) \/ ContextDone(r)
    PROVE  IInv'
<1>1. CASE ClientGone(r)
  <2>1. h[r].at \in Streaming /\ h[r].q \in Questions
    BY <1>1, Delivered DEF ClientGone, Streaming
  <2>2. done'[h[r].q]
    BY <1>1, <2>1 DEF ClientGone, IInv, TypeOK
  <2>3. node' = node \/ Cancel(r)
    BY <1>1 DEF ClientGone
  <2> QED
    BY <1>1, <2>1, <2>2, <2>3, StreamEnds DEF ClientGone, Goto
<1>2. CASE Drained(r)
  <2>1. /\ h[r].at = "drain" /\ h[r].at \in Streaming /\ buf[h[r].q] = << >>
        /\ h' = [h EXCEPT ![r].at = "nostream"] /\ done' = done /\ node' = node
        /\ UNCHANGED <<link, peers, inbox, loop, waiters, chan, streams, buf, busy, slots, asked>>
    BY <1>2 DEF Drained, Goto, Streaming
  <2>2. /\ node' = node \/ Cancel(r)
        /\ done' = done \/ done' = [done EXCEPT ![h[r].q] = TRUE]
        /\ done'[h[r].q] \/ (h[r].at = "drain" /\ buf[h[r].q] = << >>)
    BY <2>1
  <2> QED
    BY <2>1, <2>2, StreamEnds
<1>3. CASE ContextDone(r)
  <2>1. /\ h[r].at \in Streaming /\ done'[h[r].q] /\ Cancel(r)
        /\ h' = [h EXCEPT ![r].at = "nostream"] /\ done' = done
        /\ UNCHANGED <<link, peers, inbox, loop, waiters, chan, streams, buf, busy, slots, asked>>
    BY <1>3 DEF ContextDone, Goto, Streaming
  <2>2. /\ node' = node \/ Cancel(r)
        /\ done' = done \/ done' = [done EXCEPT ![h[r].q] = TRUE]
        /\ done'[h[r].q] \/ (h[r].at = "drain" /\ buf[h[r].q] = << >>)
    BY <2>1
  <2> QED
    BY <2>1, <2>2, StreamEnds
<1> QED
  BY <1>1, <1>2, <1>3

LEMMA ExpireKeeps ==
    ASSUME IInv, NEW r \in Req, Expire(r)
    PROVE  IInv'
<1>1. TypeOK /\ HandlersOK /\ HandlerOK(r) /\ h[r].at \in Streaming
  BY DEF IInv, HandlersOK, Expire, Streaming
<1>2. SUFFICES ASSUME NEW q \in Questions, q = h[r].q
               PROVE  IInv'
  BY <1>1, Delivered
<1>3. /\ done' = [done EXCEPT ![q] = TRUE]
      /\ UNCHANGED <<link, peers, inbox, loop, waiters, chan, streams, buf, busy, slots, h,
                     asked, node>>
  BY <1>2 DEF Expire
<1>4. /\ done' \in [Questions -> BOOLEAN] /\ done'[q]
      /\ \A x \in Questions : x # q => done'[x] = done[x]
  BY <1>1, <1>3 DEF TypeOK
<1>5. TypeOK'
  BY <1>1, <1>3, <1>4 DEF TypeOK
<1>6. Onward(r)
  BY <1>1, <1>2, <1>3, <1>4 DEF Onward, Local, Streaming, Asking, Places
<1>7. HandlerOK(r)'
  BY <1>1, <1>3 DEF HandlerOK
<1>8. Flow(r)' /\ Whole(r)'
  BY <1>1, <1>2, <1>3, <1>4 DEF Flow, Whole, Streaming
<1> QED
  BY <1>5, <1>6, <1>7, <1>8, OnwardKeeps

-----------------------------------------------------------------------------
\* Steps of the read loops, the connections and the nodes: no handler moves.
LEMMA QuietKeeps ==
    ASSUME IInv, TypeOK', h' = h, asked' = asked, streams' = streams, busy' = busy,
           slots' = slots,
           \A x \in Questions : node'[x].c = node[x].c,
           \A x \in Questions : AnswerOK(x)',
           \A c \in Conns : MailOK(c)',
           \A r \in Req : Flow(r)' /\ Whole(r)'
    PROVE  IInv'
<1>1. HandlersOK'
  <2>1. ASSUME NEW r \in Req
        PROVE  HandlerOK(r)'
    <3>1. HandlerOK(r) /\ h'[r] = h[r]
      BY DEF IInv, HandlersOK
    <3>2. h[r].at = "send" => h[r].q \in Questions
      BY AskingIs DEF IInv, Asking, Places
    <3> QED
      BY <3>1, <3>2 DEF HandlerOK
  <2>2. Own' /\ Room'
    BY DEF IInv, HandlersOK, Own, Room
  <2> QED
    BY <2>1, <2>2 DEF HandlersOK
<1>2. SlotsMatchSessions'
  BY SessionsStay DEF IInv, HasSlot, Claiming, Holding
<1> QED
  BY <1>1, <1>2 DEF IInv

\* A download goes on if what it carries does.
LEMMA QuietFlow ==
    ASSUME IInv, NEW r \in Req, h' = h,
           \A x \in Questions : node'[x].c = node[x].c /\ (done[x] => done'[x]),
           \A q \in Questions, c \in Conns \cup {None} :
             q = h[r].q /\ c = node[q].c /\ h[r].at \in Streaming /\ q \in streams
                 /\ Got(r, q) \in Nat /\ Taken(r) \in Nat /\ ~done'[q] /\ Carries(r, q, c)
             => Carries(r, q, c)'
    PROVE  Flow(r)'
<1>1. SUFFICES ASSUME h[r].at \in Streaming
               PROVE  Flow(r)'
  BY DEF Flow
<1>2. SUFFICES ASSUME NEW q \in Questions, q = h[r].q, NEW c \in Conns \cup {None},
                      c = node[q].c, ~done'[q]
               PROVE  Carries(r, q, c)'
  BY <1>1, Delivered DEF Flow
<1>3. /\ q \in streams /\ Taken(r) \in Nat /\ Got(r, q) \in Nat
      /\ ~done[q] => Carries(r, q, c)
  BY <1>1, <1>2, Delivered
<1>4. ~done[q]
  BY <1>2
<1> QED
  BY <1>1, <1>2, <1>3, <1>4

LEMMA QuietWhole ==
    ASSUME IInv, NEW r \in Req, h' = h,
           \A x \in Questions : SameNode(x) /\ (done[x] => done'[x])
    PROVE  Whole(r)'
<1>1. Whole(r) /\ (h[r].at = "nostream" => h[r].q \in Questions)
  BY AskingIs DEF IInv, Asking, Places
<1> QED
  BY <1>1 DEF Whole, SameNode

LEMMA CarriesStays ==
    ASSUME NEW r \in Req, NEW q \in Questions, NEW c \in Conns \cup {None}, NEW e,
           Carries(r, q, c), h' = h, buf'[q] = buf[q], SameNode(q), e = Got(r, q),
           c # None => Follows(c, q, e)'
    PROVE  Carries(r, q, c)'
<1>1. Taken(r)' = Taken(r) /\ Got(r, q)' = e
  BY DEF Taken, Got
<1> QED
  BY <1>1 DEF Carries, SameNode

\* The first message is taken off what is under way.
LEMMA ComingSkips ==
    ASSUME TypeOK, NEW c \in Conns, NEW q \in Questions, NEW e \in Nat, Coming(c, q, e),
           inbox[c] # << >>, inbox'[c] = Tail(inbox[c]), node'[q].sent = node[q].sent,
           loop[c].at # "ended", ~IsFrame(c, 1, q)
    PROVE  Coming(c, q, e)'
<1>1. SUFFICES ASSUME NEW s, s = inbox[c], NEW t, t = inbox'[c], NEW k \in Nat, k = node[q].sent
               PROVE  Coming(c, q, e)'
  BY NodeTypes
<1>2. /\ s \in Seq(Message) /\ t = Tail(s) /\ Len(s) \in Nat /\ Len(s) >= 1
      /\ Len(t) = Len(s) - 1
      /\ \A i \in 1 .. Len(s) - 1 : t[i] = s[i + 1]
  BY <1>1, LoopTypes, TailIs
<1>3. \A i \in 1 .. Len(t) : i + 1 \in 1 .. Len(s) /\ t[i] = s[i + 1]
  BY <1>2
<1>4. \A i \in 1 .. Len(t) : IsFrame(c, i, q)' <=> IsFrame(c, i + 1, q)
  BY <1>1, <1>3 DEF IsFrame
<1>5. /\ e <= k
      /\ \A i \in 1 .. Len(s) : IsFrame(c, i, q) => e < s[i].n /\ s[i].n <= k
      /\ \A i, j \in 1 .. Len(s) : IsFrame(c, i, q) /\ IsFrame(c, j, q) /\ i < j => s[i].n < s[j].n
      /\ \A n \in e + 1 .. k : \E i \in 1 .. Len(s) : IsFrame(c, i, q) /\ s[i].n = n
  BY <1>1 DEF Coming
<1>6. \A i \in 1 .. Len(t) : IsFrame(c, i, q)' => e < t[i].n /\ t[i].n <= k
  BY <1>3, <1>4, <1>5
<1>7. \A i, j \in 1 .. Len(t) : IsFrame(c, i, q)' /\ IsFrame(c, j, q)' /\ i < j => t[i].n < t[j].n
  <2>1. SUFFICES ASSUME NEW i \in 1 .. Len(t), NEW j \in 1 .. Len(t), IsFrame(c, i, q)',
                        IsFrame(c, j, q)', i < j
                 PROVE  t[i].n < t[j].n
    OBVIOUS
  <2>2. i + 1 < j + 1
    BY <2>1
  <2> QED
    BY <1>3, <1>4, <1>5, <2>1, <2>2
<1>8. \A n \in e + 1 .. k : \E i \in 1 .. Len(t) : IsFrame(c, i, q)' /\ t[i].n = n
  <2>1. SUFFICES ASSUME NEW n \in e + 1 .. k
                 PROVE  \E i \in 1 .. Len(t) : IsFrame(c, i, q)' /\ t[i].n = n
    OBVIOUS
  <2>2. PICK i \in 1 .. Len(s) : IsFrame(c, i, q) /\ s[i].n = n
    BY <1>5
  <2>3. i # 1
    BY <2>2
  <2>4. i - 1 \in 1 .. Len(t) /\ (i - 1) + 1 = i
    BY <1>2, <2>3
  <2> QED
    BY <1>3, <1>4, <2>2, <2>4
<1> QED
  BY <1>1, <1>5, <1>6, <1>7, <1>8 DEF Coming

\* ... and a frame taken off is the one that was due.
LEMMA ComingAdvances ==
    ASSUME TypeOK, NEW c \in Conns, NEW q \in Questions, NEW e \in Nat, Coming(c, q, e),
           inbox[c] # << >>, inbox'[c] = Tail(inbox[c]), node'[q].sent = node[q].sent,
           loop[c].at # "ended", IsFrame(c, 1, q)
    PROVE  inbox[c][1].n = e + 1 /\ Coming(c, q, e + 1)'
<1>1. SUFFICES ASSUME NEW s, s = inbox[c], NEW t, t = inbox'[c], NEW k \in Nat, k = node[q].sent
               PROVE  s[1].n = e + 1 /\ Coming(c, q, e + 1)'
  BY NodeTypes
<1>2. /\ s \in Seq(Message) /\ t = Tail(s) /\ Len(s) \in Nat /\ Len(s) >= 1
      /\ Len(t) = Len(s) - 1
      /\ \A i \in 1 .. Len(s) - 1 : t[i] = s[i + 1]
  BY <1>1, LoopTypes, TailIs
<1>3. \A i \in 1 .. Len(t) : i + 1 \in 1 .. Len(s) /\ t[i] = s[i + 1] /\ 1 < i + 1
  BY <1>2
<1>4. \A i \in 1 .. Len(t) : IsFrame(c, i, q)' <=> IsFrame(c, i + 1, q)
  BY <1>1, <1>3 DEF IsFrame
<1>5. /\ e <= k
      /\ \A i \in 1 .. Len(s) : IsFrame(c, i, q) => e < s[i].n /\ s[i].n <= k
      /\ \A i, j \in 1 .. Len(s) : IsFrame(c, i, q) /\ IsFrame(c, j, q) /\ i < j => s[i].n < s[j].n
      /\ \A n \in e + 1 .. k : \E i \in 1 .. Len(s) : IsFrame(c, i, q) /\ s[i].n = n
  BY <1>1 DEF Coming
<1>6. \A i \in 1 .. Len(s) : s[i].n \in Nat
  BY <1>1, LoopTypes
<1>7. 1 \in 1 .. Len(s)
  BY <1>2
<1>8. e + 1 \in e + 1 .. k /\ e + 1 <= k
  BY <1>5, <1>6, <1>7
<1>9. s[1].n = e + 1
  <2>1. PICK i \in 1 .. Len(s) : IsFrame(c, i, q) /\ s[i].n = e + 1
    BY <1>5, <1>8
  <2>2. CASE i = 1
    BY <2>1, <2>2
  <2>3. CASE i # 1
    <3>1. s[1].n < s[i].n /\ e < s[1].n
      BY <1>5, <1>7, <2>1, <2>3
    <3> QED
      BY <1>6, <1>7, <2>1, <3>1
  <2> QED
    BY <2>2, <2>3
<1>10. \A i \in 1 .. Len(t) : IsFrame(c, i, q)' => e + 1 < t[i].n /\ t[i].n <= k
  BY <1>3, <1>4, <1>5, <1>7, <1>9
<1>11. \A i, j \in 1 .. Len(t) : IsFrame(c, i, q)' /\ IsFrame(c, j, q)' /\ i < j => t[i].n < t[j].n
  <2>1. SUFFICES ASSUME NEW i \in 1 .. Len(t), NEW j \in 1 .. Len(t), IsFrame(c, i, q)',
                        IsFrame(c, j, q)', i < j
                 PROVE  t[i].n < t[j].n
    OBVIOUS
  <2>2. i + 1 < j + 1
    BY <2>1
  <2> QED
    BY <1>3, <1>4, <1>5, <2>1, <2>2
<1>12. \A n \in e + 1 + 1 .. k : \E i \in 1 .. Len(t) : IsFrame(c, i, q)' /\ t[i].n = n
  <2>1. SUFFICES ASSUME NEW n \in e + 1 + 1 .. k
                 PROVE  \E i \in 1 .. Len(t) : IsFrame(c, i, q)' /\ t[i].n = n
    OBVIOUS
  <2>2. n \in e + 1 .. k /\ n # e + 1
    OBVIOUS
  <2>3. PICK i \in 1 .. Len(s) : IsFrame(c, i, q) /\ s[i].n = n
    BY <1>5, <2>2
  <2>4. i # 1
    BY <1>9, <2>2, <2>3
  <2>5. i - 1 \in 1 .. Len(t) /\ (i - 1) + 1 = i
    BY <1>2, <2>4
  <2> QED
    BY <1>3, <1>4, <2>3, <2>5
<1> QED
  BY <1>1, <1>8, <1>9, <1>10, <1>11, <1>12 DEF Coming

LEMMA MailAdvances ==
    ASSUME TypeOK, NEW c \in Conns, MailOK(c), inbox[c] # << >>, inbox'[c] = Tail(inbox[c]),
           node' = node, loop'[c].at # "ended",
           loop'[c].at \in {"deliver", "push"} => node[loop'[c].q].c = c,
           loop'[c].at = "deliver" => node[loop'[c].q].replies > 0
    PROVE  MailOK(c)'
<1>1. SUFFICES ASSUME NEW s, s = inbox[c], NEW t, t = inbox'[c]
               PROVE  MailOK(c)'
  OBVIOUS
<1>2. /\ s \in Seq(Message) /\ t = Tail(s) /\ Len(s) \in Nat /\ Len(s) >= 1
      /\ Len(t) = Len(s) - 1
      /\ \A i \in 1 .. Len(s) - 1 : t[i] = s[i + 1]
  BY <1>1, LoopTypes, TailIs
<1>3. \A i \in 1 .. Len(t) : i + 1 \in 1 .. Len(s) /\ t[i] = s[i + 1]
  BY <1>2
<1>4. ASSUME NEW i \in 1 .. Len(t)
      PROVE  /\ node[t[i].q].c = c
             /\ t[i].type = "result" => /\ node[t[i].q].replies > 0
                                        /\ \A j \in i + 1 .. Len(t) :
                                             t[j].q = t[i].q => t[j].type = "result"
  <2>1. i + 1 \in 1 .. Len(s) /\ t[i] = s[i + 1]
    BY <1>3
  <2>2. /\ node[s[i + 1].q].c = c
        /\ s[i + 1].type = "result" => /\ node[s[i + 1].q].replies > 0
                                       /\ \A j \in i + 1 + 1 .. Len(s) :
                                            s[j].q = s[i + 1].q => s[j].type = "result"
    BY <1>1, <2>1 DEF MailOK
  <2>3. \A j \in i + 1 .. Len(t) : j + 1 \in i + 1 + 1 .. Len(s) /\ t[j] = s[j + 1]
    BY <1>2
  <2> QED
    BY <2>1, <2>2, <2>3
<1> QED
  BY <1>1, <1>4 DEF MailOK

-----------------------------------------------------------------------------
\* The read loop takes a message: an answer, ...
LEMMA ReadResultKeeps ==
    ASSUME IInv, NEW c \in Conns, ReadResult(c)
    PROVE  IInv'
<1>1. TypeOK /\ MailOK(c)
  BY DEF IInv
<1>2. SUFFICES ASSUME NEW m, m = Head(inbox[c])
               PROVE  IInv'
  OBVIOUS
<1>3. /\ loop[c] = Reading /\ inbox[c] # << >> /\ m.type = "result"
      /\ inbox' = [inbox EXCEPT ![c] = Tail(@)]
      /\ waiters' = waiters \ {m.q}
      /\ loop' = [loop EXCEPT ![c] =
             IF m.q \in waiters THEN [at |-> "deliver", q |-> m.q, m |-> m] ELSE Reading]
      /\ UNCHANGED <<link, peers, chan, streams, buf, done, busy, slots, h, asked, node>>
  BY <1>2 DEF ReadResult
<1>4. /\ inbox[c] \in Seq(Message) /\ Len(inbox[c]) \in Nat /\ Len(inbox[c]) >= 1
      /\ m = inbox[c][1] /\ m \in Message /\ Tail(inbox[c]) \in Seq(Message)
  BY <1>1, <1>2, <1>3, LoopTypes, TailIs
<1>5. m.q \in Questions /\ 1 \in 1 .. Len(inbox[c])
  BY <1>4 DEF Message
<1>6. /\ node[m.q].c = c /\ node[m.q].replies > 0
      /\ \A j \in 2 .. Len(inbox[c]) : inbox[c][j].q = m.q => inbox[c][j].type = "result"
  BY <1>1, <1>3, <1>4, <1>5 DEF MailOK
<1> DEFINE l == IF m.q \in waiters THEN [at |-> "deliver", q |-> m.q, m |-> m] ELSE Reading
<1>7. /\ l \in {Reading, [at |-> "ended"]} \cup [at : {"deliver", "push"}, q : Questions, m : Message]
      /\ \/ m.q \in waiters /\ l.at = "deliver" /\ l.q = m.q
         \/ m.q \notin waiters /\ l.at = "reading"
  BY <1>4, HandIs DEF Reading
<1>8. loop' = [loop EXCEPT ![c] = l]
  BY <1>3
<1> HIDE DEF l
<1>9. /\ loop' \in [Conns -> {Reading, [at |-> "ended"]}
                      \cup [at : {"deliver", "push"}, q : Questions, m : Message]]
      /\ loop'[c] = l /\ \A d \in Conns : d # c => loop'[d] = loop[d]
  BY <1>1, <1>7, <1>8 DEF TypeOK
<1>10. /\ inbox' \in [Conns -> Seq(Message)] /\ inbox'[c] = Tail(inbox[c])
       /\ \A d \in Conns : d # c => inbox'[d] = inbox[d]
  BY <1>1, <1>3, <1>4 DEF TypeOK
<1>11. TypeOK'
  BY <1>1, <1>3, <1>9, <1>10 DEF TypeOK
<1>12. loop[c].at = "reading" /\ \A x : ~Delivers(c, x) /\ ~Pushes(c, x) /\ ~Pushes(c, x)'
  BY <1>3, <1>7, <1>9 DEF Reading, Delivers, Pushes
<1>13. \A x : Delivers(c, x)' <=> x = m.q /\ m.q \in waiters
  BY <1>7, <1>9 DEF Delivers
<1>14. \A d \in Conns : \A x : d # c => (Delivers(d, x)' <=> Delivers(d, x))
  BY <1>9 DEF Delivers
<1>15. ASSUME NEW x \in Questions
       PROVE  AnswerOK(x)'
  <2>1. AnswerOK(x)
    BY DEF IInv
  <2>2. CASE x = m.q /\ m.q \in waiters
    <3>1. chan[x] = << >> /\ \A d \in Conns : ~Delivers(d, x)
      BY <2>1, <2>2 DEF AnswerOK
    <3>2. \A d \in Conns : Delivers(d, x)' => d = c
      BY <1>14, <3>1
    <3>3. x \notin waiters'
      BY <1>3, <2>2
    <3> QED
      BY <1>3, <2>1, <3>1, <3>2, <3>3 DEF AnswerOK
  <2>3. CASE ~(x = m.q /\ m.q \in waiters)
    <3>1. \A d \in Conns : Delivers(d, x)' <=> Delivers(d, x)
      BY <1>12, <1>13, <1>14, <2>3
    <3>2. x \in waiters' <=> x \in waiters
      BY <1>3, <2>3
    <3> QED
      BY <1>3, <2>1, <3>1, <3>2 DEF AnswerOK
  <2> QED
    BY <2>2, <2>3
<1>16. ASSUME NEW d \in Conns
       PROVE  MailOK(d)'
  <2>1. CASE d = c
    <3>1. /\ loop'[c].at # "ended"
          /\ loop'[c].at \in {"deliver", "push"} => node[loop'[c].q].c = c
          /\ loop'[c].at = "deliver" => node[loop'[c].q].replies > 0
      BY <1>6, <1>7, <1>9
    <3> QED
      BY <1>1, <1>3, <1>10, <2>1, <3>1, MailAdvances
  <2>2. CASE d # c
    BY <1>1, <1>3, <1>9, <1>10, <2>2, MailStays DEF IInv, SameNode
  <2> QED
    BY <2>1, <2>2
<1>17. ASSUME NEW r \in Req
       PROVE  Flow(r)'
  <2>1. ASSUME NEW q \in Questions, NEW d \in Conns \cup {None}, q = h[r].q, d = node[q].c,
               Got(r, q) \in Nat, Carries(r, q, d)
        PROVE  Carries(r, q, d)'
    <3>1. SUFFICES ASSUME NEW e \in Nat, e = Got(r, q), d # None
                   PROVE  Follows(d, q, e)'
      BY <1>3, <2>1, CarriesStays DEF SameNode
    <3>2. d \in Conns /\ Follows(d, q, e)
      BY <2>1, <3>1 DEF Carries
    <3>3. CASE d # c
      BY <1>3, <1>9, <1>10, <3>2, <3>3, FollowsStays
    <3>4. CASE d = c
      <4>1. Coming(c, q, e) /\ (chan[q] # << >> => e = node[q].sent)
        BY <1>12, <3>2, <3>4 DEF Follows
      <4>2. ~IsFrame(c, 1, q)
        BY <1>3, <1>4 DEF IsFrame
      <4>3. Coming(c, q, e)'
        BY <1>1, <1>3, <1>10, <1>12, <4>1, <4>2, ComingSkips
      <4>4. q = m.q => e = node[q].sent
        <5>1. SUFFICES ASSUME q = m.q, e # node[q].sent
                       PROVE  FALSE
          OBVIOUS
        <5>2. e + 1 \in e + 1 .. node[q].sent
          BY <1>1, <4>1, <5>1, NodeTypes DEF Coming
        <5>3. PICK i \in 1 .. Len(inbox[c]) : IsFrame(c, i, q) /\ inbox[c][i].n = e + 1
          BY <1>12, <4>1, <5>2 DEF Coming
        <5>4. i # 1
          BY <4>2, <5>3
        <5>5. i \in 2 .. Len(inbox[c])
          BY <1>4, <5>4
        <5> QED
          BY <1>6, <5>1, <5>3, <5>5 DEF IsFrame
      <4> QED
        BY <1>3, <1>12, <1>13, <3>4, <4>1, <4>3, <4>4 DEF Follows
    <3> QED
      BY <3>3, <3>4
  <2> QED
    BY <1>3, <2>1, QuietFlow
<1>18. \A r \in Req : Whole(r)'
  BY <1>3, QuietWhole DEF SameNode
<1> QED
  BY <1>3, <1>11, <1>15, <1>16, <1>17, <1>18, QuietKeeps

\* ... which goes into the channel, ...
LEMMA DeliverKeeps ==
    ASSUME IInv, NEW c \in Conns, Deliver(c)
    PROVE  IInv'
<1>1. TypeOK /\ MailOK(c) /\ loop[c].at = "deliver"
  BY DEF IInv, Deliver
<1>2. SUFFICES ASSUME NEW p \in Questions, p = loop[c].q, NEW m \in Message, m = loop[c].m
               PROVE  IInv'
  BY <1>1, LoopTypes
<1>3. /\ chan[p] = << >>
      /\ chan' = [chan EXCEPT ![p] = <<m>>]
      /\ loop' = [loop EXCEPT ![c] = Reading]
      /\ UNCHANGED <<link, peers, inbox, waiters, streams, buf, done, busy, slots, h, asked,
                     node>>
  BY <1>2 DEF Deliver
<1>4. /\ loop' \in [Conns -> {Reading, [at |-> "ended"]}
                      \cup [at : {"deliver", "push"}, q : Questions, m : Message]]
      /\ loop'[c] = Reading /\ \A d \in Conns : d # c => loop'[d] = loop[d]
  BY <1>1, <1>3 DEF TypeOK
<1>5. /\ chan' \in [Questions -> Seq(Message)] /\ chan'[p] = <<m>> /\ chan'[p] # << >>
      /\ \A x \in Questions : x # p => chan'[x] = chan[x]
  <2>1. <<m>> \in Seq(Message) /\ <<m>> # << >>
    BY <1>2
  <2> QED
    BY <1>1, <1>3, <2>1 DEF TypeOK
<1>6. TypeOK'
  BY <1>1, <1>3, <1>4, <1>5 DEF TypeOK
<1>7. Delivers(c, p) /\ node[p].c = c /\ node[p].replies > 0
  BY <1>1, <1>2 DEF MailOK, Delivers
<1>8. /\ \A x : ~Pushes(c, x) /\ ~Pushes(c, x)' /\ ~Delivers(c, x)'
      /\ \A x : x # p => ~Delivers(c, x)
      /\ \A d \in Conns : \A x : d # c => (Delivers(d, x)' <=> Delivers(d, x))
  BY <1>1, <1>2, <1>4 DEF Delivers, Pushes, Reading
<1>9. ASSUME NEW x \in Questions
      PROVE  AnswerOK(x)'
  <2>1. AnswerOK(x)
    BY DEF IInv
  <2>2. CASE x = p
    <3>1. x \notin waiters /\ \A d \in Conns : d # c => ~Delivers(d, x)
      BY <1>7, <2>1, <2>2 DEF AnswerOK
    <3>2. \A d \in Conns : ~Delivers(d, x)'
      BY <1>8, <3>1
    <3>3. ~(x > asked) /\ node[x].c # None
      BY <1>7, <2>1, <2>2, ExchangeAssumption DEF AnswerOK, Unknown
    <3> QED
      BY <1>3, <1>7, <2>2, <3>1, <3>2, <3>3 DEF AnswerOK
  <2>3. CASE x # p
    <3>1. \A d \in Conns : Delivers(d, x)' <=> Delivers(d, x)
      BY <1>8, <2>3
    <3> QED
      BY <1>3, <1>5, <2>1, <2>3, <3>1 DEF AnswerOK
  <2> QED
    BY <2>2, <2>3
<1>10. ASSUME NEW d \in Conns
       PROVE  MailOK(d)'
  <2>1. CASE d = c
    BY <1>1, <1>3, <1>4, <2>1 DEF MailOK, Reading
  <2>2. CASE d # c
    BY <1>1, <1>3, <1>4, <2>2, MailStays DEF IInv, SameNode
  <2> QED
    BY <2>1, <2>2
<1>11. ASSUME NEW r \in Req
       PROVE  Flow(r)'
  <2>1. ASSUME NEW q \in Questions, NEW d \in Conns \cup {None}, q = h[r].q, d = node[q].c,
               Got(r, q) \in Nat, Carries(r, q, d)
        PROVE  Carries(r, q, d)'
    <3>1. SUFFICES ASSUME NEW e \in Nat, e = Got(r, q), d # None
                   PROVE  Follows(d, q, e)'
      BY <1>3, <2>1, CarriesStays DEF SameNode
    <3>2. d \in Conns /\ Follows(d, q, e)
      BY <2>1, <3>1 DEF Carries
    <3>3. CASE d # c
      <4>1. q # p
        BY <1>7, <2>1, <3>3
      <4> QED
        BY <1>3, <1>4, <1>5, <3>2, <3>3, <4>1, FollowsStays
    <3>4. CASE d = c
      <4>1. Coming(c, q, e) /\ (Delivers(c, q) \/ chan[q] # << >> => e = node[q].sent)
        BY <1>8, <3>2, <3>4 DEF Follows
      <4>2. Coming(c, q, e)'
        BY <1>1, <1>3, <1>4, <4>1 DEF Coming, IsFrame, Reading
      <4>3. chan'[q] # << >> => chan[q] # << >> \/ Delivers(c, q)
        BY <1>5, <1>7
      <4> QED
        BY <1>3, <1>8, <3>4, <4>1, <4>2, <4>3 DEF Follows
    <3> QED
      BY <3>3, <3>4
  <2> QED
    BY <1>3, <2>1, QuietFlow
<1>12. \A r \in Req : Whole(r)'
  BY <1>3, QuietWhole DEF SameNode
<1> QED
  BY <1>3, <1>6, <1>9, <1>10, <1>11, <1>12, QuietKeeps

\* ... or a frame, which is the one that was due, ...
LEMMA ReadFrameKeeps ==
    ASSUME IInv, NEW c \in Conns, ReadFrame(c)
    PROVE  IInv'
<1>1. TypeOK /\ MailOK(c)
  BY DEF IInv
<1>2. SUFFICES ASSUME NEW m, m = Head(inbox[c])
               PROVE  IInv'
  OBVIOUS
<1>3. /\ loop[c] = Reading /\ inbox[c] # << >> /\ m.type = "frame"
      /\ inbox' = [inbox EXCEPT ![c] = Tail(@)]
      /\ loop' = [loop EXCEPT ![c] =
             IF m.q \in streams THEN [at |-> "push", q |-> m.q, m |-> m] ELSE Reading]
      /\ UNCHANGED <<link, peers, waiters, chan, streams, buf, done, busy, slots, h, asked, node>>
  BY <1>2 DEF ReadFrame
<1>4. /\ inbox[c] \in Seq(Message) /\ Len(inbox[c]) \in Nat /\ Len(inbox[c]) >= 1
      /\ m = inbox[c][1] /\ m \in Message /\ Tail(inbox[c]) \in Seq(Message)
  BY <1>1, <1>2, <1>3, LoopTypes, TailIs
<1>5. m.q \in Questions /\ 1 \in 1 .. Len(inbox[c])
  BY <1>4 DEF Message
<1>6. node[m.q].c = c
  BY <1>1, <1>4, <1>5 DEF MailOK
<1> DEFINE l == IF m.q \in streams THEN [at |-> "push", q |-> m.q, m |-> m] ELSE Reading
<1>7. /\ l \in {Reading, [at |-> "ended"]} \cup [at : {"deliver", "push"}, q : Questions, m : Message]
      /\ \/ m.q \in streams /\ l.at = "push" /\ l.q = m.q /\ l.m = m
         \/ m.q \notin streams /\ l.at = "reading"
  BY <1>4, HandIs DEF Reading
<1>8. loop' = [loop EXCEPT ![c] = l]
  BY <1>3
<1> HIDE DEF l
<1>9. /\ loop' \in [Conns -> {Reading, [at |-> "ended"]}
                      \cup [at : {"deliver", "push"}, q : Questions, m : Message]]
      /\ loop'[c] = l /\ \A d \in Conns : d # c => loop'[d] = loop[d]
  BY <1>1, <1>7, <1>8 DEF TypeOK
<1>10. /\ inbox' \in [Conns -> Seq(Message)] /\ inbox'[c] = Tail(inbox[c])
       /\ \A d \in Conns : d # c => inbox'[d] = inbox[d]
  BY <1>1, <1>3, <1>4 DEF TypeOK
<1>11. TypeOK'
  BY <1>1, <1>3, <1>9, <1>10 DEF TypeOK
<1>12. loop[c].at = "reading" /\ \A x : ~Delivers(c, x) /\ ~Pushes(c, x) /\ ~Delivers(c, x)'
  BY <1>3, <1>7, <1>9 DEF Reading, Delivers, Pushes
<1>13. /\ \A x : Pushes(c, x)' <=> x = m.q /\ m.q \in streams
       /\ m.q \in streams => loop'[c].m = m
  BY <1>7, <1>9 DEF Pushes
<1>14. \A d \in Conns : \A x : Delivers(d, x)' <=> Delivers(d, x)
  BY <1>9, <1>12 DEF Delivers
<1>15. \A x \in Questions : AnswerOK(x)'
  BY <1>3, <1>14 DEF IInv, AnswerOK
<1>16. ASSUME NEW d \in Conns
       PROVE  MailOK(d)'
  <2>1. CASE d = c
    <3>1. /\ loop'[c].at # "ended"
          /\ loop'[c].at \in {"deliver", "push"} => node[loop'[c].q].c = c
          /\ loop'[c].at = "deliver" => node[loop'[c].q].replies > 0
      BY <1>6, <1>7, <1>9
    <3> QED
      BY <1>1, <1>3, <1>10, <2>1, <3>1, MailAdvances
  <2>2. CASE d # c
    BY <1>1, <1>3, <1>9, <1>10, <2>2, MailStays DEF IInv, SameNode
  <2> QED
    BY <2>1, <2>2
<1>17. ASSUME NEW r \in Req
       PROVE  Flow(r)'
  <2>1. ASSUME NEW q \in Questions, NEW d \in Conns \cup {None}, q = h[r].q, d = node[q].c,
               q \in streams, Got(r, q) \in Nat, Carries(r, q, d)
        PROVE  Carries(r, q, d)'
    <3>1. SUFFICES ASSUME NEW e \in Nat, e = Got(r, q), d # None
                   PROVE  Follows(d, q, e)'
      BY <1>3, <2>1, CarriesStays DEF SameNode
    <3>2. d \in Conns /\ Follows(d, q, e)
      BY <2>1, <3>1 DEF Carries
    <3>3. CASE d # c
      BY <1>3, <1>9, <1>10, <3>2, <3>3, FollowsStays
    <3>4. CASE d = c
      <4>1. Coming(c, q, e) /\ (chan[q] # << >> => e = node[q].sent)
        BY <1>12, <3>2, <3>4 DEF Follows
      <4>2. CASE q = m.q
        <5>1. IsFrame(c, 1, q)
          BY <1>3, <1>4, <4>2 DEF IsFrame
        <5>2. m.n = e + 1 /\ Coming(c, q, e + 1)'
          BY <1>1, <1>3, <1>4, <1>10, <1>12, <4>1, <5>1, ComingAdvances
        <5> QED
          BY <1>3, <1>12, <1>13, <2>1, <3>4, <4>1, <4>2, <5>2 DEF Follows
      <4>3. CASE q # m.q
        <5>1. ~IsFrame(c, 1, q)
          BY <1>4, <4>3 DEF IsFrame
        <5>2. Coming(c, q, e)'
          BY <1>1, <1>3, <1>10, <1>12, <4>1, <5>1, ComingSkips
        <5> QED
          BY <1>3, <1>12, <1>13, <3>4, <4>1, <4>3, <5>2 DEF Follows
      <4> QED
        BY <4>2, <4>3
    <3> QED
      BY <3>3, <3>4
  <2> QED
    BY <1>3, <2>1, QuietFlow
<1>18. \A r \in Req : Whole(r)'
  BY <1>3, QuietWhole DEF SameNode
<1> QED
  BY <1>3, <1>11, <1>15, <1>16, <1>17, <1>18, QuietKeeps

\* ... and goes to the end of the buffer, ...
LEMMA PushKeeps ==
    ASSUME IInv, NEW c \in Conns, Push(c)
    PROVE  IInv'
<1>1. TypeOK /\ MailOK(c) /\ loop[c].at = "push"
  BY DEF IInv, Push
<1>2. SUFFICES ASSUME NEW p \in Questions, p = loop[c].q, NEW k \in Nat, k = loop[c].m.n
               PROVE  IInv'
  BY <1>1, LoopTypes DEF Message
<1>3. /\ buf' = [buf EXCEPT ![p] = Append(@, k)]
      /\ loop' = [loop EXCEPT ![c] = Reading]
      /\ UNCHANGED <<link, peers, inbox, waiters, chan, streams, done, busy, slots, h, asked,
                     node>>
  BY <1>2 DEF Push
<1>4. /\ loop' \in [Conns -> {Reading, [at |-> "ended"]}
                      \cup [at : {"deliver", "push"}, q : Questions, m : Message]]
      /\ loop'[c] = Reading /\ \A d \in Conns : d # c => loop'[d] = loop[d]
  BY <1>1, <1>3 DEF TypeOK
<1>5. /\ buf[p] \in Seq(Nat) /\ Append(buf[p], k) \in Seq(Nat) /\ Len(buf[p]) \in Nat
      /\ Len(Append(buf[p], k)) = Len(buf[p]) + 1
      /\ \A i \in 1 .. Len(buf[p]) : Append(buf[p], k)[i] = buf[p][i]
      /\ Append(buf[p], k)[Len(buf[p]) + 1] = k
  BY <1>1, <1>2, NodeTypes, AppendIs
<1>6. /\ buf' \in [Questions -> Seq(Nat)] /\ buf'[p] = Append(buf[p], k)
      /\ \A x \in Questions : x # p => buf'[x] = buf[x]
  BY <1>1, <1>3, <1>5 DEF TypeOK
<1>7. TypeOK'
  BY <1>1, <1>3, <1>4, <1>6 DEF TypeOK
<1>8. Pushes(c, p) /\ node[p].c = c
  BY <1>1, <1>2 DEF MailOK, Pushes
<1>9. /\ \A x : ~Delivers(c, x) /\ ~Pushes(c, x)' /\ ~Delivers(c, x)'
      /\ \A x : x # p => ~Pushes(c, x)
      /\ \A d \in Conns : \A x : Delivers(d, x)' <=> Delivers(d, x)
  BY <1>1, <1>2, <1>4 DEF Delivers, Pushes, Reading
<1>10. ASSUME NEW x \in Questions
       PROVE  AnswerOK(x)'
  <2>1. AnswerOK(x)
    BY DEF IInv
  <2>2. CASE x = p
    <3>1. ~(x > asked) /\ node[x].c # None
      BY <1>8, <2>1, <2>2, ExchangeAssumption DEF AnswerOK, Unknown
    <3> QED
      BY <1>3, <1>9, <2>1, <3>1 DEF AnswerOK
  <2>3. CASE x # p
    BY <1>3, <1>6, <1>9, <2>1, <2>3 DEF AnswerOK
  <2> QED
    BY <2>2, <2>3
<1>11. ASSUME NEW d \in Conns
       PROVE  MailOK(d)'
  <2>1. CASE d = c
    BY <1>1, <1>3, <1>4, <2>1 DEF MailOK, Reading
  <2>2. CASE d # c
    BY <1>1, <1>3, <1>4, <2>2, MailStays DEF IInv, SameNode
  <2> QED
    BY <2>1, <2>2
<1>12. ASSUME NEW r \in Req
       PROVE  Flow(r)'
  <2>1. ASSUME NEW q \in Questions, NEW d \in Conns \cup {None}, q = h[r].q, d = node[q].c,
               Got(r, q) \in Nat, Taken(r) \in Nat, Carries(r, q, d)
        PROVE  Carries(r, q, d)'
    <3>1. CASE q # p
      <4>1. SUFFICES ASSUME NEW e \in Nat, e = Got(r, q), d # None
                     PROVE  Follows(d, q, e)'
        BY <1>3, <1>6, <2>1, <3>1, CarriesStays DEF SameNode
      <4>2. d \in Conns /\ Follows(d, q, e)
        BY <2>1, <4>1 DEF Carries
      <4>3. CASE d # c
        BY <1>3, <1>4, <4>2, <4>3, FollowsStays
      <4>4. CASE d = c
        <5>1. Coming(c, q, e) /\ (chan[q] # << >> => e = node[q].sent)
          BY <1>9, <3>1, <4>2, <4>4 DEF Follows
        <5>2. Coming(c, q, e)'
          BY <1>1, <1>3, <1>4, <5>1 DEF Coming, IsFrame, Reading
        <5> QED
          BY <1>3, <1>9, <4>4, <5>1, <5>2 DEF Follows
      <4> QED
        BY <4>3, <4>4
    <3>2. CASE q = p
      <4>1. SUFFICES ASSUME NEW e \in Nat, e = Got(r, q)
                     PROVE  Carries(r, q, d)'
        BY <2>1
      <4>2. d = c /\ c # None /\ Follows(c, q, e)
        BY <1>8, <2>1, <3>2, <4>1, ExchangeAssumption DEF Carries
      <4>3. /\ k = e + 1 /\ Coming(c, q, e + 1)
            /\ chan[q] # << >> => e = node[q].sent
        BY <1>2, <1>8, <3>2, <4>2 DEF Follows
      <4>4. e # node[q].sent
        BY <1>1, <4>3, NodeTypes DEF Coming
      <4>5. Taken(r)' = Taken(r)
        BY <1>3 DEF Taken
      <4>6. Got(r, q)' = e + 1
        <5>1. e = Taken(r) + Len(buf[q]) /\ Got(r, q)' = Taken(r) + Len(buf'[q])
          BY <4>1, <4>5 DEF Got
        <5>2. Len(buf'[q]) = Len(buf[q]) + 1 /\ Len(buf[q]) \in Nat
          BY <1>5, <1>6, <3>2
        <5>3. Got(r, q)' = Taken(r) + (Len(buf[q]) + 1)
          BY <5>1, <5>2
        <5>4. Taken(r) \in Nat /\ Len(buf[q]) \in Nat
          BY <2>1, <5>2
        <5>5. Taken(r) + (Len(buf[q]) + 1) = (Taken(r) + Len(buf[q])) + 1
          BY <5>4
        <5> QED
          BY <5>1, <5>3, <5>5
      <4>7. Follows(c, q, e + 1)'
        <5>1. Coming(c, q, e + 1)'
          BY <1>1, <1>3, <1>4, <4>3 DEF Coming, IsFrame, Reading
        <5> QED
          BY <1>3, <1>9, <4>3, <4>4, <5>1 DEF Follows
      <4>8. InOrder(buf'[q], Taken(r) + 1)
        <5>1. \A i \in 1 .. Len(buf[q]) : buf[q][i] = Taken(r) + 1 + i - 1
          BY <1>5, <2>1, <3>2 DEF Carries, InOrder
        <5>2. DOMAIN buf'[q] = 1 .. Len(buf[q]) + 1
          BY <1>5, <1>6, <3>2
        <5>3. k = Taken(r) + 1 + (Len(buf[q]) + 1) - 1
          BY <1>5, <2>1, <3>2, <4>1, <4>3 DEF Got
        <5>4. ASSUME NEW i \in 1 .. Len(buf[q]) + 1
              PROVE  buf'[q][i] = Taken(r) + 1 + i - 1
          <6>1. CASE i = Len(buf[q]) + 1
            BY <1>5, <1>6, <3>2, <5>3, <6>1
          <6>2. CASE i # Len(buf[q]) + 1
            <7>1. i \in 1 .. Len(buf[q])
              BY <1>5, <3>2, <6>2
            <7> QED
              BY <1>5, <1>6, <3>2, <5>1, <7>1
          <6> QED
            BY <6>1, <6>2
        <5> QED
          BY <5>2, <5>4 DEF InOrder
      <4>9. h[r].at \notin {"drain", "drainwrite"}
        BY <2>1, <4>1, <4>4 DEF Carries
      <4> QED
        BY <1>3, <4>2, <4>5, <4>6, <4>7, <4>8, <4>9 DEF Carries
    <3> QED
      BY <3>1, <3>2
  <2> QED
    BY <1>3, <2>1, QuietFlow
<1>13. \A r \in Req : Whole(r)'
  BY <1>3, QuietWhole DEF SameNode
<1> QED
  BY <1>3, <1>7, <1>10, <1>11, <1>12, <1>13, QuietKeeps

\* ... or is given up with the download.
LEMMA PushStallsKeeps ==
    ASSUME IInv, NEW c \in Conns, PushStalls(c)
    PROVE  IInv'
<1>1. TypeOK /\ MailOK(c) /\ loop[c].at = "push"
  BY DEF IInv, PushStalls
<1>2. SUFFICES ASSUME NEW p \in Questions, p = loop[c].q
               PROVE  IInv'
  BY <1>1, LoopTypes
<1>3. /\ done' = [done EXCEPT ![p] = TRUE]
      /\ loop' = [loop EXCEPT ![c] = Reading]
      /\ UNCHANGED <<link, peers, inbox, waiters, chan, streams, buf, busy, slots, h, asked,
                     node>>
  BY <1>2 DEF PushStalls
<1>4. /\ loop' \in [Conns -> {Reading, [at |-> "ended"]}
                      \cup [at : {"deliver", "push"}, q : Questions, m : Message]]
      /\ loop'[c] = Reading /\ \A d \in Conns : d # c => loop'[d] = loop[d]
  BY <1>1, <1>3 DEF TypeOK
<1>5. /\ done' \in [Questions -> BOOLEAN] /\ done'[p]
      /\ \A x \in Questions : x # p => done'[x] = done[x]
  BY <1>1, <1>3 DEF TypeOK
<1>6. TypeOK'
  BY <1>1, <1>3, <1>4, <1>5 DEF TypeOK
<1>7. /\ \A x : ~Delivers(c, x) /\ ~Pushes(c, x)' /\ ~Delivers(c, x)'
      /\ \A x : x # p => ~Pushes(c, x)
      /\ \A d \in Conns : \A x : Delivers(d, x)' <=> Delivers(d, x)
  BY <1>1, <1>2, <1>4 DEF Delivers, Pushes, Reading
<1>8. \A x \in Questions : AnswerOK(x)'
  BY <1>3, <1>7 DEF IInv, AnswerOK
<1>9. ASSUME NEW d \in Conns
      PROVE  MailOK(d)'
  <2>1. CASE d = c
    BY <1>1, <1>3, <1>4, <2>1 DEF MailOK, Reading
  <2>2. CASE d # c
    BY <1>1, <1>3, <1>4, <2>2, MailStays DEF IInv, SameNode
  <2> QED
    BY <2>1, <2>2
<1>10. ASSUME NEW r \in Req
       PROVE  Flow(r)'
  <2>1. ASSUME NEW q \in Questions, NEW d \in Conns \cup {None}, q = h[r].q, d = node[q].c,
               Got(r, q) \in Nat, Carries(r, q, d), ~done'[q]
        PROVE  Carries(r, q, d)'
    <3>1. SUFFICES ASSUME NEW e \in Nat, e = Got(r, q), d # None
                   PROVE  Follows(d, q, e)'
      BY <1>3, <2>1, CarriesStays DEF SameNode
    <3>2. d \in Conns /\ Follows(d, q, e) /\ q # p
      BY <1>5, <2>1, <3>1 DEF Carries
    <3>3. CASE d # c
      BY <1>3, <1>4, <3>2, <3>3, FollowsStays
    <3>4. CASE d = c
      <4>1. Coming(c, q, e) /\ (chan[q] # << >> => e = node[q].sent)
        BY <1>7, <3>2, <3>4 DEF Follows
      <4>2. Coming(c, q, e)'
        BY <1>1, <1>3, <1>4, <4>1 DEF Coming, IsFrame, Reading
      <4> QED
        BY <1>3, <1>7, <3>4, <4>1, <4>2 DEF Follows
    <3> QED
      BY <3>3, <3>4
  <2>2. \A x \in Questions : node'[x].c = node[x].c /\ (done[x] => done'[x])
    BY <1>3, <1>5
  <2> QED
    BY <1>3, <2>1, <2>2, QuietFlow
<1>11. \A r \in Req : Whole(r)'
  <2>1. \A x \in Questions : SameNode(x) /\ (done[x] => done'[x])
    BY <1>3, <1>5 DEF SameNode
  <2> QED
    BY <1>3, <2>1, QuietWhole
<1> QED
  BY <1>3, <1>6, <1>8, <1>9, <1>10, <1>11, QuietKeeps

\* A read loop ends: what was under way is lost.
LEMMA ReadErrorKeeps ==
    ASSUME IInv, NEW c \in Conns, ReadError(c)
    PROVE  IInv'
<1>1. TypeOK /\ MailOK(c)
  BY DEF IInv
<1> DEFINE l == [at |-> "ended"]
<1>2. /\ loop[c] = Reading /\ link[c] = "down"
      /\ loop' = [loop EXCEPT ![c] = l]
      /\ inbox' = [inbox EXCEPT ![c] = << >>]
      /\ UNCHANGED <<link, waiters, chan, streams, buf, done, busy, slots, h, asked, node>>
  BY DEF ReadError
<1>3. l.at = "ended" /\ l \in {Reading, [at |-> "ended"]}
                              \cup [at : {"deliver", "push"}, q : Questions, m : Message]
  OBVIOUS
<1> HIDE DEF l
<1>4. /\ loop' \in [Conns -> {Reading, [at |-> "ended"]}
                      \cup [at : {"deliver", "push"}, q : Questions, m : Message]]
      /\ loop'[c] = l /\ \A d \in Conns : d # c => loop'[d] = loop[d]
  BY <1>1, <1>2, <1>3 DEF TypeOK
<1>5. /\ inbox' \in [Conns -> Seq(Message)] /\ inbox'[c] = << >> /\ Len(inbox'[c]) = 0
      /\ \A d \in Conns : d # c => inbox'[d] = inbox[d]
  BY <1>1, <1>2 DEF TypeOK
<1>6. peers' \in [Nodes -> Conns \cup {None}]
  BY <1>1 DEF ReadError, TypeOK
<1>7. TypeOK'
  BY <1>1, <1>2, <1>4, <1>5, <1>6 DEF TypeOK
<1>8. /\ \A x : ~Delivers(c, x) /\ ~Pushes(c, x) /\ ~Pushes(c, x)' /\ ~Delivers(c, x)'
      /\ \A d \in Conns : \A x : Delivers(d, x)' <=> Delivers(d, x)
  BY <1>2, <1>3, <1>4 DEF Delivers, Pushes, Reading
<1>9. \A x \in Questions : AnswerOK(x)'
  BY <1>2, <1>8 DEF IInv, AnswerOK
<1>10. ASSUME NEW d \in Conns
       PROVE  MailOK(d)'
  <2>1. CASE d = c
    <3>1. \A i \in 1 .. Len(inbox'[c]) : FALSE
      BY <1>5
    <3> QED
      BY <1>2, <1>3, <1>4, <1>5, <2>1, <3>1 DEF MailOK
  <2>2. CASE d # c
    BY <1>1, <1>2, <1>4, <1>5, <2>2, MailStays DEF IInv, SameNode
  <2> QED
    BY <2>1, <2>2
<1>11. ASSUME NEW r \in Req
       PROVE  Flow(r)'
  <2>1. ASSUME NEW q \in Questions, NEW d \in Conns \cup {None}, q = h[r].q, d = node[q].c,
               Got(r, q) \in Nat, Carries(r, q, d)
        PROVE  Carries(r, q, d)'
    <3>1. SUFFICES ASSUME NEW e \in Nat, e = Got(r, q), d # None
                   PROVE  Follows(d, q, e)'
      BY <1>2, <2>1, CarriesStays DEF SameNode
    <3>2. d \in Conns /\ Follows(d, q, e)
      BY <2>1, <3>1 DEF Carries
    <3>3. CASE d # c
      BY <1>2, <1>4, <1>5, <3>2, <3>3, FollowsStays
    <3>4. CASE d = c
      <4>1. Coming(c, q, e) /\ (chan[q] # << >> => e = node[q].sent)
        BY <1>8, <3>2, <3>4 DEF Follows
      <4>2. Coming(c, q, e)'
        <5>1. \A i \in 1 .. Len(inbox'[c]) : FALSE
          BY <1>5
        <5> QED
          BY <1>2, <1>3, <1>4, <4>1, <5>1 DEF Coming
      <4> QED
        BY <1>2, <1>8, <3>4, <4>1, <4>2 DEF Follows
    <3> QED
      BY <3>3, <3>4
  <2> QED
    BY <1>2, <2>1, QuietFlow
<1>12. \A r \in Req : Whole(r)'
  BY <1>2, QuietWhole DEF SameNode
<1> QED
  BY <1>2, <1>7, <1>9, <1>10, <1>11, <1>12, QuietKeeps

\* Connections come and go; what is under way on them is another matter.
LEMMA LinkKeeps ==
    ASSUME IInv, NEW c \in Conns, Connect(c) \/ Drop(c)
    PROVE  IInv'
<1>1. TypeOK
  BY DEF IInv
<1>2. /\ link[c] # "down"
      /\ UNCHANGED <<inbox, loop, waiters, chan, streams, buf, done, busy, slots, h, asked, node>>
  BY <1>1 DEF Connect, Drop
<1>3. /\ link' \in [Conns -> {"new", "up", "down"}]
      /\ \A d \in Conns : d # c => link'[d] = link[d]
  BY <1>1 DEF Connect, Drop, TypeOK
<1>4. peers' \in [Nodes -> Conns \cup {None}]
  BY <1>1 DEF Connect, Drop, TypeOK
<1>5. TypeOK'
  BY <1>1, <1>2, <1>3, <1>4 DEF TypeOK
<1>6. \A x \in Questions : AnswerOK(x)'
  BY <1>2 DEF IInv, AnswerOK, Delivers
<1>7. \A d \in Conns : MailOK(d)'
  BY <1>2, <1>3 DEF IInv, MailOK
<1>8. \A r \in Req : Flow(r)' /\ Whole(r)'
  BY <1>1, <1>2, FlowStays DEF IInv, SameNode
<1> QED
  BY <1>2, <1>5, <1>6, <1>7, <1>8, QuietKeeps

-----------------------------------------------------------------------------
\* A node answers; nothing it sends later is a frame of that question.
LEMMA AnswersKeeps ==
    ASSUME IInv, NEW p \in Questions, NodeAnswers(p)
    PROVE  IInv'
<1>1. TypeOK
  BY DEF IInv
<1>2. SUFFICES ASSUME NEW c \in Conns, c = node[p].c
               PROVE  IInv'
  BY <1>1, NodeTypes DEF NodeAnswers
<1> DEFINE m == [type |-> "result", q |-> p, n |-> node[p].sent]
           k == [node[p] EXCEPT !.replies = @ + 1]
<1>3. /\ link[c] = "up" /\ inbox' = [inbox EXCEPT ![c] = Append(@, m)]
      /\ node' = [node EXCEPT ![p] = k]
      /\ UNCHANGED <<link, peers, loop, waiters, chan, streams, buf, done, busy, slots, h, asked>>
  BY <1>2 DEF NodeAnswers
<1>4. m \in Message /\ m.type = "result" /\ m.q = p
  BY <1>1, NodeTypes DEF Message
<1>5. /\ k \in Known /\ k.c = c /\ k.sent = node[p].sent /\ k.replies = node[p].replies + 1
  BY <1>1, <1>2, NodeTypes DEF Known
<1> HIDE DEF m, k
<1>6. /\ node' \in [Questions -> Known] /\ node'[p] = k
      /\ \A x \in Questions : x # p => node'[x] = node[x]
  BY <1>1, <1>3, <1>5 DEF TypeOK
<1>7. /\ inbox[c] \in Seq(Message) /\ Append(inbox[c], m) \in Seq(Message)
      /\ Len(Append(inbox[c], m)) = Len(inbox[c]) + 1 /\ Len(inbox[c]) \in Nat
      /\ \A i \in 1 .. Len(inbox[c]) : Append(inbox[c], m)[i] = inbox[c][i]
      /\ Append(inbox[c], m)[Len(inbox[c]) + 1] = m
  BY <1>1, <1>4, LoopTypes, AppendIs
<1>8. /\ inbox' \in [Conns -> Seq(Message)] /\ inbox'[c] = Append(inbox[c], m)
      /\ \A d \in Conns : d # c => inbox'[d] = inbox[d]
  BY <1>1, <1>3, <1>7 DEF TypeOK
<1>9. TypeOK'
  BY <1>1, <1>3, <1>6, <1>8 DEF TypeOK
<1>10. \A x \in Questions : /\ node'[x].c = node[x].c /\ node'[x].sent = node[x].sent
                            /\ node[x].replies > 0 => node'[x].replies > 0
  BY <1>1, <1>2, <1>5, <1>6, NodeTypes
<1>11. k.replies > 0
  BY <1>1, <1>5, NodeTypes
<1>12. ASSUME NEW x \in Questions
       PROVE  AnswerOK(x)'
  <2>1. AnswerOK(x) /\ \A d \in Conns : Delivers(d, x)' <=> Delivers(d, x)
    BY <1>3 DEF IInv, Delivers
  <2>2. CASE x = p
    <3>1. ~(x > asked)
      BY <1>2, <2>1, <2>2, ExchangeAssumption DEF AnswerOK, Unknown
    <3> QED
      BY <1>3, <1>10, <2>1, <3>1 DEF AnswerOK
  <2>3. CASE x # p
    BY <1>3, <1>6, <2>1, <2>3 DEF AnswerOK
  <2> QED
    BY <2>2, <2>3
<1>13. ASSUME NEW d \in Conns
       PROVE  MailOK(d)'
  <2>1. MailOK(d) /\ (loop[d].at \in {"deliver", "push"} => loop[d].q \in Questions)
    BY <1>1, LoopTypes DEF IInv
  <2>2. loop[d].at = "ended" => d # c
    BY <1>3, <2>1 DEF MailOK
  <2>3. ASSUME NEW i \in 1 .. Len(inbox'[d])
        PROVE  /\ node'[inbox'[d][i].q].c = d
               /\ inbox'[d][i].type = "result"
                  => /\ node'[inbox'[d][i].q].replies > 0
                     /\ \A j \in i + 1 .. Len(inbox'[d]) :
                          inbox'[d][j].q = inbox'[d][i].q => inbox'[d][j].type = "result"
    <3>1. CASE d # c
      <4>1. i \in 1 .. Len(inbox[d]) /\ inbox'[d] = inbox[d] /\ inbox[d][i].q \in Questions
        BY <1>1, <1>8, <2>3, <3>1, LoopTypes
      <4> QED
        BY <1>10, <2>1, <4>1 DEF MailOK
    <3>2. CASE d = c
      <4>1. CASE i = Len(inbox[c]) + 1
        <5>1. inbox'[c][i] = m
          BY <1>7, <1>8, <4>1
        <5>2. \A j \in i + 1 .. Len(inbox'[c]) : FALSE
          BY <1>7, <1>8, <4>1
        <5> QED
          BY <1>4, <1>5, <1>6, <1>11, <3>2, <5>1, <5>2
      <4>2. CASE i # Len(inbox[c]) + 1
        <5>1. i \in 1 .. Len(inbox[c])
          BY <1>7, <1>8, <3>2, <4>2
        <5>2. inbox'[c][i] = inbox[c][i] /\ inbox[c][i].q \in Questions
          BY <1>1, <1>7, <1>8, <5>1, LoopTypes
        <5>3. /\ node[inbox[c][i].q].c = c
              /\ inbox[c][i].type = "result"
                 => /\ node[inbox[c][i].q].replies > 0
                    /\ \A j \in i + 1 .. Len(inbox[c]) :
                         inbox[c][j].q = inbox[c][i].q => inbox[c][j].type = "result"
          BY <2>1, <3>2, <5>1 DEF MailOK
        <5>4. ASSUME NEW j \in i + 1 .. Len(inbox'[c]), inbox[c][i].type = "result",
                     inbox'[c][j].q = inbox[c][i].q
              PROVE  inbox'[c][j].type = "result"
          <6>1. CASE j = Len(inbox[c]) + 1
            BY <1>4, <1>7, <1>8, <6>1
          <6>2. CASE j # Len(inbox[c]) + 1
            <7>1. j \in i + 1 .. Len(inbox[c]) /\ j \in 1 .. Len(inbox[c])
              BY <1>7, <1>8, <5>1, <5>4, <6>2
            <7> QED
              BY <1>7, <1>8, <5>3, <5>4, <7>1
          <6> QED
            BY <6>1, <6>2
        <5> QED
          BY <1>10, <3>2, <5>2, <5>3, <5>4
      <4> QED
        BY <4>1, <4>2
    <3> QED
      BY <3>1, <3>2
  <2> QED
    BY <1>3, <1>8, <1>10, <2>1, <2>2, <2>3 DEF MailOK
<1>14. ASSUME NEW r \in Req
       PROVE  Flow(r)'
  <2>1. ASSUME NEW q \in Questions, NEW d \in Conns \cup {None}, q = h[r].q, d = node[q].c,
               Got(r, q) \in Nat, Carries(r, q, d)
        PROVE  Carries(r, q, d)'
    <3>1. Taken(r)' = Taken(r) /\ Got(r, q)' = Got(r, q)
      BY <1>3 DEF Taken, Got
    <3>2. ASSUME NEW e \in Nat, d # None, Coming(d, q, e)
          PROVE  Coming(d, q, e)'
      <4>1. d \in Conns
        BY <2>1, <3>2
      <4>2. CASE d # c
        BY <1>3, <1>8, <1>10, <3>2, <4>1, <4>2 DEF Coming, IsFrame
      <4>3. CASE d = c
        <5>1. \A i \in 1 .. Len(inbox[c]) : /\ i \in 1 .. Len(inbox'[c]) /\ inbox'[c][i] = inbox[c][i]
                                            /\ IsFrame(c, i, q)' <=> IsFrame(c, i, q)
          BY <1>7, <1>8 DEF IsFrame
        <5>2. \A i \in 1 .. Len(inbox'[c]) : IsFrame(c, i, q)' => i \in 1 .. Len(inbox[c])
          <6>1. SUFFICES ASSUME NEW i \in 1 .. Len(inbox'[c]), i \notin 1 .. Len(inbox[c])
                         PROVE  ~IsFrame(c, i, q)'
            OBVIOUS
          <6>2. i = Len(inbox[c]) + 1
            BY <1>7, <1>8, <6>1
          <6> QED
            BY <1>4, <1>7, <1>8, <6>2 DEF IsFrame
        <5> QED
          BY <1>3, <1>10, <3>2, <4>3, <5>1, <5>2 DEF Coming
      <4> QED
        BY <4>2, <4>3
    <3>3. ASSUME NEW e \in Nat, d # None, Follows(d, q, e)
          PROVE  Follows(d, q, e)'
      <4>1. /\ Pushes(d, q)' <=> Pushes(d, q)
            /\ Delivers(d, q)' <=> Delivers(d, q)
        BY <1>3 DEF Pushes, Delivers
      <4> QED
        BY <1>3, <1>10, <3>2, <3>3, <4>1 DEF Follows
    <3> QED
      BY <1>3, <1>10, <2>1, <3>1, <3>3 DEF Carries
  <2> QED
    BY <1>3, <1>10, <2>1, QuietFlow
<1>15. ASSUME NEW r \in Req
       PROVE  Whole(r)'
  <2>1. Whole(r) /\ (h[r].at = "nostream" => h[r].q \in Questions)
    BY AskingIs DEF IInv, Asking, Places
  <2> QED
    BY <1>3, <1>10, <2>1 DEF Whole
<1> QED
  BY <1>3, <1>9, <1>10, <1>12, <1>13, <1>14, <1>15, QuietKeeps

\* A node sends the next frame of a download it has not answered.
LEMMA SendsFrameKeeps ==
    ASSUME IInv, NEW p \in Questions, NodeSendsFrame(p)
    PROVE  IInv'
<1>1. TypeOK
  BY DEF IInv
<1>2. SUFFICES ASSUME NEW c \in Conns, c = node[p].c, NEW b \in Nat, b = node[p].sent
               PROVE  IInv'
  BY <1>1, NodeTypes DEF NodeSendsFrame
<1> DEFINE m == [type |-> "frame", q |-> p, n |-> b + 1]
           k == [node[p] EXCEPT !.sent = @ + 1]
<1>3. /\ link[c] = "up" /\ inbox' = [inbox EXCEPT ![c] = Append(@, m)]
      /\ node[p].replies = 0
      /\ node' = [node EXCEPT ![p] = k]
      /\ UNCHANGED <<link, peers, loop, waiters, chan, streams, buf, done, busy, slots, h, asked>>
  BY <1>2 DEF NodeSendsFrame
<1>4. m \in Message /\ m.type = "frame" /\ m.q = p /\ m.n = b + 1
  BY <1>1 DEF Message
<1>5. /\ k \in Known /\ k.c = c /\ k.sent = b + 1 /\ k.replies = 0
  <2>1. node[p] \in Known /\ node[p].c = c /\ node[p].sent = b /\ node[p].replies = 0
    BY <1>1, <1>2, <1>3, NodeTypes
  <2>2. k = [node[p] EXCEPT !.sent = b + 1] /\ b + 1 \in Nat
    BY <2>1
  <2> QED
    BY <2>1, <2>2 DEF Known
<1> HIDE DEF m, k
<1>6. /\ node' \in [Questions -> Known] /\ node'[p] = k
      /\ \A x \in Questions : x # p => node'[x] = node[x]
  BY <1>1, <1>3, <1>5 DEF TypeOK
<1>7. /\ inbox[c] \in Seq(Message) /\ Append(inbox[c], m) \in Seq(Message)
      /\ Len(Append(inbox[c], m)) = Len(inbox[c]) + 1 /\ Len(inbox[c]) \in Nat
      /\ \A i \in 1 .. Len(inbox[c]) : Append(inbox[c], m)[i] = inbox[c][i]
      /\ Append(inbox[c], m)[Len(inbox[c]) + 1] = m
  BY <1>1, <1>4, LoopTypes, AppendIs
<1>8. /\ inbox' \in [Conns -> Seq(Message)] /\ inbox'[c] = Append(inbox[c], m)
      /\ \A d \in Conns : d # c => inbox'[d] = inbox[d]
  BY <1>1, <1>3, <1>7 DEF TypeOK
<1>9. TypeOK'
  BY <1>1, <1>3, <1>6, <1>8 DEF TypeOK
<1>10. \A x \in Questions : node'[x].c = node[x].c /\ node'[x].replies = node[x].replies
  BY <1>2, <1>3, <1>5, <1>6
<1>11. \A d \in Conns : \A x : Delivers(d, x)' <=> Delivers(d, x)
  BY <1>3 DEF Delivers
<1>12. ~(p > asked) /\ chan[p] = << >> /\ \A d \in Conns : ~Delivers(d, p)
  <2>1. AnswerOK(p)
    BY DEF IInv
  <2>2. ~(p > asked) /\ chan[p] = << >>
    BY <1>2, <1>3, <2>1, ExchangeAssumption DEF AnswerOK, Unknown
  <2>3. \A d \in Conns : ~Delivers(d, p)
    BY <1>3 DEF IInv, MailOK, Delivers
  <2> QED
    BY <2>2, <2>3
<1>13. ASSUME NEW x \in Questions
       PROVE  AnswerOK(x)'
  <2>1. AnswerOK(x) /\ \A d \in Conns : Delivers(d, x)' <=> Delivers(d, x)
    BY <1>11 DEF IInv
  <2>2. CASE x = p
    <3>1. node'[x].c # None
      BY <1>2, <1>10, <2>2, ExchangeAssumption
    <3> QED
      BY <1>3, <1>12, <2>1, <2>2, <3>1 DEF AnswerOK
  <2>3. CASE x # p
    BY <1>3, <1>6, <2>1, <2>3 DEF AnswerOK
  <2> QED
    BY <2>2, <2>3
<1>14. ASSUME NEW d \in Conns
       PROVE  MailOK(d)'
  <2>1. MailOK(d) /\ (loop[d].at \in {"deliver", "push"} => loop[d].q \in Questions)
    BY <1>1, LoopTypes DEF IInv
  <2>2. loop[d].at = "ended" => d # c
    BY <1>3, <2>1 DEF MailOK
  <2>3. ASSUME NEW i \in 1 .. Len(inbox'[d])
        PROVE  /\ node'[inbox'[d][i].q].c = d
               /\ inbox'[d][i].type = "result"
                  => /\ node'[inbox'[d][i].q].replies > 0
                     /\ \A j \in i + 1 .. Len(inbox'[d]) :
                          inbox'[d][j].q = inbox'[d][i].q => inbox'[d][j].type = "result"
    <3>1. CASE d # c
      <4>1. i \in 1 .. Len(inbox[d]) /\ inbox'[d] = inbox[d] /\ inbox[d][i].q \in Questions
        BY <1>1, <1>8, <2>3, <3>1, LoopTypes
      <4> QED
        BY <1>10, <2>1, <4>1 DEF MailOK
    <3>2. CASE d = c
      <4>1. CASE i = Len(inbox[c]) + 1
        BY <1>2, <1>4, <1>7, <1>8, <1>10, <3>2, <4>1
      <4>2. CASE i # Len(inbox[c]) + 1
        <5>1. i \in 1 .. Len(inbox[c])
          BY <1>7, <1>8, <3>2, <4>2
        <5>2. inbox'[c][i] = inbox[c][i] /\ inbox[c][i].q \in Questions
          BY <1>1, <1>7, <1>8, <5>1, LoopTypes
        <5>3. /\ node[inbox[c][i].q].c = c
              /\ inbox[c][i].type = "result"
                 => /\ node[inbox[c][i].q].replies > 0
                    /\ \A j \in i + 1 .. Len(inbox[c]) :
                         inbox[c][j].q = inbox[c][i].q => inbox[c][j].type = "result"
          BY <2>1, <3>2, <5>1 DEF MailOK
        <5>4. ASSUME NEW j \in i + 1 .. Len(inbox'[c]), inbox[c][i].type = "result",
                     inbox'[c][j].q = inbox[c][i].q
              PROVE  inbox'[c][j].type = "result"
          <6>1. CASE j = Len(inbox[c]) + 1
            <7>1. inbox[c][i].q = p
              BY <1>4, <1>7, <1>8, <5>4, <6>1
            <7> QED
              BY <1>3, <5>3, <5>4, <7>1
          <6>2. CASE j # Len(inbox[c]) + 1
            <7>1. j \in i + 1 .. Len(inbox[c]) /\ j \in 1 .. Len(inbox[c])
              BY <1>7, <1>8, <5>1, <5>4, <6>2
            <7> QED
              BY <1>7, <1>8, <5>3, <5>4, <7>1
          <6> QED
            BY <6>1, <6>2
        <5> QED
          BY <1>10, <3>2, <5>2, <5>3, <5>4
      <4> QED
        BY <4>1, <4>2
    <3> QED
      BY <3>1, <3>2
  <2> QED
    BY <1>3, <1>8, <1>10, <2>1, <2>2, <2>3 DEF MailOK
<1>15. \A i \in 1 .. Len(inbox[c]) : i \in 1 .. Len(inbox'[c]) /\ inbox'[c][i] = inbox[c][i]
  BY <1>7, <1>8
<1>16. ASSUME NEW e \in Nat, Coming(c, p, e)
       PROVE  Coming(c, p, e)'
  <2>1. /\ e <= b
        /\ \A i \in 1 .. Len(inbox[c]) :
             IsFrame(c, i, p) => e < inbox[c][i].n /\ inbox[c][i].n <= b
        /\ \A i, j \in 1 .. Len(inbox[c]) :
             IsFrame(c, i, p) /\ IsFrame(c, j, p) /\ i < j => inbox[c][i].n < inbox[c][j].n
        /\ loop[c].at # "ended"
           => \A n \in e + 1 .. b : \E i \in 1 .. Len(inbox[c]) : IsFrame(c, i, p) /\ inbox[c][i].n = n
    BY <1>2, <1>16 DEF Coming
  <2>2. node'[p].sent = b + 1
    BY <1>5, <1>6
  <2>3. \A i \in 1 .. Len(inbox[c]) : IsFrame(c, i, p)' <=> IsFrame(c, i, p)
    BY <1>15 DEF IsFrame
  <2>4. \A i \in 1 .. Len(inbox'[c]) :
          i \notin 1 .. Len(inbox[c]) => i = Len(inbox[c]) + 1 /\ inbox'[c][i].n = b + 1
    BY <1>4, <1>7, <1>8
  <2>5. \A i \in 1 .. Len(inbox[c]) : inbox[c][i].n \in Nat
    BY <1>1, LoopTypes
  <2>6. ASSUME NEW i \in 1 .. Len(inbox'[c]), IsFrame(c, i, p)'
        PROVE  e < inbox'[c][i].n /\ inbox'[c][i].n <= b + 1
    <3>1. CASE i \in 1 .. Len(inbox[c])
      BY <1>15, <2>1, <2>3, <2>5, <2>6, <3>1
    <3>2. CASE i \notin 1 .. Len(inbox[c])
      BY <2>1, <2>4, <3>2
    <3> QED
      BY <3>1, <3>2
  <2>7. ASSUME NEW i \in 1 .. Len(inbox'[c]), NEW j \in 1 .. Len(inbox'[c]),
               IsFrame(c, i, p)', IsFrame(c, j, p)', i < j
        PROVE  inbox'[c][i].n < inbox'[c][j].n
    <3>1. i \in 1 .. Len(inbox[c])
      BY <1>7, <1>8, <2>7
    <3>2. CASE j \in 1 .. Len(inbox[c])
      BY <1>15, <2>1, <2>3, <2>7, <3>1, <3>2
    <3>3. CASE j \notin 1 .. Len(inbox[c])
      <4>1. inbox'[c][i].n <= b /\ inbox'[c][i].n \in Nat
        BY <1>15, <2>1, <2>3, <2>5, <2>7, <3>1
      <4> QED
        BY <2>4, <3>3, <4>1
    <3> QED
      BY <3>2, <3>3
  <2>8. ASSUME loop[c].at # "ended", NEW n \in e + 1 .. b + 1
        PROVE  \E i \in 1 .. Len(inbox'[c]) : IsFrame(c, i, p)' /\ inbox'[c][i].n = n
    <3>1. CASE n = b + 1
      <4>1. SUFFICES ASSUME NEW i, i = Len(inbox[c]) + 1
                     PROVE  i \in 1 .. Len(inbox'[c]) /\ IsFrame(c, i, p)' /\ inbox'[c][i].n = n
        OBVIOUS
      <4> QED
        BY <1>4, <1>7, <1>8, <3>1, <4>1 DEF IsFrame
    <3>2. CASE n # b + 1
      <4>1. n \in e + 1 .. b
        BY <2>8, <3>2
      <4>2. PICK i \in 1 .. Len(inbox[c]) : IsFrame(c, i, p) /\ inbox[c][i].n = n
        BY <2>1, <2>8, <4>1
      <4> QED
        BY <1>15, <2>3, <4>2
    <3> QED
      BY <3>1, <3>2
  <2>9. e <= b + 1
    BY <2>1
  <2> QED
    BY <1>3, <2>2, <2>6, <2>7, <2>8, <2>9 DEF Coming
<1>17. ASSUME NEW d \in Conns, NEW q \in Questions, d = node[q].c, q # p, NEW e \in Nat,
              Coming(d, q, e)
       PROVE  Coming(d, q, e)'
  <2>1. CASE d # c
    BY <1>3, <1>6, <1>8, <1>17, <2>1 DEF Coming, IsFrame
  <2>2. CASE d = c
    <3>1. \A i \in 1 .. Len(inbox[c]) : IsFrame(c, i, q)' <=> IsFrame(c, i, q)
      BY <1>15 DEF IsFrame
    <3>2. ASSUME NEW i \in 1 .. Len(inbox'[c]), IsFrame(c, i, q)'
          PROVE  i \in 1 .. Len(inbox[c])
      <4>1. CASE i = Len(inbox[c]) + 1
        BY <1>4, <1>7, <1>8, <1>17, <3>2, <4>1 DEF IsFrame
      <4>2. CASE i # Len(inbox[c]) + 1
        BY <1>7, <1>8, <4>2
      <4> QED
        BY <4>1, <4>2
    <3> QED
      BY <1>3, <1>6, <1>15, <1>17, <2>2, <3>1, <3>2 DEF Coming
  <2> QED
    BY <2>1, <2>2
<1>18. ASSUME NEW r \in Req
       PROVE  Flow(r)'
  <2>1. ASSUME NEW q \in Questions, NEW d \in Conns \cup {None}, q = h[r].q, d = node[q].c,
               Got(r, q) \in Nat, Carries(r, q, d)
        PROVE  Carries(r, q, d)'
    <3>1. Taken(r)' = Taken(r) /\ Got(r, q)' = Got(r, q)
      BY <1>3 DEF Taken, Got
    <3>2. ASSUME NEW e \in Nat, d # None, Follows(d, q, e)
          PROVE  Follows(d, q, e)'
      <4>1. /\ Pushes(d, q)' <=> Pushes(d, q)
            /\ Delivers(d, q)' <=> Delivers(d, q)
            /\ d \in Conns
        BY <1>3, <2>1, <3>2 DEF Pushes, Delivers
      <4>2. \A f \in Nat : Coming(d, q, f) => Coming(d, q, f)'
        <5>1. CASE q = p
          BY <1>2, <1>16, <2>1, <5>1
        <5>2. CASE q # p
          BY <1>17, <2>1, <4>1, <5>2
        <5> QED
          BY <5>1, <5>2
      <4>3. Delivers(d, q) \/ chan[q] # << >> => node'[q] = node[q]
        BY <1>6, <1>12, <4>1
      <4> QED
        BY <1>3, <3>2, <4>1, <4>2, <4>3 DEF Follows
    <3>3. h[r].at \in {"drain", "drainwrite"} => q # p
      BY <1>3, <2>1 DEF Carries
    <3> QED
      BY <1>3, <1>6, <2>1, <3>1, <3>2, <3>3 DEF Carries
  <2> QED
    BY <1>3, <1>10, <2>1, QuietFlow
<1>19. ASSUME NEW r \in Req
       PROVE  Whole(r)'
  <2>1. Whole(r) /\ (h[r].at = "nostream" => h[r].q \in Questions)
    BY AskingIs DEF IInv, Asking, Places
  <2>2. CASE h[r].q = p
    BY <1>2, <1>3, <2>1, <2>2, ExchangeAssumption DEF Whole
  <2>3. CASE h[r].q # p
    BY <1>3, <1>6, <2>1, <2>3 DEF Whole
  <2> QED
    BY <2>2, <2>3
<1> QED
  BY <1>3, <1>9, <1>10, <1>13, <1>14, <1>18, <1>19, QuietKeeps

-----------------------------------------------------------------------------
LEMMA InitIInv ==
    ASSUME Init
    PROVE  IInv
<1>1. TypeOK
  <2>1. Unknown \in Known
    BY DEF Unknown, Known
  <2>2. slots \in 0 .. Slots /\ asked \in 0 .. MaxAsk
    BY ExchangeAssumption DEF Init
  <2>3. h \in [Req -> Handler]
    BY IdleIs DEF Init
  <2>4. << >> \in Seq(Message) /\ << >> \in Seq(Nat)
    OBVIOUS
  <2> QED
    BY <2>1, <2>2, <2>3, <2>4 DEF Init, TypeOK
<1>2. \A r \in Req : /\ h[r].at = "idle" /\ h[r].q = 0 /\ h[r].then = "idle" /\ h[r].k = 0
                     /\ h[r].kind = "probe"
  BY IdleIs DEF Init
<1>3. HandlersOK
  <2>1. \A r \in Req : HandlerOK(r)
    BY <1>2 DEF HandlerOK, Asking, Places, Streaming
  <2>2. Own
    BY <1>2 DEF Own, Asking
  <2>3. Room
    <3>1. {r \in Req : h[r].at \in {"claim", "register"}} = {} /\ asked = 0
      BY <1>2 DEF Init
    <3>2. Cardinality({}) = 0 /\ MaxAsk \in Nat
      BY FS_EmptySet, ExchangeAssumption
    <3> QED
      BY <3>1, <3>2 DEF Room
  <2> QED
    BY <2>1, <2>2, <2>3 DEF HandlersOK
<1>4. \A c \in Conns : loop[c].at = "reading" /\ inbox[c] = << >>
  BY DEF Init, Reading
<1>5. ASSUME NEW q \in Questions
      PROVE  AnswerOK(q)
  <2>1. node[q] = Unknown /\ chan[q] = << >> /\ buf[q] = << >> /\ Unknown.sent = 0
        /\ q \notin waiters /\ q \notin streams
    BY DEF Init, Unknown
  <2>2. \A c \in Conns : ~Delivers(c, q)
    BY <1>4 DEF Delivers
  <2> QED
    BY <2>1, <2>2 DEF AnswerOK
<1>6. ASSUME NEW c \in Conns
      PROVE  MailOK(c)
  <2>1. Len(inbox[c]) = 0
    BY <1>4
  <2>2. \A i \in 1 .. Len(inbox[c]) : FALSE
    BY <2>1
  <2> QED
    BY <1>4, <2>2 DEF MailOK
<1>7. SlotsMatchSessions
  <2>1. \A r \in Req : ~HasSlot(r) /\ ~Claiming(r)
    BY <1>2 DEF HasSlot, Claiming, Holding, SpeedKinds
  <2>2. {r \in Req : HasSlot(r)} = {} /\ {h[r].n : r \in {x \in Req : Claiming(x)}} = {}
    BY <2>1
  <2>3. slots = 0 /\ busy = {} /\ Cardinality({}) = 0 /\ 0 <= Slots
    BY FS_EmptySet, ExchangeAssumption DEF Init
  <2> QED
    BY <2>1, <2>2, <2>3 DEF SlotsMatchSessions
<1>8. \A r \in Req : Flow(r) /\ Whole(r)
  BY <1>2 DEF Flow, Whole, Streaming
<1> QED
  BY <1>1, <1>3, <1>5, <1>6, <1>7, <1>8 DEF IInv

\* The inductive invariant: every step of a handler, a timer, a client, a read
\* loop, a connection and a node keeps it.
THEOREM ExchangeInductive == Spec => []IInv
<1>1. Init => IInv
  BY InitIInv
<1>2. IInv /\ [Next]_vars => IInv'
  <2>1. SUFFICES ASSUME IInv, [Next]_vars
                 PROVE  IInv'
    OBVIOUS
  <2>2. CASE UNCHANGED vars
    <3>1. UNCHANGED <<link, peers, inbox, loop, waiters, chan, streams, buf, done, busy, slots,
                      h, asked, node>>
      BY <2>2 DEF vars
    <3>2. TypeOK'
      BY <2>1, <3>1 DEF IInv, TypeOK
    <3>3. \A x \in Questions : AnswerOK(x)'
      BY <2>1, <3>1 DEF IInv, AnswerOK, Delivers
    <3>4. \A c \in Conns : MailOK(c)'
      BY <2>1, <3>1 DEF IInv, MailOK
    <3>5. \A r \in Req : Flow(r)' /\ Whole(r)'
      BY <2>1, <3>1, FlowStays DEF IInv, SameNode
    <3> QED
      BY <2>1, <3>1, <3>2, <3>3, <3>4, <3>5, QuietKeeps
  <2>3. ASSUME NEW r \in Req, NEW kind \in Kinds, NEW n \in Nodes,
               StartRequest(r, kind, n) \/ StartSpeedtest(r, kind, n)
        PROVE  IInv'
    BY <2>1, <2>3, StartKeeps
  <2>4. ASSUME NEW r \in Req, Client(r) \/ UploadLinkFails(r)
        PROVE  IInv'
    BY <2>1, <2>4, ClientTakesKeeps, EndingKeeps, UploadKeeps DEF Client
  <2>5. ASSUME NEW r \in Req, HandlerStep(r)
        PROVE  IInv'
    <3>1. CASE AcquireSlot(r) \/ Register(r) \/ Send(r) \/ Receive(r) \/ HttpFallback(r)
      BY <2>1, <3>1, AcquireKeeps, RegisterKeeps, SendKeeps, ReceiveKeeps, HttpKeeps
    <3>2. CASE TakeFrame(r) \/ TakeResult(r) \/ Drained(r) \/ ContextDone(r)
      BY <2>1, <3>2, TakeFrameKeeps, TakeResultKeeps, EndingKeeps
    <3>3. CASE DropStream(r) \/ DropWaiter(r) \/ FreeNode(r) \/ FreeSlot(r)
      BY <2>1, <3>3, DropStreamKeeps, DropWaiterKeeps, FreeNodeKeeps, FreeSlotKeeps
    <3> QED
      BY <2>5, <3>1, <3>2, <3>3 DEF HandlerStep
  <2>6. ASSUME NEW r \in Req, Timer(r)
        PROVE  IInv'
    BY <2>1, <2>6, TimesOutKeeps, ExpireKeeps DEF Timer
  <2>7. ASSUME NEW c \in Conns, Connect(c) \/ Drop(c)
        PROVE  IInv'
    BY <2>1, <2>7, LinkKeeps
  <2>8. ASSUME NEW c \in Conns, LoopStep(c)
        PROVE  IInv'
    BY <2>1, <2>8, ReadResultKeeps, DeliverKeeps, ReadFrameKeeps, PushKeeps, PushStallsKeeps,
       ReadErrorKeeps DEF LoopStep
  <2>9. ASSUME NEW q \in Questions, NodeStep(q)
        PROVE  IInv'
    BY <2>1, <2>9, AnswersKeeps, SendsFrameKeeps DEF NodeStep
  <2> QED
    BY <2>1, <2>2, <2>3, <2>4, <2>5, <2>6, <2>7, <2>8, <2>9 DEF Next
<1> QED
  BY <1>1, <1>2, PTL DEF Spec

\* Channels have their types, and a read loop that has taken a channel never
\* waits for it: a second answer blocks no connection (ws.go:156-170).
THEOREM ExchangeInvAlways == Spec => []ExchangeInv
<1>1. IInv => ExchangeInv
  <2>1. SUFFICES ASSUME IInv
                 PROVE  ExchangeInv
    OBVIOUS
  <2>2. ASSUME NEW c \in Conns, loop[c].at = "deliver"
        PROVE  /\ chan[loop[c].q] = << >>
               /\ \A d \in Conns \ {c} : loop[d].at = "deliver" => loop[d].q # loop[c].q
    <3>1. SUFFICES ASSUME NEW q \in Questions, q = loop[c].q
                   PROVE  /\ chan[q] = << >>
                          /\ \A d \in Conns \ {c} : loop[d].at = "deliver" => loop[d].q # q
      BY <2>1, <2>2, LoopTypes DEF IInv
    <3> QED
      BY <2>1, <2>2, <3>1 DEF IInv, AnswerOK, Delivers
  <2> QED
    BY <2>1, <2>2 DEF IInv, ExchangeInv, LoopNeverStuck
<1> QED
  BY <1>1, ExchangeInductive, PTL

\* The claims and slots taken are those of the speed tests under way, one per
\* node, and a download writes the frames of the node without a gap and, with its
\* answer, all of them (speedtest.go:14, 33, 143-285).
THEOREM TransferInvAlways == Spec => []TransferInv
<1>1. IInv => TransferInv
  <2>1. SUFFICES ASSUME IInv, NEW r \in Req
                 PROVE  LET q == h[r].q
                            taken == IF h[r].at \in {"write", "drainwrite"} THEN h[r].k + 1 ELSE h[r].k
                        IN  /\ h[r].at \in {"stream", "write", "drain", "drainwrite"} /\ ~done[q]
                                 => InOrder(buf[q], taken + 1)
                            /\ h[r].kind = "download" /\ h[r].at = "nostream" /\ ~done[q]
                                 /\ node[q].c # None => h[r].k = node[q].sent
    BY DEF IInv, TransferInv, DownloadWhole
  <2> QED
    BY <2>1 DEF IInv, Flow, Whole, Carries, Taken, Streaming
<1> QED
  BY <1>1, ExchangeInductive, PTL
=============================================================================
