---------------------------- MODULE NodeExchange ----------------------------
(***************************************************************************)
(* What handlers ask of a node over its WebSocket (ws.go, node_cmd.go,     *)
(* speedtest.go): probes and control commands with one answer, and speed   *)
(* tests, which also stream frames and hold the node and one of a few      *)
(* slots.                                                                  *)
(*                                                                         *)
(* A handler registers a channel of capacity one under a fresh request id, *)
(* sends, and waits for an answer or a time-out.  The read loop of a       *)
(* connection takes the messages of its node in order; it looks the        *)
(* channel up under a lock and sends into it after the lock is released.   *)
(* The node is external: it may answer late, twice or never, and push      *)
(* frames until it has answered or was told to cancel.                     *)
(***************************************************************************)
EXTENDS Integers, Sequences, FiniteSets

CONSTANTS Nodes,
          Conns,     \* connections, each used once
          NodeOf,    \* [Conns -> Nodes]
          Req,       \* request handlers in flight at most
          None,
          Slots,     \* speedGlobalMax
          Buf,       \* speedStreamBuf
          Kinds,     \* what handlers may ask for
          Frail,     \* connections that may break
          MaxAsk,    \* bound: questions asked
          MaxChunks, \* bound: frames of one download
          MaxReplies,\* bound: answers to one question
          MaxInbox   \* bound: messages under way on one connection

ASSUME ExchangeAssumption ==
    /\ NodeOf \in [Conns -> Nodes]
    /\ None \notin Conns /\ Frail \subseteq Conns
    /\ Kinds \subseteq {"probe", "command", "download", "upload"}
    /\ {MaxAsk, MaxChunks, MaxReplies, MaxInbox} \subseteq Nat
    /\ Slots \in Nat \ {0} /\ Buf \in Nat \ {0}
    /\ IsFiniteSet(Req)

VARIABLES link,     \* [Conns -> {"new", "up", "down"}]
          peers,    \* [Nodes -> Conns \cup {None}]
          inbox,    \* [Conns -> messages under way from the node]
          loop,     \* [Conns -> what the read loop is doing]
          waiters,  \* probeWait, cmdWait: questions whose channel is registered
          chan,     \* [question -> content of its channel]
          streams,  \* speedStreams: questions whose frames are wanted
          buf,      \* [question -> st.ch, the frames not yet written]
          done,     \* [question -> st.ctx is done]
          busy,     \* speedNodeBusy
          slots,    \* how many slots of speedGlobal are taken
          h,        \* what each handler is doing
          asked,    \* how many questions were asked
          node      \* external: [question -> what the node knows of it]

vars == <<link, peers, inbox, loop, waiters, chan, streams, buf, done, busy, slots,
          h, asked, node>>

Questions == 1..MaxAsk
Message == [type : {"result", "frame"}, q : Questions, n : Nat]
Reading == [at |-> "reading"]

Idle == [at |-> "idle", kind |-> "probe", n |-> None, c |-> None, q |-> 0, k |-> 0,
         then |-> "idle"]
Places == {"idle", "claim", "register", "send", "wait", "feed", "stream", "write",
           "drain", "drainwrite", "nostream", "nowaiter", "nobusy", "noslot", "http"}
Handler == [at : Places, kind : {"probe", "command", "download", "upload"},
            n : Nodes \cup {None}, c : Conns \cup {None}, q : 0..MaxAsk, k : Nat,
            then : {"idle", "http"}]

Unknown == [c |-> None, kind |-> "probe", sent |-> 0, replies |-> 0, off |-> FALSE]
Known == [c : Conns \cup {None}, kind : {"probe", "command", "download", "upload"},
          sent : Nat, replies : Nat, off : BOOLEAN]

SpeedKinds == {"download", "upload"}
MayAsk == asked + Cardinality({r \in Req : h[r].at \in {"claim", "register"}}) < MaxAsk
Goto(r, p) == h' = [h EXCEPT ![r].at = p]

\* speedtest_cancel, on the connection the session began with.
Cancel(r) ==
    node' = [node EXCEPT ![h[r].q].off = (@ \/ link[h[r].c] = "up")]

-----------------------------------------------------------------------------
\* RequestCommand and requestProbe find the connection of the node.
StartRequest(r, kind, n) ==
    /\ h[r].at = "idle" /\ MayAsk
    /\ kind \notin SpeedKinds /\ peers[n] # None
    /\ h' = [h EXCEPT ![r] = [Idle EXCEPT !.at = "register", !.kind = kind, !.n = n,
                                          !.c = peers[n]]]
    /\ UNCHANGED <<link, peers, inbox, loop, waiters, chan, streams, buf, done, busy,
                   slots, asked, node>>

\* beginSpeedtest: the node is claimed (LoadOrStore), or the request refused.
StartSpeedtest(r, kind, n) ==
    /\ h[r].at = "idle" /\ MayAsk
    /\ kind \in SpeedKinds /\ peers[n] # None /\ n \notin busy
    /\ busy' = busy \cup {n}
    /\ h' = [h EXCEPT ![r] = [Idle EXCEPT !.at = "claim", !.kind = kind, !.n = n,
                                          !.c = peers[n]]]
    /\ UNCHANGED <<link, peers, inbox, loop, waiters, chan, streams, buf, done, slots,
                   asked, node>>

\* Without a free slot the claim is given up.
AcquireSlot(r) ==
    /\ h[r].at = "claim"
    /\ IF slots < Slots
       THEN slots' = slots + 1 /\ busy' = busy /\ Goto(r, "register")
       ELSE UNCHANGED slots /\ busy' = busy \ {h[r].n} /\ h' = [h EXCEPT ![r] = Idle]
    /\ UNCHANGED <<link, peers, inbox, loop, waiters, chan, streams, buf, done, asked, node>>

\* The channel is registered under a fresh id, which is the number of the
\* question, and so is the stream of a download; no message bears the id
\* before it is sent.
Register(r) ==
    LET q == asked + 1
    IN  /\ h[r].at = "register"
        /\ asked' = q
        /\ waiters' = waiters \cup {q}
        /\ streams' = IF h[r].kind = "download" THEN streams \cup {q} ELSE streams
        /\ h' = [h EXCEPT ![r].at = "send", ![r].q = q]
        /\ UNCHANGED <<link, peers, inbox, loop, chan, buf, done, busy, slots, node>>

\* A write to a connection that is going down fails, or is lost unnoticed.
Send(r) ==
    LET s == h[r]
        sent == CASE s.kind = "download" -> "stream"
                  [] s.kind = "upload"   -> "feed"
                  [] OTHER               -> "wait"
        failed == IF s.kind = "download" THEN "nostream" ELSE "nowaiter"
    IN  /\ s.at = "send"
        /\ \/ /\ link[s.c] = "up"
              /\ node' = [node EXCEPT ![s.q] = [Unknown EXCEPT !.c = s.c, !.kind = s.kind]]
              /\ Goto(r, sent)
           \/ /\ link[s.c] = "down"
              /\ UNCHANGED node
              /\ \/ Goto(r, sent)
                 \/ h' = [h EXCEPT ![r].at = failed,
                                   ![r].then = IF s.kind = "command" THEN "http" ELSE "idle"]
        /\ UNCHANGED <<link, peers, inbox, loop, waiters, chan, streams, buf, done, busy,
                       slots, asked>>

\* The answer: a refusal of a command counts as one and is not sent again.
Receive(r) ==
    LET q == h[r].q
    IN  /\ h[r].at = "wait" /\ chan[q] # << >>
        /\ chan' = [chan EXCEPT ![q] = << >>]
        /\ Goto(r, "nowaiter")
        /\ UNCHANGED <<link, peers, inbox, loop, waiters, streams, buf, done, busy, slots,
                       asked, node>>

\* A command that was not answered is sent again by HTTP.
TimesOut(r) ==
    /\ h[r].at = "wait"
    /\ h' = [h EXCEPT ![r].at = "nowaiter",
                      ![r].then = IF h[r].kind = "command" THEN "http" ELSE "idle"]
    /\ IF h[r].kind = "upload" THEN Cancel(r) ELSE UNCHANGED node
    /\ UNCHANGED <<link, peers, inbox, loop, waiters, chan, streams, buf, done, busy, slots,
                   asked>>

HttpFallback(r) ==
    /\ h[r].at = "http"
    /\ h' = [h EXCEPT ![r] = Idle]
    /\ UNCHANGED <<link, peers, inbox, loop, waiters, chan, streams, buf, done, busy, slots,
                   asked, node>>

-----------------------------------------------------------------------------
\* speedtestUpload: body.Read returns the end of the body, an error, or data;
\* after data the 40 s may be over or the connection gone.
UploadEnds(r) ==
    /\ h[r].at = "feed"
    /\ Goto(r, "wait")
    /\ UNCHANGED <<link, peers, inbox, loop, waiters, chan, streams, buf, done, busy, slots,
                   asked, node>>

UploadStops(r) ==
    /\ h[r].at = "feed"
    /\ Goto(r, "nowaiter")
    /\ Cancel(r)
    /\ UNCHANGED <<link, peers, inbox, loop, waiters, chan, streams, buf, done, busy, slots,
                   asked>>

UploadLinkFails(r) ==
    /\ h[r].at = "feed" /\ link[h[r].c] = "down"
    /\ Goto(r, "nowaiter")
    /\ UNCHANGED <<link, peers, inbox, loop, waiters, chan, streams, buf, done, busy, slots,
                   asked, node>>

-----------------------------------------------------------------------------
\* speedtestDownload: a frame of the buffer is written to the client, ...
TakeFrame(r) ==
    LET q == h[r].q
    IN  /\ h[r].at \in {"stream", "drain"} /\ buf[q] # << >>
        /\ buf' = [buf EXCEPT ![q] = Tail(@)]
        /\ Goto(r, IF h[r].at = "stream" THEN "write" ELSE "drainwrite")
        /\ UNCHANGED <<link, peers, inbox, loop, waiters, chan, streams, done, busy, slots,
                       asked, node>>

ClientTakes(r) ==
    /\ h[r].at \in {"write", "drainwrite"}
    /\ h' = [h EXCEPT ![r].at = IF @ = "write" THEN "stream" ELSE "drain", ![r].k = @ + 1]
    /\ UNCHANGED <<link, peers, inbox, loop, waiters, chan, streams, buf, done, busy, slots,
                   asked, node>>

ClientGone(r) ==
    /\ h[r].at \in {"write", "drainwrite"}
    /\ IF h[r].at = "write" THEN Cancel(r) ELSE UNCHANGED node
    /\ done' = [done EXCEPT ![h[r].q] = TRUE]
    /\ Goto(r, "nostream")
    /\ UNCHANGED <<link, peers, inbox, loop, waiters, chan, streams, buf, busy, slots, asked>>

\* ... or the result has come and what is buffered is written first, ...
TakeResult(r) ==
    /\ h[r].at = "stream" /\ chan[h[r].q] # << >>
    /\ chan' = [chan EXCEPT ![h[r].q] = << >>]
    /\ Goto(r, "drain")
    /\ UNCHANGED <<link, peers, inbox, loop, waiters, streams, buf, done, busy, slots,
                   asked, node>>

\* Mutant: the result ends the download at once.
Mut_NoDrain(r) ==
    /\ h[r].at = "drain"
    /\ Goto(r, "nostream")
    /\ UNCHANGED <<link, peers, inbox, loop, waiters, chan, streams, buf, done, busy, slots,
                   asked, node>>

Drained(r) ==
    /\ h[r].at = "drain" /\ buf[h[r].q] = << >>
    /\ Goto(r, "nostream")
    /\ UNCHANGED <<link, peers, inbox, loop, waiters, chan, streams, buf, done, busy, slots,
                   asked, node>>

\* ... or the context is done: 25 s are over, the client is gone, or it was
\* too slow for a frame (PushStalls).
Expire(r) ==
    /\ h[r].at \in {"stream", "write", "drain", "drainwrite"} /\ ~done[h[r].q]
    /\ done' = [done EXCEPT ![h[r].q] = TRUE]
    /\ UNCHANGED <<link, peers, inbox, loop, waiters, chan, streams, buf, busy, slots, h,
                   asked, node>>

\* Mutant: the loop waits for the node, whatever the context says.
Mut_ContextIgnored(r) ==
    /\ h[r].at = "stream" /\ done[h[r].q] /\ chan[h[r].q] # << >>
    /\ Cancel(r)
    /\ Goto(r, "nostream")
    /\ UNCHANGED <<link, peers, inbox, loop, waiters, chan, streams, buf, done, busy, slots,
                   asked>>

ContextDone(r) ==
    /\ h[r].at = "stream" /\ done[h[r].q]
    /\ Cancel(r)
    /\ Goto(r, "nostream")
    /\ UNCHANGED <<link, peers, inbox, loop, waiters, chan, streams, buf, done, busy, slots,
                   asked>>

-----------------------------------------------------------------------------
\* The deferred calls: the stream and its context, the channel, the node, the
\* slot.
DropStream(r) ==
    /\ h[r].at = "nostream"
    /\ streams' = streams \ {h[r].q}
    /\ done' = [done EXCEPT ![h[r].q] = TRUE]
    /\ Goto(r, "nowaiter")
    /\ UNCHANGED <<link, peers, inbox, loop, waiters, chan, buf, busy, slots, asked, node>>

DropWaiter(r) ==
    /\ h[r].at = "nowaiter"
    /\ waiters' = waiters \ {h[r].q}
    /\ IF h[r].kind \in SpeedKinds
       THEN Goto(r, "nobusy")
       ELSE h' = [h EXCEPT ![r] = [Idle EXCEPT !.at = h[r].then]]
    /\ UNCHANGED <<link, peers, inbox, loop, chan, streams, buf, done, busy, slots, asked, node>>

FreeNode(r) ==
    /\ h[r].at = "nobusy"
    /\ busy' = busy \ {h[r].n}
    /\ Goto(r, "noslot")
    /\ UNCHANGED <<link, peers, inbox, loop, waiters, chan, streams, buf, done, slots, asked, node>>

FreeSlot(r) ==
    /\ h[r].at = "noslot"
    /\ slots' = slots - 1
    /\ h' = [h EXCEPT ![r] = Idle]
    /\ UNCHANGED <<link, peers, inbox, loop, waiters, chan, streams, buf, done, busy, asked, node>>

-----------------------------------------------------------------------------
\* Mutant: the channel stays registered until its handler drops it.
Mut_WaiterKept(c) ==
    LET m == Head(inbox[c])
    IN  /\ loop[c] = Reading /\ inbox[c] # << >> /\ m.type = "result"
        /\ inbox' = [inbox EXCEPT ![c] = Tail(@)]
        /\ waiters' = waiters
        /\ loop' = [loop EXCEPT ![c] =
               IF m.q \in waiters THEN [at |-> "deliver", q |-> m.q, m |-> m] ELSE Reading]
        /\ UNCHANGED <<link, peers, chan, streams, buf, done, busy, slots, h, asked, node>>

\* probe_result, config_result, ota_result: the channel is taken out of the
\* map under the lock; an answer nobody waits for is dropped.
ReadResult(c) ==
    LET m == Head(inbox[c])
    IN  /\ loop[c] = Reading /\ inbox[c] # << >> /\ m.type = "result"
        /\ inbox' = [inbox EXCEPT ![c] = Tail(@)]
        /\ waiters' = waiters \ {m.q}
        /\ loop' = [loop EXCEPT ![c] =
               IF m.q \in waiters THEN [at |-> "deliver", q |-> m.q, m |-> m] ELSE Reading]
        /\ UNCHANGED <<link, peers, chan, streams, buf, done, busy, slots, h, asked, node>>

Deliver(c) ==
    LET q == loop[c].q
    IN  /\ loop[c].at = "deliver" /\ chan[q] = << >>
        /\ chan' = [chan EXCEPT ![q] = <<loop[c].m>>]
        /\ loop' = [loop EXCEPT ![c] = Reading]
        /\ UNCHANGED <<link, peers, inbox, waiters, streams, buf, done, busy, slots, h, asked, node>>

\* speedtestOnFrame: a frame of no known stream is dropped.
ReadFrame(c) ==
    LET m == Head(inbox[c])
    IN  /\ loop[c] = Reading /\ inbox[c] # << >> /\ m.type = "frame"
        /\ inbox' = [inbox EXCEPT ![c] = Tail(@)]
        /\ loop' = [loop EXCEPT ![c] =
               IF m.q \in streams THEN [at |-> "push", q |-> m.q, m |-> m] ELSE Reading]
        /\ UNCHANGED <<link, peers, waiters, chan, streams, buf, done, busy, slots, h, asked, node>>

Push(c) ==
    LET q == loop[c].q
    IN  /\ loop[c].at = "push" /\ Len(buf[q]) < Buf
        /\ buf' = [buf EXCEPT ![q] = Append(@, loop[c].m.n)]
        /\ loop' = [loop EXCEPT ![c] = Reading]
        /\ UNCHANGED <<link, peers, inbox, waiters, chan, streams, done, busy, slots, h, asked, node>>

\* The buffer is full: the read loop holds the frame until there is room, the
\* context is done, or 8 s are over, which cancels the download.
PushStalls(c) ==
    /\ loop[c].at = "push" /\ Len(buf[loop[c].q]) = Buf
    /\ done' = [done EXCEPT ![loop[c].q] = TRUE]
    /\ loop' = [loop EXCEPT ![c] = Reading]
    /\ UNCHANGED <<link, peers, inbox, waiters, chan, streams, buf, busy, slots, h, asked, node>>

\* The connection is closed by either side; the loop notices when it reads.
Drop(c) ==
    /\ c \in Frail /\ link[c] = "up"
    /\ link' = [link EXCEPT ![c] = "down"]
    /\ UNCHANGED <<peers, inbox, loop, waiters, chan, streams, buf, done, busy, slots, h, asked, node>>

ReadError(c) ==
    LET n == NodeOf[c]
    IN  /\ loop[c] = Reading /\ link[c] = "down"
        /\ loop' = [loop EXCEPT ![c] = [at |-> "ended"]]
        /\ inbox' = [inbox EXCEPT ![c] = << >>]
        /\ peers' = IF peers[n] = c THEN [peers EXCEPT ![n] = None] ELSE peers
        /\ UNCHANGED <<link, waiters, chan, streams, buf, done, busy, slots, h, asked, node>>

\* A node dials in; its new connection replaces the one before.
Connect(c) ==
    /\ link[c] = "new"
    /\ link' = [link EXCEPT ![c] = "up"]
    /\ peers' = [peers EXCEPT ![NodeOf[c]] = c]
    /\ UNCHANGED <<inbox, loop, waiters, chan, streams, buf, done, busy, slots, h, asked, node>>

-----------------------------------------------------------------------------
\* The node answers a question on the connection it came by ...
NodeAnswers(q) ==
    LET k == node[q]
    IN  /\ k.c # None /\ link[k.c] = "up" /\ Len(inbox[k.c]) < MaxInbox /\ k.replies < MaxReplies
        /\ inbox' = [inbox EXCEPT ![k.c] =
               Append(@, [type |-> "result", q |-> q, n |-> k.sent])]
        /\ node' = [node EXCEPT ![q].replies = @ + 1]
        /\ UNCHANGED <<link, peers, loop, waiters, chan, streams, buf, done, busy, slots, h, asked>>

\* ... and sends the frames of a download before its answer.
NodeSendsFrame(q) ==
    LET k == node[q]
    IN  /\ k.c # None /\ link[k.c] = "up" /\ Len(inbox[k.c]) < MaxInbox
        /\ k.kind = "download"
        /\ k.replies = 0 /\ ~k.off /\ k.sent < MaxChunks
        /\ inbox' = [inbox EXCEPT ![k.c] =
               Append(@, [type |-> "frame", q |-> q, n |-> k.sent + 1])]
        /\ node' = [node EXCEPT ![q].sent = @ + 1]
        /\ UNCHANGED <<link, peers, loop, waiters, chan, streams, buf, done, busy, slots, h, asked>>

Init ==
    /\ link = [c \in Conns |-> "new"] /\ peers = [n \in Nodes |-> None]
    /\ inbox = [c \in Conns |-> << >>] /\ loop = [c \in Conns |-> Reading]
    /\ waiters = {} /\ streams = {} /\ busy = {} /\ slots = 0
    /\ chan = [q \in Questions |-> << >>] /\ buf = [q \in Questions |-> << >>]
    /\ done = [q \in Questions |-> FALSE]
    /\ h = [r \in Req |-> Idle] /\ asked = 0
    /\ node = [q \in Questions |-> Unknown]

Client(r) == ClientTakes(r) \/ ClientGone(r) \/ UploadEnds(r) \/ UploadStops(r)
HandlerStep(r) ==
    \/ AcquireSlot(r) \/ Register(r) \/ Send(r) \/ Receive(r) \/ HttpFallback(r)
    \/ TakeFrame(r) \/ TakeResult(r) \/ Drained(r) \/ ContextDone(r)
    \/ DropStream(r) \/ DropWaiter(r) \/ FreeNode(r) \/ FreeSlot(r)
Timer(r) == TimesOut(r) \/ Expire(r)
LoopStep(c) ==
    \/ ReadResult(c) \/ Deliver(c) \/ ReadFrame(c) \/ Push(c) \/ PushStalls(c) \/ ReadError(c)
NodeStep(q) == NodeAnswers(q) \/ NodeSendsFrame(q)

Next ==
    \/ \E r \in Req, kind \in Kinds, n \in Nodes : StartRequest(r, kind, n) \/ StartSpeedtest(r, kind, n)
    \/ \E r \in Req : Client(r) \/ HandlerStep(r) \/ Timer(r) \/ UploadLinkFails(r)
    \/ \E c \in Conns : Connect(c) \/ Drop(c) \/ LoopStep(c)
    \/ \E q \in Questions : NodeStep(q)

Spec == Init /\ [][Next]_vars

\* Goroutines and timers run, and the HTTP client reads, writes or leaves.
Fairness ==
    /\ \A r \in Req : /\ WF_vars(HandlerStep(r))
                      /\ WF_vars(Timer(r))
                      /\ WF_vars(Client(r))

FairSpec == Spec /\ Fairness

-----------------------------------------------------------------------------
\* The types of the variables.
TypeOK ==
    /\ link \in [Conns -> {"new", "up", "down"}]
    /\ peers \in [Nodes -> Conns \cup {None}]
    /\ inbox \in [Conns -> Seq(Message)]
    /\ loop \in [Conns -> {Reading, [at |-> "ended"]}
                   \cup [at : {"deliver", "push"}, q : Questions, m : Message]]
    /\ waiters \subseteq Questions
    /\ streams \subseteq Questions /\ busy \subseteq Nodes
    /\ chan \in [Questions -> Seq(Message)] /\ buf \in [Questions -> Seq(Nat)]
    /\ done \in [Questions -> BOOLEAN]
    /\ slots \in 0..Slots /\ asked \in 0..MaxAsk
    /\ h \in [Req -> Handler]
    /\ node \in [Questions -> Known]

\* A read loop that has taken a channel never finds it full: a second answer to
\* a question must not block the connection of the node for good
\* (ws.go:161-168, 315-321: taken out of the map before it is sent into).
LoopNeverStuck ==
    \A c \in Conns : loop[c].at = "deliver" =>
        /\ chan[loop[c].q] = << >>
        /\ \A d \in Conns \ {c} : loop[d].at = "deliver" => loop[d].q # loop[c].q

\* Channels have their types, and a read loop never waits for one (ws.go:156-170).
ExchangeInv == TypeOK /\ LoopNeverStuck

Holding(r) == h[r].kind \in SpeedKinds /\ h[r].at # "idle"
Claiming(r) == Holding(r) /\ h[r].at # "noslot"
HasSlot(r) == Holding(r) /\ h[r].at # "claim"

\* "每个节点同一时刻只允许一次测速，全局最多 speedGlobalMax 路并发" (speedtest.go:14): the
\* claims and slots taken are those of the sessions under way, one per node,
\* through every way a session can end.
SlotsMatchSessions ==
    /\ slots = Cardinality({r \in Req : HasSlot(r)}) /\ slots <= Slots
    /\ busy = {h[r].n : r \in {x \in Req : Claiming(x)}}
    /\ \A r, s \in Req : Claiming(r) /\ Claiming(s) /\ h[r].n = h[s].n => r = s

InOrder(s, first) == \A i \in DOMAIN s : s[i] = first + i - 1

\* While its context is not done, a download writes the node's frames without a
\* gap, and one that ended with the node's result has written all of them: a
\* full buffer holds the node back instead of losing data (speedtest.go:33,
\* 81-92, 244-257).
DownloadWhole ==
    \A r \in Req :
        LET q == h[r].q
            taken == IF h[r].at \in {"write", "drainwrite"} THEN h[r].k + 1 ELSE h[r].k
        IN  /\ h[r].at \in {"stream", "write", "drain", "drainwrite"} /\ ~done[q]
                   => InOrder(buf[q], taken + 1)
            /\ h[r].kind = "download" /\ h[r].at = "nostream" /\ ~done[q] /\ node[q].c # None
                   => h[r].k = node[q].sent

\* What a speed test takes and what it carries (speedtest.go:143-285).
TransferInv == SlotsMatchSessions /\ DownloadWhole

\* speedtest.go:47-48: a session gives back its node and its slot, whatever the
\* node does, if its client reads, writes or leaves.
SessionEnds == \A r \in Req : h[r].at # "idle" ~> h[r].at = "idle"
=============================================================================
