----------------------------- MODULE ProxyPass -----------------------------
(***************************************************************************)
(* The passthrough proxy that gitall and pulse put before their children   *)
(* (src/internal/proxypass): one handler per connection of a child, which  *)
(* dials the destination with a bounded number of attempts, possibly       *)
(* through an upstream proxy; for CONNECT it hijacks the connection and    *)
(* leaves two goroutines that copy in either direction and close each      *)
(* other's sockets; Close and Shutdown wait for these goroutines.          *)
(*                                                                         *)
(* The children and the destinations are the environment.  A piece of data *)
(* is its number in the order in which it was sent.                        *)
(***************************************************************************)
EXTENDS Naturals, Sequences, FiniteSets

CONSTANTS
  Conns,        \* connections the children open, one request on each
  MaxAttempts,  \* attempts of dialTCP (6 in the code)
  UpPieces,     \* bound: pieces a child sends on a connection
  DownPieces    \* bound: pieces a destination sends on a connection

ASSUME ProxyAssumption ==
  /\ IsFiniteSet(Conns)
  /\ MaxAttempts \in Nat \ {0}
  /\ UpPieces \in Nat
  /\ DownPieces \in Nat

VARIABLES
  server,     \* "up"; "draining": in http.Server.Shutdown; "closing": in wg.Wait; "closed"
  cancelled,  \* was the context given to Start cancelled?
  wg,         \* the counter of the wait group
  link        \* per connection: the two ends, the handler, the goroutines

vars == <<server, cancelled, wg, link>>

(* client, peer: what the child and the destination did with their ends;   *)
(* conn, dest: the proxy's own two sockets ("cut": closed by Server.Close).*)
(* stalled: the sides that neither take what is written to them nor get on *)
(* with a body or a greeting.  up, down: the goroutines of a tunnel        *)
(* ("stuck": in a write that does not return).                             *)
(* wire: sent by the child and not yet read, held: read by the proxy and   *)
(* not yet written, got: arrived at the destination.  answered, back,      *)
(* heard: sent by the destination, not yet read, arrived at the child.     *)
(* answer: what the destination's bytes were found to be.                  *)
NoLink ==
  [req |-> "none", attempt |-> 0,
   client |-> "out", conn |-> "none", dest |-> "none", peer |-> "none", stalled |-> {},
   up |-> "none", down |-> "none", answer |-> "proper",
   said |-> 0, wire |-> <<>>, held |-> <<>>, got |-> <<>>,
   answered |-> 0, back |-> 0, heard |-> 0]

Init ==
  /\ server = "up"
  /\ cancelled = FALSE
  /\ wg = 0
  /\ link = [c \in Conns |-> NoLink]

At(c, stage) == link[c].req = stage

Hijacked(c) == link[c].req \in {"flush", "tunnel"}

Quiet == UNCHANGED <<server, cancelled, wg>>

----------------------------------------------------------------------------
(* The environment.                                                        *)

Cancel ==
  /\ ~cancelled
  /\ cancelled' = TRUE
  /\ UNCHANGED <<server, wg, link>>

(* Nothing that happens to a finished connection concerns the proxy.       *)
Finished(c) == At(c, "end") \/ (link[c].up = "done" /\ link[c].down = "done")

(* A child connects and sends its request; net/http starts the handler,    *)
(* which refuses a plain request that names no host.                       *)
Request(c) ==
  /\ server = "up" /\ link[c].client = "out"
  /\ \E stage \in {"dial", "bad"} :
       link' = [link EXCEPT ![c].req = stage, ![c].client = "open", ![c].conn = "open"]
  /\ Quiet

Say(c) ==
  /\ link[c].client = "open" /\ link[c].conn = "open"
  /\ ~Finished(c) /\ link[c].said < UpPieces
  /\ link' = [link EXCEPT ![c].said = @ + 1, ![c].wire = Append(@, link[c].said + 1)]
  /\ Quiet

(* The child ends its direction and still listens.                         *)
ClientFin(c) ==
  /\ link[c].client = "open" /\ ~Finished(c)
  /\ link' = [link EXCEPT ![c].client = "fin"]
  /\ Quiet

(* The child closes; what it sent last may be lost.                        *)
ClientGone(c) ==
  /\ link[c].client \in {"open", "fin"} /\ ~Finished(c)
  /\ \E w \in {link[c].wire, <<>>} :
       link' = [link EXCEPT ![c].client = "gone", ![c].wire = w, ![c].stalled = @ \ {"client"}]
  /\ Quiet

Answer(c) ==
  /\ link[c].peer = "open" /\ link[c].dest = "open"
  /\ ~At(c, "greet") /\ ~At(c, "ask")
  /\ link[c].answered < DownPieces
  /\ link' = [link EXCEPT ![c].answered = @ + 1, ![c].back = @ + 1]
  /\ Quiet

(* The destination ends its direction; with a plain request, also the end  *)
(* of a body whose length the response's header tells.                     *)
PeerFin(c) ==
  /\ link[c].peer = "open" /\ ~Finished(c)
  /\ link' = [link EXCEPT ![c].peer = "fin"]
  /\ Quiet

PeerGone(c) ==
  /\ link[c].peer \in {"open", "fin"} /\ ~Finished(c)
  /\ \E b \in {link[c].back, 0} :
       link' = [link EXCEPT ![c].peer = "gone", ![c].back = b, ![c].stalled = @ \ {"peer"}]
  /\ Quiet

(* A side stops reading until the buffers are full, keeps a body waiting,  *)
(* or sends a greeting byte by byte ...                                    *)
Stall(c) ==
  /\ ~Finished(c)
  /\ \E side \in {"client", "peer"} \ link[c].stalled :
       /\ side = "client" => link[c].client \in {"open", "fin"}
       /\ side = "peer" => link[c].peer \in {"open", "fin"}
       /\ link' = [link EXCEPT ![c].stalled = @ \cup {side}]
  /\ Quiet

(* ... and gets on with it.                                                *)
Resume(c) ==
  /\ ~Finished(c)
  /\ \E side \in link[c].stalled : link' = [link EXCEPT ![c].stalled = @ \ {side}]
  /\ Quiet

----------------------------------------------------------------------------
(* dialTCP, dialViaProxy.                                                  *)

(* The request's context ends with the one of Start, and when net/http     *)
(* notices that the child's connection is gone.                            *)
ContextEnded(c) == cancelled \/ link[c].client = "gone" \/ link[c].conn # "open"

(* A CONNECT, directly or through an upstream proxy, or plain HTTP: the    *)
(* request says, and the environment variables that proxyFor looks up.     *)
Routes == {"hijack", "greet", "ask"}

DialOk(c) ==
  /\ At(c, "dial") /\ ~cancelled
  /\ \E stage \in Routes :
       link' = [link EXCEPT ![c].dest = "open", ![c].peer = "open",
                            ![c].attempt = 0, ![c].req = stage]
  /\ Quiet

(* Refused, an unknown name: reported at once.                             *)
DialHard(c) ==
  /\ At(c, "dial")
  /\ link' = [link EXCEPT ![c].req = "bad", ![c].attempt = 0]
  /\ Quiet

DialTimeout(c) ==
  /\ At(c, "dial") /\ ~cancelled
  /\ link' = [link EXCEPT ![c].req = "pause", ![c].attempt = @ + 1]
  /\ Quiet

ContextEnds(c) ==
  /\ At(c, "dial") \/ At(c, "pause")
  /\ ContextEnded(c)
  /\ link' = [link EXCEPT ![c].req = "bad", ![c].attempt = 0]
  /\ Quiet

(* After the delay; the last attempt is followed by a delay as well.       *)
Retry(c) ==
  /\ At(c, "pause")
  /\ link' = [link EXCEPT ![c].req = IF link[c].attempt < MaxAttempts THEN "dial" ELSE "bad",
                          ![c].attempt = IF @ < MaxAttempts THEN @ ELSE 0]
  /\ Quiet

(* The upstream proxy answers 200 ...                                      *)
GreetOk(c) ==
  /\ At(c, "greet") /\ link[c].peer = "open"
  /\ link' = [link EXCEPT ![c].req = "hijack"]
  /\ Quiet

(* Mutant: the connection to the upstream proxy is forgotten.              *)
GreetLeaks(c) ==
  /\ At(c, "greet")
  /\ link' = [link EXCEPT ![c].req = "bad"]
  /\ Quiet

(* ... or something else, closes, or says nothing until the deadline,      *)
(* which every byte it sends renews.                                       *)
GreetFails(c) ==
  /\ At(c, "greet")
  /\ link' = [link EXCEPT ![c].req = "bad", ![c].dest = "closed"]
  /\ Quiet

Dialing(c) ==
  \/ DialOk(c) \/ DialHard(c) \/ DialTimeout(c) \/ ContextEnds(c) \/ Retry(c)
  \/ GreetOk(c) \/ GreetFails(c)

(* http.Error with 502, or with 400.                                       *)
BadGateway(c) ==
  /\ At(c, "bad")
  /\ link' = [link EXCEPT ![c].req = "end"]
  /\ Quiet

----------------------------------------------------------------------------
(* handleHTTP: one request, one response, one goroutine, no deadline.      *)

(* The head of the request and then its body, as the child sends it.       *)
WriteRequest(c) ==
  /\ At(c, "ask") /\ link[c].peer # "gone" /\ link[c].stalled = {}
  /\ link' = [link EXCEPT ![c].req = "reply"]
  /\ Quiet

(* The destination is gone, or the body breaks off.                        *)
WriteRequestFails(c) ==
  /\ At(c, "ask")
  /\ link[c].peer = "gone" \/ link[c].client \in {"fin", "gone"} \/ link[c].conn # "open"
  /\ link' = [link EXCEPT ![c].req = "bad", ![c].dest = "closed"]
  /\ Quiet

(* The destination ended without a response, or what it sent is none.      *)
ReadResponseFails(c) ==
  /\ At(c, "reply") /\ link[c].heard = 0
  /\ \/ /\ link[c].back = 0 /\ link[c].peer \in {"fin", "gone"}
        /\ link' = [link EXCEPT ![c].req = "bad", ![c].dest = "closed"]
     \/ /\ link[c].back > 0
        /\ link' = [link EXCEPT ![c].req = "bad", ![c].dest = "closed", ![c].answer = "garbled"]
  /\ Quiet

(* http.ReadResponse takes an interim answer (1xx), which has no body, for *)
(* the response: nothing is copied, and the child gets an empty answer.    *)
TakeInterim(c) ==
  /\ At(c, "reply") /\ link[c].heard = 0 /\ link[c].back > 0
  /\ link' = [link EXCEPT ![c].req = "end", ![c].dest = "closed", ![c].answer = "interim"]
  /\ Quiet

CopyBody(c) ==
  /\ At(c, "reply") /\ link[c].back > 0
  /\ link[c].client # "gone" /\ link[c].conn = "open" /\ "client" \notin link[c].stalled
  /\ link' = [link EXCEPT ![c].back = @ - 1, ![c].heard = @ + 1]
  /\ Quiet

(* The body has ended, or one side failed; io.Copy's error is not read.    *)
BodyEnds(c) ==
  /\ At(c, "reply")
  /\ \/ link[c].back = 0 /\ link[c].heard > 0 /\ link[c].peer \in {"fin", "gone"}
     \/ link[c].back > 0 /\ (link[c].client = "gone" \/ link[c].conn # "open")
  /\ link' = [link EXCEPT ![c].req = "end", ![c].dest = "closed"]
  /\ Quiet

HandleHTTP(c) ==
  \/ WriteRequest(c) \/ WriteRequestFails(c)
  \/ ReadResponseFails(c) \/ TakeInterim(c) \/ CopyBody(c) \/ BodyEnds(c)

----------------------------------------------------------------------------
(* handleConnect.                                                          *)

(* What the child sent with or after its request may be in the reader.     *)
Hijack(c) ==
  /\ At(c, "hijack")
  /\ \E n \in 0..Len(link[c].wire) :
       link' = [link EXCEPT ![c].req = "flush",
                            ![c].held = SubSeq(link[c].wire, 1, n),
                            ![c].wire = SubSeq(link[c].wire, n + 1, Len(link[c].wire))]
  /\ Quiet

HijackFails(c) ==
  /\ At(c, "hijack") /\ (link[c].conn # "open" \/ link[c].client = "gone")
  /\ link' = [link EXCEPT ![c].req = "end", ![c].dest = "closed"]
  /\ Quiet

(* Mutant: the reader's buffer is left behind.                             *)
StartWithoutFlush(c) ==
  /\ At(c, "flush")
  /\ link' = [link EXCEPT ![c].req = "tunnel", ![c].held = <<>>,
                          ![c].up = "run", ![c].down = "run"]
  /\ wg' = wg + 2
  /\ UNCHANGED <<server, cancelled>>

(* Mutant: one is added for both goroutines.                               *)
StartAddingOne(c) ==
  /\ At(c, "flush")
  /\ link' = [link EXCEPT ![c].req = "tunnel", ![c].held = <<>>,
                          ![c].got = IF link[c].peer = "gone" THEN @ ELSE @ \o link[c].held,
                          ![c].up = "run", ![c].down = "run"]
  /\ wg' = wg + 1
  /\ UNCHANGED <<server, cancelled>>

(* Write 200, forward what the reader holds, start the two goroutines.     *)
(* Both writes are small and the first ones on their sockets: they do not  *)
(* block.                                                                  *)
StartTunnel(c) ==
  /\ At(c, "flush")
  /\ link' = [link EXCEPT ![c].req = "tunnel", ![c].held = <<>>,
                          ![c].got = IF link[c].peer = "gone" THEN @ ELSE @ \o link[c].held,
                          ![c].up = "run", ![c].down = "run"]
  /\ wg' = wg + 2
  /\ UNCHANGED <<server, cancelled>>

CopyUp(c) ==
  /\ link[c].up = "run" /\ link[c].wire # <<>>
  /\ link[c].conn = "open" /\ link[c].peer # "gone" /\ "peer" \notin link[c].stalled
  /\ link' = [link EXCEPT ![c].wire = Tail(@), ![c].got = Append(@, Head(link[c].wire))]
  /\ Quiet

(* What was read cannot be written as long as the destination stalls;      *)
(* closing the child's connection does not end this write.                 *)
UpSticks(c) ==
  /\ link[c].up = "run" /\ link[c].wire # <<>>
  /\ link[c].conn = "open" /\ "peer" \in link[c].stalled
  /\ link' = [link EXCEPT ![c].up = "stuck", ![c].wire = Tail(@), ![c].held = <<Head(link[c].wire)>>]
  /\ Quiet

UpGoesOn(c) ==
  /\ link[c].up = "stuck" /\ link[c].peer # "gone" /\ "peer" \notin link[c].stalled
  /\ link' = [link EXCEPT ![c].up = "run", ![c].got = @ \o link[c].held, ![c].held = <<>>]
  /\ Quiet

(* The child's side has ended or was closed, or the destination refuses.   *)
UpStops(c) ==
  IF link[c].up = "stuck"
  THEN link[c].peer = "gone"
  ELSE \/ link[c].wire = <<>> /\ link[c].client \in {"fin", "gone"}
       \/ link[c].wire # <<>> /\ link[c].peer = "gone"
       \/ link[c].conn # "open"

UpEnds(c) ==
  /\ link[c].up \in {"run", "stuck"} /\ UpStops(c)
  /\ link' = [link EXCEPT ![c].up = "done", ![c].dest = "closed", ![c].held = <<>>]
  /\ wg' = wg - 1
  /\ UNCHANGED <<server, cancelled>>

CopyDown(c) ==
  /\ link[c].down = "run" /\ link[c].back > 0 /\ link[c].dest = "open"
  /\ link[c].client # "gone" /\ link[c].conn = "open" /\ "client" \notin link[c].stalled
  /\ link' = [link EXCEPT ![c].back = @ - 1, ![c].heard = @ + 1]
  /\ Quiet

(* Likewise towards the child.                                             *)
DownSticks(c) ==
  /\ link[c].down = "run" /\ link[c].back > 0 /\ link[c].dest = "open"
  /\ link[c].conn = "open" /\ "client" \in link[c].stalled
  /\ link' = [link EXCEPT ![c].down = "stuck", ![c].back = @ - 1]
  /\ Quiet

DownGoesOn(c) ==
  /\ link[c].down = "stuck" /\ link[c].client # "gone" /\ "client" \notin link[c].stalled
  /\ link' = [link EXCEPT ![c].down = "run", ![c].heard = @ + 1]
  /\ Quiet

(* Mutant: the end is taken for reached with the destination's own end,    *)
(* although pieces are still to be read.                                   *)
DownStopsEarly(c) ==
  \/ link[c].dest = "closed"
  \/ link[c].peer \in {"fin", "gone"}
  \/ link[c].back > 0 /\ (link[c].client = "gone" \/ link[c].conn # "open")

DownStops(c) ==
  IF link[c].down = "stuck"
  THEN link[c].client = "gone"
  ELSE \/ link[c].dest = "closed"
       \/ link[c].back = 0 /\ link[c].peer \in {"fin", "gone"}
       \/ link[c].back > 0 /\ (link[c].client = "gone" \/ link[c].conn # "open")

(* Mutant: the child's connection is left to the child.                    *)
DownEndsOpen(c) ==
  /\ link[c].down \in {"run", "stuck"} /\ DownStops(c)
  /\ link' = [link EXCEPT ![c].down = "wait"]
  /\ Quiet

DownEnds(c) ==
  /\ link[c].down \in {"run", "stuck"} /\ DownStops(c)
  /\ link' = [link EXCEPT ![c].down = "wait",
                          ![c].conn = IF @ = "cut" THEN "cut" ELSE "closed"]
  /\ Quiet

(* <-doneA, then Done.                                                     *)
DownDone(c) ==
  /\ link[c].down = "wait" /\ link[c].up = "done"
  /\ link' = [link EXCEPT ![c].down = "done"]
  /\ wg' = wg - 1
  /\ UNCHANGED <<server, cancelled>>

Upward(c) == CopyUp(c) \/ UpSticks(c) \/ UpGoesOn(c) \/ UpEnds(c)

Downward(c) == CopyDown(c) \/ DownSticks(c) \/ DownGoesOn(c) \/ DownEnds(c) \/ DownDone(c)

HandleConnect(c) ==
  \/ Hijack(c) \/ HijackFails(c) \/ StartTunnel(c)
  \/ Upward(c) \/ Downward(c)

----------------------------------------------------------------------------
(* Close: the listener and every connection that is not hijacked.          *)
Close ==
  /\ server = "up"
  /\ server' = "closing"
  /\ link' = [c \in Conns |->
                IF link[c].conn = "open" /\ ~Hijacked(c)
                THEN [link[c] EXCEPT !.conn = "cut"] ELSE link[c]]
  /\ UNCHANGED <<cancelled, wg>>

(* Shutdown: the listener; connections are closed once they are idle.      *)
Shutdown ==
  /\ server = "up"
  /\ server' = "draining"
  /\ UNCHANGED <<cancelled, wg, link>>

Returned(c) == link[c].req \in {"none", "end"} \/ Hijacked(c)

(* All handlers have returned, or the context of Shutdown has ended.       *)
Drained ==
  /\ server = "draining"
  /\ server' = "closing"
  /\ link' = [c \in Conns |->
                IF link[c].conn = "open" /\ At(c, "end")
                THEN [link[c] EXCEPT !.conn = "cut"] ELSE link[c]]
  /\ UNCHANGED <<cancelled, wg>>

(* wg.Wait returns.                                                        *)
Closed ==
  /\ server = "closing" /\ wg = 0
  /\ server' = "closed"
  /\ UNCHANGED <<cancelled, wg, link>>

Handler(c) == Dialing(c) \/ BadGateway(c) \/ HandleHTTP(c) \/ HandleConnect(c)

Environment(c) ==
  \/ Request(c) \/ Say(c) \/ ClientFin(c) \/ ClientGone(c)
  \/ Answer(c) \/ PeerFin(c) \/ PeerGone(c) \/ Stall(c) \/ Resume(c)

Next ==
  \/ Cancel \/ Close \/ Shutdown \/ Drained \/ Closed
  \/ \E c \in Conns : Handler(c) \/ Environment(c)

(* A goroutine waits for a side that has stalled, where it has no          *)
(* deadline: a greeting that goes on and on (readLine), a request that is  *)
(* being written, an answer that is being copied.                          *)
Waits(c) ==
  \/ At(c, "greet") /\ "peer" \in link[c].stalled /\ link[c].peer = "open"
  \/ At(c, "ask") /\ link[c].stalled # {}
  \/ At(c, "reply") /\ "client" \in link[c].stalled
  \/ link[c].up = "stuck" \/ link[c].down = "stuck"

(* Goroutines that do not wait for a stalled side run, dials and reads of  *)
(* the upstream proxy have deadlines; children and destinations owe        *)
(* nothing.                                                                *)
Fairness ==
  /\ WF_vars((\A c \in Conns : Returned(c)) /\ Drained)
  /\ WF_vars(Closed)
  /\ \A c \in Conns :
       /\ WF_vars(~Waits(c) /\ (Dialing(c) \/ BadGateway(c)))
       /\ WF_vars(~Waits(c) /\ HandleHTTP(c))
       /\ WF_vars(Hijack(c) \/ HijackFails(c) \/ StartTunnel(c))
       /\ WF_vars(Upward(c))
       /\ WF_vars(Downward(c))

Spec == Init /\ [][Next]_vars /\ Fairness

----------------------------------------------------------------------------
Stages == {"none", "dial", "pause", "greet", "ask", "reply", "hijack", "flush", "tunnel", "bad", "end"}

Link ==
  [req : Stages, attempt : 0..MaxAttempts,
   client : {"out", "open", "fin", "gone"}, conn : {"none", "open", "cut", "closed"},
   dest : {"none", "open", "closed"}, peer : {"none", "open", "fin", "gone"},
   stalled : SUBSET {"client", "peer"}, answer : {"proper", "garbled", "interim"},
   up : {"none", "run", "stuck", "done"}, down : {"none", "run", "stuck", "wait", "done"},
   said : Nat, wire : Seq(Nat), held : Seq(Nat), got : Seq(Nat),
   answered : Nat, back : Nat, heard : Nat]

(* Every variable has its type; the number of attempts stays within the    *)
(* limit of dialTCP, and the wait group never falls below zero.            *)
TypeOK ==
  /\ server \in {"up", "draining", "closing", "closed"}
  /\ cancelled \in BOOLEAN
  /\ wg \in Nat
  /\ link \in [Conns -> Link]

(* A socket to a destination or an upstream proxy is closed by the time    *)
(* nobody is left who would close it: on every error of the dial, of the   *)
(* upstream's greeting, of the hijack and of the two copies.               *)
DestReleased ==
  \A c \in Conns : link[c].dest = "open" =>
    \/ link[c].req \in {"greet", "hijack", "flush", "ask", "reply"}
    \/ link[c].req = "tunnel" /\ link[c].up \in {"run", "stuck"}

(* What arrives at the destination is what the child sent, from the first  *)
(* piece on and in order, those the HTTP reader had already taken included *)
(* (handleConnect's CopyN); and all of it has arrived when the upward copy *)
(* is over, unless a side broke the connection or the destination ended.   *)
UploadComplete ==
  \A c \in Conns :
    /\ \A i \in 1..Len(link[c].got) : link[c].got[i] = i
    /\ /\ link[c].up = "done" /\ link[c].client \in {"open", "fin"}
       /\ link[c].peer = "open" /\ link[c].conn # "cut"
       => Len(link[c].got) = link[c].said

(* The child kept its own direction open, the destination ended regularly, *)
(* and not all of its answer has arrived when the proxy is through.        *)
AnswerLost(c) ==
  /\ link[c].client = "open" /\ link[c].conn # "cut" /\ link[c].peer = "fin"
  /\ \/ link[c].down \in {"wait", "done"}
     \/ link[c].up = "none" /\ link[c].dest = "closed"
  /\ link[c].heard # link[c].answered

(* No answer is lost that passes through the tunnel of handleConnect, or   *)
(* that handleHTTP reads as a final response: one that is no HTTP becomes  *)
(* a 502, and one that follows an interim answer is lost (PassedOn).       *)
DownloadComplete == \A c \in Conns : link[c].answer = "proper" => ~AnswerLost(c)

(* Server: "forwards HTTP/HTTPS traffic without inspecting or modifying    *)
(* it": an answer with an interim one in front is no exception             *)
(* (handleHTTP).  Does not hold: README, section 4.                        *)
PassedOn == \A c \in Conns : link[c].answer # "garbled" => ~AnswerLost(c)

Copying(c) == link[c].up \in {"run", "stuck"} \/ link[c].down \in {"run", "stuck", "wait"}

(* The wait of Close and Shutdown is over only at a moment when no         *)
(* goroutine copies: both goroutines of a tunnel are counted before they   *)
(* start and leave the count when they are done with their sockets.        *)
CloseWaitsForCopies ==
  [][server # "closed" /\ server' = "closed" => \A c \in Conns : ~Copying(c)]_vars

(* Shutdown: "waits for active connections": nothing is copied once Close  *)
(* or Shutdown has returned (handleConnect's Hijack and Add).  Does not    *)
(* hold: README, section 4.                                                *)
QuietOnceClosed == server = "closed" => \A c \in Conns : ~Copying(c)

(* A connection that does not again and again, or for ever, wait for a     *)
(* side that has stalled ends.  A request ends in a tunnel, a response or  *)
(* an error: the attempts to dial are bounded (dialTCP) and a greeting     *)
(* that stops coming meets a deadline.  A response ends with the           *)
(* destination's.  Once either side of a tunnel has ended, both copies of  *)
(* handleConnect end, although each of them is blocked in a read that only *)
(* the other's closing of a socket ends.                                   *)
ConnectionsEnd ==
  \A c \in Conns : <>[]~Waits(c) =>
    /\ At(c, "dial") ~> link[c].req \in {"tunnel", "reply", "end"}
    /\ (At(c, "reply") /\ link[c].peer \in {"fin", "gone"}) ~> At(c, "end")
    /\ (At(c, "tunnel") /\ (link[c].client \in {"fin", "gone"} \/ link[c].peer \in {"fin", "gone"}))
         ~> (link[c].up = "done" /\ link[c].down = "done")
============================================================================
