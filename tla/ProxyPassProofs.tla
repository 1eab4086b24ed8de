-------------------------- MODULE ProxyPassProofs --------------------------
(***************************************************************************)
(* Invariance proofs for ProxyPass, for any finite set of connections, any *)
(* number of pieces and any limit on the attempts to dial: the types, the  *)
(* sockets that are released, the answers and the uploads that arrive      *)
(* whole and in order, and the copies that Close and Shutdown wait for.    *)
(***************************************************************************)
EXTENDS ProxyPass, FiniteSetTheorems, SequenceTheorems, TLAPS

(* How the two ends, the handler and the goroutines of a connection l fit. *)
Shape(l) ==
  /\ l.client = "out" => l.req = "none"
  /\ l.req = "none" => l.attempt = 0
  /\ l.req = "dial" => l.attempt < MaxAttempts
  /\ l.conn = "none" => l.req = "none"
  /\ l.conn = "closed" => l.down \in {"wait", "done"}
  /\ l.peer = "none" => l.back = 0
  /\ l.req \in {"none", "dial", "pause"} => l.peer = "none" /\ l.dest = "none"
  /\ l.req \in {"greet", "hijack", "flush", "ask", "reply"} => l.dest = "open"
  /\ l.req = "greet" => l.back = 0
  /\ l.req = "tunnel" <=> l.up # "none"
  /\ l.req = "tunnel" <=> l.down # "none"
  /\ l.up \in {"run", "stuck"} => l.dest = "open"
  /\ l.dest = "open" => \/ l.up \in {"run", "stuck"}
                        \/ l.req \in {"greet", "hijack", "flush", "ask", "reply"}
  /\ "peer" \in l.stalled => l.peer \in {"open", "fin"}

(* What was answered has arrived, is in a write that does not return or is *)
(* still to be read; and if neither side broke the connection, all of it   *)
(* has arrived when reading is over.                                       *)
InHand(down) == IF down = "stuck" THEN 1 ELSE 0

Whole(l) ==
  /\ l.client # "gone" /\ l.peer # "gone" => l.heard + l.back + InHand(l.down) = l.answered
  /\ l.client = "open" /\ l.conn # "cut" /\ l.peer # "gone" =>
       /\ l.up = "done" => l.down \in {"wait", "done"}
       /\ l.down \in {"wait", "done"} => l.back = 0 /\ l.peer = "fin"
       /\ l.up = "none" /\ l.dest = "closed" /\ l.answer = "proper" => l.back = 0

(* Does what the child sent still arrive?                                  *)
Heard(l) == l.up = "none" \/ l.peer # "gone"

(* What has arrived, what the proxy has read and not yet written and what  *)
(* is still to be read are the pieces 1, 2, 3 ... in this order ...                    *)
Numbered(pieces, before) == \A i \in 1..Len(pieces) : pieces[i] = before + i

Before(got, held) == Len(got) + Len(held)

InOrder(l) ==
  /\ Numbered(l.got, 0)
  /\ Numbered(l.held, Len(l.got))
  /\ Heard(l) => Numbered(l.wire, Before(l.got, l.held))

(* ... up to the last one; and if no side broke the connection, nothing is *)
(* left to be read when the upward copy is over, and nothing follows.      *)
Total(got, held, wire) == Len(got) + Len(held) + Len(wire)

Complete(l) ==
  /\ l.req # "flush" /\ l.up # "stuck" => l.held = <<>>
  /\ l.up = "none" => l.got = <<>>
  /\ l.client = "out" => l.wire = <<>> /\ l.said = 0
  /\ Heard(l) /\ l.client # "gone" => Total(l.got, l.held, l.wire) = l.said
  /\ l.conn = "closed" => l.peer # "open" \/ l.client = "gone" \/ l.up = "done"
  /\ l.up = "done" /\ l.client # "gone" /\ l.peer = "open" /\ l.conn # "cut" =>
       l.wire = <<>> /\ (l.client = "open" => l.conn # "open")

Upload(l) == InOrder(l) /\ Complete(l)

Good(l) == Shape(l) /\ Whole(l) /\ Upload(l)

LinkInv == link \in [Conns -> Link] /\ \A c \in Conns : Good(link[c])

(* The wait group counts the goroutines that have not called Done.         *)
Uploading == {c \in Conns : link[c].up \in {"run", "stuck"}}

Downloading == {c \in Conns : link[c].down \in {"run", "stuck", "wait"}}

Counted == wg = Cardinality(Uploading) + Cardinality(Downloading)

Inv == TypeOK /\ LinkInv /\ Counted

----------------------------------------------------------------------------
(* Pieces in order: one more is sent, some are taken, what was taken is    *)
(* forwarded, one is passed on.                                            *)
LEMMA NoPieces ==
  Total(<<>>, <<>>, <<>>) = 0 /\ \A n : Numbered(<<>>, n)
BY DEF Total, Numbered

LEMMA PieceSent ==
  ASSUME NEW got \in Seq(Nat), NEW held \in Seq(Nat), NEW wire \in Seq(Nat), NEW said \in Nat,
         Numbered(wire, Before(got, held)), Total(got, held, wire) = said
  PROVE  /\ Numbered(Append(wire, said + 1), Before(got, held))
         /\ Total(got, held, Append(wire, said + 1)) = said + 1
<1>1. said + 1 \in Nat /\ said = Len(got) + Len(held) + Len(wire)
  BY DEF Total
<1>2. /\ Len(Append(wire, said + 1)) = Len(wire) + 1
      /\ Append(wire, said + 1)[Len(wire) + 1] = said + 1
      /\ \A i \in 1..Len(wire) : Append(wire, said + 1)[i] = wire[i]
  BY <1>1
<1>3. Len(got) \in Nat /\ Len(held) \in Nat /\ Len(wire) \in Nat
  OBVIOUS
<1>4. ASSUME NEW i \in 1..(Len(wire) + 1)
      PROVE  Append(wire, said + 1)[i] = Len(got) + Len(held) + i
  <2>1. CASE i = Len(wire) + 1
    BY <1>1, <1>2, <1>3, <2>1
  <2>2. CASE i \in 1..Len(wire)
    BY <1>2, <2>2 DEF Numbered, Before
  <2> QED BY <1>3, <1>4, <2>1, <2>2
<1>5. Numbered(Append(wire, said + 1), Before(got, held))
  BY <1>2, <1>4 DEF Numbered, Before
<1>6. Total(got, held, Append(wire, said + 1)) = said + 1
  BY <1>1, <1>2, <1>3 DEF Total
<1> QED
  BY <1>5, <1>6

LEMMA PiecesTaken ==
  ASSUME NEW wire \in Seq(Nat), Numbered(wire, Before(<<>>, <<>>)), NEW n \in 0..Len(wire)
  PROVE  /\ Numbered(SubSeq(wire, 1, n), 0)
         /\ Numbered(SubSeq(wire, n + 1, Len(wire)), Before(<<>>, SubSeq(wire, 1, n)))
         /\ Total(<<>>, SubSeq(wire, 1, n), SubSeq(wire, n + 1, Len(wire))) = Total(<<>>, <<>>, wire)
<1>1. Len(<<>>) = 0 /\ \A i \in 1..Len(wire) : wire[i] = i
  BY DEF Numbered, Before
<1>2. /\ Len(SubSeq(wire, 1, n)) = n
      /\ \A i \in 1..n : SubSeq(wire, 1, n)[i] = wire[i]
      /\ Len(SubSeq(wire, n + 1, Len(wire))) = Len(wire) - n
      /\ \A i \in 1..(Len(wire) - n) : SubSeq(wire, n + 1, Len(wire))[i] = wire[n + i]
  OBVIOUS
<1>3. Len(wire) \in Nat /\ n \in Nat /\ n =< Len(wire)
  OBVIOUS
<1>4. Numbered(SubSeq(wire, 1, n), 0)
  BY <1>1, <1>2, <1>3 DEF Numbered
<1>5. Numbered(SubSeq(wire, n + 1, Len(wire)), Before(<<>>, SubSeq(wire, 1, n)))
  <2>1. Before(<<>>, SubSeq(wire, 1, n)) = n
    BY <1>1, <1>2, <1>3 DEF Before
  <2>2. \A i \in 1..(Len(wire) - n) : wire[n + i] = n + i
    BY <1>1, <1>3
  <2> QED BY <1>2, <2>1, <2>2 DEF Numbered
<1>6. Total(<<>>, SubSeq(wire, 1, n), SubSeq(wire, n + 1, Len(wire))) = Total(<<>>, <<>>, wire)
  <2> DEFINE taken == SubSeq(wire, 1, n)
             left == SubSeq(wire, n + 1, Len(wire))
  <2>1. Len(<<>>) = 0 /\ Len(taken) = n /\ Len(left) = Len(wire) - n
    BY <1>1, <1>2
  <2> HIDE DEF taken, left
  <2>2. Total(<<>>, taken, left) = Total(<<>>, <<>>, wire)
    BY <1>3, <2>1 DEF Total
  <2> QED BY <2>2 DEF taken, left
<1> QED
  BY <1>4, <1>5, <1>6

LEMMA PiecesForwarded ==
  ASSUME NEW got \in Seq(Nat), NEW held \in Seq(Nat), NEW wire \in Seq(Nat),
         Numbered(got, 0), Numbered(held, Len(got)), Numbered(wire, Before(got, held))
  PROVE  /\ Numbered(got \o held, 0)
         /\ Numbered(wire, Before(got \o held, <<>>))
         /\ Total(got \o held, <<>>, wire) = Total(got, held, wire)
<1>1. Len(<<>>) = 0 /\ Len(got) \in Nat /\ Len(held) \in Nat /\ Len(wire) \in Nat
  OBVIOUS
<1>2. /\ Len(got \o held) = Len(got) + Len(held)
      /\ \A i \in 1..(Len(got) + Len(held)) :
           (got \o held)[i] = IF i =< Len(got) THEN got[i] ELSE held[i - Len(got)]
  OBVIOUS
<1>3. ASSUME NEW i \in 1..(Len(got) + Len(held)) PROVE (got \o held)[i] = i
  <2>1. CASE i =< Len(got)
    BY <1>1, <1>2, <2>1 DEF Numbered
  <2>2. CASE ~(i =< Len(got))
    <3>1. i - Len(got) \in 1..Len(held)
      BY <1>1, <2>2
    <3> QED BY <1>1, <1>2, <2>2, <3>1 DEF Numbered
  <2> QED BY <2>1, <2>2
<1> DEFINE all == got \o held
<1>4. Len(all) = Len(got) + Len(held) /\ \A i \in 1..(Len(got) + Len(held)) : all[i] = i
  BY <1>2, <1>3
<1> HIDE DEF all
<1>5. Numbered(all, 0) /\ Before(all, <<>>) = Before(got, held) /\ Total(all, <<>>, wire) = Total(got, held, wire)
  BY <1>1, <1>4 DEF Numbered, Before, Total
<1> QED BY <1>5 DEF all

(* One piece is read that cannot be written yet.                           *)
LEMMA PieceHeld ==
  ASSUME NEW got \in Seq(Nat), NEW wire \in Seq(Nat), wire # <<>>, Numbered(wire, Before(got, <<>>))
  PROVE  /\ Numbered(<<Head(wire)>>, Len(got))
         /\ Numbered(Tail(wire), Before(got, <<Head(wire)>>))
         /\ Total(got, <<Head(wire)>>, Tail(wire)) = Total(got, <<>>, wire)
<1>1. Len(<<>>) = 0 /\ Head(wire) = Len(got) + 1 /\ Len(got) \in Nat /\ Len(wire) \in Nat \ {0}
  BY DEF Numbered, Before
<1>2. Len(<<Head(wire)>>) = 1 /\ <<Head(wire)>>[1] = Len(got) + 1
  BY <1>1
<1>3. Len(Tail(wire)) = Len(wire) - 1 /\ \A i \in 1..(Len(wire) - 1) : Tail(wire)[i] = wire[i + 1]
  OBVIOUS
<1>4. \A i \in 1..Len(wire) : wire[i] = Len(got) + i
  BY <1>1 DEF Numbered, Before
<1> DEFINE one == <<Head(wire)>>
           rest == Tail(wire)
<1>5. Len(one) = 1 /\ one[1] = Len(got) + 1 /\ Len(rest) = Len(wire) - 1
      /\ \A i \in 1..(Len(wire) - 1) : rest[i] = Len(got) + 1 + i
  BY <1>1, <1>2, <1>3, <1>4
<1> HIDE DEF one, rest
<1>6. Numbered(one, Len(got))
  BY <1>1, <1>5 DEF Numbered
<1>7. Numbered(rest, Before(got, one)) /\ Total(got, one, rest) = Total(got, <<>>, wire)
  BY <1>1, <1>5 DEF Numbered, Before, Total
<1> QED BY <1>6, <1>7 DEF one, rest

LEMMA PiecePassed ==
  ASSUME NEW got \in Seq(Nat), NEW wire \in Seq(Nat), wire # <<>>,
         Numbered(got, 0), Numbered(wire, Before(got, <<>>))
  PROVE  /\ Numbered(Append(got, Head(wire)), 0)
         /\ Numbered(Tail(wire), Before(Append(got, Head(wire)), <<>>))
         /\ Total(Append(got, Head(wire)), <<>>, Tail(wire)) = Total(got, <<>>, wire)
<1>1. Len(<<>>) = 0 /\ Head(wire) = Len(got) + 1
  BY DEF Numbered, Before
<1>2. /\ Len(Append(got, Head(wire))) = Len(got) + 1
      /\ Append(got, Head(wire))[Len(got) + 1] = Len(got) + 1
      /\ \A i \in 1..Len(got) : Append(got, Head(wire))[i] = got[i]
  BY <1>1
<1>3. Len(Tail(wire)) = Len(wire) - 1 /\ \A i \in 1..(Len(wire) - 1) : Tail(wire)[i] = wire[i + 1]
  OBVIOUS
<1> QED
  BY <1>1, <1>2, <1>3 DEF Numbered, Before, Total

(* A step of a connection keeps its invariant and leaves the others alone. *)
LEMMA OneLink ==
  ASSUME LinkInv, NEW c \in Conns, Handler(c) \/ Environment(c)
  PROVE  /\ link' \in [Conns -> Link]
         /\ Good(link'[c])
         /\ \A d \in Conns \ {c} : link'[d] = link[d]
<1> DEFINE l == link[c]
<1>1. l \in Link /\ Good(l)
  BY DEF LinkInv
<1>0. l \in Link
  BY <1>1
<1>2. ASSUME NEW r \in Link, Good(r), link' = [link EXCEPT ![c] = r]
      PROVE  /\ link' \in [Conns -> Link]
             /\ Good(link'[c])
             /\ \A d \in Conns \ {c} : link'[d] = link[d]
  BY <1>2 DEF LinkInv
<1>3. /\ 0 \in 0..MaxAttempts /\ MaxAttempts \in Nat /\ 0 < MaxAttempts
      /\ Len(l.wire) \in Nat /\ <<>> \in Seq(Nat)
  BY <1>0, ProxyAssumption DEF Link
<1>4. CASE Request(c)
  <2> DEFINE r(stage) == [l EXCEPT !.req = stage, !.client = "open", !.conn = "open"]
  <2>1. PICK stage \in {"dial", "bad"} : link' = [link EXCEPT ![c] = r(stage)]
    BY <1>4 DEF Request, At, LinkInv
  <2>2. r(stage) \in Link
    <3>1. stage \in Stages
      BY DEF Stages
    <3> HIDE DEF l
    <3> QED BY <1>0, <3>1, ZenonT(40) DEF Link
  <2>3. Good(r(stage))
    BY <1>1, <1>3, <1>4 DEF Request, At, Good, Shape, Whole, Upload, InOrder, Complete, Heard, Link
  <2> HIDE DEF r
  <2> QED BY <1>2, <2>1, <2>2, <2>3
<1>5. CASE Say(c)
  <2> DEFINE r == [l EXCEPT !.said = @ + 1, !.wire = Append(@, l.said + 1)]
  <2>1. link' = [link EXCEPT ![c] = r]
    BY <1>5 DEF Say, LinkInv
  <2>2. r \in Link
    <3>1. l.said + 1 \in Nat /\ Append(l.wire, l.said + 1) \in Seq(Nat)
      BY <1>0 DEF Link
    <3> QED BY <1>0, <3>1 DEF Link, Stages
  <2>3. Shape(r) /\ Whole(r)
    BY <1>1, <1>5, SMTT(30) DEF Say, At, Good, Shape, Whole, Link
  <2>4. Upload(r)
    <3>1. /\ r.got = l.got /\ r.held = l.held /\ r.wire = Append(l.wire, l.said + 1) /\ r.said = l.said + 1
          /\ r.client = l.client /\ r.conn = l.conn /\ r.peer = l.peer /\ r.up = l.up /\ r.req = l.req
      BY <1>0 DEF Link
    <3>2. l.wire \in Seq(Nat) /\ l.got \in Seq(Nat) /\ l.held \in Seq(Nat) /\ l.said \in Nat
      BY <1>0 DEF Link
    <3>3. l.client = "open" /\ l.conn = "open"
      BY <1>5 DEF Say
    <3>4. Upload(l)
      BY <1>1 DEF Good
    <3> HIDE DEF r, l
    <3>5. Heard(l) => /\ Numbered(r.wire, Before(r.got, r.held))
                      /\ Total(r.got, r.held, r.wire) = r.said
      <4> SUFFICES ASSUME Heard(l)
                   PROVE  /\ Numbered(r.wire, Before(r.got, r.held))
                          /\ Total(r.got, r.held, r.wire) = r.said
        OBVIOUS
      <4>1. Numbered(l.wire, Before(l.got, l.held)) /\ Total(l.got, l.held, l.wire) = l.said
        BY <3>3, <3>4 DEF Upload, Complete, InOrder
      <4> QED BY <3>1, <3>2, <4>1, PieceSent
    <3> QED BY <3>1, <3>3, <3>4, <3>5 DEF Upload, InOrder, Complete, Heard
  <2>5. Good(r)
    BY <2>3, <2>4 DEF Good
  <2> HIDE DEF r
  <2> QED BY <1>2, <2>1, <2>2, <2>5
<1>6. CASE ClientFin(c)
  <2> DEFINE r == [l EXCEPT !.client = "fin"]
  <2>1. link' = [link EXCEPT ![c] = r]
    BY <1>6 DEF ClientFin, LinkInv
  <2>2. r \in Link
    BY <1>0 DEF Link, Stages
  <2>3. Good(r)
    BY <1>1, <1>6 DEF ClientFin, At, Good, Shape, Whole, Upload, InOrder, Complete, Heard, Link
  <2> HIDE DEF r
  <2> QED BY <1>2, <2>1, <2>2, <2>3
<1>7. CASE ClientGone(c)
  <2> DEFINE r(w) == [l EXCEPT !.client = "gone", !.wire = w, !.stalled = @ \ {"client"}]
  <2>1. PICK w \in {l.wire, <<>>} : link' = [link EXCEPT ![c] = r(w)]
    BY <1>7 DEF ClientGone, At, LinkInv
  <2>2. r(w) \in Link
    BY <1>0, <1>3 DEF Link, Stages
  <2>3. Shape(r(w)) /\ Whole(r(w))
    BY <1>1, <1>7 DEF ClientGone, At, Good, Shape, Whole, Link
  <2>4. Upload(r(w))
    <3>1. /\ r(w).got = l.got /\ r(w).held = l.held /\ r(w).wire = w /\ r(w).said = l.said
          /\ r(w).client = "gone" /\ r(w).conn = l.conn /\ r(w).peer = l.peer /\ r(w).up = l.up
          /\ r(w).req = l.req
      BY <1>0 DEF Link
    <3>2. Upload(l)
      BY <1>1 DEF Good
    <3> HIDE DEF r, l
    <3>3. Heard(r(w)) => Numbered(w, Before(l.got, l.held))
      BY <2>1, <3>1, <3>2, NoPieces DEF Upload, InOrder, Heard
    <3> QED BY <1>7, <3>1, <3>2, <3>3 DEF ClientGone, Upload, InOrder, Complete, l
  <2>5. Good(r(w))
    BY <2>3, <2>4 DEF Good
  <2> HIDE DEF r
  <2> QED BY <1>2, <2>1, <2>2, <2>5
<1>8. CASE Answer(c)
  <2> DEFINE r == [l EXCEPT !.answered = @ + 1, !.back = @ + 1]
  <2>1. link' = [link EXCEPT ![c] = r]
    BY <1>8 DEF Answer, LinkInv
  <2>2. r \in Link
    <3>1. l.answered + 1 \in Nat /\ l.back + 1 \in Nat
      <4> HIDE DEF l
      <4>1. l.answered \in Nat /\ l.back \in Nat
        BY <1>0 DEF Link
      <4> QED BY <4>1
    <3> QED BY <1>0, <3>1 DEF Link, Stages
  <2>3. Shape(r) /\ Whole(r)
    <3>1. Shape(l) /\ Whole(l)
      BY <1>1 DEF Good
    <3>2. Shape(r)
      BY <1>0, <1>8, <3>1 DEF Answer, At, Shape, Link
    <3>3. Whole(r)
      <4>1. /\ r.answered = l.answered + 1 /\ r.back = l.back + 1 /\ r.heard = l.heard
            /\ r.client = l.client /\ r.conn = l.conn /\ r.peer = l.peer
            /\ r.up = l.up /\ r.down = l.down /\ r.dest = l.dest /\ r.answer = l.answer
        BY <1>0 DEF Link
      <4>2. l.answered \in Nat /\ l.back \in Nat /\ l.heard \in Nat /\ InHand(l.down) \in Nat
        BY <1>0 DEF Link, InHand
      <4>3. l.peer = "open" /\ l.dest = "open"
        BY <1>8 DEF Answer
      <4> HIDE DEF r, l
      <4> DEFINE before == l.heard + l.back + InHand(l.down)
      <4>5. r.heard + r.back + InHand(r.down) = before + 1 /\ before \in Nat
        BY <4>1, <4>2
      <4> HIDE DEF before
      <4>6. before = l.answered => r.heard + r.back + InHand(r.down) = r.answered
        BY <4>1, <4>2, <4>5
      <4>4. l.heard + l.back + InHand(l.down) = l.answered => r.heard + r.back + InHand(r.down) = r.answered
        BY <4>6 DEF before
      <4> QED BY <3>1, <4>1, <4>3, <4>4 DEF Whole
    <3> QED BY <3>2, <3>3
  <2>4. Upload(r)
    BY <1>1, <1>8 DEF Answer, At, Good, Shape, Upload, InOrder, Complete, Heard, Link
  <2>5. Good(r)
    BY <2>3, <2>4 DEF Good
  <2> HIDE DEF r
  <2> QED BY <1>2, <2>1, <2>2, <2>5
<1>9. CASE PeerFin(c)
  <2> DEFINE r == [l EXCEPT !.peer = "fin"]
  <2>1. link' = [link EXCEPT ![c] = r]
    BY <1>9 DEF PeerFin, LinkInv
  <2>2. r \in Link
    BY <1>0 DEF Link, Stages
  <2>3. Good(r)
    BY <1>1, <1>9 DEF PeerFin, At, Good, Shape, Whole, Upload, InOrder, Complete, Heard, Link
  <2> HIDE DEF r
  <2> QED BY <1>2, <2>1, <2>2, <2>3
<1>10. CASE PeerGone(c)
  <2> DEFINE r(b) == [l EXCEPT !.peer = "gone", !.back = b, !.stalled = @ \ {"peer"}]
  <2>1. PICK b \in {l.back, 0} : link' = [link EXCEPT ![c] = r(b)]
    BY <1>10 DEF PeerGone, At, LinkInv
  <2>2. r(b) \in Link
    <3>1. \A n \in {l.back, 0} : n \in Nat
      BY <1>0 DEF Link
    <3> QED BY <1>0, <3>1, ZenonT(40) DEF Link, Stages
  <2>3. Shape(r(b)) /\ Whole(r(b))
    BY <1>1, <1>10 DEF PeerGone, At, Good, Shape, Whole, Link
  <2>4. Upload(r(b))
    BY <1>1, <1>10 DEF PeerGone, At, Good, Shape, Upload, InOrder, Complete, Heard, Link
  <2>5. Good(r(b))
    BY <2>3, <2>4 DEF Good
  <2> HIDE DEF r
  <2> QED BY <1>2, <2>1, <2>2, <2>5
<1>11. CASE DialOk(c)
  <2> DEFINE r(stage) == [l EXCEPT !.dest = "open", !.peer = "open", !.attempt = 0, !.req = stage]
  <2>1. PICK stage \in Routes : link' = [link EXCEPT ![c] = r(stage)]
    BY <1>11 DEF DialOk, At, LinkInv
  <2>2. r(stage) \in Link
    <3>1. stage \in Stages
      BY DEF Routes, Stages
    <3> HIDE DEF l
    <3> QED BY <1>0, <1>3, <3>1, ZenonT(40) DEF Link
  <2>3. Good(r(stage))
    <3>1. Shape(l) /\ Whole(l) /\ Upload(l) /\ stage \in Routes
      BY <1>1 DEF Good
    <3>2. Shape(r(stage))
      BY <1>0, <1>11, <3>1 DEF DialOk, Routes, At, Shape, Link
    <3>3. Whole(r(stage))
      BY <1>0, <1>11, <3>1 DEF DialOk, At, Shape, Whole, Link
    <3>4. Upload(r(stage))
      BY <1>0, <1>11, <3>1 DEF DialOk, Routes, At, Shape, Upload, InOrder, Complete, Heard, Link
    <3> QED BY <3>2, <3>3, <3>4 DEF Good
  <2> HIDE DEF r
  <2> QED BY <1>2, <2>1, <2>2, <2>3
<1>12. CASE DialHard(c)
  <2> DEFINE r == [l EXCEPT !.req = "bad", !.attempt = 0]
  <2>1. link' = [link EXCEPT ![c] = r]
    BY <1>12 DEF DialHard, LinkInv
  <2>2. r \in Link
    BY <1>0, <1>3 DEF Link, Stages
  <2>3. Good(r)
    BY <1>1, <1>12 DEF DialHard, At, Good, Shape, Whole, Upload, InOrder, Complete, Heard, Link
  <2> HIDE DEF r
  <2> QED BY <1>2, <2>1, <2>2, <2>3
<1>13. CASE DialTimeout(c)
  <2> DEFINE r == [l EXCEPT !.req = "pause", !.attempt = @ + 1]
  <2>1. link' = [link EXCEPT ![c] = r]
    BY <1>13 DEF DialTimeout, LinkInv
  <2>2. r \in Link
    <3>1. l.attempt + 1 \in 0..MaxAttempts
      <4>1. l.attempt < MaxAttempts
        BY <1>1, <1>13 DEF DialTimeout, At, Good, Shape
      <4> HIDE DEF l
      <4>2. l.attempt \in 0..MaxAttempts
        BY <1>0 DEF Link
      <4> QED BY <1>3, <4>1, <4>2
    <3> QED BY <1>0, <3>1 DEF Link, Stages
  <2>3. Good(r)
    BY <1>1, <1>13 DEF DialTimeout, At, Good, Shape, Whole, Upload, InOrder, Complete, Heard, Link
  <2> HIDE DEF r
  <2> QED BY <1>2, <2>1, <2>2, <2>3
<1>14. CASE ContextEnds(c)
  <2> DEFINE r == [l EXCEPT !.req = "bad", !.attempt = 0]
  <2>1. link' = [link EXCEPT ![c] = r]
    BY <1>14 DEF ContextEnds, LinkInv
  <2>2. r \in Link
    BY <1>0, <1>3 DEF Link, Stages
  <2>3. Good(r)
    BY <1>1, <1>14, SMTT(30) DEF ContextEnds, At, Good, Shape, Whole, Upload, InOrder, Complete, Heard, Link
  <2> HIDE DEF r
  <2> QED BY <1>2, <2>1, <2>2, <2>3
<1>15. CASE Retry(c)
  <2> DEFINE r == [l EXCEPT !.req = IF l.attempt < MaxAttempts THEN "dial" ELSE "bad", !.attempt = IF @ < MaxAttempts THEN @ ELSE 0]
  <2>1. link' = [link EXCEPT ![c] = r]
    BY <1>15 DEF Retry, LinkInv
  <2>2. r \in Link
    <3> DEFINE stage == IF l.attempt < MaxAttempts THEN "dial" ELSE "bad"
               number == IF l.attempt < MaxAttempts THEN l.attempt ELSE 0
    <3>1. l.attempt \in 0..MaxAttempts
      <4> HIDE DEF l
      <4> QED BY <1>0 DEF Link
    <3>2. stage \in Stages /\ number \in 0..MaxAttempts
      BY <1>3, <3>1 DEF Stages
    <3>3. r = [l EXCEPT !.req = stage, !.attempt = number]
      OBVIOUS
    <3> HIDE DEF l, r, stage, number
    <3> QED BY <1>0, <3>2, <3>3, ZenonT(40) DEF Link
  <2>3. Good(r)
    BY <1>1, <1>15 DEF Retry, At, Good, Shape, Whole, Upload, InOrder, Complete, Heard, Link
  <2> HIDE DEF r
  <2> QED BY <1>2, <2>1, <2>2, <2>3
<1>16. CASE GreetOk(c)
  <2> DEFINE r == [l EXCEPT !.req = "hijack"]
  <2>1. link' = [link EXCEPT ![c] = r]
    BY <1>16 DEF GreetOk, LinkInv
  <2>2. r \in Link
    BY <1>0 DEF Link, Stages
  <2>3. Good(r)
    BY <1>1, <1>16 DEF GreetOk, At, Good, Shape, Whole, Upload, InOrder, Complete, Heard, Link
  <2> HIDE DEF r
  <2> QED BY <1>2, <2>1, <2>2, <2>3
<1>17. CASE GreetFails(c)
  <2> DEFINE r == [l EXCEPT !.req = "bad", !.dest = "closed"]
  <2>1. link' = [link EXCEPT ![c] = r]
    BY <1>17 DEF GreetFails, LinkInv
  <2>2. r \in Link
    BY <1>0, ZenonT(40) DEF Link, Stages
  <2>3. Good(r)
    BY <1>1, <1>17 DEF GreetFails, At, Good, Shape, Whole, Upload, InOrder, Complete, Heard, Link
  <2> HIDE DEF r
  <2> QED BY <1>2, <2>1, <2>2, <2>3
<1>18. CASE BadGateway(c)
  <2> DEFINE r == [l EXCEPT !.req = "end"]
  <2>1. link' = [link EXCEPT ![c] = r]
    BY <1>18 DEF BadGateway, LinkInv
  <2>2. r \in Link
    BY <1>0 DEF Link, Stages
  <2>3. Good(r)
    BY <1>1, <1>18 DEF BadGateway, At, Good, Shape, Whole, Upload, InOrder, Complete, Heard, Link
  <2> HIDE DEF r
  <2> QED BY <1>2, <2>1, <2>2, <2>3
<1>19. CASE WriteRequest(c)
  <2> DEFINE r == [l EXCEPT !.req = "reply"]
  <2>1. link' = [link EXCEPT ![c] = r]
    BY <1>19 DEF WriteRequest, LinkInv
  <2>2. r \in Link
    BY <1>0 DEF Link, Stages
  <2>3. Good(r)
    BY <1>1, <1>19 DEF WriteRequest, At, Good, Shape, Whole, Upload, InOrder, Complete, Heard, Link
  <2> HIDE DEF r
  <2> QED BY <1>2, <2>1, <2>2, <2>3
<1>31. CASE WriteRequestFails(c)
  <2> DEFINE r == [l EXCEPT !.req = "bad", !.dest = "closed"]
  <2>1. link' = [link EXCEPT ![c] = r]
    BY <1>31 DEF WriteRequestFails, LinkInv
  <2>2. r \in Link
    BY <1>0 DEF Link, Stages
  <2>3. Good(r)
    BY <1>1, <1>31, SMTT(30) DEF WriteRequestFails, At, Good, Shape, Whole, Upload, InOrder, Complete, Heard, Link
  <2> HIDE DEF r
  <2> QED BY <1>2, <2>1, <2>2, <2>3
<1>20. CASE ReadResponseFails(c)
  <2> DEFINE r(a) == [l EXCEPT !.req = "bad", !.dest = "closed", !.answer = a]
  <2>1. \E a \in {l.answer, "garbled"} :
          link' = [link EXCEPT ![c] = r(a)] /\ (a = "garbled" \/ l.back = 0)
    <3>1. CASE /\ l.back = 0
               /\ link' = [link EXCEPT ![c].req = "bad", ![c].dest = "closed"]
      <4>1. [l EXCEPT !.req = "bad", !.dest = "closed"] = r(l.answer)
        BY <1>0 DEF Link
      <4>2. link' = [link EXCEPT ![c] = [l EXCEPT !.req = "bad", !.dest = "closed"]]
        BY <3>1
      <4> QED BY <3>1, <4>1, <4>2
    <3>2. CASE link' = [link EXCEPT ![c].req = "bad", ![c].dest = "closed", ![c].answer = "garbled"]
      <4>1. link' = [link EXCEPT ![c] = r("garbled")]
        BY <3>2
      <4> QED BY <4>1
    <3> QED BY <1>20, <3>1, <3>2 DEF ReadResponseFails
  <2>2. PICK a \in {l.answer, "garbled"} : link' = [link EXCEPT ![c] = r(a)] /\ (a = "garbled" \/ l.back = 0)
    BY <2>1
  <2>3. r(a) \in Link
    <3>1. "bad" \in Stages /\ "closed" \in {"none", "open", "closed"} /\ a \in {"proper", "garbled", "interim"}
      BY <1>0, <2>2 DEF Stages, Link
    <3> HIDE DEF l
    <3> QED BY <1>0, <3>1, ZenonT(40) DEF Link
  <2>4. Good(r(a))
    BY <1>1, <1>20, <2>2 DEF ReadResponseFails, At, Good, Shape, Whole, Upload, InOrder, Complete, Heard, Link
  <2> HIDE DEF r
  <2> QED BY <1>2, <2>2, <2>3, <2>4
<1>32. CASE TakeInterim(c)
  <2> DEFINE r == [l EXCEPT !.req = "end", !.dest = "closed", !.answer = "interim"]
  <2>1. link' = [link EXCEPT ![c] = r]
    BY <1>32 DEF TakeInterim, LinkInv
  <2>2. r \in Link
    <3>1. /\ "end" \in Stages /\ "closed" \in {"none", "open", "closed"}
          /\ "interim" \in {"proper", "garbled", "interim"}
      BY DEF Stages
    <3> HIDE DEF l
    <3> QED BY <1>0, <3>1, ZenonT(40) DEF Link
  <2>3. Good(r)
    BY <1>1, <1>32 DEF TakeInterim, At, Good, Shape, Whole, Upload, InOrder, Complete, Heard, Link
  <2> HIDE DEF r
  <2> QED BY <1>2, <2>1, <2>2, <2>3
<1>33. CASE Stall(c)
  <2> DEFINE r(side) == [l EXCEPT !.stalled = @ \cup {side}]
  <2>1. PICK side \in {"client", "peer"} :
          link' = [link EXCEPT ![c] = r(side)] /\ (side = "peer" => l.peer \in {"open", "fin"})
    BY <1>33 DEF Stall, LinkInv
  <2>2. r(side) \in Link
    BY <1>0 DEF Link, Stages
  <2>3. Good(r(side))
    BY <1>1, <2>1 DEF Good, Shape, Whole, Upload, InOrder, Complete, Heard, Link
  <2> HIDE DEF r
  <2> QED BY <1>2, <2>1, <2>2, <2>3
<1>34. CASE Resume(c)
  <2> DEFINE r(side) == [l EXCEPT !.stalled = @ \ {side}]
  <2>1. PICK side \in l.stalled : link' = [link EXCEPT ![c] = r(side)]
    BY <1>34 DEF Resume, LinkInv
  <2>2. r(side) \in Link
    BY <1>0 DEF Link, Stages
  <2>3. Good(r(side))
    BY <1>1 DEF Good, Shape, Whole, Upload, InOrder, Complete, Heard, Link
  <2> HIDE DEF r
  <2> QED BY <1>2, <2>1, <2>2, <2>3
<1>35. CASE UpSticks(c)
  <2> DEFINE r == [l EXCEPT !.up = "stuck", !.wire = Tail(@), !.held = <<Head(l.wire)>>]
  <2>1. link' = [link EXCEPT ![c] = r]
    BY <1>35 DEF UpSticks, LinkInv
  <2>2. r \in Link
    <3>1. Tail(l.wire) \in Seq(Nat) /\ <<Head(l.wire)>> \in Seq(Nat)
      <4>1. l.wire \in Seq(Nat) /\ l.wire # <<>>
        BY <1>0, <1>35 DEF UpSticks, Link
      <4>2. Tail(l.wire) \in Seq(Nat) /\ Head(l.wire) \in Nat
        BY <4>1, HeadTailProperties
      <4> QED BY <4>2
    <3>2. "stuck" \in {"none", "run", "stuck", "done"}
      OBVIOUS
    <3> DEFINE rest == Tail(l.wire)
               one == <<Head(l.wire)>>
    <3>3. r = [l EXCEPT !.up = "stuck", !.wire = rest, !.held = one]
      OBVIOUS
    <3> HIDE DEF l, r, rest, one
    <3> QED BY <1>0, <3>1, <3>2, <3>3, ZenonT(40) DEF Link, rest, one
  <2>3. Shape(r) /\ Whole(r)
    BY <1>1, <1>35, SMTT(30) DEF UpSticks, At, Good, Shape, Whole, Link
  <2>4. Upload(r)
    <3>1. /\ r.got = l.got /\ r.held = <<Head(l.wire)>> /\ r.wire = Tail(l.wire) /\ r.said = l.said
          /\ r.client = l.client /\ r.conn = l.conn /\ r.peer = l.peer /\ r.up = "stuck" /\ r.req = l.req
      BY <1>0 DEF Link
    <3>2. l.wire \in Seq(Nat) /\ l.wire # <<>> /\ l.got \in Seq(Nat)
      BY <1>0, <1>35 DEF UpSticks, Link
    <3>3. l.up = "run" /\ l.held = <<>> /\ l.conn = "open" /\ l.peer # "gone" /\ Upload(l)
      BY <1>1, <1>35 DEF UpSticks, Good, Shape, Upload, Complete
    <3> HIDE DEF r, l
    <3>4. Numbered(l.got, 0) /\ Numbered(l.wire, Before(l.got, <<>>))
      BY <3>3 DEF Upload, InOrder, Heard
    <3>5. /\ Numbered(r.held, Len(r.got))
          /\ Numbered(r.wire, Before(r.got, r.held))
          /\ Total(r.got, r.held, r.wire) = Total(l.got, <<>>, l.wire)
      BY <3>1, <3>2, <3>4, PieceHeld
    <3>6. l.client # "out"
      BY <3>2, <3>3 DEF Upload, Complete
    <3>7. InOrder(r)
      BY <3>1, <3>4, <3>5 DEF InOrder
    <3>8. Complete(r)
      BY <3>1, <3>3, <3>5, <3>6 DEF Upload, Complete, Heard
    <3> QED BY <3>7, <3>8 DEF Upload
  <2>5. Good(r)
    BY <2>3, <2>4 DEF Good
  <2> HIDE DEF r
  <2> QED BY <1>2, <2>1, <2>2, <2>5
<1>36. CASE UpGoesOn(c)
  <2> DEFINE r == [l EXCEPT !.up = "run", !.got = @ \o l.held, !.held = <<>>]
  <2>1. link' = [link EXCEPT ![c] = r]
    BY <1>36 DEF UpGoesOn, LinkInv
  <2>2. r \in Link
    <3>1. l.got \o l.held \in Seq(Nat)
      <4>1. l.got \in Seq(Nat) /\ l.held \in Seq(Nat)
        BY <1>0 DEF Link
      <4> QED BY <4>1, ConcatProperties
    <3>2. "run" \in {"none", "run", "stuck", "done"}
      OBVIOUS
    <3> DEFINE all == l.got \o l.held
    <3>3. r = [l EXCEPT !.up = "run", !.got = all, !.held = <<>>]
      OBVIOUS
    <3> HIDE DEF l, r, all
    <3> QED BY <1>0, <1>3, <3>1, <3>2, <3>3, ZenonT(40) DEF Link, all
  <2>3. Shape(r) /\ Whole(r)
    BY <1>1, <1>36 DEF UpGoesOn, At, Good, Shape, Whole, Link
  <2>4. Upload(r)
    <3>1. /\ r.got = l.got \o l.held /\ r.held = <<>> /\ r.wire = l.wire /\ r.said = l.said
          /\ r.client = l.client /\ r.conn = l.conn /\ r.peer = l.peer /\ r.up = "run" /\ r.req = l.req
      BY <1>0 DEF Link
    <3>2. l.wire \in Seq(Nat) /\ l.held \in Seq(Nat) /\ l.got \in Seq(Nat)
      BY <1>0 DEF Link
    <3>3. l.up = "stuck" /\ l.req = "tunnel" /\ l.client # "out" /\ l.peer # "gone" /\ Upload(l)
      BY <1>1, <1>36 DEF UpGoesOn, Good, Shape
    <3> HIDE DEF r, l
    <3>4. Numbered(l.got, 0) /\ Numbered(l.held, Len(l.got)) /\ Numbered(l.wire, Before(l.got, l.held))
      BY <3>3 DEF Upload, InOrder, Heard
    <3>5. /\ Numbered(r.got, 0)
          /\ Numbered(r.wire, Before(r.got, r.held))
          /\ Total(r.got, r.held, r.wire) = Total(l.got, l.held, l.wire)
      BY <3>1, <3>2, <3>4, PiecesForwarded
    <3>6. InOrder(r)
      BY <3>1, <3>5, NoPieces DEF InOrder
    <3>7. Complete(r)
      BY <3>1, <3>3, <3>5 DEF Upload, Complete, Heard
    <3> QED BY <3>6, <3>7 DEF Upload
  <2>5. Good(r)
    BY <2>3, <2>4 DEF Good
  <2> HIDE DEF r
  <2> QED BY <1>2, <2>1, <2>2, <2>5
<1>37. CASE DownSticks(c)
  <2> DEFINE r == [l EXCEPT !.down = "stuck", !.back = @ - 1]
  <2>1. link' = [link EXCEPT ![c] = r]
    BY <1>37 DEF DownSticks, LinkInv
  <2>0. l.back \in Nat /\ l.heard \in Nat /\ l.answered \in Nat /\ l.back > 0
    BY <1>0, <1>37 DEF DownSticks, Link
  <2>a. l.back - 1 \in Nat
    <3> HIDE DEF l
    <3> QED BY <2>0
  <2>2. r \in Link
    <3>1. "stuck" \in {"none", "run", "stuck", "wait", "done"}
      OBVIOUS
    <3> DEFINE n == l.back - 1
    <3>2. n \in Nat /\ r = [l EXCEPT !.down = "stuck", !.back = n]
      BY <2>a
    <3> HIDE DEF l, r, n
    <3> QED BY <1>0, <3>1, <3>2, ZenonT(40) DEF Link
  <2>3. Shape(r) /\ Whole(r)
    <3>1. Shape(l) /\ Whole(l)
      BY <1>1 DEF Good
    <3>2. Shape(r)
      BY <1>0, <1>37, <3>1 DEF DownSticks, At, Shape, Link
    <3>3. l.down = "run" /\ l.dest = "open"
      BY <1>37 DEF DownSticks
    <3>4. /\ r.answered = l.answered /\ r.back = l.back - 1 /\ r.heard = l.heard /\ r.down = "stuck"
          /\ r.client = l.client /\ r.conn = l.conn /\ r.peer = l.peer
          /\ r.up = l.up /\ r.dest = l.dest /\ r.answer = l.answer
      BY <1>0 DEF Link
    <3> HIDE DEF r, l
    <3>6. r.heard + r.back + InHand(r.down) = l.heard + l.back + InHand(l.down)
      BY <2>0, <3>3, <3>4 DEF InHand
    <3> QED BY <3>1, <3>2, <3>3, <3>4, <3>6 DEF Whole
  <2>4. Upload(r)
    BY <1>1, <1>37 DEF DownSticks, At, Good, Shape, Upload, InOrder, Complete, Heard, Link
  <2>5. Good(r)
    BY <2>3, <2>4 DEF Good
  <2> HIDE DEF r
  <2> QED BY <1>2, <2>1, <2>2, <2>5
<1>38. CASE DownGoesOn(c)
  <2> DEFINE r == [l EXCEPT !.down = "run", !.heard = @ + 1]
  <2>1. link' = [link EXCEPT ![c] = r]
    BY <1>38 DEF DownGoesOn, LinkInv
  <2>0. l.back \in Nat /\ l.heard \in Nat /\ l.answered \in Nat
    BY <1>0 DEF Link
  <2>a. l.heard + 1 \in Nat
    <3> HIDE DEF l
    <3> QED BY <2>0
  <2>2. r \in Link
    <3>1. "run" \in {"none", "run", "stuck", "wait", "done"}
      OBVIOUS
    <3> DEFINE n == l.heard + 1
    <3>2. n \in Nat /\ r = [l EXCEPT !.down = "run", !.heard = n]
      BY <2>a
    <3> HIDE DEF l, r, n
    <3> QED BY <1>0, <3>1, <3>2, ZenonT(40) DEF Link
  <2>3. Shape(r) /\ Whole(r)
    <3>1. Shape(l) /\ Whole(l)
      BY <1>1 DEF Good
    <3>2. Shape(r)
      BY <1>0, <1>38, <3>1 DEF DownGoesOn, At, Shape, Link
    <3>3. l.down = "stuck"
      BY <1>38 DEF DownGoesOn
    <3>4. /\ r.answered = l.answered /\ r.back = l.back /\ r.heard = l.heard + 1 /\ r.down = "run"
          /\ r.client = l.client /\ r.conn = l.conn /\ r.peer = l.peer
          /\ r.up = l.up /\ r.dest = l.dest /\ r.answer = l.answer
      BY <1>0 DEF Link
    <3> HIDE DEF r, l
    <3>6. r.heard + r.back + InHand(r.down) = l.heard + l.back + InHand(l.down)
      BY <2>0, <3>3, <3>4 DEF InHand
    <3> QED BY <3>1, <3>2, <3>3, <3>4, <3>6 DEF Whole
  <2>4. Upload(r)
    BY <1>1, <1>38 DEF DownGoesOn, At, Good, Shape, Upload, InOrder, Complete, Heard, Link
  <2>5. Good(r)
    BY <2>3, <2>4 DEF Good
  <2> HIDE DEF r
  <2> QED BY <1>2, <2>1, <2>2, <2>5
<1>21. CASE CopyBody(c)
  <2> DEFINE r == [l EXCEPT !.back = @ - 1, !.heard = @ + 1]
  <2>1. link' = [link EXCEPT ![c] = r]
    BY <1>21 DEF CopyBody, LinkInv
  <2>2. r \in Link
    <3>1. l.back - 1 \in Nat /\ l.heard + 1 \in Nat
      <4>1. l.back > 0
        BY <1>21 DEF CopyBody
      <4> HIDE DEF l
      <4>2. l.back \in Nat /\ l.heard \in Nat
        BY <1>0 DEF Link
      <4> QED BY <4>1, <4>2
    <3> QED BY <1>0, <3>1 DEF Link, Stages
  <2>3. Shape(r) /\ Whole(r)
    <3>1. Shape(l) /\ Whole(l)
      BY <1>1 DEF Good
    <3>2. Shape(r)
      BY <1>0, <1>21, <3>1 DEF CopyBody, At, Shape, Link
    <3>3. Whole(r)
      <4>1. /\ r.answered = l.answered /\ r.back = l.back - 1 /\ r.heard = l.heard + 1
            /\ r.down = l.down /\ r.up = l.up /\ r.dest = l.dest /\ r.answer = l.answer
            /\ r.client = l.client /\ r.conn = l.conn /\ r.peer = l.peer
        BY <1>0 DEF Link
      <4>2. l.back \in Nat /\ l.heard \in Nat /\ l.answered \in Nat /\ l.back > 0 /\ InHand(l.down) \in Nat
        BY <1>0, <1>21 DEF CopyBody, Link, InHand
      <4>3. l.dest = "open"
        BY <1>21, <3>1 DEF CopyBody, At, Shape
      <4> HIDE DEF r, l
      <4>4. r.heard + r.back + InHand(r.down) = l.heard + l.back + InHand(l.down)
        BY <4>1, <4>2
      <4> QED BY <3>1, <4>1, <4>2, <4>3, <4>4 DEF Whole
    <3> QED BY <3>2, <3>3
  <2>4. Upload(r)
    BY <1>1, <1>21 DEF CopyBody, At, Good, Shape, Upload, InOrder, Complete, Heard, Link
  <2>5. Good(r)
    BY <2>3, <2>4 DEF Good
  <2> HIDE DEF r
  <2> QED BY <1>2, <2>1, <2>2, <2>5
<1>22. CASE BodyEnds(c)
  <2> DEFINE r == [l EXCEPT !.req = "end", !.dest = "closed"]
  <2>1. link' = [link EXCEPT ![c] = r]
    BY <1>22 DEF BodyEnds, LinkInv
  <2>2. r \in Link
    BY <1>0 DEF Link, Stages
  <2>3. Good(r)
    BY <1>1, <1>22 DEF BodyEnds, At, Good, Shape, Whole, Upload, InOrder, Complete, Heard, Link
  <2> HIDE DEF r
  <2> QED BY <1>2, <2>1, <2>2, <2>3
<1>23. CASE Hijack(c)
  <2> DEFINE r(n) == [l EXCEPT !.req = "flush", !.held = SubSeq(l.wire, 1, n), !.wire = SubSeq(l.wire, n + 1, Len(l.wire))]
  <2>1. PICK n \in 0..Len(l.wire) : link' = [link EXCEPT ![c] = r(n)]
    BY <1>23 DEF Hijack, At, LinkInv
  <2>2. r(n) \in Link
    <3>1. \A i \in 0..Len(l.wire) : SubSeq(l.wire, 1, i) \in Seq(Nat) /\ SubSeq(l.wire, i + 1, Len(l.wire)) \in Seq(Nat)
      <4>1. l.wire \in Seq(Nat)
        BY <1>0 DEF Link
      <4>2. \A i \in 1..Len(l.wire) : l.wire[i] \in Nat
        BY <4>1, ElementOfSeq
      <4> HIDE DEF l
      <4> QED BY <1>3, <4>2, SubSeqProperties
    <3> QED BY <1>0, <3>1 DEF Link, Stages
  <2>3. Shape(r(n)) /\ Whole(r(n))
    BY <1>1, <1>23 DEF Hijack, At, Good, Shape, Whole, Link
  <2>4. Upload(r(n))
    <3>1. /\ r(n).got = l.got /\ r(n).held = SubSeq(l.wire, 1, n)
          /\ r(n).wire = SubSeq(l.wire, n + 1, Len(l.wire)) /\ r(n).said = l.said
          /\ r(n).client = l.client /\ r(n).conn = l.conn /\ r(n).peer = l.peer /\ r(n).up = l.up
          /\ r(n).req = "flush"
      BY <1>0 DEF Link
    <3>2. l.wire \in Seq(Nat)
      BY <1>0 DEF Link
    <3>3. l.up = "none" /\ l.held = <<>> /\ l.got = <<>> /\ Upload(l)
      BY <1>1, <1>23 DEF Hijack, At, Good, Shape, Upload, Complete
    <3> HIDE DEF r, l
    <3>4. Numbered(l.wire, Before(<<>>, <<>>)) /\ r(n).got = <<>> /\ r(n).up = "none"
      BY <3>1, <3>3 DEF Upload, InOrder, Heard
    <3>5. /\ Numbered(r(n).held, 0)
          /\ Numbered(r(n).wire, Before(<<>>, r(n).held))
          /\ Total(<<>>, r(n).held, r(n).wire) = Total(<<>>, <<>>, l.wire)
      BY <2>1, <3>1, <3>2, <3>4, PiecesTaken
    <3>6. l.client # "out"
      BY <1>1, <1>23 DEF Hijack, At, Good, Shape, l
    <3>7. InOrder(r(n))
      <4>1. Len(<<>>) = 0
        OBVIOUS
      <4> QED BY <3>4, <3>5, <4>1, NoPieces DEF InOrder
    <3>8. Complete(r(n))
      BY <3>1, <3>3, <3>4, <3>5, <3>6 DEF Upload, Complete, Heard
    <3> QED BY <3>7, <3>8 DEF Upload
  <2>5. Good(r(n))
    BY <2>3, <2>4 DEF Good
  <2> HIDE DEF r
  <2> QED BY <1>2, <2>1, <2>2, <2>5
<1>24. CASE HijackFails(c)
  <2> DEFINE r == [l EXCEPT !.req = "end", !.dest = "closed"]
  <2>1. link' = [link EXCEPT ![c] = r]
    BY <1>24 DEF HijackFails, LinkInv
  <2>2. r \in Link
    BY <1>0 DEF Link, Stages
  <2>3. Good(r)
    BY <1>1, <1>24 DEF HijackFails, At, Good, Shape, Whole, Upload, InOrder, Complete, Heard, Link
  <2> HIDE DEF r
  <2> QED BY <1>2, <2>1, <2>2, <2>3
<1>25. CASE StartTunnel(c)
  <2> DEFINE g == IF l.peer = "gone" THEN l.got ELSE l.got \o l.held
             r == [l EXCEPT !.req = "tunnel", !.held = <<>>, !.got = g, !.up = "run", !.down = "run"]
  <2>1. link' = [link EXCEPT ![c] = r]
    BY <1>25 DEF StartTunnel, LinkInv
  <2>2. r \in Link
    <3>1. g \in Seq(Nat)
      <4>1. l.got \in Seq(Nat) /\ l.held \in Seq(Nat)
        BY <1>0 DEF Link
      <4> QED BY <4>1, ConcatProperties
    <3>2. /\ "tunnel" \in Stages /\ "run" \in {"none", "run", "stuck", "done"}
          /\ "run" \in {"none", "run", "stuck", "wait", "done"}
      BY DEF Stages
    <3> DEFINE q == [l EXCEPT !.up = "run", !.down = "run"]
    <3>3. r = [q EXCEPT !.req = "tunnel", !.held = <<>>, !.got = g]
      OBVIOUS
    <3>4. q \in Link
      <4> DEFINE p == [l EXCEPT !.up = "run"]
      <4>1. q = [p EXCEPT !.down = "run"]
        OBVIOUS
      <4> HIDE DEF l, q
      <4>2. p \in Link
        BY <1>0, <3>2, ZenonT(40) DEF Link
      <4> HIDE DEF p
      <4> QED BY <3>2, <4>1, <4>2, ZenonT(40) DEF Link
    <3> HIDE DEF g, l, r, q
    <3> QED BY <1>3, <3>1, <3>2, <3>3, <3>4, ZenonT(40) DEF Link
  <2>3. Shape(r) /\ Whole(r)
    <3>1. /\ r.answered = l.answered /\ r.back = l.back /\ r.heard = l.heard
          /\ r.up = "run" /\ r.down = "run" /\ r.req = "tunnel" /\ r.attempt = l.attempt /\ r.answer = l.answer
          /\ r.client = l.client /\ r.conn = l.conn /\ r.peer = l.peer /\ r.dest = l.dest /\ r.stalled = l.stalled
      BY <1>0 DEF Link
    <3>2. l.req = "flush" /\ l.up = "none" /\ l.down = "none" /\ Shape(l) /\ Whole(l)
      BY <1>1, <1>25 DEF StartTunnel, At, Good, Shape
    <3> HIDE DEF r, l
    <3>3. InHand(l.down) = 0 /\ InHand(r.down) = 0
      BY <3>1, <3>2 DEF InHand
    <3> QED BY <3>1, <3>2, <3>3 DEF Shape, Whole
  <2>4. Upload(r)
    <3>1. /\ r.got = g /\ r.held = <<>> /\ r.wire = l.wire /\ r.said = l.said
          /\ r.client = l.client /\ r.conn = l.conn /\ r.peer = l.peer /\ r.up = "run" /\ r.req = "tunnel"
      BY <1>0 DEF Link
    <3>2. l.wire \in Seq(Nat) /\ l.held \in Seq(Nat)
      BY <1>0 DEF Link
    <3>3. l.up = "none" /\ l.got = <<>> /\ l.conn # "closed" /\ Upload(l)
      BY <1>1, <1>25 DEF StartTunnel, At, Good, Shape, Upload, Complete
    <3>4. l.client # "out"
      BY <1>1, <1>25 DEF StartTunnel, At, Good, Shape
    <3> HIDE DEF r, l
    <3>5. CASE l.peer = "gone"
      <4>1. r.got = <<>> /\ ~Heard(r)
        BY <3>1, <3>3, <3>5 DEF Heard
      <4> QED BY <3>1, <3>3, <3>4, <4>1, NoPieces DEF Upload, InOrder, Complete
    <3>6. CASE l.peer # "gone"
      <4>1. r.got = l.got \o l.held /\ l.got \in Seq(Nat) /\ Heard(l)
        BY <3>1, <3>3, <3>6 DEF Heard
      <4>2. Numbered(l.got, 0) /\ Numbered(l.held, Len(l.got)) /\ Numbered(l.wire, Before(l.got, l.held))
        BY <3>3, <4>1 DEF Upload, InOrder
      <4>3. /\ Numbered(r.got, 0)
            /\ Numbered(r.wire, Before(r.got, r.held))
            /\ Total(r.got, r.held, r.wire) = Total(l.got, l.held, l.wire)
        BY <3>1, <3>2, <4>1, <4>2, PiecesForwarded, ZenonT(40)
      <4> QED BY <3>1, <3>3, <3>4, <4>1, <4>2, <4>3, NoPieces DEF Upload, InOrder, Complete
    <3> QED BY <3>5, <3>6
  <2>5. Good(r)
    BY <2>3, <2>4 DEF Good
  <2> HIDE DEF r
  <2> QED BY <1>2, <2>1, <2>2, <2>5
<1>26. CASE CopyUp(c)
  <2> DEFINE r == [l EXCEPT !.wire = Tail(@), !.got = Append(@, Head(l.wire))]
  <2>1. link' = [link EXCEPT ![c] = r]
    BY <1>26 DEF CopyUp, LinkInv
  <2>2. r \in Link
    <3>1. Tail(l.wire) \in Seq(Nat) /\ Append(l.got, Head(l.wire)) \in Seq(Nat)
      <4>1. l.wire \in Seq(Nat) /\ l.wire # <<>> /\ l.got \in Seq(Nat)
        BY <1>0, <1>26 DEF CopyUp, Link
      <4>2. Tail(l.wire) \in Seq(Nat) /\ Head(l.wire) \in Nat
        BY <4>1, HeadTailProperties
      <4> QED BY <4>1, <4>2, AppendProperties
    <3> QED BY <1>0, <3>1 DEF Link, Stages
  <2>3. Shape(r) /\ Whole(r)
    BY <1>1, <1>26 DEF CopyUp, At, Good, Shape, Whole, Link
  <2>4. Upload(r)
    <3>1. /\ r.got = Append(l.got, Head(l.wire)) /\ r.held = l.held /\ r.wire = Tail(l.wire) /\ r.said = l.said
          /\ r.client = l.client /\ r.conn = l.conn /\ r.peer = l.peer /\ r.up = l.up /\ r.req = l.req
      BY <1>0 DEF Link
    <3>2. l.wire \in Seq(Nat) /\ l.wire # <<>> /\ l.got \in Seq(Nat)
      BY <1>0, <1>26 DEF CopyUp, Link
    <3>3. l.up = "run" /\ l.held = <<>> /\ l.conn = "open" /\ l.peer # "gone" /\ Upload(l)
      BY <1>1, <1>26 DEF CopyUp, Good, Shape, Upload, Complete
    <3> HIDE DEF r, l
    <3>4. Numbered(l.got, 0) /\ Numbered(l.wire, Before(l.got, <<>>))
      BY <3>3 DEF Upload, InOrder, Heard
    <3>5. /\ Numbered(r.got, 0)
          /\ Numbered(r.wire, Before(r.got, <<>>))
          /\ Total(r.got, <<>>, r.wire) = Total(l.got, <<>>, l.wire)
      BY <3>1, <3>2, <3>4, PiecePassed
    <3>6. l.client # "out"
      BY <3>2, <3>3 DEF Upload, Complete
    <3>7. InOrder(r)
      BY <3>1, <3>3, <3>5, NoPieces DEF InOrder
    <3>8. Complete(r)
      BY <3>1, <3>3, <3>5, <3>6 DEF Upload, Complete, Heard
    <3> QED BY <3>7, <3>8 DEF Upload
  <2>5. Good(r)
    BY <2>3, <2>4 DEF Good
  <2> HIDE DEF r
  <2> QED BY <1>2, <2>1, <2>2, <2>5
<1>27. CASE UpEnds(c)
  <2> DEFINE r == [l EXCEPT !.up = "done", !.dest = "closed", !.held = <<>>]
  <2>1. link' = [link EXCEPT ![c] = r]
    BY <1>27 DEF UpEnds, LinkInv
  <2>2. r \in Link
    <3>1. "closed" \in {"none", "open", "closed"} /\ "done" \in {"none", "run", "stuck", "done"}
      OBVIOUS
    <3> HIDE DEF l
    <3> QED BY <1>0, <1>3, <3>1, ZenonT(40) DEF Link
  <2>3. Good(r)
    <3>1. Shape(l) /\ Whole(l) /\ Upload(l)
      BY <1>1 DEF Good
    <3>2. Shape(r)
      BY <1>0, <1>27, <3>1 DEF UpEnds, At, Shape, Link
    <3>3. Whole(r)
      BY <1>0, <1>27, <3>1 DEF UpEnds, At, UpStops, Shape, Whole, Link
    <3>4. Upload(r)
      <4>1. /\ r.got = l.got /\ r.held = <<>> /\ r.wire = l.wire /\ r.said = l.said
            /\ r.client = l.client /\ r.conn = l.conn /\ r.peer = l.peer /\ r.up = "done" /\ r.req = l.req
        BY <1>0 DEF Link
      <4>2. /\ l.up \in {"run", "stuck"}
            /\ l.up = "stuck" => l.peer = "gone"
            /\ l.up = "run" => \/ l.wire = <<>> /\ l.client \in {"fin", "gone"}
                               \/ l.wire # <<>> /\ l.peer = "gone"
                               \/ l.conn # "open"
        <5>1. l.up \in {"run", "stuck"} /\ UpStops(c)
          BY <1>27 DEF UpEnds
        <5>2. l.up = "stuck" => l.peer = "gone"
          BY <5>1 DEF UpStops
        <5>3. l.up = "run" => \/ l.wire = <<>> /\ l.client \in {"fin", "gone"}
                              \/ l.wire # <<>> /\ l.peer = "gone"
                              \/ l.conn # "open"
          BY <5>1 DEF UpStops
        <5> HIDE DEF l
        <5> QED BY <5>1, <5>2, <5>3
      <4>3. l.req = "tunnel" /\ l.client # "out" /\ l.conn # "none"
        BY <3>1, <4>2 DEF Shape
      <4>4. l.conn = "closed" => l.down \in {"wait", "done"}
        BY <3>1 DEF Shape
      <4>5. l.up = "run" => l.held = <<>>
        BY <3>1, <4>2, <4>3 DEF Upload, Complete
      <4> HIDE DEF r, l
      <4>6. InOrder(r)
        BY <3>1, <4>1, <4>2, <4>5, NoPieces DEF Upload, InOrder, Heard
      <4>7. Complete(r)
        BY <1>0, <3>1, <4>1, <4>2, <4>3, <4>4, <4>5 DEF Upload, Complete, Heard, Link
      <4> QED BY <4>6, <4>7 DEF Upload
    <3> QED BY <3>2, <3>3, <3>4 DEF Good
  <2> HIDE DEF r
  <2> QED BY <1>2, <2>1, <2>2, <2>3
<1>28. CASE CopyDown(c)
  <2> DEFINE r == [l EXCEPT !.back = @ - 1, !.heard = @ + 1]
  <2>1. link' = [link EXCEPT ![c] = r]
    BY <1>28 DEF CopyDown, LinkInv
  <2>2. r \in Link
    <3>1. l.back - 1 \in Nat /\ l.heard + 1 \in Nat
      <4>1. l.back > 0
        BY <1>28 DEF CopyDown
      <4> HIDE DEF l
      <4>2. l.back \in Nat /\ l.heard \in Nat
        BY <1>0 DEF Link
      <4> QED BY <4>1, <4>2
    <3> QED BY <1>0, <3>1 DEF Link, Stages
  <2>3. Shape(r) /\ Whole(r)
    <3>1. Shape(l) /\ Whole(l)
      BY <1>1 DEF Good
    <3>2. Shape(r)
      BY <1>0, <1>28, <3>1 DEF CopyDown, At, Shape, Link
    <3>3. Whole(r)
      <4>1. /\ r.answered = l.answered /\ r.back = l.back - 1 /\ r.heard = l.heard + 1
            /\ r.down = l.down /\ r.up = l.up /\ r.dest = l.dest /\ r.answer = l.answer
            /\ r.client = l.client /\ r.conn = l.conn /\ r.peer = l.peer
        BY <1>0 DEF Link
      <4>2. l.back \in Nat /\ l.heard \in Nat /\ l.answered \in Nat /\ l.back > 0 /\ InHand(l.down) \in Nat
        BY <1>0, <1>28 DEF CopyDown, Link, InHand
      <4>3. l.dest = "open" /\ l.down = "run"
        BY <1>28 DEF CopyDown, At
      <4> HIDE DEF r, l
      <4>4. r.heard + r.back + InHand(r.down) = l.heard + l.back + InHand(l.down)
        BY <4>1, <4>2
      <4> QED BY <3>1, <4>1, <4>2, <4>3, <4>4 DEF Whole
    <3> QED BY <3>2, <3>3
  <2>4. Upload(r)
    BY <1>1, <1>28 DEF CopyDown, At, Good, Shape, Upload, InOrder, Complete, Heard, Link
  <2>5. Good(r)
    BY <2>3, <2>4 DEF Good
  <2> HIDE DEF r
  <2> QED BY <1>2, <2>1, <2>2, <2>5
<1>29. CASE DownEnds(c)
  <2> DEFINE r == [l EXCEPT !.down = "wait", !.conn = IF @ = "cut" THEN "cut" ELSE "closed"]
  <2>1. link' = [link EXCEPT ![c] = r]
    BY <1>29 DEF DownEnds, LinkInv
  <2>2. r \in Link
    <3> DEFINE socket == IF l.conn = "cut" THEN "cut" ELSE "closed"
    <3>1. socket \in {"none", "open", "cut", "closed"} /\ r = [l EXCEPT !.down = "wait", !.conn = socket]
      OBVIOUS
    <3> HIDE DEF l, r, socket
    <3> QED BY <1>0, <3>1, ZenonT(40) DEF Link
  <2>3. Good(r)
    <3>1. Shape(l) /\ Whole(l) /\ Upload(l)
      BY <1>1 DEF Good
    <3>2. Shape(r)
      BY <1>0, <1>29, <3>1 DEF DownEnds, At, Shape, Link
    <3>3. Whole(r)
      <4>1. /\ r.answered = l.answered /\ r.back = l.back /\ r.heard = l.heard /\ r.down = "wait"
            /\ r.up = l.up /\ r.dest = l.dest /\ r.answer = l.answer
            /\ r.client = l.client /\ r.peer = l.peer /\ r.conn = IF l.conn = "cut" THEN "cut" ELSE "closed"
        BY <1>0 DEF Link
      <4>2. /\ l.down \in {"run", "stuck"}
            /\ l.down = "stuck" => l.client = "gone"
            /\ l.down = "run" => \/ l.dest = "closed"
                                 \/ l.back = 0 /\ l.peer \in {"fin", "gone"}
                                 \/ l.client = "gone" \/ l.conn # "open"
        <5>1. l.down \in {"run", "stuck"} /\ DownStops(c)
          BY <1>29 DEF DownEnds
        <5>2. l.down = "stuck" => l.client = "gone"
          BY <5>1 DEF DownStops
        <5>3. l.down = "run" => \/ l.dest = "closed"
                                \/ l.back = 0 /\ l.peer \in {"fin", "gone"}
                                \/ l.client = "gone" \/ l.conn # "open"
          BY <5>1 DEF DownStops
        <5> HIDE DEF l
        <5> QED BY <5>1, <5>2, <5>3
      <4>3. l.client # "gone" => l.down = "run" /\ InHand(l.down) = 0 /\ InHand(r.down) = 0
        BY <4>1, <4>2 DEF InHand
      <4>4. /\ l.up # "none" /\ l.conn # "none"
            /\ l.dest = "closed" => l.up \notin {"run", "stuck"}
            /\ l.conn = "closed" => l.down \in {"wait", "done"}
            /\ l.up \in {"run", "stuck", "done"} /\ l.conn \in {"open", "cut", "closed"}
        BY <1>0, <3>1, <4>2 DEF Shape, Link
      <4> HIDE DEF r, l
      <4> QED BY <3>1, <4>1, <4>2, <4>3, <4>4 DEF Whole
    <3>4. Upload(r)
      BY <1>0, <1>29, <3>1 DEF DownEnds, At, DownStops, Shape, Whole, Upload, InOrder, Complete, Heard, Link
    <3> QED BY <3>2, <3>3, <3>4 DEF Good
  <2> HIDE DEF r
  <2> QED BY <1>2, <2>1, <2>2, <2>3
<1>30. CASE DownDone(c)
  <2> DEFINE r == [l EXCEPT !.down = "done"]
  <2>1. link' = [link EXCEPT ![c] = r]
    BY <1>30 DEF DownDone, LinkInv
  <2>2. r \in Link
    <3>1. "done" \in {"none", "run", "stuck", "wait", "done"}
      OBVIOUS
    <3> HIDE DEF l
    <3> QED BY <1>0, <3>1, ZenonT(40) DEF Link
  <2>3. Good(r)
    <3>1. Shape(l) /\ Whole(l) /\ Upload(l) /\ l.down = "wait" /\ l.up = "done"
      BY <1>1, <1>30 DEF DownDone, Good
    <3>2. Shape(r)
      BY <1>0, <3>1 DEF Shape, Link
    <3>3. Whole(r)
      <4>1. /\ r.answered = l.answered /\ r.back = l.back /\ r.heard = l.heard /\ r.down = "done"
            /\ r.up = l.up /\ r.dest = l.dest /\ r.answer = l.answer
            /\ r.client = l.client /\ r.peer = l.peer /\ r.conn = l.conn
        BY <1>0 DEF Link
      <4> HIDE DEF r, l
      <4>2. InHand(l.down) = 0 /\ InHand(r.down) = 0
        BY <3>1, <4>1 DEF InHand
      <4> QED BY <3>1, <4>1, <4>2 DEF Whole
    <3>4. Upload(r)
      BY <1>0, <3>1 DEF Upload, InOrder, Complete, Heard, Link
    <3> QED BY <3>2, <3>3, <3>4 DEF Good
  <2> HIDE DEF r
  <2> QED BY <1>2, <2>1, <2>2, <2>3
<1> QED BY <1>4, <1>5, <1>6, <1>7, <1>8, <1>9, <1>10, <1>11, <1>12, <1>13, <1>14, <1>15, <1>16, <1>17, <1>18, <1>19, <1>20, <1>21, <1>22, <1>23, <1>24, <1>25, <1>26, <1>27, <1>28, <1>29, <1>30, <1>31, <1>32, <1>33, <1>34, <1>35, <1>36, <1>37, <1>38
         DEF Handler, Environment, Dialing, HandleHTTP, HandleConnect, Upward, Downward

(* The steps of the server change a connection only by cutting it.         *)
LEMMA LinkStep == LinkInv /\ [Next]_vars => LinkInv'
<1> SUFFICES ASSUME LinkInv, [Next]_vars PROVE LinkInv'
  OBVIOUS
<1>1. ASSUME NEW S \in SUBSET Conns,
             link' = [c \in Conns |-> IF link[c].conn = "open" /\ c \in S
                                      THEN [link[c] EXCEPT !.conn = "cut"] ELSE link[c]]
      PROVE  LinkInv'
  <2>1. ASSUME NEW c \in Conns PROVE link'[c] \in Link /\ Good(link'[c])
    <3>1. link[c] \in Link /\ Good(link[c])
      BY DEF LinkInv
    <3>2. [link[c] EXCEPT !.conn = "cut"] \in Link
      BY <3>1 DEF Link
    <3>3. link[c].conn = "open" => Good([link[c] EXCEPT !.conn = "cut"])
      BY <3>1 DEF Good, Shape, Whole, Upload, InOrder, Complete, Heard, Link
    <3> QED BY <1>1, <3>1, <3>2, <3>3
  <2> QED BY <1>1, <2>1 DEF LinkInv
<1>2. CASE Close
  <2> DEFINE S == {c \in Conns : ~Hijacked(c)}
  <2>1. link' = [c \in Conns |-> IF link[c].conn = "open" /\ c \in S
                                 THEN [link[c] EXCEPT !.conn = "cut"] ELSE link[c]]
    BY <1>2 DEF Close
  <2> HIDE DEF S
  <2> QED BY <1>1, <2>1 DEF S
<1>3. CASE Drained
  <2> DEFINE S == {c \in Conns : At(c, "end")}
  <2>1. link' = [c \in Conns |-> IF link[c].conn = "open" /\ c \in S
                                 THEN [link[c] EXCEPT !.conn = "cut"] ELSE link[c]]
    BY <1>3 DEF Drained
  <2> HIDE DEF S
  <2> QED BY <1>1, <2>1 DEF S
<1>4. CASE Cancel \/ Shutdown \/ Closed \/ UNCHANGED vars
  BY <1>4 DEF Cancel, Shutdown, Closed, vars, LinkInv
<1>5. ASSUME NEW c \in Conns, Handler(c) \/ Environment(c) PROVE LinkInv'
  BY <1>5, OneLink DEF LinkInv
<1> QED BY <1>2, <1>3, <1>4, <1>5 DEF Next

----------------------------------------------------------------------------
LEMMA CopiesFinite ==
  /\ IsFiniteSet(Uploading) /\ Cardinality(Uploading) \in Nat
  /\ IsFiniteSet(Downloading) /\ Cardinality(Downloading) \in Nat
BY ProxyAssumption, FS_Subset, FS_CardinalityType DEF Uploading, Downloading

(* StartTunnel adds two and starts two; each goroutine takes one away when *)
(* it ends; nothing else starts or ends one.                               *)
LEMMA CountStep == LinkInv /\ Counted /\ [Next]_vars => Counted'
<1> SUFFICES ASSUME LinkInv, Counted, [Next]_vars PROVE Counted'
  OBVIOUS
<1>1. link \in [Conns -> Link] /\ \A c \in Conns : Shape(link[c])
  BY DEF LinkInv, Good
<1>a. /\ DOMAIN link = Conns
      /\ \A d \in Conns : "up" \in DOMAIN link[d] /\ "down" \in DOMAIN link[d]
  BY <1>1 DEF Link
<1>2. ASSUME wg' = wg, \A c \in Conns : /\ link'[c].up \in {"run", "stuck"} <=> link[c].up \in {"run", "stuck"}
                                        /\ link'[c].down \in {"run", "stuck", "wait"}
                                             <=> link[c].down \in {"run", "stuck", "wait"}
      PROVE  Counted'
  <2>1. Uploading' = Uploading /\ Downloading' = Downloading
    BY <1>2 DEF Uploading, Downloading
  <2> QED BY <1>2, <2>1 DEF Counted
<1>3. ASSUME NEW c \in Conns, StartTunnel(c) PROVE Counted'
  <2>0. link[c].up = "none" /\ link[c].down = "none"
    <3>1. At(c, "flush") /\ Shape(link[c])
      BY <1>1, <1>3 DEF StartTunnel
    <3> QED BY <3>1 DEF At, Shape
  <2>1. Uploading' = Uploading \cup {c} /\ c \notin Uploading
    BY <1>a, <1>3, <2>0 DEF StartTunnel, Uploading
  <2>2. Downloading' = Downloading \cup {c} /\ c \notin Downloading
    BY <1>a, <1>3, <2>0 DEF StartTunnel, Downloading
  <2>3. Cardinality(Uploading') = Cardinality(Uploading) + 1
    BY <2>1, CopiesFinite, FS_AddElement
  <2>4. Cardinality(Downloading') = Cardinality(Downloading) + 1
    BY <2>2, CopiesFinite, FS_AddElement
  <2> QED BY <1>3, <2>3, <2>4, CopiesFinite DEF StartTunnel, Counted
<1>4. ASSUME NEW c \in Conns, UpEnds(c) PROVE Counted'
  <2>1. Uploading' = Uploading \ {c} /\ c \in Uploading
    BY <1>a, <1>4 DEF UpEnds, Uploading
  <2>2. Downloading' = Downloading
    BY <1>a, <1>4 DEF UpEnds, Downloading
  <2>3. Cardinality(Uploading') = Cardinality(Uploading) - 1
    BY <2>1, CopiesFinite, FS_RemoveElement
  <2> QED BY <1>4, <2>2, <2>3, CopiesFinite DEF UpEnds, Counted
<1>5. ASSUME NEW c \in Conns, DownDone(c) PROVE Counted'
  <2>1. Uploading' = Uploading
    BY <1>a, <1>5 DEF DownDone, Uploading
  <2>2. Downloading' = Downloading \ {c} /\ c \in Downloading
    BY <1>a, <1>5 DEF DownDone, Downloading
  <2>3. Cardinality(Downloading') = Cardinality(Downloading) - 1
    BY <2>2, CopiesFinite, FS_RemoveElement
  <2> QED BY <1>5, <2>1, <2>3, CopiesFinite DEF DownDone, Counted
<1>6. ASSUME NEW c \in Conns,
             \/ Environment(c) \/ Dialing(c) \/ BadGateway(c) \/ HandleHTTP(c)
             \/ Hijack(c) \/ HijackFails(c) \/ CopyUp(c) \/ CopyDown(c)
      PROVE  Counted'
  <2>0. SUFFICES wg' = wg /\ \A d \in Conns : link'[d].up = link[d].up /\ link'[d].down = link[d].down
    BY <1>2
  <2>1. CASE Request(c)
    BY <1>a, <2>1 DEF Request, Quiet
  <2>2. CASE Say(c)
    BY <1>a, <2>2 DEF Say, Quiet
  <2>3. CASE ClientFin(c)
    BY <1>a, <2>3 DEF ClientFin, Quiet
  <2>4. CASE ClientGone(c)
    BY <1>a, <2>4 DEF ClientGone, Quiet
  <2>5. CASE Answer(c)
    BY <1>a, <2>5 DEF Answer, Quiet
  <2>6. CASE PeerFin(c)
    BY <1>a, <2>6 DEF PeerFin, Quiet
  <2>7. CASE PeerGone(c)
    BY <1>a, <2>7 DEF PeerGone, Quiet
  <2>8. CASE DialOk(c)
    BY <1>a, <2>8 DEF DialOk, Quiet
  <2>9. CASE DialHard(c)
    BY <1>a, <2>9 DEF DialHard, Quiet
  <2>10. CASE DialTimeout(c)
    BY <1>a, <2>10 DEF DialTimeout, Quiet
  <2>11. CASE ContextEnds(c)
    BY <1>a, <2>11 DEF ContextEnds, Quiet
  <2>12. CASE Retry(c)
    BY <1>a, <2>12 DEF Retry, Quiet
  <2>13. CASE GreetOk(c)
    BY <1>a, <2>13 DEF GreetOk, Quiet
  <2>14. CASE GreetFails(c)
    BY <1>a, <2>14 DEF GreetFails, Quiet
  <2>15. CASE BadGateway(c)
    BY <1>a, <2>15 DEF BadGateway, Quiet
  <2>16. CASE WriteRequest(c)
    BY <1>a, <2>16 DEF WriteRequest, Quiet
  <2>24. CASE WriteRequestFails(c)
    BY <1>a, <2>24 DEF WriteRequestFails, Quiet
  <2>25. CASE TakeInterim(c)
    BY <1>a, <2>25 DEF TakeInterim, Quiet
  <2>26. CASE Stall(c)
    BY <1>a, <2>26 DEF Stall, Quiet
  <2>27. CASE Resume(c)
    BY <1>a, <2>27 DEF Resume, Quiet
  <2>17. CASE ReadResponseFails(c)
    BY <1>a, <2>17 DEF ReadResponseFails, Quiet
  <2>18. CASE CopyBody(c)
    BY <1>a, <2>18 DEF CopyBody, Quiet
  <2>19. CASE BodyEnds(c)
    BY <1>a, <2>19 DEF BodyEnds, Quiet
  <2>20. CASE Hijack(c)
    <3>1. PICK n \in 0..Len(link[c].wire) :
             link' = [link EXCEPT ![c].req = "flush",
                                  ![c].held = SubSeq(link[c].wire, 1, n),
                                  ![c].wire = SubSeq(link[c].wire, n + 1, Len(link[c].wire))]
      BY <2>20 DEF Hijack
    <3>2. \A d \in Conns : link'[d].up = link[d].up /\ link'[d].down = link[d].down
      BY <1>a, <3>1
    <3> QED BY <2>20, <3>2 DEF Hijack, Quiet
  <2>21. CASE HijackFails(c)
    BY <1>a, <2>21 DEF HijackFails, Quiet
  <2>22. CASE CopyUp(c)
    BY <1>a, <2>22 DEF CopyUp, Quiet
  <2>23. CASE CopyDown(c)
    BY <1>a, <2>23 DEF CopyDown, Quiet
  <2> QED BY <1>6, <2>1, <2>2, <2>3, <2>4, <2>5, <2>6, <2>7, <2>8, <2>9, <2>10, <2>11, <2>12, <2>13, <2>14, <2>15, <2>16, <2>17, <2>18, <2>19, <2>20, <2>21, <2>22, <2>23, <2>24, <2>25, <2>26, <2>27
           DEF Environment, Dialing, HandleHTTP
<1>7. ASSUME NEW c \in Conns, DownEnds(c) PROVE Counted'
  BY <1>a, <1>2, <1>7 DEF DownEnds, Quiet
<1>b. ASSUME NEW c \in Conns, UpSticks(c) \/ UpGoesOn(c) PROVE Counted'
  <2>1. CASE UpSticks(c)
    BY <1>a, <1>2, <2>1 DEF UpSticks, Quiet
  <2>2. CASE UpGoesOn(c)
    BY <1>a, <1>2, <2>2 DEF UpGoesOn, Quiet
  <2> QED BY <1>b, <2>1, <2>2
<1>c. ASSUME NEW c \in Conns, DownSticks(c) \/ DownGoesOn(c) PROVE Counted'
  BY <1>a, <1>c, <1>2 DEF DownSticks, DownGoesOn, Quiet
<1>8. CASE Close \/ Drained
  <2>1. wg' = wg /\ \A d \in Conns : link'[d] \in {link[d], [link[d] EXCEPT !.conn = "cut"]}
    BY <1>8 DEF Close, Drained
  <2>2. \A l \in Link : [l EXCEPT !.conn = "cut"].up = l.up /\ [l EXCEPT !.conn = "cut"].down = l.down
    BY DEF Link
  <2>3. \A d \in Conns : link'[d].up = link[d].up /\ link'[d].down = link[d].down
    BY <1>1, <2>1, <2>2
  <2> QED BY <1>2, <2>1, <2>3
<1>9. CASE Cancel \/ Shutdown \/ Closed \/ UNCHANGED vars
  BY <1>2, <1>9 DEF Cancel, Shutdown, Closed, vars
<1> QED
  BY <1>3, <1>4, <1>5, <1>6, <1>7, <1>8, <1>9, <1>b, <1>c
     DEF Next, Handler, HandleConnect, Upward, Downward

LEMMA InvStep == Inv /\ [Next]_vars => Inv'
<1> SUFFICES ASSUME Inv, [Next]_vars PROVE Inv'
  OBVIOUS
<1>1. LinkInv' /\ Counted'
  BY LinkStep, CountStep DEF Inv
<1>2. wg' \in Nat
  <2>1. Cardinality(Uploading') \in Nat /\ Cardinality(Downloading') \in Nat
    BY ProxyAssumption, FS_Subset, FS_CardinalityType DEF Uploading, Downloading
  <2> QED BY <1>1, <2>1 DEF Counted
<1>3. server' \in {"up", "draining", "closing", "closed"} /\ cancelled' \in BOOLEAN
  <2>1. ASSUME NEW c \in Conns, Handler(c) \/ Environment(c) PROVE UNCHANGED <<server, cancelled>>
    BY <2>1 DEF Handler, Environment, Dialing, HandleHTTP, HandleConnect, Upward, Downward, Quiet,
         Request, Say, ClientFin, ClientGone, Answer, PeerFin, PeerGone, Stall, Resume,
         DialOk, DialHard, DialTimeout, ContextEnds, Retry, GreetOk, GreetFails, BadGateway,
         WriteRequest, WriteRequestFails, ReadResponseFails, TakeInterim, CopyBody, BodyEnds,
         Hijack, HijackFails, StartTunnel, UpSticks, UpGoesOn, DownSticks, DownGoesOn,
         CopyUp, UpEnds, CopyDown, DownEnds, DownDone
  <2> QED BY <2>1 DEF Inv, TypeOK, Next, Cancel, Close, Shutdown, Drained, Closed, vars
<1> QED BY <1>1, <1>2, <1>3 DEF Inv, TypeOK, LinkInv

LEMMA InvInit == Init => Inv
<1> SUFFICES ASSUME Init PROVE Inv
  OBVIOUS
<1>1. NoLink \in Link /\ Good(NoLink)
  <2>1. 0 \in 0..MaxAttempts /\ 0 < MaxAttempts /\ <<>> \in Seq(Nat)
    BY ProxyAssumption
  <2>2. NoLink \in Link
    BY <2>1 DEF NoLink, Link, Stages
  <2>3. Shape(NoLink) /\ Whole(NoLink)
    BY <2>1 DEF NoLink, Shape, Whole, InHand
  <2>4. Upload(NoLink)
    BY NoPieces DEF NoLink, Upload, InOrder, Complete, Heard
  <2> QED BY <2>2, <2>3, <2>4 DEF Good
<1>2. Uploading = {} /\ Downloading = {}
  BY DEF Init, NoLink, Uploading, Downloading
<1>3. link \in [Conns -> Link] /\ \A c \in Conns : Good(link[c])
  BY <1>1 DEF Init
<1>4. wg = Cardinality(Uploading) + Cardinality(Downloading)
  BY <1>2, FS_EmptySet DEF Init
<1>5. TypeOK
  BY <1>3 DEF Init, TypeOK
<1> QED BY <1>3, <1>4, <1>5 DEF Inv, LinkInv, Counted

LEMMA Invariance == Spec => []Inv
<1> QED BY InvInit, InvStep, PTL DEF Spec

----------------------------------------------------------------------------
(* Types hold for any connections and limits; no more than MaxAttempts     *)
(* dials are attempted (dialTCP), and Done is never called too often.      *)
THEOREM ProxyTypeCorrect == Spec => []TypeOK
<1>1. Inv => TypeOK
  BY DEF Inv
<1> QED BY <1>1, Invariance, PTL

(* No socket to a destination or an upstream proxy is left open behind     *)
(* those who would close it (dialViaProxy, handleConnect, handleHTTP).     *)
THEOREM SocketsReleased == Spec => []DestReleased
<1>1. Inv => DestReleased
  <2> SUFFICES ASSUME LinkInv, NEW c \in Conns, link[c].dest = "open"
               PROVE  \/ link[c].req \in {"greet", "hijack", "flush", "ask", "reply"}
                      \/ link[c].req = "tunnel" /\ link[c].up \in {"run", "stuck"}
    BY DEF Inv, DestReleased
  <2> QED BY DEF LinkInv, Good, Shape
<1> QED BY <1>1, Invariance, PTL

(* A child that goes on listening gets the whole answer, whatever the      *)
(* order in which the two copies of its tunnel end and however long the    *)
(* two sides stall (handleConnect), and the whole body of a response that  *)
(* is a final one (handleHTTP).                                            *)
THEOREM AnswersArrive == Spec => []DownloadComplete
<1>1. Inv => DownloadComplete
  <2> SUFFICES ASSUME LinkInv, NEW c \in Conns, link[c].answer = "proper",
                      link[c].client = "open", link[c].conn # "cut", link[c].peer = "fin",
                      \/ link[c].down \in {"wait", "done"}
                      \/ link[c].up = "none" /\ link[c].dest = "closed"
               PROVE  link[c].heard = link[c].answered
    BY DEF Inv, DownloadComplete, AnswerLost
  <2>1. link[c] \in Link /\ Whole(link[c]) /\ Shape(link[c])
    BY DEF LinkInv, Good
  <2>2. link[c].down # "stuck" /\ link[c].back = 0
    BY <2>1 DEF Whole, Shape, Link
  <2>3. link[c].heard \in Nat /\ link[c].answered \in Nat /\ link[c].heard + link[c].back + 0 = link[c].answered
    BY <2>1, <2>2 DEF Whole, InHand, Link
  <2> QED BY <2>2, <2>3
<1> QED BY <1>1, Invariance, PTL

(* All that arrived is read and everything said has arrived.               *)
LEMMA AllArrived ==
  ASSUME NEW got \in Seq(Nat), NEW said \in Nat,
         Numbered(got, 0), Total(got, <<>>, <<>>) = said
  PROVE  Len(got) = said /\ \A i \in 1..Len(got) : got[i] = i
BY DEF Numbered, Total

(* What a child sends arrives in order and, if neither side breaks the     *)
(* connection, up to the last piece, what the reader of net/http held      *)
(* when the connection was hijacked included (handleConnect's CopyN).      *)
THEOREM UploadsArrive == Spec => []UploadComplete
<1>1. Inv => UploadComplete
  <2> SUFFICES ASSUME LinkInv, NEW c \in Conns
               PROVE  /\ \A i \in 1..Len(link[c].got) : link[c].got[i] = i
                      /\ /\ link[c].up = "done" /\ link[c].client \in {"open", "fin"}
                         /\ link[c].peer = "open" /\ link[c].conn # "cut"
                         => Len(link[c].got) = link[c].said
    BY DEF Inv, UploadComplete
  <2> DEFINE l == link[c]
  <2>1. /\ l.got \in Seq(Nat) /\ l.said \in Nat
        /\ l.req = "tunnel" <=> l.up # "none"
        /\ Upload(l)
    BY DEF LinkInv, Link, Good, Shape
  <2> HIDE DEF l
  <2>2. \A i \in 1..Len(l.got) : l.got[i] = i
    BY <2>1 DEF Upload, InOrder, Numbered
  <2>3. ASSUME l.up = "done", l.client \in {"open", "fin"}, l.peer = "open", l.conn # "cut"
        PROVE  Len(l.got) = l.said
    <3>1. l.held = <<>> /\ l.wire = <<>> /\ Total(l.got, <<>>, <<>>) = l.said
      BY <2>1, <2>3 DEF Upload, Complete, Heard
    <3> QED BY <2>1, <3>1, AllArrived DEF Upload, InOrder
  <2> QED BY <2>2, <2>3 DEF l
<1> QED BY <1>1, Invariance, PTL

(* Whatever the number of tunnels, wg.Wait of Close and Shutdown returns   *)
(* only when none of their goroutines copies.                              *)
THEOREM WaitIsForAll == Spec => CloseWaitsForCopies
<1>1. Inv /\ [Next]_vars =>
        [server # "closed" /\ server' = "closed" => \A c \in Conns : ~Copying(c)]_vars
  <2> SUFFICES ASSUME Inv, [Next]_vars, server # "closed", server' = "closed", NEW c \in Conns
               PROVE  ~Copying(c)
    OBVIOUS
  <2>1. wg = 0
    <3>1. ASSUME NEW d \in Conns, Handler(d) \/ Environment(d) PROVE server' = server
      BY <3>1 DEF Handler, Environment, Dialing, HandleHTTP, HandleConnect, Upward, Downward, Quiet,
           Request, Say, ClientFin, ClientGone, Answer, PeerFin, PeerGone, Stall, Resume,
           DialOk, DialHard, DialTimeout, ContextEnds, Retry, GreetOk, GreetFails, BadGateway,
           WriteRequest, WriteRequestFails, ReadResponseFails, TakeInterim, CopyBody, BodyEnds,
         Hijack, HijackFails, StartTunnel, UpSticks, UpGoesOn, DownSticks, DownGoesOn,
           CopyUp, UpEnds, CopyDown, DownEnds, DownDone
    <3> QED BY <3>1 DEF Next, Cancel, Close, Shutdown, Drained, Closed, vars
  <2>2. Cardinality(Uploading) = 0 /\ Cardinality(Downloading) = 0
    BY <2>1, CopiesFinite DEF Inv, Counted
  <2>3. Uploading = {} /\ Downloading = {}
    BY <2>2, CopiesFinite, FS_EmptySet
  <2> QED BY <2>3 DEF Copying, Uploading, Downloading
<1> QED BY <1>1, Invariance, PTL DEF Spec, CloseWaitsForCopies
----------------------------------------------------------------------------
(* What a copy has closed when it is over, the other one will find closed. *)
Shut(l) ==
  /\ l.up = "done" => l.dest = "closed"
  /\ l.down \in {"wait", "done"} => l.conn \in {"closed", "cut"}

ShutInv == \A c \in Conns : Shut(link[c])

LEMMA ShutStep == LinkInv /\ ShutInv /\ [Next]_vars => ShutInv'
<1> SUFFICES ASSUME LinkInv, ShutInv, [Next]_vars PROVE ShutInv'
  OBVIOUS
<1>1. \A c \in Conns : link[c] \in Link /\ Shape(link[c]) /\ Shut(link[c])
  BY DEF LinkInv, Good, ShutInv
<1>a. /\ DOMAIN link = Conns
      /\ \A c \in Conns : {"up", "down", "dest", "conn"} \subseteq DOMAIN link[c]
  BY <1>1 DEF LinkInv, Link
<1>2. ASSUME NEW c \in Conns, Handler(c) \/ Environment(c), Shut(link'[c])
      PROVE  ShutInv'
  BY <1>1, <1>2, OneLink DEF ShutInv
<1>3. ASSUME NEW c \in Conns,
             \/ Say(c) \/ ClientFin(c) \/ ClientGone(c) \/ Answer(c) \/ PeerFin(c) \/ PeerGone(c)
             \/ DialHard(c) \/ DialTimeout(c) \/ ContextEnds(c) \/ Retry(c) \/ GreetOk(c)
             \/ BadGateway(c) \/ CopyBody(c) \/ Hijack(c) \/ CopyUp(c) \/ CopyDown(c)
             \/ Stall(c) \/ Resume(c) \/ WriteRequest(c)
      PROVE  ShutInv'
  <2>1. /\ link'[c].up = link[c].up /\ link'[c].dest = link[c].dest
        /\ link'[c].down = link[c].down /\ link'[c].conn = link[c].conn
    <3>1. CASE Say(c) \/ ClientFin(c) \/ Answer(c) \/ PeerFin(c)
      BY <1>a, <3>1 DEF Say, ClientFin, Answer, PeerFin
    <3>7. CASE Stall(c) \/ Resume(c) \/ WriteRequest(c)
      BY <1>a, <3>7 DEF Stall, Resume, WriteRequest
    <3>2. CASE ClientGone(c)
      BY <1>a, <3>2 DEF ClientGone
    <3>5. CASE PeerGone(c)
      BY <1>a, <3>5 DEF PeerGone
    <3>6. CASE Hijack(c)
      BY <1>a, <3>6 DEF Hijack
    <3>3. CASE DialHard(c) \/ DialTimeout(c) \/ ContextEnds(c) \/ Retry(c) \/ GreetOk(c) \/ BadGateway(c)
      BY <1>a, <3>3 DEF DialHard, DialTimeout, ContextEnds, Retry, GreetOk, BadGateway
    <3>4. CASE CopyBody(c) \/ CopyUp(c) \/ CopyDown(c)
      BY <1>a, <3>4 DEF CopyBody, CopyUp, CopyDown
    <3> QED BY <1>3, <3>1, <3>2, <3>3, <3>4, <3>5, <3>6, <3>7
  <2> QED BY <1>1, <1>2, <1>3, <2>1
           DEF Shut, Handler, Environment, Dialing, HandleHTTP, HandleConnect, Upward, Downward
\* Nothing copies yet, or ever.
<1>4. ASSUME NEW c \in Conns,
             \/ Request(c) \/ DialOk(c) \/ GreetFails(c) \/ WriteRequestFails(c) \/ TakeInterim(c)
             \/ ReadResponseFails(c) \/ BodyEnds(c) \/ HijackFails(c) \/ StartTunnel(c)
      PROVE  ShutInv'
  <2>1. link'[c].up \in {"none", "run"} /\ link'[c].down \in {"none", "run"}
    <3>1. CASE Request(c) \/ DialOk(c)
      <4>1. link[c].up = "none" /\ link[c].down = "none"
        BY <1>1, <3>1 DEF Shape, At, Request, DialOk
      <4>2. link'[c].up = link[c].up /\ link'[c].down = link[c].down
        <5>1. CASE Request(c)
          BY <1>a, <5>1 DEF Request
        <5>2. CASE DialOk(c)
          BY <1>a, <5>2 DEF DialOk
        <5> QED BY <3>1, <5>1, <5>2
      <4> QED BY <4>1, <4>2
    <3>2. CASE \/ GreetFails(c) \/ HijackFails(c)
               \/ WriteRequestFails(c) \/ TakeInterim(c) \/ ReadResponseFails(c) \/ BodyEnds(c)
      <4>1. link[c].up = "none" /\ link[c].down = "none"
        BY <1>1, <3>2 DEF Shape, At, GreetFails, HijackFails, WriteRequestFails, TakeInterim, ReadResponseFails, BodyEnds
      <4>2. link'[c].up = link[c].up /\ link'[c].down = link[c].down
        BY <1>a, <3>2 DEF GreetFails, HijackFails, WriteRequestFails, TakeInterim, ReadResponseFails, BodyEnds
      <4> QED BY <4>1, <4>2
    <3>3. CASE StartTunnel(c)
      BY <1>a, <3>3 DEF StartTunnel
    <3> QED BY <1>4, <3>1, <3>2, <3>3
  <2> QED BY <1>2, <1>4, <2>1 DEF Shut, Handler, Environment, Dialing, HandleHTTP, HandleConnect
<1>5. ASSUME NEW c \in Conns,
             \/ UpEnds(c) \/ DownEnds(c) \/ DownDone(c)
             \/ UpSticks(c) \/ UpGoesOn(c) \/ DownSticks(c) \/ DownGoesOn(c)
      PROVE  ShutInv'
  <2>1. Shut(link'[c])
    <3>1. CASE UpEnds(c)
      BY <1>1, <3>1 DEF LinkInv, Link, Shut, UpEnds
    <3>2. CASE DownEnds(c)
      BY <1>1, <3>2 DEF LinkInv, Link, Shut, DownEnds
    <3>3. CASE DownDone(c)
      BY <1>1, <3>3 DEF LinkInv, Link, Shut, DownDone
    <3>4. CASE UpSticks(c)
      <4>1. link'[c].up = "stuck" /\ link'[c].down = link[c].down /\ link'[c].conn = link[c].conn
        BY <1>a, <3>4 DEF UpSticks
      <4> QED BY <1>1, <4>1 DEF Shut
    <3>5. CASE UpGoesOn(c)
      <4>1. link'[c].up = "run" /\ link'[c].down = link[c].down /\ link'[c].conn = link[c].conn
        BY <1>a, <3>5 DEF UpGoesOn
      <4> QED BY <1>1, <4>1 DEF Shut
    <3>6. CASE DownSticks(c)
      <4>1. link'[c].down = "stuck" /\ link'[c].up = link[c].up /\ link'[c].dest = link[c].dest
        BY <1>a, <3>6 DEF DownSticks
      <4> QED BY <1>1, <4>1 DEF Shut
    <3>7. CASE DownGoesOn(c)
      <4>1. link'[c].down = "run" /\ link'[c].up = link[c].up /\ link'[c].dest = link[c].dest
        BY <1>a, <3>7 DEF DownGoesOn
      <4> QED BY <1>1, <4>1 DEF Shut
    <3> QED BY <1>5, <3>1, <3>2, <3>3, <3>4, <3>5, <3>6, <3>7
  <2> QED BY <1>2, <1>5, <2>1 DEF Handler, HandleConnect, Upward, Downward
<1>6. CASE Close \/ Drained
  <2>1. ASSUME NEW c \in Conns PROVE Shut(link'[c])
    <3>1. \/ link'[c] = link[c]
          \/ link[c].conn = "open" /\ link'[c] = [link[c] EXCEPT !.conn = "cut"]
      BY <1>6 DEF Close, Drained
    <3> QED BY <1>1, <3>1 DEF Shut, Link
  <2> QED BY <2>1 DEF ShutInv
<1>7. CASE Cancel \/ Shutdown \/ Closed \/ UNCHANGED vars
  BY <1>1, <1>7 DEF Cancel, Shutdown, Closed, vars, ShutInv
<1> QED
  BY <1>3, <1>4, <1>5, <1>6, <1>7
     DEF Next, Handler, Environment, Dialing, HandleHTTP, HandleConnect, Upward, Downward

(* The next step of either goroutine of a tunnel: it reads a piece that    *)
(* is there, it finds that it is over, or it has waited for the other.     *)
UpCanGo(c) ==
  /\ link[c].up = "run"
  /\ UpStops(c) \/ (link[c].wire # <<>> /\ link[c].conn = "open" /\ link[c].peer # "gone")

DownCanGo(c) ==
  \/ /\ link[c].down = "run"
     /\ \/ DownStops(c)
        \/ /\ link[c].back > 0 /\ link[c].dest = "open"
           /\ link[c].client # "gone" /\ link[c].conn = "open"
  \/ link[c].down = "wait" /\ link[c].up = "done"

Ending(c) ==
  \/ link[c].client \in {"fin", "gone"} \/ link[c].peer \in {"fin", "gone"}
  \/ link[c].up = "done" \/ link[c].down \in {"wait", "done"}

EndingGoesOn ==
  \A c \in Conns :
    At(c, "tunnel") /\ Ending(c) /\ ~(link[c].up = "done" /\ link[c].down = "done")
      /\ ~Waits(c)
    => UpCanGo(c) \/ DownCanGo(c)

(* Once a side of a tunnel or one of its copies has ended, the goroutines  *)
(* of handleConnect never wait for each other, nor both for data: until    *)
(* both are over, one of them can go on, or is in a write to a side that   *)
(* does not read.                                                          *)
THEOREM TunnelsGoOn == Spec => []EndingGoesOn
<1>1. Init => ShutInv
  BY DEF Init, NoLink, ShutInv, Shut
<1>2. Inv /\ ShutInv /\ [Next]_vars => ShutInv'
  BY ShutStep DEF Inv
<1>3. Inv /\ ShutInv => EndingGoesOn
  <2> SUFFICES ASSUME Inv, ShutInv, NEW c \in Conns, At(c, "tunnel"), Ending(c),
                      ~(link[c].up = "done" /\ link[c].down = "done"), ~Waits(c)
               PROVE  UpCanGo(c) \/ DownCanGo(c)
    BY DEF EndingGoesOn
  <2>1. link[c] \in Link /\ Shape(link[c]) /\ Shut(link[c])
    BY DEF Inv, LinkInv, Good, ShutInv
  <2>2. link[c].up \in {"run", "done"} /\ link[c].down \in {"run", "wait", "done"}
    BY <2>1 DEF At, Shape, Link, Waits
  <2>3. CASE link[c].up = "done"
    BY <2>1, <2>2, <2>3 DEF Shut, DownCanGo, DownStops
  <2>4. CASE link[c].up = "run" /\ link[c].conn # "open"
    BY <2>4 DEF UpCanGo, UpStops
  <2>5. CASE link[c].up = "run" /\ link[c].conn = "open"
    <3>1. link[c].down = "run" /\ link[c].dest = "open"
      BY <2>1, <2>2, <2>5 DEF Shut, Shape
    <3>2. CASE link[c].wire # <<>>
      BY <2>5, <3>2 DEF UpCanGo, UpStops
    <3>3. CASE link[c].wire = <<>> /\ link[c].client \in {"fin", "gone"}
      BY <2>5, <3>3 DEF UpCanGo, UpStops
    <3>4. CASE link[c].wire = <<>> /\ link[c].client \notin {"fin", "gone"}
      <4>1. link[c].peer \in {"fin", "gone"} /\ link[c].back \in Nat
        BY <2>1, <2>5, <3>1, <3>4 DEF Ending, Link
      <4> QED BY <2>5, <3>1, <3>4, <4>1 DEF DownCanGo, DownStops
    <3> QED BY <3>2, <3>3, <3>4
  <2> QED BY <2>2, <2>3, <2>4, <2>5
<1> QED BY <1>1, <1>2, <1>3, Invariance, PTL DEF Spec
============================================================================
