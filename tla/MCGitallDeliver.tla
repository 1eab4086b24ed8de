-------------------------- MODULE MCGitallDeliver --------------------------
(* Small instances of GitallDeliver.                                       *)
EXTENDS GitallDeliver

CONSTANTS w1, w2, m, net, base, x1, x2, up

(* A working copy whose mirror and itself have the network as upstream.    *)
MirrorRepo == {w1, m}
MirrorRemotes == w1 :> <<m, net>> @@ m :> <<net>>

Base == {Original(base, net)}
Own(r, change) == Base \cup {Original(change, r)}

(* The working copy and the network have commits of their own.             *)
AllWorked == {w1 :> Own(w1, x1) @@ m :> Base @@ net :> Own(net, up)}

(* One working copy with two mirrors, which share the network as upstream; *)
(* one mirror has the working copy as a remote in turn.  The network has   *)
(* work of its own; the working copy and the other mirror may.             *)
RingRepo == {w1, w2, m}
RingRemotes == w1 :> <<m, w2>> @@ w2 :> <<net, w1>> @@ m :> <<net>>
SomeWorked ==
  {w1 :> a @@ w2 :> Own(w2, x2) @@ m :> b @@ net :> Own(net, up) :
     a \in {Base, Own(w1, x1)}, b \in {Base, Own(w2, x2)}}
=============================================================================
