---------------------------- MODULE RewriteCache ----------------------------
(***************************************************************************)
(* server.rewrite (src/sandbox/daemon/main.go): the cache of rewritten     *)
(* executables that sandboxd keeps on disk.  An entry holds a copy of the  *)
(* shim library ("x") and the executable made to load it ("program"), and  *)
(* is named by a hash of what it is made from.  Every connection has a     *)
(* goroutine; several daemons, one per run of sandbox/run.sh, may have the *)
(* same cache directory.  Nothing locks it: entries are written in place,  *)
(* and the files codesign is given to read lie in the directory shared by  *)
(* all entries.                                                            *)
(***************************************************************************)
EXTENDS MachO

CONSTANTS
  Daemon,       \* sandboxd processes
  Conn,         \* client connections
  DaemonOf,     \* DaemonOf[c]: the daemon at the other end
  Exe,          \* paths of executables
  Version,      \* what may be found at such a path
  Initial,      \* Initial[e]: what is there at first
  ImagesOf,     \* ImagesOf[v]: the executables v stands for (module MachO)
  EntsOf,       \* EntsOf[v]: the entitlements of a version
  NoEnts,       \* what originalEntitlements{} stands for: none
  Shim,         \* builds of the shim library
  None,
  MaxRequests,  \* bound: rewrites asked for
  MaxMishaps    \* bound: failing steps, ends of daemons, replaced executables

ASSUME CacheAssumption ==
  /\ DaemonOf \in [Conn -> Daemon]
  /\ Initial \in [Exe -> Version]
  /\ ImagesOf \in [Version -> SUBSET File]
  /\ MaxRequests \in Nat /\ MaxMishaps \in Nat

VARIABLES
  file,        \* what is at each path
  up,          \* the daemons that run
  shim,        \* the shim each daemon's run has built
  program,     \* of each entry: what is there, and signed with what
  shimCopy,    \* of each entry: "x"
  plist,       \* entitlements.plist, shared by all entries
  constraint,  \* library-constraint.plist, likewise
  orphans,     \* entries a codesign is at whose daemon has ended
  req,         \* the rewrite a connection's goroutine is at
  redone,      \* entries begun anew when they were good, or still being made (history)
  mixed,       \* entries signed while another was about to be (history)
  asked, mishaps

disk == <<file, program, shimCopy, plist, constraint>>
history == <<redone, mixed>>
vars == <<disk, up, shim, req, orphans, history, asked, mishaps>>

Ents == {EntsOf[v] : v \in Version} \cup {NoEnts}

(* The versions rewriteMachO accepts.                                      *)
Rewritable == {v \in Version : \A f \in ImagesOf[v] : Accepted(f)}

(* The name of an entry: sha256 of content, shim, identity, entitlements.  *)
Key == [body : Version, shim : Shim, ents : Ents]

(* An executable in the cache, and a file being written.                   *)
Absent == [is |-> "absent", ents |-> None, shim |-> None]
Torn == [is |-> "torn", ents |-> None, shim |-> None]
Unsigned == [is |-> "unsigned", ents |-> None, shim |-> None]
Signed(e, s) == [is |-> "signed", ents |-> e, shim |-> s]

NoKey == [body |-> None, shim |-> None, ents |-> None]
Idle == [pc |-> "idle", src |-> None, key |-> NoKey]

(* The executable is there and codesign --verify is content with it.       *)
SignedArtifact(k) == program[k].is = "signed"

Complete(k) == program[k].is \in {"unsigned", "signed"}

Building == {"copy", "copying", "write", "writing", "inspect", "plist", "constraint", "sign"}

(* The goroutines that build entry k.                                      *)
Builders(k) == {c \in Conn : req[c].pc \in Building /\ req[c].key = k}

(* The goroutines between writing entitlements.plist and having signed.    *)
Signing == {c \in Conn : req[c].pc \in {"constraint", "sign"}}

Init ==
  /\ file = Initial
  /\ up = Daemon
  /\ shim \in [Daemon -> Shim]
  /\ program = [k \in Key |-> Absent]
  /\ shimCopy = [k \in Key |-> "none"]
  /\ plist = None /\ constraint = None
  /\ req = [c \in Conn |-> Idle]
  /\ orphans = {}
  /\ redone = {} /\ mixed = {}
  /\ asked = 0 /\ mishaps = 0

----------------------------------------------------------------------------
Goto(c, label) == req' = [req EXCEPT ![c].pc = label]

At(c, label) == req[c].pc = label

Mishap == mishaps < MaxMishaps /\ mishaps' = mishaps + 1

(* REWRITE, or a helper a wrapper has approved (remoteGuestOperations.Run):*)
(* the executable and the shim are read.                                   *)
Ask(c, e) ==
  /\ DaemonOf[c] \in up
  /\ req[c].pc \in {"idle", "ok", "failed"}
  /\ asked < MaxRequests /\ asked' = asked + 1
  /\ req' = [req EXCEPT ![c] =
       [pc |-> "entitlements", src |-> e,
        key |-> [body |-> file[e], shim |-> shim[DaemonOf[c]], ents |-> None]]]
  /\ UNCHANGED <<disk, up, shim, orphans, history, mishaps>>

(* readOriginalEntitlements has codesign look at the path again.           *)
ReadEntitlements(c) ==
  /\ At(c, "entitlements")
  /\ req' = [req EXCEPT ![c].pc = "lookup", ![c].key.ents = EntsOf[file[req[c].src]]]
  /\ UNCHANGED <<disk, up, shim, orphans, history, asked, mishaps>>

(* An error is not looked at: the rewrite goes on as if there were none.   *)
EntitlementsUnread(c) ==
  /\ At(c, "entitlements")
  /\ Mishap
  /\ req' = [req EXCEPT ![c].pc = "lookup", ![c].key.ents = NoEnts]
  /\ UNCHANGED <<disk, up, shim, orphans, history, asked>>

(* Mutant: a program that is there and executable is taken as it is.       *)
UsableIfThere(k) == program[k].is # "absent"

Usable(k) == SignedArtifact(k)

Hit(c) ==
  /\ At(c, "lookup")
  /\ Usable(req[c].key)
  /\ Goto(c, "ok")
  /\ UNCHANGED <<disk, up, shim, orphans, history, asked, mishaps>>

(* An entry is made anew in its place; it may be good, or others may still *)
(* be at it, a codesign left behind included.                              *)
Anew(c) ==
  LET k == req[c].key IN
  /\ Goto(c, "copy")
  /\ redone' = IF Usable(k) \/ Builders(k) # {} \/ k \in orphans
               THEN redone \cup {k} ELSE redone

Miss(c) ==
  /\ At(c, "lookup")
  /\ ~Usable(req[c].key)
  /\ Anew(c)
  /\ UNCHANGED <<disk, up, shim, orphans, mixed, asked, mishaps>>

(* os.Stat fails, or codesign --verify does of itself: not told from a     *)
(* program that is not there, or not signed.                               *)
LookupFails(c) ==
  /\ At(c, "lookup")
  /\ Mishap
  /\ Anew(c)
  /\ UNCHANGED <<disk, up, shim, orphans, mixed, asked>>

(* copyFile and os.WriteFile truncate a file before they fill it.          *)
CopyBegins(c) ==
  /\ At(c, "copy")
  /\ shimCopy' = [shimCopy EXCEPT ![req[c].key] = "torn"]
  /\ Goto(c, "copying")
  /\ UNCHANGED <<file, program, plist, constraint, up, shim, orphans, history, asked, mishaps>>

CopyEnds(c) ==
  /\ At(c, "copying")
  /\ shimCopy' = [shimCopy EXCEPT ![req[c].key] = "whole"]
  /\ Goto(c, IF req[c].key.body \in Rewritable THEN "write" ELSE "failed")
  /\ UNCHANGED <<file, program, plist, constraint, up, shim, orphans, history, asked, mishaps>>

WriteBegins(c) ==
  /\ At(c, "write")
  /\ program' = [program EXCEPT ![req[c].key] = Torn]
  /\ Goto(c, "writing")
  /\ UNCHANGED <<file, shimCopy, plist, constraint, up, shim, orphans, history, asked, mishaps>>

WriteEnds(c) ==
  /\ At(c, "writing")
  /\ program' = [program EXCEPT ![req[c].key] = Unsigned]
  /\ Goto(c, "inspect")
  /\ UNCHANGED <<file, shimCopy, plist, constraint, up, shim, orphans, history, asked, mishaps>>

(* signingInfo needs the copy of the shim whole.                           *)
Inspect(c) ==
  /\ At(c, "inspect")
  /\ Goto(c, IF shimCopy[req[c].key] = "whole" THEN "plist" ELSE "failed")
  /\ UNCHANGED <<disk, up, shim, orphans, history, asked, mishaps>>

(* Whoever is about to sign something else, and is met by this one.        *)
Noticed(c) ==
  LET k == req[c].key
      others == {req[d].key : d \in Signing} \ {k}
  IN mixed' = mixed \cup others \cup (orphans \ {k}) \cup (IF others # {} THEN {k} ELSE {})

(* Mutant: the entitlements are written only when there are none yet.      *)
WritePlistOnce(c) ==
  /\ At(c, "plist")
  /\ plist' = IF plist = None THEN req[c].key.ents ELSE plist
  /\ Goto(c, "constraint")
  /\ Noticed(c)
  /\ UNCHANGED <<file, program, shimCopy, constraint, up, shim, orphans, redone, asked, mishaps>>

(* signHardened: two files in the directory of all entries, then codesign, *)
(* which puts a signed executable in the place of the one it has read.     *)
WritePlist(c) ==
  /\ At(c, "plist")
  /\ plist' = req[c].key.ents
  /\ Goto(c, "constraint")
  /\ Noticed(c)
  /\ UNCHANGED <<file, program, shimCopy, constraint, up, shim, orphans, redone, asked, mishaps>>

WriteConstraint(c) ==
  /\ At(c, "constraint")
  /\ constraint' = req[c].key.shim
  /\ Goto(c, "sign")
  /\ UNCHANGED <<file, program, shimCopy, plist, up, shim, orphans, history, asked, mishaps>>

Sign(c) ==
  /\ At(c, "sign")
  /\ Complete(req[c].key)
  /\ program' = [program EXCEPT ![req[c].key] = Signed(plist, constraint)]
  /\ Goto(c, "ok")
  /\ UNCHANGED <<file, shimCopy, plist, constraint, up, shim, orphans, history, asked, mishaps>>

SignRefused(c) ==
  /\ At(c, "sign")
  /\ ~Complete(req[c].key)
  /\ Goto(c, "failed")
  /\ UNCHANGED <<disk, up, shim, orphans, history, asked, mishaps>>

----------------------------------------------------------------------------
(* A directory, a read or a write fails, or codesign does when it inspects *)
(* or signs.  What was written stays.                                      *)
Fail(c) ==
  /\ req[c].pc \in Building \cup {"lookup"}
  /\ Mishap
  /\ Goto(c, "failed")
  /\ UNCHANGED <<disk, up, shim, orphans, history, asked>>

(* Somebody installs another version of an executable.                     *)
Replace(e, v) ==
  /\ v # file[e]
  /\ Mishap
  /\ file' = [file EXCEPT ![e] = v]
  /\ UNCHANGED <<program, shimCopy, plist, constraint, up, shim, req, orphans, history, asked>>

(* sandbox/run.sh ends, and its daemon with it (os.Exit), at whatever the  *)
(* daemon's goroutines are at.  What is on disk stays, and so may a        *)
(* codesign that has been started.                                         *)
Stop(d) ==
  /\ d \in up
  /\ Mishap
  /\ up' = up \ {d}
  /\ req' = [c \in Conn |-> IF DaemonOf[c] = d THEN Idle ELSE req[c]]
  /\ \E left \in SUBSET {c \in Conn : DaemonOf[c] = d /\ At(c, "sign")} :
       orphans' = orphans \cup {req[c].key : c \in left}
  /\ UNCHANGED <<disk, shim, history, asked>>

(* It signs with what it finds then, if there is something to sign.  How   *)
(* many are at one entry is left open.                                     *)
OrphanSigns(k) ==
  /\ k \in orphans
  /\ orphans' \in {orphans, orphans \ {k}}
  /\ program' = IF Complete(k) THEN [program EXCEPT ![k] = Signed(plist, constraint)]
                ELSE program
  /\ UNCHANGED <<file, shimCopy, plist, constraint, up, shim, req, history, asked, mishaps>>

(* Another run starts a daemon and builds the shim anew.                   *)
Start(d) ==
  /\ d \notin up
  /\ up' = up \cup {d}
  /\ \E s \in Shim : shim' = [shim EXCEPT ![d] = s]
  /\ UNCHANGED <<disk, req, orphans, history, asked, mishaps>>

Step(c) ==
  \/ ReadEntitlements(c) \/ EntitlementsUnread(c)
  \/ Hit(c) \/ Miss(c) \/ LookupFails(c)
  \/ CopyBegins(c) \/ CopyEnds(c) \/ WriteBegins(c) \/ WriteEnds(c)
  \/ Inspect(c) \/ WritePlist(c) \/ WriteConstraint(c) \/ Sign(c) \/ SignRefused(c)

(* Nothing is asked for.                                                   *)
Rest ==
  /\ \A c \in Conn : req[c].pc \in {"idle", "ok", "failed"}
  /\ UNCHANGED vars

Next ==
  \/ \E c \in Conn : Step(c) \/ Fail(c) \/ \E e \in Exe : Ask(c, e)
  \/ \E e \in Exe, v \in Version : Replace(e, v)
  \/ \E d \in Daemon : Stop(d) \/ Start(d)
  \/ \E k \in orphans : OrphanSigns(k)
  \/ Rest

Spec == Init /\ [][Next]_vars

----------------------------------------------------------------------------
Program ==
  {Absent, Torn, Unsigned} \cup {Signed(e, s) : e \in Ents \cup {None}, s \in Shim \cup {None}}

Request ==
  [pc  : Building \cup {"idle", "entitlements", "lookup", "ok", "failed"},
   src : Exe \cup {None},
   key : [body : Version \cup {None}, shim : Shim \cup {None}, ents : Ents \cup {None}]]

TypeOK ==
  /\ file \in [Exe -> Version]
  /\ up \in SUBSET Daemon
  /\ shim \in [Daemon -> Shim]
  /\ program \in [Key -> Program]
  /\ shimCopy \in [Key -> {"none", "torn", "whole"}]
  /\ plist \in Ents \cup {None}
  /\ constraint \in Shim \cup {None}
  /\ req \in [Conn -> Request]
  /\ \A c \in Conn :
       /\ req[c].pc \in Building \cup {"lookup", "ok"} => req[c].key \in Key
       /\ req[c].pc = "entitlements" =>
            req[c].src \in Exe /\ req[c].key.body \in Version /\ req[c].key.shim \in Shim
  /\ orphans \in SUBSET Key
  /\ redone \in SUBSET Key /\ mixed \in SUBSET Key
  /\ asked \in 0..MaxRequests /\ mishaps \in 0..MaxMishaps

(* A path sandboxd has answered with names an executable that is whole and *)
(* signed, beside a whole library, and stays so: whatever daemons ended    *)
(* before, and whatever others do, unless somebody began that entry anew   *)
(* while it was good or another was still at it (rewrite).                 *)
AnsweredIsWhole ==
  \A c \in Conn : req[c].pc = "ok" /\ req[c].key \notin redone =>
    SignedArtifact(req[c].key) /\ shimCopy[req[c].key] = "whole"

(* An executable in the cache has the entitlements and the library         *)
(* constraint of its entry, not those another one left behind or wrote     *)
(* since, unless it was about to be signed while goroutines were signing   *)
(* different ones (signHardened).                                          *)
SignedAsItsOwn ==
  \A k \in Key \ mixed : SignedArtifact(k) => program[k] = Signed(k.ents, k.shim)

(* The library beside a signed executable is whole, whoever builds what:   *)
(* it is not copied again once the executable is signed (rewrite).  Does   *)
(* not hold: README, section 4.                                            *)
ShimStaysWhole == \A k \in Key : SignedArtifact(k) => shimCopy[k] = "whole"

(* The path of an old entry is only returned if the entry still has the    *)
(* entitlements and the library constraint that go with its key            *)
(* (rewrite).  Does not hold: README, section 4.                           *)
OldEntriesMatch ==
  [][\A c \in Conn : At(c, "lookup") /\ At(c, "ok")' =>
       program[req[c].key] = Signed(req[c].key.ents, req[c].key.shim)]_vars

(* A program in the cache loads the sandbox's library and is otherwise the *)
(* executable it was made from (rewriteMachO).                             *)
Right == {v \in Version : \A f \in ImagesOf[v] : WellFormed(f) => RewrittenRight(f)}

LoadsShim == \A k \in Key : Complete(k) => k.body \in Right
=============================================================================
