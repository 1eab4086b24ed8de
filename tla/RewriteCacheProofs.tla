------------------------ MODULE RewriteCacheProofs ------------------------
(* What sandboxd's cache of rewritten executables keeps true, whatever the *)
(* daemons, connections, executables and versions: an entry is signed as   *)
(* its own, and what was answered stays whole, as long as goroutines that  *)
(* build do not get in one another's way; and what is there loads the      *)
(* sandbox's library, whatever the commands of the executables are.        *)
EXTENDS RewriteCache, WellFoundedInduction, TLAPS

----------------------------------------------------------------------------
(* Types *)

Stage == Building \cup {"idle", "entitlements", "lookup", "ok", "failed"}

AnyKey == [body : Version \cup {None}, shim : Shim \cup {None}, ents : Ents \cup {None}]

(* What TypeOK says of the requests, one at a time.                        *)
Fits(r) ==
  /\ r \in Request
  /\ r.pc \in Building \cup {"lookup", "ok"} => r.key \in Key
  /\ r.pc = "entitlements" =>
       r.src \in Exe /\ r.key.body \in Version /\ r.key.shim \in Shim

(* A goroutine that only goes on to another stage of its rewrite.          *)
LEMMA GotoFits ==
  ASSUME TypeOK, NEW c \in Conn, NEW label \in Stage \ {"entitlements"},
         label \in Building \cup {"lookup", "ok"} => req[c].key \in Key,
         Goto(c, label)
  PROVE  /\ req' \in [Conn -> Request]
         /\ \A d \in Conn : Fits(req'[d])
<1>1. \A d \in Conn : Fits(req[d])
  BY DEF TypeOK, Fits
<1>2. /\ req' = [req EXCEPT ![c].pc = label]
      /\ req \in [Conn -> Request]
  BY DEF Goto, TypeOK
<1>3. [req[c] EXCEPT !.pc = label] \in Request
  BY <1>2 DEF Request, Stage
<1>4. Fits([req[c] EXCEPT !.pc = label])
  BY <1>1, <1>2, <1>3 DEF Fits, Request, Building
<1>5. \A d \in Conn : req'[d] = IF d = c THEN [req[c] EXCEPT !.pc = label] ELSE req[d]
  BY <1>2
<1> QED
  BY <1>1, <1>2, <1>3, <1>4, <1>5

LEMMA InitType == Init => TypeOK
<1> SUFFICES ASSUME Init PROVE TypeOK
  OBVIOUS
<1>1. \A e \in Exe : Initial[e] \in Version
  BY CacheAssumption
<1> QED
  BY <1>1, CacheAssumption DEF Init, TypeOK, Idle, NoKey, Building, Program, Request

(* The part of TypeOK that is not about requests.                          *)
DiskType ==
  /\ file \in [Exe -> Version]
  /\ up \in SUBSET Daemon
  /\ shim \in [Daemon -> Shim]
  /\ program \in [Key -> Program]
  /\ shimCopy \in [Key -> {"none", "torn", "whole"}]
  /\ plist \in Ents \cup {None}
  /\ constraint \in Shim \cup {None}
  /\ orphans \in SUBSET Key
  /\ redone \in SUBSET Key /\ mixed \in SUBSET Key
  /\ asked \in 0..MaxRequests /\ mishaps \in 0..MaxMishaps

LEMMA TypeParts ==
  TypeOK <=> DiskType /\ req \in [Conn -> Request] /\ \A c \in Conn : Fits(req[c])
BY DEF TypeOK, DiskType, Fits

LEMMA StepType ==
  ASSUME TypeOK, NEW c \in Conn, Step(c)
  PROVE  TypeOK'
<1>0. /\ DiskType /\ req \in [Conn -> Request] /\ \A d \in Conn : Fits(req[d])
  BY TypeParts
<1>1. CASE ReadEntitlements(c) \/ EntitlementsUnread(c)
  <2>1. /\ req[c].src \in Exe /\ req[c].key.body \in Version /\ req[c].key.shim \in Shim
    BY <1>0, <1>1 DEF ReadEntitlements, EntitlementsUnread, At, Fits
  <2>2. PICK ents \in Ents :
          req' = [req EXCEPT ![c].pc = "lookup", ![c].key.ents = ents]
    BY <1>0, <1>1, <2>1 DEF ReadEntitlements, EntitlementsUnread, DiskType, Ents
  <2> DEFINE k == [req[c].key EXCEPT !.ents = ents]
             r == [[req[c] EXCEPT !.pc = "lookup"] EXCEPT !.key = k]
  <2>3. k \in Key /\ k \in AnyKey
    BY <1>0, <2>1, <2>2 DEF Key, AnyKey, Request
  <2>4. r \in Request /\ r.pc = "lookup" /\ r.key = k
    BY <1>0, <2>3 DEF Request, AnyKey
  <2>5. Fits(r)
    BY <2>3, <2>4 DEF Fits
  <2>6. req' = [req EXCEPT ![c] = r]
    BY <1>0, <2>2 DEF Request, AnyKey
  <2>7. req' \in [Conn -> Request] /\ \A d \in Conn : Fits(req'[d])
    BY <1>0, <2>4, <2>5, <2>6
  <2>8. DiskType'
    BY <1>0, <1>1, CacheAssumption
    DEF ReadEntitlements, EntitlementsUnread, Mishap, DiskType, disk, history
  <2> QED
    BY <2>7, <2>8 DEF DiskType, Fits, TypeOK
<1>2. CASE \/ Hit(c) \/ Miss(c) \/ LookupFails(c) \/ CopyBegins(c) \/ CopyEnds(c) \/ WriteBegins(c)
           \/ WriteEnds(c) \/ Inspect(c) \/ WritePlist(c) \/ WriteConstraint(c)
           \/ Sign(c) \/ SignRefused(c)
  <2>1. req[c].pc \in Building \cup {"lookup"}
    BY <1>2 DEF Hit, Miss, LookupFails, CopyBegins, CopyEnds, WriteBegins, WriteEnds, Inspect,
       WritePlist, WriteConstraint, Sign, SignRefused, At, Building
  <2>2. req[c].key \in Key
    BY <1>0, <2>1 DEF Fits
  <2>3. PICK label \in Building \cup {"ok", "failed"} : Goto(c, label)
    BY <1>2 DEF Hit, Miss, LookupFails, Anew, CopyBegins, CopyEnds, WriteBegins, WriteEnds,
       Inspect, WritePlist, WriteConstraint, Sign, SignRefused, Building
  <2>4. req' \in [Conn -> Request] /\ \A d \in Conn : Fits(req'[d])
    BY <2>2, <2>3, GotoFits DEF Stage, Building
  <2>5. DiskType'
    <3>1. CASE Hit(c) \/ Miss(c) \/ LookupFails(c) \/ Inspect(c) \/ SignRefused(c)
      BY <1>0, <2>2, <3>1, CacheAssumption
      DEF DiskType, Hit, Miss, LookupFails, Anew, Mishap, Inspect, SignRefused, disk, history
    <3>2. CASE CopyBegins(c) \/ CopyEnds(c) \/ WriteBegins(c) \/ WriteEnds(c)
      BY <1>0, <2>2, <3>2
      DEF DiskType, CopyBegins, CopyEnds, WriteBegins, WriteEnds, history, Program
    <3>3. CASE WritePlist(c)
      <4>1. {req[d].key : d \in Signing} \subseteq Key
        BY <1>0 DEF Signing, Building, Fits
      <4>2. mixed' \in SUBSET Key /\ plist' \in Ents
        BY <1>0, <2>2, <3>3, <4>1 DEF WritePlist, Noticed, DiskType, Key
      <4> QED
        BY <1>0, <3>3, <4>2 DEF WritePlist, DiskType
    <3>4. CASE WriteConstraint(c)
      BY <1>0, <2>2, <3>4 DEF DiskType, WriteConstraint, history, Key
    <3>5. CASE Sign(c)
      <4>1. Signed(plist, constraint) \in Program
        BY <1>0 DEF DiskType, Program
      <4> QED
        BY <1>0, <2>2, <3>5, <4>1 DEF DiskType, Sign, history
    <3> QED
      BY <1>2, <3>1, <3>2, <3>3, <3>4, <3>5
  <2> QED
    BY <2>4, <2>5, TypeParts DEF DiskType, Fits, TypeOK
<1> QED
  BY <1>1, <1>2 DEF Step

LEMMA NextType == TypeOK /\ [Next]_vars => TypeOK'
<1> SUFFICES ASSUME TypeOK, [Next]_vars PROVE TypeOK'
  OBVIOUS
<1>0. /\ DiskType /\ req \in [Conn -> Request] /\ \A d \in Conn : Fits(req[d])
  BY TypeParts
<1>1. CASE \E c \in Conn : Step(c)
  BY <1>1, StepType
<1>2. ASSUME NEW c \in Conn, Fail(c) PROVE TypeOK'
  <2>1. req' \in [Conn -> Request] /\ \A d \in Conn : Fits(req'[d])
    BY <1>2, GotoFits DEF Fail, Stage, Building
  <2>2. DiskType'
    BY <1>0, <1>2, CacheAssumption DEF Fail, Mishap, DiskType, disk, history
  <2> QED
    BY <2>1, <2>2 DEF DiskType, Fits, TypeOK
<1>3. ASSUME NEW c \in Conn, NEW e \in Exe, Ask(c, e) PROVE TypeOK'
  <2> DEFINE r == [pc |-> "entitlements", src |-> e,
                   key |-> [body |-> file[e], shim |-> shim[DaemonOf[c]], ents |-> None]]
  <2>1. file[e] \in Version /\ shim[DaemonOf[c]] \in Shim
    BY <1>0, CacheAssumption DEF DiskType
  <2>2. r \in Request /\ Fits(r)
    BY <2>1 DEF Request, Fits, Stage, AnyKey, Building
  <2>3. req' = [req EXCEPT ![c] = r]
    BY <1>3 DEF Ask
  <2>4. req' \in [Conn -> Request] /\ \A d \in Conn : Fits(req'[d])
    BY <1>0, <2>2, <2>3
  <2>5. DiskType'
    BY <1>0, <1>3, CacheAssumption DEF Ask, DiskType, disk, history
  <2> QED
    BY <2>4, <2>5 DEF DiskType, Fits, TypeOK
<1>4. ASSUME NEW e \in Exe, NEW v \in Version, Replace(e, v) PROVE TypeOK'
  BY <1>4, CacheAssumption DEF Replace, Mishap, TypeOK, history
<1>5. ASSUME NEW d \in Daemon, Stop(d) PROVE TypeOK'
  <2>1. Idle \in Request /\ Fits(Idle)
    BY DEF Idle, NoKey, Request, Fits, Stage, AnyKey, Building
  <2>2. req' \in [Conn -> Request] /\ \A c \in Conn : Fits(req'[c])
    BY <1>0, <1>5, <2>1 DEF Stop
  <2>3. DiskType'
    <3>1. PICK left \in SUBSET {c \in Conn : DaemonOf[c] = d /\ At(c, "sign")} :
            orphans' = orphans \cup {req[c].key : c \in left}
      BY <1>5 DEF Stop
    <3>2. \A c \in left : req[c].key \in Key
      BY <1>0, <3>1 DEF At, Fits, Building
    <3>3. orphans' \in SUBSET Key
      BY <1>0, <3>1, <3>2 DEF DiskType
    <3> QED
      BY <1>0, <1>5, <3>3, CacheAssumption DEF Stop, Mishap, DiskType, disk, history
  <2> QED
    BY <2>2, <2>3 DEF DiskType, Fits, TypeOK
<1>6. ASSUME NEW d \in Daemon, Start(d) PROVE TypeOK'
  BY <1>6 DEF Start, TypeOK, disk, history
<1>7. ASSUME NEW k \in orphans, OrphanSigns(k) PROVE TypeOK'
  <2>1. Signed(plist, constraint) \in Program /\ k \in Key
    BY <1>0 DEF DiskType, Program
  <2>2. DiskType'
    BY <1>0, <1>7, <2>1 DEF OrphanSigns, DiskType, history
  <2> QED
    BY <1>0, <1>7, <2>2 DEF OrphanSigns, DiskType, Fits, TypeOK
<1>8. CASE UNCHANGED vars
  BY <1>8 DEF vars, TypeOK, disk, history
<1> QED
  BY <1>1, <1>2, <1>3, <1>4, <1>5, <1>6, <1>7, <1>8 DEF Next, Rest

(* The variables of the cache keep their types.                            *)
THEOREM CacheTypes == Spec => []TypeOK
BY InitType, NextType, PTL DEF Spec

----------------------------------------------------------------------------
(* What an entry is signed with *)

(* Whoever is signing another entry than somebody else knows it (mixed), a *)
(* codesign left behind from when the other one begins; anybody else finds *)
(* in the shared directory what was written there for its entry.           *)
OwnInv ==
  /\ SignedAsItsOwn
  /\ \A c \in Signing : req[c].key \notin mixed =>
       /\ plist = req[c].key.ents
       /\ At(c, "sign") => constraint = req[c].key.shim
  /\ \A c, d \in Signing : req[c].key # req[d].key =>
       req[c].key \in mixed /\ req[d].key \in mixed
  /\ \A k \in orphans \ mixed :
       /\ plist = k.ents /\ constraint = k.shim
       /\ \A c \in Signing : req[c].key = k

(* A step that signs nothing, writes neither file, and lets nobody begin.  *)
LEMMA OwnQuiet ==
  ASSUME OwnInv, UNCHANGED <<plist, constraint, mixed, orphans>>,
         \A k \in Key : program'[k].is = "signed" => program'[k] = program[k],
         \A c \in Conn : req'[c].pc \in {"constraint", "sign"} => req'[c] = req[c]
  PROVE  OwnInv'
BY DEF OwnInv, SignedAsItsOwn, SignedArtifact, Signing, At

LEMMA OwnStep ==
  ASSUME OwnInv, TypeOK, NEW c \in Conn, Step(c)
  PROVE  OwnInv'
<1>0. /\ req \in [Conn -> Request] /\ program \in [Key -> Program]
      /\ req[c].pc \in Building \cup {"lookup"} => req[c].key \in Key
  BY DEF TypeOK
<1>1. CASE \/ ReadEntitlements(c) \/ EntitlementsUnread(c)
           \/ Hit(c) \/ Miss(c) \/ LookupFails(c) \/ Inspect(c) \/ SignRefused(c)
  <2>1. /\ UNCHANGED <<plist, constraint, mixed, orphans, program>>
        /\ \A d \in Conn : d # c => req'[d] = req[d]
        /\ req'[c].pc \notin {"constraint", "sign"}
    BY <1>0, <1>1 DEF ReadEntitlements, EntitlementsUnread, Hit, Miss, LookupFails, Anew,
       Inspect, SignRefused, Goto, disk, history, Request
  <2> QED
    BY <2>1, OwnQuiet
<1>2. CASE CopyBegins(c) \/ CopyEnds(c) \/ WriteBegins(c) \/ WriteEnds(c)
  <2>1. /\ UNCHANGED <<plist, constraint, mixed, orphans>>
        /\ \A d \in Conn : d # c => req'[d] = req[d]
        /\ req'[c].pc \notin {"constraint", "sign"}
    BY <1>0, <1>2 DEF CopyBegins, CopyEnds, WriteBegins, WriteEnds, Goto, history, Request
  <2>2. \A k \in Key : program'[k].is = "signed" => program'[k] = program[k]
    BY <1>0, <1>2 DEF CopyBegins, CopyEnds, WriteBegins, WriteEnds, Torn, Unsigned
  <2> QED
    BY <2>1, <2>2, OwnQuiet
<1>3. CASE WritePlist(c)
  <2> DEFINE k == req[c].key
             others == {req[d].key : d \in Signing} \ {k}
  <2>1. /\ \A d \in Conn : d # c => req'[d] = req[d]
        /\ req'[c].pc = "constraint" /\ req'[c].key = k
        /\ UNCHANGED <<program, constraint, orphans>>
        /\ plist' = k.ents
        /\ Noticed(c)
    BY <1>0, <1>3 DEF WritePlist, Goto, Request
  <2>2. /\ mixed \subseteq mixed'
        /\ \A d \in Signing : req[d].key # k => req[d].key \in mixed' /\ k \in mixed'
        /\ \A o \in orphans : o # k => o \in mixed'
    BY <2>1 DEF Noticed
  <2>3. \A d \in Signing' : d # c => d \in Signing /\ req'[d] = req[d]
    BY <2>1 DEF Signing
  <2> HIDE DEF k, others
  <2>4. SignedAsItsOwn'
    BY <2>1, <2>2 DEF OwnInv, SignedAsItsOwn, SignedArtifact
  <2>5. ASSUME NEW d \in Signing', req'[d].key \notin mixed'
        PROVE  plist' = req'[d].key.ents /\ (At(d, "sign")' => constraint' = req'[d].key.shim)
    <3>1. CASE d = c
      BY <2>1, <3>1 DEF At
    <3>2. CASE d # c
      <4>1. d \in Signing /\ req'[d] = req[d] /\ req[d].key = k /\ req[d].key \notin mixed
        BY <2>2, <2>3, <2>5, <3>2
      <4> QED
        BY <2>1, <4>1 DEF OwnInv, At
    <3> QED
      BY <3>1, <3>2
  <2>6. ASSUME NEW d \in Signing', NEW e \in Signing', req'[d].key # req'[e].key
        PROVE  req'[d].key \in mixed' /\ req'[e].key \in mixed'
    BY <2>1, <2>2, <2>3, <2>6 DEF OwnInv
  <2>7. ASSUME NEW o \in orphans' \ mixed'
        PROVE  /\ plist' = o.ents /\ constraint' = o.shim
               /\ \A d \in Signing' : req'[d].key = o
    <3>1. o \in orphans \ mixed /\ o = k
      BY <2>1, <2>2, <2>7
    <3>2. constraint = o.shim /\ \A d \in Signing : req[d].key = o
      BY <3>1 DEF OwnInv
    <3> QED
      BY <2>1, <2>3, <3>1, <3>2
  <2> QED
    BY <2>4, <2>5, <2>6, <2>7 DEF OwnInv
<1>4. CASE WriteConstraint(c)
  <2>1. /\ \A d \in Conn : d # c => req'[d] = req[d]
        /\ req'[c].pc = "sign" /\ req'[c].key = req[c].key /\ c \in Signing
        /\ UNCHANGED <<program, plist, mixed, orphans>>
        /\ constraint' = req[c].key.shim
    BY <1>0, <1>4 DEF WriteConstraint, Goto, Request, history, At, Signing
  <2>2. Signing' = Signing /\ \A d \in Signing : req'[d].key = req[d].key
    BY <2>1 DEF Signing
  <2>3. ASSUME NEW d \in Signing, req[d].key \notin mixed
        PROVE  plist' = req[d].key.ents /\ (At(d, "sign")' => constraint' = req[d].key.shim)
    <3>1. req[d].key = req[c].key
      BY <2>1, <2>3 DEF OwnInv
    <3> QED
      BY <2>1, <2>3, <3>1 DEF OwnInv
  <2>4. SignedAsItsOwn'
    BY <2>1 DEF OwnInv, SignedAsItsOwn, SignedArtifact
  <2>5. \A d, e \in Signing' : req'[d].key # req'[e].key =>
          req'[d].key \in mixed' /\ req'[e].key \in mixed'
    BY <2>1, <2>2 DEF OwnInv
  <2>6. ASSUME NEW o \in orphans \ mixed
        PROVE  /\ plist' = o.ents /\ constraint' = o.shim
               /\ \A d \in Signing' : req'[d].key = o
    <3>1. plist = o.ents /\ \A d \in Signing : req[d].key = o
      BY <2>6 DEF OwnInv
    <3> QED
      BY <2>1, <2>2, <3>1
  <2> QED
    BY <2>1, <2>2, <2>3, <2>4, <2>5, <2>6 DEF OwnInv
<1>5. CASE Sign(c)
  <2> DEFINE k == req[c].key
  <2>1. /\ \A d \in Conn : d # c => req'[d] = req[d]
        /\ req'[c].pc = "ok"
        /\ UNCHANGED <<plist, constraint, mixed, orphans>>
        /\ program' = [program EXCEPT ![k] = Signed(plist, constraint)]
        /\ c \in Signing /\ At(c, "sign")
    BY <1>0, <1>5 DEF Sign, Goto, Request, history, At, Signing
  <2>2. \A j \in Key : program'[j] = IF j = k THEN Signed(plist, constraint) ELSE program[j]
    BY <1>0, <2>1
  <2>3. k \notin mixed => Signed(plist, constraint) = Signed(k.ents, k.shim)
    BY <2>1 DEF OwnInv
  <2>4. SignedAsItsOwn'
    BY <2>1, <2>2, <2>3 DEF OwnInv, SignedAsItsOwn, SignedArtifact
  <2>5. \A d \in Signing' : d \in Signing /\ req'[d] = req[d]
    BY <2>1 DEF Signing
  <2> QED
    BY <2>1, <2>4, <2>5 DEF OwnInv, At
<1> QED
  BY <1>1, <1>2, <1>3, <1>4, <1>5 DEF Step

(* A codesign whose daemon has ended signs.                                *)
LEMMA OwnOrphan ==
  ASSUME OwnInv, TypeOK, NEW k \in orphans, OrphanSigns(k)
  PROVE  OwnInv'
<1>1. /\ program \in [Key -> Program] /\ k \in Key
      /\ UNCHANGED <<plist, constraint, mixed, req>>
      /\ orphans' \subseteq orphans
  BY DEF OrphanSigns, TypeOK, history
<1>2. \A j \in Key : \/ program'[j] = program[j]
                     \/ j = k /\ program'[j] = Signed(plist, constraint)
  <2>1. \/ program' = program
        \/ program' = [program EXCEPT ![k] = Signed(plist, constraint)]
    BY DEF OrphanSigns
  <2> QED
    BY <1>1, <2>1
<1>3. k \notin mixed => Signed(plist, constraint) = Signed(k.ents, k.shim)
  BY DEF OwnInv
<1>4. SignedAsItsOwn'
  BY <1>1, <1>2, <1>3 DEF OwnInv, SignedAsItsOwn, SignedArtifact
<1>5. Signing' = Signing
  BY <1>1 DEF Signing
<1> QED
  BY <1>1, <1>4, <1>5 DEF OwnInv, At

(* A daemon ends, and the codesign some of its goroutines wait for go on.  *)
LEMMA OwnStop ==
  ASSUME OwnInv, TypeOK, NEW d \in Daemon, Stop(d)
  PROVE  OwnInv'
<1>1. /\ UNCHANGED <<plist, constraint, mixed, program>>
      /\ \A c \in Conn : req'[c] = IF DaemonOf[c] = d THEN Idle ELSE req[c]
  BY DEF Stop, disk, history
<1>2. PICK left \in SUBSET {c \in Conn : DaemonOf[c] = d /\ At(c, "sign")} :
        orphans' = orphans \cup {req[c].key : c \in left}
  BY DEF Stop
<1>3. \A c \in Signing' : c \in Signing /\ req'[c] = req[c]
  BY <1>1 DEF Signing, Idle
<1>4. SignedAsItsOwn'
  BY <1>1 DEF OwnInv, SignedAsItsOwn, SignedArtifact
<1>5. ASSUME NEW k \in orphans' \ mixed
      PROVE  /\ plist = k.ents /\ constraint = k.shim
             /\ \A c \in Signing : req[c].key = k
  <2>1. CASE k \in orphans
    BY <1>5, <2>1 DEF OwnInv
  <2>2. CASE k \notin orphans
    <3>1. PICK c \in left : k = req[c].key
      BY <1>2, <1>5, <2>2
    <3>2. c \in Signing /\ At(c, "sign")
      BY <1>2, <3>1 DEF At, Signing
    <3> QED
      BY <1>5, <3>1, <3>2 DEF OwnInv
  <2> QED
    BY <2>1, <2>2
<1> QED
  BY <1>1, <1>3, <1>4, <1>5 DEF OwnInv, At

(* Whatever connections and daemons do at once, and whenever they end, an  *)
(* executable is signed with the entitlements and the library constraint   *)
(* of its own entry, unless it was about to be signed, by a goroutine or a *)
(* codesign left behind, while others were signing different entries       *)
(* (signHardened).                                                         *)
THEOREM OwnSignatures == Spec => []SignedAsItsOwn
<1>1. Init => OwnInv
  BY DEF Init, OwnInv, SignedAsItsOwn, SignedArtifact, Signing, Absent, Idle
<1>2. TypeOK /\ OwnInv /\ [Next]_vars => OwnInv'
  <2> SUFFICES ASSUME TypeOK, OwnInv, [Next]_vars PROVE OwnInv'
    OBVIOUS
  <2>1. CASE \E c \in Conn : Step(c)
    BY <2>1, OwnStep
  <2>2. CASE \E c \in Conn : Fail(c) \/ \E e \in Exe : Ask(c, e)
    <3>1. /\ UNCHANGED <<plist, constraint, mixed, orphans, program>>
          /\ \A d \in Conn : req'[d].pc \in {"constraint", "sign"} => req'[d] = req[d]
      BY <2>2 DEF Fail, Ask, Goto, disk, history, TypeOK, Request
    <3> QED
      BY <3>1, OwnQuiet
  <2>3. CASE \/ \E e \in Exe, v \in Version : Replace(e, v)
             \/ \E d \in Daemon : Start(d)
             \/ UNCHANGED vars
    <3>1. /\ UNCHANGED <<plist, constraint, mixed, orphans, program>>
          /\ \A d \in Conn : req'[d].pc \in {"constraint", "sign"} => req'[d] = req[d]
      BY <2>3 DEF Replace, Start, vars, disk, history
    <3> QED
      BY <3>1, OwnQuiet
  <2>4. CASE \E d \in Daemon : Stop(d)
    BY <2>4, OwnStop
  <2>5. CASE \E k \in orphans : OrphanSigns(k)
    BY <2>5, OwnOrphan
  <2> QED
    BY <2>1, <2>2, <2>3, <2>4, <2>5 DEF Next, Rest
<1>3. OwnInv => SignedAsItsOwn
  BY DEF OwnInv
<1> QED
  BY <1>1, <1>2, <1>3, CacheTypes, PTL DEF Spec

----------------------------------------------------------------------------
(* What was answered *)

IsBuilding(c) == req[c].pc \in Building

(* Of an entry nobody began anew while it was good or another was at it:   *)
(* when it is signed, or a codesign was left behind at it, nobody builds   *)
(* it, and its library is whole from when it was looked at.                *)
WholeInv ==
  /\ AnsweredIsWhole
  /\ \A k \in Key \ redone : SignedArtifact(k) =>
       /\ shimCopy[k] = "whole"
       /\ \A c \in Conn : IsBuilding(c) => req[c].key # k
  /\ \A c, d \in Conn :
       c # d /\ IsBuilding(c) /\ IsBuilding(d) /\ req[c].key = req[d].key =>
         req[c].key \in redone
  /\ \A c \in Conn :
       req[c].pc \in {"plist", "constraint", "sign"} /\ req[c].key \notin redone =>
         shimCopy[req[c].key] = "whole"
  /\ \A k \in orphans \ redone :
       /\ shimCopy[k] = "whole"
       /\ \A c \in Conn : IsBuilding(c) => req[c].key # k

(* A step that changes nothing on disk, and after which no goroutine is    *)
(* further in a rewrite than before, except that one may have learnt that  *)
(* its library is whole.                                                   *)
LEMMA WholeQuiet ==
  ASSUME WholeInv, UNCHANGED <<program, shimCopy, redone, orphans>>,
         \A c \in Conn :
           \/ req'[c].pc \notin Building \cup {"ok"}
           \/ req'[c].pc = "ok" /\ req'[c] = req[c]
           \/ /\ IsBuilding(c) /\ req'[c].pc \in Building /\ req'[c].key = req[c].key
              /\ req'[c].pc \in {"plist", "constraint", "sign"} =>
                   \/ req[c].pc \in {"plist", "constraint", "sign"}
                   \/ shimCopy[req[c].key] = "whole"
  PROVE  WholeInv'
<1>1. AnsweredIsWhole'
  BY DEF WholeInv, AnsweredIsWhole, SignedArtifact, Building
<1>2. \A c \in Conn : IsBuilding(c)' => IsBuilding(c) /\ req'[c].key = req[c].key
  BY DEF IsBuilding, Building
<1>3. \A c \in Conn :
        req'[c].pc \in {"plist", "constraint", "sign"} /\ req'[c].key \notin redone =>
          shimCopy[req'[c].key] = "whole"
  BY DEF WholeInv, Building
<1> QED
  BY <1>1, <1>2, <1>3 DEF WholeInv, SignedArtifact

(* A goroutine that builds an entry finds it unsigned, and answered by     *)
(* nobody, as long as it is alone.                                         *)
LEMMA BuilderAlone ==
  ASSUME WholeInv, TypeOK, NEW c \in Conn, IsBuilding(c), req[c].key \notin redone
  PROVE  /\ ~SignedArtifact(req[c].key)
         /\ \A d \in Conn : req[d].pc = "ok" => req[d].key # req[c].key
         /\ \A d \in Conn : d # c /\ IsBuilding(d) => req[d].key # req[c].key
<1>1. req[c].key \in Key
  BY DEF TypeOK, IsBuilding
<1>2. ~SignedArtifact(req[c].key)
  BY <1>1 DEF WholeInv
<1> QED
  BY <1>2 DEF WholeInv, AnsweredIsWhole

LEMMA WholeStep ==
  ASSUME WholeInv, TypeOK, NEW c \in Conn, Step(c)
  PROVE  WholeInv'
<1> PICK k : k = req[c].key
  OBVIOUS
<1>0. /\ req \in [Conn -> Request] /\ program \in [Key -> Program]
      /\ shimCopy \in [Key -> {"none", "torn", "whole"}]
      /\ req[c].pc \in Building \cup {"lookup"} => k \in Key
  BY DEF TypeOK
<1>1. CASE \/ ReadEntitlements(c) \/ EntitlementsUnread(c)
           \/ Inspect(c) \/ WritePlist(c) \/ WriteConstraint(c) \/ SignRefused(c)
  <2>1. UNCHANGED <<program, shimCopy, redone, orphans>>
    BY <1>1 DEF ReadEntitlements, EntitlementsUnread, Inspect, WritePlist, WriteConstraint,
       SignRefused, disk, history
  <2>2. \A d \in Conn : d # c => req'[d] = req[d]
    BY <1>0, <1>1 DEF ReadEntitlements, EntitlementsUnread, Inspect, WritePlist,
       WriteConstraint, SignRefused, Goto
  <2>3. \/ req'[c].pc \notin Building \cup {"ok"}
        \/ /\ IsBuilding(c) /\ req'[c].pc \in Building /\ req'[c].key = k
           /\ req'[c].pc \in {"plist", "constraint", "sign"} =>
                \/ req[c].pc \in {"plist", "constraint", "sign"}
                \/ shimCopy[k] = "whole"
    <3>1. CASE ReadEntitlements(c) \/ EntitlementsUnread(c)
      BY <1>0, <3>1 DEF ReadEntitlements, EntitlementsUnread, Building, Request
    <3>2. CASE Inspect(c) \/ SignRefused(c)
      BY <1>0, <3>2 DEF Inspect, SignRefused, Goto, At, IsBuilding, Building, Request
    <3>3. CASE WritePlist(c) \/ WriteConstraint(c)
      BY <1>0, <3>3 DEF WritePlist, WriteConstraint, Goto, At, IsBuilding, Building, Request
    <3> QED
      BY <1>1, <3>1, <3>2, <3>3
  <2>4. \A d \in Conn : d # c =>
          \/ req'[d].pc \notin Building \cup {"ok"}
          \/ req'[d].pc = "ok" /\ req'[d] = req[d]
          \/ IsBuilding(d) /\ req'[d].pc \in Building /\ req'[d] = req[d]
    BY <2>2 DEF IsBuilding
  <2> QED
    BY <2>1, <2>3, <2>4, WholeQuiet
<1>2. CASE Hit(c)
  <2>1. /\ UNCHANGED <<program, shimCopy, redone, orphans>>
        /\ \A d \in Conn : d # c => req'[d] = req[d]
        /\ req'[c].pc = "ok" /\ req'[c].key = k /\ k \in Key
        /\ SignedArtifact(k)
    BY <1>0, <1>2 DEF Hit, Goto, At, Usable, disk, history, Request
  <2>2. AnsweredIsWhole'
    BY <2>1 DEF WholeInv, AnsweredIsWhole, SignedArtifact
  <2>3. \A d \in Conn : IsBuilding(d)' => IsBuilding(d) /\ req'[d] = req[d]
    BY <2>1 DEF IsBuilding, Building
  <2>4. \A d \in Conn : req'[d].pc \in {"plist", "constraint", "sign"} => req'[d] = req[d]
    BY <2>1
  <2> QED
    BY <2>1, <2>2, <2>3, <2>4 DEF WholeInv, SignedArtifact
<1>3. CASE Miss(c) \/ LookupFails(c)
  <2>1. /\ UNCHANGED <<program, shimCopy, orphans>>
        /\ \A d \in Conn : d # c => req'[d] = req[d]
        /\ req'[c].pc = "copy" /\ req'[c].key = k /\ k \in Key
        /\ ~IsBuilding(c)
        /\ redone \subseteq redone'
        /\ SignedArtifact(k) \/ Builders(k) # {} \/ k \in orphans => k \in redone'
    BY <1>0, <1>3 DEF Miss, LookupFails, Anew, Goto, At, Usable, disk, IsBuilding, Building, Request
  <2>2. AnsweredIsWhole'
    BY <2>1 DEF WholeInv, AnsweredIsWhole, SignedArtifact
  <2>3. ASSUME NEW j \in Key \ redone', SignedArtifact(j)'
        PROVE  shimCopy'[j] = "whole" /\ \A d \in Conn : IsBuilding(d)' => req'[d].key # j
    <3>1. j \notin redone /\ SignedArtifact(j) /\ j # k
      BY <2>1, <2>3 DEF SignedArtifact
    <3> QED
      BY <2>1, <2>3, <3>1 DEF WholeInv, IsBuilding
  <2>4. ASSUME NEW d \in Conn, NEW e \in Conn, d # e, IsBuilding(d)', IsBuilding(e)',
               req'[d].key = req'[e].key
        PROVE  req'[d].key \in redone'
    <3>1. CASE d # c /\ e # c
      BY <2>1, <2>4, <3>1 DEF WholeInv, IsBuilding
    <3>2. CASE d = c
      <4>1. e \in Builders(k)
        BY <2>1, <2>4, <3>2 DEF Builders, IsBuilding
      <4> QED
        BY <2>1, <3>2, <4>1
    <3>3. CASE e = c
      <4>1. d \in Builders(k)
        BY <2>1, <2>4, <3>3 DEF Builders, IsBuilding
      <4> QED
        BY <2>1, <2>4, <3>3, <4>1
    <3> QED
      BY <3>1, <3>2, <3>3
  <2>5. \A d \in Conn : req'[d].pc \in {"plist", "constraint", "sign"} => req'[d] = req[d]
    BY <2>1
  <2>6. ASSUME NEW o \in orphans \ redone'
        PROVE  shimCopy[o] = "whole" /\ \A d \in Conn : IsBuilding(d)' => req'[d].key # o
    <3>1. o \in orphans \ redone /\ o # k
      BY <2>1, <2>6
    <3> QED
      BY <2>1, <3>1 DEF WholeInv, IsBuilding
  <2> QED
    BY <2>1, <2>2, <2>3, <2>4, <2>5, <2>6 DEF WholeInv
<1>4. CASE CopyBegins(c) \/ CopyEnds(c) \/ WriteBegins(c) \/ WriteEnds(c)
  <2>1. /\ UNCHANGED <<redone, orphans>>
        /\ \A d \in Conn : d # c => req'[d] = req[d]
        /\ req'[c].pc \in {"copying", "write", "writing", "inspect", "failed"}
        /\ req'[c].key = k /\ k \in Key /\ IsBuilding(c)
    BY <1>0, <1>4
    DEF CopyBegins, CopyEnds, WriteBegins, WriteEnds, Goto, At, history, IsBuilding, Building, Request
  <2>2. /\ \A j \in Key : j # k => program'[j] = program[j] /\ shimCopy'[j] = shimCopy[j]
        /\ program' = program \/ program'[k].is # "signed"
    BY <1>0, <1>4, <2>1
    DEF CopyBegins, CopyEnds, WriteBegins, WriteEnds, Torn, Unsigned
  <2>3. k \notin redone => ~SignedArtifact(k)'
    BY <2>1, <2>2, BuilderAlone DEF SignedArtifact
  <2>4. AnsweredIsWhole'
    <3> SUFFICES ASSUME NEW d \in Conn, req'[d].pc = "ok", req'[d].key \notin redone
                 PROVE  program'[req'[d].key].is = "signed" /\ shimCopy'[req'[d].key] = "whole"
      BY <2>1 DEF AnsweredIsWhole, SignedArtifact
    <3>1. d # c /\ req[d].pc = "ok" /\ req'[d] = req[d] /\ req[d].key \in Key
      BY <2>1 DEF TypeOK
    <3>2. req[d].key # k
      BY <2>1, <3>1, BuilderAlone
    <3> QED
      BY <2>2, <3>1, <3>2 DEF WholeInv, AnsweredIsWhole, SignedArtifact
  <2>5. \A d \in Conn : IsBuilding(d)' => IsBuilding(d) /\ req'[d].key = req[d].key
    BY <2>1 DEF IsBuilding
  <2>6. ASSUME NEW j \in Key \ redone, SignedArtifact(j)'
        PROVE  shimCopy'[j] = "whole" /\ \A d \in Conn : IsBuilding(d)' => req'[d].key # j
    <3>1. j # k /\ SignedArtifact(j)
      BY <2>2, <2>3, <2>6 DEF SignedArtifact
    <3> QED
      BY <2>2, <2>5, <2>6, <3>1 DEF WholeInv
  <2>7. ASSUME NEW d \in Conn, req'[d].pc \in {"plist", "constraint", "sign"}, req'[d].key \notin redone
        PROVE  shimCopy'[req'[d].key] = "whole"
    <3>1. d # c /\ req'[d] = req[d] /\ IsBuilding(d) /\ req[d].key \in Key
      BY <2>1, <2>7 DEF IsBuilding, Building, TypeOK
    <3>2. req[d].key # k
      BY <2>1, <2>7, <3>1, BuilderAlone
    <3> QED
      BY <2>2, <2>7, <3>1, <3>2 DEF WholeInv
  <2>8. ASSUME NEW o \in orphans \ redone
        PROVE  shimCopy'[o] = "whole" /\ \A d \in Conn : IsBuilding(d)' => req'[d].key # o
    <3>1. /\ shimCopy[o] = "whole" /\ o \in Key
          /\ \A d \in Conn : IsBuilding(d) => req[d].key # o
      BY <2>8 DEF WholeInv, TypeOK
    <3> QED
      BY <2>1, <2>2, <2>5, <3>1
  <2> QED
    BY <2>1, <2>4, <2>5, <2>6, <2>7, <2>8 DEF WholeInv
<1>5. CASE Sign(c)
  <2>1. /\ UNCHANGED <<redone, shimCopy, orphans>>
        /\ \A d \in Conn : d # c => req'[d] = req[d]
        /\ req[c].pc = "sign" /\ req'[c].pc = "ok" /\ req'[c].key = k /\ k \in Key
        /\ IsBuilding(c)
    BY <1>0, <1>5 DEF Sign, Goto, At, history, IsBuilding, Building, Request
  <2>2. \A j \in Key : program'[j] = IF j = k THEN Signed(plist, constraint) ELSE program[j]
    BY <1>0, <1>5, <2>1 DEF Sign
  <2>3. SignedArtifact(k)'
    BY <2>1, <2>2 DEF SignedArtifact, Signed
  <2>4. k \notin redone => shimCopy[k] = "whole"
    BY <2>1 DEF WholeInv
  <2>5. \A d \in Conn : IsBuilding(d)' => d # c /\ IsBuilding(d) /\ req'[d] = req[d]
    BY <2>1 DEF IsBuilding, Building
  <2>6. AnsweredIsWhole'
    <3> SUFFICES ASSUME NEW d \in Conn, req'[d].pc = "ok", req'[d].key \notin redone
                 PROVE  program'[req'[d].key].is = "signed" /\ shimCopy[req'[d].key] = "whole"
      BY <2>1 DEF AnsweredIsWhole, SignedArtifact
    <3>1. CASE req'[d].key = k
      BY <2>3, <2>4, <3>1 DEF SignedArtifact
    <3>2. CASE req'[d].key # k
      <4>1. d # c /\ req'[d] = req[d] /\ req[d].key \in Key
        BY <2>1, <3>2 DEF TypeOK
      <4> QED
        BY <2>2, <3>2, <4>1 DEF WholeInv, AnsweredIsWhole, SignedArtifact
    <3> QED
      BY <3>1, <3>2
  <2>7. ASSUME NEW j \in Key \ redone, SignedArtifact(j)'
        PROVE  shimCopy'[j] = "whole" /\ \A d \in Conn : IsBuilding(d)' => req'[d].key # j
    <3>1. CASE j = k
      BY <2>1, <2>4, <2>5, <2>7, <3>1, BuilderAlone
    <3>2. CASE j # k
      <4>1. SignedArtifact(j)
        BY <2>2, <2>7, <3>2 DEF SignedArtifact
      <4> QED
        BY <2>1, <2>5, <2>7, <4>1 DEF WholeInv
    <3> QED
      BY <3>1, <3>2
  <2>8. \A d \in Conn : req'[d].pc \in {"plist", "constraint", "sign"} => req'[d] = req[d]
    BY <2>1
  <2> QED
    BY <2>1, <2>5, <2>6, <2>7, <2>8 DEF WholeInv
<1> QED
  BY <1>1, <1>2, <1>3, <1>4, <1>5 DEF Step

LEMMA WholeOrphan ==
  ASSUME WholeInv, TypeOK, NEW k \in orphans, OrphanSigns(k)
  PROVE  WholeInv'
<1>1. /\ program \in [Key -> Program] /\ k \in Key
      /\ UNCHANGED <<shimCopy, redone, req>>
      /\ orphans' \subseteq orphans
  BY DEF OrphanSigns, TypeOK, history
<1>2. \A j \in Key : \/ program'[j] = program[j]
                     \/ j = k /\ program'[j].is = "signed"
  <2>1. \/ program' = program
        \/ program' = [program EXCEPT ![k] = Signed(plist, constraint)]
    BY DEF OrphanSigns
  <2> QED
    BY <1>1, <2>1 DEF Signed
<1>3. \A c \in Conn : req[c].pc = "ok" => req[c].key \in Key
  BY DEF TypeOK
<1>4. AnsweredIsWhole'
  BY <1>1, <1>2, <1>3 DEF WholeInv, AnsweredIsWhole, SignedArtifact
<1>5. ASSUME NEW j \in Key \ redone, SignedArtifact(j)'
      PROVE  shimCopy[j] = "whole" /\ \A c \in Conn : IsBuilding(c) => req[c].key # j
  BY <1>2, <1>5 DEF WholeInv, SignedArtifact
<1>6. \A c \in Conn : IsBuilding(c)' = IsBuilding(c)
  BY <1>1 DEF IsBuilding
<1> QED
  BY <1>1, <1>4, <1>5, <1>6 DEF WholeInv

LEMMA WholeStop ==
  ASSUME WholeInv, TypeOK, NEW d \in Daemon, Stop(d)
  PROVE  WholeInv'
<1>1. /\ UNCHANGED <<program, shimCopy, redone>>
      /\ \A c \in Conn : req'[c] = IF DaemonOf[c] = d THEN Idle ELSE req[c]
  BY DEF Stop, disk, history
<1>2. PICK left \in SUBSET {c \in Conn : DaemonOf[c] = d /\ At(c, "sign")} :
        orphans' = orphans \cup {req[c].key : c \in left}
  BY DEF Stop
<1>3. \A c \in Conn : req'[c].pc \in Building \cup {"ok"} => req'[c] = req[c]
  BY <1>1 DEF Idle, Building
<1>4. AnsweredIsWhole'
  BY <1>1, <1>3 DEF WholeInv, AnsweredIsWhole, SignedArtifact
<1>5. \A c \in Conn : IsBuilding(c)' => IsBuilding(c) /\ req'[c] = req[c] /\ c \notin left
  BY <1>1, <1>2, <1>3 DEF IsBuilding, Idle, Building
<1>6. ASSUME NEW k \in orphans' \ redone
      PROVE  shimCopy[k] = "whole" /\ \A c \in Conn : IsBuilding(c)' => req'[c].key # k
  <2>1. CASE k \in orphans
    BY <1>5, <1>6, <2>1 DEF WholeInv
  <2>2. CASE k \notin orphans
    <3>1. PICK c \in left : k = req[c].key
      BY <1>2, <1>6, <2>2
    <3>2. c \in Conn /\ req[c].pc = "sign" /\ IsBuilding(c)
      BY <1>2, <3>1 DEF At, IsBuilding, Building
    <3>3. shimCopy[k] = "whole"
      BY <1>6, <3>1, <3>2 DEF WholeInv
    <3> QED
      BY <1>5, <1>6, <3>1, <3>2, <3>3, BuilderAlone
  <2> QED
    BY <2>1, <2>2
<1>7. \A c \in Conn : req'[c].pc \in {"plist", "constraint", "sign"} => req'[c] = req[c]
  BY <1>3 DEF Building
<1> QED
  BY <1>1, <1>4, <1>5, <1>6, <1>7 DEF WholeInv, SignedArtifact

(* Whatever was done to the cache before, by goroutines that failed or     *)
(* daemons that ended half way, what sandboxd answers with is whole, and   *)
(* remains so, unless somebody began that entry anew while it was good, or *)
(* while another goroutine or a codesign left behind was at it (rewrite).  *)
THEOREM AnswersAreWhole == Spec => []AnsweredIsWhole
<1>1. Init => WholeInv
  BY DEF Init, WholeInv, AnsweredIsWhole, SignedArtifact, IsBuilding, Building, Absent, Idle
<1>2. TypeOK /\ WholeInv /\ [Next]_vars => WholeInv'
  <2> SUFFICES ASSUME TypeOK, WholeInv, [Next]_vars PROVE WholeInv'
    OBVIOUS
  <2>1. CASE \E c \in Conn : Step(c)
    BY <2>1, WholeStep
  <2>2. CASE \E c \in Conn : Fail(c) \/ \E e \in Exe : Ask(c, e)
    <3>1. /\ UNCHANGED <<program, shimCopy, redone, orphans>>
          /\ \A d \in Conn : \/ req'[d].pc \notin Building \cup {"ok"}
                             \/ req'[d] = req[d]
      BY <2>2 DEF Fail, Ask, Goto, disk, history, TypeOK, Request, Building
    <3> QED
      BY <3>1, WholeQuiet DEF IsBuilding
  <2>3. CASE \/ \E e \in Exe, v \in Version : Replace(e, v)
             \/ \E d \in Daemon : Start(d)
             \/ UNCHANGED vars
    <3>1. /\ UNCHANGED <<program, shimCopy, redone, orphans>>
          /\ \A d \in Conn : \/ req'[d].pc \notin Building \cup {"ok"}
                             \/ req'[d] = req[d]
      BY <2>3 DEF Replace, Start, vars, disk, history, Building
    <3> QED
      BY <3>1, WholeQuiet DEF IsBuilding
  <2>4. CASE \E d \in Daemon : Stop(d)
    BY <2>4, WholeStop
  <2>5. CASE \E k \in orphans : OrphanSigns(k)
    BY <2>5, WholeOrphan
  <2> QED
    BY <2>1, <2>2, <2>3, <2>4, <2>5 DEF Next, Rest
<1>3. WholeInv => AnsweredIsWhole
  BY DEF WholeInv
<1> QED
  BY <1>1, <1>2, <1>3, CacheTypes, PTL DEF Spec

----------------------------------------------------------------------------
(* How the table of load commands is rewritten *)

LessThan == {p \in Nat \X Nat : p[1] < p[2]}

(* A set of numbers has a least element.                                   *)
LEMMA Least ==
  ASSUME NEW S, S \subseteq Nat, S # {}
  PROVE  \E x \in S : \A y \in S : x <= y
<1>1. IsWellFoundedOn(LessThan, Nat)
  <2>1. LessThan = OpToRel(<, Nat)
    BY DEF LessThan, OpToRel
  <2> QED
    BY <2>1, NatLessThanWellFounded
<1>2. PICK x \in S : \A y \in S : ~(<<y, x>> \in LessThan)
  BY <1>1, WFMin
<1>3. ASSUME NEW y \in S PROVE x <= y
  <2>1. x \in Nat /\ y \in Nat /\ ~(<<y, x>> \in LessThan)
    BY <1>2
  <2>2. ~(y < x)
    BY <2>1 DEF LessThan
  <2> QED
    BY <2>1, <2>2
<1> QED
  BY <1>3

(* Min and Max of module FiniteSetsExt.                                    *)
LEMMA MinOf ==
  ASSUME NEW S, S \subseteq Nat, S # {}
  PROVE  Min(S) \in S /\ \A y \in S : Min(S) <= y
<1>1. \E x \in S : \A y \in S : x <= y
  BY Least
<1> QED
  BY <1>1 DEF Min

LEMMA MaxOf ==
  ASSUME NEW n \in Nat, NEW S, S \subseteq 1..n, S # {}
  PROVE  Max(S) \in S /\ \A y \in S : Max(S) >= y
<1> DEFINE Bounds == {k \in Nat : \A y \in S : y <= k}
<1>1. n \in Bounds
  OBVIOUS
<1>2. PICK k \in Bounds : \A m \in Bounds : k <= m
  BY <1>1, Least
<1>3. k \in S
  <2> SUFFICES ASSUME k \notin S PROVE FALSE
    OBVIOUS
  <2>1. \A y \in S : y \in Nat /\ y <= k /\ y # k
    BY <1>2
  <2>2. PICK y \in S : TRUE
    OBVIOUS
  <2>3. k - 1 \in Nat /\ \A z \in S : z <= k - 1
    BY <1>2, <2>1, <2>2
  <2>4. k - 1 \in Bounds
    BY <2>3
  <2> QED
    BY <1>2, <2>3, <2>4
<1>4. \E x \in S : \A y \in S : x >= y
  BY <1>2, <1>3
<1> QED
  BY <1>4 DEF Max

(* Where the walk goes from a word.                                        *)
After(f, x) == IF x <= Len(f.words) THEN x + f.words[x].len ELSE x

LEMMA BeginsType ==
  ASSUME NEW f \in File
  PROVE  /\ Begins(f)[1] = 1
         /\ \A i \in 1..f.ncmds : Begins(f)[i + 1] = After(f, Begins(f)[i])
<1> DEFINE Is(h, m) == h = [i \in 1..(m + 1) |-> IF i = 1 THEN 1 ELSE After(f, h[i - 1])]
           Without == {m \in Nat : ~\E h : Is(h, m)}
<1>1. Begins(f) = CHOOSE h : Is(h, f.ncmds)
  BY DEF Begins, After
<1>2. Without = {}
  <2>1. SUFFICES ASSUME Without # {} PROVE FALSE
    OBVIOUS
  <2>2. PICK m \in Without : \A k \in Without : m <= k
    BY <2>1, Least
  <2>3. Is([i \in 1..(0 + 1) |-> 1], 0)
    OBVIOUS
  <2>4. m # 0
    <3> HIDE DEF Is
    <3> QED BY <2>3
  <2>5. m - 1 \in Nat /\ m - 1 \notin Without
    <3>1. m \in Nat
      BY <2>2
    <3> HIDE DEF Without
    <3> QED BY <2>2, <2>4, <3>1
  <2>6. PICK h : Is(h, m - 1)
    BY <2>5
  <2> HIDE DEF After
  <2> DEFINE g == [i \in 1..(m + 1) |-> IF i = m + 1 THEN After(f, h[m]) ELSE h[i]]
  <2>7. g[1] = 1
    BY <2>5, <2>6
  <2>8. \A i \in 1..(m + 1) : i = 1 \/ g[i] = After(f, g[i - 1])
    BY <2>5, <2>6
  <2>9. Is(g, m)
    BY <2>5, <2>7, <2>8
  <2> QED
    BY <2>2, <2>9
<1>3. f.ncmds \in Nat
  BY DEF File
<1>4. Is(Begins(f), f.ncmds)
  <2> HIDE DEF Is
  <2> QED BY <1>1, <1>2, <1>3
<1> HIDE DEF After
<1>5. Begins(f)[1] = 1
  BY <1>3, <1>4
<1>6. ASSUME NEW i \in 1..f.ncmds PROVE Begins(f)[i + 1] = After(f, Begins(f)[i])
  BY <1>3, <1>4
<1> QED
  BY <1>5, <1>6

(* Whatever begins like the walk and goes on like it is the walk.          *)
LEMMA BeginsUnique ==
  ASSUME NEW f \in File, NEW h, h[1] = 1, \A i \in 1..f.ncmds : h[i + 1] = After(f, h[i])
  PROVE  \A i \in 1..(f.ncmds + 1) : Begins(f)[i] = h[i]
<1> DEFINE Apart == {i \in Nat : i \in 1..(f.ncmds + 1) /\ Begins(f)[i] # h[i]}
<1> SUFFICES ASSUME Apart # {} PROVE FALSE
  OBVIOUS
<1>1. f.ncmds \in Nat
  BY DEF File
<1>2. PICK i \in Apart : \A k \in Apart : i <= k
  BY <1>1, Least
<1>3. i # 1
  BY BeginsType
<1>4. i - 1 \in 1..f.ncmds /\ i - 1 \notin Apart
  BY <1>1, <1>2, <1>3
<1>5. Begins(f)[i - 1] = h[i - 1]
  BY <1>1, <1>4
<1>6. (i - 1) + 1 = i
  BY <1>1, <1>2
<1> QED
  BY <1>2, <1>4, <1>5, <1>6, BeginsType

(* In a table that is within its file, commands begin one behind another.  *)
LEMMA BeginsGrow ==
  ASSUME NEW f \in File, Walked(f)
  PROVE  /\ \A i \in 1..(f.ncmds + 1) : Begins(f)[i] \in 1..(Len(f.words) + 1)
         /\ \A i \in 1..f.ncmds :
              /\ Begins(f)[i] \in 1..Len(f.words)
              /\ First(f, i) = f.words[Begins(f)[i]]
              /\ First(f, i).len \in Nat \ {0}
              /\ Begins(f)[i + 1] = Begins(f)[i] + First(f, i).len
         /\ \A i, k \in 1..(f.ncmds + 1) : i < k => Begins(f)[i] < Begins(f)[k]
<1> DEFINE b == Begins(f)
<1>1. f.ncmds \in Nat /\ f.words \in Seq(Word) /\ Len(f.words) \in Nat
  BY DEF File
<1>2. \A j \in 1..Len(f.words) : f.words[j].len \in Nat
  <2>1. \A j \in 1..Len(f.words) : f.words[j] \in Word
    BY <1>1
  <2> QED BY <2>1 DEF Word
<1>3. ASSUME NEW i \in 1..f.ncmds, b[i] \in Nat \ {0}
      PROVE  /\ b[i] \in 1..Len(f.words)
             /\ First(f, i) = f.words[b[i]]
             /\ First(f, i).len \in Nat \ {0}
             /\ b[i + 1] = b[i] + First(f, i).len
  <2>1. b[i] <= Len(f.words) /\ First(f, i).len >= 1
    BY DEF Walked
  <2>2. b[i] \in 1..Len(f.words)
    BY <1>1, <1>3, <2>1
  <2>3. b[i + 1] = After(f, b[i])
    BY BeginsType
  <2> QED BY <1>1, <1>2, <2>1, <2>2, <2>3 DEF After, First
<1>4. \A i \in 1..(f.ncmds + 1) : b[i] \in Nat \ {0}
  <2> DEFINE Not == {i \in Nat : i \in 1..(f.ncmds + 1) /\ b[i] \notin Nat \ {0}}
  <2> SUFFICES ASSUME Not # {} PROVE FALSE
    OBVIOUS
  <2>1. PICK i \in Not : \A k \in Not : i <= k
    BY <1>1, Least
  <2>2. i # 1
    BY BeginsType
  <2>3. i - 1 \in 1..f.ncmds /\ i - 1 \in 1..(f.ncmds + 1) /\ i - 1 \notin Not /\ (i - 1) + 1 = i
    BY <1>1, <2>1, <2>2
  <2>4. b[i - 1] \in Nat \ {0}
    BY <2>3
  <2>5. b[i] = b[i - 1] + First(f, i - 1).len /\ First(f, i - 1).len \in Nat
    BY <1>3, <2>3, <2>4
  <2>6. b[i] \in Nat \ {0}
    <3> HIDE DEF b
    <3> QED BY <2>4, <2>5
  <2> QED
    BY <2>1, <2>6
<1>5. \A i \in 1..f.ncmds :
        /\ b[i] \in 1..Len(f.words)
        /\ First(f, i) = f.words[b[i]]
        /\ First(f, i).len \in Nat \ {0}
        /\ b[i + 1] = b[i] + First(f, i).len
  <2> HIDE DEF b
  <2> QED BY <1>1, <1>3, <1>4
<1>6. \A i \in 1..(f.ncmds + 1) : b[i] \in 1..(Len(f.words) + 1)
  <2> SUFFICES ASSUME NEW i \in 1..(f.ncmds + 1) PROVE b[i] <= Len(f.words) + 1
    BY <1>1, <1>4
  <2>1. CASE i = 1
    BY <1>1, <2>1, BeginsType
  <2>2. CASE i # 1
    <3>1. i - 1 \in 1..f.ncmds /\ (i - 1) + 1 = i
      BY <1>1, <2>2
    <3> QED BY <3>1 DEF Walked
  <2> QED BY <2>1, <2>2
<1>7. ASSUME NEW i \in 1..(f.ncmds + 1)
      PROVE  \A k \in 1..(f.ncmds + 1) : i < k => b[i] < b[k]
  <2> DEFINE Not == {k \in Nat : k \in 1..(f.ncmds + 1) /\ i < k /\ ~(b[i] < b[k])}
  <2> SUFFICES ASSUME Not # {} PROVE FALSE
    OBVIOUS
  <2>1. PICK k \in Not : \A m \in Not : k <= m
    BY <1>1, Least
  <2>2. k - 1 \in 1..f.ncmds /\ k - 1 \in 1..(f.ncmds + 1) /\ k - 1 \notin Not /\ (k - 1) + 1 = k
    BY <1>1, <2>1
  <2>3. k - 1 = i \/ b[i] < b[k - 1]
    BY <1>1, <2>1, <2>2
  <2>4. b[k] = b[k - 1] + First(f, k - 1).len /\ First(f, k - 1).len \in Nat \ {0}
    BY <1>5, <2>2
  <2>5. b[i] \in Nat /\ b[k - 1] \in Nat
    BY <1>4, <2>2
  <2>6. b[i] < b[k]
    <3> HIDE DEF b
    <3> QED BY <2>3, <2>4, <2>5
  <2> QED BY <2>1, <2>6
<1> QED
  BY <1>5, <1>6, <1>7

(* What gives way are one or two commands that can be done without.        *)
LEMMA AnchorType ==
  ASSUME NEW f \in File, Accepted(f)
  PROVE  \E i \in 1..f.ncmds, c \in 1..2 :
           /\ i + c <= f.ncmds + 1
           /\ Anchor(f) = [at    |-> Begins(f)[i],
                           len   |-> Begins(f)[i + c] - Begins(f)[i],
                           count |-> c]
           /\ \A k \in i..(i + c - 1) : First(f, k).kind \in {"data_in_code", "code_signature"}
<1>1. f.ncmds \in Nat
  BY DEF File
<1>2. CASE Pairs(f) # {}
  <2>1. Pairs(f) \subseteq 1..(f.ncmds - 1)
    BY DEF Pairs
  <2>2. Pairs(f) \subseteq 1..f.ncmds
    BY <1>1, <2>1
  <2>3. Max(Pairs(f)) \in Pairs(f)
    BY <1>1, <1>2, <2>2, MaxOf
  <2> DEFINE i == Max(Pairs(f))
  <2>4. /\ i \in 1..(f.ncmds - 1)
        /\ First(f, i).kind = "data_in_code" /\ First(f, i + 1).kind = "code_signature"
    BY <2>3 DEF Pairs
  <2>5. Anchor(f) = [at |-> Begins(f)[i], len |-> Begins(f)[i + 2] - Begins(f)[i], count |-> 2]
    BY <1>2 DEF Anchor
  <2> HIDE DEF i
  <2>6. i \in 1..f.ncmds /\ i + 2 <= f.ncmds + 1 /\ \A k \in i..(i + 2 - 1) : k = i \/ k = i + 1
    BY <1>1, <2>4
  <2>7. \A k \in i..(i + 2 - 1) : First(f, k).kind \in {"data_in_code", "code_signature"}
    BY <2>4, <2>6
  <2> QED
    BY <2>5, <2>6, <2>7
<1>3. CASE Pairs(f) = {}
  <2>1. Lone(f) # {} /\ Lone(f) \subseteq 1..f.ncmds
    BY <1>3 DEF Accepted, Lone
  <2>2. Lone(f) \subseteq Nat
    BY <2>1
  <2>3. Min(Lone(f)) \in Lone(f)
    BY <2>1, <2>2, MinOf
  <2> DEFINE i == Min(Lone(f))
  <2>4. i \in 1..f.ncmds /\ First(f, i).kind = "code_signature"
    BY <2>3 DEF Lone
  <2>5. Anchor(f) = [at |-> Begins(f)[i], len |-> Begins(f)[i + 1] - Begins(f)[i], count |-> 1]
    BY <1>3 DEF Anchor
  <2> HIDE DEF i
  <2>6. i + 1 <= f.ncmds + 1 /\ \A k \in i..(i + 1 - 1) : k = i
    BY <1>1, <2>4
  <2> QED
    BY <2>4, <2>5, <2>6
<1> QED
  BY <1>2, <1>3

(* Whatever the commands of a well-formed executable, what rewriteMachO    *)
(* makes of it, if it accepts it, has the new command where the others     *)
(* were, what was before and behind them, its table as long as stated, and *)
(* its code where it was.                                                  *)
THEOREM RewriteRight ==
  ASSUME NEW f \in File, Accepted(f), WellFormed(f)
  PROVE  RewrittenRight(f)
<1>1. PICK i \in 1..f.ncmds, c \in 1..2 :
        /\ i + c <= f.ncmds + 1
        /\ Anchor(f) = [at |-> Begins(f)[i], len |-> Begins(f)[i + c] - Begins(f)[i], count |-> c]
        /\ \A k \in i..(i + c - 1) : First(f, k).kind \in {"data_in_code", "code_signature"}
  BY AnchorType
<1> DEFINE n == f.ncmds
           w == f.words
           b == Begins(f)
           at == b[i]
           len == b[i + c] - b[i]
           end == f.size + (6 - len)
           new == [j \in 1..Len(w) |->
                     IF j \in at..((at + 6) - 1) THEN ShimCommand[j + 1 - at]
                     ELSE IF j \in (at + 6)..end THEN w[j + len - 6]
                     ELSE w[j]]
           g == Rewrite(f)
           h == [k \in 1..(n + 2 - c) |-> IF k <= i THEN b[k] ELSE b[k + c - 1] + 6 - len]
<1>s. w \in Seq(Word)
  BY DEF File
<1>2. n \in Nat /\ f.size \in Nat /\ Len(w) \in Nat
  BY <1>s DEF File
<1>3. /\ i \in Nat /\ i >= 1 /\ c \in Nat /\ c >= 1 /\ i + c <= n + 1
      /\ i \in 1..n /\ i + c \in 1..(n + 1) /\ i < i + c
      /\ n + 1 \in 1..(n + 1) /\ n + 1 - c \in Nat
  <2>1. i \in 1..n /\ c \in 1..2 /\ i + c <= n + 1
    BY <1>1
  <2> HIDE DEF n
  <2> QED BY <1>2, <2>1
<1>4. f.size <= Len(w) /\ b[n + 1] = f.size + 1
  BY DEF WellFormed, Walked
<1>5. /\ \A k \in 1..(n + 1) : b[k] \in Nat \ {0} /\ b[k] <= Len(w) + 1
      /\ \A k \in 1..n : First(f, k) = w[b[k]] /\ b[k + 1] = b[k] + w[b[k]].len
      /\ \A k, m \in 1..(n + 1) : k < m => b[k] < b[m]
  <2>1. Walked(f)
    BY DEF WellFormed
  <2>2. \A k \in 1..(n + 1) : b[k] \in 1..(Len(w) + 1)
    BY <2>1, BeginsGrow
  <2>3. \A k \in 1..(n + 1) : b[k] \in Nat \ {0} /\ b[k] <= Len(w) + 1
    <3> HIDE DEF b, w
    <3> QED BY <1>2, <2>2
  <2> QED BY <2>1, <2>3, BeginsGrow
<1>6. b[1] = 1
  BY BeginsType
<1>7. /\ at \in Nat \ {0} /\ len \in Nat \ {0}
      /\ at + len = b[i + c] /\ at + len <= f.size + 1 /\ at <= f.size
      /\ end \in Nat /\ at + 6 - 1 <= end
  <2>1. at \in Nat \ {0} /\ b[i + c] \in Nat /\ at < b[i + c]
    <3> HIDE DEF b, n, w
    <3> QED BY <1>3, <1>5
  <2>2. b[i + c] = b[n + 1] \/ b[i + c] < b[n + 1]
    <3>1. i + c = n + 1 \/ i + c < n + 1
      BY <1>2, <1>3
    <3> QED BY <1>3, <1>5, <3>1
  <2>3. len = b[i + c] - at /\ end = f.size + 6 - len
    OBVIOUS
  <2>4. b[i + c] <= f.size + 1
    <3> HIDE DEF b
    <3> QED BY <1>2, <1>4, <2>1, <2>2
  <2> DEFINE sz == f.size
             behind == b[i + c]
  <2>5. /\ at \in Nat \ {0} /\ behind \in Nat /\ at < behind /\ sz \in Nat
        /\ len = behind - at /\ end = sz + 6 - len /\ behind <= sz + 1
    BY <1>2, <2>1, <2>3, <2>4
  <2> HIDE DEF b, at, len, end, sz, behind
  <2>6. /\ len \in Nat \ {0} /\ at + len = behind /\ at + len <= sz + 1 /\ at <= sz
        /\ end \in Nat /\ at + 6 - 1 <= end
    BY <2>5
  <2> QED BY <2>5, <2>6 DEF sz, behind
<1>8. Grown(f) = end
  BY <1>1 DEF Grown, ShimWords
<1>9. /\ end <= Len(w)
      /\ \A j \in (f.size + 1)..end : w[j] = Zero
  <2>1. \A j \in (f.size + 1)..end : j <= Len(w) /\ w[j] = Zero
    BY <1>8 DEF Accepted
  <2>2. end <= f.size \/ end \in (f.size + 1)..end
    <3> HIDE DEF end
    <3> QED BY <1>2, <1>7
  <2>3. end <= Len(w)
    <3> HIDE DEF end, w
    <3> QED BY <1>2, <1>4, <1>7, <2>1, <2>2
  <2> QED BY <2>1, <2>3
<1>10. g = [ncmds |-> n + 1 - c, size |-> end, words |-> new]
  <2>1. Anchor(f).at = at /\ Anchor(f).len = len /\ Anchor(f).count = c
    BY <1>1
  <2>2. ShimWords = 6
    BY DEF ShimWords
  <2> HIDE DEF at, len, end, w
  <2>3. Rewrite(f) = [ncmds |-> f.ncmds + 1 - Anchor(f).count, size |-> Grown(f), words |->
          [j \in 1..Len(f.words) |->
             IF j \in Anchor(f).at..((Anchor(f).at + ShimWords) - 1)
             THEN ShimCommand[j + 1 - Anchor(f).at]
             ELSE IF j \in (Anchor(f).at + ShimWords)..Grown(f)
             THEN f.words[j + Anchor(f).len - ShimWords]
             ELSE f.words[j]]]
    BY DEF Rewrite
  <2> QED BY <1>8, <2>1, <2>2, <2>3, Zenon DEF w
<1>11. /\ g.ncmds = n + 1 - c /\ g.size = end /\ g.words = new
       /\ Len(new) = Len(w)
  BY <1>2, <1>10
<1>12. /\ \A j \in 1..6 : ShimCommand[j] \in Word /\ ShimCommand[j].len \in Nat
       /\ DOMAIN ShimCommand = 1..6
       /\ ShimCommand[1].len = 6
  <2>1. ShimCommand = [j \in 1..6 |-> [kind |-> IF j = 1 THEN "load_dylib" ELSE "body",
                                    len  |-> IF j = 1 THEN 6 ELSE 0,
                                    tag  |-> j]]
    BY DEF ShimCommand, ShimWords
  <2>2. ASSUME NEW j \in 1..6 PROVE ShimCommand[j] \in Word /\ ShimCommand[j].len \in Nat
    <3>1. ShimCommand[j] = [kind |-> IF j = 1 THEN "load_dylib" ELSE "body",
                            len  |-> IF j = 1 THEN 6 ELSE 0,
                            tag  |-> j]
      BY <2>1
    <3>2. CASE j = 1
      <4>1. ShimCommand[j] = [kind |-> "load_dylib", len |-> 6, tag |-> 1]
        BY <3>1, <3>2
      <4> QED BY <4>1 DEF Word, Kind
    <3>3. CASE j # 1
      <4>1. ShimCommand[j] = [kind |-> "body", len |-> 0, tag |-> j]
        BY <3>1, <3>3
      <4> QED BY <4>1 DEF Word, Kind
    <3> QED BY <3>2, <3>3
  <2> QED BY <2>1, <2>2
<1>13. \A j \in 1..Len(w) : w[j] \in Word /\ w[j].len \in Nat
  <2>1. \A j \in 1..Len(w) : w[j] \in Word
    <3> HIDE DEF w
    <3> QED BY <1>s
  <2> QED BY <2>1 DEF Word
<1>14. /\ \A j \in 1..Len(w) : j < at => new[j] = w[j]
       /\ \A j \in 1..6 : at + j - 1 \in 1..Len(w) /\ new[at + j - 1] = ShimCommand[j]
       /\ \A j \in Nat : j >= at + len /\ j <= f.size =>
            /\ j + 6 - len \in 1..Len(w) /\ j + 6 - len \in Nat
            /\ new[j + 6 - len] = w[j]
       /\ \A j \in 1..Len(w) : j > end => new[j] = w[j]
  <2> DEFINE sz == f.size
  <2>1. at \in Nat \ {0} /\ len \in Nat \ {0} /\ sz \in Nat /\ Len(w) \in Nat
    BY <1>2, <1>7
  <2>2. /\ at + len <= sz + 1 /\ end = sz + 6 - len
        /\ at + 6 - 1 <= end /\ end <= Len(w) /\ end \in Nat
    BY <1>7, <1>9
  <2> HIDE DEF at, len, sz, end, w
  <2>3. \A j \in 1..Len(w) : j < at => new[j] = w[j]
    <3> SUFFICES ASSUME NEW j \in 1..Len(w), j < at PROVE new[j] = w[j]
      OBVIOUS
    <3> HIDE DEF n
    <3>1. j \notin at..((at + 6) - 1) /\ j \notin (at + 6)..end
      BY <2>1
    <3> QED BY <3>1
  <2>4. ASSUME NEW j \in 1..6
        PROVE  at + j - 1 \in 1..Len(w) /\ new[at + j - 1] = ShimCommand[j]
    <3>1. /\ at + j - 1 \in 1..Len(w) /\ at + j - 1 \in at..((at + 6) - 1)
          /\ (at + j - 1) + 1 - at = j
      BY <2>1, <2>2
    <3> QED BY <3>1
  <2>5. ASSUME NEW j \in Nat, j >= at + len, j <= sz
        PROVE  /\ j + 6 - len \in 1..Len(w) /\ j + 6 - len \in Nat
               /\ new[j + 6 - len] = w[j]
    <3> DEFINE k == j + 6 - len
    <3>1. /\ k \in 1..Len(w) /\ k \in Nat /\ k \notin at..((at + 6) - 1) /\ k \in (at + 6)..end
          /\ k + len - 6 = j
      BY <2>1, <2>2, <2>5
    <3> HIDE DEF k
    <3>2. new[k] = w[j]
      BY <3>1
    <3> QED BY <3>1, <3>2 DEF k
  <2>6. \A j \in 1..Len(w) : j > end => new[j] = w[j]
    BY <2>1, <2>2
  <2> QED BY <2>3, <2>4, <2>5, <2>6 DEF sz
<1>15. g \in File
  <2>1. \A j \in 1..Len(w) : new[j] \in Word
    <3> SUFFICES ASSUME NEW j \in 1..Len(w) PROVE new[j] \in Word
      OBVIOUS
    <3>1. CASE j \in at..((at + 6) - 1)
      <4>1. j + 1 - at \in 1..6
        <5> HIDE DEF at
        <5> QED BY <1>2, <1>7, <3>1
      <4> HIDE DEF at, end, len
      <4> QED BY <1>12, <3>1, <4>1
    <3>2. CASE j \notin at..((at + 6) - 1) /\ j \in (at + 6)..end
      <4>1. j + len - 6 \in 1..Len(w)
        <5>1. end = f.size + 6 - len
          OBVIOUS
        <5> HIDE DEF n, b, at, end, len, w
        <5>2. j \in Nat /\ j >= at + 6 /\ j <= end
          BY <1>2, <1>7, <3>2
        <5>3. j + len - 6 >= 1 /\ j + len - 6 <= f.size
          BY <1>2, <1>7, <5>1, <5>2
        <5> QED BY <1>2, <1>4, <1>7, <5>2, <5>3
      <4> HIDE DEF at, end, len
      <4> QED BY <1>13, <3>2, <4>1
    <3>3. CASE j \notin at..((at + 6) - 1) /\ j \notin (at + 6)..end
      <4> HIDE DEF at, end, len
      <4> QED BY <1>13, <3>3
    <3> HIDE DEF at, end, len, new
    <3> QED BY <3>1, <3>2, <3>3
  <2>2. new \in Seq(Word)
    <3>1. new = [j \in 1..Len(w) |-> new[j]]
      OBVIOUS
    <3> HIDE DEF new
    <3>2. new \in [1..Len(w) -> Word]
      BY <2>1, <3>1
    <3> HIDE DEF w
    <3> QED BY <1>2, <3>2
  <2>3. end \in Nat
    BY <1>7
  <2> HIDE DEF new, end
  <2> QED BY <1>3, <1>10, <2>2, <2>3 DEF File
<1>16. /\ h[1] = 1
       /\ \A k \in 1..i : h[k] = b[k]
       /\ \A k \in (i + 1)..(n + 2 - c) : h[k] = b[k + c - 1] + 6 - len
  <2> HIDE DEF b, len
  <2>1. /\ 1 \in 1..i /\ \A k \in 1..i : k \in 1..(n + 2 - c) /\ k <= i
        /\ \A k \in (i + 1)..(n + 2 - c) : k \in 1..(n + 2 - c) /\ ~(k <= i)
    <3> HIDE DEF n
    <3> QED BY <1>2, <1>3
  <2>2. \A k \in 1..i : h[k] = b[k]
    BY <2>1
  <2>3. \A k \in (i + 1)..(n + 2 - c) : h[k] = b[k + c - 1] + 6 - len
    BY <2>1
  <2> QED BY <1>6, <2>1, <2>2, <2>3
<1>17. ASSUME NEW k \in 1..g.ncmds PROVE h[k + 1] = After(g, h[k])
  <2>1. k \in 1..(n + 1 - c) /\ k \in Nat
    BY <1>2, <1>3, <1>11
  <2>2. After(g, h[k]) = IF h[k] <= Len(w) THEN h[k] + new[h[k]].len ELSE h[k]
    <3> HIDE DEF g, new, h, w
    <3> QED BY <1>11 DEF After
  <2>3. CASE k < i
    <3>1. k \in 1..n /\ k \in 1..(n + 1) /\ k \in 1..i /\ k + 1 \in 1..i
      BY <1>2, <1>3, <2>1, <2>3
    <3>2. h[k] = b[k] /\ h[k + 1] = b[k + 1]
      BY <1>16, <3>1
    <3>3. b[k] < at /\ b[k] \in Nat \ {0} /\ at <= Len(w)
      <4>1. b[k] < at /\ b[k] \in Nat \ {0} /\ i \in 1..(n + 1)
        BY <1>3, <1>5, <2>3, <3>1
      <4> HIDE DEF at
      <4>2. at <= Len(w)
        <5> HIDE DEF n, b, at, end, len, w
        <5> QED BY <1>2, <1>4, <1>7
      <4> QED BY <4>1, <4>2 DEF at
    <3>4. b[k] \in 1..Len(w) /\ b[k] <= Len(w) /\ b[k] < at
      <4> DEFINE x == b[k]
                 last == Len(w)
      <4>1. x < at /\ x \in Nat \ {0} /\ at <= last
        BY <3>3
      <4>2. at \in Nat /\ last \in Nat
        <5> HIDE DEF n, b, at, len, end, w
        <5> QED BY <1>2, <1>7
      <4> HIDE DEF x, at, last
      <4>3. x \in 1..last /\ x <= last /\ x < at
        BY <4>1, <4>2
      <4> QED BY <4>3 DEF x, last
    <3>5. new[b[k]] = w[b[k]]
      BY <1>14, <3>4
    <3>6. b[k + 1] = b[k] + w[b[k]].len
      BY <1>5, <3>1
    <3> HIDE DEF new, h, b, w
    <3> QED BY <2>2, <3>2, <3>4, <3>5, <3>6
  <2>4. CASE k = i
    <3>1. k \in 1..i /\ k + 1 \in (i + 1)..(n + 2 - c) /\ (i + 1) + c - 1 = i + c
      <4> HIDE DEF n
      <4> QED BY <1>2, <1>3, <2>1, <2>4
    <3>2. h[k] = at /\ h[k + 1] = b[i + c] + 6 - len
      BY <1>16, <2>4, <3>1
    <3>3. at + 1 - 1 \in 1..Len(w) /\ new[at + 1 - 1] = ShimCommand[1]
      <4> HIDE DEF at, new, w
      <4> QED BY <1>14
    <3>4. at + 1 - 1 = at
      BY <1>7
    <3>5. at <= Len(w) /\ new[at].len = 6
      <4> HIDE DEF at, new
      <4> QED BY <1>12, <3>3, <3>4, <1>2
    <3>6. h[k + 1] = at + 6
      <4> HIDE DEF at, len, h, b
      <4> QED BY <1>7, <3>2
    <3> HIDE DEF new, h, at
    <3> QED BY <2>2, <3>2, <3>5, <3>6
  <2>5. CASE k > i
    <3> DEFINE m == k + c - 1
    <3>1. /\ m \in 1..n /\ m \in 1..(n + 1) /\ m + 1 \in 1..(n + 1)
          /\ k \in (i + 1)..(n + 2 - c) /\ k + 1 \in (i + 1)..(n + 2 - c)
          /\ (k + 1) + c - 1 = m + 1
          /\ m = i + c \/ i + c < m
          /\ m < n + 1
      <4> HIDE DEF n
      <4> QED BY <1>2, <1>3, <2>1, <2>5
    <3>2. h[k] = b[m] + 6 - len /\ h[k + 1] = b[m + 1] + 6 - len
      BY <1>16, <3>1
    <3> HIDE DEF m
    <3>3. b[m] \in Nat /\ b[m] >= at + len /\ b[m] <= f.size /\ b[m] \in 1..Len(w)
      <4>1. b[m] < b[n + 1] /\ b[m] \in Nat \ {0} /\ b[n + 1] = f.size + 1
        BY <1>3, <1>4, <1>5, <3>1
      <4>2. b[m] = b[i + c] \/ b[i + c] < b[m]
        <5> HIDE DEF n, b, w, m
        <5>1. CASE m = i + c
          BY <5>1
        <5>2. CASE i + c < m
          BY <1>3, <1>5, <3>1, <5>2
        <5> QED BY <3>1, <5>1, <5>2
      <4>3. b[i + c] = at + len /\ b[i + c] \in Nat
        <5>1. b[i + c] \in Nat
          BY <1>3, <1>5
        <5> HIDE DEF n, b, at, len, end, w
        <5> QED BY <1>7, <5>1
      <4> HIDE DEF n, b, at, len, end, w
      <4> QED BY <1>2, <1>4, <1>7, <4>1, <4>2, <4>3
    <3>4. /\ b[m] + 6 - len \in 1..Len(w) /\ b[m] + 6 - len \in Nat
          /\ new[b[m] + 6 - len] = w[b[m]]
      BY <1>14, <3>3
    <3>5. b[m + 1] = b[m] + w[b[m]].len
      BY <1>5, <3>1
    <3>6. w[b[m]].len \in Nat
      BY <1>13, <3>3
    <3>7. /\ h[k] <= Len(w) /\ h[k + 1] = h[k] + w[b[m]].len
      <4> DEFINE x == b[m]
                 l == w[b[m]].len
      <4>1. /\ x \in Nat /\ l \in Nat /\ x + 6 - len \in 1..Len(w)
            /\ h[k] = x + 6 - len /\ h[k + 1] = (x + l) + 6 - len
        BY <3>2, <3>3, <3>4, <3>5, <3>6
      <4> HIDE DEF new, h, b, w, len, x, l
      <4>2. (x + l) + 6 - len = (x + 6 - len) + l
        BY <1>7, <4>1
      <4> QED BY <1>2, <4>1, <4>2 DEF x, l
    <3> HIDE DEF new, h, b, w, len
    <3> QED BY <2>2, <3>2, <3>4, <3>7
  <2> HIDE DEF h, g
  <2> QED BY <1>2, <1>3, <2>1, <2>3, <2>4, <2>5
<1>18. /\ \A k \in 1..i : Begins(g)[k] = b[k]
       /\ \A k \in (i + 1)..(g.ncmds + 1) : Begins(g)[k] = b[k + c - 1] + 6 - len
  <2>1. \A k \in 1..(g.ncmds + 1) : Begins(g)[k] = h[k]
    <3> HIDE DEF g, h
    <3> QED BY <1>15, <1>16, <1>17, BeginsUnique
  <2>2. /\ \A k \in 1..i : k \in 1..(g.ncmds + 1)
        /\ g.ncmds + 1 = n + 2 - c /\ g.ncmds + 1 \in Nat
        /\ \A k \in (i + 1)..(g.ncmds + 1) : k \in 1..(g.ncmds + 1)
    <3>1. g.ncmds = n + 1 - c
      BY <1>11
    <3> HIDE DEF g, n
    <3>2. g.ncmds + 1 = n + 2 - c /\ g.ncmds + 1 \in Nat /\ i <= g.ncmds + 1
      BY <1>2, <1>3, <3>1
    <3> QED BY <1>3, <3>2
  <2> HIDE DEF g, h, b, len
  <2> QED BY <1>16, <2>1, <2>2
<1> DEFINE old == Commands(f)
           made == Commands(g)
<1>19. \A k \in 1..n : old[k] = [j \in 1..(b[k + 1] - b[k]) |-> w[b[k] + j - 1]]
  BY DEF Commands
<1>20. \A k \in 1..g.ncmds :
         made[k] = [j \in 1..(Begins(g)[k + 1] - Begins(g)[k]) |-> new[Begins(g)[k] + j - 1]]
  <2> HIDE DEF g, new
  <2> QED BY <1>11 DEF Commands
<1>21. /\ i \in 1..g.ncmds /\ g.ncmds + c = n + 1
       /\ \A k \in 1..g.ncmds :
            /\ k < i => k \in 1..i /\ k + 1 \in 1..i /\ k \in 1..n
            /\ k \in i..g.ncmds => k + 1 \in (i + 1)..(g.ncmds + 1)
            /\ k > i => k \in (i + 1)..(g.ncmds + 1) /\ k + c - 1 \in 1..n /\ k + c - 1 >= i + c
  <2>1. g.ncmds = n + 1 - c
    BY <1>11
  <2> HIDE DEF g
  <2> HIDE DEF n
  <2> QED BY <1>2, <1>3, <2>1
<1>22. Begins(g)[g.ncmds + 1] = g.size + 1
  <2>1. g.ncmds + 1 \in (i + 1)..(g.ncmds + 1) /\ (g.ncmds + 1) + c - 1 = n + 1
    <3> DEFINE m == g.ncmds
    <3>1. m = n + 1 - c /\ n + 1 - c >= i /\ n \in Nat
      BY <1>2, <1>3, <1>11
    <3> HIDE DEF m, n, w
    <3>2. m + 1 \in (i + 1)..(m + 1) /\ (m + 1) + c - 1 = n + 1
      BY <1>3, <3>1
    <3> QED BY <3>2 DEF m
  <2>2. Begins(g)[g.ncmds + 1] = b[n + 1] + 6 - len
    BY <1>18, <2>1
  <2>3. b[n + 1] = f.size + 1 /\ g.size = f.size + (6 - len)
    BY <1>4, <1>11
  <2> HIDE DEF g, n, b, at, len, end, w
  <2> QED BY <1>2, <1>7, <2>2, <2>3
<1>23. made[i] = ShimCommand
  <2>1. Begins(g)[i] = at /\ Begins(g)[i + 1] = b[i + c] + 6 - len
    <3>1. i \in 1..i /\ i + 1 \in (i + 1)..(g.ncmds + 1) /\ (i + 1) + c - 1 = i + c
      <4>1. g.ncmds = n + 1 - c /\ n + 1 - c >= i
        BY <1>2, <1>3, <1>11
      <4> HIDE DEF g
      <4> QED BY <1>2, <1>3, <4>1
    <3> QED BY <1>18, <3>1
  <2>2. Begins(g)[i + 1] - Begins(g)[i] = 6
    <3> HIDE DEF g, at, len, b
    <3> QED BY <1>7, <2>1
  <2> HIDE DEF at, new, g, made
  <2>3. made[i] = [j \in 1..6 |-> new[at + j - 1]]
    BY <1>20, <1>21, <2>1, <2>2
  <2>4. ShimCommand = [j \in 1..6 |-> ShimCommand[j]]
    BY DEF ShimCommand, ShimWords
  <2>5. \A j \in 1..6 : new[at + j - 1] = ShimCommand[j]
    BY <1>14
  <2> QED BY <2>3, <2>4, <2>5
<1>24. ASSUME NEW k \in 1..(i - 1) PROVE made[k] = old[k]
  <2>1. k \in 1..g.ncmds /\ k < i /\ k \in Nat
    <3> DEFINE m == g.ncmds
    <3>1. m = n + 1 - c /\ n + 1 - c >= i /\ n \in Nat
      BY <1>2, <1>3, <1>11
    <3> HIDE DEF m, n, w
    <3>2. k \in 1..m /\ k < i /\ k \in Nat
      BY <1>3, <3>1
    <3> QED BY <3>2 DEF m
  <2>2. k \in 1..i /\ k + 1 \in 1..i /\ k \in 1..n
    BY <1>21, <2>1
  <2>3. Begins(g)[k] = b[k] /\ Begins(g)[k + 1] = b[k + 1]
    BY <1>18, <2>2
  <2>4. /\ b[k] \in Nat \ {0} /\ b[k + 1] \in Nat /\ b[k + 1] <= at /\ at <= Len(w) + 1
    <3>1. /\ b[k] \in Nat \ {0} /\ b[k + 1] \in Nat /\ at <= Len(w) + 1
          /\ b[k + 1] < at \/ b[k + 1] = at
      <4>1. k \in 1..(n + 1) /\ k + 1 \in 1..(n + 1) /\ i \in 1..(n + 1) /\ (k + 1 < i \/ k + 1 = i)
        <5> HIDE DEF n
        <5> QED BY <1>2, <1>3, <2>1, <2>2
      <4> QED BY <1>5, <4>1
    <3> HIDE DEF n, b, at, len, end, w
    <3> QED BY <1>7, <3>1
  <2>5. ASSUME NEW j \in 1..(b[k + 1] - b[k]) PROVE new[b[k] + j - 1] = w[b[k] + j - 1]
    <3> DEFINE x == b[k] + j - 1
    <3>1. x \in 1..Len(w) /\ x < at
      <4> DEFINE p == b[k]
                 q == b[k + 1]
      <4>1. /\ p \in Nat \ {0} /\ q \in Nat /\ q <= at /\ at <= Len(w) + 1
            /\ j \in 1..(q - p) /\ x = p + j - 1
        BY <2>4, <2>5
      <4> HIDE DEF p, q, x, at, w
      <4> QED BY <1>2, <1>7, <4>1
    <3> HIDE DEF x, new, at
    <3>2. new[x] = w[x]
      BY <1>14, <3>1
    <3> QED BY <3>2 DEF x
  <2> HIDE DEF new, g, made, old, b, w
  <2>6. made[k] = [j \in 1..(b[k + 1] - b[k]) |-> new[b[k] + j - 1]]
    BY <1>20, <2>1, <2>3
  <2>7. old[k] = [j \in 1..(b[k + 1] - b[k]) |-> w[b[k] + j - 1]]
    BY <1>19, <2>2
  <2> QED BY <2>5, <2>6, <2>7
<1>25. ASSUME NEW k \in i..(i + c - 1)
       PROVE  old[k][1].kind \in {"data_in_code", "code_signature"}
  <2>1. k \in 1..n /\ k \in 1..(n + 1) /\ k + 1 \in 1..(n + 1) /\ k < k + 1
    <3> HIDE DEF n
    <3> QED BY <1>2, <1>3
  <2>2. First(f, k).kind \in {"data_in_code", "code_signature"} /\ First(f, k) = w[b[k]]
    BY <1>1, <1>5, <2>1
  <2>3. b[k] \in Nat /\ b[k + 1] \in Nat /\ b[k] < b[k + 1]
    BY <1>5, <2>1
  <2> DEFINE p == b[k]
             q == b[k + 1]
  <2>4. p \in Nat /\ q \in Nat /\ p < q
    BY <2>3
  <2>5. old[k] = [j \in 1..(q - p) |-> w[p + j - 1]]
    BY <1>19, <2>1
  <2> HIDE DEF p, q, old, w
  <2>6. 1 \in 1..(q - p) /\ p + 1 - 1 = p
    BY <2>4
  <2>7. old[k][1] = w[p]
    BY <2>5, <2>6
  <2> QED BY <2>2, <2>7 DEF p
<1>26. ASSUME NEW k \in (i + 1)..g.ncmds PROVE made[k] = old[k + c - 1]
  <2> DEFINE m == k + c - 1
  <2>1. k \in 1..g.ncmds /\ k > i /\ k \in i..g.ncmds /\ k \in Nat
    <3> HIDE DEF g
    <3> QED BY <1>2, <1>3, <1>21
  <2>2. /\ k \in (i + 1)..(g.ncmds + 1) /\ k + 1 \in (i + 1)..(g.ncmds + 1)
        /\ m \in 1..n /\ m >= i + c /\ (k + 1) + c - 1 = m + 1
    <3> HIDE DEF g
    <3> QED BY <1>3, <1>21, <2>1
  <2>3. Begins(g)[k] = b[m] + 6 - len /\ Begins(g)[k + 1] = b[m + 1] + 6 - len
    BY <1>18, <2>2
  <2> HIDE DEF m
  <2>4. /\ b[m] \in Nat \ {0} /\ b[m + 1] \in Nat
        /\ b[m] >= at + len /\ b[m + 1] <= f.size + 1
    <3>1. /\ m \in 1..(n + 1) /\ m + 1 \in 1..(n + 1) /\ m \in Nat
          /\ (i + c = m \/ i + c < m) /\ (m + 1 = n + 1 \/ m + 1 < n + 1)
      <4> HIDE DEF n
      <4> QED BY <1>2, <1>3, <2>2
    <3>2. b[m] \in Nat \ {0} /\ b[m + 1] \in Nat
      BY <1>5, <3>1
    <3>3. (b[m] = at + len \/ at + len < b[m]) /\ (b[m + 1] = b[n + 1] \/ b[m + 1] < b[n + 1])
      <4>1. at + len = b[i + c]
        BY <1>7
      <4> HIDE DEF b, at, len
      <4> QED BY <1>3, <1>5, <3>1, <4>1
    <3> DEFINE x == b[m]
               y == b[m + 1]
               z == b[n + 1]
    <3>4. /\ x \in Nat \ {0} /\ y \in Nat /\ z = f.size + 1
          /\ x = at + len \/ at + len < x
          /\ y = z \/ y < z
      BY <1>4, <3>2, <3>3
    <3> HIDE DEF n, b, x, y, z, at, len, end
    <3>5. x \in Nat \ {0} /\ y \in Nat /\ x >= at + len /\ y <= f.size + 1
      BY <1>2, <1>7, <3>4
    <3> QED BY <3>5 DEF x, y
  <2> DEFINE p == b[m]
             q == b[m + 1]
             s == f.size
  <2>5. /\ p \in Nat \ {0} /\ q \in Nat /\ p >= at + len /\ q <= s + 1 /\ s \in Nat
        /\ at \in Nat /\ len \in Nat
    BY <1>2, <1>7, <2>4
  <2> HIDE DEF p, q, s, at, len
  <2>6. ASSUME NEW j \in 1..(q - p)
        PROVE  new[(p + 6 - len) + j - 1] = w[p + j - 1]
    <3> DEFINE x == p + j - 1
    <3>1. /\ x \in Nat /\ x >= at + len /\ x <= s
          /\ (p + 6 - len) + j - 1 = x + 6 - len
      BY <2>5
    <3> HIDE DEF x, new
    <3>2. new[x + 6 - len] = w[x]
      BY <1>14, <3>1 DEF s
    <3> QED BY <3>1, <3>2 DEF x
  <2>7. (q + 6 - len) - (p + 6 - len) = q - p
    BY <2>5
  <2>8. Begins(g)[k] = p + 6 - len /\ Begins(g)[k + 1] = q + 6 - len
    BY <2>3 DEF p, q
  <2>9. old[m] = [j \in 1..(q - p) |-> w[p + j - 1]]
    BY <1>19, <2>2 DEF p, q
  <2> HIDE DEF new, g, made, old, b, w
  <2>10. made[k] = [j \in 1..(q - p) |-> new[(p + 6 - len) + j - 1]]
    BY <1>20, <2>1, <2>7, <2>8
  <2>11. made[k] = old[m]
    BY <2>6, <2>9, <2>10
  <2> QED BY <2>11 DEF m
<1>27. ASSUME NEW j \in 1..Len(w), w[j].kind = "code" PROVE new[j] = w[j]
  <2>1. ~(j \in 1..f.size)
    BY <1>27 DEF WellFormed
  <2>2. ~(j \in (f.size + 1)..end)
    <3>1. Zero.kind # "code"
      BY DEF Zero
    <3> HIDE DEF end, w
    <3> QED BY <1>9, <1>27, <3>1
  <2>3. j > end
    <3> HIDE DEF end, w
    <3> QED BY <1>2, <1>7, <2>1, <2>2
  <2> HIDE DEF new, end, w
  <2> QED BY <1>14, <2>3
<1> HIDE DEF new, old, made, end, h, g, b, w, at, len
<1>28. \E k \in 1..g.ncmds, gone \in 1..2 :
         /\ g.ncmds + gone = f.ncmds + 1
         /\ made[k] = ShimCommand
         /\ \A m \in 1..(k - 1) : made[m] = old[m]
         /\ \A m \in k..(k + gone - 1) : old[m][1].kind \in {"data_in_code", "code_signature"}
         /\ \A m \in (k + 1)..g.ncmds : made[m] = old[m + gone - 1]
  BY <1>21, <1>23, <1>24, <1>25, <1>26
<1>29. /\ Len(g.words) = Len(f.words)
       /\ \A j \in 1..Len(f.words) : f.words[j].kind = "code" => g.words[j] = f.words[j]
  BY <1>11, <1>27 DEF w
<1> QED
  BY <1>22, <1>28, <1>29 DEF RewrittenRight, g, old, made

----------------------------------------------------------------------------
(* What is in the cache loads the library *)

(* What rewriteMachO accepts, it rewrites right.                           *)
LEMMA RewritableRight == Rewritable \subseteq Right
<1> SUFFICES ASSUME NEW v \in Rewritable, NEW f \in ImagesOf[v], WellFormed(f)
             PROVE  RewrittenRight(f)
  BY DEF Rewritable, Right
<1>1. v \in Version /\ Accepted(f)
  BY DEF Rewritable
<1>2. f \in File
  BY <1>1, CacheAssumption
<1> QED
  BY <1>1, <1>2, RewriteRight

(* The goroutines that have come past copyFile and the rewriting.          *)
Accepting == Building \ {"copy", "copying"}

(* Whatever is written is made from an executable that was accepted.       *)
ShimInv ==
  /\ \A c \in Conn : req[c].pc \in Accepting => req[c].key.body \in Rewritable
  /\ \A k \in Key : program[k].is # "absent" => k.body \in Rewritable

LEMMA ShimQuiet ==
  ASSUME ShimInv, UNCHANGED program,
         \A c \in Conn :
           \/ req'[c].pc \notin Accepting
           \/ req[c].pc \in Accepting /\ req'[c].key = req[c].key
           \/ req'[c].key.body \in Rewritable
  PROVE  ShimInv'
BY DEF ShimInv

LEMMA ShimStep ==
  ASSUME ShimInv, TypeOK, NEW c \in Conn, Step(c)
  PROVE  ShimInv'
<1>0. /\ req \in [Conn -> Request] /\ program \in [Key -> Program]
      /\ req[c].pc \in Building \cup {"lookup"} => req[c].key \in Key
  BY DEF TypeOK
<1>1. CASE \/ ReadEntitlements(c) \/ EntitlementsUnread(c) \/ Hit(c) \/ Miss(c)
           \/ LookupFails(c) \/ CopyBegins(c) \/ SignRefused(c)
  <2>1. /\ UNCHANGED program
        /\ \A d \in Conn : d # c => req'[d] = req[d]
        /\ req'[c].pc \notin Accepting
    BY <1>0, <1>1 DEF ReadEntitlements, EntitlementsUnread, Hit, Miss, LookupFails, Anew,
       CopyBegins, SignRefused, Goto, disk, Request, Accepting, Building
  <2> QED
    BY <2>1, ShimQuiet
<1>2. CASE CopyEnds(c)
  <2>1. /\ UNCHANGED program
        /\ \A d \in Conn : d # c => req'[d] = req[d]
        /\ req'[c].key = req[c].key
        /\ req[c].key.body \in Rewritable \/ req'[c].pc = "failed"
    BY <1>0, <1>2 DEF CopyEnds, Goto, Request
  <2>2. "failed" \notin Accepting
    BY DEF Accepting, Building
  <2> QED
    BY <2>1, <2>2, ShimQuiet
<1>3. CASE Inspect(c) \/ WritePlist(c) \/ WriteConstraint(c)
  <2>1. /\ UNCHANGED program
        /\ \A d \in Conn : d # c => req'[d] = req[d]
        /\ req'[c].key = req[c].key /\ req[c].pc \in Accepting
    BY <1>0, <1>3 DEF Inspect, WritePlist, WriteConstraint, Goto, At, disk, Request,
       Accepting, Building
  <2> QED
    BY <2>1, ShimQuiet
<1>4. CASE WriteBegins(c) \/ WriteEnds(c) \/ Sign(c)
  <2>1. /\ req[c].pc \in Accepting /\ req'[c].key = req[c].key
        /\ \A d \in Conn : d # c => req'[d] = req[d]
        /\ \A k \in Key : k # req[c].key => program'[k] = program[k]
    BY <1>0, <1>4 DEF WriteBegins, WriteEnds, Sign, Goto, At, Request, Accepting, Building
  <2>2. req[c].key.body \in Rewritable
    BY <2>1 DEF ShimInv
  <2> QED
    BY <2>1, <2>2 DEF ShimInv
<1> QED
  BY <1>1, <1>2, <1>3, <1>4 DEF Step

(* Whatever executables there are, and whatever fails, ends and is         *)
(* replaced meanwhile, a program that codesign would sign or that is       *)
(* answered with loads the sandbox's library and has every other command   *)
(* and the code of the executable it was made from (rewriteMachO).         *)
THEOREM ShimIsLoaded == Spec => []LoadsShim
<1>1. Init => ShimInv
  BY DEF Init, ShimInv, Absent, Idle, Accepting, Building
<1>2. TypeOK /\ ShimInv /\ [Next]_vars => ShimInv'
  <2> SUFFICES ASSUME TypeOK, ShimInv, [Next]_vars PROVE ShimInv'
    OBVIOUS
  <2>1. CASE \E c \in Conn : Step(c)
    BY <2>1, ShimStep
  <2>2. CASE \E c \in Conn : Fail(c) \/ \E e \in Exe : Ask(c, e)
    <3>1. /\ UNCHANGED program
          /\ \A d \in Conn : \/ req'[d].pc \notin Accepting
                             \/ req'[d] = req[d]
      BY <2>2 DEF Fail, Ask, Goto, disk, TypeOK, Request, Accepting, Building
    <3> QED
      BY <3>1, ShimQuiet
  <2>3. CASE \/ \E e \in Exe, v \in Version : Replace(e, v)
             \/ \E d \in Daemon : Stop(d) \/ Start(d)
             \/ UNCHANGED vars
    <3>1. /\ UNCHANGED program
          /\ \A d \in Conn : \/ req'[d].pc \notin Accepting
                             \/ req'[d] = req[d]
      BY <2>3 DEF Replace, Stop, Start, vars, disk, TypeOK, Idle, Accepting, Building
    <3> QED
      BY <3>1, ShimQuiet
  <2>4. CASE \E k \in orphans : OrphanSigns(k)
    <3>1. /\ UNCHANGED req
          /\ \A k \in Key : program[k].is = "absent" => program'[k].is = "absent"
      BY <2>4 DEF OrphanSigns, Complete, TypeOK
    <3> QED
      BY <3>1 DEF ShimInv
  <2> QED
    BY <2>1, <2>2, <2>3, <2>4 DEF Next, Rest
<1>3. ShimInv => LoadsShim
  BY RewritableRight DEF ShimInv, LoadsShim, Complete
<1> QED
  BY <1>1, <1>2, <1>3, CacheTypes, PTL DEF Spec
=============================================================================
